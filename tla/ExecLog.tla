------------------------------- MODULE ExecLog -------------------------------
(***************************************************************************)
(* The exec log of one sandbox (pkg/logs): for run n the files             *)
(* exec-n.stdout, exec-n.stderr and exec-n.json, written by the exec       *)
(* handlers and read by the log handlers (pkg/api/sandbox_logs.go).        *)
(*                                                                         *)
(* Every exec makes a Manager of its own, which goes on from the number of *)
(* .stdout files it finds.  No lock is held, over requests or over steps.  *)
(***************************************************************************)
EXTENDS Naturals, FiniteSets

CONSTANTS
  Execs,      \* the commands that are recorded
  MaxCrashes  \* bound: daemon crashes and failed writes

ExecLogAssumption ==
  /\ MaxCrashes \in Nat
  /\ IsFiniteSet(Execs) /\ Execs \cap {"none", "torn"} = {}

Numbers == 1..Cardinality(Execs)
Streams == {"stdout", "stderr"}
Parts == Streams \union {"json"}
Contents == Execs \union {"none", "torn"}

VARIABLES
  entry,    \* whose output or record each file exec-n.<part> holds
  exec,     \* what each exec does with the log
  known,    \* whether the sandbox store still has the sandbox
  listing,  \* what a client was last told: numbers and whose entries they are
  fetched,  \* what came back for a listed entry
  raced,    \* history: numbers two execs took at once
  crashes

vars == <<entry, exec, known, listing, fetched, raced, crashes>>

Steps == {"running", "mkdir", "stdout", "stderr", "json", "done"}
NoFiles == [n \in Numbers |-> [part \in Parts |-> "none"]]
Unlisted == [n \in Numbers |-> "none"]

TypeOK ==
  /\ entry \in [Numbers -> [Parts -> Contents]]
  /\ exec \in [Execs -> [at : Steps, seq : {0} \union Numbers]]
  /\ known \in BOOLEAN
  /\ listing \in [Numbers -> Execs \union {"none"}]
  /\ fetched \in [n : {0} \union Numbers, result : {"none", "same", "other", "missing"}]
  /\ raced \subseteq Numbers
  /\ crashes \in 0..MaxCrashes

Init ==
  /\ entry = NoFiles
  /\ exec = [e \in Execs |-> [at |-> "running", seq |-> 0]]
  /\ known = TRUE
  /\ listing = Unlisted
  /\ fetched = [n |-> 0, result |-> "none"]
  /\ raced = {} /\ crashes = 0

-----------------------------------------------------------------------------
(* Manager.Record, for one exec.                                           *)

Present(part) == {n \in Numbers : entry[n][part] # "none"}

\* NewManager: the glob exec-*.stdout.
SequenceOfEntries == Cardinality(Present("json"))  \* as if the glob were exec-*.json
Sequence == Cardinality(Present("stdout"))

Recording(e) == exec[e].at \in {"mkdir"} \union Parts

\* The command has ended: NewManager, then the next number.
OpenLog(e) ==
  /\ exec[e].at = "running"
  /\ exec' = [exec EXCEPT ![e] = [at |-> "mkdir", seq |-> Sequence + 1]]
  /\ raced' = raced \union
       {n \in {Sequence + 1} : \E o \in Execs \ {e} : Recording(o) /\ exec[o].seq = n}
  /\ UNCHANGED <<entry, known, listing, fetched, crashes>>

EnsureDir(e) ==
  /\ exec[e].at = "mkdir"
  /\ exec' = [exec EXCEPT ![e].at = "stdout"]
  /\ UNCHANGED <<entry, known, listing, fetched, raced, crashes>>

\* The order in which Record writes the three files.
AfterStdoutEntry == [stdout |-> "json", json |-> "stderr", stderr |-> "done"]  \* as if stderr came last
After == [stdout |-> "stderr", stderr |-> "json", json |-> "done"]

\* os.WriteFile.  DELETE may have removed the directory since: the write
\* fails, and Record gives up.
WriteFile(e) ==
  /\ exec[e].at \in Parts
  /\ LET n == exec[e].seq  part == exec[e].at IN
       \/ /\ entry' = [entry EXCEPT ![n][part] = e]
          /\ exec' = [exec EXCEPT ![e].at = After[part]]
       \/ /\ ~known
          /\ exec' = [exec EXCEPT ![e].at = "done"]
          /\ UNCHANGED entry
  /\ UNCHANGED <<known, listing, fetched, raced, crashes>>

\* Record's error is dropped: a full disk, or the death of the daemon, leaves
\* a cut file at most and the exec is never recorded.
Crash ==
  /\ crashes < MaxCrashes
  /\ crashes' = crashes + 1
  /\ \E torn \in SUBSET {<<exec[e].seq, exec[e].at>> : e \in {o \in Execs : exec[o].at \in Parts}} :
       entry' = [n \in Numbers |->
         [part \in Parts |-> IF <<n, part>> \in torn THEN "torn" ELSE entry[n][part]]]
  /\ exec' = [e \in Execs |-> IF Recording(e) THEN [exec[e] EXCEPT !.at = "done"] ELSE exec[e]]
  /\ UNCHANGED <<known, listing, fetched, raced>>

\* DELETE removes sandboxes/<id> and all below it.  An exec that is recording
\* may make the directory again, and stays behind there.
DeleteSandbox ==
  /\ known
  /\ known' = FALSE
  /\ entry' = NoFiles
  /\ UNCHANGED <<exec, listing, fetched, raced, crashes>>

-----------------------------------------------------------------------------
(* The log handlers: 404 once the store has forgotten the sandbox.         *)

\* List, History and the action "get": the .json files that parse.  What
\* those of execs recording at that moment show may be old, new or cut.
ShownUnparsed(n) == entry[n]["json"]  \* as if an entry that does not parse were listed
Shown(n) == IF entry[n]["json"] \in Execs THEN entry[n]["json"] ELSE "none"
List ==
  /\ known
  /\ listing' = [n \in Numbers |-> Shown(n)]
  /\ fetched' = [n |-> 0, result |-> "none"]
  /\ UNCHANGED <<entry, exec, known, raced, crashes>>

\* The actions "stdout" and "stderr" for a number the client was told.
Fetch(n, stream) ==
  /\ listing[n] # "none"
  /\ fetched' = [n |-> n,
       result |-> IF ~known \/ entry[n][stream] = "none" THEN "missing"
                  ELSE IF entry[n][stream] = listing[n] THEN "same" ELSE "other"]
  /\ UNCHANGED <<entry, exec, known, listing, raced, crashes>>

Next ==
  \/ \E e \in Execs : OpenLog(e) \/ EnsureDir(e) \/ WriteFile(e)
  \/ Crash \/ DeleteSandbox \/ List
  \/ \E n \in Numbers, stream \in Streams : Fetch(n, stream)

Spec == Init /\ [][Next]_vars

-----------------------------------------------------------------------------
(* Properties.                                                             *)

\* What a listing names can be read, in both streams, until the sandbox is
\* deleted, and it is the output of the exec the listing named, except for
\* a number two execs took at once.
ListedCanBeRead ==
  /\ fetched.result = "missing" => ~known
  /\ fetched.result = "other" => fetched.n \in raced

\* "Entries are never overwritten across daemon restarts or manager
\* instances": the files of a number keep the exec they are of, across
\* crashes and failed writes, until the sandbox is deleted; except for
\* numbers two execs took at once.
NeverOverwritten ==
  [][\A n \in Numbers, p \in Parts :
       known' /\ n \notin raced /\ entry[n][p] # "none" => entry'[n][p] = entry[n][p]]_vars
=============================================================================
