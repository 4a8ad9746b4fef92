--------------------------- MODULE WorkspaceFiles ---------------------------
(***************************************************************************)
(* The workspace of one sandbox as the file, git and output handlers of    *)
(* the API see it (pkg/api/sandbox_files_*.go, sandbox_clone.go,           *)
(* sandbox_diff.go, sandbox_patch.go, sandbox_output.go).                  *)
(*                                                                         *)
(* A handler takes no lock: it runs scripts in the container and copies in *)
(* and out of it with the engine, one command after the other, while other *)
(* requests and the sandbox's own processes work on the same files.        *)
(***************************************************************************)
EXTENDS Naturals, Functions

CONSTANTS
  Paths,     \* files of the workspace
  Outputs,   \* those in an output source (/artifacts, /workspace/dist, ...)
  Contents,
  Binary,    \* those that are no UTF-8
  Ignored,   \* paths that .gitignore names
  Remote,    \* the files of the repository a clone fetches
  Requests,
  MaxBegun,  \* bound: requests, and changes by the sandbox's own processes
  MaxFaults  \* bound: failing engine commands, dying scripts, full disks

Absent == "absent"
Cut == "cut"      \* what a shell redirection has opened and not yet filled
Mixed == "mixed"  \* two redirections that filled one file at once
Part == "part"    \* what a copy or an archive that broke off has left
Replaced == "replaced"  \* a content with U+FFFD for what is no UTF-8
Nobody == "nobody"
Unheard == "unheard"  \* a git whose request was given up

FilesAssumption ==
  /\ Outputs \subseteq Paths /\ Outputs # {}
  /\ Contents # {} /\ {Absent, Cut, Mixed, Part, Replaced} \intersect Contents = {}
  /\ Binary \subseteq Contents /\ Ignored \subseteq Paths
  /\ Remote \in [Paths -> Contents \union {Absent}]
  /\ {Nobody, Unheard} \intersect Requests = {} /\ MaxBegun \in Nat /\ MaxFaults \in Nat

VARIABLES
  files,   \* the content of each path, and whether it belongs to root
  head,    \* the last commit; NoRepo before /workspace is a git repository
  index,   \* paths git knows: of the commit, or "git add -N"
  lock,    \* whose git holds index.lock; a git that was killed leaves it
  dest,    \* the host directory that pulls deliver to
  archive, \* the host file that packs write: the content of each output
  wreq,    \* what each request is doing
  sure,    \* history: contents a write or push was acknowledged for, till touched
  failed,  \* history: paths of pushes that began to copy and did not chown
  begun,
  wfaults

vars == <<files, head, index, lock, dest, archive, wreq, sure, failed, begun, wfaults>>
git == <<head, index, lock>>
host == <<dest, archive>>

File == Contents \union {Absent, Cut, Mixed, Part, Replaced}
Ops == {"write", "push", "read", "clone", "diff", "patch", "pull", "pack"}
NoRepo == [p \in Paths |-> Nobody]
Nothing == [p \in Outputs |-> Absent]
Idle == [at |-> "idle", op |-> "read", path |-> CHOOSE p \in Paths : TRUE,
         content |-> Absent, todo |-> {}, staged |-> Nothing, inside |-> {}, diff |-> {},
         timedOut |-> FALSE, unadded |-> FALSE, still |-> {}]

TypeOK ==
  /\ files \in [Paths -> [content : File, root : BOOLEAN]]
  /\ head \in [Paths -> Contents \union {Absent}] \union {NoRepo}
  /\ index \subseteq Paths
  /\ lock \in Requests \union {Nobody, Unheard}
  /\ dest \in [Outputs -> [top : File, nested : File]]
  /\ archive \in [Outputs -> File]
  /\ wreq \in [Requests ->
       [at : {"idle", "run", "late", "fill", "chown", "unheard", "copy", "add", "out", "done"},
        op : Ops, path : Paths, content : File, todo : SUBSET Outputs,
        staged : [Outputs -> File], inside : SUBSET Outputs, diff : SUBSET Paths,
        timedOut : BOOLEAN, unadded : BOOLEAN, still : SUBSET Paths]]
  /\ sure \in [Paths -> Contents \union {Absent}]
  /\ failed \subseteq Paths
  /\ begun \in 0..MaxBegun /\ wfaults \in 0..MaxFaults

Init ==
  /\ files = [p \in Paths |-> [content |-> Absent, root |-> FALSE]]
  /\ head = NoRepo /\ index = {} /\ lock = Nobody
  /\ dest = [p \in Outputs |-> [top |-> Absent, nested |-> Absent]]
  /\ archive = Nothing
  /\ wreq = [r \in Requests |-> Idle]
  /\ sure = [p \in Paths |-> Absent]
  /\ failed = {} /\ begun = 0 /\ wfaults = 0

-----------------------------------------------------------------------------
(* Requests, and the files they touch.                                     *)

\* r goes on as rec; whoever looked at the paths P no longer knows them.
Goto(r, rec, P) ==
  wreq' = [q \in Requests |-> [(IF q = r THEN rec ELSE wreq[q]) EXCEPT !.still = @ \ P]]
Touch(P) == sure' = [p \in Paths |-> IF p \in P THEN Absent ELSE sure[p]]
Set(p, c, root) == files' = [files EXCEPT ![p] = [content |-> c, root |-> root]]

\* The handlers' checks: the sandbox is known, its mode is container-backed,
\* the path is inside /workspace, the body parses, a write has content (a
\* JSON string has no other than text).
Begin(r, op, p, c) ==
  /\ wreq[r].at = "idle"
  /\ begun < MaxBegun /\ begun' = begun + 1
  /\ Goto(r, [Idle EXCEPT !.at = "run", !.op = op, !.path = p, !.content = c,
                          !.still = {x \in Paths : sure[x] # Absent}], {})
  /\ UNCHANGED <<files, git, host, sure, failed, wfaults>>

\* The reply is out and the client has it.
Reply(r) ==
  /\ wreq[r].at = "done"
  /\ Goto(r, Idle, {})
  /\ UNCHANGED <<files, git, host, sure, failed, begun, wfaults>>

\* The sandbox's own processes.
Work(p, c) ==
  /\ ~files[p].root
  /\ begun < MaxBegun /\ begun' = begun + 1
  /\ Set(p, c, FALSE)
  /\ Touch({p})
  /\ \E r \in Requests : Goto(r, wreq[r], {p})
  /\ UNCHANGED <<git, host, failed, wfaults>>

-----------------------------------------------------------------------------
(* files/write, files/push, files/read.                                    *)

OpenAndAnswer(r) ==  \* as if the handler did not wait for the script
  LET p == wreq[r].path IN
  /\ wreq[r].at = "run" /\ wreq[r].op = "write" /\ ~files[p].root
  /\ Set(p, Cut, FALSE)
  /\ sure' = [sure EXCEPT ![p] = wreq[r].content]
  /\ Goto(r, [wreq[r] EXCEPT !.at = "unheard"], {p})
  /\ UNCHANGED <<git, host, failed, begun, wfaults>>

\* The script opens the file, as the sandbox user: root's file is exit 1.
\* It does so late where its request was given up before.
Going(r) == wreq[r].at \in {"run", "late"}
Then(r) == IF wreq[r].at = "run" THEN "fill" ELSE "unheard"
OpenFile(r) ==
  LET p == wreq[r].path IN
  /\ Going(r) /\ wreq[r].op = "write"
  /\ IF files[p].root
     THEN Goto(r, Idle, {}) /\ UNCHANGED <<files, sure>>
     ELSE /\ Set(p, Cut, FALSE) /\ Touch({p})
          /\ Goto(r, [wreq[r] EXCEPT !.at = Then(r)], {p})
  /\ UNCHANGED <<git, host, failed, begun, wfaults>>

\* ... and base64 fills it, or what another request made of it meanwhile.  A
\* request whose command was not given up answers 200.
Filling(p) == {q \in Requests :
  wreq[q].at \in {"fill", "unheard"} /\ wreq[q].op = "write" /\ wreq[q].path = p}
FillFile(r) ==
  LET p == wreq[r].path  c == wreq[r].content IN
  /\ r \in Filling(p)
  /\ \E x \in {c} \union (IF files[p].content = Cut THEN {} ELSE {Mixed, files[p].content}) :
       Set(p, x, files[p].root)
  /\ sure' = [sure EXCEPT ![p] =
       IF files[p].content = Cut /\ Filling(p) = {r} /\ wreq[r].at = "fill" THEN c ELSE Absent]
  /\ Goto(r, Idle, {p})
  /\ UNCHANGED <<git, host, failed, begun, wfaults>>

\* CopyTo: the engine writes as root, whoever owned the file.
CopyIn(r) ==
  LET p == wreq[r].path IN
  /\ wreq[r].at = "run" /\ wreq[r].op = "push"
  /\ Set(p, wreq[r].content, TRUE) /\ Touch({p})
  /\ Goto(r, [wreq[r] EXCEPT !.at = "chown"], {p})
  /\ failed' = failed \ {p}
  /\ UNCHANGED <<git, host, begun, wfaults>>

\* chown -R hands the path back to the sandbox user.
ChownNot(r) ==  \* as if the copy were the whole push
  /\ wreq[r].at = "chown"
  /\ Goto(r, Idle, {})
  /\ UNCHANGED <<files, git, host, sure, failed, begun, wfaults>>
Chown(r) ==
  LET p == wreq[r].path IN
  /\ wreq[r].at = "chown"
  /\ files' = [files EXCEPT ![p].root = FALSE]
  /\ failed' = failed \ {p}
  /\ sure' = [sure EXCEPT ![p] =
       IF files[p].content = wreq[r].content /\ Filling(p) = {} THEN wreq[r].content ELSE @]
  /\ Goto(r, Idle, {})
  /\ UNCHANGED <<git, host, begun, wfaults>>

\* The answer is a JSON string.
Text(c) == IF c \in Binary THEN Replaced ELSE c
Read(r) ==
  /\ wreq[r].at = "run" /\ wreq[r].op = "read"
  /\ Goto(r, [wreq[r] EXCEPT !.at = "done", !.content = Text(files[wreq[r].path].content)], {})
  /\ UNCHANGED <<files, git, host, sure, failed, begun, wfaults>>

-----------------------------------------------------------------------------
(* clone, diff and patch.                                                  *)

\* A workspace with anything in it is refused, before git starts.
CloneStarts(r) ==
  /\ Going(r) /\ wreq[r].op = "clone"
  /\ Goto(r, IF head = NoRepo /\ \A p \in Paths : files[p].content = Absent
             THEN [wreq[r] EXCEPT !.at = Then(r)] ELSE Idle, {})
  /\ UNCHANGED <<files, git, host, sure, failed, begun, wfaults>>

\* git ends: with a checkout, which keeps what came in meanwhile or writes
\* over it, or without one, when it removes all it finds.
Fetched == [p \in Paths |-> [content |-> Remote[p], root |-> FALSE]]
CloneEnds(r) ==
  LET clashes == {p \in Paths : files[p].content # Absent /\ Remote[p] # Absent} IN
  /\ wreq[r].at \in {"fill", "unheard"} /\ wreq[r].op = "clone"
  /\ \/ /\ head = NoRepo
        /\ \E kept \in SUBSET clashes :
             files' = [p \in Paths |->
               IF p \in kept \/ Remote[p] = Absent THEN files[p] ELSE Fetched[p]]
        /\ head' = Remote /\ index' = {p \in Paths : Remote[p] # Absent}
     \/ /\ files' = [p \in Paths |-> [content |-> Absent, root |-> FALSE]]
        /\ head' = NoRepo /\ index' = {}
     \/ UNCHANGED <<files, head, index>>
  /\ Touch(Paths) /\ Goto(r, Idle, Paths)
  /\ UNCHANGED <<lock, host, failed, begun, wfaults>>

Diffs == {"diff", "patch", "pull"}

\* git add -N waits for nobody: where another git holds index.lock it fails,
\* which the script does not look at.  Without a repository, exit 1: no diff,
\* and a pull without a patch.
AddStarts(r) ==
  /\ wreq[r].op \in Diffs /\ wreq[r].at = IF wreq[r].op = "pull" THEN "add" ELSE "run"
  /\ IF head = NoRepo
     THEN Goto(r, IF wreq[r].op = "pull" THEN [wreq[r] EXCEPT !.at = "done"] ELSE Idle, {})
          /\ UNCHANGED lock
     ELSE /\ Goto(r, [wreq[r] EXCEPT !.at = "out", !.unadded = lock # Nobody], {})
          /\ lock' = IF lock = Nobody THEN r ELSE lock
  /\ UNCHANGED <<files, head, index, host, sure, failed, begun, wfaults>>

Present == {p \in Paths : files[p].content # Absent}
AddEnds(r) ==
  /\ lock = r
  /\ lock' = Nobody
  /\ index' = index \union (Present \ Ignored)
  /\ UNCHANGED <<files, head, host, wreq, sure, failed, begun, wfaults>>

\* It may fail as well, or be killed and leave its lock; the script does not
\* look at that either.
AddFails(r) ==
  /\ lock = r
  /\ wfaults < MaxFaults /\ wfaults' = wfaults + 1
  /\ lock' \in {Nobody, Unheard}
  /\ Goto(r, [wreq[r] EXCEPT !.unadded = TRUE], {})
  /\ UNCHANGED <<files, head, index, host, sure, failed, begun>>

\* The git of a request that was given up.
UnheardEnds ==
  /\ lock = Unheard
  /\ lock' = Nobody
  /\ index' \in {index, index \union (IF head = NoRepo THEN {} ELSE Present \ Ignored)}
  /\ UNCHANGED <<files, head, host, wreq, sure, failed, begun, wfaults>>

\* git diff HEAD shows what git knows of.
DiffOut(r) ==
  /\ wreq[r].at = "out" /\ lock # r
  /\ Goto(r, [wreq[r] EXCEPT !.at = "done",
                !.diff = IF head = NoRepo THEN {}
                         ELSE {p \in index : files[p].content # head[p]}], {})
  /\ UNCHANGED <<files, git, host, sure, failed, begun, wfaults>>

\* The engine took the request's 30 seconds to say that the container
\* exists: the script never starts, Exec reports exit 0, and the reply is an
\* empty diff.  DiffSandbox looks at the deadline for its timed_out,
\* PatchSandbox does not.
TimedOutNever(op) == FALSE  \* as if DiffSandbox did as PatchSandbox does
TimedOut(op) == op = "diff"
DiffTooLate(r) ==
  /\ wreq[r].at = "run" /\ wreq[r].op \in {"diff", "patch"}
  /\ Goto(r, [wreq[r] EXCEPT !.at = "done", !.timedOut = TimedOut(wreq[r].op)], {})
  /\ UNCHANGED <<files, git, host, sure, failed, begun, wfaults>>

-----------------------------------------------------------------------------
(* output pull and pack.                                                   *)

\* existingOutputSources: where there is none, a pack is 404.
Sources(r) ==
  LET some == Outputs \intersect Present IN
  /\ wreq[r].at = "run" /\ wreq[r].op \in {"pull", "pack"}
  /\ Goto(r, IF some = {} /\ wreq[r].op = "pack" THEN Idle
             ELSE [wreq[r] EXCEPT !.at = "copy", !.todo = some], {})
  /\ UNCHANGED <<files, git, host, sure, failed, begun, wfaults>>

\* docker cp: a directory that is already at the destination gets the copy
\* inside, under its own name.
CopyOver(p, c) ==  \* as if what is at the destination were the copy
  IF dest[p].top # Absent THEN dest[p] ELSE [dest[p] EXCEPT !.top = c]
Delivered(p, c) ==
  IF dest[p].top = Absent THEN [dest[p] EXCEPT !.top = c] ELSE [dest[p] EXCEPT !.nested = c]
Inside(p) == IF dest[p].top = Absent THEN {} ELSE {p}

\* One source after the other; one that is gone by now fails the request.
CopyOut(r) ==
  /\ wreq[r].at = "copy"
  /\ \E p \in wreq[r].todo :
       IF files[p].content = Absent
       THEN Goto(r, Idle, {}) /\ UNCHANGED dest
       ELSE IF wreq[r].op = "pull"
       THEN /\ dest' = [dest EXCEPT ![p] = Delivered(p, files[p].content)]
            /\ Goto(r, [wreq[r] EXCEPT !.todo = @ \ {p}, !.inside = @ \union Inside(p)], {})
       ELSE /\ Goto(r, [wreq[r] EXCEPT !.todo = @ \ {p}, !.staged[p] = files[p].content], {})
            /\ UNCHANGED dest
  /\ UNCHANGED <<files, git, archive, sure, failed, begun, wfaults>>

CopiedAll(r) ==
  /\ wreq[r].at = "copy" /\ wreq[r].todo = {} /\ wreq[r].op = "pull"
  /\ Goto(r, [wreq[r] EXCEPT !.at = "add"], {})
  /\ UNCHANGED <<files, git, host, sure, failed, begun, wfaults>>

\* The outputs staged on the host become the archive; whoever wrote it before
\* counts on it no longer.
Packing(r) == wreq[r].at = "copy" /\ wreq[r].todo = {} /\ wreq[r].op = "pack"
Packed(r, rec) ==
  wreq' = [q \in Requests |-> IF q = r THEN rec
             ELSE IF wreq[q].op = "pack" THEN [wreq[q] EXCEPT !.still = {}] ELSE wreq[q]]
Pack(r) ==
  /\ Packing(r)
  /\ archive' = wreq[r].staged
  /\ Packed(r, [wreq[r] EXCEPT !.at = "done"])
  /\ UNCHANGED <<files, git, dest, sure, failed, begun, wfaults>>

\* tarGzDir: what is left to write when the file is closed may not fit on
\* the disk; nobody looks at what the Close calls return.
PackCut(r) ==
  /\ Packing(r)
  /\ wfaults < MaxFaults /\ wfaults' = wfaults + 1
  /\ archive' = [p \in Outputs |-> Part]
  /\ Packed(r, [wreq[r] EXCEPT !.at = "done"])
  /\ UNCHANGED <<files, git, dest, sure, failed, begun>>

-----------------------------------------------------------------------------
(* An engine command fails, the deadline passes, the client is gone.       *)

Failing(r) ==
  /\ wreq[r].at \in {"run", "fill", "chown", "copy", "add", "out"}
  /\ wfaults < MaxFaults /\ wfaults' = wfaults + 1

\* A pull goes on without its patch.
Failed(r) ==
  IF wreq[r].op = "pull" /\ wreq[r].at \in {"add", "out"} THEN [wreq[r] EXCEPT !.at = "done"]
  ELSE Idle

\* The command did nothing, or has stopped with the container; its git may
\* run on.
Fail(r) ==
  /\ Failing(r)
  /\ failed' = IF wreq[r].at = "chown" THEN failed \union {wreq[r].path} ELSE failed
  /\ lock' = IF lock = r THEN Unheard ELSE lock
  /\ Goto(r, Failed(r), {})
  /\ UNCHANGED <<files, head, index, host, sure, begun>>

\* The script runs on in the container: a write or a clone that is under way
\* or about to begin, a git that is about to add.
RunOn(r) ==
  /\ Failing(r)
  /\ \/ /\ wreq[r].op \in {"write", "clone"}
        /\ Goto(r, [wreq[r] EXCEPT !.at = IF @ = "run" THEN "late" ELSE "unheard"], {})
        /\ UNCHANGED lock
     \/ /\ wreq[r].op \in Diffs /\ wreq[r].at # "out" /\ lock = Nobody /\ head # NoRepo
        /\ lock' = Unheard
        /\ Goto(r, Failed(r), {})
  /\ UNCHANGED <<files, head, index, host, sure, failed, begun>>

\* A copy or an archive breaks off.
BreakOff(r) ==
  /\ Failing(r)
  /\ \/ LET p == wreq[r].path IN
        /\ wreq[r].op = "push" /\ wreq[r].at = "run"
        /\ \E c \in {Part, wreq[r].content} : Set(p, c, TRUE)
        /\ Touch({p}) /\ failed' = failed \union {p}
        /\ Goto(r, Idle, {p})
        /\ UNCHANGED host
     \/ \E p \in wreq[r].todo :
        /\ wreq[r].op = "pull" /\ wreq[r].at = "copy"
        /\ dest' = [dest EXCEPT ![p] = Delivered(p, Part)]
        /\ Goto(r, Idle, {p})
        /\ UNCHANGED <<files, archive, sure, failed>>
     \/ /\ Packing(r)
        /\ archive' = [p \in Outputs |-> Part]
        /\ Packed(r, Idle)
        /\ UNCHANGED <<files, dest, sure, failed>>
  /\ UNCHANGED <<git, begun>>

Step(r) ==
  \/ OpenFile(r) \/ FillFile(r) \/ CopyIn(r) \/ Chown(r) \/ Read(r)
  \/ CloneStarts(r) \/ CloneEnds(r)
  \/ AddStarts(r) \/ AddEnds(r) \/ AddFails(r) \/ DiffOut(r) \/ DiffTooLate(r)
  \/ Sources(r) \/ CopyOut(r) \/ CopiedAll(r) \/ Pack(r) \/ PackCut(r)
  \/ Reply(r) \/ Fail(r) \/ RunOn(r) \/ BreakOff(r)

Next ==
  \/ \E r \in Requests, p \in Paths, c \in Contents :
       Begin(r, "push", p, c) \/ (c \notin Binary /\ Begin(r, "write", p, c))
  \/ \E r \in Requests, p \in Paths : Begin(r, "read", p, Absent)
  \/ \E r \in Requests, op \in {"clone", "diff", "patch", "pull", "pack"} :
       Begin(r, op, Idle.path, Absent)
  \/ \E p \in Paths, c \in Contents \union {Absent} : Work(p, c)
  \/ UnheardEnds
  \/ \E r \in Requests : Step(r)

Spec == Init /\ [][Next]_vars

-----------------------------------------------------------------------------
(* Properties.                                                             *)

\* "Sandbox processes run unprivileged": no file is root's, but one that a
\* push is about to hand back, or that a failed push left behind.
UserOwnsFiles ==
  \A p \in Paths : files[p].root =>
    p \in failed \/ \E r \in Requests : wreq[r].at = "chown" /\ wreq[r].path = p

\* What a write was acknowledged for is what the file holds, and what reads
\* return where it is text, until someone else touches it, whatever fails in
\* between and whatever script nobody waits for begins late.
AcknowledgedIsRead ==
  /\ \A p \in Paths : sure[p] # Absent => files[p].content = sure[p]
  /\ \A r \in Requests : LET q == wreq[r] IN
       q.at = "done" /\ q.op = "read" /\ q.path \in q.still =>
         sure[q.path] \in Binary \/ q.content = sure[q.path]

\* A diff that does not say timed_out shows every acknowledged change that
\* was there from its start to its end.  It does not show what .gitignore
\* hides from it, and what its git add failed to add, of which it says nothing.
DiffIsComplete ==
  \A r \in Requests : LET q == wreq[r] IN
    q.at = "done" /\ q.op = "diff" /\ ~q.timedOut /\ ~q.unadded /\ head # NoRepo =>
      {p \in q.still : sure[p] # head[p] /\ (p \in Ignored => head[p] # Absent)} \subseteq q.diff

\* AC-9.4: once the delivery event is out, every output that was there from
\* the start of a pull to its end is at the destination, as it is in the
\* workspace - inside what was there, where something was; and what a pack
\* has from start to end is in the archive, unless nobody heard of the disk
\* that was full, or of another pack.
DeliveredIsThere ==
  \A r \in Requests : LET q == wreq[r] IN
    q.at = "done" => \A p \in Outputs \intersect q.still :
      /\ q.op = "pull" => sure[p] = IF p \in q.inside THEN dest[p].nested ELSE dest[p].top
      /\ q.op = "pack" => archive[p] \in {sure[p], Part}
=============================================================================
