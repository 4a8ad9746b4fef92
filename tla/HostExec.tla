------------------------------- MODULE HostExec -------------------------------
(***************************************************************************)
(* One command run on the host by pkg/exec/engine.go, for every sandbox    *)
(* whose mode is not "compat": /bin/sh and what it leaves running, the two *)
(* pipes, the goroutines that drain them, the output budget, the deadline  *)
(* and the reply, buffered (Run) or as NDJSON events (RunStream).          *)
(*                                                                         *)
(* The deadline kills the process the engine started and no other: a       *)
(* background process keeps the write ends of both pipes.                  *)
(*                                                                         *)
(* Nor does it reach a write to the client: the server has no write        *)
(* timeout, so a client that stops reading holds the request.              *)
(***************************************************************************)
EXTENDS Naturals

CONSTANTS
  Kinds,       \* "run", "stream": which of the two handlers answers
  Background,  \* whether the command may leave a process behind: {FALSE, TRUE}
  Stalling,    \* whether the client may stop reading: {FALSE, TRUE}
  MaxOutput,   \* Request.MaxOutput
  ChunkSize,   \* the copiers' buffer
  PipeSize,    \* what a pipe holds before its writer blocks
  MaxBytes     \* bound: what a command writes to one stream

ASSUME ExecAssumption ==
  /\ Kinds \subseteq {"run", "stream"}
  /\ Background \subseteq BOOLEAN /\ Stalling \subseteq BOOLEAN
  /\ MaxOutput \in Nat \ {0} /\ ChunkSize \in Nat \ {0}
  /\ PipeSize \in Nat \ {0} /\ MaxBytes \in Nat

Streams == {"stdout", "stderr"}

VARIABLES
  kind,       \* the handler
  shell,      \* the process the engine started
  helper,     \* a background process of the command
  ctx,        \* the request's context
  reading,    \* whether the client takes what it is sent
  wrote,      \* bytes the command has written, per stream
  pipe,       \* bytes in each pipe
  copier,     \* where each copying goroutine is, and the chunk it holds
  totalOut,   \* RunStream's budget counter
  kept,       \* bytes handed to the writer (stream) or buffered (run)
  truncated,
  mixed,      \* history: two copiers were in the one writer at once
  reply       \* the result or the done event

process == <<kind, shell, helper, ctx, reading>>
output  == <<totalOut, kept, truncated, mixed>>
vars    == <<process, wrote, pipe, copier, output, reply>>

NoReply == [at |-> "none", truncated |-> FALSE, timedOut |-> FALSE,
            shown |-> [s \in Streams |-> 0]]

TypeOK ==
  /\ kind \in Kinds
  /\ shell \in {"running", "exited", "killed"}
  /\ helper \in {"none", "alive", "gone"}
  /\ ctx \in {"live", "expired", "gone"}
  /\ reading \in BOOLEAN
  /\ wrote \in [Streams -> 0..MaxBytes]
  /\ pipe \in [Streams -> Nat]
  /\ copier \in [Streams -> [at : {"read", "budget", "write", "flush", "done"}, chunk : Nat]]
  /\ totalOut \in Nat
  /\ kept \in [Streams -> Nat]
  /\ truncated \in BOOLEAN
  /\ mixed \in BOOLEAN
  /\ reply \in [at : {"none", "writing", "done"}, truncated : BOOLEAN,
                timedOut : BOOLEAN, shown : [Streams -> Nat]]

Init ==
  /\ kind \in Kinds
  /\ shell = "running" /\ helper = "none" /\ ctx = "live"
  /\ reading = TRUE
  /\ wrote = [s \in Streams |-> 0]
  /\ pipe = [s \in Streams |-> 0]
  /\ copier = [s \in Streams |-> [at |-> "read", chunk |-> 0]]
  /\ totalOut = 0 /\ kept = [s \in Streams |-> 0] /\ truncated = FALSE
  /\ mixed = FALSE /\ reply = NoReply

-----------------------------------------------------------------------------
(* The processes.                                                          *)

\* Both pipes stay open for writing while either process lives.
HeldOpen == shell = "running" \/ helper = "alive"

Produce(s) ==
  /\ HeldOpen
  /\ pipe[s] < PipeSize
  /\ wrote[s] < MaxBytes
  /\ wrote' = [wrote EXCEPT ![s] = @ + 1]
  /\ pipe'  = [pipe EXCEPT ![s] = @ + 1]
  /\ UNCHANGED <<process, copier, output, reply>>

Fork ==
  /\ TRUE \in Background
  /\ shell = "running" /\ helper = "none"
  /\ helper' = "alive"
  /\ UNCHANGED <<kind, shell, ctx, reading, wrote, pipe, copier, output, reply>>

ShellExits ==
  /\ shell = "running"
  /\ shell' = "exited"
  /\ UNCHANGED <<kind, helper, ctx, reading, wrote, pipe, copier, output, reply>>

HelperExits ==
  /\ helper = "alive"
  /\ helper' = "gone"
  /\ UNCHANGED <<kind, shell, ctx, reading, wrote, pipe, copier, output, reply>>

\* The deadline passes, or the client hangs up.
ContextEnds(why) ==
  /\ ctx = "live"
  /\ ctx' = why
  /\ UNCHANGED <<kind, shell, helper, reading, wrote, pipe, copier, output, reply>>

\* The client stops reading what it is sent, or reads on.
ClientStalls ==
  /\ TRUE \in Stalling
  /\ reading' = ~reading
  /\ UNCHANGED <<kind, shell, helper, ctx, wrote, pipe, copier, output, reply>>

\* Mutant: only a client that hangs up is noticed.
KillOnHangup ==
  /\ ctx = "gone"
  /\ shell = "running"
  /\ shell' = "killed"
  /\ UNCHANGED <<kind, helper, ctx, reading, wrote, pipe, copier, output, reply>>

\* exec.CommandContext's watcher: the shell, not its process group.
Kill ==
  /\ ctx # "live"
  /\ shell = "running"
  /\ shell' = "killed"
  /\ UNCHANGED <<kind, helper, ctx, reading, wrote, pipe, copier, output, reply>>

-----------------------------------------------------------------------------
(* The copiers.                                                            *)

Least(m, n) == IF m <= n THEN m ELSE n

\* Run's copiers append to a bytes.Buffer without any limit.
Buffer(s) ==
  /\ kind = "run"
  /\ copier[s].at = "read"
  /\ pipe[s] > 0
  /\ LET n == Least(pipe[s], ChunkSize)
     IN  /\ pipe' = [pipe EXCEPT ![s] = @ - n]
         /\ kept' = [kept EXCEPT ![s] = @ + n]
  /\ UNCHANGED <<process, wrote, copier, totalOut, truncated, mixed, reply>>

\* Mutant: a short read is taken for a full buffer.
ReadFullBuffer(s) ==
  /\ kind = "stream"
  /\ copier[s].at = "read"
  /\ pipe[s] > 0
  /\ pipe' = [pipe EXCEPT ![s] = @ - ChunkSize]
  /\ copier' = [copier EXCEPT ![s] = [at |-> "budget", chunk |-> ChunkSize]]
  /\ UNCHANGED <<process, wrote, output, reply>>

Read(s) ==
  /\ kind = "stream"
  /\ copier[s].at = "read"
  /\ pipe[s] > 0
  /\ LET n == Least(pipe[s], ChunkSize)
     IN  /\ pipe' = [pipe EXCEPT ![s] = @ - n]
         /\ copier' = [copier EXCEPT ![s] = [at |-> "budget", chunk |-> n]]
  /\ UNCHANGED <<process, wrote, output, reply>>

\* Mutant: the chunk that meets the limit is sent whole.
SpendWholeChunk(s) ==
  /\ copier[s].at = "budget"
  /\ totalOut < MaxOutput
  /\ totalOut' = totalOut + copier[s].chunk
  /\ copier'   = [copier EXCEPT ![s].at = "write"]
  /\ UNCHANGED <<process, wrote, pipe, kept, truncated, mixed, reply>>

\* Under mu: take what the budget leaves of the chunk.
Spend(s) ==
  /\ copier[s].at = "budget"
  /\ totalOut < MaxOutput
  /\ LET n == Least(copier[s].chunk, MaxOutput - totalOut)
     IN  /\ truncated' = (truncated \/ n < copier[s].chunk)
         /\ totalOut'  = totalOut + n
         /\ copier'    = [copier EXCEPT ![s] = [at |-> "write", chunk |-> n]]
  /\ UNCHANGED <<process, wrote, pipe, kept, mixed, reply>>

\* Mutant: what comes after the limit is dropped and not mentioned.
DiscardSilently(s) ==
  /\ copier[s].at = "budget"
  /\ totalOut >= MaxOutput
  /\ copier' = [copier EXCEPT ![s] = [at |-> "read", chunk |-> 0]]
  /\ UNCHANGED <<process, wrote, pipe, output, reply>>

Discard(s) ==
  /\ copier[s].at = "budget"
  /\ totalOut >= MaxOutput
  /\ truncated' = TRUE
  /\ copier' = [copier EXCEPT ![s] = [at |-> "read", chunk |-> 0]]
  /\ UNCHANGED <<process, wrote, pipe, totalOut, kept, mixed, reply>>

\* writeEvent, after mu is released: both copiers write to one bufio.Writer
\* and flush it, and nothing keeps them from doing it at once.
WriteEvent(s) ==
  /\ copier[s].at = "write"
  /\ kept' = [kept EXCEPT ![s] = @ + copier[s].chunk]
  /\ mixed' = (mixed \/ \E r \in Streams \ {s} : copier[r].at = "flush")
  /\ copier' = [copier EXCEPT ![s] = [at |-> "flush", chunk |-> 0]]
  /\ UNCHANGED <<process, wrote, pipe, totalOut, truncated, reply>>

\* A write to the client ends when the client takes it, or fails (and nobody
\* looks at the error) when the client has hung up.
CanWrite == reading \/ ctx = "gone"

Flushed(s) ==
  /\ copier[s].at = "flush"
  /\ CanWrite
  /\ copier' = [copier EXCEPT ![s].at = "read"]
  /\ UNCHANGED <<process, wrote, pipe, output, reply>>

Eof(s) ==
  /\ copier[s].at = "read"
  /\ pipe[s] = 0 /\ ~HeldOpen
  /\ copier' = [copier EXCEPT ![s].at = "done"]
  /\ UNCHANGED <<process, wrote, pipe, output, reply>>

\* What a client can make out of a stream: all that was handed to the writer,
\* unless two writes raced in it, which may lose or repeat any part of it.
Legible == IF mixed THEN [Streams -> 0..2 * MaxOutput] ELSE {kept}

\* Both copiers are done, then the shell is waited for.  Run looks at stdout
\* alone to say whether something was cut.
Drained == \A s \in Streams : copier[s].at = "done"

Finish ==
  /\ reply.at = "none"
  /\ Drained
  /\ shell # "running"
  /\ \E cut \in BOOLEAN,
        shown \in IF kind = "stream" THEN Legible
                  ELSE {[s \in Streams |-> Least(kept[s], MaxOutput)]} :
       /\ cut <=> IF kind = "stream" THEN truncated ELSE kept["stdout"] > MaxOutput
       /\ reply' = [at |-> "writing", truncated |-> cut,
                    timedOut |-> (ctx = "expired"), shown |-> shown]
  /\ UNCHANGED <<process, wrote, pipe, copier, output>>

\* The done event or the JSON body.
Answered ==
  /\ reply.at = "writing"
  /\ CanWrite
  /\ reply' = [reply EXCEPT !.at = "done"]
  /\ UNCHANGED <<process, wrote, pipe, copier, output>>

CopierStep(s) ==
  \/ Buffer(s) \/ Read(s) \/ Spend(s) \/ Discard(s)
  \/ WriteEvent(s) \/ Flushed(s) \/ Eof(s)

Next ==
  \/ \E s \in Streams : Produce(s) \/ CopierStep(s)
  \/ Fork \/ ShellExits \/ HelperExits
  \/ \E why \in {"expired", "gone"} : ContextEnds(why)
  \/ ClientStalls
  \/ Kill \/ Finish \/ Answered

Spec == Init /\ [][Next]_vars

\* The timer fires, the watcher kills, the engine's goroutines run, and a write
\* to a client that reads, or has hung up, ends.  The command's processes and
\* the client owe nothing: they may run, and may not read, for ever.
FairSpec ==
  /\ Spec
  /\ WF_vars(ContextEnds("expired")) /\ WF_vars(Kill)
  /\ WF_vars(Finish) /\ WF_vars(Answered)
  /\ \A s \in Streams : WF_vars(CopierStep(s))

-----------------------------------------------------------------------------
(* What holds.                                                             *)

\* Two copiers that spend one budget never overspend it: no more is handed to
\* the client's writer.
BudgetKept ==
  kind = "stream" => kept["stdout"] + kept["stderr"] <= MaxOutput

\* A streamed reply owns up to every byte the budget dropped, and to nothing
\* else, whichever copier met the limit: truncated exactly when less went to
\* the writer than the command wrote before its pipes closed.  What the client
\* can read is what went there, but for a stream whose two copiers were in the
\* writer at once: there the flag says nothing of what the race lost.
TruncatedIsExact ==
  reply.at = "done" /\ kind = "stream" =>
    /\ reply.truncated <=> \E s \in Streams : kept[s] < wrote[s]
    /\ ~mixed => (reply.truncated <=> \E s \in Streams : reply.shown[s] < wrote[s])

\* The request ends, however long the shell would run: the deadline kills it
\* and the pipes close, as long as no background process holds them, and the
\* client takes what it is sent or hangs up.
RequestEnds ==
  (helper # "alive" /\ CanWrite) ~> (helper = "alive" \/ ~CanWrite \/ reply.at = "done")

-----------------------------------------------------------------------------
(* What the documents say and the code does not do.                        *)

\* F05: "Timeout in HTTP layer (request doesn't hang indefinitely)".
EveryRequestEnds == <>(reply.at = "done")
=============================================================================
