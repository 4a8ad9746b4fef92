---------------------------- MODULE ShellSession ----------------------------
(***************************************************************************)
(* The session of pkg/api/sandbox_shell.go after its upgrade: a shell of   *)
(* the host between a websocket and four goroutines.  What the client      *)
(* types goes from the socket (reader) through an io.Pipe to exec's own    *)
(* copier (feeder) and the shell's stdin; what is written goes through     *)
(* exec's other copier (drainer) and an io.Pipe to the socket (sender).    *)
(*                                                                         *)
(* An io.Pipe holds nothing: its writer waits for its reader, for ever.    *)
(* cmd.Wait waits for the shell and for both copiers.  The sandbox is      *)
(* EXECUTING until the handler returns.                                    *)
(***************************************************************************)
EXTENDS Naturals

CONSTANTS
  PipeSize,  \* messages, or chunks of output, a pipe of the kernel holds
  MaxTyped,  \* bound: messages of the client
  MaxOutput  \* bound: chunks the session's processes write

ShellAssumption == PipeSize \in Nat \ {0} /\ MaxTyped \in Nat /\ MaxOutput \in Nat

Goroutines == {"reader", "feeder", "drainer", "sender"}

VARIABLES
  client,   \* "here" while the client holds its end of the socket
  typed,    \* messages the client has sent
  socket,   \* messages on their way to the daemon
  at,       \* where each goroutine is: at its read, at its write, or over
  shell,    \* the process cmd.Start started
  helper,   \* a process it left behind, with its output
  stdin,    \* messages in the pipe to the shell
  stdout,   \* chunks in the pipe from the shell
  written,  \* chunks the processes wrote
  sent,     \* chunks the client was sent
  handler   \* in cmd.Wait, waiting for the sender, or returned

peer == <<client, typed, socket>>
processes == <<shell, helper>>
input == <<socket, stdin>>
output == <<stdout, written, sent>>
vars == <<client, typed, input, at, processes, output, handler>>

TypeOK ==
  /\ client \in {"here", "gone"}
  /\ typed \in 0..MaxTyped /\ socket \in 0..typed
  /\ at \in [Goroutines -> {"read", "write", "over"}]
  /\ shell \in {"running", "exited"} /\ helper \in {"none", "alive", "gone"}
  /\ stdin \in 0..PipeSize /\ stdout \in 0..PipeSize
  /\ written \in 0..MaxOutput /\ sent \in 0..written
  /\ handler \in {"wait", "drain", "returned"}

Init ==
  /\ client = "here" /\ typed = 0 /\ socket = 0
  /\ at = [g \in Goroutines |-> "read"]
  /\ shell = "running" /\ helper = "none"
  /\ stdin = 0 /\ stdout = 0 /\ written = 0 /\ sent = 0
  /\ handler = "wait"

-----------------------------------------------------------------------------
(* The client and the processes.                                           *)

Type ==
  /\ client = "here" /\ handler # "returned"
  /\ typed < MaxTyped
  /\ typed' = typed + 1 /\ socket' = socket + 1
  /\ UNCHANGED <<client, at, processes, stdin, output, handler>>

\* The end of the client's own input is not a message: runShell reads on.
Leave ==
  /\ client = "here"
  /\ client' = "gone"
  /\ UNCHANGED <<typed, input, at, processes, output, handler>>

ShellReads ==
  /\ shell = "running" /\ stdin > 0
  /\ stdin' = stdin - 1
  /\ UNCHANGED <<peer, at, processes, output, handler>>

\* The shell or what it left behind; a full pipe blocks them.
Produce ==
  /\ shell = "running" \/ helper = "alive"
  /\ stdout < PipeSize /\ written < MaxOutput
  /\ stdout' = stdout + 1 /\ written' = written + 1
  /\ UNCHANGED <<peer, stdin, at, processes, sent, handler>>

Fork ==
  /\ shell = "running" /\ helper = "none"
  /\ helper' = "alive"
  /\ UNCHANGED <<peer, stdin, at, shell, output, handler>>

\* On `exit`, on the end of its input, or for any other reason.
ShellExits ==
  /\ shell = "running"
  /\ shell' = "exited"
  /\ UNCHANGED <<peer, stdin, at, helper, output, handler>>

HelperExits ==
  /\ helper = "alive"
  /\ helper' = "gone"
  /\ UNCHANGED <<peer, stdin, at, shell, output, handler>>

-----------------------------------------------------------------------------
(* What is typed.                                                          *)

ReadMessage ==
  /\ at["reader"] = "read" /\ socket > 0 /\ handler # "returned"
  /\ socket' = socket - 1
  /\ at' = [at EXCEPT !["reader"] = "write"]
  /\ UNCHANGED <<client, typed, processes, stdin, output, handler>>

\* The client has gone, or the handler's conn.Close; stdinW is closed.
ReadFails ==
  /\ at["reader"] = "read"
  /\ client = "gone" \/ handler = "returned"
  /\ at' = [at EXCEPT !["reader"] = "over"]
  /\ UNCHANGED <<peer, processes, stdin, output, handler>>

\* stdinW.Write returns when the feeder has read the message.  Nobody closes
\* stdinR: without a feeder the write never returns.
PassIn ==
  /\ at["reader"] = "write" /\ at["feeder"] = "read"
  /\ at' = [at EXCEPT !["reader"] = "read", !["feeder"] = "write"]
  /\ UNCHANGED <<peer, processes, stdin, output, handler>>

Feed ==
  /\ at["feeder"] = "write"
  /\ shell = "running" /\ stdin < PipeSize
  /\ stdin' = stdin + 1
  /\ at' = [at EXCEPT !["feeder"] = "read"]
  /\ UNCHANGED <<peer, processes, output, handler>>

\* EPIPE, or the end of what the reader writes.
FeederEndsUnheard ==  \* as if stdinW stayed open when the reader is over
  /\ at["feeder"] = "write" /\ shell = "exited"
  /\ at' = [at EXCEPT !["feeder"] = "over"]
  /\ UNCHANGED <<peer, processes, stdin, output, handler>>
FeederEnds ==
  /\ \/ at["feeder"] = "write" /\ shell = "exited"
     \/ at["feeder"] = "read" /\ at["reader"] = "over"
  /\ at' = [at EXCEPT !["feeder"] = "over"]
  /\ UNCHANGED <<peer, processes, stdin, output, handler>>

-----------------------------------------------------------------------------
(* What is written, and the end of the session.                            *)

Drain ==
  /\ at["drainer"] = "read" /\ stdout > 0
  /\ stdout' = stdout - 1
  /\ at' = [at EXCEPT !["drainer"] = "write"]
  /\ UNCHANGED <<peer, processes, stdin, written, sent, handler>>

\* stdoutW.Write returns when the sender has read the chunk.
PassOut ==
  /\ at["drainer"] = "write" /\ at["sender"] = "read"
  /\ at' = [at EXCEPT !["drainer"] = "read", !["sender"] = "write"]
  /\ UNCHANGED <<peer, processes, stdin, output, handler>>

DrainerEnds ==
  /\ at["drainer"] = "read" /\ stdout = 0
  /\ shell = "exited" /\ helper # "alive"
  /\ at' = [at EXCEPT !["drainer"] = "over"]
  /\ UNCHANGED <<peer, processes, stdin, output, handler>>

\* The error of WriteMessage is dropped.
Send ==
  /\ at["sender"] = "write"
  /\ sent' = IF client = "here" /\ handler # "returned" THEN sent + 1 ELSE sent
  /\ at' = [at EXCEPT !["sender"] = "read"]
  /\ UNCHANGED <<peer, processes, stdin, stdout, written, handler>>

SenderEnds ==
  /\ at["sender"] = "read" /\ handler # "wait"
  /\ at' = [at EXCEPT !["sender"] = "over"]
  /\ UNCHANGED <<peer, processes, stdin, output, handler>>

\* cmd.Wait returns, and stdoutW is closed.
WaitReturns ==
  /\ handler = "wait"
  /\ shell = "exited" /\ at["feeder"] = "over" /\ at["drainer"] = "over"
  /\ handler' = "drain"
  /\ UNCHANGED <<peer, processes, stdin, output, at>>

\* <-done, conn.Close and the deferred UpdateState(WARM).
ReturnAtOnce ==  \* as if nobody waited for the sender
  /\ handler = "drain"
  /\ handler' = "returned"
  /\ UNCHANGED <<peer, processes, stdin, output, at>>
Return ==
  /\ handler = "drain" /\ at["sender"] = "over"
  /\ handler' = "returned"
  /\ UNCHANGED <<peer, processes, stdin, output, at>>

DaemonStep ==
  \/ ReadMessage \/ ReadFails \/ PassIn \/ Feed \/ FeederEnds
  \/ Drain \/ PassOut \/ DrainerEnds \/ Send \/ SenderEnds
  \/ WaitReturns \/ Return

Next ==
  \/ Type \/ Leave \/ ShellReads \/ Produce \/ Fork \/ ShellExits \/ HelperExits
  \/ DaemonStep

Spec == Init /\ [][Next]_vars

-----------------------------------------------------------------------------
(* Properties.                                                             *)

\* Whoever is still there when the connection closes has been sent all that
\* the shell, and what it left behind, ever wrote: no chunk is lost between
\* the copiers, the pipe that is closed and the sender.
AllIsSentBeforeClose ==
  handler = "returned" /\ client = "here" => sent = written

\* A client who has not left and of whom nothing is to be read.
Silent == client = "here" /\ at["reader"] = "read" /\ socket = 0

\* The daemon's goroutines never wait for each other in a ring: while a
\* session can take no step of its own and has not ended, a process of it
\* lives, or its client is silent.  In the last case the comment of
\* ShellSandbox, "Server closes the connection when the shell exits", does
\* not hold: cmd.Wait waits for the feeder, the feeder for the reader, and the
\* reader for a client who waits for the connection to close.
WaitsForTheLiving ==
  handler # "returned" /\ ~ENABLED DaemonStep =>
    shell = "running" \/ helper = "alive" \/ Silent
=============================================================================
