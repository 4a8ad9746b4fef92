------------------------------- MODULE Clients -------------------------------
(***************************************************************************)
(* The clients of the sandbox API: `pi-box box` (cmd/pi-box/box) and the   *)
(* agent's tools (pkg/agent), with the way a request takes to one of two   *)
(* daemons and what a client makes of the answer.                          *)
(*                                                                         *)
(* The CLI resolves its context for every request anew.  A request to the  *)
(* local socket may be sent on by the local daemon, to the daemon of the   *)
(* context that is active when it arrives.                                 *)
(*                                                                         *)
(* A handler is one step here: SandboxLifecycle has its interleavings.     *)
(***************************************************************************)
EXTENDS Naturals, FiniteSets

CONSTANTS
  Clients,     \* CLI commands and tool calls that run at once
  Ids,         \* sandboxes, those there at first and those to be made
  Known,       \* where the sandboxes that are there at first are
  Slots,       \* requests in flight, those nobody waits for included
  MaxMishaps   \* bound: changes of context, late answers and crashes

Here == "here"    \* the daemon of the local context
There == "there"  \* the daemon of a remote one
Daemons == {Here, There}
Nobody == "nobody"

ClientsAssumption ==
  /\ Ids # {} /\ Known \in [Ids -> Daemons \union {"new"}]
  /\ Nobody \notin Clients /\ Slots # {}
  /\ Slots \subseteq Nat /\ MaxMishaps \in Nat

VARIABLES
  active,  \* the daemon of the active context
  box,     \* where each sandbox is, whether its record parses, its exec log
  client,  \* what each client is doing
  req,     \* the requests
  mishaps

vars == <<active, box, client, req, mishaps>>

Commands == {"create", "destroy", "destroyAll", "exec", "shell", "change", "look", "logs"}
Asks == {"create", "delete", "list", "exec", "shell", "change", "look", "logs", "text"}
Writes == {"create", "delete", "exec", "shell", "change"}
Answers == {"none", "ok", "error", "text", "cut", "ended"}
SomeBox == CHOOSE i \in Ids : TRUE
Idle == [at |-> "idle", program |-> "cli", context |-> "active", cmd |-> "look",
         box |-> SomeBox, ask |-> "look", todo |-> {}, destroyed |-> {}, warned |-> FALSE,
         ok |-> FALSE, effect |-> FALSE, shown |-> "none", via |-> "unix", still |-> {}]
Free == [at |-> "free", by |-> Nobody, ask |-> "look", box |-> SomeBox, to |-> Here,
         via |-> "unix", effect |-> FALSE, answer |-> "none", ids |-> {}]

TypeOK ==
  /\ active \in Daemons
  /\ box \in [Ids -> [on : Daemons \union {"new", "gone"}, readable : BOOLEAN, entry : BOOLEAN]]
  /\ client \in [Clients ->
       [at : {"idle", "call", "wait", "next", "done"}, program : {"cli", "tool"},
        context : Daemons \union {"active"}, cmd : Commands, box : Ids, ask : Asks,
        todo : SUBSET Ids, destroyed : SUBSET Ids, warned : BOOLEAN, ok : BOOLEAN,
        effect : BOOLEAN, shown : Answers, via : {"unix", "http", "tool"},
        still : SUBSET Ids]]
  /\ req \in [Slots ->
       [at : {"free", "router", "handler", "over"}, by : Clients \union {Nobody}, ask : Asks,
        box : Ids, to : Daemons, via : {"unix", "http", "tool"}, effect : BOOLEAN,
        answer : Answers, ids : SUBSET Ids]]
  /\ mishaps \in 0..MaxMishaps

Init ==
  /\ active \in Daemons
  /\ box = [i \in Ids |-> [on |-> Known[i], readable |-> Known[i] # "new", entry |-> FALSE]]
  /\ client = [c \in Clients |-> Idle]
  /\ req = [n \in Slots |-> Free]
  /\ mishaps = 0

-----------------------------------------------------------------------------
(* Where a request goes.                                                   *)

\* resolveContext: --context, or the active one.  A tool has one base URL.
Resolve(q) ==
  IF q.program = "tool" THEN Here ELSE IF q.context = "active" THEN active ELSE q.context

Transport(q) == IF q.program = "tool" THEN "tool" ELSE IF Resolve(q) = Here THEN "unix" ELSE "http"

\* The middleware of the local daemon does not know of --context.
Served(q) == IF Resolve(q) = There THEN There ELSE active

OnDaemon(d) == {i \in Ids : box[i].on = d /\ box[i].readable}

\* Clients that count on these sandboxes from their start do so no longer.
Disturbed(rec, B) == [rec EXCEPT !.still = @ \ B]
DisturbAll(B) == client' = [c \in Clients |-> Disturbed(client[c], B)]

Mishap == mishaps < MaxMishaps /\ mishaps' = mishaps + 1

Use(d) ==
  /\ d # active /\ Mishap
  /\ active' = d
  /\ DisturbAll(Ids)
  /\ UNCHANGED <<box, req>>

-----------------------------------------------------------------------------
(* What the clients make of an answer.                                     *)

\* callAPIUnix: curl fails where the answer is cut, an error is an object
\* with the key "error", and http.Error's text is no JSON.
ParsedUnixBody(answer) == answer # "cut"  \* as if only curl's exit code counted
ParsedUnix(answer) == answer = "ok"
\* callAPIRemote and the tools' doJSON: the status.
ParsedRemote(answer) == answer = "ok"
DoJSON(answer) == answer = "ok"
Parsed(via, answer) ==
  CASE via = "unix" -> ParsedUnix(answer)
    [] via = "http" -> ParsedRemote(answer)
    [] via = "tool" -> DoJSON(answer)

\* callAPIList: curl's status is not looked at; what is no array is an error.
DecodedLeniently(via, answer) ==  \* as if what is no array were an empty one
  answer = "ok" \/ (via = "unix" /\ answer # "cut")
DecodedList(via, answer) == answer = "ok"

\* callAPIText, for the streams of a log entry: over the local socket
\* whatever comes back is printed.
Printed(via, answer) ==
  IF answer = "cut" \/ (via = "http" /\ answer # "ok") THEN "none" ELSE answer

\* runShell: whatever ends a connection that was upgraded, the shell is over
\* and all is well; only what comes instead of an upgrade is an error.
Ended(answer) == answer = "ended"

-----------------------------------------------------------------------------
(* The commands and the tools.                                             *)

Begin(c, program, context, cmd, i) ==
  LET q == [Idle EXCEPT !.at = "call", !.program = program, !.context = context,
                        !.cmd = cmd, !.box = i] IN
  /\ client[c] = Idle
  /\ client' = [client EXCEPT ![c] =
       [q EXCEPT !.still = OnDaemon(Served(q)) \intersect
                   CASE cmd = "destroyAll" -> Ids [] cmd = "logs" -> {i} [] OTHER -> {},
                 !.ask = CASE cmd = "destroy" -> "delete" [] cmd = "destroyAll" -> "list"
                           [] OTHER -> cmd]]
  /\ UNCHANGED <<active, box, req, mishaps>>

CreateCmd(c, x) == Begin(c, "cli", x, "create", SomeBox)
DestroyCmd(c, x, i) == Begin(c, "cli", x, "destroy", i) \/ Begin(c, "cli", x, "destroyAll", SomeBox)
CloneCmd(c, x, i) == Begin(c, "cli", x, "change", i)
ExecCmd(c, x, i) == Begin(c, "cli", x, "exec", i)
ShellCmd(c, x, i) == Begin(c, "cli", x, "shell", i)
InspectCmd(c, x, i) == Begin(c, "cli", x, "look", i)
\* list and read; write, pull and push.
FilesCmd(c, x, i) == \E cmd \in {"look", "change"} : Begin(c, "cli", x, cmd, i)
DiffCmd(c, x, i) == Begin(c, "cli", x, "look", i)
ArtifactsCmd(c, x, i) == \E cmd \in {"look", "change"} : Begin(c, "cli", x, cmd, i)
SnapshotCmd(c, x, i) == \E cmd \in {"look", "change"} : Begin(c, "cli", x, cmd, i)
LogsCmd(c, x, i) == Begin(c, "cli", x, "logs", i)
HistoryCmd(c, x, i) == Begin(c, "cli", x, "look", i)

SandboxTools == {"create", "exec", "look", "destroy"}
WorkspaceTools == {"change", "look"}  \* clone, diff, patch, files.read, files.write
OutputTools == {"change", "look"}     \* artifacts, snapshots, logs
ExecuteTool(c, i) ==
  \E cmd \in SandboxTools \union WorkspaceTools \union OutputTools :
    Begin(c, "tool", "active", cmd, i)

\* One request, where the context is at this moment.
Call(c) ==
  LET q == client[c]  via == Transport(q) IN
  /\ q.at = "call"
  /\ \E n \in {s \in Slots : req[s].at = "free" /\ \A t \in Slots : t < s => req[t].at # "free"} :
       req' = [req EXCEPT ![n] =
         [Free EXCEPT !.at = IF via = "http" THEN "handler" ELSE "router", !.by = c, !.ask = q.ask,
                      !.box = q.box, !.via = via, !.to = IF via = "http" THEN There ELSE Here]]
  /\ client' = [client EXCEPT ![c].at = "wait"]
  /\ UNCHANGED <<active, box, mishaps>>

Done(q, ok) == [q EXCEPT !.at = "done", !.ok = ok, !.program = "cli", !.context = "active"]

\* What follows on an answer: destroy --all goes on with the sandboxes it
\* was told, warning of those it could not delete; logs asks for the streams
\* of the entries; anything else is over.
AllStep(q, r, answer) ==
  IF q.ask = "list"
  THEN IF DecodedList(r.via, answer) THEN [q EXCEPT !.at = "next", !.todo = r.ids]
       ELSE Done(q, FALSE)
  ELSE IF Parsed(r.via, answer)
       THEN [q EXCEPT !.at = "next", !.destroyed = @ \union {q.box}]
       ELSE [q EXCEPT !.at = "next", !.warned = TRUE]

LogsStep(q, r, answer) ==
  IF q.ask = "text" THEN [Done(q, TRUE) EXCEPT !.via = r.via, !.shown = Printed(r.via, answer)]
  ELSE IF Parsed(r.via, answer) /\ r.ids # {} THEN [q EXCEPT !.at = "call", !.ask = "text"]
  ELSE Done(q, Parsed(r.via, answer))

Step(q, r, answer) ==
  CASE q.cmd = "destroyAll" -> AllStep(q, r, answer)
    [] q.cmd = "logs" -> LogsStep(q, r, answer)
    [] q.cmd = "shell" -> [Done(q, Ended(answer)) EXCEPT !.effect = r.effect]
    [] OTHER -> [Done(q, Parsed(r.via, answer)) EXCEPT !.effect = r.effect]

\* A request that changes something goes on without its client, where its
\* handler is not through with it; what the others answer nobody hears.
Leave(n) ==
  req' = [req EXCEPT ![n] = IF @.at = "over" \/ @.ask \notin Writes THEN Free
                            ELSE [@ EXCEPT !.by = Nobody, !.answer = "none", !.via = "unix"]]

Receive(c) ==
  \E n \in Slots :
    /\ req[n].by = c /\ req[n].answer # "none"
    /\ client' = [client EXCEPT ![c] = Step(@, req[n], req[n].answer)]
    /\ Leave(n)
    /\ UNCHANGED <<active, box, mishaps>>

\* The 30 seconds of remote.Client and of the tools, and the 45 that a shell
\* waits for its upgrade; curl waits.
GiveUp(c) ==
  /\ Mishap
  /\ \E n \in Slots :
      /\ req[n].by = c /\ req[n].answer = "none" /\ req[n].via \in {"http", "tool"}
      /\ client' = [client EXCEPT ![c] = Disturbed(Step(@, req[n], "cut"), Ids)]
      /\ Leave(n)
      /\ UNCHANGED <<active, box>>

DestroyNext(c) ==
  /\ client[c].at = "next"
  /\ IF client[c].todo = {} THEN client' = [client EXCEPT ![c] = Done(@, TRUE)]
     ELSE \E i \in client[c].todo :
       client' = [client EXCEPT ![c].at = "call", ![c].ask = "delete", ![c].box = i,
                                ![c].todo = @ \ {i}]
  /\ UNCHANGED <<active, box, req, mishaps>>

Return(c) ==
  /\ client[c].at = "done"
  /\ client' = [client EXCEPT ![c] = Idle]
  /\ UNCHANGED <<active, box, req, mishaps>>

-----------------------------------------------------------------------------
(* The daemons.                                                            *)

\* The local daemon sends a request on, or serves it.  An upgrade does not
\* survive being sent on.
Route(n) ==
  /\ req[n].at = "router"
  /\ req' = [req EXCEPT ![n] =
       IF active = There /\ @.ask = "shell" THEN [@ EXCEPT !.at = "over", !.answer = "text"]
       ELSE [@ EXCEPT !.at = "handler", !.to = active]]
  /\ UNCHANGED <<active, box, client, mishaps>>

\* No connection to the other daemon, or 30 seconds: 502, and the other
\* daemon may be at it still.
ProxyFails(n) ==
  LET r == req[n] IN
  /\ Mishap
  /\ r.at = "handler" /\ r.to = There /\ r.via # "http" /\ r.answer = "none" /\ r.by # Nobody
  /\ req' = [req EXCEPT ![n].answer = "text"]
  /\ client' = [c \in Clients |-> IF r.by = c THEN Disturbed(client[c], Ids) ELSE client[c]]
  /\ UNCHANGED <<active, box>>

\* The handler is through.  Its answer counts where nobody has answered yet.
Answered(n, answer, effect, ids) ==
  LET r == req[n] IN
  req' = [req EXCEPT ![n] =
    IF r.by = Nobody THEN Free
    ELSE [r EXCEPT !.at = "over", !.effect = effect, !.ids = ids,
                   !.answer = IF r.answer = "none" THEN answer ELSE r.answer]]

Listed(d) == OnDaemon(d)

Handle(n) ==
  LET r == req[n]  i == r.box  there == i \in OnDaemon(r.to) IN
  /\ r.at = "handler"
  /\ \/ /\ r.ask = "create"
        /\ \E new \in {x \in Ids : box[x].on = "new"} :
             box' = [box EXCEPT ![new].on = r.to, ![new].readable = TRUE]
        /\ Answered(n, "ok", TRUE, {}) /\ UNCHANGED client
     \/ /\ r.ask = "delete" /\ there
        /\ box' = [box EXCEPT ![i] = [on |-> "gone", readable |-> FALSE, entry |-> FALSE]]
        /\ Answered(n, "ok", TRUE, {}) /\ DisturbAll({i})
     \/ /\ r.ask = "shell" /\ there  \* upgraded; what fails then is told as text
        /\ \E effect \in BOOLEAN : Answered(n, "ended", effect, {})
        /\ UNCHANGED <<box, client>>
     \/ /\ r.ask \in {"exec", "change"} /\ there
        /\ box' = [box EXCEPT ![i].entry = @ \/ r.ask = "exec"]
        /\ \E answer \in {"ok", "error"} : Answered(n, answer, TRUE, {})
        /\ UNCHANGED client
     \/ /\ r.ask = "list"
        /\ Answered(n, "ok", FALSE, Listed(r.to)) /\ UNCHANGED <<box, client>>
     \/ /\ r.ask = "look" /\ there
        /\ Answered(n, "ok", FALSE, {}) /\ UNCHANGED <<box, client>>
     \/ /\ r.ask = "logs" /\ there
        /\ Answered(n, "ok", FALSE, IF box[i].entry THEN {i} ELSE {})
        /\ UNCHANGED <<box, client>>
     \/ /\ r.ask = "text" /\ there /\ box[i].entry
        /\ Answered(n, "ok", FALSE, {}) /\ UNCHANGED <<box, client>>
     \/ /\ r.ask = "text" => ~there
        /\ Answered(n, "error", FALSE, {}) /\ UNCHANGED <<box, client>>
  /\ UNCHANGED <<active, mishaps>>

\* A daemon dies: its requests break off, after their upgrade or before it,
\* and one that was writing a record leaves it cut, which nothing lists and
\* nothing deletes.
Crash(d) ==
  /\ Mishap
  /\ LET at == {n \in Slots : req[n].at \in {"router", "handler"} /\ req[n].to = d}
         write == {n \in at : req[n].at = "handler" /\ req[n].ask \in Writes}
         shells == {n \in write : req[n].ask = "shell"}
     IN \E torn \in SUBSET (OnDaemon(d) \intersect {req[n].box : n \in write}),
           upgraded \in SUBSET shells :
          /\ box' = [i \in Ids |-> [box[i] EXCEPT !.readable = @ /\ i \notin torn]]
          /\ req' = [n \in Slots |->
               IF n \notin at THEN req[n] ELSE IF req[n].by = Nobody THEN Free
               ELSE [req[n] EXCEPT !.at = "over", !.answer =
                       IF @ # "none" THEN @ ELSE IF n \in upgraded THEN "ended"
                       ELSE IF d = There /\ req[n].via # "http" THEN "text" ELSE "cut"]]
          /\ client' = [c \in Clients |->
               Disturbed(client[c], IF \E n \in at : req[n].by = c THEN Ids ELSE torn)]
  /\ UNCHANGED active

CliCommand(c, x) ==
  \/ CreateCmd(c, x)
  \/ \E i \in Ids :
       \/ DestroyCmd(c, x, i) \/ CloneCmd(c, x, i) \/ ExecCmd(c, x, i) \/ ShellCmd(c, x, i)
       \/ InspectCmd(c, x, i) \/ FilesCmd(c, x, i) \/ DiffCmd(c, x, i) \/ ArtifactsCmd(c, x, i)
       \/ SnapshotCmd(c, x, i) \/ LogsCmd(c, x, i) \/ HistoryCmd(c, x, i)

Next ==
  \/ \E c \in Clients :
       \/ \E x \in Daemons \union {"active"} : CliCommand(c, x)
       \/ \E i \in Ids : ExecuteTool(c, i)
       \/ Call(c) \/ Receive(c) \/ GiveUp(c) \/ DestroyNext(c) \/ Return(c)
  \/ \E n \in Slots : Route(n) \/ ProxyFails(n) \/ Handle(n)
  \/ \E d \in Daemons : Use(d) \/ Crash(d)

Spec == Init /\ [][Next]_vars

-----------------------------------------------------------------------------
(* Properties.                                                             *)

\* What a client reports as done was done, whichever way its request took,
\* whatever was given up, sent on or broken off in between; `box shell` is
\* the exception, which calls a shell that never was a success.
ReportedIsDone ==
  \A c \in Clients : LET q == client[c] IN
    /\ q.at = "done" /\ q.ok /\ q.cmd \in {"create", "destroy", "exec", "change"}
         => q.effect
    /\ \A i \in q.destroyed : box[i].on = "gone"

\* AC-8.4, `destroy --all` cleans all sandboxes: one that warns of nothing
\* leaves none that was there from its start to its end, its record
\* readable, unless the active context changed or an answer got lost.
AllAreDestroyed ==
  \A c \in Clients : LET q == client[c] IN
    q.at = "done" /\ q.cmd = "destroyAll" /\ q.ok /\ ~q.warned => q.still = {}
=============================================================================
