---------------------------- MODULE GuestControl ----------------------------
(***************************************************************************)
(* The host's side of a microVM (pkg/runtime/microvm): the boot of a guest *)
(* up to its ready event, commands, file transfers and the export of       *)
(* artifacts over one control connection, with the guest's agent           *)
(* (cmd/pi-init, cmd/pi-agentd).                                           *)
(*                                                                         *)
(* Frames carry an id that nobody compares: Send writes a frame and takes  *)
(* the next one that arrives for its answer.  A mutex keeps two Sends      *)
(* apart; the readers of StreamFrames do not take it, and go on reading    *)
(* when nobody listens to them any more.  Each reader has a buffer of its  *)
(* own: a frame that does not fit into one comes in two parts, and two     *)
(* readers may each have one of them.                                      *)
(*                                                                         *)
(* External: who calls Start, Ready and MarkWarm, in the order ADR-002     *)
(* asks for; the guest's answers (the agent of this repository reports     *)
(* ready and answers nothing yet); and the connection, taken as made       *)
(* (NewVsockConn does not dial), one for each boot.                        *)
(***************************************************************************)
EXTENDS Naturals, Sequences

CONSTANTS
  Callers,   \* goroutines of the host that share the Client
  Paths,     \* artifacts and files of the guest
  Base,      \* the last element of each path
  Contents,
  Long,      \* contents whose frame does not fit into a reader's buffer
  Template,  \* the files of the template that a boot restores
  MaxCalls   \* bound: starts of the sandbox, calls, and changes by the guest's processes

Absent == "absent"
Nobody == "nobody"
Emptied == "emptied"  \* a file on the host that has been opened to be written
Partial == "partial"  \* one that was written in part, or by two at once
Spliced == "spliced"  \* data put together from two frames
Names == {Base[p] : p \in Paths}
File == Contents \union {Absent}

GuestAssumption ==
  /\ Paths # {} /\ {Absent, Emptied, Partial, Spliced} \cap Contents = {}
  /\ Nobody \notin Callers \union Paths
  /\ DOMAIN Base = Paths /\ Long \subseteq Contents /\ Template \in [Paths -> File]
  /\ MaxCalls \in Nat

VARIABLES
  guest,    \* what runs behind the connection; "gone": what was ready runs no more
  state,    \* Sandbox.state
  starter,  \* who starts the sandbox: in Boot, in Ready, or before MarkWarm
  gfiles,   \* the guest's files
  requests, \* frames to the guest
  wire,     \* frames to the host, and the parts of frames
  holder,   \* who holds Client.mu
  thieves,  \* stream readers that read on with nobody to hand frames to
  gcall,    \* what each caller is doing
  exported, \* the directory on the host that exports write to
  calls,
  ever,     \* history: the contents each path has had
  again     \* history: names on the host that were opened a second time

vars == <<guest, state, starter, gfiles, requests, wire, holder, thieves, gcall,
          exported, calls, ever, again>>
boot == <<guest, state, starter>>
inside == <<gfiles, ever>>
outside == <<exported, again>>

Kinds == {"read", "write", "exec", "result", "list", "pull"}
NoFrame == [type |-> "response", error |-> FALSE, path |-> Nobody, content |-> Absent,
            paths |-> {}, part |-> "whole"]
Remnant == [NoFrame EXCEPT !.part = "rest"]  \* what does not begin where a frame does
Event == [NoFrame EXCEPT !.type = "event"]
Idle == [at |-> "idle", kind |-> "read", path |-> CHOOSE p \in Paths : TRUE,
         content |-> Absent, got |-> NoFrame, todo |-> {}, written |-> {}]
Request(kind, p, x) == [kind |-> kind, path |-> p, content |-> x]

Frames == [type : {"response", "stream", "event"}, error : BOOLEAN, path : Paths \union {Nobody},
           content : File \union {Spliced}, paths : SUBSET Paths, part : {"whole", "head", "rest"}]

TypeOK ==
  /\ guest \in {"off", "restored", "ready", "gone"} /\ state \in {"booting", "warm"}
  /\ starter \in {"idle", "boot", "wait", "heard"}
  /\ gfiles \in [Paths -> File] /\ ever \in [Paths -> SUBSET Contents]
  /\ requests \in Seq([kind : Kinds, path : Paths, content : File])
  /\ wire \in Seq(Frames)
  /\ holder \in Callers \union {Nobody}
  /\ thieves \in Nat /\ calls \in 0..MaxCalls
  /\ gcall \in [Callers ->
       [at : {"idle", "lock", "sent", "collect", "next", "open", "fill", "done"}, kind : Kinds,
        path : Paths, content : File \union {Spliced}, got : Frames, todo : SUBSET Paths,
        written : SUBSET Paths]]
  /\ exported \in [Names -> File \union {Emptied, Partial, Spliced}] /\ again \subseteq Names

Down == guest \in {"off", "gone"}
Had(files) == [p \in Paths |-> {files[p]} \ {Absent}]
Init ==
  /\ guest = "off" /\ state = "booting" /\ starter = "idle"
  /\ gfiles = Template /\ ever = Had(Template)
  /\ requests = <<>> /\ wire = <<>> /\ holder = Nobody /\ thieves = 0
  /\ gcall = [c \in Callers |-> Idle]
  /\ exported = [n \in Names |-> Absent] /\ again = {}
  /\ calls = 0

-----------------------------------------------------------------------------
(* Boot.                                                                   *)

\* What becomes of a call whose connection ends or brings it no answer: an
\* export has what it has exported so far.
Failed(q) ==
  IF q.kind = "pull" THEN [q EXCEPT !.at = "done", !.kind = "list", !.got = NoFrame] ELSE Idle

\* Sandbox.Start boots the VMM.  The guest has a new connection; who still
\* had to do with the one before comes to its end.
Boot ==
  /\ Down /\ starter = "idle" /\ calls < MaxCalls
  /\ calls' = calls + 1
  /\ guest' = "restored" /\ starter' = "boot"
  /\ gfiles' = Template /\ ever' = [p \in Paths |-> ever[p] \union Had(Template)[p]]
  /\ requests' = <<>> /\ wire' = <<>> /\ holder' = Nobody /\ thieves' = 0
  /\ gcall' = [c \in Callers |->
       IF gcall[c].at \in {"open", "fill", "done"} THEN [gcall[c] EXCEPT !.todo = {}]
       ELSE Failed(gcall[c])]
  /\ UNCHANGED <<state, outside>>

\* ... and only then, whatever the guest did meanwhile, sets the state.
StartedIsWarm ==  \* as if a VMM that runs were a guest that is ready
  /\ starter = "boot"
  /\ state' = "warm" /\ starter' = "wait"
  /\ UNCHANGED <<guest, inside, requests, wire, holder, thieves, gcall, outside, calls>>
Started ==
  /\ starter = "boot"
  /\ state' = "booting" /\ starter' = "wait"
  /\ UNCHANGED <<guest, inside, requests, wire, holder, thieves, gcall, outside, calls>>

\* pi-init starts pi-agentd, which writes its ready event first.  Nothing in
\* the guest calls RunRestoreSequence: no reseed hook is waited for.
AgentReady ==
  /\ guest = "restored"
  /\ guest' = "ready"
  /\ wire' = Append(wire, Event)
  /\ UNCHANGED <<state, starter, inside, requests, holder, thieves, gcall, outside, calls>>

\* Sandbox.Stop shuts the VMM down, or the guest dies by itself.  The state
\* stays what it was.
Stop ==
  /\ ~Down
  /\ guest' = IF guest = "ready" THEN "gone" ELSE "off"
  /\ UNCHANGED <<state, starter, inside, requests, wire, holder, thieves, gcall, outside,
                 calls>>

\* Sandbox.MarkWarm, after Ready returned no error.
MarkWarm ==
  /\ starter = "heard"
  /\ state' = "warm" /\ starter' = "idle"
  /\ UNCHANGED <<guest, inside, requests, wire, holder, thieves, gcall, outside, calls>>

-----------------------------------------------------------------------------
(* Reading.                                                                *)

Goto(c, rec) == gcall' = [gcall EXCEPT ![c] = rec]

\* A reader has read a line: its buffer may hold more, which is lost with it.
Take(least) == \E n \in least..Len(wire) : wire' = SubSeq(wire, n + 1, Len(wire))

\* Where a reader takes from the wire, who has the head of a frame does not
\* get the rest of it any more.
Tear(q) == IF q.got.part = "head" THEN [q EXCEPT !.got.content = Spliced] ELSE q
Goes(c, rec) == gcall' = [d \in Callers |-> IF d = c THEN rec ELSE Tear(gcall[d])]

\* What the line may read as that ends with f, where got was its beginning.
Lines(got, f) ==
  IF got.part = "whole" THEN {f}
  ELSE IF got.part = "head" /\ f.part = "rest"
       THEN {got} \union {g \in {Remnant} : got.content = Spliced}
       ELSE {Remnant}

\* DecodeFrame reads on: the buffer is full, and the line has not ended.
ReadOn(c) ==
  LET q == gcall[c] IN
  /\ (q.at = "sent" /\ holder = c) \/ q.at = "collect"
  /\ wire # <<>> /\ Head(wire).part = "head"
  /\ wire' = Tail(wire)
  /\ Goes(c, [q EXCEPT !.got = IF q.got.part = "whole" THEN Head(wire) ELSE Remnant])
  /\ UNCHANGED <<boot, inside, requests, holder, thieves, outside, calls>>

\* A reader that stayed behind reads a frame and blocks on its channel, or
\* ends at what it cannot decode.
Steal ==
  /\ thieves > 0 /\ wire # <<>>
  /\ IF Head(wire).part = "head" THEN wire' = Tail(wire) /\ UNCHANGED thieves
     ELSE Take(1) /\ thieves' = thieves - 1
  /\ gcall' = [d \in Callers |-> Tear(gcall[d])]
  /\ UNCHANGED <<boot, inside, requests, holder, outside, calls>>

\* VsockConn.Ready takes the first frame, its reader stays behind.  A
\* connection that ends first is an error, as is any other frame.
Ready ==
  /\ starter = "wait"
  /\ \/ /\ wire # <<>> /\ Take(1)
        /\ thieves' = IF Head(wire).part = "rest" THEN thieves ELSE thieves + 1
        /\ starter' = IF Head(wire).type = "event" THEN "heard" ELSE "idle"
        /\ gcall' = [d \in Callers |-> Tear(gcall[d])]
     \/ /\ Down /\ wire = <<>>
        /\ starter' = "idle"
        /\ UNCHANGED <<wire, thieves, gcall>>
  /\ UNCHANGED <<guest, state, inside, requests, holder, outside, calls>>

-----------------------------------------------------------------------------
(* External: the guest.                                                    *)

Answer(q) ==
  CASE q.kind \in {"read", "pull"} ->
         [NoFrame EXCEPT !.error = gfiles[q.path] = Absent, !.path = q.path,
                         !.content = gfiles[q.path]]
    [] q.kind = "list" -> [NoFrame EXCEPT !.paths = {p \in Paths : gfiles[p] # Absent}]
    [] q.kind = "result" -> [NoFrame EXCEPT !.error = TRUE]
    [] OTHER -> NoFrame
InParts(a) ==
  IF a.content \in Long THEN <<[a EXCEPT !.part = "head"], Remnant>> ELSE <<a>>

\* The guest answers in the order of the requests: a command with a chunk of
\* output before its result, a write with an error or with the file written.
GuestAnswers ==
  /\ guest = "ready" /\ requests # <<>>
  /\ LET q == Head(requests)  stream == [NoFrame EXCEPT !.type = "stream"] IN
       \/ /\ q.kind # "write"
          /\ wire' = wire \o (IF q.kind = "exec" THEN <<stream>> ELSE <<>>) \o InParts(Answer(q))
          /\ UNCHANGED inside
       \/ /\ q.kind = "write"
          /\ wire' = Append(wire, NoFrame)
          /\ gfiles' = [gfiles EXCEPT ![q.path] = q.content]
          /\ ever' = [ever EXCEPT ![q.path] = @ \union {q.content}]
       \/ /\ q.kind = "write"
          /\ wire' = Append(wire, [NoFrame EXCEPT !.error = TRUE])
          /\ UNCHANGED inside
  /\ requests' = Tail(requests)
  /\ UNCHANGED <<boot, holder, thieves, gcall, outside, calls>>

GuestWorks(p, x) ==
  /\ guest = "ready" /\ calls < MaxCalls
  /\ calls' = calls + 1
  /\ gfiles' = [gfiles EXCEPT ![p] = x]
  /\ ever' = [ever EXCEPT ![p] = @ \union {x}]
  /\ UNCHANGED <<boot, requests, wire, holder, thieves, gcall, outside>>

-----------------------------------------------------------------------------
(* The client.                                                             *)

Call(c, kind, p, x) ==
  /\ state = "warm" /\ gcall[c].at = "idle" /\ calls < MaxCalls
  /\ calls' = calls + 1
  /\ Goto(c, [Idle EXCEPT !.at = "lock", !.kind = kind, !.path = p, !.content = x])
  /\ UNCHANGED <<boot, inside, requests, wire, holder, thieves, outside>>

\* Client.Send takes the mutex and SendFrame writes the frame ...
Send(c) ==
  /\ gcall[c].at = "lock" /\ holder = Nobody
  /\ holder' = c
  /\ requests' = Append(requests, Request(gcall[c].kind, gcall[c].path, gcall[c].content))
  /\ Goto(c, [gcall[c] EXCEPT !.at = "sent"])
  /\ UNCHANGED <<boot, inside, wire, thieves, outside, calls>>

\* TransferClient.send, and the comparison of the paths.
AcceptsAny(q, f) == f.type = "response" /\ ~f.error  \* as if it did not compare them
Accepts(q, f) ==
  /\ f.type = "response" /\ ~f.error
  /\ q.kind \in {"read", "pull"} => f.path = q.path

\* ExportAll: the list, where any other response reads as an empty one, then
\* one pull and one os.WriteFile after the other.
ListedIsWritten(q, f) ==  \* as if the answer were the list
  [q EXCEPT !.at = "next", !.todo = f.paths, !.written = f.paths]
Listed(q, f) == [q EXCEPT !.at = "next", !.todo = f.paths]
Pulled(q, f) == [q EXCEPT !.at = "open", !.content = f.content, !.got = NoFrame]

\* How a call goes on with the frame that was taken for its answer.
After(q, f) ==
  CASE f.part = "rest" -> Failed(q)
    [] f.part # "rest" /\ q.kind = "exec" -> [q EXCEPT !.at = "collect", !.got = NoFrame]
    [] f.part # "rest" /\ q.kind = "read" /\ Accepts(q, f) ->
         [q EXCEPT !.at = "done", !.content = f.content, !.got = NoFrame]
    [] f.part # "rest" /\ q.kind = "list" /\ Accepts(q, f) -> [Listed(q, f) EXCEPT !.got = NoFrame]
    [] f.part # "rest" /\ q.kind = "pull" /\ Accepts(q, f) -> Pulled(q, f)
    [] OTHER -> Failed(q)

\* ... and takes the next one that comes.
Receive(c) ==
  LET q == gcall[c] IN
  /\ q.at = "sent" /\ holder = c /\ wire # <<>> /\ Head(wire).part # "head"
  /\ holder' = Nobody
  /\ Take(1)
  /\ \E f \in Lines(q.got, Head(wire)) : Goes(c, After(q, f))
  /\ UNCHANGED <<boot, inside, requests, thieves, outside, calls>>

\* The connection has ended: no frame can be written or read any more, and a
\* command asks for its result.
EndOfFrames(c) ==
  LET q == gcall[c] IN
  /\ Down /\ wire = <<>>
  /\ \/ /\ (q.at = "lock" /\ holder = Nobody) \/ (q.at = "sent" /\ holder = c)
        /\ holder' = Nobody
        /\ Goto(c, Failed(q))
     \/ /\ q.at = "collect"
        /\ Goto(c, [q EXCEPT !.at = "lock", !.kind = "result", !.got = NoFrame])
        /\ UNCHANGED holder
  /\ UNCHANGED <<boot, inside, requests, wire, thieves, outside, calls>>

NextArtifact(c) ==
  /\ gcall[c].at = "next"
  /\ IF gcall[c].todo = {} THEN Goto(c, [gcall[c] EXCEPT !.at = "done", !.kind = "list"])
     ELSE \E p \in gcall[c].todo : Goto(c, [gcall[c] EXCEPT !.at = "lock", !.kind = "pull",
                                                             !.path = p, !.content = Absent])
  /\ UNCHANGED <<boot, inside, requests, wire, holder, thieves, outside, calls>>

\* os.WriteFile empties the file, unless it cannot be opened ...
Using(c, n) == \/ \E p \in gcall[c].written : Base[p] = n
               \/ gcall[c].at = "fill" /\ Base[gcall[c].path] = n
OpenFile(c) ==
  LET n == Base[gcall[c].path] IN
  /\ gcall[c].at = "open"
  /\ \/ /\ exported' = [exported EXCEPT ![n] = Emptied]
        /\ again' = again \union {m \in {n} : \E d \in Callers : Using(d, m)}
        /\ Goto(c, [gcall[c] EXCEPT !.at = "fill"])
     \/ /\ Goto(c, Failed(gcall[c]))
        /\ UNCHANGED outside
  /\ UNCHANGED <<boot, inside, requests, wire, holder, thieves, calls>>

\* ... and writes it, over what another export has written since, or in part.
FillFile(c) ==
  LET q == gcall[c]  n == Base[q.path] IN
  /\ q.at = "fill"
  /\ \/ /\ \E x \in {q.content} \union {y \in {Partial} : exported[n] # Emptied} :
             exported' = [exported EXCEPT ![n] = x]
        /\ Goto(c, [q EXCEPT !.at = "next", !.todo = @ \ {q.path}, !.written = @ \union {q.path}])
     \/ /\ exported' \in {exported, [exported EXCEPT ![n] = Partial]}
        /\ Goto(c, Failed(q))
  /\ UNCHANGED <<boot, inside, requests, wire, holder, thieves, again, calls>>

\* Exec and ExecStreaming collect what arrives, until a frame that is no
\* stream frame (their result among them) or no frame at all, and then ask
\* for the result.
Collect(c) ==
  LET q == gcall[c] IN
  /\ q.at = "collect" /\ wire # <<>> /\ Head(wire).part # "head"
  /\ \E f \in Lines(q.got, Head(wire)) :
       IF f.type = "stream"
       THEN wire' = Tail(wire) /\ Goes(c, q) /\ UNCHANGED thieves
       ELSE /\ Take(1)
            /\ thieves' = IF f.part = "rest" THEN thieves ELSE thieves + 1
            /\ Goes(c, [q EXCEPT !.at = "lock", !.kind = "result", !.got = NoFrame])
  /\ UNCHANGED <<boot, inside, requests, holder, outside, calls>>

\* The context ends, or the output is longer than it may be: the reader
\* stays behind.
Abandon(c) ==
  /\ gcall[c].at = "collect"
  /\ thieves' = thieves + 1
  /\ \/ Goto(c, Idle)
     \/ Goto(c, [gcall[c] EXCEPT !.at = "lock", !.kind = "result", !.got = NoFrame])
  /\ UNCHANGED <<boot, inside, requests, wire, holder, outside, calls>>

Return(c) ==
  /\ gcall[c].at = "done"
  /\ Goto(c, Idle)
  /\ UNCHANGED <<boot, inside, requests, wire, holder, thieves, outside, calls>>

Next ==
  \/ Boot \/ Started \/ AgentReady \/ Ready \/ MarkWarm \/ Stop
  \/ GuestAnswers \/ \E p \in Paths, x \in Contents : GuestWorks(p, x)
  \/ \E c \in Callers :
       \/ \E p \in Paths : Call(c, "read", p, Absent) \/ \E x \in Contents : Call(c, "write", p, x)
       \/ \E kind \in {"exec", "list"} : Call(c, kind, Idle.path, Absent)
       \/ Send(c) \/ ReadOn(c) \/ Receive(c) \/ EndOfFrames(c) \/ Return(c)
       \/ NextArtifact(c) \/ OpenFile(c) \/ FillFile(c) \/ Collect(c) \/ Abandon(c)
  \/ Steal

Spec == Init /\ [][Next]_vars

-----------------------------------------------------------------------------
(* Properties.                                                             *)

\* ADR-002: no guest is marked warm before it has sent its ready event,
\* whoever took which frame; it may be gone by then.
WarmAfterReady == [][state # "warm" /\ state' = "warm" => guest \in {"ready", "gone"}]_vars

\* A read returns what the path it asked for has held, though its answer may
\* have been asked for by a call that came before; or else data put together
\* from two frames, where another reader had the rest of one.
ReadIsOfItsPath ==
  \A c \in Callers : gcall[c].at = "done" /\ gcall[c].kind = "read" =>
    gcall[c].content \in ever[gcall[c].path] \union {Spliced}

\* What ExportAll reports as exported is on the host: under its name is what
\* it has held, or what another artifact of that name has, or was put
\* together from two frames; but where that name has been opened again.
ExportedIsThere ==
  \A c \in Callers : \A p \in gcall[c].written : Base[p] \notin again =>
    \/ exported[Base[p]] = Spliced
    \/ \E q \in Paths : Base[q] = Base[p] /\ exported[Base[p]] \in ever[q]
=============================================================================
