------------------------------ MODULE Contexts ------------------------------
(***************************************************************************)
(* Daemon contexts (pkg/context, pkg/api/contexts.go, cmd/pi-box/context)  *)
(* and the middleware that sends sandbox requests to the daemon of the     *)
(* active one (pkg/daemon/router.go, pkg/remote).                          *)
(*                                                                         *)
(* Every API request and every CLI command makes a Store of its own: it    *)
(* reads contexts.yaml, changes its copy and writes the whole file back.   *)
(* The Store's mutex guards that private copy; nothing guards the file.    *)
(***************************************************************************)
EXTENDS Naturals, Functions

CONSTANTS
  Names,       \* names of contexts other than "local"
  Definitions, \* the contexts people write: [to, transport, auth, env]
  Daemons,
  Home,        \* the daemon whose contexts change
  Elsewhere,   \* what contexts.yaml holds beside the other daemons
  Requests,    \* request slots: API requests and CLI commands
  Empty,       \* the file between os.WriteFile's emptying and filling it
  Garbled,     \* what two overlapping writes may leave: no YAML
  MaxKills     \* bound: requests and commands that die on the way

Local == "local"
Nobody == "nobody"

ContextsAssumption ==
  /\ Names # {} /\ Local \notin Names /\ Definitions # {}
  /\ Home \in Daemons /\ Nobody \notin Daemons
  /\ \A c \in Definitions : c.to \in Daemons
  /\ MaxKills \in Nat

\* onDiskState: the contexts by name, and the active one.
Stores == UNION {[active : N \union {Local}, contexts : [N -> Definitions]] :
                   N \in SUBSET Names}
NoContexts == [active |-> Local, contexts |-> [n \in {} |-> Nobody]]
FileAssumption == Empty # Garbled /\ {Empty, Garbled} \intersect Stores = {}
ElsewhereAssumption == Elsewhere \in [Daemons \ {Home} -> Stores]

VARIABLES
  file,      \* contexts.yaml beside each daemon
  req,       \* what each request is doing
  kept,      \* history: what the acknowledged changes add up to, till disturbed
  disturbed, \* history: two changes overlapped, or one died while saving
  kills

vars == <<file, req, kept, disturbed, kills>>

Changes == {"create", "update", "delete", "use"}
Idle == [at |-> "idle", op |-> "call", name |-> Local,
         ctx |-> CHOOSE c \in Definitions : TRUE, copy |-> NoContexts,
         on |-> Home, want |-> Nobody]

TypeOK ==
  /\ file \in [Daemons -> Stores \union {Empty, Garbled}]
  /\ req \in [Requests ->
       [at : {"idle", "save", "fill", "sent", "gone", "served"},
        op : Changes \union {"call"}, name : Names \union {Local},
        ctx : Definitions, copy : Stores, on : Daemons,
        want : Daemons \union {Nobody}]]
  /\ kept \in Stores
  /\ disturbed \in BOOLEAN
  /\ kills \in 0..MaxKills

Init ==
  /\ file = [d \in Daemons |-> IF d = Home THEN NoContexts ELSE Elsewhere[d]]
  /\ req = [r \in Requests |-> Idle]
  /\ kept = NoContexts
  /\ disturbed = FALSE
  /\ kills = 0

-----------------------------------------------------------------------------
(* The store.                                                              *)

\* ADR-003: what each transport demands.
Validate(c) ==
  \/ c.transport = "http" /\ c.auth = "bearer-token" /\ c.env
  \/ c.transport = "ssh" /\ c.auth = "ssh-agent"
  \/ c.transport = "unix" /\ c.auth = "none"

\* NewStore: an empty file is a store without contexts.
Load(d) == IF file[d] = Empty THEN NoContexts ELSE file[d]

\* The contexts of f, and those of g that f has not.
Over(f, g) == [n \in DOMAIN f \union DOMAIN g |-> IF n \in DOMAIN f THEN f[n] ELSE g[n]]
With(st, n, c) == [st EXCEPT !.contexts = Over([x \in {n} |-> c], @)]

\* A change is refused, with nothing written, unless these hold.
Accepts(st, r) ==
  LET known == r.name \in DOMAIN st.contexts IN
  CASE r.op = "create" -> r.name # Local /\ Validate(r.ctx) /\ ~known
    [] r.op = "update" -> known /\ Validate(r.ctx)
    [] r.op = "delete" -> known
    [] r.op = "use"    -> known \/ r.name = Local

Create(st, n, c) == With(st, n, c)
Update(st, n, c) == With(st, n, c)
Use(st, n) == [st EXCEPT !.active = n]
DeleteKeepingActive(st, n) ==  \* as if Delete did not look at the active context
  [st EXCEPT !.contexts = Restrict(st.contexts, DOMAIN st.contexts \ {n})]
Delete(st, n) ==
  [active |-> IF st.active = n THEN Local ELSE st.active,
   contexts |-> Restrict(st.contexts, DOMAIN st.contexts \ {n})]

Changed(st, r) ==
  CASE r.op = "create" -> Create(st, r.name, r.ctx)
    [] r.op = "update" -> Update(st, r.name, r.ctx)
    [] r.op = "delete" -> Delete(st, r.name)
    [] r.op = "use"    -> Use(st, r.name)

\* The daemon a request goes to: the middleware serves every context of
\* transport unix itself, whatever socket it names.
Target(d, st) ==
  IF st.active = Local THEN d
  ELSE LET c == st.contexts[st.active] IN IF c.transport = "unix" THEN d ELSE c.to

-----------------------------------------------------------------------------
(* Changing the contexts: API handlers and CLI commands alike.             *)

Reply(r) == req' = [req EXCEPT ![r] = Idle]
Saving(r) == req[r].at \in {"save", "fill"}
Disturb(cause) ==
  /\ disturbed' = (disturbed \/ cause)
  /\ kept' = IF disturbed' THEN NoContexts ELSE kept

\* A handler or command makes its Store and changes the copy.  Where the
\* file does not parse or the change is refused, it writes nothing; so do
\* List, Get, inspect and list, which answer from one copy.
Change(r, op, n, c) ==
  LET q == [Idle EXCEPT !.at = "save", !.op = op, !.name = n, !.ctx = c] IN
  /\ req[r] = Idle
  /\ file[Home] # Garbled
  /\ Accepts(Load(Home), q)
  /\ req' = [req EXCEPT ![r] = [q EXCEPT !.copy = Changed(Load(Home), q)]]
  /\ Disturb(\E other \in Requests \ {r} : Saving(other))
  /\ UNCHANGED <<file, kills>>

\* os.WriteFile, in its two steps.
TruncateNot(r) ==  \* as if the file were opened without O_TRUNC
  /\ req[r].at = "save"
  /\ req' = [req EXCEPT ![r].at = "fill"]
  /\ UNCHANGED <<file, kept, disturbed, kills>>
Truncate(r) ==
  /\ req[r].at = "save"
  /\ file' = [file EXCEPT ![Home] = Empty]
  /\ req' = [req EXCEPT ![r].at = "fill"]
  /\ UNCHANGED <<kept, disturbed, kills>>

\* A file that somebody else filled since it was emptied: the longer of the
\* two shows at the end, as whole contexts or as something that is no YAML.
Overlaid(new, old) ==
  IF old \in {Empty, Garbled} THEN {new} \union ({old} \ {Empty})
  ELSE {Garbled} \union
       {[new EXCEPT !.contexts = Over(@, Restrict(old.contexts, N))] :
          N \in SUBSET (DOMAIN old.contexts \ DOMAIN new.contexts)}

Fill(r) ==
  /\ req[r].at = "fill"
  /\ \E st \in Overlaid(req[r].copy, file[Home]) : file' = [file EXCEPT ![Home] = st]
  /\ kept' = IF disturbed THEN kept ELSE Changed(kept, req[r])
  /\ Reply(r)
  /\ UNCHANGED <<disturbed, kills>>

\* The CLI is interrupted, the daemon dies, the disk is full.
Die(r) ==
  /\ Saving(r)
  /\ kills < MaxKills
  /\ kills' = kills + 1
  /\ Disturb(req[r].at = "fill")
  /\ Reply(r)
  /\ UNCHANGED file

-----------------------------------------------------------------------------
(* A sandbox request, and where it is served.                              *)

\* activeContextProxyMiddleware: a request that carries the proxy header
\* goes no further.
RouteAlways(d, proxied) == Target(d, Load(d))  \* as if the header were not looked at
Route(d, proxied) == IF proxied THEN d ELSE Target(d, Load(d))

\* History: where the acknowledged changes want it, if nobody is saving.
Wanted == IF disturbed \/ \E q \in Requests : Saving(q) THEN Nobody
          ELSE Target(Home, kept)

\* A client's request carries no proxy header: serve it here, or send it on.
\* Where the file does not parse the answer is 502.
Call(r) ==
  /\ req[r] = Idle
  /\ file[Home] # Garbled
  /\ LET d == Route(Home, FALSE) IN
       req' = [req EXCEPT ![r] = [Idle EXCEPT !.at = IF d = Home THEN "served" ELSE "sent",
                                              !.on = d, !.want = Wanted]]
  /\ UNCHANGED <<file, kept, disturbed, kills>>

\* The other daemon: the header client.Do set makes it serve the request,
\* whatever its own contexts say.
ServeThere(r) ==
  /\ req[r].at \in {"sent", "gone"}
  /\ req' = [req EXCEPT ![r].at = "served", ![r].on = Route(@, TRUE)]
  /\ UNCHANGED <<file, kept, disturbed, kills>>

\* No token in the environment, no connection, or 30 seconds without an
\* answer: the client reads 502, and the other daemon may have the request.
BadGateway(r) ==
  /\ req[r].at = "sent"
  /\ \/ Reply(r)
     \/ req' = [req EXCEPT ![r].at = "gone"]
  /\ UNCHANGED <<file, kept, disturbed, kills>>

Answer(r) ==
  /\ req[r].at = "served"
  /\ Reply(r)
  /\ UNCHANGED <<file, kept, disturbed, kills>>

Next ==
  \E r \in Requests :
    \/ \E op \in {"create", "update"}, n \in Names, c \in Definitions : Change(r, op, n, c)
    \/ \E op \in {"delete", "use"}, n \in Names \union {Local} : Change(r, op, n, Idle.ctx)
    \/ Truncate(r) \/ Fill(r) \/ Die(r)
    \/ Call(r) \/ ServeThere(r) \/ BadGateway(r) \/ Answer(r)

Spec == Init /\ [][Next]_vars

-----------------------------------------------------------------------------
(* The map that clients of the contexts may take them for.                 *)

\* A change takes effect when it empties the file that it is about to fill.
Filler == CHOOSE r \in Requests : req[r].at = "fill"
Map == IF ~disturbed /\ \E r \in Requests : req[r].at = "fill" THEN req[Filler].copy
       ELSE IF file[Home] \in {Empty, Garbled} THEN NoContexts ELSE file[Home]

Calls == [r \in Requests |->
  CASE req[r].at = "idle" -> [is |-> "none"]
    [] req[r].at = "save" -> [is |-> "asked", op |-> req[r].op, name |-> req[r].name,
                              ctx |-> req[r].ctx]
    [] req[r].at = "fill" -> [is |-> "done"]
    [] req[r].at \in {"sent", "gone", "served"} -> [is |-> "routed", to |-> req[r].on]]

Promise == INSTANCE ContextMap WITH map <- Map, call <- Calls, broken <- disturbed

\* Each step of the requests, the commands and the file they rewrite between
\* them is a step of ContextMap or none of a client's business: contexts.yaml
\* is an atomic map, until two changes overlap or one dies half-way.
ImplementsMap == Promise!MapSpec

-----------------------------------------------------------------------------
(* Properties.                                                             *)

\* The active context exists, in every file that parses, whatever overlaps
\* and whoever dies: no request reads 502 because its context is gone.
ActiveIsKnown ==
  \A d \in Daemons : file[d] \notin {Empty, Garbled} =>
    file[d].active \in DOMAIN file[d].contexts \union {Local}

\* Unless two changes overlapped or one died while saving, the file holds
\* what the acknowledged changes add up to, no context lost, none back.
AcknowledgedIsKept ==
  disturbed \/ (\E r \in Requests : req[r].at = "fill") \/ file[Home] = kept

\* A sandbox request is served by the daemon that was active when the
\* request was routed: one hop, and no further where the other daemon has an
\* active context of its own.
ServedWhereActive ==
  \A r \in Requests : req[r].at = "served" => req[r].want \in {Nobody, req[r].on}
=============================================================================
