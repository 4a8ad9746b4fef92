----------------------------- MODULE ContextMap -----------------------------
(***************************************************************************)
(* What pi-sandboxd promises about its contexts, with the file, its copies *)
(* and its two-step writes left out: one map of names to contexts with an  *)
(* active name, where every change takes effect at one moment between its  *)
(* request and its answer, and every sandbox request is routed once, by    *)
(* the map of that moment, and goes nowhere else.                          *)
(*                                                                         *)
(* The promise ends when two changes overlap or one dies half-way: from    *)
(* then on the map may turn into any other, but into none whose active     *)
(* context is missing.                                                     *)
(***************************************************************************)
CONSTANTS
  Names, Definitions,
  Daemons, Home,  \* where requests may be served, and where they arrive
  Requests

VARIABLES
  map,     \* [active, contexts]
  call,    \* what each request asks for, and how far it is
  broken   \* the promise has ended

mapVars == <<map, call, broken>>

NoCall == [is |-> "none"]
Questions == [is : {"asked"}, op : {"create", "update", "delete", "use"},
              name : Names \union {"local"}, ctx : Definitions]
Maps == UNION {[active : N \union {"local"}, contexts : [N -> Definitions]] :
                 N \in SUBSET Names}

\* Each transport goes with one kind of authentication.
Kinds == [http |-> "bearer-token", ssh |-> "ssh-agent", unix |-> "none"]
Valid(c) == /\ c.transport \in DOMAIN Kinds /\ c.auth = Kinds[c.transport]
            /\ c.transport = "http" => c.env

\* The map after a change, or no map at all where it is refused.
Put(m, n, c) == [active |-> m.active,
                 contexts |-> [x \in DOMAIN m.contexts \union {n} |->
                                 IF x = n THEN c ELSE m.contexts[x]]]
Without(m, n) == [active |-> IF m.active = n THEN "local" ELSE m.active,
                  contexts |-> [x \in DOMAIN m.contexts \ {n} |-> m.contexts[x]]]
After(m, q) ==
  LET n == q.name  known == n \in DOMAIN m.contexts IN
  {x \in Maps :
     \/ q.op = "create" /\ n # "local" /\ ~known /\ Valid(q.ctx) /\ x = Put(m, n, q.ctx)
     \/ q.op = "update" /\ known /\ Valid(q.ctx) /\ x = Put(m, n, q.ctx)
     \/ q.op = "delete" /\ known /\ x = Without(m, n)
     \/ q.op = "use" /\ (known \/ n = "local") /\ x = [m EXCEPT !.active = n]}

\* The daemon of the active context; every unix context is served at home.
Where(m) ==
  IF m.active = "local" \/ m.contexts[m.active].transport = "unix" THEN Home
  ELSE m.contexts[m.active].to

MapInit ==
  /\ map = [active |-> "local", contexts |-> [n \in {} |-> "local"]]
  /\ call = [r \in Requests |-> NoCall]
  /\ broken = FALSE

Become(r, c) == call' = [call EXCEPT ![r] = c]

Ask(r) ==
  /\ call[r] = NoCall
  /\ call'[r] \in Questions
  /\ Become(r, call'[r])
  /\ UNCHANGED <<map, broken>>

TakeEffect(r) ==
  /\ call[r].is = "asked"
  /\ map' \in After(map, call[r])
  /\ Become(r, [is |-> "done"])
  /\ UNCHANGED broken

\* A change is answered once it took effect; one that is interrupted before
\* never does.
End(r) ==
  /\ Become(r, NoCall)
  /\ UNCHANGED <<map, broken>>

\* While a change that took effect is not answered yet, a request that
\* arrives may find no contexts and be served at home.
Route(r, d) ==
  /\ call[r] = NoCall
  /\ \/ d = Where(map)
     \/ d = Home /\ \E q \in Requests : call[q].is = "done"
  /\ Become(r, [is |-> "routed", to |-> d])
  /\ UNCHANGED <<map, broken>>

\* Two changes overlap, or one dies after it took effect.
Break ==
  /\ \E q \in Requests : call[q].is \in {"asked", "done"}
  /\ broken' = TRUE
  /\ map' \in Maps

Whatever == broken /\ broken' /\ map' \in Maps

MapNext ==
  \/ \E r \in Requests : End(r) \/ Ask(r) \/ TakeEffect(r) \/ \E d \in Daemons : Route(r, d)
  \/ Break \/ Whatever

MapSpec == MapInit /\ [][MapNext]_mapVars
=============================================================================
