------------------------ MODULE ContextsClientsProofs -------------------------
(****************************************************************************)
(* Proofs about two parts of Parts: Contexts, for every set of daemons,     *)
(* names, definitions and requests, any files beside the other daemons and  *)
(* any number of kills; and Clients, for every set of clients, sandboxes    *)
(* and request slots, and any number of mishaps. Names of a part's proof    *)
(* begin with Ctx or with Cl.                                               *)
(*                                                                          *)
(* The argument for the contexts: while no two changes have overlapped and  *)
(* none has died half-way, there is at most one change under way, its copy  *)
(* is what it makes of the acknowledged changes, and the file holds these   *)
(* whenever nobody is filling it (CtxOneAtATime).                           *)
(*                                                                          *)
(* The argument for the commands: an answer stands for what the daemon did  *)
(* (ClAnswering), it belongs to the request whose client waits for it       *)
(* (ClPaired), and a sandbox that a client counts on is gone when it is     *)
(* answered for (ClGone).                                                   *)
(****************************************************************************)
EXTENDS Parts, TLAPS

-----------------------------------------------------------------------------
(* The contexts.                                                            *)

CtxAssumptions == Ctx!ContextsAssumption /\ Ctx!FileAssumption /\ Ctx!ElsewhereAssumption

-----------------------------------------------------------------------------
(* Stores.                                                                  *)

\* A store is taken apart ...
LEMMA CtxStoreParts ==
  ASSUME NEW st \in Ctx!Stores
  PROVE  /\ st = [active |-> st.active, contexts |-> st.contexts]
         /\ DOMAIN st.contexts \subseteq ContextNames
         /\ st.contexts \in [DOMAIN st.contexts -> ContextDefinitions]
         /\ st.active \in DOMAIN st.contexts \union {Ctx!Local}
<1>1. PICK N \in SUBSET ContextNames : st \in [active : N \union {Ctx!Local}, contexts : [N -> ContextDefinitions]]
  BY DEF Ctx!Stores
<1> QED BY <1>1

\* ... and put together.
LEMMA CtxStoreMade ==
  ASSUME NEW N \in SUBSET ContextNames, NEW a \in N \union {Ctx!Local}, NEW f \in [N -> ContextDefinitions]
  PROVE  [active |-> a, contexts |-> f] \in Ctx!Stores
<1>1. [active |-> a, contexts |-> f] \in [active : N \union {Ctx!Local}, contexts : [N -> ContextDefinitions]]
  OBVIOUS
<1> QED BY <1>1 DEF Ctx!Stores

LEMMA CtxNoContextsIsStore == Ctx!NoContexts \in Ctx!Stores
<1>1. {} \in SUBSET ContextNames /\ [n \in {} |-> Ctx!Nobody] \in [{} -> ContextDefinitions]
  OBVIOUS
<1> QED BY <1>1, CtxStoreMade DEF Ctx!NoContexts

\* A context more, or another one under its name, leaves a store.
LEMMA CtxWithIsStore ==
  ASSUME NEW st \in Ctx!Stores, NEW n \in ContextNames, NEW c \in ContextDefinitions
  PROVE  Ctx!With(st, n, c) \in Ctx!Stores
<1> DEFINE f == Ctx!Over([x \in {n} |-> c], st.contexts)
<1>1. Ctx!With(st, n, c) = [active |-> st.active, contexts |-> f]
  BY CtxStoreParts DEF Ctx!With
<1>2. f \in [DOMAIN st.contexts \union {n} -> ContextDefinitions]
  BY CtxStoreParts DEF Ctx!Over
<1>3. DOMAIN st.contexts \union {n} \in SUBSET ContextNames
  BY CtxStoreParts
<1>4. st.active \in (DOMAIN st.contexts \union {n}) \union {Ctx!Local}
  BY CtxStoreParts
<1> HIDE DEF f
<1> QED BY <1>1, <1>2, <1>3, <1>4, CtxStoreMade

\* A context less, and the active one "local" where it was that one.
LEMMA CtxDeleteIsStore ==
  ASSUME NEW st \in Ctx!Stores, NEW n PROVE Ctx!Delete(st, n) \in Ctx!Stores
<1> DEFINE N == DOMAIN st.contexts \ {n}
           f == Ctx!Restrict(st.contexts, N)
           a == IF st.active = n THEN Ctx!Local ELSE st.active
<1>1. Ctx!Delete(st, n) = [active |-> a, contexts |-> f]
  BY DEF Ctx!Delete
<1>2. f \in [N -> ContextDefinitions]
  BY CtxStoreParts DEF Ctx!Restrict
<1>3. N \in SUBSET ContextNames /\ a \in N \union {Ctx!Local}
  BY CtxStoreParts
<1> HIDE DEF N, f, a
<1> QED BY <1>1, <1>2, <1>3, CtxStoreMade

\* What a change that is accepted makes of a store is a store.
LEMMA CtxChangedIsStore ==
  ASSUME NEW st \in Ctx!Stores, NEW q, q.op \in Ctx!Changes, Ctx!Accepts(st, q),
         q.name \in ContextNames \union {Ctx!Local}, q.ctx \in ContextDefinitions
  PROVE  Ctx!Changed(st, q) \in Ctx!Stores
<1>1. CASE q.op = "create"
  <2>1. q.name \in ContextNames
    BY <1>1 DEF Ctx!Accepts
  <2> QED BY <1>1, <2>1, CtxWithIsStore DEF Ctx!Changed, Ctx!Create
<1>2. CASE q.op = "update"
  <2>1. q.name \in ContextNames
    BY <1>2, CtxStoreParts DEF Ctx!Accepts
  <2> QED BY <1>2, <2>1, CtxWithIsStore DEF Ctx!Changed, Ctx!Update
<1>3. CASE q.op = "delete"
  BY <1>3, CtxDeleteIsStore DEF Ctx!Changed
<1>4. CASE q.op = "use"
  <2>1. q.name \in DOMAIN st.contexts \union {Ctx!Local}
    BY <1>4 DEF Ctx!Accepts
  <2>2. Ctx!Use(st, q.name) = [active |-> q.name, contexts |-> st.contexts]
    BY CtxStoreParts DEF Ctx!Use
  <2>3. Ctx!Use(st, q.name) \in Ctx!Stores
    BY <2>1, <2>2, CtxStoreParts, CtxStoreMade
  <2> QED BY <1>4, <2>3 DEF Ctx!Changed
<1> QED BY <1>1, <1>2, <1>3, <1>4 DEF Ctx!Changes

\* Where two files show through each other, either the result is no YAML or
\* it is a store.
LEMMA CtxOverlaidIsStore ==
  ASSUME Ctx!FileAssumption, NEW new \in Ctx!Stores, NEW old \in Ctx!Stores \union {Empty, Garbled},
         NEW st \in Ctx!Overlaid(new, old)
  PROVE  st \in Ctx!Stores \union {Garbled}
<1>1. CASE old \in {Empty, Garbled}
  BY <1>1 DEF Ctx!Overlaid
<1>2. CASE old \notin {Empty, Garbled} /\ st # Garbled
  <2>1. PICK N \in SUBSET (DOMAIN old.contexts \ DOMAIN new.contexts) :
          st = [new EXCEPT !.contexts = Ctx!Over(new.contexts, Ctx!Restrict(old.contexts, N))]
    BY <1>2 DEF Ctx!Overlaid
  <2> DEFINE M == DOMAIN new.contexts \union N
             f == Ctx!Over(new.contexts, Ctx!Restrict(old.contexts, N))
  <2>2. old \in Ctx!Stores
    BY <1>2
  <2>3. f \in [M -> ContextDefinitions]
    <3>1. Ctx!Restrict(old.contexts, N) \in [N -> ContextDefinitions]
      BY <2>2, CtxStoreParts DEF Ctx!Restrict
    <3> HIDE DEF M
    <3> QED BY <3>1, CtxStoreParts DEF Ctx!Over, M
  <2>4. M \in SUBSET ContextNames /\ new.active \in M \union {Ctx!Local}
    BY <2>2, CtxStoreParts
  <2>5. st = [active |-> new.active, contexts |-> f]
    BY <2>1, CtxStoreParts
  <2> HIDE DEF M, f
  <2> QED BY <2>3, <2>4, <2>5, CtxStoreMade
<1> QED BY <1>1, <1>2

\* A request is routed to a daemon.
LEMMA CtxTargetIsDaemon ==
  ASSUME Ctx!ContextsAssumption, NEW st \in Ctx!Stores, NEW d \in ContextDaemons
  PROVE  Ctx!Target(d, st) \in ContextDaemons
BY CtxStoreParts DEF Ctx!Target, Ctx!ContextsAssumption

-----------------------------------------------------------------------------
(* The invariant.                                                           *)

\* A change that is being saved was accepted, of a kind and name the store
\* knows; only calls are sent or served.
CtxChangesAreKnown ==
  \A r \in Actors : Ctx!Saving(r) =>
    ctxReq[r].op \in Ctx!Changes /\ (ctxReq[r].op \in {"create", "update"} => ctxReq[r].name \in ContextNames)

\* Undisturbed, one change at a time is saved, and it is the one that the
\* acknowledged ones accept; the file is empty while it is being filled, and
\* holds the acknowledged changes otherwise.
CtxOneAtATime ==
  ~ctxDisturbed =>
    /\ \A r, q \in Actors : Ctx!Saving(r) /\ Ctx!Saving(q) => r = q
    /\ \A r \in Actors : Ctx!Saving(r) =>
         Ctx!Accepts(ctxKept, ctxReq[r]) /\ ctxReq[r].copy = Ctx!Changed(ctxKept, ctxReq[r])
    /\ \A r \in Actors : ctxReq[r].at = "fill" => ctxFile[Home] = Empty
    /\ (\A r \in Actors : ctxReq[r].at # "fill") => ctxFile[Home] = ctxKept

\* What a request was routed by is where it is served, however long it takes.
CtxRoutedAsWanted ==
  \A r \in Actors : ctxReq[r].at \in {"sent", "gone", "served"} =>
    ctxReq[r].want \in {Ctx!Nobody, ctxReq[r].on}

CtxIInv == Ctx!TypeOK /\ CtxChangesAreKnown /\ CtxOneAtATime /\ CtxRoutedAsWanted

\* What a request is doing.
CtxReqRecords == [at : {"idle", "save", "fill", "sent", "gone", "served"},
                  op : Ctx!Changes \union {"call"}, name : ContextNames \union {Ctx!Local},
                  ctx : ContextDefinitions, copy : Ctx!Stores, on : ContextDaemons,
                  want : ContextDaemons \union {Ctx!Nobody}]

LEMMA CtxIdleIsRecord == ASSUME Ctx!ContextsAssumption PROVE Ctx!Idle \in CtxReqRecords
<1>1. (CHOOSE c \in ContextDefinitions : TRUE) \in ContextDefinitions
  BY DEF Ctx!ContextsAssumption
<1> QED BY <1>1, CtxNoContextsIsStore DEF Ctx!Idle, CtxReqRecords, Ctx!ContextsAssumption

\* The store that a request loads.
LEMMA CtxLoadIsStore ==
  ASSUME Ctx!TypeOK, Ctx!ContextsAssumption, ctxFile[Home] # Garbled
  PROVE  Ctx!Load(Home) \in Ctx!Stores
BY CtxNoContextsIsStore DEF Ctx!TypeOK, Ctx!Load, Ctx!ContextsAssumption

\* A change begins: it overlaps with another one, or it is the only one and
\* has loaded what the acknowledged ones add up to.
LEMMA CtxChangeKeeps ==
  ASSUME CtxAssumptions, CtxIInv,
         NEW r \in Actors, NEW op \in Ctx!Changes, NEW n \in ContextNames \union {Ctx!Local},
         NEW c \in ContextDefinitions, op \in {"create", "update"} => n \in ContextNames,
         Ctx!Change(r, op, n, c)
  PROVE  CtxIInv'
<1> USE DEF CtxAssumptions
<1> DEFINE q == [Ctx!Idle EXCEPT !.at = "save", !.op = op, !.name = n, !.ctx = c]
           st == Ctx!Load(Home)
           rec == [q EXCEPT !.copy = Ctx!Changed(st, q)]
<1>1. /\ ctxReq[r] = Ctx!Idle /\ ctxFile[Home] # Garbled /\ Ctx!Accepts(st, q)
      /\ ctxReq' = [ctxReq EXCEPT ![r] = rec]
      /\ ctxFile' = ctxFile /\ ctxKills' = ctxKills
      /\ Ctx!Disturb(\E other \in Actors \ {r} : Ctx!Saving(other))
  BY DEF Ctx!Change
<1>2. st \in Ctx!Stores
  BY <1>1, CtxLoadIsStore DEF CtxIInv
<1>3. q \in CtxReqRecords /\ q.op = op /\ q.name = n /\ q.ctx = c
  BY CtxIdleIsRecord DEF CtxReqRecords
<1>4. Ctx!Changed(st, q) \in Ctx!Stores
  BY <1>1, <1>2, <1>3, CtxChangedIsStore
<1>5. rec \in CtxReqRecords /\ rec.op = op /\ rec.name = n /\ rec.ctx = c /\ rec.at = "save"
      /\ rec.copy = Ctx!Changed(st, q)
  BY <1>3, <1>4, CtxIdleIsRecord DEF CtxReqRecords
<1>6. Ctx!Accepts(st, rec) /\ Ctx!Changed(st, rec) = Ctx!Changed(st, q)
  BY <1>1, <1>3, <1>5 DEF Ctx!Accepts, Ctx!Changed
<1> HIDE DEF q, st, rec
<1>7. ctxKept' \in Ctx!Stores /\ ctxDisturbed' \in BOOLEAN
  BY <1>1, CtxNoContextsIsStore DEF Ctx!Disturb, CtxIInv, Ctx!TypeOK
<1>8. ctxReq' \in [Actors -> CtxReqRecords]
  BY <1>1, <1>5 DEF CtxIInv, Ctx!TypeOK, CtxReqRecords
<1>9. Ctx!TypeOK'
  BY <1>1, <1>7, <1>8 DEF CtxIInv, Ctx!TypeOK, CtxReqRecords
<1>10. /\ ctxReq'[r] = rec
       /\ \A p \in Actors : p # r => ctxReq'[p] = ctxReq[p]
  BY <1>1 DEF CtxIInv, Ctx!TypeOK
<1>11. CtxChangesAreKnown'
  BY <1>5, <1>10 DEF CtxIInv, CtxChangesAreKnown, Ctx!Saving
<1>12. ASSUME ~ctxDisturbed' PROVE CtxOneAtATime'
  <2>1. ~ctxDisturbed /\ ctxKept' = ctxKept /\ \A p \in Actors : p # r => ~Ctx!Saving(p)
    BY <1>1, <1>12 DEF Ctx!Disturb
  <2>2. \A p \in Actors : ctxReq[p].at # "fill"
    BY <1>1, <2>1 DEF Ctx!Saving, Ctx!Idle
  <2>3. ctxFile[Home] = ctxKept
    BY <2>1, <2>2 DEF CtxIInv, CtxOneAtATime
  <2>4. st = ctxKept
    BY <2>3 DEF st, Ctx!Load, CtxIInv, Ctx!TypeOK, Ctx!FileAssumption
  <2>5. \A p \in Actors : Ctx!Saving(p)' => p = r
    BY <1>10, <2>1 DEF Ctx!Saving
  <2>6. \A p \in Actors : ctxReq'[p].at # "fill"
    BY <1>5, <1>10, <2>2
  <2> QED BY <1>1, <1>5, <1>6, <1>10, <2>1, <2>3, <2>4, <2>5, <2>6 DEF CtxOneAtATime
<1>13. CtxRoutedAsWanted'
  BY <1>5, <1>10 DEF CtxIInv, CtxRoutedAsWanted
<1> QED BY <1>9, <1>11, <1>12, <1>13 DEF CtxIInv, CtxOneAtATime

\* The file is emptied by the one who changes it.
LEMMA CtxTruncateKeeps ==
  ASSUME CtxAssumptions, CtxIInv, NEW r \in Actors, Ctx!Truncate(r) PROVE CtxIInv'
<1> USE DEF CtxAssumptions
<1>1. /\ ctxReq[r].at = "save" /\ ctxReq' = [ctxReq EXCEPT ![r].at = "fill"]
      /\ ctxFile' = [ctxFile EXCEPT ![Home] = Empty]
      /\ ctxKept' = ctxKept /\ ctxDisturbed' = ctxDisturbed /\ ctxKills' = ctxKills
  BY DEF Ctx!Truncate
<1>2. Ctx!TypeOK'
  BY <1>1 DEF CtxIInv, Ctx!TypeOK, Ctx!ContextsAssumption
<1>3. /\ \A p \in Actors : p # r => ctxReq'[p] = ctxReq[p]
      /\ ctxReq'[r] = [ctxReq[r] EXCEPT !.at = "fill"] /\ ctxReq'[r].at = "fill"
      /\ ctxReq'[r].op = ctxReq[r].op /\ ctxReq'[r].name = ctxReq[r].name
      /\ ctxReq'[r].ctx = ctxReq[r].ctx /\ ctxReq'[r].copy = ctxReq[r].copy
  BY <1>1 DEF CtxIInv, Ctx!TypeOK
<1>4. \A p \in Actors : Ctx!Saving(p)' <=> Ctx!Saving(p)
  BY <1>1, <1>3 DEF Ctx!Saving
<1>5. CtxChangesAreKnown'
  BY <1>3, <1>4 DEF CtxIInv, CtxChangesAreKnown
<1>6. Ctx!Accepts(ctxKept, ctxReq'[r]) <=> Ctx!Accepts(ctxKept, ctxReq[r])
  BY <1>3 DEF Ctx!Accepts
<1>7. Ctx!Changed(ctxKept, ctxReq'[r]) = Ctx!Changed(ctxKept, ctxReq[r])
  BY <1>3 DEF Ctx!Changed
<1>8. ctxFile'[Home] = Empty
  BY <1>1 DEF CtxIInv, Ctx!TypeOK, Ctx!ContextsAssumption
<1>9. CtxOneAtATime'
  <2> SUFFICES ASSUME ~ctxDisturbed PROVE CtxOneAtATime'
    BY <1>1 DEF CtxOneAtATime
  <2>1. \A p \in Actors : Ctx!Saving(p) =>
          Ctx!Accepts(ctxKept, ctxReq'[p]) /\ ctxReq'[p].copy = Ctx!Changed(ctxKept, ctxReq'[p])
    BY <1>3, <1>6, <1>7 DEF CtxIInv, CtxOneAtATime
  <2>2. \A p, q \in Actors : Ctx!Saving(p) /\ Ctx!Saving(q) => p = q
    BY DEF CtxIInv, CtxOneAtATime
  <2> QED BY <1>1, <1>3, <1>4, <1>8, <2>1, <2>2 DEF CtxOneAtATime
<1>10. CtxRoutedAsWanted'
  BY <1>3 DEF CtxIInv, CtxRoutedAsWanted
<1> QED BY <1>2, <1>5, <1>9, <1>10 DEF CtxIInv

\* A request that ends.
LEMMA CtxReplyKeeps ==
  ASSUME Ctx!ContextsAssumption, CtxIInv, NEW r \in Actors, Ctx!Reply(r)
  PROVE  /\ ctxReq' \in [Actors -> CtxReqRecords]
         /\ ctxReq'[r] = Ctx!Idle /\ ~Ctx!Saving(r)'
         /\ \A p \in Actors : p # r => ctxReq'[p] = ctxReq[p] /\ (Ctx!Saving(p)' <=> Ctx!Saving(p))
         /\ CtxChangesAreKnown' /\ CtxRoutedAsWanted'
<1>1. ctxReq' = [ctxReq EXCEPT ![r] = Ctx!Idle] /\ Ctx!Idle.at = "idle"
  BY DEF Ctx!Reply, Ctx!Idle
<1>2. ctxReq \in [Actors -> CtxReqRecords]
  BY DEF CtxIInv, Ctx!TypeOK, CtxReqRecords
<1>3. ctxReq' \in [Actors -> CtxReqRecords] /\ ctxReq'[r] = Ctx!Idle
  BY <1>1, <1>2, CtxIdleIsRecord
<1>4. \A p \in Actors : p # r => ctxReq'[p] = ctxReq[p]
  BY <1>1, <1>2
<1>5. ~Ctx!Saving(r)' /\ \A p \in Actors : p # r => (Ctx!Saving(p)' <=> Ctx!Saving(p))
  BY <1>1, <1>3, <1>4 DEF Ctx!Saving
<1>6. CtxChangesAreKnown'
  BY <1>4, <1>5 DEF CtxIInv, CtxChangesAreKnown
<1>7. CtxRoutedAsWanted'
  BY <1>1, <1>3, <1>4 DEF CtxIInv, CtxRoutedAsWanted
<1> QED BY <1>3, <1>4, <1>5, <1>6, <1>7

\* The file is filled: undisturbed it was empty, and it holds one
\* acknowledged change more.
LEMMA CtxFillKeeps ==
  ASSUME CtxAssumptions, CtxIInv, NEW r \in Actors, Ctx!Fill(r) PROVE CtxIInv'
<1> USE DEF CtxAssumptions
<1>1. PICK st \in Ctx!Overlaid(ctxReq[r].copy, ctxFile[Home]) : ctxFile' = [ctxFile EXCEPT ![Home] = st]
  BY DEF Ctx!Fill
<1>2. /\ ctxReq[r].at = "fill" /\ Ctx!Reply(r) /\ ctxDisturbed' = ctxDisturbed /\ ctxKills' = ctxKills
      /\ ctxKept' = IF ctxDisturbed THEN ctxKept ELSE Ctx!Changed(ctxKept, ctxReq[r])
      /\ Ctx!Saving(r)
  BY DEF Ctx!Fill, Ctx!Saving
<1>3. st \in Ctx!Stores \union {Garbled}
  BY CtxOverlaidIsStore DEF CtxIInv, Ctx!TypeOK, Ctx!ContextsAssumption
<1>4. ctxKept' \in Ctx!Stores
  BY <1>2, CtxChangedIsStore DEF CtxIInv, Ctx!TypeOK, CtxChangesAreKnown, CtxOneAtATime
<1>5. Ctx!TypeOK'
  BY <1>1, <1>2, <1>3, <1>4, CtxReplyKeeps DEF CtxIInv, Ctx!TypeOK, CtxReqRecords
<1>6. ASSUME ~ctxDisturbed PROVE CtxOneAtATime'
  <2>1. ctxFile[Home] = Empty /\ ctxReq[r].copy = Ctx!Changed(ctxKept, ctxReq[r])
    BY <1>2, <1>6 DEF CtxIInv, CtxOneAtATime
  <2>2. st = ctxReq[r].copy
    BY <2>1 DEF Ctx!Overlaid
  <2>3. ctxFile'[Home] = ctxKept'
    BY <1>1, <1>2, <1>6, <2>1, <2>2 DEF CtxIInv, Ctx!TypeOK, Ctx!ContextsAssumption
  <2>4. \A p \in Actors : ~Ctx!Saving(p)'
    BY <1>2, <1>6, CtxReplyKeeps DEF CtxIInv, CtxOneAtATime
  <2> QED BY <2>3, <2>4 DEF CtxOneAtATime, Ctx!Saving
<1> QED BY <1>2, <1>5, <1>6, CtxReplyKeeps DEF CtxIInv, CtxOneAtATime

\* One that dies before it has emptied the file leaves it as it was.
LEMMA CtxDieKeeps ==
  ASSUME CtxAssumptions, CtxIInv, NEW r \in Actors, Ctx!Die(r) PROVE CtxIInv'
<1> USE DEF CtxAssumptions
<1>1. /\ Ctx!Saving(r) /\ Ctx!Disturb(ctxReq[r].at = "fill") /\ Ctx!Reply(r) /\ ctxFile' = ctxFile
      /\ ctxKills < MaxKills /\ ctxKills' = ctxKills + 1
  BY DEF Ctx!Die
<1>2. ctxKept' \in Ctx!Stores /\ ctxDisturbed' \in BOOLEAN
  BY <1>1, CtxNoContextsIsStore DEF Ctx!Disturb, CtxIInv, Ctx!TypeOK
<1>3. ctxKills' \in 0..MaxKills
  BY <1>1 DEF CtxIInv, Ctx!TypeOK, Ctx!ContextsAssumption
<1>4. Ctx!TypeOK'
  BY <1>1, <1>2, <1>3, CtxReplyKeeps DEF CtxIInv, Ctx!TypeOK, CtxReqRecords
<1>5. ASSUME ~ctxDisturbed' PROVE CtxOneAtATime'
  <2>1. ~ctxDisturbed /\ ctxKept' = ctxKept /\ ctxReq[r].at # "fill"
    BY <1>1, <1>5 DEF Ctx!Disturb
  <2>2. \A p \in Actors : ~Ctx!Saving(p)'
    BY <1>1, <2>1, CtxReplyKeeps DEF CtxIInv, CtxOneAtATime
  <2>3. \A p \in Actors : ctxReq[p].at # "fill"
    BY <1>1, <2>1 DEF CtxIInv, CtxOneAtATime, Ctx!Saving
  <2>4. ctxFile'[Home] = ctxKept'
    BY <1>1, <2>1, <2>3 DEF CtxIInv, CtxOneAtATime
  <2> QED BY <2>2, <2>4 DEF CtxOneAtATime, Ctx!Saving
<1> QED BY <1>1, <1>4, <1>5, CtxReplyKeeps DEF CtxIInv, CtxOneAtATime

\* A step of a request that saves nothing, before or after it.
LEMMA CtxBystanderKeeps ==
  ASSUME Ctx!ContextsAssumption, CtxIInv, NEW r \in Actors, NEW rec \in CtxReqRecords,
         ~Ctx!Saving(r), rec.at \notin {"save", "fill"},
         rec.at \in {"sent", "gone", "served"} => rec.want \in {Ctx!Nobody, rec.on},
         ctxReq' = [ctxReq EXCEPT ![r] = rec], UNCHANGED <<ctxFile, ctxKept, ctxDisturbed, ctxKills>>
  PROVE  CtxIInv'
<1>1. ctxReq' \in [Actors -> CtxReqRecords]
  BY DEF CtxIInv, Ctx!TypeOK, CtxReqRecords
<1>2. Ctx!TypeOK'
  BY <1>1 DEF CtxIInv, Ctx!TypeOK, CtxReqRecords
<1>3. ctxReq'[r] = rec /\ \A p \in Actors : p # r => ctxReq'[p] = ctxReq[p]
  BY DEF CtxIInv, Ctx!TypeOK
<1>4. ~Ctx!Saving(r)' /\ \A p \in Actors : p # r => (Ctx!Saving(p)' <=> Ctx!Saving(p))
  BY <1>3 DEF Ctx!Saving
<1>5. CtxChangesAreKnown'
  BY <1>3, <1>4 DEF CtxIInv, CtxChangesAreKnown
<1>6. CtxOneAtATime'
  <2> SUFFICES ASSUME ~ctxDisturbed PROVE CtxOneAtATime'
    BY DEF CtxOneAtATime
  <2>1. \A p \in Actors : ctxReq'[p].at = "fill" <=> ctxReq[p].at = "fill"
    BY <1>3 DEF Ctx!Saving
  <2>2. \A p, q \in Actors : Ctx!Saving(p)' /\ Ctx!Saving(q)' => p = q
    BY <1>4 DEF CtxIInv, CtxOneAtATime
  <2>3. \A p \in Actors : Ctx!Saving(p)' =>
          Ctx!Accepts(ctxKept, ctxReq'[p]) /\ ctxReq'[p].copy = Ctx!Changed(ctxKept, ctxReq'[p])
    BY <1>3, <1>4 DEF CtxIInv, CtxOneAtATime
  <2>4. /\ \A p \in Actors : ctxReq[p].at = "fill" => ctxFile[Home] = Empty
        /\ (\A p \in Actors : ctxReq[p].at # "fill") => ctxFile[Home] = ctxKept
    BY DEF CtxIInv, CtxOneAtATime
  <2> QED BY <2>1, <2>2, <2>3, <2>4 DEF CtxOneAtATime
<1>7. CtxRoutedAsWanted'
  BY <1>3 DEF CtxIInv, CtxRoutedAsWanted
<1> QED BY <1>2, <1>5, <1>6, <1>7 DEF CtxIInv

\* A call is routed by the file, which is what the acknowledged changes add
\* up to wherever they say where it should go.
LEMMA CtxCallKeeps ==
  ASSUME CtxAssumptions, CtxIInv, NEW r \in Actors, Ctx!Call(r) PROVE CtxIInv'
<1> USE DEF CtxAssumptions
<1> DEFINE d == Ctx!Target(Home, Ctx!Load(Home))
           rec == [Ctx!Idle EXCEPT !.at = IF d = Home THEN "served" ELSE "sent",
                                   !.on = d, !.want = Ctx!Wanted]
<1>1. ctxReq[r] = Ctx!Idle /\ ctxFile[Home] # Garbled /\ ctxReq' = [ctxReq EXCEPT ![r] = rec]
      /\ UNCHANGED <<ctxFile, ctxKept, ctxDisturbed, ctxKills>>
  BY DEF Ctx!Call, Ctx!Route
<1>2. d \in ContextDaemons
  BY <1>1, CtxLoadIsStore, CtxTargetIsDaemon DEF CtxIInv, Ctx!ContextsAssumption
<1>3. Ctx!Wanted \in {Ctx!Nobody, d}
  <2> SUFFICES ASSUME ~ctxDisturbed, \A q \in Actors : ~Ctx!Saving(q)
               PROVE  Ctx!Target(Home, ctxKept) = d
    BY DEF Ctx!Wanted
  <2>1. ctxFile[Home] = ctxKept
    BY DEF CtxIInv, CtxOneAtATime, Ctx!Saving
  <2>2. Ctx!Load(Home) = ctxKept
    BY <2>1 DEF Ctx!Load, CtxIInv, Ctx!TypeOK, Ctx!FileAssumption
  <2> QED BY <2>2
<1>4. rec \in CtxReqRecords /\ rec.at \in {"served", "sent"} /\ rec.on = d /\ rec.want = Ctx!Wanted
  <2> HIDE DEF d
  <2> QED BY <1>2, <1>3, CtxIdleIsRecord DEF CtxReqRecords
<1>5. ~Ctx!Saving(r)
  BY <1>1 DEF Ctx!Saving, Ctx!Idle
<1> HIDE DEF rec
<1> QED BY <1>1, <1>3, <1>4, <1>5, CtxBystanderKeeps

\* The other daemon serves what reaches it.
LEMMA CtxServeThereKeeps ==
  ASSUME CtxAssumptions, CtxIInv, NEW r \in Actors, Ctx!ServeThere(r) PROVE CtxIInv'
<1> USE DEF CtxAssumptions
<1> DEFINE rec == [ctxReq[r] EXCEPT !.at = "served"]
<1>1. ctxReq[r] \in CtxReqRecords
  BY DEF CtxIInv, Ctx!TypeOK, CtxReqRecords
<1>2. rec = [ctxReq[r] EXCEPT !.at = "served", !.on = Ctx!Route(@, TRUE)]
  BY <1>1 DEF CtxReqRecords, Ctx!Route
<1>3. ctxReq[r].at \in {"sent", "gone"} /\ ctxReq' = [ctxReq EXCEPT ![r] = rec]
      /\ UNCHANGED <<ctxFile, ctxKept, ctxDisturbed, ctxKills>>
  BY <1>2 DEF Ctx!ServeThere, CtxIInv, Ctx!TypeOK
<1>4. /\ rec \in CtxReqRecords /\ rec.at = "served" /\ rec.on = ctxReq[r].on
      /\ rec.want = ctxReq[r].want
  BY <1>1 DEF CtxReqRecords
<1>5. ~Ctx!Saving(r) /\ rec.want \in {Ctx!Nobody, rec.on}
  BY <1>3, <1>4 DEF Ctx!Saving, CtxIInv, CtxRoutedAsWanted
<1> HIDE DEF rec
<1> QED BY <1>3, <1>4, <1>5, CtxBystanderKeeps

\* A request the client has given up is where it was.
LEMMA CtxBadGatewayKeeps ==
  ASSUME CtxAssumptions, CtxIInv, NEW r \in Actors, Ctx!BadGateway(r) PROVE CtxIInv'
<1> USE DEF CtxAssumptions
<1>1. ~Ctx!Saving(r) /\ ctxReq[r].at = "sent"
  BY DEF Ctx!BadGateway, Ctx!Saving
<1>2. CASE Ctx!Reply(r)
  <2>1. Ctx!Idle.at = "idle" BY DEF Ctx!Idle
  <2> QED BY <1>1, <1>2, <2>1, CtxIdleIsRecord, CtxBystanderKeeps DEF Ctx!BadGateway, Ctx!Reply
<1>3. CASE ctxReq' = [ctxReq EXCEPT ![r].at = "gone"]
  <2> DEFINE rec == [ctxReq[r] EXCEPT !.at = "gone"]
  <2>1. ctxReq[r] \in CtxReqRecords
    BY DEF CtxIInv, Ctx!TypeOK, CtxReqRecords
  <2>2. rec \in CtxReqRecords /\ rec.at = "gone" /\ rec.on = ctxReq[r].on /\ rec.want = ctxReq[r].want
    BY <2>1 DEF CtxReqRecords
  <2>3. ctxReq' = [ctxReq EXCEPT ![r] = rec] /\ rec.want \in {Ctx!Nobody, rec.on}
    BY <1>1, <1>3, <2>2 DEF CtxIInv, CtxRoutedAsWanted, Ctx!TypeOK
  <2> HIDE DEF rec
  <2> QED BY <1>1, <2>2, <2>3, CtxBystanderKeeps DEF Ctx!BadGateway
<1> QED BY <1>2, <1>3 DEF Ctx!BadGateway

LEMMA CtxAnswerKeeps ==
  ASSUME CtxAssumptions, CtxIInv, NEW r \in Actors, Ctx!Answer(r) PROVE CtxIInv'
<1>1. Ctx!Idle.at = "idle" /\ ~Ctx!Saving(r)
  BY DEF Ctx!Idle, Ctx!Answer, Ctx!Saving
<1> QED BY <1>1, CtxIdleIsRecord, CtxBystanderKeeps DEF Ctx!Answer, Ctx!Reply, CtxAssumptions

-----------------------------------------------------------------------------
(* Every step.                                                              *)

LEMMA CtxInitially == ASSUME CtxAssumptions PROVE Ctx!Init => CtxIInv
<1> SUFFICES ASSUME Ctx!Init PROVE CtxIInv
  OBVIOUS
<1> USE DEF CtxAssumptions
<1>1. ctxFile \in [ContextDaemons -> Ctx!Stores \union {Empty, Garbled}] /\ ctxFile[Home] = Ctx!NoContexts
  BY CtxNoContextsIsStore DEF Ctx!Init, Ctx!ContextsAssumption, Ctx!ElsewhereAssumption
<1>2. ctxReq \in [Actors -> CtxReqRecords] /\ \A r \in Actors : ctxReq[r].at = "idle"
  BY CtxIdleIsRecord DEF Ctx!Init, Ctx!Idle
<1>3. ctxKept \in Ctx!Stores /\ ctxKept = Ctx!NoContexts /\ ctxDisturbed = FALSE /\ ctxKills \in 0..MaxKills
  BY CtxNoContextsIsStore DEF Ctx!Init, Ctx!ContextsAssumption
<1>4. Ctx!TypeOK
  BY <1>1, <1>2, <1>3 DEF Ctx!TypeOK, CtxReqRecords
<1> QED BY <1>1, <1>2, <1>3, <1>4 DEF CtxIInv, CtxChangesAreKnown, CtxOneAtATime, CtxRoutedAsWanted,
           Ctx!Saving

LEMMA CtxInvariance == CtxAssumptions => (Ctx!Spec => []CtxIInv)
<1> SUFFICES ASSUME CtxAssumptions PROVE Ctx!Spec => []CtxIInv
  OBVIOUS
<1>1. Ctx!Init => CtxIInv
  BY CtxInitially
<1>2. CtxIInv /\ [Ctx!Next]_(Ctx!vars) => CtxIInv'
  <2> SUFFICES ASSUME CtxIInv, [Ctx!Next]_(Ctx!vars) PROVE CtxIInv'
    OBVIOUS
  <2>1. ASSUME NEW r \in Actors, NEW op \in {"create", "update"}, NEW n \in ContextNames,
               NEW c \in ContextDefinitions, Ctx!Change(r, op, n, c)
        PROVE  CtxIInv'
    BY <2>1, CtxChangeKeeps DEF Ctx!Changes
  <2>2. ASSUME NEW r \in Actors, NEW op \in {"delete", "use"},
               NEW n \in ContextNames \union {Ctx!Local}, Ctx!Change(r, op, n, Ctx!Idle.ctx)
        PROVE  CtxIInv'
    <3>1. Ctx!Idle.ctx \in ContextDefinitions
      BY CtxIdleIsRecord DEF CtxReqRecords, CtxAssumptions
    <3> QED BY <2>2, <3>1, CtxChangeKeeps DEF Ctx!Changes
  <2>3. ASSUME NEW r \in Actors, Ctx!Truncate(r) PROVE CtxIInv'
    BY <2>3, CtxTruncateKeeps
  <2>4. ASSUME NEW r \in Actors, Ctx!Fill(r) PROVE CtxIInv'
    BY <2>4, CtxFillKeeps
  <2>5. ASSUME NEW r \in Actors, Ctx!Die(r) PROVE CtxIInv'
    BY <2>5, CtxDieKeeps
  <2>6. ASSUME NEW r \in Actors, Ctx!Call(r) PROVE CtxIInv'
    BY <2>6, CtxCallKeeps
  <2>7. ASSUME NEW r \in Actors, Ctx!ServeThere(r) PROVE CtxIInv'
    BY <2>7, CtxServeThereKeeps
  <2>8. ASSUME NEW r \in Actors, Ctx!BadGateway(r) PROVE CtxIInv'
    BY <2>8, CtxBadGatewayKeeps
  <2>9. ASSUME NEW r \in Actors, Ctx!Answer(r) PROVE CtxIInv'
    BY <2>9, CtxAnswerKeeps
  <2>10. CASE UNCHANGED Ctx!vars
    BY <2>10 DEF Ctx!vars, CtxIInv, Ctx!TypeOK, CtxChangesAreKnown, CtxOneAtATime,
       CtxRoutedAsWanted, Ctx!Saving
  <2> QED BY <2>1, <2>2, <2>3, <2>4, <2>5, <2>6, <2>7, <2>8, <2>9, <2>10 DEF Ctx!Next
<1> QED BY <1>1, <1>2, PTL DEF Ctx!Spec

-----------------------------------------------------------------------------
(* What holds of the contexts beside the other parts.                       *)

LEMMA CtxIsAPart == Spec => Ctx!Spec
<1>1. Init => Ctx!Init
  BY DEF Init
<1>2. [Next]_vars => [Ctx!Next]_(Ctx!vars)
  BY DEF Next, vars, ctx, Ctx!vars
<1> QED BY <1>1, <1>2, PTL DEF Spec, Ctx!Spec

LEMMA CtxHolds == Spec => []CtxIInv /\ [][Ctx!Next]_(Ctx!vars)
<1>1. CtxAssumptions
  BY PartsAssumption DEF CtxAssumptions, PartsAssumption
<1> QED BY <1>1, CtxIsAPart, CtxInvariance, PTL DEF Ctx!Spec

\* The active context of every file that parses exists, whatever overlaps
\* and whoever dies, if it does in the files beside the other daemons.
THEOREM ActiveAlwaysKnown == Spec => []ActiveIsKnown
<1>1. CtxIInv => Ctx!ActiveIsKnown
  BY CtxStoreParts DEF CtxIInv, Ctx!TypeOK, Ctx!ActiveIsKnown
<1> QED BY <1>1, CtxHolds, PTL DEF ActiveIsKnown

\* Undisturbed, the file holds what the acknowledged changes add up to.
THEOREM AcknowledgedAlwaysKept == Spec => []AcknowledgedIsKept
<1>1. CtxIInv => Ctx!AcknowledgedIsKept
  BY DEF CtxIInv, CtxOneAtATime, Ctx!AcknowledgedIsKept
<1> QED BY <1>1, CtxHolds, PTL DEF AcknowledgedIsKept

\* A request is served where the acknowledged changes want it, one hop away
\* at most, whatever the other daemons' own contexts are.
THEOREM AlwaysServedWhereActive == Spec => []ServedWhereActive
<1>1. CtxIInv => Ctx!ServedWhereActive
  BY DEF CtxIInv, CtxRoutedAsWanted, Ctx!ServedWhereActive
<1> QED BY <1>1, CtxHolds, PTL DEF ServedWhereActive


-----------------------------------------------------------------------------
(* The contexts implement ContextMap.                                       *)

LEMMA CtxMapsAreStores == Ctx!Promise!Maps = Ctx!Stores
BY DEF Ctx!Promise!Maps, Ctx!Stores, Ctx!Local

\* A change that is accepted is one that ContextMap allows, and makes the
\* same of it.
LEMMA CtxAcceptedIsAllowed ==
  ASSUME NEW st \in Ctx!Stores, NEW q, NEW x, q.op \in Ctx!Changes, Ctx!Accepts(st, q),
         q.name \in ContextNames \union {Ctx!Local}, q.ctx \in ContextDefinitions,
         x.op = q.op, x.name = q.name, x.ctx = q.ctx
  PROVE  Ctx!Changed(st, q) \in Ctx!Promise!After(st, x)
<1> DEFINE n == q.name  c == q.ctx  new == Ctx!Changed(st, q)
<1>1. new \in Ctx!Promise!Maps
  BY CtxChangedIsStore, CtxMapsAreStores
<1>2. Ctx!With(st, n, c) = Ctx!Promise!Put(st, n, c)
  <2> DEFINE f == Ctx!Over([y \in {n} |-> c], st.contexts)
             g == [y \in DOMAIN st.contexts \union {n} |-> IF y = n THEN c ELSE st.contexts[y]]
  <2>1. f = g
    BY DEF Ctx!Over
  <2>2. Ctx!With(st, n, c) = [active |-> st.active, contexts |-> f]
    BY CtxStoreParts DEF Ctx!With
  <2> HIDE DEF f
  <2> QED BY <2>1, <2>2 DEF Ctx!Promise!Put
<1>3. Ctx!Delete(st, n) = Ctx!Promise!Without(st, n)
  <2> DEFINE N == DOMAIN st.contexts \ {n}
  <2>1. Ctx!Restrict(st.contexts, N) = [y \in N |-> st.contexts[y]]
    BY DEF Ctx!Restrict
  <2> QED BY <2>1 DEF Ctx!Delete, Ctx!Promise!Without, Ctx!Local
<1>4. Ctx!Validate(c) => Ctx!Promise!Valid(c)
  BY DEF Ctx!Validate, Ctx!Promise!Valid, Ctx!Promise!Kinds
<1>5. CASE q.op = "create"
  BY <1>1, <1>2, <1>4, <1>5 DEF Ctx!Changed, Ctx!Create, Ctx!Accepts, Ctx!Promise!After, Ctx!Local
<1>6. CASE q.op = "update"
  BY <1>1, <1>2, <1>4, <1>6 DEF Ctx!Changed, Ctx!Update, Ctx!Accepts, Ctx!Promise!After
<1>7. CASE q.op = "delete"
  BY <1>1, <1>3, <1>7 DEF Ctx!Changed, Ctx!Accepts, Ctx!Promise!After
<1>8. CASE q.op = "use"
  BY <1>1, <1>8 DEF Ctx!Changed, Ctx!Use, Ctx!Accepts, Ctx!Promise!After, Ctx!Local
<1> QED BY <1>5, <1>6, <1>7, <1>8 DEF Ctx!Changes

\* A call is routed as the map of that moment says.
LEMMA CtxTargetIsWhere ==
  ASSUME Ctx!ContextsAssumption, NEW st \in Ctx!Stores
  PROVE  Ctx!Target(Home, st) = Ctx!Promise!Where(st)
BY DEF Ctx!Target, Ctx!Promise!Where, Ctx!Local

\* What ContextMap sees of a request.
CtxCallOf(q) ==
  CASE q.at = "idle" -> [is |-> "none"]
    [] q.at = "save" -> [is |-> "asked", op |-> q.op, name |-> q.name, ctx |-> q.ctx]
    [] q.at = "fill" -> [is |-> "done"]
    [] q.at \in {"sent", "gone", "served"} -> [is |-> "routed", to |-> q.on]

LEMMA CtxCallsAreOfRequests ==
  /\ Ctx!Calls = [r \in Actors |-> CtxCallOf(ctxReq[r])]
  /\ Ctx!Calls' = [r \in Actors |-> CtxCallOf(ctxReq'[r])]
BY DEF Ctx!Calls, CtxCallOf

\* A step that changes one request changes its call only.
LEMMA CtxOneCallChanges ==
  ASSUME CtxIInv, NEW r \in Actors, NEW rec \in CtxReqRecords,
         ctxReq' = [ctxReq EXCEPT ![r] = rec]
  PROVE  Ctx!Promise!Become(r, CtxCallOf(rec))
<1>1. ctxReq \in [Actors -> CtxReqRecords]
  BY DEF CtxIInv, Ctx!TypeOK, CtxReqRecords
<1>2. \A q \in Actors : ctxReq'[q] = IF q = r THEN rec ELSE ctxReq[q]
  BY <1>1
<1> QED BY <1>2, CtxCallsAreOfRequests DEF Ctx!Promise!Become

\* The map, when nobody fills the file and when somebody does.
CtxMapOf(f, q, dist) ==
  IF ~dist /\ \E r \in Actors : q[r].at = "fill"
  THEN q[CHOOSE r \in Actors : q[r].at = "fill"].copy
  ELSE IF f \in {Empty, Garbled} THEN Ctx!NoContexts ELSE f
CtxMapShows(m, f, q, dist) ==
  /\ m \in Ctx!Stores
  /\ ~dist /\ (\A r \in Actors : q[r].at # "fill") => m = f
  /\ \A r \in Actors : ~dist /\ q[r].at = "fill" => m = q[r].copy

LEMMA CtxMapFound ==
  ASSUME Ctx!FileAssumption, NEW f \in Ctx!Stores \union {Empty, Garbled},
         NEW q \in [Actors -> CtxReqRecords], NEW dist,
         ~dist => /\ \A r, s \in Actors : q[r].at = "fill" /\ q[s].at = "fill" => r = s
                  /\ (\A r \in Actors : q[r].at # "fill") => f \in Ctx!Stores
  PROVE  CtxMapShows(CtxMapOf(f, q, dist), f, q, dist)
<1>1. ASSUME ~dist, NEW r \in Actors, q[r].at = "fill"
      PROVE  CtxMapOf(f, q, dist) = q[r].copy /\ q[r].copy \in Ctx!Stores
  <2> DEFINE filler == CHOOSE p \in Actors : q[p].at = "fill"
  <2>1. filler \in Actors /\ q[filler].at = "fill"
    BY <1>1
  <2>2. filler = r
    BY <1>1, <2>1
  <2>3. CtxMapOf(f, q, dist) = q[filler].copy
    BY <1>1 DEF CtxMapOf
  <2> HIDE DEF filler
  <2> QED BY <2>2, <2>3 DEF CtxReqRecords
<1>2. ASSUME ~dist, \A r \in Actors : q[r].at # "fill"
      PROVE  CtxMapOf(f, q, dist) = f /\ f \in Ctx!Stores
  BY <1>2 DEF CtxMapOf, Ctx!FileAssumption
<1>3. ASSUME dist PROVE CtxMapOf(f, q, dist) \in Ctx!Stores
  BY <1>3, CtxNoContextsIsStore DEF CtxMapOf
<1> QED BY <1>1, <1>2, <1>3 DEF CtxMapShows

\* So it is in every state, and after every step.
LEMMA CtxMapIsTheFile ==
  ASSUME CtxAssumptions
  PROVE  /\ CtxIInv => CtxMapShows(Ctx!Map, ctxFile[Home], ctxReq, ctxDisturbed)
         /\ CtxIInv' => CtxMapShows(Ctx!Map', ctxFile'[Home], ctxReq', ctxDisturbed')
<1> USE DEF CtxAssumptions
<1>1. ASSUME CtxIInv PROVE CtxMapShows(Ctx!Map, ctxFile[Home], ctxReq, ctxDisturbed)
  <2>1. Ctx!Map = CtxMapOf(ctxFile[Home], ctxReq, ctxDisturbed)
    BY DEF Ctx!Map, Ctx!Filler, CtxMapOf
  <2>2. ctxFile[Home] \in Ctx!Stores \union {Empty, Garbled} /\ ctxReq \in [Actors -> CtxReqRecords]
        /\ ctxKept \in Ctx!Stores
    BY <1>1 DEF CtxIInv, Ctx!TypeOK, CtxReqRecords, Ctx!ContextsAssumption
  <2> QED BY <1>1, <2>1, <2>2, CtxMapFound DEF CtxIInv, CtxOneAtATime, Ctx!Saving
<1>2. ASSUME CtxIInv' PROVE CtxMapShows(Ctx!Map', ctxFile'[Home], ctxReq', ctxDisturbed')
  <2>1. Ctx!Map' = CtxMapOf(ctxFile'[Home], ctxReq', ctxDisturbed')
    BY DEF Ctx!Map, Ctx!Filler, CtxMapOf
  <2>2. ctxFile'[Home] \in Ctx!Stores \union {Empty, Garbled} /\ ctxReq' \in [Actors -> CtxReqRecords]
        /\ ctxKept' \in Ctx!Stores
    BY <1>2 DEF CtxIInv, Ctx!TypeOK, CtxReqRecords, Ctx!ContextsAssumption
  <2> QED BY <1>2, <2>1, <2>2, CtxMapFound DEF CtxIInv, CtxOneAtATime, Ctx!Saving
<1> QED BY <1>1, <1>2

\* Once the promise has ended every step is allowed that leaves a map.
LEMMA CtxDisturbedIsAllowed ==
  ASSUME CtxAssumptions, CtxIInv', ctxDisturbed, ctxDisturbed'
  PROVE  Ctx!Promise!MapNext
<1>1. Ctx!Map' \in Ctx!Promise!Maps
  BY CtxMapIsTheFile, CtxMapsAreStores DEF CtxMapShows
<1> QED BY <1>1 DEF Ctx!Promise!MapNext, Ctx!Promise!Whatever

\* An undisturbed step of a request that does not fill the file, before or
\* after it, leaves the map.
LEMMA CtxQuietStep ==
  ASSUME CtxAssumptions, CtxIInv, CtxIInv', ~ctxDisturbed, ~ctxDisturbed', ctxFile' = ctxFile,
         NEW r \in Actors, NEW rec \in CtxReqRecords, ctxReq' = [ctxReq EXCEPT ![r] = rec],
         ctxReq[r].at # "fill", rec.at # "fill"
  PROVE  /\ Ctx!Map' = Ctx!Map /\ ctxDisturbed' = ctxDisturbed
         /\ Ctx!Promise!Become(r, CtxCallOf(rec))
         /\ Ctx!Calls[r] = CtxCallOf(ctxReq[r]) /\ Ctx!Calls'[r] = CtxCallOf(rec)
<1>1. \A q \in Actors : ctxReq'[q] = IF q = r THEN rec ELSE ctxReq[q]
  BY DEF CtxIInv, Ctx!TypeOK
<1>2. CtxMapShows(Ctx!Map, ctxFile[Home], ctxReq, ctxDisturbed)
      /\ CtxMapShows(Ctx!Map', ctxFile'[Home], ctxReq', ctxDisturbed')
  BY CtxMapIsTheFile
<1>3. Ctx!Map' = Ctx!Map
  BY <1>1, <1>2 DEF CtxMapShows
<1>4. ctxDisturbed' = ctxDisturbed
  BY DEF CtxIInv, Ctx!TypeOK
<1>5. Ctx!Promise!Become(r, CtxCallOf(rec))
  BY CtxOneCallChanges
<1> QED BY <1>1, <1>3, <1>4, <1>5, CtxCallsAreOfRequests

\* What breaks the promise: a change is under way.
LEMMA CtxBreaks ==
  ASSUME CtxAssumptions, CtxIInv', NEW q \in Actors, Ctx!Saving(q), ctxDisturbed'
  PROVE  Ctx!Promise!MapNext
<1>1. Ctx!Calls[q].is \in {"asked", "done"}
  BY CtxCallsAreOfRequests DEF Ctx!Saving, CtxCallOf
<1>2. Ctx!Map' \in Ctx!Promise!Maps
  BY CtxMapIsTheFile, CtxMapsAreStores DEF CtxMapShows
<1>3. ctxDisturbed' = TRUE
  BY DEF CtxIInv, Ctx!TypeOK
<1> QED BY <1>1, <1>2, <1>3 DEF Ctx!Promise!MapNext, Ctx!Promise!Break

LEMMA CtxChangeAsks ==
  ASSUME CtxAssumptions, CtxIInv, CtxIInv', ~ctxDisturbed,
         NEW r \in Actors, NEW op \in Ctx!Changes, NEW n \in ContextNames \union {Ctx!Local},
         NEW c \in ContextDefinitions, Ctx!Change(r, op, n, c)
  PROVE  Ctx!Promise!MapNext
<1> USE DEF CtxAssumptions
<1> DEFINE q == [Ctx!Idle EXCEPT !.at = "save", !.op = op, !.name = n, !.ctx = c]
           rec == [q EXCEPT !.copy = Ctx!Changed(Ctx!Load(Home), q)]
<1>1. CASE \E p \in Actors \ {r} : Ctx!Saving(p)
  <2>1. PICK p \in Actors : Ctx!Saving(p)
    BY <1>1
  <2>2. ctxDisturbed'
    BY <1>1 DEF Ctx!Change, Ctx!Disturb
  <2> QED BY <2>1, <2>2, CtxBreaks
<1>2. CASE ~\E p \in Actors \ {r} : Ctx!Saving(p)
  <2>1. /\ ctxReq[r] = Ctx!Idle /\ ctxReq' = [ctxReq EXCEPT ![r] = rec] /\ ctxFile' = ctxFile
        /\ ~ctxDisturbed'
    BY <1>2 DEF Ctx!Change, Ctx!Disturb
  <2>2. rec.at = "save" /\ rec.op = op /\ rec.name = n /\ rec.ctx = c
    BY CtxIdleIsRecord DEF CtxReqRecords
  <2>3. rec \in CtxReqRecords
    <3>1. ctxReq'[r] = rec
      BY <2>1 DEF CtxIInv, Ctx!TypeOK
    <3> HIDE DEF rec
    <3> QED BY <3>1 DEF CtxIInv, Ctx!TypeOK, CtxReqRecords
  <2> HIDE DEF rec
  <2>4. CtxCallOf(ctxReq[r]) = Ctx!Promise!NoCall /\ ctxReq[r].at = "idle"
    BY <2>1 DEF CtxCallOf, Ctx!Idle, Ctx!Promise!NoCall
  <2>5. CtxCallOf(rec) \in Ctx!Promise!Questions
    BY <2>2 DEF CtxCallOf, Ctx!Promise!Questions, Ctx!Changes, Ctx!Local
  <2>6. Ctx!Promise!Ask(r)
    BY <2>1, <2>2, <2>3, <2>4, <2>5, CtxQuietStep DEF Ctx!Promise!Ask
  <2> QED BY <2>6 DEF Ctx!Promise!MapNext
<1> QED BY <1>1, <1>2

\* A change takes effect when the file is emptied.
LEMMA CtxTruncateTakesEffect ==
  ASSUME CtxAssumptions, CtxIInv, CtxIInv', ~ctxDisturbed, NEW r \in Actors, Ctx!Truncate(r)
  PROVE  Ctx!Promise!MapNext
<1> USE DEF CtxAssumptions
<1> DEFINE rec == [ctxReq[r] EXCEPT !.at = "fill"]
<1>1. /\ ctxReq[r].at = "save" /\ ctxReq' = [ctxReq EXCEPT ![r] = rec]
      /\ ctxKept' = ctxKept /\ ctxDisturbed' = ctxDisturbed
  BY DEF Ctx!Truncate, CtxIInv, Ctx!TypeOK
<1>2. rec \in CtxReqRecords /\ rec.at = "fill" /\ rec.copy = ctxReq[r].copy /\ ctxReq'[r] = rec
  BY <1>1 DEF CtxIInv, Ctx!TypeOK, CtxReqRecords
<1> HIDE DEF rec
<1>3. \A p \in Actors : ctxReq[p].at # "fill"
  BY <1>1 DEF CtxIInv, CtxOneAtATime, Ctx!Saving
<1>4. Ctx!Map = ctxKept
  BY <1>3, CtxMapIsTheFile DEF CtxMapShows, CtxIInv, CtxOneAtATime
<1>5. Ctx!Map' = ctxReq[r].copy
  BY <1>1, <1>2, CtxMapIsTheFile DEF CtxMapShows
<1>6. Ctx!Accepts(ctxKept, ctxReq[r]) /\ ctxReq[r].copy = Ctx!Changed(ctxKept, ctxReq[r])
      /\ ctxReq[r].op \in Ctx!Changes
  BY <1>1 DEF CtxIInv, CtxOneAtATime, CtxChangesAreKnown, Ctx!Saving
<1>7. /\ Ctx!Calls[r] = CtxCallOf(ctxReq[r])
      /\ CtxCallOf(ctxReq[r]) = [is |-> "asked", op |-> ctxReq[r].op, name |-> ctxReq[r].name,
                                 ctx |-> ctxReq[r].ctx]
  BY <1>1, CtxCallsAreOfRequests DEF CtxCallOf
<1>8. Ctx!Map' \in Ctx!Promise!After(Ctx!Map, Ctx!Calls[r])
  BY <1>4, <1>5, <1>6, <1>7, CtxAcceptedIsAllowed DEF CtxIInv, Ctx!TypeOK
<1>9. Ctx!Promise!Become(r, [is |-> "done"])
  BY <1>1, <1>2, CtxOneCallChanges DEF CtxCallOf
<1> QED BY <1>1, <1>7, <1>8, <1>9 DEF Ctx!Promise!MapNext, Ctx!Promise!TakeEffect

\* ... and is answered when it has been filled again, with the same map.
LEMMA CtxFillEnds ==
  ASSUME CtxAssumptions, CtxIInv, CtxIInv', ~ctxDisturbed, NEW r \in Actors, Ctx!Fill(r)
  PROVE  Ctx!Promise!MapNext
<1> USE DEF CtxAssumptions
<1>1. /\ ctxReq[r].at = "fill" /\ ctxReq' = [ctxReq EXCEPT ![r] = Ctx!Idle]
      /\ ctxDisturbed' = ctxDisturbed /\ Ctx!Idle.at = "idle"
  BY DEF Ctx!Fill, Ctx!Reply, Ctx!Idle
<1>2. ctxFile[Home] = Empty /\ \A p \in Actors : ctxReq[p].at = "fill" => p = r
  BY <1>1 DEF CtxIInv, CtxOneAtATime, Ctx!Saving
<1>3. ctxFile'[Home] = ctxReq[r].copy
  BY <1>2 DEF Ctx!Fill, Ctx!Overlaid, CtxIInv, Ctx!TypeOK, Ctx!ContextsAssumption
<1>4. \A p \in Actors : ctxReq'[p].at # "fill"
  BY <1>1, <1>2 DEF CtxIInv, Ctx!TypeOK
<1>5. Ctx!Map' = ctxFile'[Home] /\ Ctx!Map = ctxReq[r].copy
  BY <1>1, <1>4, CtxMapIsTheFile DEF CtxMapShows
<1>6. Ctx!Promise!Become(r, Ctx!Promise!NoCall)
  BY <1>1, CtxIdleIsRecord, CtxOneCallChanges DEF CtxCallOf, Ctx!Promise!NoCall
<1> QED BY <1>1, <1>3, <1>5, <1>6 DEF Ctx!Promise!MapNext, Ctx!Promise!End

\* A request that ends without having taken effect, or after it was routed.
LEMMA CtxReplyEnds ==
  ASSUME CtxAssumptions, CtxIInv, CtxIInv', ~ctxDisturbed, ~ctxDisturbed', ctxFile' = ctxFile,
         NEW r \in Actors, ctxReq[r].at # "fill", Ctx!Reply(r)
  PROVE  Ctx!Promise!MapNext
<1> USE DEF CtxAssumptions
<1>1. Ctx!Idle.at = "idle" /\ CtxCallOf(Ctx!Idle) = Ctx!Promise!NoCall
  BY DEF Ctx!Idle, CtxCallOf, Ctx!Promise!NoCall
<1>2. Ctx!Promise!End(r)
  BY <1>1, CtxIdleIsRecord, CtxQuietStep DEF Ctx!Reply, Ctx!Promise!End
<1> QED BY <1>2 DEF Ctx!Promise!MapNext

LEMMA CtxDieEnds ==
  ASSUME CtxAssumptions, CtxIInv, CtxIInv', ~ctxDisturbed, NEW r \in Actors, Ctx!Die(r)
  PROVE  Ctx!Promise!MapNext
<1>1. CASE ctxReq[r].at = "fill"
  BY <1>1, CtxBreaks DEF Ctx!Die, Ctx!Disturb
<1>2. CASE ctxReq[r].at # "fill"
  BY <1>2, CtxReplyEnds DEF Ctx!Die, Ctx!Disturb
<1> QED BY <1>1, <1>2

\* A request is routed by the map, or at home while the file is empty.
LEMMA CtxCallRoutes ==
  ASSUME CtxAssumptions, CtxIInv, CtxIInv', ~ctxDisturbed, NEW r \in Actors, Ctx!Call(r)
  PROVE  Ctx!Promise!MapNext
<1> USE DEF CtxAssumptions
<1> DEFINE d == Ctx!Target(Home, Ctx!Load(Home))
           rec == [Ctx!Idle EXCEPT !.at = IF d = Home THEN "served" ELSE "sent",
                                   !.on = d, !.want = Ctx!Wanted]
<1>1. ctxReq[r] = Ctx!Idle /\ ctxFile[Home] # Garbled /\ ctxReq' = [ctxReq EXCEPT ![r] = rec]
      /\ UNCHANGED <<ctxFile, ctxKept, ctxDisturbed, ctxKills>>
  BY DEF Ctx!Call, Ctx!Route
<1>2. d \in ContextDaemons
  BY <1>1, CtxLoadIsStore, CtxTargetIsDaemon DEF CtxIInv, Ctx!ContextsAssumption
<1>3. rec.at \in {"served", "sent"} /\ rec.on = d
  <2> HIDE DEF d
  <2> QED BY CtxIdleIsRecord DEF CtxReqRecords
<1>4. rec \in CtxReqRecords
  <2>1. ctxReq'[r] = rec
    BY <1>1 DEF CtxIInv, Ctx!TypeOK
  <2> HIDE DEF rec
  <2> QED BY <2>1 DEF CtxIInv, Ctx!TypeOK, CtxReqRecords
<1> HIDE DEF rec
<1>5. CtxCallOf(ctxReq[r]) = Ctx!Promise!NoCall /\ ctxReq[r].at = "idle"
  BY <1>1 DEF CtxCallOf, Ctx!Idle, Ctx!Promise!NoCall
<1>6. CtxCallOf(rec) = [is |-> "routed", to |-> d]
  BY <1>3 DEF CtxCallOf
<1>7. \/ d = Ctx!Promise!Where(Ctx!Map)
      \/ d = Home /\ \E q \in Actors : Ctx!Calls[q].is = "done"
  <2>1. CASE \E q \in Actors : ctxReq[q].at = "fill"
    <3>1. PICK q \in Actors : ctxReq[q].at = "fill"
      BY <2>1
    <3>2. Ctx!Calls[q].is = "done"
      BY <3>1, CtxCallsAreOfRequests DEF CtxCallOf
    <3>3. ctxFile[Home] = Empty
      BY <3>1 DEF CtxIInv, CtxOneAtATime
    <3>4. d = Home
      BY <3>3 DEF Ctx!Load, Ctx!Target, Ctx!NoContexts
    <3> QED BY <3>2, <3>4
  <2>2. CASE \A q \in Actors : ctxReq[q].at # "fill"
    <3>1. Ctx!Map = ctxFile[Home] /\ Ctx!Map \in Ctx!Stores
      BY <2>2, CtxMapIsTheFile DEF CtxMapShows
    <3>2. Ctx!Load(Home) = Ctx!Map
      BY <3>1 DEF Ctx!Load, Ctx!FileAssumption
    <3> QED BY <3>1, <3>2, CtxTargetIsWhere
  <2> QED BY <2>1, <2>2
<1> HIDE DEF d
<1>8. Ctx!Promise!Route(r, d)
  BY <1>1, <1>3, <1>4, <1>5, <1>6, <1>7, CtxQuietStep DEF Ctx!Promise!Route
<1> QED BY <1>2, <1>8 DEF Ctx!Promise!MapNext

\* On its way a routed request is where it was.
LEMMA CtxOnTheWay ==
  ASSUME CtxAssumptions, CtxIInv, CtxIInv', ~ctxDisturbed, NEW r \in Actors,
         NEW at \in {"sent", "gone", "served"}, ctxReq[r].at \in {"sent", "gone"},
         ctxReq' = [ctxReq EXCEPT ![r] = [ctxReq[r] EXCEPT !.at = at]],
         UNCHANGED <<ctxFile, ctxDisturbed>>
  PROVE  UNCHANGED Ctx!Promise!mapVars
<1> DEFINE rec == [ctxReq[r] EXCEPT !.at = at]
<1>1. ctxReq[r] \in CtxReqRecords
  BY DEF CtxIInv, Ctx!TypeOK, CtxReqRecords
<1>2. rec \in CtxReqRecords /\ rec.at = at /\ rec.on = ctxReq[r].on
  BY <1>1 DEF CtxReqRecords
<1> HIDE DEF rec
<1>3. CtxCallOf(rec) = CtxCallOf(ctxReq[r])
  BY <1>2 DEF CtxCallOf
<1>4. ctxReq' = [ctxReq EXCEPT ![r] = rec] /\ ctxFile' = ctxFile
  BY DEF rec
<1>5. Ctx!Map' = Ctx!Map
  BY <1>2, <1>4, CtxQuietStep
<1>6. \A q \in Actors : CtxCallOf(ctxReq'[q]) = CtxCallOf(ctxReq[q])
  BY <1>3, <1>4 DEF CtxIInv, Ctx!TypeOK
<1>7. Ctx!Calls' = Ctx!Calls
  BY <1>6, CtxCallsAreOfRequests
<1> QED BY <1>5, <1>7 DEF Ctx!Promise!mapVars

LEMMA CtxServeThereIsOnTheWay ==
  ASSUME CtxAssumptions, CtxIInv, CtxIInv', ~ctxDisturbed, NEW r \in Actors, Ctx!ServeThere(r)
  PROVE  UNCHANGED Ctx!Promise!mapVars
<1>1. ctxReq[r] \in CtxReqRecords
  BY DEF CtxIInv, Ctx!TypeOK, CtxReqRecords
<1>2. [ctxReq[r] EXCEPT !.at = "served"]
        = [ctxReq[r] EXCEPT !.at = "served", !.on = Ctx!Route(@, TRUE)]
  BY <1>1 DEF CtxReqRecords, Ctx!Route
<1>3. ctxReq' = [ctxReq EXCEPT ![r] = [ctxReq[r] EXCEPT !.at = "served"]]
  BY <1>2 DEF Ctx!ServeThere, CtxIInv, Ctx!TypeOK
<1> QED BY <1>3, CtxOnTheWay DEF Ctx!ServeThere

LEMMA CtxBadGatewayEnds ==
  ASSUME CtxAssumptions, CtxIInv, CtxIInv', ~ctxDisturbed, NEW r \in Actors, Ctx!BadGateway(r)
  PROVE  Ctx!Promise!MapNext \/ UNCHANGED Ctx!Promise!mapVars
<1>1. CASE Ctx!Reply(r)
  BY <1>1, CtxReplyEnds DEF Ctx!BadGateway
<1>2. CASE ctxReq' = [ctxReq EXCEPT ![r].at = "gone"]
  <2>1. ctxReq' = [ctxReq EXCEPT ![r] = [ctxReq[r] EXCEPT !.at = "gone"]]
    BY <1>2 DEF CtxIInv, Ctx!TypeOK
  <2> QED BY <2>1, CtxOnTheWay DEF Ctx!BadGateway
<1> QED BY <1>1, <1>2 DEF Ctx!BadGateway

LEMMA CtxStepsImplement ==
  ASSUME CtxAssumptions, CtxIInv, CtxIInv', [Ctx!Next]_(Ctx!vars)
  PROVE  [Ctx!Promise!MapNext]_(Ctx!Promise!mapVars)
<1>1. CASE ctxDisturbed /\ ctxDisturbed'
  BY <1>1, CtxDisturbedIsAllowed
<1>2. CASE UNCHANGED Ctx!vars
  BY <1>2 DEF Ctx!vars, Ctx!Promise!mapVars, Ctx!Map, Ctx!Filler, Ctx!Calls
<1>3. CASE Ctx!Next /\ ~(ctxDisturbed /\ ctxDisturbed')
  <2>1. PICK r \in Actors :
          \/ \E op \in Ctx!Changes, n \in ContextNames \union {Ctx!Local}, c \in ContextDefinitions :
               Ctx!Change(r, op, n, c)
          \/ Ctx!Truncate(r) \/ Ctx!Fill(r) \/ Ctx!Die(r)
          \/ Ctx!Call(r) \/ Ctx!ServeThere(r) \/ Ctx!BadGateway(r) \/ Ctx!Answer(r)
    <3>1. Ctx!Idle.ctx \in ContextDefinitions
      BY CtxIdleIsRecord DEF CtxReqRecords, CtxAssumptions
    <3> QED BY <1>3, <3>1 DEF Ctx!Next, Ctx!Changes
  <2>2. ~ctxDisturbed
    <3>1. ASSUME NEW cause, Ctx!Disturb(cause) PROVE ctxDisturbed => ctxDisturbed'
      BY <3>1 DEF Ctx!Disturb
    <3>2. ctxDisturbed => ctxDisturbed'
      <4>1. ASSUME NEW op, NEW n, NEW c, Ctx!Change(r, op, n, c) PROVE ctxDisturbed => ctxDisturbed'
        BY <4>1, <3>1 DEF Ctx!Change
      <4>2. CASE Ctx!Die(r)
        BY <4>2, <3>1 DEF Ctx!Die
      <4>3. CASE \/ Ctx!Truncate(r) \/ Ctx!Fill(r) \/ Ctx!Call(r)
                 \/ Ctx!ServeThere(r) \/ Ctx!BadGateway(r) \/ Ctx!Answer(r)
        BY <4>3 DEF Ctx!Truncate, Ctx!Fill, Ctx!Call, Ctx!ServeThere, Ctx!BadGateway, Ctx!Answer
      <4> QED BY <2>1, <4>1, <4>2, <4>3
    <3> QED BY <1>3, <3>2
  <2>3. CASE Ctx!Answer(r)
    BY <2>2, <2>3, CtxReplyEnds DEF Ctx!Answer
  <2> QED BY <2>1, <2>2, <2>3, CtxChangeAsks, CtxTruncateTakesEffect, CtxFillEnds, CtxDieEnds,
       CtxCallRoutes, CtxServeThereIsOnTheWay, CtxBadGatewayEnds
<1> QED BY <1>1, <1>2, <1>3

\* The file, its copies and its two-step writes between all requests and
\* commands make an atomic map of contexts, until two changes overlap or one
\* dies half-way: each change takes effect at one moment between its request
\* and its answer, and a sandbox request goes where the map of one moment
\* sends it.
THEOREM MapImplemented == Spec => Ctx!ImplementsMap /\ ImplementsMap
<1>1. CtxAssumptions
  BY PartsAssumption DEF CtxAssumptions, PartsAssumption
<1>2. Ctx!Init => Ctx!Promise!MapInit
  <2> SUFFICES ASSUME Ctx!Init PROVE Ctx!Promise!MapInit
    OBVIOUS
  <2>1. ctxFile[Home] = Ctx!NoContexts /\ ~ctxDisturbed /\ ctxReq = [r \in Actors |-> Ctx!Idle]
    BY <1>1 DEF Ctx!Init, CtxAssumptions, Ctx!ContextsAssumption
  <2>2. \A r \in Actors : ctxReq[r].at = "idle"
    <3>1. Ctx!Idle.at = "idle" BY DEF Ctx!Idle
    <3> QED BY <2>1, <3>1, Zenon
  <2>3. Ctx!Map = Ctx!NoContexts
    BY <2>1, <2>2 DEF Ctx!Map
  <2>4. Ctx!NoContexts = [active |-> "local", contexts |-> [n \in {} |-> "local"]]
    <3>1. [n \in {} |-> Ctx!Nobody] = [n \in {} |-> "local"]
      OBVIOUS
    <3> QED BY <3>1 DEF Ctx!NoContexts, Ctx!Local
  <2>5. Ctx!Calls = [r \in Actors |-> Ctx!Promise!NoCall]
    BY <2>2, CtxCallsAreOfRequests DEF CtxCallOf, Ctx!Promise!NoCall
  <2>6. ctxDisturbed = FALSE
    BY DEF Ctx!Init
  <2> QED BY <2>3, <2>4, <2>5, <2>6 DEF Ctx!Promise!MapInit
<1>3. CtxIInv /\ CtxIInv' /\ [Ctx!Next]_(Ctx!vars) => [Ctx!Promise!MapNext]_(Ctx!Promise!mapVars)
  BY <1>1, CtxStepsImplement
<1>4. Spec => Ctx!Init
  BY CtxIsAPart DEF Ctx!Spec
<1>5. [Ctx!Promise!MapNext]_(Ctx!Promise!mapVars)
        => [part = "contexts" => Ctx!Promise!MapNext]_(Ctx!Promise!mapVars)
  OBVIOUS
<1> QED BY <1>2, <1>3, <1>4, <1>5, CtxHolds, PTL DEF ImplementsMap, Ctx!ImplementsMap, Ctx!Promise!MapSpec

-----------------------------------------------------------------------------
(* The commands: what a client holds at each of its steps, what a request   *)
(* and its answer stand for, and that each client waits for one request.    *)

ClientRecords ==
  [at : {"idle", "call", "wait", "next", "done"}, program : {"cli", "tool"},
   context : Cl!Daemons \union {"active"}, cmd : Cl!Commands, box : BoxIds, ask : Cl!Asks,
   todo : SUBSET BoxIds, destroyed : SUBSET BoxIds, warned : BOOLEAN, ok : BOOLEAN,
   effect : BOOLEAN, shown : Cl!Answers, via : {"unix", "http", "tool"}, still : SUBSET BoxIds]
ClReqRecords ==
  [at : {"free", "router", "handler", "over"}, by : Terminals \union {Cl!Nobody}, ask : Cl!Asks,
   box : BoxIds, to : Cl!Daemons, via : {"unix", "http", "tool"}, effect : BOOLEAN,
   answer : Cl!Answers, ids : SUBSET BoxIds]
ClBoxRecords == [on : Cl!Daemons \union {"new", "gone"}, readable : BOOLEAN, entry : BOOLEAN]

ClTypes ==
  /\ clActive \in Cl!Daemons /\ clBox \in [BoxIds -> ClBoxRecords]
  /\ clClient \in [Terminals -> ClientRecords] /\ clReq \in [Slots -> ClReqRecords]
  /\ clMishaps \in 0..MaxMishaps

ClEffective == {"create", "destroy", "exec", "change"}

ClAsksFor(cmd, ask) ==
  /\ cmd = "destroy" => ask = "delete"
  /\ cmd = "destroyAll" => ask \in {"list", "delete"}
  /\ cmd = "logs" => ask \in {"logs", "text"}
  /\ cmd \notin {"destroy", "destroyAll", "logs"} => ask = cmd

\* What a command asks for, and what of the sandboxes it counts on it has
\* yet to delete.
ClientOk(q) ==
  /\ q.at \in {"call", "wait"} => ClAsksFor(q.cmd, q.ask)
  /\ q.at = "next" => q.cmd = "destroyAll" /\ (~q.warned => q.still \subseteq q.todo)
  /\ q.at \in {"call", "wait"} /\ q.cmd = "destroyAll" /\ q.ask = "delete" /\ ~q.warned
       => q.still \subseteq q.todo \union {q.box}
  /\ q.at = "done" /\ q.ok /\ q.cmd \in ClEffective => q.effect
  /\ q.at = "done" /\ q.ok /\ q.cmd = "destroyAll" /\ ~q.warned => q.still = {}

\* An answer that says ok is the handler's.
ClRequestOk(r) ==
  /\ r.at = "free" => r.by = Cl!Nobody
  /\ r.answer = "ok" => r.at = "over" /\ (r.ask \in Cl!Writes => r.effect)

\* The request a client waits for is the one it made.
ClPairOk(q, r) ==
  /\ q.at = "wait" /\ q.ask = r.ask /\ q.box = r.box
  /\ q.cmd = "destroyAll" /\ r.ask = "list" /\ r.answer = "ok" => q.still \subseteq r.ids

ClSteady == \A c \in Terminals : ClientOk(clClient[c])
ClAnswering == \A n \in Slots : ClRequestOk(clReq[n])
ClPaired == \A n \in Slots, c \in Terminals : clReq[n].by = c => ClPairOk(clClient[c], clReq[n])
ClAlone == \A m, n \in Slots : clReq[m].by = clReq[n].by /\ clReq[m].by # Cl!Nobody => m = n

\* The sandboxes a client counts on are where its requests are served.
ClServedBy(where, q) == IF q.program # "tool" /\ q.context = Cl!There THEN Cl!There ELSE where
ClOn(boxes, d) == {i \in BoxIds : boxes[i].on = d /\ boxes[i].readable}
ClCounted == \A c \in Terminals : clClient[c].at \notin {"idle", "done"}
               => clClient[c].still \subseteq ClOn(clBox, ClServedBy(clActive, clClient[c]))
ClSent == \A n \in Slots, c \in Terminals : clReq[n].by = c /\ clClient[c].still # {} =>
            /\ clReq[n].at = "handler" => clReq[n].to = ClServedBy(clActive, clClient[c])
            /\ clReq[n].at = "router" => clActive = ClServedBy(clActive, clClient[c])

\* What was deleted stays so.
ClGone == /\ \A n \in Slots : clReq[n].answer = "ok" /\ clReq[n].ask = "delete" => clBox[clReq[n].box].on = "gone"
          /\ \A c \in Terminals : \A i \in clClient[c].destroyed : clBox[i].on = "gone"

ClientsInv ==
  ClTypes /\ ClSteady /\ ClAnswering /\ ClPaired /\ ClAlone /\ ClCounted /\ ClSent /\ ClGone

-----------------------------------------------------------------------------
(* Records.                                                                 *)

LEMMA ClNoClient == ASSUME Cl!ClientsAssumption PROVE /\ Cl!SomeBox \in BoxIds /\ Cl!Idle \in ClientRecords
                                                       /\ Cl!Free \in ClReqRecords /\ ClientOk(Cl!Idle)
                                                       /\ ClRequestOk(Cl!Free)
<1>1. Cl!SomeBox \in BoxIds
  BY DEF Cl!ClientsAssumption, Cl!SomeBox
<1>2. Cl!Idle \in ClientRecords /\ Cl!Free \in ClReqRecords
  BY <1>1 DEF Cl!Idle, Cl!Free, ClientRecords, ClReqRecords, Cl!Daemons, Cl!Here, Cl!There,
     Cl!Commands, Cl!Asks, Cl!Answers
<1>3. ClientOk(Cl!Idle) /\ ClRequestOk(Cl!Free)
  BY DEF Cl!Idle, Cl!Free, ClientOk, ClRequestOk
<1> QED BY <1>1, <1>2, <1>3

\* As it was, but for sandboxes it no longer counts on.
ClDimmed(p, q) ==
  /\ p \in ClientRecords /\ p.still \subseteq q.still
  /\ p.at = q.at /\ p.program = q.program /\ p.context = q.context /\ p.cmd = q.cmd
  /\ p.box = q.box /\ p.ask = q.ask /\ p.todo = q.todo /\ p.destroyed = q.destroyed
  /\ p.warned = q.warned /\ p.ok = q.ok /\ p.effect = q.effect

LEMMA ClDisturbedIsDimmed ==
  ASSUME NEW q \in ClientRecords, NEW B
  PROVE  ClDimmed(Cl!Disturbed(q, B), q) /\ Cl!Disturbed(q, B).still = q.still \ B
BY DEF ClDimmed, Cl!Disturbed, ClientRecords

LEMMA ClDimmedIsOk ==
  ASSUME NEW q \in ClientRecords, NEW p, ClDimmed(p, q)
  PROVE  /\ ClientOk(q) => ClientOk(p)
         /\ \A r : ClPairOk(q, r) => ClPairOk(p, r)
         /\ \A where : ClServedBy(where, p) = ClServedBy(where, q)
<1>1. ClientOk(q) => ClientOk(p)
  BY DEF ClDimmed, ClientOk
<1>2. \A r : ClPairOk(q, r) => ClPairOk(p, r)
  BY DEF ClDimmed, ClPairOk
<1>3. \A where : ClServedBy(where, p) = ClServedBy(where, q)
  BY DEF ClDimmed, ClServedBy
<1> QED BY <1>1, <1>2, <1>3

LEMMA ClWhereServed ==
  ASSUME clActive \in Cl!Daemons, NEW q
  PROVE  Cl!Served(q) = ClServedBy(clActive, q) /\ \A d : Cl!OnDaemon(d) = ClOn(clBox, d)
BY DEF Cl!Served, Cl!Resolve, ClServedBy, ClOn, Cl!OnDaemon, Cl!Daemons, Cl!Here, Cl!There

LEMMA ClOnlyWaitersAreAnswered ==
  ASSUME ClientsInv, NEW c \in Terminals, clClient[c].at # "wait", NEW n \in Slots
  PROVE  clReq[n].by # c
BY DEF ClientsInv, ClPaired, ClPairOk

-----------------------------------------------------------------------------
(* The clients.                                                             *)

\* A client that waits for nothing moves on.
LEMMA ClientMoves ==
  ASSUME ClientsInv, NEW c \in Terminals, clClient[c].at # "wait", NEW rec \in ClientRecords,
         clClient' = [clClient EXCEPT ![c] = rec], UNCHANGED <<clActive, clBox, clReq, clMishaps>>,
         ClientOk(rec), rec.at \notin {"idle", "done"} => rec.still \subseteq ClOn(clBox, ClServedBy(clActive, rec)),
         \A i \in rec.destroyed : clBox[i].on = "gone"
  PROVE  ClientsInv'
<1>1. /\ clClient' \in [Terminals -> ClientRecords] /\ clClient'[c] = rec
      /\ \A d \in Terminals \ {c} : clClient'[d] = clClient[d]
  BY DEF ClientsInv, ClTypes
<1>2. \A n \in Slots : clReq[n].by # c
  BY ClOnlyWaitersAreAnswered
<1>3. ClTypes' /\ ClSteady' /\ ClAnswering' /\ ClAlone' /\ ClGone'
  BY <1>1 DEF ClientsInv, ClTypes, ClSteady, ClAnswering, ClAlone, ClGone
<1>4. ClPaired' /\ ClSent'
  BY <1>1, <1>2 DEF ClientsInv, ClPaired, ClSent
<1>5. ClCounted'
  BY <1>1 DEF ClientsInv, ClCounted
<1> QED BY <1>3, <1>4, <1>5 DEF ClientsInv

LEMMA ClBeginKeeps ==
  ASSUME Cl!ClientsAssumption, ClientsInv, NEW c \in Terminals, NEW program \in {"cli", "tool"},
         NEW context \in Cl!Daemons \union {"active"}, NEW cmd \in Cl!Commands, NEW i \in BoxIds,
         Cl!Begin(c, program, context, cmd, i)
  PROVE  ClientsInv'
<1> DEFINE q == [Cl!Idle EXCEPT !.at = "call", !.program = program, !.context = context,
                                !.cmd = cmd, !.box = i]
           counted == CASE cmd = "destroyAll" -> BoxIds [] cmd = "logs" -> {i} [] OTHER -> {}
           asked == CASE cmd = "destroy" -> "delete" [] cmd = "destroyAll" -> "list"
                      [] OTHER -> cmd
           still == Cl!OnDaemon(Cl!Served(q)) \intersect counted
           rec == [q EXCEPT !.still = still, !.ask = asked]
<1>1. /\ clClient[c] = Cl!Idle /\ clClient' = [clClient EXCEPT ![c] = rec]
      /\ UNCHANGED <<clActive, clBox, clReq, clMishaps>>
  BY DEF Cl!Begin
<1>2. /\ q \in ClientRecords /\ q.at = "call" /\ q.program = program /\ q.context = context
      /\ q.cmd = cmd /\ q.box = i /\ q.destroyed = {}
  BY ClNoClient DEF ClientRecords, Cl!Idle
<1>3. still \subseteq BoxIds /\ still \subseteq Cl!OnDaemon(Cl!Served(q))
  BY DEF Cl!OnDaemon
<1>4. asked \in Cl!Asks /\ ClAsksFor(cmd, asked) /\ (cmd = "destroyAll" => asked = "list")
  BY DEF Cl!Commands, Cl!Asks, ClAsksFor
<1> HIDE DEF asked, still, q
<1>5. /\ rec \in ClientRecords /\ rec.at = "call" /\ rec.program = q.program
      /\ rec.context = q.context /\ rec.cmd = cmd /\ rec.ask = asked /\ rec.still = still
      /\ rec.destroyed = {}
  BY <1>2, <1>3, <1>4 DEF ClientRecords
<1> HIDE DEF rec
<1>6. ClientOk(rec)
  BY <1>4, <1>5 DEF ClientOk
<1>7. rec.still \subseteq ClOn(clBox, ClServedBy(clActive, rec))
  <2>1. clActive \in Cl!Daemons /\ ClServedBy(clActive, rec) = ClServedBy(clActive, q)
    BY <1>2, <1>5 DEF ClServedBy, ClientsInv, ClTypes
  <2> QED BY <1>3, <1>5, <2>1, ClWhereServed
<1>8. clClient[c].at # "wait"
  BY <1>1 DEF Cl!Idle
<1> QED BY <1>1, <1>5, <1>6, <1>7, <1>8, ClientMoves

LEMMA ClCommandsKeep ==
  ASSUME Cl!ClientsAssumption, ClientsInv, NEW c \in Terminals,
         \/ \E x \in Cl!Daemons \union {"active"} : Cl!CliCommand(c, x)
         \/ \E i \in BoxIds : Cl!ExecuteTool(c, i)
  PROVE  ClientsInv'
<1>1. Cl!SomeBox \in BoxIds
  BY ClNoClient
<1>2. CASE \E x \in Cl!Daemons \union {"active"} : Cl!CliCommand(c, x)
  <2>1. PICK x \in Cl!Daemons \union {"active"} : Cl!CliCommand(c, x)
    BY <1>2
  <2>2. \E cmd \in Cl!Commands, i \in BoxIds : Cl!Begin(c, "cli", x, cmd, i)
    BY <1>1, <2>1 DEF Cl!CliCommand, Cl!CreateCmd, Cl!DestroyCmd, Cl!CloneCmd, Cl!ExecCmd,
       Cl!ShellCmd, Cl!InspectCmd, Cl!FilesCmd, Cl!DiffCmd, Cl!ArtifactsCmd, Cl!SnapshotCmd,
       Cl!LogsCmd, Cl!HistoryCmd, Cl!Commands
  <2> QED BY <2>2, ClBeginKeeps
<1>3. CASE \E i \in BoxIds : Cl!ExecuteTool(c, i)
  <2>1. \E cmd \in Cl!Commands, i \in BoxIds : Cl!Begin(c, "tool", "active", cmd, i)
    BY <1>3 DEF Cl!ExecuteTool, Cl!SandboxTools, Cl!WorkspaceTools, Cl!OutputTools, Cl!Commands
  <2> QED BY <2>1, ClBeginKeeps
<1> QED BY <1>2, <1>3

LEMMA ClDoneIs ==
  ASSUME NEW q \in ClientRecords, NEW ok \in BOOLEAN
  PROVE  /\ Cl!Done(q, ok) \in ClientRecords /\ Cl!Done(q, ok).at = "done" /\ Cl!Done(q, ok).ok = ok
         /\ Cl!Done(q, ok).cmd = q.cmd /\ Cl!Done(q, ok).destroyed = q.destroyed
         /\ Cl!Done(q, ok).warned = q.warned /\ Cl!Done(q, ok).still = q.still
         /\ Cl!Done(q, ok).effect = q.effect
BY DEF Cl!Done, ClientRecords

LEMMA ClDestroyNextKeeps ==
  ASSUME ClientsInv, NEW c \in Terminals, Cl!DestroyNext(c)
  PROVE  ClientsInv'
<1>1. /\ clClient[c] \in ClientRecords /\ clClient[c].at = "next" /\ clClient[c].cmd = "destroyAll"
      /\ ~clClient[c].warned => clClient[c].still \subseteq clClient[c].todo
      /\ clClient[c].still \subseteq ClOn(clBox, ClServedBy(clActive, clClient[c]))
      /\ \A i \in clClient[c].destroyed : clBox[i].on = "gone"
      /\ UNCHANGED <<clActive, clBox, clReq, clMishaps>>
  BY DEF Cl!DestroyNext, ClientsInv, ClTypes, ClSteady, ClientOk, ClCounted, ClGone
<1>2. CASE clClient[c].todo = {}
  <2> DEFINE rec == Cl!Done(clClient[c], TRUE)
  <2>1. clClient' = [clClient EXCEPT ![c] = rec]
    BY <1>2 DEF Cl!DestroyNext
  <2>2. /\ rec \in ClientRecords /\ rec.at = "done" /\ rec.cmd = "destroyAll"
        /\ rec.destroyed = clClient[c].destroyed /\ rec.warned = clClient[c].warned
        /\ rec.still = clClient[c].still
    BY <1>1, ClDoneIs
  <2> HIDE DEF rec
  <2>3. ClientOk(rec)
    BY <1>1, <1>2, <2>2 DEF ClientOk, ClEffective
  <2> QED BY <1>1, <2>1, <2>2, <2>3, ClientMoves
<1>3. CASE clClient[c].todo # {}
  <2>1. PICK i \in clClient[c].todo :
          clClient' = [clClient EXCEPT ![c].at = "call", ![c].ask = "delete", ![c].box = i,
                                       ![c].todo = @ \ {i}]
    BY <1>3 DEF Cl!DestroyNext
  <2> DEFINE rec == [clClient[c] EXCEPT !.at = "call", !.ask = "delete", !.box = i,
                                        !.todo = @ \ {i}]
  <2>2. clClient' = [clClient EXCEPT ![c] = rec]
    BY <2>1 DEF ClientsInv, ClTypes
  <2>3. i \in BoxIds /\ clClient[c].todo \subseteq BoxIds
    BY <1>1 DEF ClientRecords
  <2>4. /\ rec \in ClientRecords /\ rec.at = "call" /\ rec.cmd = "destroyAll" /\ rec.ask = "delete"
        /\ rec.box = i /\ rec.todo = clClient[c].todo \ {i}
        /\ rec.destroyed = clClient[c].destroyed /\ rec.warned = clClient[c].warned
        /\ rec.still = clClient[c].still
        /\ rec.program = clClient[c].program /\ rec.context = clClient[c].context
    BY <1>1, <2>3 DEF ClientRecords, Cl!Asks
  <2> HIDE DEF rec
  <2>5. ClientOk(rec)
    BY <1>1, <2>4 DEF ClientOk, ClAsksFor
  <2>6. ClServedBy(clActive, rec) = ClServedBy(clActive, clClient[c])
    BY <2>4 DEF ClServedBy
  <2> QED BY <1>1, <2>2, <2>4, <2>5, <2>6, ClientMoves
<1> QED BY <1>2, <1>3

LEMMA ClReturnKeeps ==
  ASSUME Cl!ClientsAssumption, ClientsInv, NEW c \in Terminals, Cl!Return(c)
  PROVE  ClientsInv'
<1>1. Cl!Idle.at = "idle" /\ Cl!Idle.destroyed = {}
  BY DEF Cl!Idle
<1> QED BY <1>1, ClNoClient, ClientMoves DEF Cl!Return

LEMMA ClCallKeeps ==
  ASSUME Cl!ClientsAssumption, ClientsInv, NEW c \in Terminals, Cl!Call(c)
  PROVE  ClientsInv'
<1> DEFINE q == clClient[c]
           via == Cl!Transport(q)
<1>1. PICK n \in Slots :
        clReq' = [clReq EXCEPT ![n] =
          [Cl!Free EXCEPT !.at = IF via = "http" THEN "handler" ELSE "router", !.by = c,
                          !.ask = q.ask, !.box = q.box, !.via = via,
                          !.to = IF via = "http" THEN Cl!There ELSE Cl!Here]]
  BY DEF Cl!Call
<1>2. /\ q.at = "call" /\ q \in ClientRecords /\ ClientOk(q) /\ clActive \in Cl!Daemons
      /\ clClient' = [clClient EXCEPT ![c].at = "wait"] /\ UNCHANGED <<clActive, clBox, clMishaps>>
  BY DEF Cl!Call, ClientsInv, ClTypes, ClSteady
<1> DEFINE rec == [q EXCEPT !.at = "wait"]
           r == [Cl!Free EXCEPT !.at = IF via = "http" THEN "handler" ELSE "router", !.by = c,
                                !.ask = q.ask, !.box = q.box, !.via = via,
                                !.to = IF via = "http" THEN Cl!There ELSE Cl!Here]
<1>3. clReq' = [clReq EXCEPT ![n] = r] /\ clClient' = [clClient EXCEPT ![c] = rec]
  BY <1>1, <1>2 DEF ClientsInv, ClTypes
<1>4. /\ rec \in ClientRecords /\ rec.at = "wait" /\ rec.cmd = q.cmd /\ rec.ask = q.ask
      /\ rec.box = q.box /\ rec.todo = q.todo /\ rec.destroyed = q.destroyed
      /\ rec.warned = q.warned /\ rec.still = q.still
      /\ rec.program = q.program /\ rec.context = q.context
  BY <1>2 DEF ClientRecords
<1>5. via \in {"unix", "http", "tool"}
  BY DEF Cl!Transport
<1>6. /\ r \in ClReqRecords /\ r.by = c /\ r.ask = q.ask /\ r.box = q.box /\ r.answer = "none"
      /\ r.at = (IF via = "http" THEN "handler" ELSE "router")
      /\ r.to = (IF via = "http" THEN Cl!There ELSE Cl!Here)
  <2>1. q.ask \in Cl!Asks /\ q.box \in BoxIds
    BY <1>2 DEF ClientRecords
  <2>2. Cl!Free \in ClReqRecords /\ Cl!Free.answer = "none"
    BY ClNoClient DEF Cl!Free
  <2> HIDE DEF q, via
  <2> QED BY <1>5, <2>1, <2>2 DEF ClReqRecords, Cl!Daemons
<1>7. /\ via = "http" => ClServedBy(clActive, q) = Cl!There
      /\ via # "http" => ClServedBy(clActive, q) = clActive
  BY <1>2 DEF Cl!Transport, Cl!Resolve, ClServedBy, Cl!Daemons, Cl!Here, Cl!There, ClientRecords
<1>8. \A m \in Slots : clReq[m].by # c
  BY <1>2, ClOnlyWaitersAreAnswered
<1> HIDE DEF rec, r, via
<1>9. /\ \A m \in Slots : clReq'[m] = IF m = n THEN r ELSE clReq[m]
      /\ \A d \in Terminals : clClient'[d] = IF d = c THEN rec ELSE clClient[d]
      /\ clReq' \in [Slots -> ClReqRecords] /\ clClient' \in [Terminals -> ClientRecords]
  BY <1>3, <1>4, <1>6 DEF ClientsInv, ClTypes
<1>10. ClientOk(rec) /\ ClRequestOk(r) /\ ClPairOk(rec, r)
  BY <1>2, <1>4, <1>6 DEF ClientOk, ClRequestOk, ClPairOk
<1>11. c # Cl!Nobody
  BY DEF Cl!ClientsAssumption
<1>12. ClTypes' /\ ClSteady' /\ ClAnswering'
  BY <1>2, <1>9, <1>10 DEF ClientsInv, ClTypes, ClSteady, ClAnswering
<1>13. ClPaired'
  BY <1>6, <1>8, <1>9, <1>10 DEF ClientsInv, ClPaired
<1>14. ClAlone'
  <2> SUFFICES ASSUME NEW k \in Slots, NEW m \in Slots, clReq'[k].by = clReq'[m].by, clReq'[k].by # Cl!Nobody
               PROVE  k = m
    BY DEF ClAlone
  <2> QED BY <1>6, <1>8, <1>9 DEF ClientsInv, ClAlone
<1>15. ClCounted'
  BY <1>2, <1>4, <1>9 DEF ClientsInv, ClCounted, ClServedBy
<1>16. ClSent'
  <2> SUFFICES ASSUME NEW m \in Slots, NEW d \in Terminals, clReq'[m].by = d, clClient'[d].still # {}
               PROVE  /\ clReq'[m].at = "handler" => clReq'[m].to = ClServedBy(clActive, clClient'[d])
                      /\ clReq'[m].at = "router" => clActive = ClServedBy(clActive, clClient'[d])
    BY <1>2 DEF ClSent
  <2>1. CASE m = n
    BY <1>4, <1>6, <1>7, <1>9, <2>1 DEF ClServedBy
  <2>2. CASE m # n
    BY <1>8, <1>9, <2>2 DEF ClientsInv, ClSent
  <2> QED BY <2>1, <2>2
<1>17. ClGone'
  BY <1>2, <1>4, <1>6, <1>9 DEF ClientsInv, ClGone
<1> QED BY <1>12, <1>13, <1>14, <1>15, <1>16, <1>17 DEF ClientsInv

\* What a client makes of the answer it waited for.
LEMMA ClOnlyOkIsParsed ==
  ASSUME NEW via \in {"unix", "http", "tool"}, NEW answer
  PROVE  Cl!Parsed(via, answer) = (answer = "ok") /\ Cl!DecodedList(via, answer) = (answer = "ok")
BY DEF Cl!Parsed, Cl!ParsedUnix, Cl!ParsedRemote, Cl!DoJSON, Cl!DecodedList

LEMMA ClStepIs ==
  ASSUME NEW q \in ClientRecords, NEW r \in ClReqRecords, NEW answer \in Cl!Answers,
         ClientOk(q), ClPairOk(q, r), ClRequestOk(r), answer = "ok" => r.answer = "ok",
         answer = "ok" /\ r.ask = "delete" => q.box \notin q.still
  PROVE  LET p == Cl!Step(q, r, answer) IN
         /\ p \in ClientRecords /\ ClientOk(p) /\ p.at \in {"call", "next", "done"}
         /\ p.still = q.still
         /\ p.at # "done" => p.program = q.program /\ p.context = q.context
         /\ p.destroyed \subseteq q.destroyed \union
              IF answer = "ok" /\ q.ask = "delete" THEN {q.box} ELSE {}
<1> DEFINE p == Cl!Step(q, r, answer)
<1>1. /\ Cl!Parsed(r.via, answer) = (answer = "ok") /\ Cl!DecodedList(r.via, answer) = (answer = "ok")
      /\ (answer = "ok") \in BOOLEAN
  BY ClOnlyOkIsParsed DEF ClReqRecords
<1>2. /\ q.at = "wait" /\ q.ask = r.ask /\ q.box = r.box /\ ClAsksFor(q.cmd, q.ask)
      /\ r.ids \in SUBSET BoxIds /\ r.via \in {"unix", "http", "tool"} /\ r.effect \in BOOLEAN
      /\ q.still \in SUBSET BoxIds
  BY DEF ClPairOk, ClientOk, ClReqRecords, ClientRecords
<1>3. CASE q.cmd = "destroyAll" /\ q.ask = "list"
  <2>1. CASE answer = "ok"
    <3>1. p = [q EXCEPT !.at = "next", !.todo = r.ids]
      BY <1>1, <1>3, <2>1 DEF Cl!Step, Cl!AllStep
    <3>2. /\ p \in ClientRecords /\ p.at = "next" /\ p.todo = r.ids /\ p.cmd = "destroyAll"
          /\ p.still = q.still /\ p.destroyed = q.destroyed
          /\ p.program = q.program /\ p.context = q.context
      BY <1>2, <1>3, <3>1 DEF ClientRecords
    <3>3. q.still \subseteq r.ids
      BY <1>2, <1>3, <2>1 DEF ClPairOk
    <3> HIDE DEF p
    <3>4. ClientOk(p)
      BY <3>2, <3>3 DEF ClientOk
    <3> QED BY <3>2, <3>4 DEF p
  <2>2. CASE answer # "ok"
    <3> DEFINE d == Cl!Done(q, FALSE)
    <3>1. p = d
      BY <1>1, <1>3, <2>2 DEF Cl!Step, Cl!AllStep
    <3>2. /\ d \in ClientRecords /\ d.at = "done" /\ d.ok = FALSE /\ d.still = q.still
          /\ d.destroyed = q.destroyed
      BY ClDoneIs
    <3> HIDE DEF d, p
    <3>3. ClientOk(d)
      BY <3>2 DEF ClientOk
    <3> QED BY <3>1, <3>2, <3>3 DEF p
  <2> QED BY <2>1, <2>2
<1>4. CASE q.cmd = "destroyAll" /\ q.ask = "delete"
  <2>1. CASE answer = "ok"
    <3>1. p = [q EXCEPT !.at = "next", !.destroyed = @ \union {q.box}]
      BY <1>1, <1>4, <2>1 DEF Cl!Step, Cl!AllStep
    <3>2. /\ p \in ClientRecords /\ p.at = "next" /\ p.todo = q.todo /\ p.cmd = "destroyAll"
          /\ p.still = q.still /\ p.destroyed = q.destroyed \union {q.box} /\ p.warned = q.warned
          /\ p.program = q.program /\ p.context = q.context
      <4>1. q.destroyed \union {q.box} \in SUBSET BoxIds
        BY DEF ClientRecords
      <4> DEFINE u == q.destroyed \union {q.box}
      <4>2. p = [q EXCEPT !.at = "next", !.destroyed = u]
        BY <3>1
      <4> HIDE DEF u, p
      <4>3. /\ p \in ClientRecords /\ p.at = "next" /\ p.todo = q.todo /\ p.cmd = q.cmd
            /\ p.still = q.still /\ p.destroyed = u /\ p.warned = q.warned
            /\ p.program = q.program /\ p.context = q.context
        BY <4>1, <4>2 DEF ClientRecords, u
      <4> QED BY <1>4, <4>3 DEF u
    <3>3. q.box \notin q.still /\ (~q.warned => q.still \subseteq q.todo \union {q.box})
      BY <1>2, <1>4, <2>1 DEF ClientOk
    <3> HIDE DEF p
    <3>4. ClientOk(p)
      BY <3>2, <3>3 DEF ClientOk
    <3> QED BY <1>4, <2>1, <3>2, <3>4 DEF p
  <2>2. CASE answer # "ok"
    <3>1. p = [q EXCEPT !.at = "next", !.warned = TRUE]
      BY <1>1, <1>4, <2>2 DEF Cl!Step, Cl!AllStep
    <3>2. /\ p \in ClientRecords /\ p.at = "next" /\ p.cmd = "destroyAll"
          /\ p.still = q.still /\ p.destroyed = q.destroyed /\ p.warned = TRUE
          /\ p.program = q.program /\ p.context = q.context
      BY <1>4, <3>1 DEF ClientRecords
    <3> HIDE DEF p
    <3>3. ClientOk(p)
      BY <3>2 DEF ClientOk
    <3> QED BY <3>2, <3>3 DEF p
  <2> QED BY <2>1, <2>2
<1>5. CASE q.cmd = "logs" /\ q.ask = "text"
  <2> DEFINE d == Cl!Done(q, TRUE)
  <2>1. p = [d EXCEPT !.via = r.via, !.shown = Cl!Printed(r.via, answer)]
    BY <1>5 DEF Cl!Step, Cl!LogsStep
  <2>2. /\ d \in ClientRecords /\ d.at = "done" /\ d.cmd = "logs" /\ d.still = q.still
        /\ d.destroyed = q.destroyed
    BY <1>5, ClDoneIs
  <2>3. Cl!Printed(r.via, answer) \in Cl!Answers
    BY DEF Cl!Printed, Cl!Answers
  <2> HIDE DEF d
  <2>4. /\ p \in ClientRecords /\ p.at = "done" /\ p.cmd = "logs" /\ p.still = q.still
        /\ p.destroyed = q.destroyed
    <3> HIDE DEF p
    <3>1. r.via \in {"unix", "http", "tool"}
      BY <1>2 DEF ClReqRecords
    <3> QED BY <2>1, <2>2, <2>3, <3>1 DEF ClientRecords
  <2> HIDE DEF p
  <2>5. ClientOk(p)
    BY <2>4 DEF ClientOk, ClEffective
  <2> QED BY <2>4, <2>5 DEF p
<1>6. CASE q.cmd = "logs" /\ q.ask = "logs"
  <2>1. CASE answer = "ok" /\ r.ids # {}
    <3>1. p = [q EXCEPT !.at = "call", !.ask = "text"]
      BY <1>1, <1>6, <2>1 DEF Cl!Step, Cl!LogsStep
    <3>2. /\ p \in ClientRecords /\ p.at = "call" /\ p.cmd = "logs" /\ p.ask = "text"
          /\ p.still = q.still /\ p.destroyed = q.destroyed
          /\ p.program = q.program /\ p.context = q.context
      BY <1>6, <3>1 DEF ClientRecords, Cl!Asks
    <3> HIDE DEF p
    <3>3. ClientOk(p)
      BY <3>2 DEF ClientOk, ClAsksFor
    <3> QED BY <3>2, <3>3 DEF p
  <2>2. CASE ~(answer = "ok" /\ r.ids # {})
    <3> DEFINE d == Cl!Done(q, answer = "ok")
    <3>1. p = d
      BY <1>1, <1>6, <2>2 DEF Cl!Step, Cl!LogsStep
    <3>2. /\ d \in ClientRecords /\ d.at = "done" /\ d.cmd = "logs" /\ d.still = q.still
          /\ d.destroyed = q.destroyed
      BY <1>1, <1>6, ClDoneIs
    <3> HIDE DEF d, p
    <3>3. ClientOk(d)
      BY <3>2 DEF ClientOk, ClEffective
    <3> QED BY <3>1, <3>2, <3>3 DEF p
  <2> QED BY <2>1, <2>2
<1>8. CASE q.cmd = "shell"
  <2> DEFINE d == Cl!Done(q, answer = "ended")
  <2>1. p = [d EXCEPT !.effect = r.effect]
    BY <1>8 DEF Cl!Step, Cl!Ended
  <2>2. d \in ClientRecords /\ d.at = "done" /\ d.cmd = "shell" /\ d.still = q.still /\ d.destroyed = q.destroyed
    BY <1>8, ClDoneIs
  <2> HIDE DEF d
  <2>3. p \in ClientRecords /\ p.at = "done" /\ p.cmd = "shell" /\ p.still = q.still /\ p.destroyed = q.destroyed
    BY <1>2, <2>1, <2>2 DEF ClientRecords
  <2> HIDE DEF p
  <2>4. ClientOk(p)
    BY <2>3 DEF ClientOk, ClEffective
  <2> QED BY <2>3, <2>4 DEF p
<1>7. CASE q.cmd \notin {"destroyAll", "logs", "shell"}
  <2> DEFINE d == Cl!Done(q, answer = "ok")
  <2>1. p = [d EXCEPT !.effect = r.effect]
    BY <1>1, <1>7 DEF Cl!Step
  <2>2. /\ d \in ClientRecords /\ d.at = "done" /\ d.cmd = q.cmd /\ d.still = q.still
        /\ d.destroyed = q.destroyed /\ d.ok = (answer = "ok")
    BY <1>1, ClDoneIs
  <2> HIDE DEF d
  <2>3. /\ p \in ClientRecords /\ p.at = "done" /\ p.cmd = q.cmd /\ p.still = q.still
        /\ p.destroyed = q.destroyed /\ p.effect = r.effect /\ p.ok = (answer = "ok")
    BY <1>2, <2>1, <2>2 DEF ClientRecords
  <2> HIDE DEF p
  <2>4. answer = "ok" /\ q.cmd \in ClEffective => r.effect
    BY <1>2, <1>7 DEF ClEffective, ClAsksFor, Cl!Writes, ClRequestOk
  <2>5. ClientOk(p)
    BY <1>7, <2>3, <2>4 DEF ClientOk
  <2> QED BY <2>3, <2>5 DEF p
<1> QED BY <1>2, <1>3, <1>4, <1>5, <1>6, <1>7, <1>8 DEF ClAsksFor

LEMMA ClLeaveIs ==
  ASSUME Cl!ClientsAssumption, ClientsInv, NEW n \in Slots, Cl!Leave(n)
  PROVE  /\ clReq' \in [Slots -> ClReqRecords] /\ clReq'[n].by = Cl!Nobody /\ clReq'[n].answer # "ok"
         /\ \A m \in Slots \ {n} : clReq'[m] = clReq[m]
<1> DEFINE r == IF clReq[n].at = "over" \/ clReq[n].ask \notin Cl!Writes THEN Cl!Free
                ELSE [clReq[n] EXCEPT !.by = Cl!Nobody, !.answer = "none", !.via = "unix"]
<1>1. clReq \in [Slots -> ClReqRecords] /\ clReq[n] \in ClReqRecords
  BY DEF ClientsInv, ClTypes
<1>2. clReq' = [clReq EXCEPT ![n] = r]
  BY DEF Cl!Leave
<1>3. r \in ClReqRecords /\ r.by = Cl!Nobody /\ r.answer = "none"
  <2>1. CASE r = Cl!Free
    BY <2>1, ClNoClient DEF Cl!Free
  <2>2. CASE r = [clReq[n] EXCEPT !.by = Cl!Nobody, !.answer = "none", !.via = "unix"]
    BY <1>1, <2>2 DEF ClReqRecords, Cl!Answers
  <2> QED BY <2>1, <2>2
<1> HIDE DEF r
<1> QED BY <1>1, <1>2, <1>3

\* The client heard, or gave up.
LEMMA ClHeardKeeps ==
  ASSUME Cl!ClientsAssumption, ClientsInv, NEW c \in Terminals, NEW n \in Slots, clReq[n].by = c, Cl!Leave(n),
         NEW rec \in ClientRecords, clClient' = [clClient EXCEPT ![c] = rec], ClientOk(rec),
         UNCHANGED <<clActive, clBox>>, clMishaps' \in 0..MaxMishaps,
         rec.at \notin {"idle", "done"} => rec.still \subseteq ClOn(clBox, ClServedBy(clActive, rec)),
         \A i \in rec.destroyed : clBox[i].on = "gone"
  PROVE  ClientsInv'
<1>1. /\ clClient' \in [Terminals -> ClientRecords] /\ clClient'[c] = rec
      /\ \A d \in Terminals \ {c} : clClient'[d] = clClient[d]
  BY DEF ClientsInv, ClTypes
<1>2. /\ clReq' \in [Slots -> ClReqRecords] /\ clReq'[n].by = Cl!Nobody /\ clReq'[n].answer # "ok"
      /\ \A m \in Slots \ {n} : clReq'[m] = clReq[m]
  BY ClLeaveIs
<1>3. c # Cl!Nobody /\ \A m \in Slots \ {n} : clReq[m].by # c
  BY DEF Cl!ClientsAssumption, ClientsInv, ClAlone
<1>4. \A m \in Slots, d \in Terminals : clReq'[m].by = d => m # n /\ d # c /\ clReq'[m] = clReq[m]
        /\ clClient'[d] = clClient[d]
  BY <1>1, <1>2, <1>3 DEF Cl!ClientsAssumption
<1>5. ClRequestOk(clReq'[n])
  BY <1>2 DEF ClRequestOk
<1>6. ClTypes' /\ ClSteady' /\ ClAnswering'
  BY <1>1, <1>2, <1>5 DEF ClientsInv, ClTypes, ClSteady, ClAnswering
<1>7. ClPaired' /\ ClSent'
  <2>1. ClPaired'
    BY <1>4 DEF ClientsInv, ClPaired
  <2>2. ClSent'
    BY <1>4 DEF ClientsInv, ClSent
  <2> QED BY <2>1, <2>2
<1>8. ClAlone'
  BY <1>2 DEF ClientsInv, ClAlone
<1>9. ClCounted'
  BY <1>1 DEF ClientsInv, ClCounted
<1>10. ClGone'
  BY <1>1, <1>2 DEF ClientsInv, ClGone
<1> QED BY <1>6, <1>7, <1>8, <1>9, <1>10 DEF ClientsInv

LEMMA ClReceiveKeeps ==
  ASSUME Cl!ClientsAssumption, ClientsInv, NEW c \in Terminals, Cl!Receive(c)
  PROVE  ClientsInv'
<1>1. PICK n \in Slots :
        /\ clReq[n].by = c /\ clClient' = [clClient EXCEPT ![c] = Cl!Step(clClient[c], clReq[n], clReq[n].answer)]
        /\ Cl!Leave(n) /\ UNCHANGED <<clActive, clBox, clMishaps>>
  BY DEF Cl!Receive, ClientsInv, ClTypes
<1> DEFINE q == clClient[c]
           r == clReq[n]
           rec == Cl!Step(q, r, r.answer)
<1>2. /\ q \in ClientRecords /\ r \in ClReqRecords /\ r.answer \in Cl!Answers
      /\ ClientOk(q) /\ ClPairOk(q, r) /\ ClRequestOk(r) /\ q.at = "wait"
      /\ q.still \subseteq ClOn(clBox, ClServedBy(clActive, q))
      /\ \A i \in q.destroyed : clBox[i].on = "gone"
      /\ r.answer = "ok" /\ r.ask = "delete" => clBox[q.box].on = "gone"
  BY <1>1 DEF ClientsInv, ClTypes, ClSteady, ClPaired, ClAnswering, ClCounted, ClGone, ClPairOk,
     ClReqRecords
<1>3. r.answer = "ok" /\ r.ask = "delete" => q.box \notin q.still
  <2>1. clActive \in Cl!Daemons /\ ClServedBy(clActive, q) \in Cl!Daemons /\ "gone" \notin Cl!Daemons
    BY DEF ClientsInv, ClTypes, ClServedBy, Cl!Daemons, Cl!Here, Cl!There
  <2> QED BY <1>2, <2>1 DEF ClOn
<1>4. q.ask = r.ask
  BY <1>2 DEF ClPairOk
<1> HIDE DEF q, r
<1>5. /\ rec \in ClientRecords /\ ClientOk(rec) /\ rec.at \in {"call", "next", "done"}
      /\ rec.still = q.still
      /\ rec.at # "done" => rec.program = q.program /\ rec.context = q.context
      /\ rec.destroyed \subseteq q.destroyed \union
           IF r.answer = "ok" /\ q.ask = "delete" THEN {q.box} ELSE {}
  BY <1>2, <1>3, ClStepIs
<1> HIDE DEF rec
<1>6. rec.at \notin {"idle", "done"} => rec.still \subseteq ClOn(clBox, ClServedBy(clActive, rec))
  BY <1>2, <1>5 DEF ClServedBy
<1>7. \A i \in rec.destroyed : clBox[i].on = "gone"
  BY <1>2, <1>4, <1>5
<1>8. clMishaps' \in 0..MaxMishaps
  BY <1>1 DEF ClientsInv, ClTypes
<1> QED BY <1>1, <1>5, <1>6, <1>7, <1>8, ClHeardKeeps DEF rec, q, r

LEMMA ClGiveUpKeeps ==
  ASSUME Cl!ClientsAssumption, ClientsInv, NEW c \in Terminals, Cl!GiveUp(c)
  PROVE  ClientsInv'
<1>1. PICK n \in Slots :
        /\ clReq[n].by = c
        /\ clClient' = [clClient EXCEPT ![c] = Cl!Disturbed(Cl!Step(clClient[c], clReq[n], "cut"), BoxIds)]
        /\ Cl!Leave(n) /\ UNCHANGED <<clActive, clBox>>
  BY DEF Cl!GiveUp, ClientsInv, ClTypes
<1> DEFINE q == clClient[c]
           r == clReq[n]
           p == Cl!Step(q, r, "cut")
           rec == Cl!Disturbed(p, BoxIds)
<1>2. /\ q \in ClientRecords /\ r \in ClReqRecords /\ "cut" \in Cl!Answers
      /\ ClientOk(q) /\ ClPairOk(q, r) /\ ClRequestOk(r) /\ \A i \in q.destroyed : clBox[i].on = "gone"
  BY <1>1 DEF ClientsInv, ClTypes, ClSteady, ClPaired, ClAnswering, ClGone, Cl!Answers
<1> HIDE DEF q, r
<1>3. p \in ClientRecords /\ ClientOk(p) /\ p.destroyed \subseteq q.destroyed
  BY <1>2, ClStepIs
<1> HIDE DEF p
<1>4. /\ rec \in ClientRecords /\ ClientOk(rec) /\ rec.still = {} /\ rec.destroyed = p.destroyed
  <2>1. ClDimmed(rec, p) /\ rec.still = p.still \ BoxIds /\ p.still \subseteq BoxIds
    BY <1>3, ClDisturbedIsDimmed DEF ClientRecords
  <2> HIDE DEF rec
  <2> QED BY <1>3, <2>1, ClDimmedIsOk DEF ClDimmed
<1> HIDE DEF rec
<1>5. clMishaps' \in 0..MaxMishaps
  BY DEF Cl!GiveUp, Cl!Mishap, ClientsInv, ClTypes, Cl!ClientsAssumption
<1> QED BY <1>1, <1>2, <1>3, <1>4, <1>5, ClHeardKeeps DEF rec, p, q, r

-----------------------------------------------------------------------------
(* The daemons.                                                             *)

\* A daemon's step may answer requests and drop those nobody waits for; the
\* clients can but count on fewer sandboxes.
LEMMA ClDaemonMoves ==
  ASSUME Cl!ClientsAssumption, ClientsInv, clActive' = clActive, clMishaps' \in 0..MaxMishaps,
         clClient' \in [Terminals -> ClientRecords], clReq' \in [Slots -> ClReqRecords],
         clBox' \in [BoxIds -> ClBoxRecords],
         \A c \in Terminals : ClDimmed(clClient'[c], clClient[c]),
         \A i \in BoxIds : clBox[i].on = "gone" => clBox'[i].on = "gone",
         \A c \in Terminals : \A i \in clClient'[c].still :
            clBox[i].on \in Cl!Daemons /\ clBox[i].readable => clBox'[i].on = clBox[i].on /\ clBox'[i].readable,
         \A n \in Slots :
            /\ ClRequestOk(clReq'[n]) /\ clReq'[n].by \in {clReq[n].by, Cl!Nobody}
            /\ clReq'[n].by # Cl!Nobody => clReq'[n].ask = clReq[n].ask /\ clReq'[n].box = clReq[n].box
            /\ clReq'[n].answer = "ok" /\ clReq'[n].ask = "delete" => clBox'[clReq'[n].box].on = "gone",
         \A n \in Slots, c \in Terminals : clReq'[n].by = c =>
            /\ clReq[n].by = c
            /\ clClient'[c].cmd = "destroyAll" /\ clReq'[n].ask = "list" /\ clReq'[n].answer = "ok"
                 => clClient'[c].still \subseteq clReq'[n].ids
            /\ clClient'[c].still # {} =>
                 /\ clReq'[n].at = "handler" => clReq'[n].to = ClServedBy(clActive, clClient[c])
                 /\ clReq'[n].at = "router" => clActive = ClServedBy(clActive, clClient[c])
  PROVE  ClientsInv'
<1>1. \A c \in Terminals : /\ clClient[c] \in ClientRecords /\ ClientOk(clClient'[c])
                           /\ \A r : ClPairOk(clClient[c], r) => ClPairOk(clClient'[c], r)
                           /\ \A where : ClServedBy(where, clClient'[c]) = ClServedBy(where, clClient[c])
  BY ClDimmedIsOk DEF ClientsInv, ClTypes, ClSteady
<1>2. ClTypes' /\ ClSteady' /\ ClAnswering'
  BY <1>1 DEF ClientsInv, ClTypes, ClSteady, ClAnswering
<1>3. ClPaired'
  <2> SUFFICES ASSUME NEW n \in Slots, NEW c \in Terminals, clReq'[n].by = c
               PROVE  ClPairOk(clClient'[c], clReq'[n])
    BY DEF ClPaired
  <2>1. ClPairOk(clClient'[c], clReq[n])
    BY <1>1 DEF ClientsInv, ClPaired
  <2>2. clReq'[n].ask = clReq[n].ask /\ clReq'[n].box = clReq[n].box
    BY DEF Cl!ClientsAssumption
  <2> QED BY <2>1, <2>2 DEF ClPairOk
<1>4. ClAlone'
  BY DEF ClientsInv, ClAlone
<1>5. ClSent'
  <2> SUFFICES ASSUME NEW n \in Slots, NEW c \in Terminals, clReq'[n].by = c, clClient'[c].still # {}
               PROVE  /\ clReq'[n].at = "handler" => clReq'[n].to = ClServedBy(clActive, clClient'[c])
                      /\ clReq'[n].at = "router" => clActive = ClServedBy(clActive, clClient'[c])
    BY DEF ClSent
  <2>1. ClServedBy(clActive, clClient'[c]) = ClServedBy(clActive, clClient[c])
    BY <1>1
  <2> QED BY <2>1
<1>6. ClCounted'
  <2> SUFFICES ASSUME NEW c \in Terminals, clClient'[c].at \notin {"idle", "done"}, NEW i \in clClient'[c].still
               PROVE  i \in ClOn(clBox', ClServedBy(clActive, clClient'[c]))
    BY DEF ClCounted
  <2>1. i \in ClOn(clBox, ClServedBy(clActive, clClient[c]))
    BY DEF ClientsInv, ClCounted, ClDimmed
  <2>2. ClServedBy(clActive, clClient[c]) \in Cl!Daemons
    BY DEF ClientsInv, ClTypes, ClServedBy, Cl!Daemons
  <2> QED BY <1>1, <2>1, <2>2 DEF ClOn
<1>7. ClGone'
  <2>1. \A c \in Terminals : clClient'[c].destroyed = clClient[c].destroyed /\ clClient[c].destroyed \subseteq BoxIds
    BY <1>1 DEF ClDimmed, ClientRecords
  <2> QED BY <2>1 DEF ClientsInv, ClGone
<1> QED BY <1>2, <1>3, <1>4, <1>5, <1>6, <1>7 DEF ClientsInv

LEMMA ClStillIsDimmed ==
  ASSUME ClientsInv
  PROVE  \A c \in Terminals : ClDimmed(clClient[c], clClient[c])
BY DEF ClientsInv, ClTypes, ClDimmed

\* One request changes, and no sandbox and no client.
LEMMA ClOneRequestMoves ==
  ASSUME Cl!ClientsAssumption, ClientsInv, UNCHANGED <<clActive, clBox, clClient, clMishaps>>, NEW n \in Slots, NEW r \in ClReqRecords,
         clReq' = [clReq EXCEPT ![n] = r], ClRequestOk(r), r.by = clReq[n].by, r.ask = clReq[n].ask,
         r.box = clReq[n].box, r.answer = "ok" => r.ids = clReq[n].ids /\ clReq[n].answer = "ok",
         \A c \in Terminals : r.by = c /\ clClient[c].still # {} =>
                 /\ r.at = "handler" => r.to = ClServedBy(clActive, clClient[c])
                 /\ r.at = "router" => clActive = ClServedBy(clActive, clClient[c])
  PROVE  ClientsInv'
<1>1. /\ clReq' \in [Slots -> ClReqRecords] /\ clReq'[n] = r
      /\ \A m \in Slots \ {n} : clReq'[m] = clReq[m]
  BY DEF ClientsInv, ClTypes
<1>2. /\ clClient' \in [Terminals -> ClientRecords] /\ clBox' \in [BoxIds -> ClBoxRecords]
      /\ clMishaps' \in 0..MaxMishaps /\ \A c \in Terminals : ClDimmed(clClient'[c], clClient[c])
  BY ClStillIsDimmed DEF ClientsInv, ClTypes
<1>3. \A m \in Slots :
        /\ ClRequestOk(clReq'[m]) /\ clReq'[m].by = clReq[m].by
        /\ clReq'[m].ask = clReq[m].ask /\ clReq'[m].box = clReq[m].box
        /\ clReq'[m].answer = "ok" => clReq'[m].ids = clReq[m].ids /\ clReq[m].answer = "ok"
  BY <1>1 DEF ClientsInv, ClAnswering
<1>4. \A m \in Slots, c \in Terminals : clReq'[m].by = c =>
            /\ clClient'[c].cmd = "destroyAll" /\ clReq'[m].ask = "list" /\ clReq'[m].answer = "ok"
                 => clClient'[c].still \subseteq clReq'[m].ids
            /\ clClient'[c].still # {} =>
                 /\ clReq'[m].at = "handler" => clReq'[m].to = ClServedBy(clActive, clClient[c])
                 /\ clReq'[m].at = "router" => clActive = ClServedBy(clActive, clClient[c])
  <2> SUFFICES ASSUME NEW m \in Slots, NEW c \in Terminals, clReq'[m].by = c
               PROVE  /\ clClient[c].cmd = "destroyAll" /\ clReq'[m].ask = "list" /\ clReq'[m].answer = "ok"
                           => clClient[c].still \subseteq clReq'[m].ids
                      /\ clClient[c].still # {} =>
                           /\ clReq'[m].at = "handler" => clReq'[m].to = ClServedBy(clActive, clClient[c])
                           /\ clReq'[m].at = "router" => clActive = ClServedBy(clActive, clClient[c])
    OBVIOUS
  <2>1. ClPairOk(clClient[c], clReq[m])
    BY <1>3 DEF ClientsInv, ClPaired
  <2>2. CASE m = n
    BY <1>1, <1>3, <2>1, <2>2 DEF ClPairOk
  <2>3. CASE m # n
    BY <1>1, <1>3, <2>1, <2>3 DEF ClPairOk, ClientsInv, ClSent
  <2> QED BY <2>2, <2>3
<1>5. \A m \in Slots : clReq'[m].answer = "ok" /\ clReq'[m].ask = "delete" => clBox'[clReq'[m].box].on = "gone"
  BY <1>3 DEF ClientsInv, ClGone
<1>6. /\ clActive' = clActive
      /\ \A i \in BoxIds : clBox[i].on = "gone" => clBox'[i].on = "gone"
      /\ \A c \in Terminals : \A i \in clClient'[c].still :
            clBox[i].on \in Cl!Daemons /\ clBox[i].readable => clBox'[i].on = clBox[i].on /\ clBox'[i].readable
  OBVIOUS
<1>7. \A m \in Slots :
        /\ ClRequestOk(clReq'[m]) /\ clReq'[m].by \in {clReq[m].by, Cl!Nobody}
        /\ clReq'[m].by # Cl!Nobody => clReq'[m].ask = clReq[m].ask /\ clReq'[m].box = clReq[m].box
        /\ clReq'[m].answer = "ok" /\ clReq'[m].ask = "delete" => clBox'[clReq'[m].box].on = "gone"
  BY <1>3, <1>5
<1>8. \A m \in Slots, c \in Terminals : clReq'[m].by = c =>
        /\ clReq[m].by = c
        /\ clClient'[c].cmd = "destroyAll" /\ clReq'[m].ask = "list" /\ clReq'[m].answer = "ok"
             => clClient'[c].still \subseteq clReq'[m].ids
        /\ clClient'[c].still # {} =>
             /\ clReq'[m].at = "handler" => clReq'[m].to = ClServedBy(clActive, clClient[c])
             /\ clReq'[m].at = "router" => clActive = ClServedBy(clActive, clClient[c])
  BY <1>3, <1>4
<1>9. clReq' \in [Slots -> ClReqRecords]
  BY <1>1
<1> QED BY Cl!ClientsAssumption, ClientsInv, <1>2, <1>6, <1>7, <1>8, <1>9, ClDaemonMoves

LEMMA ClRouteKeeps ==
  ASSUME Cl!ClientsAssumption, ClientsInv, NEW n \in Slots, Cl!Route(n)
  PROVE  ClientsInv'
<1>1. /\ clReq[n] \in ClReqRecords /\ ClRequestOk(clReq[n]) /\ clReq[n].at = "router" /\ clActive \in Cl!Daemons
      /\ UNCHANGED <<clActive, clBox, clClient, clMishaps>>
  BY DEF Cl!Route, ClientsInv, ClTypes, ClAnswering
<1>2. CASE clActive = Cl!There /\ clReq[n].ask = "shell"
  <2> DEFINE r == [clReq[n] EXCEPT !.at = "over", !.answer = "text"]
  <2>1. clReq' = [clReq EXCEPT ![n] = r]
    BY <1>2 DEF Cl!Route
  <2>2. /\ r \in ClReqRecords /\ r.at = "over" /\ r.answer = "text" /\ r.by = clReq[n].by
        /\ r.ask = clReq[n].ask /\ r.box = clReq[n].box
    BY <1>1 DEF ClReqRecords, Cl!Answers
  <2> HIDE DEF r
  <2>3. ClRequestOk(r)
    BY <2>2 DEF ClRequestOk
  <2> QED BY <1>1, <2>1, <2>2, <2>3, ClOneRequestMoves
<1>3. CASE ~(clActive = Cl!There /\ clReq[n].ask = "shell")
  <2> DEFINE r == [clReq[n] EXCEPT !.at = "handler", !.to = clActive]
  <2>1. clReq' = [clReq EXCEPT ![n] = r]
    BY <1>3 DEF Cl!Route
  <2>2. /\ r \in ClReqRecords /\ r.at = "handler" /\ r.answer = clReq[n].answer /\ r.by = clReq[n].by
        /\ r.ask = clReq[n].ask /\ r.box = clReq[n].box /\ r.to = clActive /\ r.ids = clReq[n].ids
    BY <1>1 DEF ClReqRecords
  <2> HIDE DEF r
  <2>3. ClRequestOk(r)
    BY <1>1, <2>2 DEF ClRequestOk
  <2>4. \A c \in Terminals : r.by = c /\ clClient[c].still # {} => clActive = ClServedBy(clActive, clClient[c])
    BY <1>1, <2>2 DEF ClientsInv, ClSent
  <2> QED BY <1>1, <2>1, <2>2, <2>3, <2>4, ClOneRequestMoves
<1> QED BY <1>2, <1>3

LEMMA ClProxyFailsKeeps ==
  ASSUME Cl!ClientsAssumption, ClientsInv, NEW n \in Slots, Cl!ProxyFails(n)
  PROVE  ClientsInv'
<1> DEFINE r == [clReq[n] EXCEPT !.answer = "text"]
<1>1. /\ clReq[n] \in ClReqRecords /\ clReq' = [clReq EXCEPT ![n] = r]
      /\ clClient' = [c \in Terminals |-> IF clReq[n].by = c THEN Cl!Disturbed(clClient[c], BoxIds) ELSE clClient[c]]
      /\ UNCHANGED <<clActive, clBox>>
  BY DEF Cl!ProxyFails, ClientsInv, ClTypes
<1>2. /\ r \in ClReqRecords /\ r.answer = "text" /\ r.by = clReq[n].by /\ r.ask = clReq[n].ask
      /\ r.box = clReq[n].box /\ r.at = clReq[n].at
  BY <1>1 DEF ClReqRecords, Cl!Answers
<1> HIDE DEF r
<1>3. /\ clReq' \in [Slots -> ClReqRecords] /\ clReq'[n] = r
      /\ \A m \in Slots \ {n} : clReq'[m] = clReq[m]
  BY <1>1, <1>2 DEF ClientsInv, ClTypes
<1>4. \A c \in Terminals : /\ ClDimmed(clClient'[c], clClient[c])
                           /\ clReq[n].by = c => clClient'[c].still = {}
                           /\ clReq[n].by # c => clClient'[c] = clClient[c]
  <2> SUFFICES ASSUME NEW c \in Terminals
               PROVE  /\ ClDimmed(clClient'[c], clClient[c])
                      /\ clReq[n].by = c => clClient'[c].still = {}
                      /\ clReq[n].by # c => clClient'[c] = clClient[c]
    OBVIOUS
  <2>1. clClient[c] \in ClientRecords /\ clClient[c].still \subseteq BoxIds
    BY DEF ClientsInv, ClTypes, ClientRecords
  <2> QED BY <1>1, <2>1, ClDisturbedIsDimmed, ClStillIsDimmed
<1>5. clClient' \in [Terminals -> ClientRecords]
  BY <1>1, <1>4 DEF ClDimmed
<1>6. clMishaps' \in 0..MaxMishaps /\ clBox' \in [BoxIds -> ClBoxRecords]
  BY <1>1 DEF Cl!ProxyFails, Cl!Mishap, ClientsInv, ClTypes, Cl!ClientsAssumption
<1>7. \A m \in Slots : /\ ClRequestOk(clReq'[m]) /\ clReq'[m].by = clReq[m].by /\ clReq'[m].ask = clReq[m].ask
                       /\ clReq'[m].box = clReq[m].box
                       /\ clReq'[m].answer = "ok" => m # n
                       /\ clReq'[m].answer = "ok" /\ clReq'[m].ask = "delete" => clBox'[clReq'[m].box].on = "gone"
  <2>1. ClRequestOk(r)
    BY <1>2 DEF ClRequestOk, Cl!ProxyFails
  <2> QED BY <1>1, <1>2, <1>3, <2>1 DEF ClientsInv, ClAnswering, ClGone
<1>8. \A m \in Slots, c \in Terminals : clReq'[m].by = c =>
            /\ clReq[m].by = c
            /\ clClient'[c].cmd = "destroyAll" /\ clReq'[m].ask = "list" /\ clReq'[m].answer = "ok"
                 => clClient'[c].still \subseteq clReq'[m].ids
            /\ clClient'[c].still # {} =>
                 /\ clReq'[m].at = "handler" => clReq'[m].to = ClServedBy(clActive, clClient[c])
                 /\ clReq'[m].at = "router" => clActive = ClServedBy(clActive, clClient[c])
  <2> SUFFICES ASSUME NEW m \in Slots, NEW c \in Terminals, clReq'[m].by = c
               PROVE  /\ clReq[m].by = c
                      /\ clClient'[c].cmd = "destroyAll" /\ clReq'[m].ask = "list" /\ clReq'[m].answer = "ok"
                           => clClient'[c].still \subseteq clReq'[m].ids
                      /\ clClient'[c].still # {} =>
                           /\ clReq'[m].at = "handler" => clReq'[m].to = ClServedBy(clActive, clClient[c])
                           /\ clReq'[m].at = "router" => clActive = ClServedBy(clActive, clClient[c])
    OBVIOUS
  <2>3. clReq[m].by = c
    BY <1>7
  <2>1. CASE clClient'[c].still = {}
    BY <2>1, <2>3
  <2>2. CASE clClient'[c].still # {}
    <3>1. clClient'[c] = clClient[c] /\ m # n /\ clReq'[m] = clReq[m]
      BY <1>3, <1>4, <1>7, <2>2
    <3> QED BY <2>3, <3>1 DEF ClientsInv, ClPaired, ClPairOk, ClSent
  <2> QED BY <2>1, <2>2
<1>9. /\ \A i \in BoxIds : clBox[i].on = "gone" => clBox'[i].on = "gone"
      /\ \A c \in Terminals : \A i \in clClient'[c].still :
            clBox[i].on \in Cl!Daemons /\ clBox[i].readable => clBox'[i].on = clBox[i].on /\ clBox'[i].readable
      /\ \A c \in Terminals : ClDimmed(clClient'[c], clClient[c])
  BY <1>1, <1>4
<1>10. \A m \in Slots :
        /\ ClRequestOk(clReq'[m]) /\ clReq'[m].by \in {clReq[m].by, Cl!Nobody}
        /\ clReq'[m].by # Cl!Nobody => clReq'[m].ask = clReq[m].ask /\ clReq'[m].box = clReq[m].box
        /\ clReq'[m].answer = "ok" /\ clReq'[m].ask = "delete" => clBox'[clReq'[m].box].on = "gone"
  BY <1>7
<1>11. clActive' = clActive /\ clReq' \in [Slots -> ClReqRecords]
  BY <1>1, <1>3
<1> QED BY <1>5, <1>6, <1>8, <1>9, <1>10, <1>11, ClDaemonMoves

\* What a handler's answer leaves of the request.
ClOverWith(n, answer, ids) ==
  /\ clReq' \in [Slots -> ClReqRecords] /\ \A m \in Slots \ {n} : clReq'[m] = clReq[m]
  /\ ClRequestOk(clReq'[n]) /\ clReq'[n].by = clReq[n].by /\ clReq'[n].at \in {"free", "over"}
  /\ clReq'[n].by # Cl!Nobody => /\ clReq'[n].ask = clReq[n].ask /\ clReq'[n].box = clReq[n].box
                                 /\ clReq'[n].ids = ids
  /\ clReq'[n].answer = "ok" => clReq[n].by # Cl!Nobody /\ answer = "ok"

LEMMA ClAnsweredIs ==
  ASSUME Cl!ClientsAssumption, ClientsInv, NEW n \in Slots, clReq[n].at = "handler",
         NEW answer \in {"ok", "error", "ended"}, NEW ids \in SUBSET BoxIds,
         \/ Cl!Answered(n, answer, TRUE, ids)
         \/ Cl!Answered(n, answer, FALSE, ids) /\ (answer = "ok" => clReq[n].ask \notin Cl!Writes)
  PROVE  ClOverWith(n, answer, ids)
<1>1. clReq \in [Slots -> ClReqRecords] /\ clReq[n] \in ClReqRecords /\ ClRequestOk(clReq[n])
  BY DEF ClientsInv, ClTypes, ClAnswering
<1>2. CASE clReq[n].by = Cl!Nobody
  <2>1. clReq' = [clReq EXCEPT ![n] = Cl!Free]
    BY <1>2 DEF Cl!Answered
  <2> QED BY <1>1, <1>2, <2>1, ClNoClient DEF Cl!Free, ClOverWith
<1> DEFINE said == IF clReq[n].answer = "none" THEN answer ELSE clReq[n].answer
<1>3. said \in Cl!Answers /\ (said = "ok" => answer = "ok")
  BY <1>1 DEF ClReqRecords, Cl!Answers, ClRequestOk
<1>4. ASSUME clReq[n].by # Cl!Nobody, NEW r \in ClReqRecords, clReq' = [clReq EXCEPT ![n] = r],
             r.at = "over", r.ids = ids, r.answer = said, r.by = clReq[n].by,
             r.ask = clReq[n].ask, r.box = clReq[n].box, answer = "ok" /\ r.ask \in Cl!Writes => r.effect
      PROVE  ClOverWith(n, answer, ids)
  <2>1. ClRequestOk(r)
    BY <1>3, <1>4 DEF ClRequestOk
  <2> QED BY <1>1, <1>3, <1>4, <2>1 DEF ClOverWith
<1>5. CASE clReq[n].by # Cl!Nobody /\ Cl!Answered(n, answer, TRUE, ids)
  <2> DEFINE r == [clReq[n] EXCEPT !.at = "over", !.effect = TRUE, !.ids = ids, !.answer = said]
  <2>1. clReq' = [clReq EXCEPT ![n] = r]
    BY <1>5 DEF Cl!Answered
  <2> HIDE DEF said
  <2>2. /\ r \in ClReqRecords /\ r.at = "over" /\ r.effect = TRUE /\ r.ids = ids /\ r.answer = said
        /\ r.by = clReq[n].by /\ r.ask = clReq[n].ask /\ r.box = clReq[n].box
    BY <1>1, <1>3 DEF ClReqRecords
  <2> HIDE DEF r
  <2> QED BY <1>4, <1>5, <2>1, <2>2
<1>6. CASE /\ clReq[n].by # Cl!Nobody /\ Cl!Answered(n, answer, FALSE, ids)
           /\ answer = "ok" => clReq[n].ask \notin Cl!Writes
  <2> DEFINE r == [clReq[n] EXCEPT !.at = "over", !.effect = FALSE, !.ids = ids, !.answer = said]
  <2>1. clReq' = [clReq EXCEPT ![n] = r]
    BY <1>6 DEF Cl!Answered
  <2> HIDE DEF said
  <2>2. /\ r \in ClReqRecords /\ r.at = "over" /\ r.ids = ids /\ r.answer = said
        /\ r.by = clReq[n].by /\ r.ask = clReq[n].ask /\ r.box = clReq[n].box
    BY <1>1, <1>3 DEF ClReqRecords
  <2> HIDE DEF r
  <2> QED BY <1>4, <1>6, <2>1, <2>2
<1> QED BY <1>2, <1>5, <1>6

LEMMA ClHandlerMoves ==
  ASSUME Cl!ClientsAssumption, ClientsInv, NEW n \in Slots, clReq[n].at = "handler", UNCHANGED <<clActive, clMishaps>>,
         NEW answer \in {"ok", "error", "ended"}, NEW ids \in SUBSET BoxIds, ClOverWith(n, answer, ids),
         clClient' \in [Terminals -> ClientRecords], clBox' \in [BoxIds -> ClBoxRecords],
         \A c \in Terminals : ClDimmed(clClient'[c], clClient[c]),
         \A i \in BoxIds : clBox[i].on = "gone" => clBox'[i].on = "gone",
         \A c \in Terminals : \A i \in clClient'[c].still :
            clBox[i].on \in Cl!Daemons /\ clBox[i].readable => clBox'[i].on = clBox[i].on /\ clBox'[i].readable,
         answer = "ok" /\ clReq[n].ask = "delete" => clBox'[clReq[n].box].on = "gone",
         answer = "ok" /\ clReq[n].ask = "list" => ids = Cl!OnDaemon(clReq[n].to)
  PROVE  ClientsInv'
<1>1. /\ clReq' \in [Slots -> ClReqRecords] /\ \A m \in Slots \ {n} : clReq'[m] = clReq[m]
      /\ ClRequestOk(clReq'[n]) /\ clReq'[n].by = clReq[n].by /\ clReq'[n].at \in {"free", "over"}
      /\ clReq'[n].by # Cl!Nobody => /\ clReq'[n].ask = clReq[n].ask /\ clReq'[n].box = clReq[n].box
                                     /\ clReq'[n].ids = ids
      /\ clReq'[n].answer = "ok" => clReq[n].by # Cl!Nobody /\ answer = "ok"
  BY DEF ClOverWith
<1>2. \A m \in Slots :
        /\ ClRequestOk(clReq'[m]) /\ clReq'[m].by = clReq[m].by
        /\ clReq'[m].by # Cl!Nobody => clReq'[m].ask = clReq[m].ask /\ clReq'[m].box = clReq[m].box
        /\ clReq'[m].answer = "ok" /\ clReq'[m].ask = "delete" => clBox'[clReq'[m].box].on = "gone"
  <2> SUFFICES ASSUME NEW m \in Slots
               PROVE  /\ ClRequestOk(clReq'[m]) /\ clReq'[m].by = clReq[m].by
                      /\ clReq'[m].by # Cl!Nobody => clReq'[m].ask = clReq[m].ask /\ clReq'[m].box = clReq[m].box
                      /\ clReq'[m].answer = "ok" /\ clReq'[m].ask = "delete" => clBox'[clReq'[m].box].on = "gone"
    OBVIOUS
  <2>1. CASE m = n
    BY <1>1, <2>1
  <2>2. CASE m # n
    <3>1. clReq'[m] = clReq[m] /\ clReq[m].box \in BoxIds /\ ClRequestOk(clReq[m])
      BY <1>1, <2>2 DEF ClientsInv, ClTypes, ClAnswering, ClReqRecords
    <3> QED BY <3>1 DEF ClientsInv, ClGone
  <2> QED BY <2>1, <2>2
<1>3. ASSUME NEW m \in Slots, NEW c \in Terminals, clReq'[m].by = c
      PROVE  /\ clReq[m].by = c
             /\ clClient'[c].cmd = "destroyAll" /\ clReq'[m].ask = "list" /\ clReq'[m].answer = "ok"
                  => clClient'[c].still \subseteq clReq'[m].ids
             /\ clClient'[c].still # {} =>
                  /\ clReq'[m].at = "handler" => clReq'[m].to = ClServedBy(clActive, clClient[c])
                  /\ clReq'[m].at = "router" => clActive = ClServedBy(clActive, clClient[c])
  <2>1. /\ clReq[m].by = c /\ ClPairOk(clClient[c], clReq[m]) /\ c # Cl!Nobody /\ clReq'[m].ask = clReq[m].ask
        /\ clClient'[c].still \subseteq clClient[c].still /\ clClient'[c].cmd = clClient[c].cmd
    BY <1>2, <1>3 DEF ClientsInv, ClPaired, Cl!ClientsAssumption, ClDimmed
  <2>2. CASE m = n
    <3>1. ASSUME clReq'[n].ask = "list", clReq'[n].answer = "ok"
          PROVE  clClient'[c].still \subseteq clReq'[n].ids
      <4>1. clReq'[n].ids = ClOn(clBox, clReq[n].to) /\ clActive \in Cl!Daemons
        <5>1. clReq'[n].ids = ids /\ ids = Cl!OnDaemon(clReq[n].to) /\ clActive \in Cl!Daemons
          BY <1>1, <2>1, <2>2, <3>1 DEF ClientsInv, ClTypes
        <5> QED BY <5>1, ClWhereServed
      <4>2. clClient[c].still # {} => clReq[n].to = ClServedBy(clActive, clClient[c])
        BY <2>1, <2>2 DEF ClientsInv, ClSent
      <4>3. clClient[c].still \subseteq ClOn(clBox, ClServedBy(clActive, clClient[c]))
        BY <2>1 DEF ClientsInv, ClCounted, ClPairOk
      <4> QED BY <2>1, <4>1, <4>2, <4>3
    <3> QED BY <1>1, <2>1, <2>2, <3>1
  <2>3. CASE m # n
    <3>1. clReq'[m] = clReq[m]
      BY <1>1, <2>3
    <3>2. clClient'[c].cmd = "destroyAll" /\ clReq'[m].ask = "list" /\ clReq'[m].answer = "ok"
            => clClient'[c].still \subseteq clReq'[m].ids
      BY <2>1, <3>1 DEF ClPairOk
    <3>3. clClient[c].still # {} =>
            /\ clReq[m].at = "handler" => clReq[m].to = ClServedBy(clActive, clClient[c])
            /\ clReq[m].at = "router" => clActive = ClServedBy(clActive, clClient[c])
      BY <2>1 DEF ClientsInv, ClSent
    <3> QED BY <2>1, <3>1, <3>2, <3>3
  <2> QED BY <2>2, <2>3
<1>4. clMishaps' \in 0..MaxMishaps
  BY DEF ClientsInv, ClTypes
<1>5. \A m \in Slots :
        /\ ClRequestOk(clReq'[m]) /\ clReq'[m].by \in {clReq[m].by, Cl!Nobody}
        /\ clReq'[m].by # Cl!Nobody => clReq'[m].ask = clReq[m].ask /\ clReq'[m].box = clReq[m].box
        /\ clReq'[m].answer = "ok" /\ clReq'[m].ask = "delete" => clBox'[clReq'[m].box].on = "gone"
  BY <1>2
<1>6. clReq' \in [Slots -> ClReqRecords]
  BY <1>1
<1> QED BY <1>3, <1>4, <1>5, <1>6, ClDaemonMoves

LEMMA ClHandleKeeps ==
  ASSUME Cl!ClientsAssumption, ClientsInv, NEW n \in Slots, Cl!Handle(n)
  PROVE  ClientsInv'
<1> DEFINE i == clReq[n].box
<1>1. /\ clReq[n] \in ClReqRecords /\ clReq[n].at = "handler" /\ i \in BoxIds /\ clReq[n].to \in Cl!Daemons
      /\ UNCHANGED <<clActive, clMishaps>>
  BY DEF Cl!Handle, ClientsInv, ClTypes, ClReqRecords
<1>2. /\ clBox \in [BoxIds -> ClBoxRecords] /\ clClient \in [Terminals -> ClientRecords]
      /\ \A c \in Terminals : ClDimmed(clClient[c], clClient[c])
  BY ClStillIsDimmed DEF ClientsInv, ClTypes
<1>3. {} \in SUBSET BoxIds
  OBVIOUS
<1>4. ASSUME UNCHANGED <<clBox, clClient>>, NEW answer \in {"ok", "error", "ended"}, NEW ids \in SUBSET BoxIds,
             ClOverWith(n, answer, ids), answer = "ok" => clReq[n].ask # "delete",
             answer = "ok" /\ clReq[n].ask = "list" => ids = Cl!OnDaemon(clReq[n].to)
      PROVE  ClientsInv'
  BY <1>1, <1>2, <1>4, ClHandlerMoves
<1>5. CASE /\ clReq[n].ask = "create"
           /\ \E new \in {x \in BoxIds : clBox[x].on = "new"} :
                clBox' = [clBox EXCEPT ![new].on = clReq[n].to, ![new].readable = TRUE]
           /\ Cl!Answered(n, "ok", TRUE, {}) /\ UNCHANGED clClient
  <2>1. PICK new \in BoxIds : /\ clBox[new].on = "new"
                              /\ clBox' = [clBox EXCEPT ![new].on = clReq[n].to, ![new].readable = TRUE]
    BY <1>5
  <2> DEFINE b == [clBox[new] EXCEPT !.on = clReq[n].to, !.readable = TRUE]
  <2>2. clBox' = [clBox EXCEPT ![new] = b]
    BY <1>2, <2>1
  <2>3. clBox[new] \in ClBoxRecords
    BY <1>2
  <2>4. b \in ClBoxRecords
    BY <1>1, <2>3 DEF ClBoxRecords
  <2> HIDE DEF b
  <2>5. /\ clBox' \in [BoxIds -> ClBoxRecords] /\ \A x \in BoxIds \ {new} : clBox'[x] = clBox[x]
    BY <1>2, <2>2, <2>4
  <2>6. \A x \in BoxIds : clBox[x].on \in Cl!Daemons \union {"gone"} => clBox'[x] = clBox[x]
    BY <2>1, <2>5 DEF Cl!Daemons, Cl!Here, Cl!There
  <2>7. ClOverWith(n, "ok", {})
    BY <1>1, <1>3, <1>5, ClAnsweredIs
  <2>8. \A c \in Terminals : \A x \in clClient'[c].still : x \in BoxIds
    BY <1>2, <1>5 DEF ClientRecords
  <2> QED BY <1>1, <1>2, <1>3, <1>5, <2>5, <2>6, <2>7, <2>8, ClHandlerMoves
<1>6. CASE /\ clReq[n].ask = "delete" /\ i \in Cl!OnDaemon(clReq[n].to)
           /\ clBox' = [clBox EXCEPT ![i] = [on |-> "gone", readable |-> FALSE, entry |-> FALSE]]
           /\ Cl!Answered(n, "ok", TRUE, {}) /\ Cl!DisturbAll({i})
  <2> DEFINE b == [on |-> "gone", readable |-> FALSE, entry |-> FALSE]
  <2>1. b \in ClBoxRecords /\ b.on = "gone" /\ clBox' = [clBox EXCEPT ![i] = b]
    BY <1>6 DEF ClBoxRecords
  <2> HIDE DEF b
  <2>2. clBox' \in [BoxIds -> ClBoxRecords] /\ clBox'[i] = b /\ \A x \in BoxIds \ {i} : clBox'[x] = clBox[x]
    BY <1>1, <1>2, <2>1
  <2>3. clClient' = [c \in Terminals |-> Cl!Disturbed(clClient[c], {i})]
    BY <1>6 DEF Cl!DisturbAll
  <2>4. \A c \in Terminals : ClDimmed(clClient'[c], clClient[c]) /\ clClient'[c].still = clClient[c].still \ {i}
    BY <1>2, <2>3, ClDisturbedIsDimmed
  <2>5. clClient' \in [Terminals -> ClientRecords]
    BY <2>3, <2>4 DEF ClDimmed
  <2>6. \A c \in Terminals : \A x \in clClient'[c].still : x \in BoxIds /\ clBox'[x] = clBox[x]
    BY <1>2, <2>2, <2>4 DEF ClientRecords
  <2>7. ClOverWith(n, "ok", {})
    BY <1>1, <1>3, <1>6, ClAnsweredIs
  <2>8. \A x \in BoxIds : clBox[x].on = "gone" => clBox'[x].on = "gone"
    BY <2>1, <2>2
  <2> QED BY <1>1, <1>3, <1>6, <2>1, <2>2, <2>4, <2>5, <2>6, <2>7, <2>8, ClHandlerMoves
<1>12. CASE /\ clReq[n].ask = "shell" /\ UNCHANGED <<clBox, clClient>>
            /\ \E effect \in BOOLEAN : Cl!Answered(n, "ended", effect, {})
  <2>1. PICK effect \in BOOLEAN : Cl!Answered(n, "ended", effect, {})
    BY <1>12
  <2>2. Cl!Answered(n, "ended", TRUE, {}) \/ Cl!Answered(n, "ended", FALSE, {})
    <3>1. effect = TRUE \/ effect = FALSE
      OBVIOUS
    <3> QED BY <2>1, <3>1
  <2>3. ClOverWith(n, "ended", {})
    BY <1>1, <1>3, <2>2, ClAnsweredIs
  <2> QED BY <1>3, <1>4, <1>12, <2>3
<1>7. CASE /\ clReq[n].ask \in {"exec", "change"}
           /\ clBox' = [clBox EXCEPT ![i].entry = @ \/ clReq[n].ask = "exec"]
           /\ \E answer \in {"ok", "error"} : Cl!Answered(n, answer, TRUE, {})
           /\ UNCHANGED clClient
  <2>1. PICK answer \in {"ok", "error"} : Cl!Answered(n, answer, TRUE, {})
    BY <1>7
  <2>2. clBox[i] \in ClBoxRecords
    BY <1>1, <1>2
  <2> DEFINE e == clBox[i].entry \/ clReq[n].ask = "exec"
             b == [clBox[i] EXCEPT !.entry = e]
  <2>3. clBox' = [clBox EXCEPT ![i] = b] /\ e \in BOOLEAN
    BY <1>1, <1>2, <1>7
  <2> HIDE DEF e
  <2>4. b \in ClBoxRecords /\ b.on = clBox[i].on /\ b.readable = clBox[i].readable
    BY <2>2, <2>3 DEF ClBoxRecords
  <2> HIDE DEF b
  <2>5. clBox' \in [BoxIds -> ClBoxRecords] /\ \A x \in BoxIds : clBox'[x].on = clBox[x].on /\ clBox'[x].readable = clBox[x].readable
    BY <1>1, <1>2, <2>3, <2>4
  <2>6. ClOverWith(n, answer, {})
    BY <1>1, <1>3, <2>1, ClAnsweredIs
  <2>7. \A c \in Terminals : \A x \in clClient'[c].still : x \in BoxIds
    BY <1>2, <1>7 DEF ClientRecords
  <2> QED BY <1>1, <1>2, <1>3, <1>7, <2>5, <2>6, <2>7, ClHandlerMoves
<1>8. CASE /\ clReq[n].ask = "list"
           /\ Cl!Answered(n, "ok", FALSE, Cl!Listed(clReq[n].to)) /\ UNCHANGED <<clBox, clClient>>
  <2> DEFINE ids == Cl!OnDaemon(clReq[n].to)
  <2>1. ids \in SUBSET BoxIds /\ Cl!Answered(n, "ok", FALSE, ids)
    BY <1>8 DEF Cl!OnDaemon, Cl!Listed
  <2> HIDE DEF ids
  <2>2. ClOverWith(n, "ok", ids)
    BY <1>1, <1>8, <2>1, ClAnsweredIs DEF Cl!Writes
  <2> QED BY <1>4, <1>8, <2>1, <2>2 DEF ids
<1>9. CASE /\ clReq[n].ask \in {"look", "logs", "text"} /\ UNCHANGED <<clBox, clClient>>
           /\ \E ids \in SUBSET BoxIds : Cl!Answered(n, "ok", FALSE, ids)
  <2>1. PICK ids \in SUBSET BoxIds : Cl!Answered(n, "ok", FALSE, ids)
    BY <1>9
  <2>2. ClOverWith(n, "ok", ids)
    BY <1>1, <1>9, <2>1, ClAnsweredIs DEF Cl!Writes
  <2> QED BY <1>4, <1>9, <2>2
<1>10. CASE Cl!Answered(n, "error", FALSE, {}) /\ UNCHANGED <<clBox, clClient>>
  <2>1. ClOverWith(n, "error", {})
    BY <1>1, <1>3, <1>10, ClAnsweredIs
  <2> QED BY <1>3, <1>4, <1>10, <2>1
<1>11. CASE /\ clReq[n].ask = "logs" /\ UNCHANGED <<clBox, clClient>>
            /\ Cl!Answered(n, "ok", FALSE, IF clBox[i].entry THEN {i} ELSE {})
  <2> DEFINE ids == IF clBox[i].entry THEN {i} ELSE {}
  <2>1. ids \in SUBSET BoxIds
    BY <1>1
  <2> HIDE DEF ids
  <2> QED BY <1>9, <1>11, <2>1 DEF ids
<1> QED BY <1>3, <1>5, <1>6, <1>7, <1>8, <1>9, <1>10, <1>11, <1>12 DEF Cl!Handle

LEMMA ClCrashKeeps ==
  ASSUME Cl!ClientsAssumption, ClientsInv, NEW d \in Cl!Daemons, Cl!Crash(d)
  PROVE  ClientsInv'
<1> DEFINE at == {n \in Slots : clReq[n].at \in {"router", "handler"} /\ clReq[n].to = d}
           write == {n \in at : clReq[n].at = "handler" /\ clReq[n].ask \in Cl!Writes}
           shells == {n \in write : clReq[n].ask = "shell"}
           said(n, B) == IF clReq[n].answer # "none" THEN clReq[n].answer
                      ELSE IF n \in B THEN "ended"
                      ELSE IF d = Cl!There /\ clReq[n].via # "http" THEN "text" ELSE "cut"
           over(n, B) == [clReq[n] EXCEPT !.at = "over", !.answer = said(n, B)]
<1>1. PICK torn \in SUBSET (Cl!OnDaemon(d) \intersect {clReq[n].box : n \in write}),
           upgraded \in SUBSET shells :
        /\ clBox' = [i \in BoxIds |-> [clBox[i] EXCEPT !.readable = @ /\ i \notin torn]]
        /\ clReq' = [n \in Slots |-> IF n \notin at THEN clReq[n]
                                     ELSE IF clReq[n].by = Cl!Nobody THEN Cl!Free ELSE over(n, upgraded)]
        /\ clClient' = [c \in Terminals |->
             Cl!Disturbed(clClient[c], IF \E n \in at : clReq[n].by = c THEN BoxIds ELSE torn)]
  BY DEF Cl!Crash
<1> HIDE DEF write, shells, said, over
<1>2. /\ clBox \in [BoxIds -> ClBoxRecords] /\ clClient \in [Terminals -> ClientRecords]
      /\ clReq \in [Slots -> ClReqRecords] /\ clActive' = clActive
  <2>1. clActive' = clActive
    BY Zenon DEF Cl!Crash
  <2> QED BY <2>1 DEF ClientsInv, ClTypes
<1>3. ASSUME NEW i \in BoxIds
      PROVE  /\ clBox'[i] \in ClBoxRecords /\ clBox'[i].on = clBox[i].on
             /\ i \notin torn => clBox'[i].readable = clBox[i].readable
  <2>1. clBox[i] \in ClBoxRecords /\ clBox[i].readable \in BOOLEAN
    BY <1>2 DEF ClBoxRecords
  <2> DEFINE e == clBox[i].readable /\ i \notin torn
  <2>2. clBox'[i] = [clBox[i] EXCEPT !.readable = e] /\ e \in BOOLEAN
    BY <1>1, <2>1
  <2>3. i \notin torn => e = clBox[i].readable
    BY <2>1
  <2> HIDE DEF e
  <2> QED BY <2>1, <2>2, <2>3 DEF ClBoxRecords
<1>4. clBox' \in [BoxIds -> ClBoxRecords]
  BY <1>1, <1>3
<1>5. \A c \in Terminals : /\ ClDimmed(clClient'[c], clClient[c]) /\ clClient'[c].still \subseteq BoxIds \ torn
                           /\ (\E n \in at : clReq[n].by = c) => clClient'[c].still = {}
  <2> SUFFICES ASSUME NEW c \in Terminals
               PROVE  /\ ClDimmed(clClient'[c], clClient[c]) /\ clClient'[c].still \subseteq BoxIds \ torn
                      /\ (\E n \in at : clReq[n].by = c) => clClient'[c].still = {}
    OBVIOUS
  <2>1. clClient[c] \in ClientRecords /\ clClient[c].still \subseteq BoxIds
    BY <1>2 DEF ClientRecords
  <2> DEFINE B == IF \E n \in at : clReq[n].by = c THEN BoxIds ELSE torn
  <2>2. clClient'[c] = Cl!Disturbed(clClient[c], B)
    BY <1>1
  <2>3. torn \subseteq BoxIds
    BY DEF Cl!OnDaemon
  <2>4. torn \subseteq B
    BY <2>3
  <2>5. ClDimmed(clClient'[c], clClient[c]) /\ clClient'[c].still = clClient[c].still \ B
    BY <2>1, <2>2, ClDisturbedIsDimmed
  <2> QED BY <2>1, <2>4, <2>5
<1>6. clClient' \in [Terminals -> ClientRecords]
  BY <1>1, <1>5 DEF ClDimmed
<1>7. ASSUME NEW n \in Slots
      PROVE  /\ clReq'[n] \in ClReqRecords /\ ClRequestOk(clReq'[n])
             /\ clReq'[n].by \in {clReq[n].by, Cl!Nobody}
             /\ clReq'[n].by # Cl!Nobody => /\ clReq'[n].ask = clReq[n].ask /\ clReq'[n].box = clReq[n].box
             /\ clReq'[n].answer = "ok" => clReq'[n] = clReq[n]
             /\ clReq'[n].by # Cl!Nobody /\ n \notin at => clReq'[n] = clReq[n]
  <2>1. clReq[n] \in ClReqRecords /\ ClRequestOk(clReq[n])
    BY DEF ClientsInv, ClTypes, ClAnswering
  <2>2. CASE n \notin at
    BY <1>1, <2>1, <2>2
  <2>3. CASE n \in at /\ clReq[n].by = Cl!Nobody
    <3>1. clReq'[n] = Cl!Free
      BY <1>1, <2>3
    <3> QED BY <2>3, <3>1, ClNoClient DEF Cl!Free
  <2>4. CASE n \in at /\ clReq[n].by # Cl!Nobody
    <3>1. said(n, upgraded) \in Cl!Answers /\ said(n, upgraded) # "ok"
      BY <2>1, <2>4 DEF ClReqRecords, Cl!Answers, ClRequestOk, said
    <3> DEFINE s == said(n, upgraded)
               r == [clReq[n] EXCEPT !.at = "over", !.answer = s]
    <3>2. clReq'[n] = r
      <4>1. clReq'[n] = over(n, upgraded)
        BY <1>1, <2>4
      <4> QED BY <4>1 DEF over
    <3> HIDE DEF s
    <3>3. /\ r \in ClReqRecords /\ r.at = "over" /\ r.answer # "ok" /\ r.by = clReq[n].by
          /\ r.ask = clReq[n].ask /\ r.box = clReq[n].box
      BY <2>1, <3>1 DEF ClReqRecords, s
    <3> HIDE DEF r
    <3> QED BY <2>4, <3>2, <3>3 DEF ClRequestOk
  <2> QED BY <2>2, <2>3, <2>4
<1>8. clReq' \in [Slots -> ClReqRecords]
  BY <1>1, <1>7
<1>9. ASSUME NEW n \in Slots, NEW c \in Terminals, clReq'[n].by = c
      PROVE  /\ clReq[n].by = c
             /\ clClient'[c].cmd = "destroyAll" /\ clReq'[n].ask = "list" /\ clReq'[n].answer = "ok"
                  => clClient'[c].still \subseteq clReq'[n].ids
             /\ clClient'[c].still # {} =>
                  /\ clReq'[n].at = "handler" => clReq'[n].to = ClServedBy(clActive, clClient[c])
                  /\ clReq'[n].at = "router" => clActive = ClServedBy(clActive, clClient[c])
  <2>1. /\ c # Cl!Nobody /\ clReq[n].by = c /\ ClPairOk(clClient[c], clReq[n])
        /\ clClient'[c].still \subseteq clClient[c].still /\ clClient'[c].cmd = clClient[c].cmd
    BY <1>5, <1>7, <1>9 DEF Cl!ClientsAssumption, ClientsInv, ClPaired, ClDimmed
  <2>2. CASE n \in at
    <3>1. clClient'[c].still = {}
      BY <1>5, <2>1, <2>2
    <3> QED BY <2>1, <3>1
  <2>3. CASE n \notin at
    <3>1. clReq'[n] = clReq[n]
      BY <1>7, <1>9, <2>1, <2>3
    <3>2. clClient[c].still # {} =>
            /\ clReq[n].at = "handler" => clReq[n].to = ClServedBy(clActive, clClient[c])
            /\ clReq[n].at = "router" => clActive = ClServedBy(clActive, clClient[c])
      BY <2>1 DEF ClientsInv, ClSent
    <3> QED BY <2>1, <3>1, <3>2 DEF ClPairOk
  <2> QED BY <2>2, <2>3
<1> HIDE DEF at
<1>10. \A n \in Slots :
        /\ ClRequestOk(clReq'[n]) /\ clReq'[n].by \in {clReq[n].by, Cl!Nobody}
        /\ clReq'[n].by # Cl!Nobody => clReq'[n].ask = clReq[n].ask /\ clReq'[n].box = clReq[n].box
        /\ clReq'[n].answer = "ok" /\ clReq'[n].ask = "delete" => clBox'[clReq'[n].box].on = "gone"
  <2> SUFFICES ASSUME NEW n \in Slots, clReq'[n].answer = "ok", clReq'[n].ask = "delete"
               PROVE  clBox'[clReq'[n].box].on = "gone"
    BY <1>7
  <2>1. clReq'[n] = clReq[n] /\ clReq[n].box \in BoxIds
    BY <1>2, <1>7 DEF ClReqRecords
  <2> QED BY <1>3, <2>1 DEF ClientsInv, ClGone
<1>11. clMishaps' \in 0..MaxMishaps
  <2>1. Cl!Mishap
    BY Zenon DEF Cl!Crash
  <2> QED BY <2>1 DEF Cl!Mishap, ClientsInv, ClTypes, Cl!ClientsAssumption
<1>12. /\ \A i \in BoxIds : clBox[i].on = "gone" => clBox'[i].on = "gone"
       /\ \A c \in Terminals : \A i \in clClient'[c].still :
            clBox[i].on \in Cl!Daemons /\ clBox[i].readable => clBox'[i].on = clBox[i].on /\ clBox'[i].readable
  BY <1>3, <1>5
<1>13. \A c \in Terminals : ClDimmed(clClient'[c], clClient[c])
  BY <1>5
<1> QED BY <1>2, <1>4, <1>6, <1>8, <1>9, <1>10, <1>11, <1>12, <1>13, ClDaemonMoves

LEMMA ClUseKeeps ==
  ASSUME Cl!ClientsAssumption, ClientsInv, NEW d \in Cl!Daemons, Cl!Use(d)
  PROVE  ClientsInv'
<1>1. /\ clActive' = d /\ UNCHANGED <<clBox, clReq>> /\ clClient \in [Terminals -> ClientRecords]
      /\ clClient' = [c \in Terminals |-> Cl!Disturbed(clClient[c], BoxIds)]
  BY DEF Cl!Use, Cl!DisturbAll, ClientsInv, ClTypes
<1>2. ASSUME NEW c \in Terminals
      PROVE  /\ ClDimmed(clClient'[c], clClient[c]) /\ clClient'[c].still = {}
             /\ clClient'[c] \in ClientRecords /\ ClientOk(clClient'[c])
             /\ \A r : ClPairOk(clClient[c], r) => ClPairOk(clClient'[c], r)
             /\ clClient'[c].destroyed = clClient[c].destroyed
  <2>1. clClient[c] \in ClientRecords /\ clClient[c].still \subseteq BoxIds /\ ClientOk(clClient[c])
    BY DEF ClientsInv, ClTypes, ClSteady, ClientRecords
  <2>2. ClDimmed(clClient'[c], clClient[c]) /\ clClient'[c].still = clClient[c].still \ BoxIds
    BY <1>1, <2>1, ClDisturbedIsDimmed
  <2> QED BY <2>1, <2>2, ClDimmedIsOk DEF ClDimmed
<1>3. clMishaps' \in 0..MaxMishaps
  BY DEF Cl!Use, Cl!Mishap, ClientsInv, ClTypes, Cl!ClientsAssumption
<1>4. clClient' \in [Terminals -> ClientRecords]
  BY <1>1, <1>2
<1>5. ClTypes' /\ ClSteady' /\ ClAnswering' /\ ClAlone'
  BY <1>1, <1>2, <1>3, <1>4 DEF ClientsInv, ClTypes, ClSteady, ClAnswering, ClAlone
<1>6. ClPaired' /\ ClCounted' /\ ClSent'
  BY <1>1, <1>2 DEF ClientsInv, ClPaired, ClCounted, ClSent
<1>7. ClGone'
  BY <1>1, <1>2 DEF ClientsInv, ClGone
<1> QED BY <1>5, <1>6, <1>7 DEF ClientsInv

-----------------------------------------------------------------------------
LEMMA ClientsInvariance == ASSUME Cl!ClientsAssumption PROVE Cl!Spec => []ClientsInv
<1>1. Cl!Init => ClientsInv
  <2> SUFFICES ASSUME Cl!Init PROVE ClientsInv
    OBVIOUS
  <2>1. /\ \A c \in Terminals : clClient[c] = Cl!Idle
        /\ \A n \in Slots : clReq[n] = Cl!Free
    BY DEF Cl!Init
  <2>2. /\ Cl!Idle.at = "idle" /\ Cl!Idle.still = {} /\ Cl!Idle.destroyed = {}
        /\ Cl!Free.by = Cl!Nobody /\ Cl!Free.answer = "none"
    BY DEF Cl!Idle, Cl!Free
  <2>3. clBox \in [BoxIds -> ClBoxRecords]
    <3>1. \A i \in BoxIds : BoxStates[i] \in Cl!Daemons \union {"new"}
      BY DEF Cl!ClientsAssumption
    <3> QED BY <3>1 DEF Cl!Init, ClBoxRecords
  <2>4. ClTypes
    BY <2>3, ClNoClient DEF Cl!Init, ClTypes, Cl!ClientsAssumption
  <2>5. ClSteady /\ ClAnswering /\ ClCounted /\ ClGone
    BY <2>1, <2>2, ClNoClient DEF ClSteady, ClAnswering, ClCounted, ClGone
  <2>6. ClPaired /\ ClAlone /\ ClSent
    BY <2>1, <2>2 DEF ClPaired, ClAlone, ClSent, Cl!ClientsAssumption
  <2> QED BY <2>4, <2>5, <2>6 DEF ClientsInv
<1>2. ClientsInv /\ [Cl!Next]_(Cl!vars) => ClientsInv'
  <2> SUFFICES ASSUME ClientsInv, [Cl!Next]_(Cl!vars) PROVE ClientsInv'
    OBVIOUS
  <2>1. CASE UNCHANGED Cl!vars
    BY <2>1 DEF Cl!vars, ClientsInv, ClTypes, ClSteady, ClAnswering, ClPaired, ClAlone, ClCounted,
       ClSent, ClGone, ClOn, ClServedBy
  <2> QED BY <2>1, ClCommandsKeep, ClCallKeeps, ClReceiveKeeps, ClGiveUpKeeps, ClDestroyNextKeeps,
             ClReturnKeeps, ClRouteKeeps, ClProxyFailsKeeps, ClHandleKeeps, ClUseKeeps, ClCrashKeeps
             DEF Cl!Next
<1> QED BY <1>1, <1>2, PTL DEF Cl!Spec

LEMMA ClKeepsTypes == ASSUME Cl!ClientsAssumption PROVE Cl!Spec => []Cl!TypeOK
<1>1. ClientsInv => Cl!TypeOK
  BY DEF ClientsInv, ClTypes, Cl!TypeOK, ClientRecords, ClReqRecords, ClBoxRecords
<1> QED BY <1>1, ClientsInvariance, PTL

-----------------------------------------------------------------------------
(* What holds of the commands beside the other parts.                       *)

LEMMA ClIsAPart == Spec => Cl!Spec
<1>1. Init => Cl!Init
  BY DEF Init
<1>2. [Next]_vars => [Cl!Next]_(Cl!vars)
  BY DEF Next, vars, cl, Cl!vars
<1> QED BY <1>1, <1>2, PTL DEF Spec, Cl!Spec

LEMMA ClHolds == Spec => []ClientsInv /\ [][Cl!Next]_(Cl!vars)
<1>1. Cl!ClientsAssumption
  BY PartsAssumption DEF PartsAssumption
<1> QED BY <1>1, ClIsAPart, ClientsInvariance, PTL DEF Cl!Spec

\* However its request went - sent on, given up, its daemon dead - what a
\* command or a tool call reports as done was done (callAPI, doJSON).
THEOREM AlwaysReportedIsDone == Spec => []ReportedIsDone
<1>1. ClientsInv => Cl!ReportedIsDone
  <2> SUFFICES ASSUME ClientsInv, NEW c \in Terminals
               PROVE  /\ clClient[c].at = "done" /\ clClient[c].ok /\ clClient[c].cmd \in ClEffective
                           => clClient[c].effect
                      /\ \A i \in clClient[c].destroyed : clBox[i].on = "gone"
    BY DEF Cl!ReportedIsDone, ClEffective
  <2> QED BY DEF ClientsInv, ClSteady, ClientOk, ClGone
<1> QED BY <1>1, ClHolds, PTL DEF ReportedIsDone

\* `destroy --all` that warns of nothing has left none of the sandboxes that
\* were there to be deleted all the time (runDestroyAll).
THEOREM AllAreAlwaysDestroyed == Spec => []AllAreDestroyed
<1>1. ClientsInv => Cl!AllAreDestroyed
  BY DEF ClientsInv, ClSteady, ClientOk, Cl!AllAreDestroyed
<1> QED BY <1>1, ClHolds, PTL DEF AllAreDestroyed
===============================================================================
