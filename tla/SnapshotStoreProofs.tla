------------------------- MODULE SnapshotStoreProofs -------------------------
(***************************************************************************)
(* Proofs about SnapshotStore, for every workspace, name and request.      *)
(***************************************************************************)
EXTENDS SnapshotStore, FiniteSetTheorems, TLAPS

(* Trees.                                                                  *)

LEMMA EmptyIsTree == EmptyTree \in Trees /\ DOMAIN EmptyTree = {}
<1>1. EmptyTree \in [{} -> Bytes \union {Cut}] /\ DOMAIN EmptyTree = {}
  BY DEF EmptyTree
<1> QED BY <1>1 DEF Trees

LEMMA TreeShape ==
  ASSUME NEW tree \in Trees
  PROVE  DOMAIN tree \subseteq Files /\ tree \in [DOMAIN tree -> Bytes \union {Cut}]
BY DEF Trees

LEMMA TreeFrom ==
  ASSUME NEW F \in SUBSET Files, NEW tree \in [F -> Bytes \union {Cut}]
  PROVE  tree \in Trees
BY DEF Trees

\* Two functions that agree on one domain are one.
LEMMA SameTree ==
  ASSUME NEW t \in Trees, NEW u \in Trees, DOMAIN t = DOMAIN u,
         \A f \in DOMAIN t : t[f] = u[f]
  PROVE  t = u
BY TreeShape

LEMMA OverTree ==
  ASSUME NEW new \in Trees, NEW old \in Trees
  PROVE  Over(new, old) \in Trees
<1>1. Over(new, old) \in [DOMAIN new \union DOMAIN old -> Bytes \union {Cut}]
  BY TreeShape DEF Over
<1> QED BY <1>1, TreeShape, TreeFrom

LEMMA WithTree ==
  ASSUME NEW tree \in Trees, NEW f \in Files, NEW b \in Bytes \union {Cut}
  PROVE  /\ With(tree, f, b) \in Trees
         /\ DOMAIN With(tree, f, b) = DOMAIN tree \union {f}
         /\ With(tree, f, b)[f] = b
         /\ \A g \in DOMAIN tree \ {f} : With(tree, f, b)[g] = tree[g]
<1> DEFINE one == [g \in {f} |-> b]
<1>1. one \in Trees /\ DOMAIN one = {f} /\ one[f] = b
  BY TreeFrom
<1> QED BY <1>1, OverTree DEF With, Over

LEMMA WithoutTree ==
  ASSUME NEW tree \in Trees, NEW f
  PROVE  [g \in DOMAIN tree \ {f} |-> tree[g]] \in Trees
BY TreeShape, TreeFrom

LEMMA DigestOf == ASSUME NEW tree \in Trees PROVE DirHash(tree) \in Digests
BY DEF Digests

\* A copy in progress has a next file.
LEMMA LeastFile ==
  ASSUME NEW todo \in SUBSET Files, todo # {}
  PROVE  (CHOOSE f \in todo : \A g \in todo : f <= g) \in todo
<1>1. todo \subseteq Nat /\ IsFiniteSet(todo)
  <2>1. NumFiles \in Int /\ 1 \in Int
    BY SnapshotAssumption
  <2>2. IsFiniteSet(Files)
    BY <2>1, FS_Interval DEF Files
  <2>3. todo \subseteq Nat
    BY SnapshotAssumption DEF Files
  <2> QED BY <2>2, <2>3, FS_Subset
<1> DEFINE Below(f) == {g \in todo : g <= f}
           Segments == {Below(f) : f \in todo}
           R == StrictSubsetOrdering(todo)
<1>2. Segments \subseteq SUBSET todo /\ Segments # {}
  OBVIOUS
<1>3. IsWellFoundedOn(R, SUBSET todo)
  BY <1>1, FS_FiniteSubsetsOfFinite, FS_StrictSubsetOrderingWellFounded
<1>4. PICK x \in Segments : \A y \in Segments : ~ (<<y, x>> \in R)
  <2> HIDE DEF Segments, R
  <2> QED BY <1>2, <1>3, WFMin
<1>5. PICK f \in todo : x = Below(f)
  OBVIOUS
<1>6. ASSUME NEW g \in todo, ~(f <= g) PROVE FALSE
  <2>1. Below(g) \subseteq Below(f) /\ f \notin Below(g) /\ f \in Below(f)
    <3>1. f \in Nat /\ g \in Nat /\ ~(f <= g)
      BY <1>1, <1>6
    <3>2. \A h \in todo : h <= g => h <= f
      BY <1>1, <3>1
    <3>3. f <= f
      BY <3>1
    <3> HIDE DEF R, Segments
    <3>4. Below(g) \subseteq Below(f)
      BY <3>2
    <3>5. f \notin Below(g) /\ f \in Below(f)
      BY <3>1, <3>3
    <3> QED BY <3>4, <3>5
  <2>2. <<Below(g), Below(f)>> \in R
    BY <2>1 DEF StrictSubsetOrdering
  <2> QED BY <1>4, <1>5, <2>2
<1>7. \E h \in todo : \A g \in todo : h <= g
  BY <1>6
<1> QED BY <1>7

-----------------------------------------------------------------------------
(* Types.                                                                  *)

\* A copy in progress has files of its tree left.
CopyShape == \A q \in Requests : req[q].at \in Copying =>
               req[q].todo # {} /\ req[q].todo \subseteq DOMAIN req[q].tree

Typed == TypeOK /\ CopyShape

ReqType == [at : {"idle", "look", "move", "point", "clear", "put"} \union Copying,
            box : Sandboxes, name : Names, tree : Trees, todo : SUBSET Files]

LEMMA IdleType == Idle \in ReqType /\ Idle.at = "idle"
<1>1. (CHOOSE s \in Sandboxes : TRUE) \in Sandboxes /\ (CHOOSE n \in Names : TRUE) \in Names
  BY SnapshotAssumption
<1> QED BY <1>1, EmptyIsTree DEF Idle, ReqType

LEMMA NextFileOK ==
  ASSUME Typed, NEW q \in Requests, req[q].at \in Copying
  PROVE  /\ NextFile(q) \in req[q].todo
         /\ NextFile(q) \in Files
         /\ NextFile(q) \in DOMAIN req[q].tree
         /\ req[q].tree[NextFile(q)] \in Bytes \union {Cut}
<1>1. req[q].todo \in SUBSET Files /\ req[q].todo # {} /\ req[q].tree \in Trees
  BY DEF Typed, TypeOK, CopyShape
<1>2. NextFile(q) \in req[q].todo
  BY <1>1, LeastFile DEF NextFile
<1> QED BY <1>1, <1>2, TreeShape DEF Typed, CopyShape

\* What a request may become without losing its type.
LEMMA ReqStep ==
  ASSUME Typed, NEW q \in Requests, NEW new \in ReqType,
         new.at \in Copying => new.todo # {} /\ new.todo \subseteq DOMAIN new.tree,
         req' = [req EXCEPT ![q] = new]
  PROVE  req' \in [Requests -> ReqType] /\ CopyShape'
BY DEF Typed, TypeOK, CopyShape, ReqType

LEMMA GotoStep ==
  ASSUME Typed, NEW q \in Requests,
         NEW step \in {"idle", "look", "move", "point", "clear", "put"}, Goto(q, step)
  PROVE  req' \in [Requests -> ReqType] /\ CopyShape'
<1> DEFINE new == [req[q] EXCEPT !.at = step]
<1>1. req \in [Requests -> ReqType]
  BY DEF Typed, TypeOK, ReqType
<1>2. new \in ReqType /\ new.at \notin Copying
  BY <1>1 DEF ReqType, Copying
<1>3. req' = [req EXCEPT ![q] = new]
  BY DEF Goto
<1> HIDE DEF new
<1> QED BY <1>2, <1>3, ReqStep

LEMMA ReplyStep ==
  ASSUME Typed, NEW q \in Requests, Reply(q)
  PROVE  req' \in [Requests -> ReqType] /\ CopyShape'
BY IdleType, ReqStep DEF Reply, Copying

LEMMA CountUp ==
  ASSUME NEW n \in Nat, NEW k \in 0..n, k < n PROVE k + 1 \in 0..n
OBVIOUS

LEMMA TypeStep == ASSUME Typed, [Next]_vars PROVE Typed'
<1> USE SnapshotAssumption DEF boxes, pins, cas, bounds
<1>0. /\ workspace \in [Sandboxes -> Trees] /\ taken \in [Sandboxes \X Names -> Trees]
      /\ content \in [Digests -> Trees] /\ req \in [Requests -> ReqType]
      /\ \A q \in Requests : /\ req[q] \in ReqType /\ req[q].tree \in Trees
                             /\ Pointer(q) \in Sandboxes \X Names /\ Digest(q) \in Digests
  BY DigestOf DEF Typed, TypeOK, ReqType, Pointer, Digest
<1>00. \A p \in Sandboxes \X Names : Holds(p) \in Digests
  BY <1>0, DigestOf DEF Holds
<1>1. ASSUME NEW s \in Sandboxes, Work(s) \/ DeleteSandbox(s) PROVE Typed'
  <2>1. CASE Work(s)
    <3>1. PICK tree \in Trees : workspace' = [workspace EXCEPT ![s] = tree]
      BY <2>1, DraftsAssumption DEF Work
    <3> QED BY <2>1, <3>1 DEF Work, Typed, TypeOK, CopyShape
  <2>2. CASE DeleteSandbox(s)
    BY <2>2, EmptyIsTree DEF DeleteSandbox, Typed, TypeOK, CopyShape
  <2> QED BY <1>1, <2>1, <2>2
<1>2. ASSUME NEW s \in Sandboxes, NEW n \in Names, DeleteSnapshot(s, n) PROVE Typed'
  BY <1>2, EmptyIsTree DEF DeleteSnapshot, Typed, TypeOK, CopyShape
<1>3. ASSUME NEW s \in Sandboxes, NEW n \in Names, NEW q \in Requests, Stage(q, s, n)
      PROVE  Typed'
  <2> DEFINE new == [at |-> "look", box |-> s, name |-> n, tree |-> workspace[s], todo |-> {}]
  <2>1. new \in ReqType /\ new.at \notin Copying
    BY <1>0 DEF ReqType, Copying
  <2>2. req' = [req EXCEPT ![q] = new]
    BY <1>3 DEF Stage
  <2>3. req' \in [Requests -> ReqType] /\ CopyShape'
    <3> HIDE DEF new
    <3> QED BY <2>1, <2>2, ReqStep
  <2>4. staged' \in 0..MaxTaken
    BY <1>3, CountUp DEF Stage, Typed, TypeOK
  <2> QED BY <1>3, <2>3, <2>4 DEF Stage, Typed, TypeOK, ReqType
<1>4. ASSUME NEW s \in Sandboxes, NEW n \in Names, NEW q \in Requests, Fetch(q, s, n)
      PROVE  Typed'
  <2> DEFINE new == [at |-> "clear", box |-> s, name |-> n,
                     tree |-> content[Holds(<<s, n>>)], todo |-> {}]
  <2>1. content[Holds(<<s, n>>)] \in Trees
    BY <1>0, <1>00
  <2>2. new \in ReqType /\ new.at \notin Copying
    BY <2>1 DEF ReqType, Copying
  <2>3. req' = [req EXCEPT ![q] = new]
    BY <1>4 DEF Fetch
  <2>4. req' \in [Requests -> ReqType] /\ CopyShape'
    <3> HIDE DEF new
    <3> QED BY <2>2, <2>3, ReqStep
  <2> QED BY <1>4, <2>4 DEF Fetch, Typed, TypeOK, ReqType
<1>5. ASSUME NEW q \in Requests, Look(q) PROVE Typed'
  <2>1. req' \in [Requests -> ReqType] /\ CopyShape'
    BY <1>5, GotoStep DEF Look
  <2> QED BY <1>5, <2>1 DEF Look, Typed, TypeOK, ReqType
<1>6. ASSUME NEW q \in Requests, Rename(q) PROVE Typed'
  <2>1. req' \in [Requests -> ReqType] /\ CopyShape'
    BY <1>6, GotoStep DEF Rename
  <2>2. disturbed' \subseteq Digests
    BY <1>0, <1>6 DEF Rename, Disturb, Typed, TypeOK
  <2>3. content' \in [Digests -> Trees] /\ stored' \subseteq Digests
    BY <1>0, <1>6 DEF Rename, Typed, TypeOK
  <2>4. \A d \in Digests \ stored' : content'[d] = EmptyTree
    BY <1>0, <1>6 DEF Rename, Typed, TypeOK
  <2> QED BY <1>6, <2>1, <2>2, <2>3, <2>4 DEF Rename, Typed, TypeOK, ReqType
<1>7. ASSUME NEW q \in Requests, StartCopy(q) PROVE Typed'
  <2> DEFINE step == IF req[q].tree = EmptyTree THEN "point" ELSE "copy"
             new == [req[q] EXCEPT !.at = step, !.todo = DOMAIN req[q].tree]
  <2>1. new \in ReqType
    BY <1>0, TreeShape DEF ReqType, Copying
  <2>2. new.at \in Copying => new.todo # {} /\ new.todo \subseteq DOMAIN new.tree
    <3>1. DOMAIN req[q].tree = {} => req[q].tree = EmptyTree
      BY <1>0, EmptyIsTree, SameTree
    <3> QED BY <1>0, <3>1 DEF ReqType, Copying
  <2>3. req' = [req EXCEPT ![q] = new]
    BY <1>0, <1>7 DEF StartCopy, ReqType
  <2>4. req' \in [Requests -> ReqType] /\ CopyShape'
    <3> HIDE DEF new
    <3> QED BY <2>1, <2>2, <2>3, ReqStep
  <2>5. disturbed' \subseteq Digests /\ stored' \subseteq Digests
    BY <1>0, <1>7 DEF StartCopy, Disturb, Typed, TypeOK
  <2> QED BY <1>7, <2>4, <2>5 DEF StartCopy, Typed, TypeOK, ReqType
<1>8. ASSUME NEW q \in Requests, CopyFile(q) PROVE Typed'
  <2>1. CASE Digest(q) \in stored
    <3>1. req[q].at \in Copying
      BY <1>8 DEF CopyFile, Copying
    <3> DEFINE tree == With(content[Digest(q)], NextFile(q), Cut)
    <3>2. tree \in Trees
      BY <1>0, <3>1, NextFileOK, WithTree
    <3>3. content' = [content EXCEPT ![Digest(q)] = tree] /\ Goto(q, "fill")
      BY <1>8, <2>1 DEF CopyFile
    <3>4. content' \in [Digests -> Trees] /\ \A d \in Digests \ stored : content'[d] = EmptyTree
      <4> HIDE DEF tree
      <4> QED BY <1>0, <2>1, <3>2, <3>3 DEF Typed, TypeOK
    <3> DEFINE new == [req[q] EXCEPT !.at = "fill"]
    <3>5. new \in ReqType /\ new.todo # {} /\ new.todo \subseteq DOMAIN new.tree
      BY <1>0, <3>1 DEF ReqType, Copying, Typed, CopyShape
    <3>6. req' = [req EXCEPT ![q] = new]
      BY <3>3 DEF Goto
    <3>7. req' \in [Requests -> ReqType] /\ CopyShape'
      <4> HIDE DEF new
      <4> QED BY <3>5, <3>6, ReqStep
    <3> QED BY <1>8, <3>4, <3>7 DEF CopyFile, Typed, TypeOK, ReqType
  <2>2. CASE Digest(q) \notin stored
    <3>1. req' \in [Requests -> ReqType] /\ CopyShape'
      BY <1>8, <2>2, ReplyStep DEF CopyFile
    <3> QED BY <1>8, <2>2, <3>1 DEF CopyFile, Typed, TypeOK, ReqType
  <2> QED BY <2>1, <2>2
<1>9. ASSUME NEW q \in Requests, FillFile(q) PROVE Typed'
  <2> DEFINE f == NextFile(q)
             d == Digest(q)
             left == req[q].todo \ {f}
             tree == With(content[d], f, req[q].tree[f])
             step == IF left = {} THEN "point" ELSE "copy"
             new == [req[q] EXCEPT !.at = step, !.todo = left]
  <2>1. req[q].at \in Copying
    BY <1>9 DEF FillFile, Copying
  <2>2. tree \in Trees
    BY <1>0, <2>1, NextFileOK, WithTree
  <2>3. content' = IF f \in DOMAIN content[d] THEN [content EXCEPT ![d] = tree] ELSE content
    BY <1>9 DEF FillFile
  <2>4. d \in stored \/ f \notin DOMAIN content[d]
    BY <1>0, EmptyIsTree DEF Typed, TypeOK
  <2>5. /\ content' \in [Digests -> Trees]
        /\ \A e \in Digests \ stored : content'[e] = EmptyTree
    <3> HIDE DEF f, d, tree
    <3>1. d \in Digests
      BY <1>0 DEF d
    <3> QED BY <1>0, <2>2, <2>3, <2>4, <3>1 DEF Typed, TypeOK
  <2>6. new \in ReqType
    BY <1>0 DEF ReqType, Copying
  <2>7. new.at \in Copying => new.todo # {} /\ new.todo \subseteq DOMAIN new.tree
    BY <1>0, <2>1 DEF ReqType, Copying, Typed, CopyShape
  <2>8. req' = [req EXCEPT ![q] = new]
    BY <1>0, <1>9 DEF FillFile, ReqType
  <2>9. req' \in [Requests -> ReqType] /\ CopyShape'
    <3> HIDE DEF new
    <3> QED BY <2>6, <2>7, <2>8, ReqStep
  <2> QED BY <1>9, <2>5, <2>9 DEF FillFile, Typed, TypeOK, ReqType
<1>10. ASSUME NEW q \in Requests, CopyFails(q) PROVE Typed'
  <2>1. req' \in [Requests -> ReqType] /\ CopyShape'
    BY <1>10, ReplyStep DEF CopyFails
  <2>2. crashes' \in 0..MaxCrashes
    BY <1>10, CountUp DEF CopyFails, Typed, TypeOK
  <2> QED BY <1>0, <1>10, <2>1, <2>2 DEF CopyFails, Typed, TypeOK, ReqType
<1>11. ASSUME NEW q \in Requests, Point(q) PROVE Typed'
  <2>1. req' \in [Requests -> ReqType] /\ CopyShape'
    BY <1>11, ReplyStep DEF Point
  <2> QED BY <1>0, <1>11, <2>1 DEF Point, Typed, TypeOK, ReqType
<1>12. ASSUME NEW q \in Requests, Clear(q) PROVE Typed'
  <2>1. req' \in [Requests -> ReqType] /\ CopyShape'
    BY <1>12, ReplyStep, GotoStep DEF Clear
  <2>2. workspace' \in [Sandboxes -> Trees]
    BY <1>0, <1>12, EmptyIsTree DEF Clear
  <2> QED BY <1>12, <2>1, <2>2 DEF Clear, Typed, TypeOK, ReqType
<1>13. ASSUME NEW q \in Requests, Put(q) PROVE Typed'
  <2>1. req' \in [Requests -> ReqType] /\ CopyShape'
    BY <1>13, ReplyStep DEF Put
  <2>2. req[q].box \in Sandboxes
    BY <1>0 DEF ReqType
  <2>3. Over(req[q].tree, workspace[req[q].box]) \in Trees
    BY <1>0, <2>2, OverTree
  <2>4. workspace' \in [Sandboxes -> Trees]
    BY <1>0, <1>13, <2>2, <2>3 DEF Put
  <2> QED BY <1>13, <2>1, <2>4 DEF Put, Typed, TypeOK, ReqType
<1>14. CASE Scan
  <2>1. prune'.refs \subseteq Digests
    BY <1>00, <1>14 DEF Scan
  <2> QED BY <1>14, <2>1 DEF Scan, Typed, TypeOK, CopyShape
<1>15. ASSUME NEW d \in Digests, List(d) PROVE Typed'
  BY <1>15 DEF List, Typed, TypeOK, CopyShape
<1>16. CASE EndPrune
  BY <1>16 DEF EndPrune, NoPrune, Typed, TypeOK, CopyShape
<1>17. CASE PruneFails
  <2>1. crashes' \in 0..MaxCrashes
    BY <1>17, CountUp DEF PruneFails, Typed, TypeOK
  <2> QED BY <1>17, <2>1 DEF PruneFails, NoPrune, Typed, TypeOK, CopyShape
<1>18. ASSUME NEW d \in Digests, Sweep(d) PROVE Typed'
  <2>1. disturbed' \subseteq Digests
    BY <1>18 DEF Sweep, Typed, TypeOK
  <2>2. CASE UNCHANGED <<stored, prune>>
    <3>1. PICK f \in DOMAIN content[d] :
            content' = [content EXCEPT ![d] = [g \in DOMAIN content[d] \ {f} |-> content[d][g]]]
      BY <1>18, <2>2 DEF Sweep, Typed, TypeOK
    <3>2. d \in stored
      BY EmptyIsTree DEF Typed, TypeOK
    <3>3. [g \in DOMAIN content[d] \ {f} |-> content[d][g]] \in Trees
      BY <1>0, WithoutTree
    <3>4. content' \in [Digests -> Trees] /\ \A e \in Digests \ stored : content'[e] = EmptyTree
      BY <1>0, <3>1, <3>2, <3>3 DEF Typed, TypeOK
    <3> QED BY <1>18, <2>1, <2>2, <3>4 DEF Sweep, Typed, TypeOK, CopyShape
  <2>3. CASE content[d] = EmptyTree /\ UNCHANGED content /\ stored' = stored \ {d}
             /\ prune' = [prune EXCEPT !.doomed = @ \ {d}]
    BY <1>18, <2>1, <2>3 DEF Sweep, Typed, TypeOK, CopyShape
  <2> QED BY <1>18, <2>2, <2>3 DEF Sweep
<1>19. CASE Crash
  <2>1. req' \in [Requests -> ReqType] /\ CopyShape'
    BY <1>19, IdleType DEF Crash, CopyShape, Copying
  <2>2. crashes' \in 0..MaxCrashes
    BY <1>19, CountUp DEF Crash, Typed, TypeOK
  <2>3. disturbed' \subseteq Digests
    BY <1>0, <1>19 DEF Crash, Typed, TypeOK
  <2>4. /\ pointer' \in [Sandboxes \X Names -> {"none", "ok", "torn"}]
        /\ taken' \in [Sandboxes \X Names -> Trees]
    <3>1. CASE UNCHANGED pins
      BY <3>1 DEF Typed, TypeOK
    <3>2. CASE \E q \in Requests :
                 /\ pointer' = [pointer EXCEPT ![Pointer(q)] = "torn"]
                 /\ taken' = [taken EXCEPT ![Pointer(q)] = EmptyTree]
      BY <1>0, <3>2, EmptyIsTree DEF Typed, TypeOK
    <3> QED BY <1>19, <3>1, <3>2 DEF Crash
  <2> QED BY <1>19, <2>1, <2>2, <2>3, <2>4 DEF Crash, Typed, TypeOK, ReqType
<1>20. CASE UNCHANGED vars
  BY <1>20 DEF vars, Typed, TypeOK, CopyShape
<1> QED
  BY <1>1, <1>2, <1>3, <1>4, <1>5, <1>6, <1>7, <1>8, <1>9, <1>10, <1>11, <1>12, <1>13,
     <1>14, <1>15, <1>16, <1>17, <1>18, <1>19, <1>20 DEF Next

\* Every variable keeps its range, whatever the trees, the races and the
\* crashes.
THEOREM TypeCorrect == Spec => []TypeOK
<1>1. Init => Typed
  BY SnapshotAssumption, EmptyIsTree, IdleType
     DEF Init, Typed, TypeOK, CopyShape, NoPrune, ReqType, Copying
<1>2. Typed /\ [Next]_vars => Typed'
  BY TypeStep
<1>3. Typed => TypeOK
  BY DEF Typed
<1> QED BY <1>1, <1>2, <1>3, PTL DEF Spec

-----------------------------------------------------------------------------
(* The inductive invariant.  While copies of an undisturbed digest run, they *)
(* copy one tree; what is not right under the digest yet is still on some    *)
(* copier's list; and whoever counts on a digest keeps it in the store.      *)

Copies(q, d) == req[q].at \in Copying /\ Digest(q) = d

OneTree(d) == \A q, r \in Requests :
  Copies(q, d) /\ Copies(r, d) => req[q].tree = req[r].tree

Due(d, f) == \E r \in Requests : Copies(r, d) /\ f \in req[r].todo

InHand(q, d) ==
  /\ DOMAIN content[d] \subseteq DOMAIN req[q].tree
  /\ \A f \in DOMAIN req[q].tree :
       Due(d, f) \/ (f \in DOMAIN content[d] /\ content[d][f] = req[q].tree[f])
  /\ req[q].at = "fill" => NextFile(q) \in DOMAIN content[d]

CopiesInHand(d) ==
  d \notin prune.doomed => \A q \in Requests : Copies(q, d) => InHand(q, d)

TrueOrInFlux(d) == d \in stored => InFlux(d) \/ DirHash(content[d]) = d

Calm(d) == OneTree(d) /\ CopiesInHand(d) /\ TrueOrInFlux(d)

UndisturbedIsCalm == \A d \in Digests \ disturbed : Calm(d)

RequestIsBacked == \A q \in Requests :
  req[q].at \in Copying \union {"point"} => Digest(q) \in stored \union disturbed

\* While it runs, the pruner knows every pointer that predates it.
PrunerSpares ==
  /\ prune.doomed \cap prune.refs = {}
  /\ prune.at # "idle" => \A p \in Sandboxes \X Names :
       pointer[p] = "ok" => Holds(p) \in prune.refs \union disturbed

IInv == /\ Typed /\ UndisturbedIsCalm
        /\ RequestIsBacked /\ PointerIsBacked /\ PrunerSpares

\* A digest nobody touched stays calm.
LEMMA StaysCalm ==
  ASSUME NEW d \in Digests, Calm(d),
         content'[d] = content[d], d \in stored' => d \in stored,
         \A q \in Requests : Copies(q, d) \/ Copies(q, d)' => req'[q] = req[q],
         d \in prune.doomed => d \in prune'.doomed
  PROVE  Calm(d)'
<1>1. \A q \in Requests : Copies(q, d)' <=> Copies(q, d)
  BY DEF Copies, Digest
<1>2. OneTree(d)'
  BY <1>1 DEF Calm, OneTree
<1>3. \A f : Due(d, f) => Due(d, f)'
  BY <1>1 DEF Due
<1>4. CopiesInHand(d)'
  BY <1>1, <1>3 DEF Calm, CopiesInHand, InHand, NextFile
<1>5. InFlux(d) => InFlux(d)'
  BY <1>1 DEF InFlux, Copies
<1>6. TrueOrInFlux(d)'
  BY <1>5 DEF Calm, TrueOrInFlux
<1> QED BY <1>2, <1>4, <1>6 DEF Calm

\* Steps that touch neither the store nor a copy.
LEMMA StoreUntouched ==
  ASSUME IInv, UNCHANGED cas, disturbed \subseteq disturbed',
         \A q \in Requests : req[q].at \in Copying \/ req'[q].at \in Copying => req'[q] = req[q],
         prune.doomed \subseteq prune'.doomed
  PROVE  UndisturbedIsCalm'
<1> SUFFICES ASSUME NEW d \in Digests, d \notin disturbed' PROVE Calm(d)'
  BY DEF UndisturbedIsCalm
<1>1. \A q \in Requests : Copies(q, d) \/ Copies(q, d)' => req'[q] = req[q]
  BY DEF Copies
<1> QED BY <1>1, StaysCalm DEF IInv, UndisturbedIsCalm, cas

LEMMA RenameCalm == ASSUME IInv, NEW q \in Requests, Rename(q) PROVE UndisturbedIsCalm'
<1> SUFFICES ASSUME NEW d \in Digests, d \notin disturbed' PROVE Calm(d)'
  BY DEF UndisturbedIsCalm
<1>0. req \in [Requests -> ReqType] /\ content \in [Digests -> Trees]
  BY DEF IInv, Typed, TypeOK, ReqType
<1>1. d \notin disturbed /\ Calm(d)
  BY DEF Rename, Disturb, IInv, UndisturbedIsCalm
<1>2. /\ req' = [req EXCEPT ![q].at = "point"] /\ req[q].at = "move"
      /\ content' = [content EXCEPT ![Digest(q)] = req[q].tree]
      /\ stored' = stored \union {Digest(q)} /\ prune' = prune
  BY DEF Rename, Goto
<1>3. \A r \in Requests : Copies(r, d)' <=> Copies(r, d)
  BY <1>0, <1>2 DEF Copies, Copying, Digest, ReqType
<1>4. \A r \in Requests : Copies(r, d) => req'[r] = req[r]
  BY <1>0, <1>2 DEF Copies, Copying
<1>5. CASE d # Digest(q)
  BY <1>0, <1>1, <1>2, <1>3, <1>4, <1>5, StaysCalm
<1>6. CASE d = Digest(q)
  <2>1. ~Collides(q)
    BY <1>6 DEF Rename, Disturb
  <2>2. \A r \in Requests : Copies(r, d) => req[r].tree = req[q].tree
    BY <1>6, <2>1 DEF Collides, Rivals, Copies
  <2>3. content'[d] = req[q].tree
    BY <1>0, <1>2, <1>6
  <2>4. OneTree(d)'
    BY <1>1, <1>3, <1>4 DEF Calm, OneTree
  <2>5. ASSUME NEW r \in Requests, Copies(r, d) PROVE InHand(r, d)'
    <3>1. req'[r] = req[r] /\ req[r].tree = content'[d]
      BY <1>4, <2>2, <2>3, <2>5
    <3>2. NextFile(r) \in DOMAIN req[r].tree
      BY <2>5, NextFileOK DEF Copies, IInv
    <3> QED BY <3>1, <3>2 DEF InHand, NextFile
  <2>6. CopiesInHand(d)'
    BY <1>3, <2>5 DEF CopiesInHand
  <2>7. TrueOrInFlux(d)'
    BY <1>6, <2>3 DEF TrueOrInFlux, Digest
  <2> QED BY <2>4, <2>6, <2>7 DEF Calm
<1> QED BY <1>5, <1>6

LEMMA StartCopyCalm == ASSUME IInv, NEW q \in Requests, StartCopy(q) PROVE UndisturbedIsCalm'
<1> SUFFICES ASSUME NEW d \in Digests, d \notin disturbed' PROVE Calm(d)'
  BY DEF UndisturbedIsCalm
<1> DEFINE t == req[q].tree
<1>0. req \in [Requests -> ReqType] /\ content \in [Digests -> Trees] /\ t \in Trees
  BY DEF IInv, Typed, TypeOK, ReqType
<1>1. d \notin disturbed /\ Calm(d)
  BY DEF StartCopy, Disturb, IInv, UndisturbedIsCalm
<1>2. /\ \A r \in Requests : r # q => req'[r] = req[r]
      /\ req'[q].at = IF t = EmptyTree THEN "point" ELSE "copy"
      /\ req'[q].tree = t /\ req'[q].todo = DOMAIN t
      /\ req[q].at = "move" /\ content' = content /\ prune' = prune
      /\ stored' = stored \union {Digest(q)}
  BY <1>0 DEF StartCopy, ReqType
<1>3. \A r \in Requests : r # q => (Copies(r, d)' <=> Copies(r, d))
  BY <1>2 DEF Copies, Digest
<1>4. ~Copies(q, d) /\ Digest(q)' = Digest(q)
  BY <1>2 DEF Copies, Copying, Digest
<1>5. CASE d # Digest(q)
  <2>1. ~Copies(q, d)'
    BY <1>4, <1>5 DEF Copies
  <2> QED BY <1>1, <1>2, <1>3, <1>4, <1>5, <2>1, StaysCalm
<1>6. CASE d = Digest(q)
  <2>1. ~Collides(q)
    BY <1>6 DEF StartCopy, Disturb
  <2>2. \A r \in Requests : Copies(r, d) => req[r].tree = t
    BY <1>6, <2>1 DEF Collides, Rivals, Copies
  <2>3. ASSUME \A r \in Requests : ~Copies(r, d) PROVE content[d] \in {EmptyTree, t}
    BY <1>6, <2>1, <2>3 DEF Collides, Rivals, Copies
  <2>4. ASSUME NEW r \in Requests, Copies(r, d) PROVE t # EmptyTree
    BY <2>2, <2>4, EmptyIsTree DEF Copies, IInv, Typed, CopyShape
  <2>5. CASE t = EmptyTree
    <3>1. \A r \in Requests : ~Copies(r, d) /\ ~Copies(r, d)'
      BY <1>2, <1>3, <1>4, <2>4, <2>5 DEF Copies, Copying
    <3>2. content'[d] = t
      BY <1>2, <2>3, <2>5, <3>1
    <3> QED BY <1>6, <3>1, <3>2 DEF Calm, OneTree, CopiesInHand, TrueOrInFlux, Digest
  <2>6. CASE t # EmptyTree
    <3>1. Copies(q, d)'
      BY <1>2, <1>4, <1>6, <2>6 DEF Copies, Copying
    <3>2. \A r \in Requests : Copies(r, d)' => req'[r].tree = t
      BY <1>2, <1>3, <2>2
    <3>3. \A f \in DOMAIN t : Due(d, f)'
      BY <1>2, <3>1 DEF Due
    <3>4. d \notin prune.doomed => DOMAIN content[d] \subseteq DOMAIN t
      BY <1>1, <2>2, <2>3, EmptyIsTree DEF Calm, CopiesInHand, InHand
    <3>5. ASSUME NEW r \in Requests, Copies(r, d)', d \notin prune'.doomed PROVE InHand(r, d)'
      <4>1. (req[r].at = "fill" => NextFile(r) \in DOMAIN content[d])'
        BY <1>1, <1>2, <1>3, <2>6, <3>5 DEF Calm, CopiesInHand, InHand, NextFile
      <4> QED BY <1>2, <3>2, <3>3, <3>4, <3>5, <4>1 DEF InHand
    <3>6. OneTree(d)'
      BY <3>2 DEF OneTree
    <3>7. TrueOrInFlux(d)'
      BY <3>1 DEF TrueOrInFlux, InFlux, Copies
    <3> QED BY <3>5, <3>6, <3>7 DEF Calm, CopiesInHand
  <2> QED BY <2>5, <2>6
<1> QED BY <1>5, <1>6

LEMMA CopyFileCalm == ASSUME IInv, NEW q \in Requests, CopyFile(q) PROVE UndisturbedIsCalm'
<1> SUFFICES ASSUME NEW d \in Digests, d \notin disturbed' PROVE Calm(d)'
  BY DEF UndisturbedIsCalm
<1>0. req \in [Requests -> ReqType] /\ content \in [Digests -> Trees]
  BY DEF IInv, Typed, TypeOK, ReqType
<1>1. d \notin disturbed /\ Calm(d) /\ prune' = prune /\ stored' = stored
  BY DEF CopyFile, IInv, UndisturbedIsCalm
<1>2. req[q].at = "copy" /\ \A r \in Requests : r # q => req'[r] = req[r]
  BY <1>0 DEF CopyFile, Goto, Reply
<1>3. CASE d # Digest(q)
  <2>1. content'[d] = content[d] /\ ~Copies(q, d)
    BY <1>0, <1>3 DEF CopyFile, Copies
  <2>2. ~Copies(q, d)'
    <3>1. CASE Goto(q, "fill")
      <4>1. req'[q].tree = req[q].tree
        BY <1>0, <3>1 DEF Goto, ReqType
      <4> QED BY <1>3, <4>1 DEF Copies, Digest
    <3>2. CASE Reply(q)
      BY <1>0, <3>2, IdleType DEF Reply, Copies, Copying
    <3> QED BY <3>1, <3>2 DEF CopyFile
  <2> QED BY <1>1, <1>2, <2>1, <2>2, StaysCalm
<1>4. CASE d = Digest(q)
  <2> DEFINE f == NextFile(q)
  <2>1. Digest(q) \in stored
    BY <1>1, <1>2, <1>4 DEF IInv, RequestIsBacked, Copying
  <2>2. /\ content' = [content EXCEPT ![d] = With(@, f, Cut)]
        /\ req' = [req EXCEPT ![q].at = "fill"]
    BY <1>4, <2>1 DEF CopyFile, Goto
  <2>3. /\ f \in req[q].todo /\ f \in Files /\ f \in DOMAIN req[q].tree
    BY <1>2, NextFileOK DEF IInv, Copying
  <2>4. /\ DOMAIN content'[d] = DOMAIN content[d] \union {f}
        /\ \A g \in DOMAIN content[d] \ {f} : content'[d][g] = content[d][g]
    <3>1. Cut \in Bytes \union {Cut} /\ content[d] \in Trees
      BY <1>0
    <3>2. content'[d] = With(content[d], f, Cut)
      BY <1>0, <2>2
    <3> HIDE DEF f
    <3> QED BY <2>3, <3>1, <3>2, WithTree
  <2>5. /\ req'[q].tree = req[q].tree /\ req'[q].todo = req[q].todo /\ req'[q].at = "fill"
        /\ \A r \in Requests : r # q => req'[r] = req[r]
    BY <1>0, <2>2 DEF ReqType
  <2>6. Copies(q, d) /\ Copies(q, d)'
    BY <1>2, <1>4, <2>5 DEF Copies, Copying, Digest
  <2>7. \A r \in Requests : /\ Copies(r, d)' <=> Copies(r, d)
                            /\ req'[r].tree = req[r].tree /\ req'[r].todo = req[r].todo
    BY <2>5, <2>6 DEF Copies, Digest
  <2>8. OneTree(d)'
    BY <1>1, <2>7 DEF Calm, OneTree
  <2>9. \A g : Due(d, g)' <=> Due(d, g)
    BY <2>7 DEF Due
  <2>10. ASSUME NEW r \in Requests, Copies(r, d), d \notin prune.doomed PROVE InHand(r, d)'
    <3>1. InHand(r, d) /\ req[r].tree = req[q].tree
      BY <1>1, <2>6, <2>10 DEF Calm, CopiesInHand, OneTree
    <3>2. DOMAIN content'[d] \subseteq DOMAIN req'[r].tree
      BY <2>3, <2>4, <2>7, <3>1 DEF InHand
    <3>3. Due(d, f)
      BY <2>3, <2>6 DEF Due
    <3>4. ASSUME NEW g \in DOMAIN req[r].tree
          PROVE  Due(d, g)' \/ (g \in DOMAIN content'[d] /\ content'[d][g] = req'[r].tree[g])
      <4>1. CASE g = f
        BY <2>9, <3>3, <4>1
      <4>2. CASE g # f
        BY <2>4, <2>7, <2>9, <3>1, <4>2 DEF InHand
      <4> QED BY <4>1, <4>2
    <3>5. (req[r].at = "fill" => NextFile(r) \in DOMAIN content[d])'
      <4>1. NextFile(r)' = NextFile(r)
        BY <2>7 DEF NextFile
      <4> QED BY <2>4, <2>5, <3>1, <4>1 DEF InHand
    <3> QED BY <2>7, <3>2, <3>4, <3>5 DEF InHand
  <2>11. CopiesInHand(d)'
    BY <1>1, <2>7, <2>10 DEF CopiesInHand
  <2>12. TrueOrInFlux(d)'
    BY <2>6 DEF TrueOrInFlux, InFlux, Copies
  <2> QED BY <2>8, <2>11, <2>12 DEF Calm
<1> QED BY <1>3, <1>4

LEMMA FillFileCalm == ASSUME IInv, NEW q \in Requests, FillFile(q) PROVE UndisturbedIsCalm'
<1> SUFFICES ASSUME NEW d \in Digests, d \notin disturbed' PROVE Calm(d)'
  BY DEF UndisturbedIsCalm
<1> DEFINE f == NextFile(q)
           t == req[q].tree
           left == req[q].todo \ {f}
<1>0. req \in [Requests -> ReqType] /\ content \in [Digests -> Trees] /\ t \in Trees
  BY DEF IInv, Typed, TypeOK, ReqType
<1>1. d \notin disturbed /\ Calm(d) /\ prune' = prune /\ stored' = stored
  BY DEF FillFile, IInv, UndisturbedIsCalm
<1>2. /\ \A r \in Requests : r # q => req'[r] = req[r]
      /\ req[q].at = "fill" /\ req'[q].at = IF left = {} THEN "point" ELSE "copy"
      /\ req'[q].tree = t /\ req'[q].todo = left
  BY <1>0 DEF FillFile, ReqType
<1>3. Digest(q)' = Digest(q)
  BY <1>2 DEF Digest
<1>4. \A r \in Requests : /\ Copies(r, d)' => Copies(r, d)
                          /\ Copies(r, d) /\ r # q => Copies(r, d)'
                          /\ req'[r].tree = req[r].tree
  BY <1>2 DEF Copies, Copying, Digest
<1>5. CASE d # Digest(q)
  <2>1. content'[d] = content[d]
    BY <1>0, <1>5 DEF FillFile
  <2>2. ~Copies(q, d) /\ ~Copies(q, d)'
    BY <1>3, <1>5 DEF Copies
  <2> QED BY <1>1, <1>2, <2>1, <2>2, StaysCalm
<1>6. CASE d = Digest(q)
  <2>1. Copies(q, d)
    BY <1>2, <1>6 DEF Copies, Copying
  <2>2. OneTree(d)'
    BY <1>1, <1>4 DEF Calm, OneTree
  <2>3. CASE d \in prune.doomed
    BY <1>1, <2>2, <2>3 DEF Calm, CopiesInHand, TrueOrInFlux, InFlux
  <2>4. CASE d \notin prune.doomed
    <3>1. InHand(q, d) /\ f \in DOMAIN content[d]
      BY <1>1, <1>2, <2>1, <2>4 DEF Calm, CopiesInHand, InHand
    <3>2. f \in req[q].todo /\ f \in Files /\ f \in DOMAIN t /\ t[f] \in Bytes \union {Cut}
      BY <1>2, NextFileOK DEF IInv, Copying
    <3>3. content' = [content EXCEPT ![d] = With(@, f, t[f])]
      BY <1>6, <3>1 DEF FillFile
    <3>4. /\ DOMAIN content'[d] = DOMAIN content[d] /\ content'[d] \in Trees
          /\ content'[d][f] = t[f]
          /\ \A g \in DOMAIN content[d] \ {f} : content'[d][g] = content[d][g]
      BY <1>0, <3>1, <3>2, <3>3, WithTree
    <3>5. ASSUME NEW g \in DOMAIN t
          PROVE  Due(d, g)' \/ (g \in DOMAIN content'[d] /\ content'[d][g] = t[g])
      <4>1. CASE g = f
        BY <3>1, <3>4, <4>1
      <4>2. CASE g # f /\ ~Due(d, g)
        BY <3>1, <3>4, <4>2 DEF InHand
      <4>3. CASE g # f /\ Due(d, g)
        <5>1. PICK r \in Requests : Copies(r, d) /\ g \in req[r].todo
          BY <4>3 DEF Due
        <5>2. CASE r = q
          <6>1. g \in left
            BY <4>3, <5>1, <5>2
          <6>2. Copies(q, d)'
            BY <1>2, <1>3, <1>6, <6>1 DEF Copies, Copying
          <6> QED BY <1>2, <6>1, <6>2 DEF Due
        <5>3. CASE r # q
          BY <1>2, <1>4, <5>1, <5>3 DEF Due
        <5> QED BY <5>2, <5>3
      <4> QED BY <4>1, <4>2, <4>3
    <3>6. ASSUME NEW r \in Requests, Copies(r, d)' PROVE InHand(r, d)'
      <4>1. Copies(r, d) /\ InHand(r, d) /\ req'[r].tree = t
        BY <1>1, <1>4, <2>1, <2>4, <3>6 DEF Calm, CopiesInHand, OneTree
      <4>2. (req[r].at = "fill" => NextFile(r) \in DOMAIN content[d])'
        BY <1>2, <3>4, <4>1 DEF InHand, NextFile
      <4> QED BY <3>1, <3>4, <3>5, <4>1, <4>2 DEF InHand
    <3>7. CopiesInHand(d)'
      BY <3>6 DEF CopiesInHand
    <3>8. CASE \E r \in Requests : Copies(r, d)'
      BY <2>2, <3>7, <3>8 DEF Calm, TrueOrInFlux, InFlux, Copies
    <3>9. CASE ~ \E r \in Requests : Copies(r, d)'
      <4>1. \A g \in DOMAIN t : g \in DOMAIN content'[d] /\ content'[d][g] = t[g]
        BY <3>5, <3>9 DEF Due
      <4>2. content'[d] = t
        BY <1>0, <3>1, <3>4, <4>1, SameTree DEF InHand
      <4>3. DirHash(content'[d]) = d
        BY <1>6, <4>2 DEF Digest
      <4> QED BY <2>2, <3>7, <4>3 DEF Calm, TrueOrInFlux
    <3> QED BY <3>8, <3>9
  <2> QED BY <2>3, <2>4
<1> QED BY <1>5, <1>6

\* The pruner disturbs what somebody counts on; nobody copies the rest.
LEMMA SweepCalm == ASSUME IInv, NEW e \in Digests, Sweep(e) PROVE UndisturbedIsCalm'
<1> SUFFICES ASSUME NEW d \in Digests, d \notin disturbed' PROVE Calm(d)'
  BY DEF UndisturbedIsCalm
<1>0. content \in [Digests -> Trees] /\ prune.doomed \subseteq Digests
  BY DEF IInv, Typed, TypeOK
<1>1. d \notin disturbed /\ Calm(d) /\ req' = req
  BY DEF Sweep, IInv, UndisturbedIsCalm
<1>2. CASE d # e
  <2>1. content'[d] = content[d] /\ (d \in stored' => d \in stored)
    BY <1>0, <1>2 DEF Sweep
  <2>2. prune' = prune \/ prune'.doomed = prune.doomed \ {e}
    BY DEF Sweep, IInv, Typed, TypeOK
  <2> QED BY <1>1, <1>2, <2>1, <2>2, StaysCalm
<1>3. CASE d = e
  <2>1. \A q \in Requests : ~Copies(q, d)'
    BY <1>1, <1>3 DEF Sweep, Wanted, Copies, Digest
  <2>2. d \in stored' => d \in prune'.doomed
    BY <1>3 DEF Sweep
  <2> QED BY <2>1, <2>2 DEF Calm, OneTree, CopiesInHand, TrueOrInFlux, InFlux
<1> QED BY <1>2, <1>3

LEMMA CalmStep == ASSUME IInv, [Next]_vars PROVE UndisturbedIsCalm'
<1> USE DEF boxes, pins, cas, bounds
<1>0. req \in [Requests -> ReqType] /\ content \in [Digests -> Trees]
  BY DEF IInv, Typed, TypeOK, ReqType
<1>1. ASSUME NEW s \in Sandboxes, Work(s) \/ DeleteSandbox(s) PROVE UndisturbedIsCalm'
  BY <1>1, StoreUntouched DEF Work, DeleteSandbox
<1>2. ASSUME NEW s \in Sandboxes, NEW n \in Names, DeleteSnapshot(s, n)
      PROVE  UndisturbedIsCalm'
  BY <1>2, StoreUntouched DEF DeleteSnapshot
<1>3. ASSUME NEW s \in Sandboxes, NEW n \in Names, NEW q \in Requests,
             Stage(q, s, n) \/ Fetch(q, s, n)
      PROVE  UndisturbedIsCalm'
  <2>1. \A r \in Requests : r # q => req'[r] = req[r]
    BY <1>0, <1>3 DEF Stage, Fetch
  <2>2. req[q].at \notin Copying /\ req'[q].at \notin Copying
    BY <1>0, <1>3, IdleType DEF Stage, Fetch, Copying
  <2>3. UNCHANGED <<cas, disturbed, prune>>
    BY <1>3 DEF Stage, Fetch
  <2> QED BY <2>1, <2>2, <2>3, StoreUntouched
<1>4. ASSUME NEW q \in Requests, Look(q) \/ Point(q) \/ Clear(q) \/ Put(q)
      PROVE  UndisturbedIsCalm'
  <2>1. \A r \in Requests : r # q => req'[r] = req[r]
    BY <1>0, <1>4 DEF Look, Point, Clear, Put, Goto, Reply
  <2>2. req[q].at \notin Copying
    BY <1>4 DEF Look, Point, Clear, Put, Copying
  <2>3. req'[q].at \in {"idle", "point", "move", "put"}
    <3>1. CASE Reply(q)
      BY <1>0, <3>1, IdleType DEF Reply
    <3>2. ASSUME NEW step \in {"point", "move", "put"}, Goto(q, step)
          PROVE  req'[q].at = step
      BY <1>0, <3>2 DEF Goto, ReqType
    <3> QED BY <1>4, <3>1, <3>2 DEF Look, Point, Clear, Put
  <2>4. UNCHANGED <<cas, prune>> /\ disturbed \subseteq disturbed'
    BY <1>4 DEF Look, Point, Clear, Put
  <2> QED BY <2>1, <2>2, <2>3, <2>4, StoreUntouched DEF Copying
<1>5. ASSUME Scan \/ EndPrune \/ \E d \in Digests : List(d) PROVE UndisturbedIsCalm'
  <2>1. prune.doomed = {}
    <3>1. CASE Scan
      BY <3>1 DEF Scan, NoPrune
    <3>2. CASE EndPrune \/ \E d \in Digests : List(d)
      BY <3>2 DEF EndPrune, List
    <3> QED BY <1>5, <3>1, <3>2
  <2>2. UNCHANGED <<cas, req, disturbed>>
    BY <1>5 DEF Scan, List, EndPrune
  <2> QED BY <2>1, <2>2, StoreUntouched
<1>6. ASSUME NEW q \in Requests, CopyFails(q) PROVE UndisturbedIsCalm'
  <2> SUFFICES ASSUME NEW d \in Digests, d \notin disturbed' PROVE Calm(d)'
    BY DEF UndisturbedIsCalm
  <2>1. d \notin disturbed /\ Calm(d) /\ d # Digest(q)
    BY <1>6 DEF CopyFails, IInv, UndisturbedIsCalm
  <2>2. req' = [req EXCEPT ![q] = Idle]
    BY <1>6 DEF CopyFails, Reply
  <2>3. ~Copies(q, d) /\ ~Copies(q, d)' /\ \A r \in Requests : r # q => req'[r] = req[r]
    BY <1>0, <2>1, <2>2, IdleType DEF Copies, Copying
  <2> QED BY <1>6, <2>1, <2>3, StaysCalm DEF CopyFails
<1>7. CASE PruneFails
  <2> SUFFICES ASSUME NEW d \in Digests, d \notin disturbed' PROVE Calm(d)'
    BY DEF UndisturbedIsCalm
  <2> QED BY <1>7, StaysCalm DEF PruneFails, IInv, UndisturbedIsCalm
<1>8. CASE Crash
  <2> SUFFICES ASSUME NEW d \in Digests, d \notin disturbed' PROVE Calm(d)'
    BY DEF UndisturbedIsCalm
  <2>1. d \notin disturbed /\ Calm(d)
    BY <1>8 DEF Crash, IInv, UndisturbedIsCalm
  <2>2. \A q \in Requests : ~Copies(q, d) /\ ~Copies(q, d)'
    BY <1>8, IdleType DEF Crash, Copies, Copying
  <2> QED BY <1>8, <2>1, <2>2, StaysCalm DEF Crash
<1>9. CASE UNCHANGED vars
  BY <1>9, StoreUntouched DEF vars
<1> QED
  BY <1>1, <1>2, <1>3, <1>4, <1>5, <1>6, <1>7, <1>8, <1>9, RenameCalm, StartCopyCalm,
     CopyFileCalm, FillFileCalm, SweepCalm DEF Next

-----------------------------------------------------------------------------
(* Whoever counts on a digest keeps it.                                     *)

Relies(q) == req[q].at \in Copying \union {"point"}
Kept == stored \union disturbed

LEMMA StaysBacked ==
  ASSUME IInv, Kept \subseteq Kept',
         \A q \in Requests :
           Relies(q)' => (Relies(q) /\ Digest(q)' = Digest(q)) \/ Digest(q)' \in Kept',
         \A p \in Sandboxes \X Names :
           (pointer[p] = "ok")' => \/ pointer[p] = "ok" /\ taken'[p] = taken[p]
                                   \/ Holds(p)' \in Kept'
  PROVE  RequestIsBacked' /\ PointerIsBacked'
<1>1. RequestIsBacked'
  BY DEF IInv, RequestIsBacked, Relies, Kept
<1>2. ASSUME NEW p \in Sandboxes \X Names, (pointer[p] = "ok")' PROVE Holds(p)' \in Kept'
  <2>1. CASE pointer[p] = "ok" /\ taken'[p] = taken[p]
    BY <2>1 DEF IInv, PointerIsBacked, Holds, Kept
  <2> QED BY <1>2, <2>1
<1> QED BY <1>1, <1>2 DEF PointerIsBacked, Kept

\* One request moves on and no pointer does.
LEMMA RequestBacked ==
  ASSUME IInv, NEW q \in Requests, Kept \subseteq Kept', UNCHANGED pins,
         \A r \in Requests : r # q => req'[r] = req[r],
         Relies(q)' => (Relies(q) /\ Digest(q)' = Digest(q)) \/ Digest(q)' \in Kept'
  PROVE  RequestIsBacked' /\ PointerIsBacked'
<1>1. \A r \in Requests :
        Relies(r)' => (Relies(r) /\ Digest(r)' = Digest(r)) \/ Digest(r)' \in Kept'
  BY DEF Relies, Digest
<1> QED BY <1>1, StaysBacked DEF pins

LEMMA BackedStep == ASSUME IInv, [Next]_vars PROVE RequestIsBacked' /\ PointerIsBacked'
<1> USE DEF boxes, cas, bounds
<1>0. /\ req \in [Requests -> ReqType]
      /\ pointer \in [Sandboxes \X Names -> {"none", "ok", "torn"}]
      /\ taken \in [Sandboxes \X Names -> Trees]
      /\ \A q \in Requests : Pointer(q) \in Sandboxes \X Names
  BY DEF IInv, Typed, TypeOK, ReqType, Pointer
<1>1. ASSUME NEW s \in Sandboxes, Work(s) PROVE RequestIsBacked' /\ PointerIsBacked'
  BY <1>1, StaysBacked DEF Work, pins, Kept, Relies, Digest
<1>2. ASSUME NEW s \in Sandboxes, DeleteSandbox(s) PROVE RequestIsBacked' /\ PointerIsBacked'
  <2>1. \A p \in Sandboxes \X Names :
          pointer'[p] = "ok" => pointer[p] = "ok" /\ taken'[p] = taken[p]
    BY <1>2 DEF DeleteSandbox
  <2> QED BY <1>2, <2>1, StaysBacked DEF DeleteSandbox, Kept, Relies, Digest
<1>3. ASSUME NEW s \in Sandboxes, NEW n \in Names, DeleteSnapshot(s, n)
      PROVE  RequestIsBacked' /\ PointerIsBacked'
  <2>1. \A p \in Sandboxes \X Names :
          pointer'[p] = "ok" => pointer[p] = "ok" /\ taken'[p] = taken[p]
    BY <1>0, <1>3 DEF DeleteSnapshot
  <2> QED BY <1>3, <2>1, StaysBacked DEF DeleteSnapshot, Kept, Relies, Digest
<1>4. ASSUME NEW s \in Sandboxes, NEW n \in Names, NEW q \in Requests,
             Stage(q, s, n) \/ Fetch(q, s, n)
      PROVE  RequestIsBacked' /\ PointerIsBacked'
  <2>1. \A r \in Requests : r # q => req'[r] = req[r]
    BY <1>0, <1>4 DEF Stage, Fetch
  <2>2. ~Relies(q)'
    BY <1>0, <1>4 DEF Stage, Fetch, Relies, Copying
  <2>3. UNCHANGED <<pins, stored, disturbed>>
    BY <1>4 DEF Stage, Fetch
  <2> QED BY <2>1, <2>2, <2>3, RequestBacked DEF Kept
<1>5. ASSUME NEW q \in Requests, Look(q) PROVE RequestIsBacked' /\ PointerIsBacked'
  <2>1. /\ \A r \in Requests : r # q => req'[r] = req[r]
        /\ req'[q].at = IF Digest(q) \in stored THEN "point" ELSE "move"
        /\ Digest(q)' = Digest(q)
    BY <1>0, <1>5 DEF Look, Goto, ReqType, Digest
  <2>2. Relies(q)' => Digest(q)' \in Kept'
    BY <1>5, <2>1 DEF Look, Relies, Copying, Kept
  <2> QED BY <1>5, <2>1, <2>2, RequestBacked DEF Look, Kept
<1>6. ASSUME NEW q \in Requests, Rename(q) \/ StartCopy(q)
      PROVE  RequestIsBacked' /\ PointerIsBacked'
  <2>1. (\A r \in Requests : r # q => req'[r] = req[r]) /\ Digest(q)' = Digest(q)
    BY <1>0, <1>6 DEF Rename, StartCopy, Goto, ReqType, Digest
  <2>2. stored' = stored \union {Digest(q)} /\ disturbed \subseteq disturbed' /\ UNCHANGED pins
    BY <1>6 DEF Rename, StartCopy, Disturb
  <2> QED BY <2>1, <2>2, RequestBacked DEF Kept
<1>7. ASSUME NEW q \in Requests, CopyFile(q) \/ FillFile(q)
      PROVE  RequestIsBacked' /\ PointerIsBacked'
  <2>1. \A r \in Requests : r # q => req'[r] = req[r]
    BY <1>0, <1>7 DEF CopyFile, FillFile, Goto, Reply
  <2>2. Relies(q) /\ (Digest(q)' = Digest(q) \/ ~Relies(q)')
    <3>1. CASE Reply(q)
      BY <1>0, <1>7, <3>1, IdleType DEF Reply, CopyFile, FillFile, Relies, Copying
    <3>2. CASE CopyFile(q) /\ Goto(q, "fill")
      BY <1>0, <3>2 DEF CopyFile, Goto, Relies, Copying, Digest, ReqType
    <3>3. CASE FillFile(q)
      BY <1>0, <3>3 DEF FillFile, Relies, Copying, Digest, ReqType
    <3> QED BY <1>7, <3>1, <3>2, <3>3 DEF CopyFile
  <2>3. UNCHANGED <<pins, stored, disturbed>>
    BY <1>7 DEF CopyFile, FillFile
  <2> QED BY <2>1, <2>2, <2>3, RequestBacked DEF Kept
<1>8. ASSUME NEW q \in Requests, CopyFails(q) PROVE RequestIsBacked' /\ PointerIsBacked'
  <2>1. \A r \in Requests : r # q => req'[r] = req[r]
    BY <1>0, <1>8 DEF CopyFails, Reply
  <2>2. ~Relies(q)'
    BY <1>0, <1>8, IdleType DEF CopyFails, Reply, Relies, Copying
  <2> QED BY <1>8, <2>1, <2>2, RequestBacked DEF CopyFails, Kept
<1>9. ASSUME NEW q \in Requests, Point(q) PROVE RequestIsBacked' /\ PointerIsBacked'
  <2>1. \A r \in Requests : r # q => req'[r] = req[r]
    BY <1>0, <1>9 DEF Point, Reply
  <2>2. ~Relies(q)'
    BY <1>0, <1>9, IdleType DEF Point, Reply, Relies, Copying
  <2>3. Kept \subseteq Kept' /\ Digest(q) \in Kept'
    BY <1>9 DEF Point, Kept, IInv, RequestIsBacked
  <2>4. ASSUME NEW p \in Sandboxes \X Names, pointer'[p] = "ok"
        PROVE  (pointer[p] = "ok" /\ taken'[p] = taken[p]) \/ Holds(p)' \in Kept'
    <3>1. CASE p = Pointer(q)
      BY <1>0, <1>9, <2>3, <3>1 DEF Point, Holds, Digest
    <3>2. CASE p # Pointer(q)
      BY <1>0, <1>9, <2>4, <3>2 DEF Point
    <3> QED BY <3>1, <3>2
  <2>5. \A r \in Requests : Relies(r)' => Relies(r) /\ Digest(r)' = Digest(r)
    BY <2>1, <2>2 DEF Relies, Digest
  <2> QED BY <2>3, <2>4, <2>5, StaysBacked
<1>10. ASSUME NEW q \in Requests, Clear(q) \/ Put(q) PROVE RequestIsBacked' /\ PointerIsBacked'
  <2>1. \A r \in Requests : r # q => req'[r] = req[r]
    BY <1>0, <1>10 DEF Clear, Put, Goto, Reply
  <2>2. ~Relies(q)'
    BY <1>0, <1>10, IdleType DEF Clear, Put, Goto, Reply, Relies, Copying, ReqType
  <2>3. UNCHANGED <<pins, stored, disturbed>>
    BY <1>10 DEF Clear, Put
  <2> QED BY <2>1, <2>2, <2>3, RequestBacked DEF Kept
<1>11. ASSUME Scan \/ EndPrune \/ PruneFails \/ \E d \in Digests : List(d)
       PROVE  RequestIsBacked' /\ PointerIsBacked'
  <2>1. UNCHANGED <<pins, req, stored>> /\ disturbed \subseteq disturbed'
    BY <1>11 DEF Scan, List, EndPrune, PruneFails
  <2> QED BY <2>1, StaysBacked DEF pins, Kept, Relies, Digest
<1>12. ASSUME NEW d \in Digests, Sweep(d) PROVE RequestIsBacked' /\ PointerIsBacked'
  <2>1. UNCHANGED <<pins, req>> /\ disturbed \subseteq disturbed'
    BY <1>12 DEF Sweep
  <2>2. Wanted(d) => d \in disturbed'
    BY <1>12 DEF Sweep
  <2>3. stored \ {d} \subseteq stored'
    BY <1>12 DEF Sweep
  <2>4. ASSUME NEW q \in Requests, Relies(q)' PROVE Digest(q)' \in Kept'
    BY <2>1, <2>2, <2>3, <2>4 DEF Relies, Wanted, Kept, Digest, IInv, RequestIsBacked
  <2>5. ASSUME NEW p \in Sandboxes \X Names, pointer'[p] = "ok" PROVE Holds(p)' \in Kept'
    <3>1. Holds(p) \in Kept /\ (Holds(p) = d => d \in disturbed)
      BY <1>12, <2>1, <2>5 DEF Sweep, pins, Kept, IInv, PointerIsBacked, PrunerSpares
    <3> QED BY <2>1, <2>3, <3>1 DEF pins, Kept, Holds
  <2> QED BY <2>4, <2>5 DEF RequestIsBacked, PointerIsBacked, Relies, Kept
<1>13. CASE Crash
  <2>1. stored' = stored /\ disturbed \subseteq disturbed'
    BY <1>13 DEF Crash
  <2>2. \A q \in Requests : ~Relies(q)'
    BY <1>13, IdleType DEF Crash, Relies, Copying
  <2>3. \A p \in Sandboxes \X Names :
          pointer'[p] = "ok" => pointer[p] = "ok" /\ taken'[p] = taken[p]
    BY <1>0, <1>13 DEF Crash, pins
  <2> QED BY <2>1, <2>2, <2>3, StaysBacked DEF Kept
<1>14. CASE UNCHANGED vars
  BY <1>14, StaysBacked DEF vars, pins, Kept, Relies, Digest
<1> QED
  BY <1>1, <1>2, <1>3, <1>4, <1>5, <1>6, <1>7, <1>8, <1>9, <1>10, <1>11, <1>12, <1>13,
     <1>14 DEF Next

\* The pruner stays as it is and so does what it must spare.
LEMMA StaysSpared ==
  ASSUME IInv, UNCHANGED prune, disturbed \subseteq disturbed',
         \A p \in Sandboxes \X Names :
           pointer'[p] = "ok" => pointer[p] = "ok" /\ taken'[p] = taken[p]
  PROVE  PrunerSpares'
BY DEF IInv, PrunerSpares, Holds

LEMMA SparesStep == ASSUME IInv, [Next]_vars PROVE PrunerSpares'
<1>0. /\ pointer \in [Sandboxes \X Names -> {"none", "ok", "torn"}]
      /\ taken \in [Sandboxes \X Names -> Trees]
      /\ prune \in [at : {"idle", "sweep"}, refs : SUBSET Digests,
                    unlisted : SUBSET Digests, due : SUBSET Digests, doomed : SUBSET Digests]
      /\ \A q \in Requests : Pointer(q) \in Sandboxes \X Names
  BY DEF IInv, Typed, TypeOK, Pointer
<1>1. ASSUME NEW s \in Sandboxes, Work(s) \/ DeleteSandbox(s) PROVE PrunerSpares'
  BY <1>1, StaysSpared DEF Work, DeleteSandbox, pins
<1>2. ASSUME NEW s \in Sandboxes, NEW n \in Names, DeleteSnapshot(s, n) PROVE PrunerSpares'
  <2>1. \A p \in Sandboxes \X Names :
          pointer'[p] = "ok" => pointer[p] = "ok" /\ taken'[p] = taken[p]
    BY <1>0, <1>2 DEF DeleteSnapshot
  <2> QED BY <1>2, <2>1, StaysSpared DEF DeleteSnapshot
<1>3. ASSUME NEW s \in Sandboxes, NEW n \in Names, NEW q \in Requests,
             Stage(q, s, n) \/ Fetch(q, s, n)
      PROVE  PrunerSpares'
  BY <1>3, StaysSpared DEF Stage, Fetch, pins
<1>4. ASSUME NEW q \in Requests,
             \/ Look(q) \/ Rename(q) \/ StartCopy(q) \/ CopyFile(q) \/ FillFile(q)
             \/ CopyFails(q) \/ Clear(q) \/ Put(q)
      PROVE  PrunerSpares'
  <2>1. UNCHANGED <<pins, prune>> /\ disturbed \subseteq disturbed'
    BY <1>4 DEF Look, Rename, StartCopy, CopyFile, FillFile, CopyFails, Clear, Put, Disturb
  <2> QED BY <2>1, StaysSpared DEF pins
<1>5. ASSUME NEW q \in Requests, Point(q) PROVE PrunerSpares'
  <2>1. UNCHANGED prune /\ disturbed \subseteq disturbed'
    BY <1>5 DEF Point
  <2>2. prune.at # "idle" => Digest(q) \in prune.refs \union disturbed'
    BY <1>5 DEF Point, Overlooked
  <2>3. ASSUME NEW p \in Sandboxes \X Names, pointer'[p] = "ok", prune.at # "idle"
        PROVE  Holds(p)' \in prune.refs \union disturbed'
    <3>1. CASE p = Pointer(q)
      BY <1>0, <1>5, <2>2, <2>3, <3>1 DEF Point, Holds, Digest
    <3>2. CASE p # Pointer(q)
      <4>1. pointer[p] = "ok" /\ Holds(p)' = Holds(p)
        BY <1>0, <1>5, <2>3, <3>2 DEF Point, Holds
      <4> QED BY <2>1, <2>3, <4>1 DEF IInv, PrunerSpares
    <3> QED BY <3>1, <3>2
  <2> QED BY <2>1, <2>3 DEF IInv, PrunerSpares
<1>6. CASE Scan
  <2>1. /\ UNCHANGED pins /\ prune'.doomed = {}
        /\ prune'.refs = {Holds(p) : p \in {r \in Sandboxes \X Names : pointer[r] = "ok"}}
    BY <1>6 DEF Scan
  <2> QED BY <2>1 DEF PrunerSpares, Holds, pins
<1>7. ASSUME NEW d \in Digests, List(d) PROVE PrunerSpares'
  <2>1. /\ UNCHANGED <<pins, disturbed>> /\ prune'.refs = prune.refs
        /\ prune'.doomed = {d} /\ d \notin prune.refs /\ prune.at # "idle"
    BY <1>0, <1>7 DEF List
  <2> QED BY <2>1 DEF IInv, PrunerSpares, Holds, pins
<1>8. CASE EndPrune \/ PruneFails
  <2>1. UNCHANGED pins /\ disturbed \subseteq disturbed' /\ prune.at # "idle"
    BY <1>8 DEF EndPrune, PruneFails
  <2>2. prune' = NoPrune \/ (prune'.refs = prune.refs /\ prune'.doomed = {})
    BY <1>0, <1>8 DEF EndPrune, PruneFails
  <2> QED BY <2>1, <2>2 DEF NoPrune, IInv, PrunerSpares, Holds, pins
<1>9. ASSUME NEW d \in Digests, Sweep(d) PROVE PrunerSpares'
  <2>1. UNCHANGED pins /\ disturbed \subseteq disturbed' /\ prune.at # "idle"
    BY <1>9 DEF Sweep
  <2>2. prune'.refs = prune.refs /\ prune'.doomed \subseteq prune.doomed
    BY <1>0, <1>9 DEF Sweep
  <2> QED BY <2>1, <2>2 DEF IInv, PrunerSpares, Holds, pins
<1>10. CASE Crash
  <2>1. UNCHANGED prune /\ disturbed \subseteq disturbed'
    BY <1>10 DEF Crash
  <2>2. \A p \in Sandboxes \X Names :
          pointer'[p] = "ok" => pointer[p] = "ok" /\ taken'[p] = taken[p]
    BY <1>0, <1>10 DEF Crash, pins
  <2> QED BY <2>1, <2>2, StaysSpared
<1>11. CASE UNCHANGED vars
  BY <1>11, StaysSpared DEF vars, pins
<1> QED
  BY <1>1, <1>2, <1>3, <1>4, <1>5, <1>6, <1>7, <1>8, <1>9, <1>10, <1>11 DEF Next

LEMMA Invariance == Spec => []IInv
<1>1. Init => IInv
  <2>1. Init => Typed
    BY SnapshotAssumption, EmptyIsTree, IdleType
       DEF Init, Typed, TypeOK, CopyShape, NoPrune, ReqType, Copying
  <2>2. Init => UndisturbedIsCalm
    BY IdleType DEF Init, UndisturbedIsCalm, Calm, OneTree, CopiesInHand, TrueOrInFlux,
                    Copies, Copying
  <2>3. Init => RequestIsBacked /\ PointerIsBacked /\ PrunerSpares
    BY IdleType DEF Init, RequestIsBacked, PointerIsBacked, PrunerSpares, NoPrune, Copying
  <2> QED BY <2>1, <2>2, <2>3 DEF IInv
<1>2. IInv /\ [Next]_vars => IInv'
  BY TypeStep, CalmStep, BackedStep, SparesStep DEF IInv
<1> QED BY <1>1, <1>2, PTL DEF Spec

\* What lies under a digest hashes to it, however many snapshots of however
\* many sandboxes are copied at once, unless a crash, a failed copy, a prune
\* that overlapped a snapshot or a hash collision touched that digest
\* (create.go Create, prune.go PruneOrphans).
THEOREM AddressAlwaysTrue == Spec => []AddressIsTrue
<1>1. IInv => AddressIsTrue
  BY DEF IInv, Typed, TypeOK, UndisturbedIsCalm, Calm, TrueOrInFlux, AddressIsTrue
<1> QED BY <1>1, Invariance, PTL

\* A snapshot that can be listed has its content in the store, unless a
\* prune overlapped its creation (create.go Create, prune.go PruneOrphans).
THEOREM PointerAlwaysBacked == Spec => []PointerIsBacked
<1>1. IInv => PointerIsBacked
  BY DEF IInv
<1> QED BY <1>1, Invariance, PTL

=============================================================================
