----------------------- MODULE SandboxLifecycleProofs -----------------------
(***************************************************************************)
(* Proofs about SandboxLifecycle, for every set of sandboxes and handlers. *)
(***************************************************************************)
EXTENDS SandboxLifecycle, TLAPS

\* A counter below its bound may count once more.
LEMMA BoundedCount ==
  ASSUME NEW n \in Nat, NEW k \in 0..n, k < n PROVE k + 1 \in 0..n
OBVIOUS

\* No meta.json, pc or phase ever leaves its range, and a request slot is
\* idle exactly when it works on no sandbox.
LEMMA TypeCorrect == Spec => []TypeOK
<1> USE ConstantsAssumption
<1> USE DEF TypeOK, Steps, CreateSteps, ClaimedSteps, DeleteSteps, MetaValues,
            States, Phases
<1>1. Init => TypeOK
  BY DEF Init
<1>2. TypeOK /\ [Next]_vars => TypeOK'
  <2> SUFFICES ASSUME TypeOK, [Next]_vars PROVE TypeOK'
    OBVIOUS
  <2> USE DEF store, backend, bounds, Goto, Reply, Accept, SetState, Remove, Emit,
              RunContainer
  <2>1. ASSUME NEW h \in Handlers, HandlerStep(h) PROVE TypeOK'
    <3>1. CASE CreateContainer(h) BY <3>1 DEF CreateContainer
    <3>2. CASE VerifyContainer(h) BY <3>2 DEF VerifyContainer
    <3>3. CASE TearDownContainer(h) BY <3>3 DEF TearDownContainer
    <3>4. CASE UndoCreate(h) BY <3>4 DEF UndoCreate
    <3>5. CASE MarkWarm(h) BY <3>5 DEF MarkWarm
    <3>6. CASE AnnounceCreated(h) BY <3>6 DEF AnnounceCreated
    <3>7. CASE TouchLastUsed(h) BY <3>7 DEF TouchLastUsed
    <3>8. CASE MarkExecuting(h)
      <4>1. meta' \in [Sandboxes -> MetaValues]
        BY <3>8 DEF MarkExecuting
      <4>2. /\ pc' \in [Handlers -> Steps]
            /\ on' \in [Handlers -> Sandboxes \union {NoSandbox}]
            /\ \A g \in Handlers : on'[g] = NoSandbox <=> pc'[g] = "idle"
        <5>1. CASE Goto(h, "ensure") BY <3>8, <5>1 DEF MarkExecuting
        <5>2. CASE Goto(h, "run") BY <3>8, <5>2 DEF MarkExecuting
        <5>3. CASE Reply(h) BY <3>8, <5>3 DEF MarkExecuting
        <5> QED BY <3>8, <5>1, <5>2, <5>3 DEF MarkExecuting
      <4> QED BY <3>8, <4>1, <4>2 DEF MarkExecuting
    <3>9. CASE EnsureContainer(h) BY <3>9 DEF EnsureContainer
    <3>10. CASE ReuseContainer(h) BY <3>10 DEF ReuseContainer
    <3>11. CASE RunEnds(h)
      <4>1. CASE Goto(h, "record") BY <3>11, <4>1 DEF RunEnds
      <4>2. CASE Goto(h, "release") BY <3>11, <4>2 DEF RunEnds
      <4> QED BY <3>11, <4>1, <4>2 DEF RunEnds
    <3>12. CASE RecordRun(h) BY <3>12 DEF RecordRun
    <3>13. CASE Release(h) BY <3>13 DEF Release
    <3>14. CASE UpgradeShell(h) BY <3>14 DEF UpgradeShell
    <3>15. CASE MarkShell(h)
      <4>1. meta' \in [Sandboxes -> MetaValues]
        BY <3>15 DEF MarkShell
      <4>2. /\ pc' \in [Handlers -> Steps]
            /\ on' \in [Handlers -> Sandboxes \union {NoSandbox}]
            /\ \A g \in Handlers : on'[g] = NoSandbox <=> pc'[g] = "idle"
        <5>1. CASE Readable(on[h]) BY <3>15, <5>1 DEF MarkShell
        <5>2. CASE ~Readable(on[h]) BY <3>15, <5>2 DEF MarkShell
        <5> QED BY <5>1, <5>2
      <4> QED BY <3>15, <4>1, <4>2 DEF MarkShell
    <3>16. CASE MarkDestroying(h) BY <3>16 DEF MarkDestroying
    <3>17. CASE RemoveContainer(h) BY <3>17 DEF RemoveContainer
    <3>18. CASE RemoveVolumes(h) BY <3>18 DEF RemoveVolumes
    <3>19. CASE Forget(h) BY <3>19 DEF Forget
    <3>20. CASE AnnounceDestroyed(h) BY <3>20 DEF AnnounceDestroyed
    <3> QED BY <2>1, <3>1, <3>2, <3>3, <3>4, <3>5, <3>6, <3>7, <3>8, <3>9, <3>10,
               <3>11, <3>12, <3>13, <3>14, <3>15, <3>16, <3>17, <3>18, <3>19, <3>20
            DEF HandlerStep
  <2>2. ASSUME NEW h \in Handlers, ClientStep(h) PROVE TypeOK'
    <3>1. ASSUME NEW i \in Sandboxes, CreateStore(h, i) PROVE TypeOK'
      <4>1. PICK m \in Modes :
              /\ mode' = [mode EXCEPT ![i] = m]
              /\ Accept(h, i, IF m = "compat" THEN "containerCreate" ELSE "warm")
        BY <3>1 DEF CreateStore
      <4>2. /\ meta' \in [Sandboxes -> MetaValues]
            /\ mode' \in [Sandboxes -> {"compat", "host", "unset"}]
            /\ minted' \subseteq Sandboxes
            /\ dir' \subseteq Sandboxes
        BY <3>1, <4>1 DEF CreateStore
      <4>3. /\ pc' \in [Handlers -> Steps]
            /\ on' \in [Handlers -> Sandboxes \union {NoSandbox}]
            /\ \A g \in Handlers : on'[g] = NoSandbox <=> pc'[g] = "idle"
        BY <3>1, <4>1 DEF CreateStore
      <4> QED BY <3>1, <4>2, <4>3 DEF CreateStore
    <3>2. ASSUME NEW i \in Sandboxes, AdmitExec(h, i) PROVE TypeOK'
      BY <3>2 DEF AdmitExec
    <3>3. ASSUME NEW i \in Sandboxes, AdmitShell(h, i) PROVE TypeOK'
      BY <3>3 DEF AdmitShell
    <3>4. ASSUME NEW i \in Sandboxes, AdmitDelete(h, i) PROVE TypeOK'
      BY <3>4 DEF AdmitDelete
    <3>5. CASE AnswerTaken(h) \/ ShellEnds(h) BY <3>5 DEF AnswerTaken, ShellEnds
    <3> QED BY <2>2, <3>1, <3>2, <3>3, <3>4, <3>5 DEF ClientStep
  <2>3. CASE StartupStep
    <3>1. CASE OrphanCleanup BY <3>1 DEF OrphanCleanup
    <3>2. CASE ReconcileNothing BY <3>2 DEF ReconcileNothing
    <3>3. CASE Reconcile BY <3>3 DEF Reconcile
    <3>4. CASE ReconcileFails BY <3>4 DEF ReconcileFails
    <3>5. CASE Serve BY <3>5 DEF Serve
    <3> QED BY <2>3, <3>1, <3>2, <3>3, <3>4, <3>5 DEF StartupStep
  <2>4. CASE Crash
    <3>1. meta' \in [Sandboxes -> MetaValues]
      BY <2>4 DEF Crash
    <3>2. crashes' \in 0..MaxCrashes
      BY <2>4, BoundedCount DEF Crash
    <3> QED BY <2>4, <3>1, <3>2 DEF Crash
  <2>5. ASSUME NEW i \in Sandboxes, ContainerVanishes(i) PROVE TypeOK'
    <3>1. vanished' \in 0..MaxVanish
      BY <2>5, BoundedCount DEF ContainerVanishes
    <3> QED BY <2>5, <3>1 DEF ContainerVanishes
  <2>6. CASE UNCHANGED vars
    BY <2>6 DEF vars
  <2> QED BY <2>1, <2>2, <2>3, <2>4, <2>5, <2>6 DEF Next
<1> QED BY <1>1, <1>2, PTL DEF Spec
-----------------------------------------------------------------------------
(* The inductive invariant.  What the theorems below state is not inductive *)
(* by itself: a crash or a late writer is harmless only because handlers    *)
(* live in the serving phase alone, work on minted ids alone, and a step    *)
(* that can still write WARM or EXECUTING never works on a sandbox that     *)
(* startup declared DESTROYED.                                              *)

\* Steps from which a handler may still write CREATING, WARM or EXECUTING.
WriterSteps == CreateSteps \union ClaimedSteps
               \union {"touch", "mark", "upgrade", "markShell"}

QuietOutsideServing == daemon # "serving" => \A h \in Handlers : pc[h] = "idle"

MintedFirst == /\ \A i \in Sandboxes : i \notin minted => meta[i] = "ABSENT"
               /\ \A h \in Handlers : pc[h] # "idle" => on[h] \in minted

DestroyedIsQuiet ==
  \A h \in Handlers : pc[h] \in WriterSteps => meta[on[h]] # "DESTROYED"

AnnouncedIsGone ==
  /\ \A h \in Handlers : pc[h] = "announceDestroyed" => meta[on[h]] = "ABSENT"
  /\ \A i \in emitted["destroyed"] : i \in minted /\ meta[i] = "ABSENT"

IInv == /\ TypeOK
        /\ QuietOutsideServing
        /\ MintedFirst
        /\ DestroyedIsQuiet
        /\ AnnouncedIsGone
        /\ BusyHasOwner
        /\ WarmIsBackedAtStartup

-----------------------------------------------------------------------------
(* One step per action.                                                    *)

\* Reconciliation touches no handler, and of the store only meta.json's state.
LEMMA ReconcileEffect ==
  ASSUME Reconcile
  PROVE  /\ daemon = "cleaned" /\ daemon' \in {"reconciled", "unreconciled"}
         /\ UNCHANGED <<mode, minted, pc, on, emitted>>
         /\ meta' = [i \in Sandboxes |->
              IF i \in Active \ container THEN "DESTROYED" ELSE meta[i]]
BY DEF Reconcile

\* One step per action; each disturbs few enough conjuncts to prove them together.
LEMMA Inductive ==
  ASSUME IInv, [Next]_vars, TypeOK' PROVE IInv'
<1> USE DEF IInv, TypeOK, QuietOutsideServing, MintedFirst, DestroyedIsQuiet, WriterSteps,
            CreateSteps, ClaimedSteps, AnnouncedIsGone, BusyHasOwner, WarmIsBackedAtStartup,
            store, backend, Goto, Reply, Accept, SetState, Remove, Readable, States, Emit
<1>1. ASSUME NEW h \in Handlers, HandlerStep(h) PROVE IInv'
  <2>1. CASE CreateContainer(h) BY <2>1 DEF CreateContainer
  <2>2. CASE VerifyContainer(h) BY <2>2 DEF VerifyContainer
  <2>3. CASE TearDownContainer(h) BY <2>3 DEF TearDownContainer
  <2>4. CASE UndoCreate(h) BY <2>4 DEF UndoCreate
  <2>5. CASE MarkWarm(h) BY <2>5 DEF MarkWarm
  <2>6. CASE AnnounceCreated(h) BY <2>6 DEF AnnounceCreated
  <2>7. CASE TouchLastUsed(h) BY <2>7 DEF TouchLastUsed
  <2>8. CASE MarkExecuting(h) BY <2>8 DEF MarkExecuting
  <2>9. CASE EnsureContainer(h) BY <2>9 DEF EnsureContainer
  <2>10. CASE ReuseContainer(h) BY <2>10 DEF ReuseContainer
  <2>11. CASE RunEnds(h) BY <2>11 DEF RunEnds
  <2>12. CASE RecordRun(h) BY <2>12 DEF RecordRun
  <2>13. CASE Release(h) BY <2>13 DEF Release
  <2>14. CASE UpgradeShell(h) BY <2>14 DEF UpgradeShell
  <2>15. CASE MarkShell(h) BY <2>15 DEF MarkShell
  <2>16. CASE MarkDestroying(h) BY <2>16 DEF MarkDestroying
  <2>17. CASE RemoveContainer(h) BY <2>17 DEF RemoveContainer
  <2>18. CASE RemoveVolumes(h) BY <2>18 DEF RemoveVolumes
  <2>19. CASE Forget(h) BY <2>19 DEF Forget
  <2>20. CASE AnnounceDestroyed(h) BY <2>20 DEF AnnounceDestroyed
  <2> QED
    BY <1>1, <2>1, <2>2, <2>3, <2>4, <2>5, <2>6, <2>7, <2>8, <2>9, <2>10,
       <2>11, <2>12, <2>13, <2>14, <2>15, <2>16, <2>17, <2>18, <2>19, <2>20
    DEF HandlerStep
<1>2. ASSUME NEW h \in Handlers, ClientStep(h) PROVE IInv'
  <2>1. ASSUME NEW i \in Sandboxes, CreateStore(h, i) PROVE IInv'
    BY <2>1 DEF CreateStore
  <2>2. ASSUME NEW i \in Sandboxes, AdmitExec(h, i) PROVE IInv'
    BY <2>2 DEF AdmitExec
  <2>3. ASSUME NEW i \in Sandboxes, AdmitShell(h, i) PROVE IInv'
    BY <2>3 DEF AdmitShell
  <2>4. ASSUME NEW i \in Sandboxes, AdmitDelete(h, i) PROVE IInv'
    BY <2>4 DEF AdmitDelete
  <2>5. CASE AnswerTaken(h) \/ ShellEnds(h) BY <2>5 DEF AnswerTaken, ShellEnds
  <2> QED BY <1>2, <2>1, <2>2, <2>3, <2>4, <2>5 DEF ClientStep
<1>3. CASE StartupStep
  <2>1. CASE OrphanCleanup BY <2>1 DEF OrphanCleanup
  <2>2. CASE ReconcileNothing BY <2>2 DEF ReconcileNothing, Active
  <2>3. CASE Reconcile
    <3>1. WarmIsBackedAtStartup'
      BY <2>3 DEF Reconcile, Active
    <3>2. BusyHasOwner'
      BY <2>3, ReconcileEffect
    <3>3. QuietOutsideServing' /\ DestroyedIsQuiet'
      BY <2>3, ReconcileEffect
    <3>4. MintedFirst' /\ AnnouncedIsGone'
      BY <2>3, ReconcileEffect DEF Active
    <3> QED BY <3>1, <3>2, <3>3, <3>4
  <2>4. CASE ReconcileFails BY <2>4 DEF ReconcileFails
  <2>5. CASE Serve BY <2>5 DEF Serve
  <2> QED BY <1>3, <2>1, <2>2, <2>3, <2>4, <2>5 DEF StartupStep
<1>4. CASE Crash BY <1>4 DEF Crash
<1>5. ASSUME NEW i \in Sandboxes, ContainerVanishes(i) PROVE IInv'
  BY <1>5 DEF ContainerVanishes
<1>6. CASE UNCHANGED vars BY <1>6 DEF vars
<1> QED BY <1>1, <1>2, <1>3, <1>4, <1>5, <1>6 DEF Next

-----------------------------------------------------------------------------
(* The theorems.                                                           *)

\* Together the conjuncts are inductive.
LEMMA Invariance == Spec => []IInv
<1> USE DEF IInv
<1>1. Init => IInv
  <2> SUFFICES ASSUME Init PROVE IInv
    OBVIOUS
  <2>1. TypeOK
    BY ConstantsAssumption DEF Init, TypeOK, Steps, MetaValues, Phases
  <2> QED
    BY <2>1 DEF Init, QuietOutsideServing, MintedFirst, DestroyedIsQuiet, WriterSteps,
         CreateSteps, ClaimedSteps, AnnouncedIsGone, BusyHasOwner, WarmIsBackedAtStartup
<1>2. TypeOK' /\ IInv /\ [Next]_vars => IInv'
  BY Inductive
<1> QED BY <1>1, <1>2, TypeCorrect, PTL DEF Spec

\* BusyHasOwner: in every reachable state, whatever raced, failed or crashed,
\* a CREATING or EXECUTING sandbox has a live request that will move it on.
THEOREM BusyAlwaysOwned == Spec => []BusyHasOwner
BY Invariance, PTL DEF IInv

\* WarmIsBackedAtStartup: a daemon that has reconciled opens with a container
\* behind every WARM compat sandbox.
THEOREM WarmAlwaysBacked == Spec => []WarmIsBackedAtStartup
BY Invariance, PTL DEF IInv

\* DestroyedEventIsFinal: pi.sandbox.destroyed is told only of sandboxes whose
\* record is gone, and it stays gone.
THEOREM DestroyedEventFinal == Spec => []DestroyedEventIsFinal
<1>1. TypeOK /\ AnnouncedIsGone => DestroyedEventIsFinal
  BY DEF AnnouncedIsGone, DestroyedEventIsFinal
<1> QED BY <1>1, Invariance, PTL DEF IInv

-----------------------------------------------------------------------------
(* What a step may never do.                                               *)

\* An absent record of a minted id stays absent, a DESTROYED one is not revived.
NoRevival == \A i \in Sandboxes :
  /\ i \in minted /\ meta[i] = "ABSENT" => meta'[i] = "ABSENT"
  /\ meta[i] = "DESTROYED" => meta'[i] \notin {"CREATING", "WARM", "EXECUTING"}

\* The record's writers find meta.json unreadable or work on a sandbox that is
\* not DESTROYED: DestroyedIsQuiet is what makes the second half hold.
LEMMA NoRevivalStep ==
  ASSUME TypeOK, MintedFirst, DestroyedIsQuiet, [Next]_vars PROVE NoRevival
<1> USE DEF NoRevival, TypeOK, MintedFirst, DestroyedIsQuiet, WriterSteps, CreateSteps,
            ClaimedSteps, store, SetState, Remove, Readable, States
<1>1. ASSUME NEW h \in Handlers, HandlerStep(h) PROVE NoRevival
  <2>1. CASE CreateContainer(h) BY <2>1 DEF CreateContainer
  <2>2. CASE VerifyContainer(h) BY <2>2 DEF VerifyContainer
  <2>3. CASE TearDownContainer(h) BY <2>3 DEF TearDownContainer
  <2>4. CASE UndoCreate(h) BY <2>4 DEF UndoCreate
  <2>5. CASE MarkWarm(h) BY <2>5 DEF MarkWarm
  <2>6. CASE AnnounceCreated(h) BY <2>6 DEF AnnounceCreated
  <2>7. CASE TouchLastUsed(h) BY <2>7 DEF TouchLastUsed
  <2>8. CASE MarkExecuting(h) BY <2>8 DEF MarkExecuting
  <2>9. CASE EnsureContainer(h) BY <2>9 DEF EnsureContainer
  <2>10. CASE ReuseContainer(h) BY <2>10 DEF ReuseContainer
  <2>11. CASE RunEnds(h) BY <2>11 DEF RunEnds
  <2>12. CASE RecordRun(h) BY <2>12 DEF RecordRun
  <2>13. CASE Release(h) BY <2>13 DEF Release
  <2>14. CASE UpgradeShell(h) BY <2>14 DEF UpgradeShell
  <2>15. CASE MarkShell(h) BY <2>15 DEF MarkShell
  <2>16. CASE MarkDestroying(h) BY <2>16 DEF MarkDestroying
  <2>17. CASE RemoveContainer(h) BY <2>17 DEF RemoveContainer
  <2>18. CASE RemoveVolumes(h) BY <2>18 DEF RemoveVolumes
  <2>19. CASE Forget(h) BY <2>19 DEF Forget
  <2>20. CASE AnnounceDestroyed(h) BY <2>20 DEF AnnounceDestroyed
  <2> QED
    BY <1>1, <2>1, <2>2, <2>3, <2>4, <2>5, <2>6, <2>7, <2>8, <2>9, <2>10, <2>11,
       <2>12, <2>13, <2>14, <2>15, <2>16, <2>17, <2>18, <2>19, <2>20
    DEF HandlerStep
<1>2. ASSUME NEW h \in Handlers, ClientStep(h) PROVE NoRevival
  <2>1. ASSUME NEW i \in Sandboxes, CreateStore(h, i) PROVE NoRevival
    BY <2>1 DEF CreateStore
  <2>2. ASSUME NEW i \in Sandboxes, AdmitExec(h, i) PROVE NoRevival
    BY <2>2 DEF AdmitExec
  <2>3. ASSUME NEW i \in Sandboxes, AdmitShell(h, i) PROVE NoRevival
    BY <2>3 DEF AdmitShell
  <2>4. ASSUME NEW i \in Sandboxes, AdmitDelete(h, i) PROVE NoRevival
    BY <2>4 DEF AdmitDelete
  <2>5. CASE AnswerTaken(h) \/ ShellEnds(h) BY <2>5 DEF AnswerTaken, ShellEnds
  <2> QED BY <1>2, <2>1, <2>2, <2>3, <2>4, <2>5 DEF ClientStep
<1>3. CASE StartupStep
  <2>1. CASE OrphanCleanup BY <2>1 DEF OrphanCleanup
  <2>2. CASE ReconcileNothing BY <2>2 DEF ReconcileNothing
  <2>3. CASE Reconcile BY <2>3, ReconcileEffect DEF Active
  <2>4. CASE ReconcileFails BY <2>4 DEF ReconcileFails
  <2>5. CASE Serve BY <2>5 DEF Serve
  <2> QED BY <1>3, <2>1, <2>2, <2>3, <2>4, <2>5 DEF StartupStep
<1>4. CASE Crash BY <1>4 DEF Crash
<1>5. ASSUME NEW i \in Sandboxes, ContainerVanishes(i) PROVE NoRevival
  BY <1>5 DEF ContainerVanishes
<1>6. CASE UNCHANGED vars BY <1>6 DEF vars
<1> QED BY <1>1, <1>2, <1>3, <1>4, <1>5, <1>6 DEF Next

\* NoResurrection: a deleted sandbox never comes back, whichever late writer
\* still holds its id.
THEOREM NeverResurrected == Spec => NoResurrection
<1>1. IInv /\ [Next]_vars => [\A i \in minted : meta[i] = "ABSENT" => meta'[i] = "ABSENT"]_vars
  BY NoRevivalStep DEF IInv, NoRevival, TypeOK
<1> QED BY <1>1, Invariance, PTL DEF Spec, NoResurrection

\* DestroyedNeverRevives: no request moves a sandbox on that startup has
\* declared DESTROYED.
THEOREM DestroyedForGood == Spec => DestroyedNeverRevives
<1>1. IInv /\ [Next]_vars =>
        [\A i \in Sandboxes :
           meta[i] = "DESTROYED" => meta'[i] \notin {"CREATING", "WARM", "EXECUTING"}]_vars
  BY NoRevivalStep DEF IInv, NoRevival
<1> QED BY <1>1, Invariance, PTL DEF Spec, DestroyedNeverRevives

-----------------------------------------------------------------------------
(* The refinement: as far as the record shows, every step is a birth, a     *)
(* death, an announcement or nothing.                                       *)

\* A step that keeps the set of absent records and tells nobody is invisible.
LEMMA Invisible ==
  ASSUME UNCHANGED <<minted, emitted>>,
         \A i \in Sandboxes : meta'[i] = "ABSENT" <=> meta[i] = "ABSENT"
  PROVE  UNCHANGED <<Phase, emitted>>
BY DEF Phase

\* Removing the directory of a minted id is a death, or nothing if it was gone.
LEMMA RemovalIsDeath ==
  ASSUME TypeOK, NEW i \in Sandboxes, i \in minted, Remove(i), UNCHANGED emitted
  PROVE  Record!Death(i) \/ UNCHANGED <<Phase, emitted>>
<1>1. CASE meta[i] = "ABSENT"
  BY <1>1, Invisible DEF Remove, TypeOK
<1>2. CASE meta[i] # "ABSENT"
  <2>1. Phase[i] = "live"
    BY <1>2 DEF Phase
  <2>2. Phase' = [Phase EXCEPT ![i] = "gone"]
    BY DEF Remove, TypeOK, Phase
  <2> QED BY <2>1, <2>2 DEF Record!Death
<1> QED BY <1>1, <1>2

\* Every step of the handlers, of startup and of a crash is a step of the record.
LEMMA RecordStep ==
  ASSUME TypeOK, MintedFirst, AnnouncedIsGone, [Next]_vars
  PROVE  [Record!RecordNext]_<<Phase, emitted>>
<1> USE DEF TypeOK, store, SetState, Readable, States
<1>1. ASSUME NEW h \in Handlers, HandlerStep(h)
        PROVE  [Record!RecordNext]_<<Phase, emitted>>
  <2>1. CASE CreateContainer(h) BY <2>1, Invisible DEF CreateContainer
  <2>2. CASE VerifyContainer(h) BY <2>2, Invisible DEF VerifyContainer
  <2>3. CASE TearDownContainer(h) BY <2>3, Invisible DEF TearDownContainer
  <2>4. CASE UndoCreate(h)
    <3>1. on[h] \in Sandboxes /\ on[h] \in minted /\ Remove(on[h]) /\ UNCHANGED emitted
      BY <2>4 DEF UndoCreate, MintedFirst
    <3> QED BY <3>1, RemovalIsDeath DEF Record!RecordNext
  <2>5. CASE MarkWarm(h) BY <2>5, Invisible DEF MarkWarm
  <2>6. CASE AnnounceCreated(h)
    <3>1. on[h] \in Sandboxes /\ on[h] \in minted
      BY <2>6 DEF AnnounceCreated, MintedFirst
    <3>2. UNCHANGED Phase /\ Phase[on[h]] # "unborn"
      BY <2>6, <3>1 DEF AnnounceCreated, Phase
    <3>3. Record!TellCreated(on[h])
      BY <2>6, <3>2 DEF AnnounceCreated, Emit, Record!TellCreated
    <3> QED BY <3>1, <3>3 DEF Record!RecordNext
  <2>7. CASE TouchLastUsed(h) BY <2>7, Invisible DEF TouchLastUsed
  <2>8. CASE MarkExecuting(h) BY <2>8, Invisible DEF MarkExecuting
  <2>9. CASE EnsureContainer(h) BY <2>9, Invisible DEF EnsureContainer
  <2>10. CASE ReuseContainer(h) BY <2>10, Invisible DEF ReuseContainer
  <2>11. CASE RunEnds(h) BY <2>11, Invisible DEF RunEnds
  <2>12. CASE RecordRun(h) BY <2>12, Invisible DEF RecordRun
  <2>13. CASE Release(h) BY <2>13, Invisible DEF Release
  <2>14. CASE UpgradeShell(h) BY <2>14, Invisible DEF UpgradeShell
  <2>15. CASE MarkShell(h) BY <2>15, Invisible DEF MarkShell
  <2>16. CASE MarkDestroying(h) BY <2>16, Invisible DEF MarkDestroying
  <2>17. CASE RemoveContainer(h) BY <2>17, Invisible DEF RemoveContainer
  <2>18. CASE RemoveVolumes(h) BY <2>18, Invisible DEF RemoveVolumes
  <2>19. CASE Forget(h)
    <3>1. on[h] \in Sandboxes /\ on[h] \in minted /\ Remove(on[h]) /\ UNCHANGED emitted
      BY <2>19 DEF Forget, MintedFirst
    <3> QED BY <3>1, RemovalIsDeath DEF Record!RecordNext
  <2>20. CASE AnnounceDestroyed(h)
    <3>1. on[h] \in Sandboxes /\ on[h] \in minted /\ meta[on[h]] = "ABSENT"
      BY <2>20 DEF AnnounceDestroyed, MintedFirst, AnnouncedIsGone
    <3>2. UNCHANGED Phase /\ Phase[on[h]] = "gone"
      BY <2>20, <3>1 DEF AnnounceDestroyed, Phase
    <3>3. Record!TellDestroyed(on[h])
      BY <2>20, <3>2 DEF AnnounceDestroyed, Emit, Record!TellDestroyed
    <3> QED BY <3>1, <3>3 DEF Record!RecordNext
  <2> QED
    BY <1>1, <2>1, <2>2, <2>3, <2>4, <2>5, <2>6, <2>7, <2>8, <2>9, <2>10, <2>11,
       <2>12, <2>13, <2>14, <2>15, <2>16, <2>17, <2>18, <2>19, <2>20
    DEF HandlerStep
<1>2. ASSUME NEW h \in Handlers, ClientStep(h)
        PROVE  [Record!RecordNext]_<<Phase, emitted>>
  <2>1. ASSUME NEW i \in Sandboxes, CreateStore(h, i)
        PROVE  [Record!RecordNext]_<<Phase, emitted>>
    <3>1. i \notin minted /\ meta' = [meta EXCEPT ![i] = "CREATING"]
          /\ minted' = minted \union {i} /\ UNCHANGED emitted
      BY <2>1 DEF CreateStore
    <3>2. Phase[i] = "unborn" /\ Phase' = [Phase EXCEPT ![i] = "live"]
      BY <3>1 DEF Phase
    <3> QED BY <3>1, <3>2 DEF Record!Birth, Record!RecordNext
  <2>2. ASSUME NEW i \in Sandboxes, AdmitExec(h, i)
        PROVE  [Record!RecordNext]_<<Phase, emitted>>
    BY <2>2, Invisible DEF AdmitExec
  <2>3. ASSUME NEW i \in Sandboxes, AdmitShell(h, i)
        PROVE  [Record!RecordNext]_<<Phase, emitted>>
    BY <2>3, Invisible DEF AdmitShell
  <2>4. ASSUME NEW i \in Sandboxes, AdmitDelete(h, i)
        PROVE  [Record!RecordNext]_<<Phase, emitted>>
    BY <2>4, Invisible DEF AdmitDelete
  <2>5. CASE AnswerTaken(h) \/ ShellEnds(h) BY <2>5, Invisible DEF AnswerTaken, ShellEnds
  <2> QED BY <1>2, <2>1, <2>2, <2>3, <2>4, <2>5 DEF ClientStep
<1>3. CASE StartupStep
  <2>1. CASE OrphanCleanup BY <2>1, Invisible DEF OrphanCleanup
  <2>2. CASE ReconcileNothing BY <2>2, Invisible DEF ReconcileNothing
  <2>3. CASE Reconcile BY <2>3, Invisible, ReconcileEffect DEF Active
  <2>4. CASE ReconcileFails BY <2>4, Invisible DEF ReconcileFails
  <2>5. CASE Serve BY <2>5, Invisible DEF Serve
  <2> QED BY <1>3, <2>1, <2>2, <2>3, <2>4, <2>5 DEF StartupStep
<1>4. CASE Crash BY <1>4, Invisible DEF Crash
<1>5. ASSUME NEW i \in Sandboxes, ContainerVanishes(i)
        PROVE  [Record!RecordNext]_<<Phase, emitted>>
  BY <1>5, Invisible DEF ContainerVanishes
<1>6. CASE UNCHANGED vars BY <1>6 DEF vars, Phase
<1> QED BY <1>1, <1>2, <1>3, <1>4, <1>5, <1>6 DEF Next

\* ImplementsRecord: the store with all its races, failures and crashes implements
\* the record of SandboxRecord, in which an id is born once and dies once.
THEOREM RecordImplemented == Spec => ImplementsRecord
<1>1. Init => Record!RecordInit
  BY DEF Init, Record!RecordInit, Phase
<1>2. IInv /\ [Next]_vars => [Record!RecordNext]_(Record!recordVars)
  BY RecordStep DEF IInv, Record!recordVars
<1> QED BY <1>1, <1>2, Invariance, PTL DEF Spec, ImplementsRecord, Record!RecordSpec
=============================================================================
