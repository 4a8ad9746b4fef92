-------------------------- MODULE AgentRunsProofs --------------------------
(***************************************************************************)
(* Proofs about AgentRuns, for every set of runs, sandboxes and closers.   *)
(***************************************************************************)
EXTENDS AgentRuns, TLAPS

\* A counter below its bound may count once more.
LEMMA CrashCount ==
  ASSUME NEW n \in Nat, NEW k \in 0..n, k < n PROVE k + 1 \in 0..n
OBVIOUS

\* Every variable keeps its range, and a closer holds a run exactly while it
\* has steps to take.
LEMMA TypeCorrect == Spec => []TypeOK
<1> USE RunsAssumption DEF TypeOK, RunStates, Active, Terminal, StarterSteps,
        SupervisorSteps, Idle, runs, told
<1>1. Init => TypeOK
  BY DEF Init
<1>2. TypeOK /\ [Next]_vars => TypeOK'
  <2> SUFFICES ASSUME TypeOK, [Next]_vars PROVE TypeOK'
    OBVIOUS
  <2> USE DEF UpdateState, Updatable, EmitCompleted, Busy
  <2>1. ASSUME NEW r \in Runs, AdmitStart(r) PROVE TypeOK'
    BY <2>1 DEF AdmitStart
  <2>2. ASSUME NEW r \in Runs, RunStep(r) PROVE TypeOK'
    <3>1. CASE CreateRun(r) BY <3>1 DEF CreateRun
    <3>2. CASE RefuseRun(r) BY <3>2 DEF RefuseRun
    <3>3. CASE StartRun(r) BY <3>3 DEF StartRun
    <3>4. CASE AnnounceStarted(r) BY <3>4 DEF AnnounceStarted
    <3>5. CASE Supervise(r) BY <3>5 DEF Supervise
    <3>6. CASE SupervisorFinishes(r) BY <3>6 DEF SupervisorFinishes
    <3>7. CASE SupervisorAnnounces(r) BY <3>7 DEF SupervisorAnnounces
    <3> QED BY <2>2, <3>1, <3>2, <3>3, <3>4, <3>5, <3>6, <3>7 DEF RunStep
  <2>3. ASSUME NEW c \in Closers, CloserStep(c) PROVE TypeOK'
    <3>1. CASE CloserFinishes(c)
      <4>1. closer' \in {[closer EXCEPT ![c].step = "announce"],
                        [closer EXCEPT ![c].step = "answer"]}
        BY <3>1 DEF CloserFinishes
      <4>2. closer[c].step = "finish"
        BY <3>1 DEF CloserFinishes
      <4>3. state' \in [Runs -> RunStates \union {"NONE"}]
        BY <3>1 DEF CloserFinishes
      <4> QED BY <3>1, <4>1, <4>2, <4>3 DEF CloserFinishes
    <3>2. CASE CloserAnnounces(c) BY <3>2 DEF CloserAnnounces
    <3>3. CASE CloserAnswers(c) BY <3>3 DEF CloserAnswers
    <3> QED BY <2>3, <3>1, <3>2, <3>3 DEF CloserStep
  <2>4. ASSUME NEW c \in Closers, NEW r \in Runs, NEW status \in Outcomes,
               AskClose(c, r, status)
        PROVE  TypeOK'
    BY <2>4 DEF AskClose
  <2>5. CASE Crash
    <3>1. crashes' \in 0..MaxCrashes
      BY <2>5, CrashCount DEF Crash
    <3> QED BY <2>5, <3>1 DEF Crash
  <2>6. CASE UNCHANGED vars
    BY <2>6 DEF vars
  <2> QED BY <2>1, <2>2, <2>3, <2>4, <2>5, <2>6 DEF Next
<1> QED BY <1>1, <1>2, PTL DEF Spec

-----------------------------------------------------------------------------
(* The inductive invariant: who has written a terminal state owes one       *)
(* event, nobody else owes it, and it is emitted after the state is final.  *)

\* A run nobody created has no state, no supervisor and no event.
Untouched == \A r \in Runs : starter[r] \in {"none", "create"} =>
                               /\ state[r] = "NONE" /\ supervisor[r] = "none"
                               /\ completed[r] = 0

OpenIsUntold == \A r \in Runs : /\ Updatable(r) => completed[r] = 0
                                /\ completed[r] = 0 => verdicts[r] = {}

SupervisorOwes == \A r \in Runs :
  supervisor[r] = "announce" => state[r] = "COMPLETED" /\ completed[r] = 0

Owes(c) == closer[c].step = "announce"

CloserOwes == \A c \in Closers :
  /\ Owes(c) => /\ state[closer[c].run] = closer[c].status
                /\ completed[closer[c].run] = 0
                /\ supervisor[closer[c].run] # "announce"
  /\ closer[c].run # NoRun => state[closer[c].run] # "NONE"

OneOwes == \A c, d \in Closers :
  Owes(c) /\ Owes(d) /\ c # d => closer[c].run # closer[d].run

\* The request that starts a run has told of nothing before it does, and by
\* then the run is in the store.
StarterTells == \A r \in Runs :
  /\ starter[r] # "done" => started[r] = 0
  /\ starter[r] = "announce" => state[r] # "NONE"

IInv == /\ TypeOK
        /\ Untouched
        /\ StarterTells
        /\ OpenIsUntold
        /\ SupervisorOwes
        /\ CloserOwes
        /\ OneOwes
        /\ CompletedOnce

\* One step per action; every conjunct is small enough to go with the others.
LEMMA Inductive ==
  ASSUME IInv, [Next]_vars, TypeOK' PROVE IInv'
<1> USE RunsAssumption DEF IInv, TypeOK, RunStates, Active, Terminal, StarterSteps,
        SupervisorSteps, Idle, runs, told, UpdateState, Updatable, EmitCompleted,
        Untouched, StarterTells, OpenIsUntold, SupervisorOwes, Owes, CloserOwes, OneOwes,
        CompletedOnce
<1>1. ASSUME NEW r \in Runs, AdmitStart(r) PROVE IInv'
  BY <1>1 DEF AdmitStart
<1>2. ASSUME NEW r \in Runs, RunStep(r) PROVE IInv'
  <2>1. CASE CreateRun(r) BY <2>1 DEF CreateRun
  <2>2. CASE RefuseRun(r) BY <2>2 DEF RefuseRun
  <2>3. CASE StartRun(r) BY <2>3 DEF StartRun
  <2>4. CASE AnnounceStarted(r) BY <2>4 DEF AnnounceStarted
  <2>5. CASE Supervise(r) BY <2>5 DEF Supervise
  <2>6. CASE SupervisorFinishes(r) BY <2>6 DEF SupervisorFinishes
  <2>7. CASE SupervisorAnnounces(r) BY <2>7 DEF SupervisorAnnounces
  <2> QED BY <1>2, <2>1, <2>2, <2>3, <2>4, <2>5, <2>6, <2>7 DEF RunStep
<1>3. ASSUME NEW c \in Closers, CloserStep(c) PROVE IInv'
  <2>1. CASE CloserFinishes(c)
    <3>1. /\ closer[c].step = "finish"
          /\ UNCHANGED <<supervisor, starter, started, completed, verdicts>>
      BY <2>1 DEF CloserFinishes
    <3>2. CASE /\ UpdateState(closer[c].run, closer[c].status)
               /\ closer' = [closer EXCEPT ![c].step = "announce"]
      BY <3>1, <3>2
    <3>3. CASE /\ UNCHANGED state
               /\ closer' = [closer EXCEPT ![c].step = "answer"]
      BY <3>1, <3>3
    <3> QED BY <2>1, <3>2, <3>3 DEF CloserFinishes
  <2>2. CASE CloserAnnounces(c) BY <2>2 DEF CloserAnnounces
  <2>3. CASE CloserAnswers(c) BY <2>3 DEF CloserAnswers
  <2> QED BY <1>3, <2>1, <2>2, <2>3 DEF CloserStep
<1>4. ASSUME NEW c \in Closers, NEW r \in Runs, NEW status \in Outcomes,
             AskClose(c, r, status)
      PROVE  IInv'
  BY <1>4 DEF AskClose
<1>5. CASE Crash
  BY <1>5 DEF Crash
<1>6. CASE UNCHANGED vars
  BY <1>6 DEF vars
<1> QED BY <1>1, <1>2, <1>3, <1>4, <1>5, <1>6 DEF Next

LEMMA Invariance == Spec => []IInv
<1>1. TypeOK /\ Init => IInv
  BY DEF Init, IInv, TypeOK, Untouched, StarterTells, OpenIsUntold, Updatable, SupervisorOwes, Owes,
     CloserOwes, OneOwes, CompletedOnce, Idle, RunStates, Active, Terminal
<1>2. TypeOK' /\ IInv /\ [Next]_vars => IInv'
  BY Inductive
<1> QED BY <1>1, <1>2, TypeCorrect, PTL DEF Spec

\* CompletedOnce: however supervisor, cancellers and launcher race, and whenever
\* the daemon dies, pi.run.completed is emitted at most once per run, with the
\* state the store keeps.
THEOREM CompletedAtMostOnce == Spec => []CompletedOnce
BY Invariance, PTL DEF IInv

\* TerminalIsFinal: a terminal state is never left but for the loss of the store.
THEOREM TerminalForGood == Spec => TerminalIsFinal
<1> USE DEF TypeOK, RunStates, Active, Terminal, runs, UpdateState, Updatable
<1>1. ASSUME TypeOK, Untouched, [Next]_vars
      PROVE  \A q \in Runs : state[q] \in Terminal => state'[q] \in {state[q], "NONE"}
  <2>1. ASSUME NEW r \in Runs, AdmitStart(r) PROVE UNCHANGED state
    BY <2>1 DEF AdmitStart
  <2>2. ASSUME NEW r \in Runs, RunStep(r)
        PROVE  \A q \in Runs : state[q] \in Terminal => state'[q] = state[q]
    BY <1>1, <2>2 DEF RunStep, CreateRun, RefuseRun, StartRun, AnnounceStarted, Supervise,
       SupervisorFinishes, SupervisorAnnounces, Untouched
  <2>3. ASSUME NEW c \in Closers, CloserStep(c)
        PROVE  \A q \in Runs : state[q] \in Terminal => state'[q] = state[q]
    BY <1>1, <2>3 DEF CloserStep, CloserFinishes, CloserAnnounces, CloserAnswers
  <2>4. ASSUME NEW c \in Closers, NEW r \in Runs, NEW status \in Outcomes,
               AskClose(c, r, status)
        PROVE  UNCHANGED state
    BY <2>4 DEF AskClose
  <2>5. CASE Crash
    BY <2>5 DEF Crash
  <2>6. CASE UNCHANGED vars
    BY <2>6 DEF vars
  <2> QED BY <1>1, <2>1, <2>2, <2>3, <2>4, <2>5, <2>6 DEF Next
<1>2. IInv /\ [Next]_vars =>
        [\A r \in Runs : state[r] \in Terminal => state'[r] \in {state[r], "NONE"}]_vars
  BY <1>1 DEF IInv
<1> QED BY <1>2, Invariance, PTL DEF Spec, TerminalIsFinal

-----------------------------------------------------------------------------
(* The abstract record: each step of AgentRuns is one of it, or none.       *)

RecordStep == [Record!RecordNext]_(Record!recordVars)

\* What Life makes of a run.
LEMMA LifeIs ==
  ASSUME TypeOK
  PROVE  /\ DOMAIN Life = Runs
         /\ \A r \in Runs :
              /\ state[r] \in Terminal => Life[r] = state[r]
              /\ Updatable(r) => Life[r] = "open"
              /\ state[r] = "NONE" =>
                   Life[r] = IF starter[r] \in {"none", "create"} THEN "unborn" ELSE "gone"
BY DEF Life, TypeOK, RunStates, Active, Terminal, Updatable

\* A step that leaves the events alone and takes one run from one state to
\* another.
LEMMA OneRunMoves ==
  ASSUME TypeOK, TypeOK', NEW r \in Runs, UNCHANGED told,
         \A q \in Runs \ {r} : state'[q] = state[q] /\ starter'[q] = starter[q]
  PROVE  /\ Life' = [Life EXCEPT ![r] = Life'[r]]
         /\ Life'[r] = Life[r] => RecordStep
<1>1. Life' = [Life EXCEPT ![r] = Life'[r]]
  BY DEF Life
<1>2. ASSUME Life'[r] = Life[r] PROVE Life' = Life
  BY <1>1, <1>2 DEF Life
<1> QED BY <1>1, <1>2 DEF RecordStep, Record!recordVars, told

\* UpdateState moves an open run on, or ends it.
LEMMA UpdateIsRecorded ==
  ASSUME TypeOK, TypeOK', NEW r \in Runs, NEW s \in RunStates, UpdateState(r, s),
         \A q \in Runs \ {r} : starter'[q] = starter[q], UNCHANGED told
  PROVE  RecordStep
<1>1. /\ Updatable(r) /\ state'[r] = s
      /\ \A q \in Runs \ {r} : state'[q] = state[q]
  BY DEF UpdateState, TypeOK
<1>2. Life[r] = "open" /\ Life'[r] = IF s \in Terminal THEN s ELSE "open"
  <2>1. s # "NONE" /\ state[r] \notin Terminal /\ state[r] # "NONE"
    BY <1>1 DEF Updatable, RunStates, Active, Terminal
  <2> QED BY <1>1, <2>1 DEF Life
<1>3. CASE s \in Terminal
  <2>1. Life' = [Life EXCEPT ![r] = s]
    BY <1>1, <1>2, <1>3, OneRunMoves
  <2>2. Record!End(r, s) /\ s \in Record!Ends
    BY <1>2, <1>3, <2>1 DEF Record!End, Record!Move, Record!Ends, Terminal, told
  <2> QED BY <2>2 DEF RecordStep, Record!RecordNext
<1>4. CASE s \notin Terminal
  BY <1>1, <1>2, <1>4, OneRunMoves
<1> QED BY <1>3, <1>4

\* No run's state changes, nor whether a start request of it is to come.
LEMMA StateStays ==
  ASSUME UNCHANGED <<state, told>>,
         \A q \in Runs : starter'[q] \in {"none", "create"} <=> starter[q] \in {"none", "create"}
  PROVE  RecordStep
<1>1. Life' = Life
  BY DEF Life
<1> QED BY <1>1 DEF RecordStep, Record!recordVars, told

\* The event a supervisor or a closer owes is that of the record.
LEMMA CompletionIsRecorded ==
  ASSUME IInv, NEW r \in Runs, NEW s \in Terminal, state[r] = s, completed[r] = 0,
         EmitCompleted(r, s), UNCHANGED <<state, starter>>
  PROVE  RecordStep
<1>1. Life' = Life /\ Life[r] = s
  BY DEF Life
<1>2. verdicts[r] = {} /\ completed \in [Runs -> Nat] /\ verdicts \in [Runs -> SUBSET Terminal]
  BY DEF IInv, TypeOK, OpenIsUntold
<1>3. /\ completed' = [completed EXCEPT ![r] = 1] /\ verdicts' = [verdicts EXCEPT ![r] = {s}]
      /\ UNCHANGED started
  BY <1>2 DEF EmitCompleted
<1>4. Record!TellCompleted(r)
  BY <1>1, <1>3 DEF Record!TellCompleted, Record!Ends, Terminal
<1> QED BY <1>4 DEF RecordStep, Record!RecordNext

LEMMA StarterIsRecorded ==
  ASSUME IInv, TypeOK', NEW r \in Runs,
         AdmitStart(r) \/ CreateRun(r) \/ RefuseRun(r) \/ StartRun(r) \/ AnnounceStarted(r)
  PROVE  RecordStep
<1> USE DEF IInv
<1>1. CASE AdmitStart(r)
  <2>1. /\ starter' = [starter EXCEPT ![r] = "create"] /\ starter[r] = "none"
        /\ UNCHANGED <<state, told>>
    BY <1>1 DEF AdmitStart, runs, told
  <2> QED BY <2>1, StateStays DEF TypeOK
<1>2. CASE CreateRun(r)
  <2>1. state[r] = "NONE" /\ state' = [state EXCEPT ![r] = "PENDING"]
        /\ starter[r] = "create" /\ starter' = [starter EXCEPT ![r] = "start"] /\ UNCHANGED told
    BY <1>2 DEF CreateRun, Untouched
  <2>2. Life[r] = "unborn" /\ Life'[r] = "open"
    BY <2>1 DEF Life, TypeOK, Terminal
  <2>3. Life' = [Life EXCEPT ![r] = "open"]
    BY <2>1, <2>2, OneRunMoves DEF TypeOK
  <2>4. Record!Begin(r)
    BY <2>1, <2>2, <2>3 DEF Record!Begin, Record!Move, told
  <2> QED BY <2>4 DEF RecordStep, Record!RecordNext
<1>3. CASE RefuseRun(r)
  <2>1. state[r] = "NONE" /\ UNCHANGED <<state, told>>
        /\ starter[r] = "create" /\ starter' = [starter EXCEPT ![r] = "done"]
    BY <1>3 DEF RefuseRun, Untouched, runs
  <2>2. Life[r] = "unborn" /\ Life'[r] = "gone"
    BY <2>1 DEF Life, TypeOK, Terminal
  <2>3. Life' = [Life EXCEPT ![r] = "gone"]
    BY <2>1, <2>2, OneRunMoves DEF TypeOK
  <2>4. Record!Refuse(r)
    BY <2>1, <2>2, <2>3 DEF Record!Refuse, Record!Move, told
  <2> QED BY <2>4 DEF RecordStep, Record!RecordNext
<1>4. CASE StartRun(r)
  <2>1. /\ UNCHANGED told /\ \A q \in Runs \ {r} : starter'[q] = starter[q]
        /\ starter[r] = "start" /\ starter'[r] \in {"announce", "done"}
    BY <1>4 DEF StartRun, TypeOK
  <2>2. CASE UpdateState(r, "STARTING")
    BY <2>1, <2>2, UpdateIsRecorded DEF RunStates, Active
  <2>3. CASE UNCHANGED state
    BY <2>1, <2>3, StateStays
  <2> QED BY <1>4, <2>2, <2>3 DEF StartRun
<1>5. CASE AnnounceStarted(r)
  <2>1. /\ starter[r] = "announce" /\ starter' = [starter EXCEPT ![r] = "done"]
        /\ started' = [started EXCEPT ![r] = @ + 1] /\ UNCHANGED <<state, completed, verdicts>>
        /\ started[r] = 0 /\ state[r] # "NONE"
    BY <1>5 DEF AnnounceStarted, StarterTells, runs
  <2>2. Life' = Life /\ Life[r] \notin {"unborn", "gone"}
    BY <2>1 DEF Life, TypeOK, Terminal
  <2>3. Record!TellStarted(r)
    BY <2>1, <2>2 DEF Record!TellStarted, TypeOK
  <2> QED BY <2>3 DEF RecordStep, Record!RecordNext
<1> QED BY <1>1, <1>2, <1>3, <1>4, <1>5

\* The daemon dies with all runs that there are and with the requests that
\* were about to create one.
LEMMA CrashIsRecorded == ASSUME IInv, Crash PROVE RecordStep
<1> DEFINE R == {r \in Runs : starter[r] = "create"}
<1>1. /\ state' = [r \in Runs |-> "NONE"] /\ UNCHANGED told
      /\ starter' = [r \in Runs |-> IF starter[r] = "none" THEN "none" ELSE "done"]
  BY DEF Crash
<1>2. \A r \in Runs : Life'[r] = IF starter[r] = "none" THEN "unborn" ELSE "gone"
  BY <1>1 DEF Life, Terminal
<1>3. \A r \in Runs : Life[r] = "unborn" <=> starter[r] \in {"none", "create"}
  BY DEF IInv, Untouched, TypeOK, Life, Terminal
<1>4. Life' = [r \in Runs |-> IF Life[r] = "unborn" /\ r \notin R THEN "unborn" ELSE "gone"]
  <2>1. Life' = [r \in Runs |-> Life'[r]]
    BY DEF Life
  <2> QED BY <1>2, <1>3, <2>1
<1>5. Record!Lose(R)
  BY <1>1, <1>4 DEF Record!Lose, told
<1> QED BY <1>5 DEF RecordStep, Record!RecordNext

LEMMA EveryStepIsRecorded == ASSUME IInv, TypeOK', [Next]_vars PROVE RecordStep
<1>1. ASSUME NEW r \in Runs, RunStep(r) PROVE RecordStep
  <2>1. CASE Supervise(r) \/ SupervisorFinishes(r)
    <3>1. UNCHANGED <<starter, told>>
      BY <2>1 DEF Supervise, SupervisorFinishes
    <3>2. \/ UpdateState(r, "RUNNING") \/ UpdateState(r, "COMPLETED") \/ UNCHANGED state
      BY <2>1 DEF Supervise, SupervisorFinishes
    <3> QED BY <3>1, <3>2, UpdateIsRecorded, StateStays DEF IInv, RunStates, Active, Terminal
  <2>2. CASE SupervisorAnnounces(r)
    <3>1. state[r] = "COMPLETED" /\ completed[r] = 0
      BY <2>2 DEF SupervisorAnnounces, IInv, SupervisorOwes
    <3> QED BY <2>2, <3>1, CompletionIsRecorded DEF SupervisorAnnounces, runs, Terminal
  <2> QED BY <1>1, <2>1, <2>2, StarterIsRecorded DEF RunStep
<1>2. ASSUME NEW c \in Closers, CloserStep(c) PROVE RecordStep
  <2>1. CASE CloserFinishes(c)
    <3>1. closer[c].run \in Runs /\ closer[c].status \in Terminal
      BY <2>1 DEF CloserFinishes, IInv, TypeOK
    <3>2. UNCHANGED <<starter, told>>
      BY <2>1 DEF CloserFinishes
    <3>3. UpdateState(closer[c].run, closer[c].status) \/ UNCHANGED state
      BY <2>1 DEF CloserFinishes
    <3> QED BY <3>1, <3>2, <3>3, UpdateIsRecorded, StateStays DEF IInv, RunStates
  <2>2. CASE CloserAnnounces(c)
    <3>1. closer[c].run \in Runs /\ closer[c].status \in Terminal
      BY <2>2 DEF CloserAnnounces, IInv, TypeOK
    <3>2. state[closer[c].run] = closer[c].status /\ completed[closer[c].run] = 0
      BY <2>2 DEF CloserAnnounces, IInv, CloserOwes, Owes
    <3> QED BY <2>2, <3>1, <3>2, CompletionIsRecorded DEF CloserAnnounces, runs
  <2>3. CASE CloserAnswers(c)
    BY <2>3, StateStays DEF CloserAnswers, runs
  <2> QED BY <1>2, <2>1, <2>2, <2>3 DEF CloserStep
<1>3. ASSUME NEW c \in Closers, NEW r \in Runs, NEW status \in Outcomes, AskClose(c, r, status)
      PROVE  RecordStep
  BY <1>3, StateStays DEF AskClose, runs
<1>4. CASE UNCHANGED vars
  BY <1>4, StateStays DEF vars, runs
<1> QED BY <1>1, <1>2, <1>3, <1>4, StarterIsRecorded, CrashIsRecorded DEF Next

\* ImplementsRunRecord: with all its races and deaths, the store of runs with
\* the goroutines around it implements AgentRunRecord: one creation, one end
\* and one event of each kind per run, the second with the state it ended in.
THEOREM RunRecordImplemented == Spec => ImplementsRunRecord
<1>1. Init => Record!RecordInit
  BY DEF Init, Record!RecordInit, Life, Terminal
<1>2. IInv /\ TypeOK' /\ [Next]_vars => [Record!RecordNext]_(Record!recordVars)
  BY EveryStepIsRecorded DEF RecordStep
<1> QED BY <1>1, <1>2, Invariance, TypeCorrect, PTL DEF Spec, ImplementsRunRecord, Record!RecordSpec
=============================================================================
