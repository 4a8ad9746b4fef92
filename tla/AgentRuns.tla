------------------------------ MODULE AgentRuns ------------------------------
(***************************************************************************)
(* Agent runs (pkg/sandbox/agent_run.go, pkg/api/agent_run.go): the store  *)
(* of runs, which lives in the daemon's memory, the request that starts a  *)
(* run, the goroutine that supervises it, the requests that cancel it, and *)
(* the launcher CompleteAgentRun is written for (it has no caller yet).    *)
(*                                                                         *)
(* Create and UpdateState hold the store's lock and are one step each.     *)
(* Between an UpdateState and the event it earns, any other goroutine runs.*)
(***************************************************************************)
EXTENDS Naturals, FiniteSets

CONSTANTS
  Runs,        \* the run ids: each start request mints one
  Sandboxes,   \* sandboxes that are WARM when a start request looks
  Closers,     \* cancel requests and launcher calls in flight
  Outcomes,    \* what they write: "CANCELLED" is the cancel request's
  MaxCrashes,  \* bound: how often the daemon may die
  NoRun

ASSUME RunsAssumption == /\ NoRun \notin Runs
                         /\ Outcomes \subseteq {"COMPLETED", "FAILED", "CANCELLED"}
                         /\ MaxCrashes \in Nat

VARIABLES
  state,       \* AgentRun.State, or "NONE" when the store has no such run
  home,        \* AgentRun.SandboxID
  current,     \* the store's map sandbox -> run
  starter,     \* the step of the request that starts each run
  supervisor,  \* the step of each run's superviseRun goroutine
  closer,      \* what each canceller or launcher call is at
  started,     \* how many pi.run.started were emitted per run
  completed,   \* how many pi.run.completed
  verdicts,    \* the data.status those carried
  cancelled,   \* the runs a client was told are CANCELLED
  crashes

runs   == <<state, home, current>>
told   == <<started, completed, verdicts>>
vars   == <<runs, starter, supervisor, closer, told, cancelled, crashes>>

Terminal == {"COMPLETED", "FAILED", "CANCELLED"}
Active   == {"STARTING", "RUNNING"}
RunStates == {"PENDING"} \union Active \union Terminal

StarterSteps == {"none", "create", "start", "announce", "done"}
SupervisorSteps == {"none", "run", "finish", "announce", "done"}

\* A closer holds the run it read and the state it will write.
Idle == [step |-> "idle", run |-> NoRun, status |-> "CANCELLED"]

TypeOK ==
  /\ state \in [Runs -> RunStates \union {"NONE"}]
  /\ home \in [Runs -> Sandboxes]
  /\ current \in [Sandboxes -> Runs \union {NoRun}]
  /\ starter \in [Runs -> StarterSteps]
  /\ supervisor \in [Runs -> SupervisorSteps]
  /\ closer \in [Closers -> [step : {"idle", "finish", "announce", "answer"},
                             run : Runs \union {NoRun}, status : Terminal]]
  /\ \A c \in Closers : closer[c].run = NoRun <=> closer[c].step = "idle"
  /\ started \in [Runs -> Nat]
  /\ completed \in [Runs -> Nat]
  /\ verdicts \in [Runs -> SUBSET Terminal]
  /\ cancelled \subseteq Runs
  /\ crashes \in 0..MaxCrashes

Init ==
  /\ state = [r \in Runs |-> "NONE"]
  /\ home \in [Runs -> Sandboxes]
  /\ current = [s \in Sandboxes |-> NoRun]
  /\ starter = [r \in Runs |-> "none"]
  /\ supervisor = [r \in Runs |-> "none"]
  /\ closer = [c \in Closers |-> Idle]
  /\ started = [r \in Runs |-> 0]
  /\ completed = [r \in Runs |-> 0]
  /\ verdicts = [r \in Runs |-> {}]
  /\ cancelled = {}
  /\ crashes = 0

-----------------------------------------------------------------------------
\* Mutant: a terminal run is updated like any other.
UpdatableWhenKnown(r) == state[r] # "NONE"

\* UpdateState refuses a run that is missing or terminal, whatever the order
\* of the other states.
Updatable(r) == state[r] \in RunStates \ Terminal

UpdateState(r, s) == /\ Updatable(r)
                     /\ state' = [state EXCEPT ![r] = s]

EmitCompleted(r, status) ==
  /\ completed' = [completed EXCEPT ![r] = @ + 1]
  /\ verdicts'  = [verdicts EXCEPT ![r] = @ \union {status}]
  /\ UNCHANGED started

(* POST /v1/sandboxes/{id}/agent-run, with the sandbox WARM.               *)

AdmitStart(r) ==
  /\ starter[r] = "none"
  /\ starter' = [starter EXCEPT ![r] = "create"]
  /\ UNCHANGED <<runs, supervisor, closer, told, cancelled, crashes>>

\* Create refuses while the sandbox's latest run is STARTING or RUNNING.
Busy(s) == current[s] # NoRun /\ state[current[s]] \in Active

CreateRun(r) ==
  /\ starter[r] = "create"
  /\ ~Busy(home[r])
  /\ state'   = [state EXCEPT ![r] = "PENDING"]
  /\ current' = [current EXCEPT ![home[r]] = r]
  /\ starter' = [starter EXCEPT ![r] = "start"]
  /\ UNCHANGED <<home, supervisor, closer, told, cancelled, crashes>>

RefuseRun(r) ==
  /\ starter[r] = "create"
  /\ Busy(home[r])
  /\ starter' = [starter EXCEPT ![r] = "done"]
  /\ UNCHANGED <<runs, supervisor, closer, told, cancelled, crashes>>

StartRun(r) ==
  /\ starter[r] = "start"
  /\ \/ /\ UpdateState(r, "STARTING")
        /\ starter' = [starter EXCEPT ![r] = "announce"]
     \/ /\ ~Updatable(r)
        /\ starter' = [starter EXCEPT ![r] = "done"]
        /\ UNCHANGED state
  /\ UNCHANGED <<home, current, supervisor, closer, told, cancelled, crashes>>

\* Emit pi.run.started, then `go superviseRun` and answer 201.
AnnounceStarted(r) ==
  /\ starter[r] = "announce"
  /\ started'    = [started EXCEPT ![r] = @ + 1]
  /\ supervisor' = [supervisor EXCEPT ![r] = "run"]
  /\ starter'    = [starter EXCEPT ![r] = "done"]
  /\ UNCHANGED <<runs, closer, completed, verdicts, cancelled, crashes>>

-----------------------------------------------------------------------------
(* superviseRun.                                                           *)

\* Mutant: the supervisor writes RUNNING without UpdateState's check.
SuperviseBlindly(r) ==
  /\ supervisor[r] = "run"
  /\ state' = [state EXCEPT ![r] = "RUNNING"]
  /\ supervisor' = [supervisor EXCEPT ![r] = "finish"]
  /\ UNCHANGED <<home, current, starter, closer, told, cancelled, crashes>>

Supervise(r) ==
  /\ supervisor[r] = "run"
  /\ \/ /\ UpdateState(r, "RUNNING")
        /\ supervisor' = [supervisor EXCEPT ![r] = "finish"]
     \/ /\ ~Updatable(r)
        /\ supervisor' = [supervisor EXCEPT ![r] = "done"]
        /\ UNCHANGED state
  /\ UNCHANGED <<home, current, starter, closer, told, cancelled, crashes>>

\* Mutant: finishRun leaves the event to somebody else.
SupervisorFinishesSilently(r) ==
  /\ supervisor[r] = "finish"
  /\ supervisor' = [supervisor EXCEPT ![r] = "done"]
  /\ UpdateState(r, "COMPLETED") \/ (~Updatable(r) /\ UNCHANGED state)
  /\ UNCHANGED <<home, current, starter, closer, told, cancelled, crashes>>

SupervisorFinishes(r) ==
  /\ supervisor[r] = "finish"
  /\ \/ /\ UpdateState(r, "COMPLETED")
        /\ supervisor' = [supervisor EXCEPT ![r] = "announce"]
     \/ /\ ~Updatable(r)
        /\ supervisor' = [supervisor EXCEPT ![r] = "done"]
        /\ UNCHANGED state
  /\ UNCHANGED <<home, current, starter, closer, told, cancelled, crashes>>

SupervisorAnnounces(r) ==
  /\ supervisor[r] = "announce"
  /\ EmitCompleted(r, "COMPLETED")
  /\ supervisor' = [supervisor EXCEPT ![r] = "done"]
  /\ UNCHANGED <<runs, starter, closer, cancelled, crashes>>

-----------------------------------------------------------------------------
(* POST /v1/agent-runs/{id}/cancel and CompleteAgentRun.                   *)

\* The canceller answers 409 when it reads a terminal state; the launcher does
\* not look.  Neither holds a lock until it finishes the run.
AskClose(c, r, status) ==
  /\ closer[c] = Idle
  /\ state[r] # "NONE"
  /\ status = "CANCELLED" => state[r] \notin Terminal
  /\ closer' = [closer EXCEPT ![c] = [step |-> "finish", run |-> r, status |-> status]]
  /\ UNCHANGED <<runs, starter, supervisor, told, cancelled, crashes>>

\* finishRun: the result of UpdateState decides only whether an event is due.
CloserFinishes(c) ==
  /\ closer[c].step = "finish"
  /\ LET r == closer[c].run
         s == closer[c].status
     IN  \/ /\ UpdateState(r, s)
            /\ closer' = [closer EXCEPT ![c].step = "announce"]
         \/ /\ ~Updatable(r)
            /\ closer' = [closer EXCEPT ![c].step = "answer"]
            /\ UNCHANGED state
  /\ UNCHANGED <<home, current, starter, supervisor, told, cancelled, crashes>>

CloserAnnounces(c) ==
  /\ closer[c].step = "announce"
  /\ EmitCompleted(closer[c].run, closer[c].status)
  /\ closer' = [closer EXCEPT ![c].step = "answer"]
  /\ UNCHANGED <<runs, starter, supervisor, cancelled, crashes>>

\* Mutant: the answered call keeps its run.
CloserAnswersOnce(c) ==
  /\ closer[c].step = "answer"
  /\ cancelled' = IF closer[c].status = "CANCELLED"
                    THEN cancelled \union {closer[c].run} ELSE cancelled
  /\ closer' = [closer EXCEPT ![c].step = "idle"]
  /\ UNCHANGED <<runs, starter, supervisor, told, crashes>>

\* The canceller answers 200 {"state": "CANCELLED"} in any case.
CloserAnswers(c) ==
  /\ closer[c].step = "answer"
  /\ cancelled' = IF closer[c].status = "CANCELLED"
                    THEN cancelled \union {closer[c].run} ELSE cancelled
  /\ closer' = [closer EXCEPT ![c] = Idle]
  /\ UNCHANGED <<runs, starter, supervisor, told, crashes>>

-----------------------------------------------------------------------------
\* The store and every goroutine are memory: nothing of a run outlives them.
Crash ==
  /\ crashes < MaxCrashes
  /\ crashes' = crashes + 1
  /\ state' = [r \in Runs |-> "NONE"]
  /\ current' = [s \in Sandboxes |-> NoRun]
  /\ starter' = [r \in Runs |-> IF starter[r] = "none" THEN "none" ELSE "done"]
  /\ supervisor' = [r \in Runs |-> IF supervisor[r] = "none" THEN "none" ELSE "done"]
  /\ closer' = [c \in Closers |-> Idle]
  /\ UNCHANGED <<home, told, cancelled>>

RunStep(r) ==
  \/ CreateRun(r) \/ RefuseRun(r) \/ StartRun(r) \/ AnnounceStarted(r)
  \/ Supervise(r) \/ SupervisorFinishes(r) \/ SupervisorAnnounces(r)

CloserStep(c) == CloserFinishes(c) \/ CloserAnnounces(c) \/ CloserAnswers(c)

Next ==
  \/ \E r \in Runs : AdmitStart(r) \/ RunStep(r)
  \/ \E c \in Closers : \/ CloserStep(c)
                        \/ \E r \in Runs, status \in Outcomes : AskClose(c, r, status)
  \/ Crash

Spec == Init /\ [][Next]_vars

\* Goroutines are scheduled; clients and the launcher owe nothing.
FairSpec == /\ Spec
            /\ \A r \in Runs : WF_vars(RunStep(r))
            /\ \A c \in Closers : WF_vars(CloserStep(c))

-----------------------------------------------------------------------------
(* The abstract record of a run that this store implements.                *)

Life == [r \in Runs |-> IF state[r] \in Terminal THEN state[r]
                        ELSE IF state[r] # "NONE" THEN "open"
                        ELSE IF starter[r] \in {"none", "create"} THEN "unborn"
                        ELSE "gone"]

Record == INSTANCE AgentRunRecord WITH life <- Life

\* However start request, supervisor, cancellers and launcher race, each step
\* of theirs creates a run, ends it, tells of it as AgentRunRecord allows, or
\* is none of a client's business; and so is the death of the daemon.
ImplementsRunRecord == Record!RecordSpec

-----------------------------------------------------------------------------
(* What holds.                                                             *)

\* Supervisor, cancellers and launcher may all finish a run at once:
\* pi.run.completed is emitted at most once for it, and carries the state the
\* store keeps ("UpdateState rejects a second terminal transition").
CompletedOnce ==
  \A r \in Runs : /\ completed[r] <= 1
                  /\ state[r] # "NONE" => verdicts[r] \subseteq {state[r]}

\* A terminal state is final: only the loss of the whole store ends it.
TerminalIsFinal ==
  [][\A r \in Runs : state[r] \in Terminal => state'[r] \in {state[r], "NONE"}]_vars

\* A run that got going reaches a terminal state and its event, unless the
\* daemon dies: no interleaving of starter, supervisor and closers drops it.
RunsEnd ==
  \A r \in Runs : (state[r] # "NONE") ~>
                    (state[r] = "NONE" \/ (state[r] \in Terminal /\ completed[r] = 1))

-----------------------------------------------------------------------------
(* What the documents say and the code does not do.                        *)

\* "409 if the sandbox ... already has an active run".
OneActiveRun ==
  \A r, q \in Runs :
    home[r] = home[q] /\ state[r] \in Active /\ state[q] \in Active => r = q

\* The cancel endpoint "moves a non-terminal run to CANCELLED. 409 if already
\* terminal": who is told CANCELLED has cancelled the run.
CancelledMeansCancelled ==
  \A r \in cancelled : state[r] \in {"CANCELLED", "NONE"}
=============================================================================
