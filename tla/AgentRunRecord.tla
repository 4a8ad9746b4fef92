--------------------------- MODULE AgentRunRecord ---------------------------
(***************************************************************************)
(* What pi-sandboxd promises about an agent run, with every goroutine and  *)
(* race left out: a run is created at most once, ends at most once, in one *)
(* of three states, and each of its two events is emitted at most once:    *)
(* pi.run.started for a run the store has, pi.run.completed for one that   *)
(* has ended, with the state it ended in.  A daemon that dies loses the    *)
(* runs, and with them the events they were still due.                     *)
(***************************************************************************)
EXTENDS Naturals

CONSTANT Runs

VARIABLES
  life,       \* "unborn", "open", the state a run ended in, or "gone"
  started,    \* how many pi.run.started were emitted per run
  completed,  \* how many pi.run.completed
  verdicts    \* the data.status those carried

recordVars == <<life, started, completed, verdicts>>

Ends == {"COMPLETED", "FAILED", "CANCELLED"}

RecordInit ==
  /\ life = [r \in Runs |-> "unborn"]
  /\ started = [r \in Runs |-> 0] /\ completed = [r \in Runs |-> 0]
  /\ verdicts = [r \in Runs |-> {}]

Move(r, from, to) == /\ life[r] = from
                     /\ life' = [life EXCEPT ![r] = to]
                     /\ UNCHANGED <<started, completed, verdicts>>

Begin(r)  == Move(r, "unborn", "open")
Refuse(r) == Move(r, "unborn", "gone")
End(r, s) == Move(r, "open", s)

TellStarted(r) ==
  /\ life[r] \notin {"unborn", "gone"} /\ started[r] = 0
  /\ started' = [started EXCEPT ![r] = 1]
  /\ UNCHANGED <<life, completed, verdicts>>

TellCompleted(r) ==
  /\ life[r] \in Ends /\ completed[r] = 0
  /\ completed' = [completed EXCEPT ![r] = 1]
  /\ verdicts' = [verdicts EXCEPT ![r] = {life[r]}]
  /\ UNCHANGED <<life, started>>

\* The daemon dies with all runs and with the requests R that were to create one.
Lose(R) ==
  /\ life' = [r \in Runs |-> IF life[r] = "unborn" /\ r \notin R THEN "unborn" ELSE "gone"]
  /\ UNCHANGED <<started, completed, verdicts>>

RecordNext ==
  \/ \E r \in Runs : \/ Begin(r) \/ Refuse(r) \/ TellStarted(r) \/ TellCompleted(r)
                     \/ \E s \in Ends : End(r, s)
  \/ \E R \in SUBSET Runs : Lose(R)

RecordSpec == RecordInit /\ [][RecordNext]_recordVars
=============================================================================
