---------------------------- MODULE SandboxRecord ----------------------------
(***************************************************************************)
(* What the store of pi-sandboxd promises its clients about a sandbox,     *)
(* with every race, crash and container left out: an id is born once, its  *)
(* record can be used while it lives, and once it is gone it stays gone.   *)
(* The event pi.sandbox.destroyed is told only of a record that is gone,   *)
(* pi.sandbox.created only of an id that was born.                         *)
(***************************************************************************)
CONSTANT Sandboxes

VARIABLES phase,  \* "unborn", "live" or "gone", per sandbox
          told    \* per event, the sandboxes it was told of

recordVars == <<phase, told>>

RecordInit == /\ phase = [i \in Sandboxes |-> "unborn"]
              /\ told = [event \in {"created", "destroyed"} |-> {}]

Birth(i) == /\ phase[i] = "unborn"
            /\ phase' = [phase EXCEPT ![i] = "live"]
            /\ UNCHANGED told

Death(i) == /\ phase[i] = "live"
            /\ phase' = [phase EXCEPT ![i] = "gone"]
            /\ UNCHANGED told

TellCreated(i) == /\ phase[i] # "unborn"
                  /\ told' = [told EXCEPT !["created"] = @ \union {i}]
                  /\ UNCHANGED phase

TellDestroyed(i) == /\ phase[i] = "gone"
                    /\ told' = [told EXCEPT !["destroyed"] = @ \union {i}]
                    /\ UNCHANGED phase

RecordNext == \E i \in Sandboxes :
                Birth(i) \/ Death(i) \/ TellCreated(i) \/ TellDestroyed(i)

RecordSpec == RecordInit /\ [][RecordNext]_recordVars
=============================================================================
