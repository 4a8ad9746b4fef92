-------------------------- MODULE SandboxLifecycle --------------------------
(***************************************************************************)
(* The life of a sandbox in pi-sandboxd: the metadata store                *)
(* (pkg/sandbox/store.go), the HTTP handlers that create, execute in, open *)
(* a shell in and delete a sandbox (pkg/api/sandbox_*.go), the OCI         *)
(* containers and volumes behind "compat" sandboxes (pkg/runtime/compat),  *)
(* and the daemon's crash, orphan cleanup and container reconciliation     *)
(* (pkg/daemon/daemon.go, pkg/sandbox/orphans.go).                         *)
(*                                                                         *)
(* A handler is a goroutine that runs a fixed list of steps.  Every call   *)
(* of the store holds Store.mu and is one step; so is every command sent   *)
(* to the OCI engine.  Between two steps of a handler every other handler  *)
(* may run, the daemon may crash, and nothing the handler read is locked.  *)
(***************************************************************************)
EXTENDS Naturals, FiniteSets

CONSTANTS
  Sandboxes,   \* the sandbox ids the run may mint (UUIDs, never minted twice)
  Handlers,    \* request slots: at most this many requests are in flight
  Ops,         \* the requests clients send
  Modes,       \* the runtime modes a create request may resolve to
  MaxCrashes,  \* bound: how often the daemon may die
  MaxVanish,   \* bound: how many containers are removed behind its back
  NoSandbox    \* what a free request slot works on

ASSUME ConstantsAssumption ==
  /\ Ops \subseteq {"create", "exec", "shell", "delete"}
  /\ Modes \subseteq {"compat", "host"}
  /\ MaxCrashes \in Nat /\ MaxVanish \in Nat
  /\ NoSandbox \notin Sandboxes

VARIABLES
  meta,       \* the state meta.json holds, per sandbox
  mode,       \* the mode meta.json holds: written once, never changed
  minted,     \* the ids NewMeta has returned
  dir,        \* the sandboxes whose directory exists under sandboxes/
  container,  \* the sandboxes with a container named after them
  volumes,    \* the sandboxes with daemon-managed volumes
  pc,         \* the next step of each handler
  on,         \* the sandbox each handler works on
  daemon,     \* the daemon's phase
  emitted,    \* per event type, the sandboxes it was emitted for
  crashes, vanished

store   == <<meta, mode, minted, dir>>
backend == <<container, volumes>>
bounds  == <<crashes, vanished>>
vars    == <<store, backend, pc, on, daemon, emitted, bounds>>

-----------------------------------------------------------------------------
States == {"CREATING", "WARM", "EXECUTING", "DESTROYING", "DESTROYED"}

\* ABSENT: no meta.json.  UNREADABLE: a write of meta.json was cut short.
MetaValues == States \union {"ABSENT", "UNREADABLE"}

CreateSteps == {"containerCreate", "verify", "tearDown", "undo", "warm"}
ClaimedSteps == {"ensure", "reuse", "run", "record", "answer", "shell", "release"}
DeleteSteps == {"markDestroying", "remove", "removeVolumes", "forget"}
Steps == {"idle", "announceCreated", "touch", "mark", "upgrade", "markShell",
          "announceDestroyed"}
         \union CreateSteps \union ClaimedSteps \union DeleteSteps

\* The steps that rewrite meta.json (os.WriteFile truncates, then writes).
SavingSteps == {"warm", "touch", "mark", "markShell", "release", "markDestroying"}

Phases == {"down", "cleaned", "reconciled", "unreconciled", "serving"}

TypeOK ==
  /\ meta \in [Sandboxes -> MetaValues]
  /\ mode \in [Sandboxes -> {"compat", "host", "unset"}]
  /\ minted \subseteq Sandboxes
  /\ dir \subseteq Sandboxes
  /\ container \subseteq Sandboxes
  /\ volumes \subseteq Sandboxes
  /\ pc \in [Handlers -> Steps]
  /\ on \in [Handlers -> Sandboxes \union {NoSandbox}]
  /\ \A h \in Handlers : on[h] = NoSandbox <=> pc[h] = "idle"
  /\ daemon \in Phases
  /\ emitted \in [{"created", "destroyed"} -> SUBSET Sandboxes]
  /\ crashes \in 0..MaxCrashes
  /\ vanished \in 0..MaxVanish

-----------------------------------------------------------------------------
(* The store.  Get and load fail on a missing or unparsable meta.json.     *)

Readable(i) == meta[i] \in States

\* Mutant: the record is written without being read first.
SetStateBlindly(i, s) == meta' = [meta EXCEPT ![i] = s]

\* UpdateState with its error ignored by the caller.
SetState(i, s) == meta' = IF Readable(i) THEN [meta EXCEPT ![i] = s] ELSE meta

\* Delete: the directory and everything under it, whatever was there.
Remove(i) == /\ meta' = [meta EXCEPT ![i] = "ABSENT"]
             /\ dir'  = dir \ {i}
             /\ UNCHANGED <<mode, minted>>

(* Handlers.                                                               *)

Goto(h, step) == /\ pc' = [pc EXCEPT ![h] = step]
                 /\ UNCHANGED on

Accept(h, i, step) == /\ daemon = "serving"
                      /\ pc[h] = "idle"
                      /\ pc' = [pc EXCEPT ![h] = step]
                      /\ on' = [on EXCEPT ![h] = i]

\* Mutant: the answered request keeps its sandbox.
ReplyKeepsSandbox(h) == /\ pc' = [pc EXCEPT ![h] = "idle"]
                        /\ UNCHANGED on

Reply(h) == /\ pc' = [pc EXCEPT ![h] = "idle"]
            /\ on' = [on EXCEPT ![h] = NoSandbox]

Emit(type, i) == emitted' = [emitted EXCEPT ![type] = @ \union {i}]

Init ==
  /\ meta = [i \in Sandboxes |-> "ABSENT"]
  /\ mode = [i \in Sandboxes |-> "unset"]
  /\ minted = {} /\ dir = {} /\ container = {} /\ volumes = {}
  /\ pc = [h \in Handlers |-> "idle"]
  /\ on = [h \in Handlers |-> NoSandbox]
  /\ daemon = "down"
  /\ emitted = [type \in {"created", "destroyed"} |-> {}]
  /\ crashes = 0 /\ vanished = 0

-----------------------------------------------------------------------------
(* POST /v1/sandboxes.                                                     *)

\* Mutant: an id can be minted twice.
CreateStoreReusingIds(h, i) ==
  /\ "create" \in Ops
  /\ \E m \in Modes :
       /\ mode' = [mode EXCEPT ![i] = m]
       /\ Accept(h, i, IF m = "compat" THEN "containerCreate" ELSE "warm")
  /\ meta'   = [meta EXCEPT ![i] = "CREATING"]
  /\ minted' = minted \union {i}
  /\ dir'    = dir \union {i}
  /\ UNCHANGED <<backend, daemon, emitted, bounds>>

CreateStore(h, i) ==
  /\ "create" \in Ops
  /\ i \notin minted
  /\ \E m \in Modes :
       /\ mode' = [mode EXCEPT ![i] = m]
       /\ Accept(h, i, IF m = "compat" THEN "containerCreate" ELSE "warm")
  /\ meta'   = [meta EXCEPT ![i] = "CREATING"]
  /\ minted' = minted \union {i}
  /\ dir'    = dir \union {i}
  /\ UNCHANGED <<backend, daemon, emitted, bounds>>

\* `docker run -d`.  A name in use is refused; a run that fails to start its
\* command, or whose CLI times out, may leave the container behind.
RunContainer(i, ok) ==
  \/ /\ ok /\ i \notin container
     /\ container' = container \union {i}
     /\ volumes'   = volumes \union {i}
  \/ /\ ~ok
     /\ UNCHANGED backend
  \/ /\ ~ok /\ i \notin container
     /\ container' = container \union {i}
     /\ volumes'   = volumes \union {i}

CreateContainer(h) ==
  /\ pc[h] = "containerCreate"
  /\ \E ok \in BOOLEAN :
       /\ RunContainer(on[h], ok)
       /\ Goto(h, IF ok THEN "verify" ELSE "undo")
  /\ UNCHANGED <<store, daemon, emitted, bounds>>

\* The container's State() must be "running" and the chown must succeed.
VerifyContainer(h) ==
  /\ pc[h] = "verify"
  /\ \/ on[h] \in container /\ Goto(h, "warm")
     \/ Goto(h, "tearDown")
  /\ UNCHANGED <<store, backend, daemon, emitted, bounds>>

\* container.Destroy() with its error ignored.
TearDownContainer(h) ==
  /\ pc[h] = "tearDown"
  /\ container' \in {container, container \ {on[h]}}
  /\ Goto(h, "undo")
  /\ UNCHANGED <<store, volumes, daemon, emitted, bounds>>

UndoCreate(h) ==
  /\ pc[h] = "undo"
  /\ Remove(on[h])
  /\ Reply(h)
  /\ UNCHANGED <<backend, daemon, emitted, bounds>>

MarkWarm(h) ==
  /\ pc[h] = "warm"
  /\ SetState(on[h], "WARM")
  /\ Goto(h, "announceCreated")
  /\ UNCHANGED <<mode, minted, dir, backend, daemon, emitted, bounds>>

AnnounceCreated(h) ==
  /\ pc[h] = "announceCreated"
  /\ Emit("created", on[h])
  /\ Reply(h)
  /\ UNCHANGED <<store, backend, daemon, bounds>>

-----------------------------------------------------------------------------
(* POST /v1/sandboxes/{id}/exec and GET /v1/sandboxes/{id}/shell.  The      *)
(* state is read here; nothing stops it from changing before it is written.*)

\* Mutant: requireSandboxState is left out.
AdmitExecInAnyState(h, i) ==
  /\ "exec" \in Ops
  /\ Readable(i)
  /\ Accept(h, i, "touch")
  /\ UNCHANGED <<store, backend, daemon, emitted, bounds>>

AdmitExec(h, i) ==
  /\ "exec" \in Ops
  /\ meta[i] = "WARM"
  /\ Accept(h, i, "touch")
  /\ UNCHANGED <<store, backend, daemon, emitted, bounds>>

\* UpdateLastUsed: rewrites meta.json, fails when it is gone.
TouchLastUsed(h) ==
  /\ pc[h] = "touch"
  /\ IF Readable(on[h]) THEN Goto(h, "mark") ELSE Reply(h)
  /\ UNCHANGED <<store, backend, daemon, emitted, bounds>>

MarkExecuting(h) ==
  /\ pc[h] = "mark"
  /\ SetState(on[h], "EXECUTING")
  /\ \/ Readable(on[h]) /\ mode[on[h]] = "compat" /\ Goto(h, "ensure")
     \/ Readable(on[h]) /\ mode[on[h]] # "compat" /\ Goto(h, "run")
     \/ ~Readable(on[h]) /\ Reply(h)
  /\ UNCHANGED <<mode, minted, dir, backend, daemon, emitted, bounds>>

\* execInContainer always asks the engine for a new container; when that
\* fails it looks for an existing one of that name.
EnsureContainer(h) ==
  /\ pc[h] = "ensure"
  /\ \E ok \in BOOLEAN :
       /\ RunContainer(on[h], ok)
       /\ Goto(h, IF ok THEN "run" ELSE "reuse")
  /\ UNCHANGED <<store, daemon, emitted, bounds>>

ReuseContainer(h) ==
  /\ pc[h] = "reuse"
  /\ \/ on[h] \in container /\ Goto(h, "run")
     \/ Goto(h, "release")
  /\ UNCHANGED <<store, backend, daemon, emitted, bounds>>

\* The command exits, is killed at its deadline, or cannot be started.  The
\* host path records neither a start that failed (a short answer, which waits
\* for no client) nor a streamed command (written to the client as it runs).
RunEnds(h) ==
  /\ pc[h] = "run"
  /\ \/ Goto(h, "record")
     \/ mode[on[h]] = "host" /\ Goto(h, "release")
  /\ UNCHANGED <<store, backend, daemon, emitted, bounds>>

\* logs.Manager.Record makes sandboxes/<id>/logs, with its parents.
RecordRun(h) ==
  /\ pc[h] = "record"
  /\ dir' = dir \union {on[h]}
  /\ Goto(h, "answer")
  /\ UNCHANGED <<meta, mode, minted, backend, daemon, emitted, bounds>>

\* The output goes to the client while the record is still EXECUTING.  Nothing
\* bounds it: the server has no write timeout.
AnswerTaken(h) ==
  /\ pc[h] = "answer"
  /\ Goto(h, "release")
  /\ UNCHANGED <<store, backend, daemon, emitted, bounds>>

\* Mutant: nothing is deferred.
ReleaseForgotten(h) ==
  /\ pc[h] = "release"
  /\ Reply(h)
  /\ UNCHANGED <<store, backend, daemon, emitted, bounds>>

\* The deferred UpdateState(WARM), its error ignored.
Release(h) ==
  /\ pc[h] = "release"
  /\ SetState(on[h], "WARM")
  /\ Reply(h)
  /\ UNCHANGED <<mode, minted, dir, backend, daemon, emitted, bounds>>

AdmitShell(h, i) ==
  /\ "shell" \in Ops
  /\ meta[i] = "WARM"
  /\ Accept(h, i, "upgrade")
  /\ UNCHANGED <<store, backend, daemon, emitted, bounds>>

UpgradeShell(h) ==
  /\ pc[h] = "upgrade"
  /\ Goto(h, "markShell") \/ Reply(h)
  /\ UNCHANGED <<store, backend, daemon, emitted, bounds>>

MarkShell(h) ==
  /\ pc[h] = "markShell"
  /\ SetState(on[h], "EXECUTING")
  /\ IF Readable(on[h]) THEN Goto(h, "shell") ELSE Reply(h)
  /\ UNCHANGED <<mode, minted, dir, backend, daemon, emitted, bounds>>

\* The shell process has exited and both copies have drained.
ShellEnds(h) ==
  /\ pc[h] = "shell"
  /\ Goto(h, "release")
  /\ UNCHANGED <<store, backend, daemon, emitted, bounds>>

-----------------------------------------------------------------------------
(* DELETE /v1/sandboxes/{id}, accepted in any state the store can read.    *)

AdmitDelete(h, i) ==
  /\ "delete" \in Ops
  /\ Readable(i)
  /\ Accept(h, i, "markDestroying")
  /\ UNCHANGED <<store, backend, daemon, emitted, bounds>>

\* UpdateState(DESTROYING) with its error ignored, then ContainerExists.
MarkDestroying(h) ==
  /\ pc[h] = "markDestroying"
  /\ SetState(on[h], "DESTROYING")
  /\ IF mode[on[h]] = "compat" \/ on[h] \in container
       THEN Goto(h, "remove") ELSE Goto(h, "forget")
  /\ UNCHANGED <<mode, minted, dir, backend, daemon, emitted, bounds>>

\* container.Destroy(): `docker stop` (ignored), then `docker rm -f`, whose
\* error ends the request.
RemoveContainer(h) ==
  /\ pc[h] = "remove"
  /\ \/ container' = container \ {on[h]} /\ Goto(h, "removeVolumes")
     \/ container' \in {container, container \ {on[h]}} /\ Reply(h)
  /\ UNCHANGED <<store, volumes, daemon, emitted, bounds>>

\* Best effort; the engine keeps volumes a container still uses.
RemoveVolumes(h) ==
  /\ pc[h] = "removeVolumes"
  /\ volumes' \in {volumes} \union
        (IF on[h] \in container THEN {} ELSE {volumes \ {on[h]}})
  /\ Goto(h, "forget")
  /\ UNCHANGED <<store, container, daemon, emitted, bounds>>

\* Mutant: the error of store.Delete is ignored.
ForgetBestEffort(h) ==
  /\ pc[h] = "forget"
  /\ Remove(on[h]) \/ UNCHANGED store
  /\ Goto(h, "announceDestroyed")
  /\ UNCHANGED <<backend, daemon, emitted, bounds>>

Forget(h) ==
  /\ pc[h] = "forget"
  /\ Remove(on[h])
  /\ Goto(h, "announceDestroyed")
  /\ UNCHANGED <<backend, daemon, emitted, bounds>>

AnnounceDestroyed(h) ==
  /\ pc[h] = "announceDestroyed"
  /\ Emit("destroyed", on[h])
  /\ Reply(h)
  /\ UNCHANGED <<store, backend, daemon, bounds>>

-----------------------------------------------------------------------------
(* The daemon process.                                                     *)

\* Every handler dies where it stands; a meta.json being rewritten may be
\* left truncated.  Containers and volumes belong to the engine and stay.
Crash ==
  /\ daemon # "down"
  /\ crashes < MaxCrashes
  /\ \/ UNCHANGED meta
     \/ \E h \in Handlers :
          /\ pc[h] \in SavingSteps
          /\ Readable(on[h])
          /\ meta' = [meta EXCEPT ![on[h]] = "UNREADABLE"]
  /\ pc' = [h \in Handlers |-> "idle"]
  /\ on' = [h \in Handlers |-> NoSandbox]
  /\ daemon' = "down"
  /\ crashes' = crashes + 1
  /\ UNCHANGED <<mode, minted, dir, backend, emitted, vanished>>

\* Someone removes a container while no daemon runs.
ContainerVanishes(i) ==
  /\ daemon = "down"
  /\ vanished < MaxVanish
  /\ i \in container
  /\ container' = container \ {i}
  /\ vanished' = vanished + 1
  /\ UNCHANGED <<store, volumes, pc, on, daemon, emitted, crashes>>

\* Mutant: only half-created sandboxes are cleaned up.
CleanupOfCreating ==
  /\ daemon = "down"
  /\ meta' = [i \in Sandboxes |-> IF meta[i] = "CREATING" THEN "DESTROYED" ELSE meta[i]]
  /\ daemon' = "cleaned"
  /\ UNCHANGED <<mode, minted, dir, backend, pc, on, emitted, bounds>>

OrphanCleanup ==
  /\ daemon = "down"
  /\ meta' = [i \in Sandboxes |->
       IF meta[i] \in {"CREATING", "EXECUTING"} THEN "DESTROYED" ELSE meta[i]]
  /\ daemon' = "cleaned"
  /\ UNCHANGED <<mode, minted, dir, backend, pc, on, emitted, bounds>>

\* The compat sandboxes reconcileCompatContainers hands to compat.Reconcile.
Active == {i \in Sandboxes : mode[i] = "compat" /\ meta[i] \in {"WARM", "EXECUTING"}}

\* Nothing is active: return before the engine is asked for anything.
ReconcileNothing ==
  /\ daemon = "cleaned"
  /\ Active = {}
  /\ daemon' = "reconciled"
  /\ UNCHANGED <<store, backend, pc, on, emitted, bounds>>

\* Mutant: result.Missing is not looked at.
ReconcileOneWay ==
  /\ daemon = "cleaned"
  /\ Active # {}
  /\ \E kept \in SUBSET (container \ Active) :
       /\ container' = (container \cap Active) \union kept
       /\ daemon' = IF kept = {} THEN "reconciled" ELSE "unreconciled"
  /\ UNCHANGED <<store, volumes, pc, on, emitted, bounds>>

\* Containers of no active sandbox are removed, as far as the engine obeys;
\* active sandboxes without a container become DESTROYED.
Reconcile ==
  /\ daemon = "cleaned"
  /\ Active # {}
  /\ \E kept \in SUBSET (container \ Active) :
       /\ container' = (container \cap Active) \union kept
       /\ daemon' = IF kept = {} THEN "reconciled" ELSE "unreconciled"
  /\ meta' = [i \in Sandboxes |->
       IF i \in Active \ container THEN "DESTROYED" ELSE meta[i]]
  /\ UNCHANGED <<mode, minted, dir, volumes, pc, on, emitted, bounds>>

\* No engine on this host, or its listing failed.
ReconcileFails ==
  /\ daemon = "cleaned"
  /\ Active # {}
  /\ daemon' = "unreconciled"
  /\ UNCHANGED <<store, backend, pc, on, emitted, bounds>>

Serve ==
  /\ daemon \in {"reconciled", "unreconciled"}
  /\ daemon' = "serving"
  /\ UNCHANGED <<store, backend, pc, on, emitted, bounds>>
-----------------------------------------------------------------------------
\* Steps a handler takes by itself once its request is accepted.  The engine
\* and exec deadlines bound each of them.
HandlerStep(h) ==
  \/ CreateContainer(h) \/ VerifyContainer(h) \/ TearDownContainer(h)
  \/ UndoCreate(h) \/ MarkWarm(h) \/ AnnounceCreated(h)
  \/ TouchLastUsed(h) \/ MarkExecuting(h) \/ EnsureContainer(h)
  \/ ReuseContainer(h) \/ RunEnds(h) \/ RecordRun(h) \/ Release(h)
  \/ UpgradeShell(h) \/ MarkShell(h)
  \/ MarkDestroying(h) \/ RemoveContainer(h) \/ RemoveVolumes(h)
  \/ Forget(h) \/ AnnounceDestroyed(h)

ClientStep(h) ==
  \/ \E i \in Sandboxes :
       CreateStore(h, i) \/ AdmitExec(h, i) \/ AdmitShell(h, i) \/ AdmitDelete(h, i)
  \/ AnswerTaken(h) \/ ShellEnds(h)

StartupStep ==
  OrphanCleanup \/ ReconcileNothing \/ Reconcile \/ ReconcileFails \/ Serve

Next ==
  \/ \E h \in Handlers : HandlerStep(h) \/ ClientStep(h)
  \/ StartupStep
  \/ Crash
  \/ \E i \in Sandboxes : ContainerVanishes(i)

Spec == Init /\ [][Next]_vars

\* A supervisor restarts the daemon, and every accepted request but a shell
\* makes progress: each OCI command runs under a deadline that kills its CLI.
\* A host command has children its deadline does not reach (see HostExec), so
\* this fairness is assumed for Modes = {"compat"} only.  Clients owe nothing,
\* not even to read what they asked for: AnswerTaken is not fair.
FairSpec ==
  /\ Spec
  /\ WF_vars(StartupStep)
  /\ \A h \in Handlers : WF_vars(HandlerStep(h))

-----------------------------------------------------------------------------
(* The abstract record this store implements.                              *)

Phase == [i \in Sandboxes |-> IF i \notin minted THEN "unborn"
                              ELSE IF meta[i] = "ABSENT" THEN "gone"
                              ELSE "live"]

Record == INSTANCE SandboxRecord WITH phase <- Phase, told <- emitted

\* Every step of handlers, startup and crash is a birth, a death, an
\* announcement or nothing as far as clients of the record can tell.
ImplementsRecord == Record!RecordSpec

-----------------------------------------------------------------------------
(* What holds.                                                             *)

\* A sandbox is CREATING or EXECUTING only while some live request will move
\* it on: no crash, failure or race leaves one behind that nobody finishes.
\* (OrphanCleanup runs before the listener opens, and every handler that
\* writes EXECUTING defers UpdateState(WARM).)
BusyHasOwner ==
  daemon # "down" => \A i \in Sandboxes :
    /\ meta[i] = "CREATING"  => \E h \in Handlers : on[h] = i /\ pc[h] \in CreateSteps
    /\ meta[i] = "EXECUTING" => \E h \in Handlers : on[h] = i /\ pc[h] \in ClaimedSteps

\* A deleted sandbox never comes back: late writers (a deferred
\* UpdateState, a touch) fail on the missing meta.json instead of making one.
NoResurrection ==
  [][\A i \in minted : meta[i] = "ABSENT" => meta'[i] = "ABSENT"]_vars

\* pi.sandbox.destroyed is only told of a sandbox that is gone for good.
DestroyedEventIsFinal ==
  \A i \in Sandboxes : i \in emitted["destroyed"] => meta[i] = "ABSENT"

\* What startup has declared DESTROYED is never used again; a DELETE is the
\* only request that still touches it.
DestroyedNeverRevives ==
  [][\A i \in Sandboxes :
       meta[i] = "DESTROYED" => meta'[i] \notin {"CREATING", "WARM", "EXECUTING"}]_vars

\* A reconciled daemon opens with every WARM compat sandbox backed by a
\* container, whatever was in flight when the last one died.
WarmIsBackedAtStartup ==
  daemon = "reconciled" => \A i \in Sandboxes :
    mode[i] = "compat" /\ meta[i] = "WARM" => i \in container

\* A handler of sandbox i has an answer that its client has yet to take.
AwaitsClient(i) == \E h \in Handlers : on[h] = i /\ pc[h] = "answer"

\* A command ends by itself or by its deadline, a crash is cleaned up: no
\* sandbox is CREATING for ever, and none is EXECUTING for ever but for a
\* client that does not take its answer (fair runs, no open shells).
BusyEnds ==
  \A i \in Sandboxes :
    /\ (meta[i] = "EXECUTING") ~> (meta[i] # "EXECUTING" \/ AwaitsClient(i))
    /\ (meta[i] = "CREATING") ~> (meta[i] # "CREATING")

-----------------------------------------------------------------------------
(* What the documents say and the code does not do.                        *)

\* F15: "Orphaned containers (no sandbox) are garbage-collected" at startup.
OrphansCollected ==
  daemon = "reconciled" => container \subseteq Active

\* docs/api/sandboxes.md: DELETE tears down the runtime object, then emits
\* pi.sandbox.destroyed.
DestroyedEventMeansTornDown ==
  \A i \in Sandboxes : i \in emitted["destroyed"] => i \notin container
=============================================================================
