# TLA+ models of pi-sandboxes

`pi-sandboxd` is a daemon that gives coding agents sandboxes: a sandbox is a
record on disk, a container of an OCI engine (mode `compat`) or a directory of
the host (every other mode today), and an HTTP interface to run commands,
snapshot, delete. This directory models the parts of it where several
goroutines, several processes or a crash can meet, checks them with TLC and
proves the safety properties with TLAPS.

    cd tla
    tlc -workers 2 -config MCSandboxLifecycle.cfg MCSandboxLifecycle
    tlapm SandboxLifecycleProofs.tla

Paths below are relative to `src/pkg/` unless they start with `cmd/`, `docs/` or
`website/`.

## 1. The system

| component | state | operations | meets |
|---|---|---|---|
| metadata store `sandbox/store.go` | `sandboxes/<id>/meta.json`, one mutex | Create, Get, UpdateState, UpdateLastUsed, Delete | all handlers; startup |
| handlers `api/sandbox_{create,exec,shell,delete}.go` | none: a goroutine each | store calls, engine commands, events | the store between two of its calls; the engine |
| compat runtime `runtime/compat`, `runtime/oci` | containers, volumes (the engine's) | create, exec, stop, rm, ps, each with a deadline | handlers; reconciliation |
| daemon `daemon/daemon.go`, `sandbox/orphans.go` | phase | orphan cleanup, container reconciliation, serve | the store and the engine, before any handler runs |
| agent runs `sandbox/agent_run.go`, `api/agent_run.go` | map of runs in memory | Create, UpdateState; start, supervise, cancel, complete | each other; events |
| host exec `exec/engine.go` | pipes, budget, buffers of one request | Run, RunStream | processes it does not own; the deadline |
| snapshots `snapshot/`, `api/sandbox_snapshot.go` | pointers per sandbox, shared content-addressed store | create, rollback, delete, prune | each other, the pruner (another process), DELETE |
| exec logs `logs/` | files numbered per sandbox | Record, List, RecordEgress | concurrent execs; DELETE |
| events `events/` | sinks | Emit: a goroutine per sink and event; webhook retries once | receivers |
| contexts `context/`, `cmd/pi-box/context`, proxy `daemon/router.go`, `remote/` | `contexts.yaml`, rewritten whole | create, update, use, delete; forward | the CLI and every request |
| templates `template/`, `cmd/pi-box/template` | `template.yaml`, numbered revisions, `index.json` | install, fork, import, rollback, promote, prune | concurrent writers, in several processes |
| credentials and egress `secrets/`, `network/` | rules, values, policies; the log of denials | register, inject, decide, record | the proxy's requests; DELETE; restart |
| workspace files `api/sandbox_{files_*,clone,diff,patch,output}.go` | the files of the container, git's index, host directories | write, push, read, clone, diff, patch, pull, pack | each other and the sandbox's own processes, through scripts and `docker cp` |
| microVM backend `runtime/microvm`, `cmd/pi-agentd`, `cmd/pi-init` | one control connection per guest | boot, ready, exec, transfer, export | callers that share the connection; readers left behind; no handler of the daemon yet |
| clients `cmd/pi-box/box`, `agent/adapter.go` | none between commands | box commands, tools | two daemons, the active context, answers that are cut or late |
| runtime selector `runtime/selector.go` | none | Select | registry |

`PROJECT.json` lists every part, those that are not modelled included.

**What is hard here.** A handler reads a record, lets go of the store's lock,
and acts on what it read many steps later; nothing serialises two requests for
one sandbox. A crash can come between any two steps, and the files are
truncated before they are written. Engine commands can fail after they took
effect. The run store has a lock, but its callers check, act and announce under
three separate acquisitions. The snapshot store has no lock at all and a second
process that deletes from it. The host engine waits for processes it cannot
kill.

**What makes each part correct.**

* *Lifecycle*: nothing stays busy without an owner; what is deleted, or declared
  DESTROYED at startup, is never used again; what is WARM after a reconciliation
  has its container; the destroyed event tells the truth; busy states end, unless
  a client does not take its answer.
* *Agent runs*: one terminal state, final, announced once and truthfully; every
  run gets there.
* *Host exec*: the output budget is kept by both streams together, what the budget
  cut is owned up to, the request ends unless a process it left behind holds the
  pipes or its client does not read.
* *Snapshots*: content hashes to its address, a pointer has its content, a
  rollback restores what was taken.
* *Exec logs*: a recorded run keeps its files; what a listing names can be read.
* *Contexts*: the active context exists; acknowledged changes stay; a request is
  served by the daemon that was active when it was routed, and goes no further.
* *Templates*: a template is its own last revision; a recorded revision is final.
* *Egress*: a value is sent only to the hosts registered with it; nothing
  configured gets past the default deny list; denials are on record, but one
  whose line was cut and the one behind it.
* *Workspace files*: what was acknowledged is there, whole, and the sandbox's
  user's; a diff that does not say otherwise shows what git was told of; what is
  announced as delivered is on the host, at its destination or inside what was
  there before.
* *Guest control*: no guest is marked warm before its ready event; an answer is
  about what was asked for, or was put together from two frames.
* *Shell sessions*: all output is sent before the connection closes; the goroutines
  wait for processes and clients, never for each other.
* *Clients*: what is reported as done was done, over every way a request can take; a
  shell is done however it ends.
* *Events*: best-effort by ADR-007. *Selector*: never below the requested tier.

## 2. The modules

| module | models | extends |
|---|---|---|
| `SandboxRecord` | what clients may rely on about a record: born once, gone for good, events true | |
| `SandboxLifecycle` | store, handlers, compat runtime, startup, crash; implements `SandboxRecord` | |
| `AgentRunRecord` | what clients may rely on about a run: created once, ended once, told of once and truly | |
| `AgentRuns` | run store, start, supervisor, cancel, launcher, crash; implements `AgentRunRecord` | |
| `HostExec` | one command on the host, buffered or streamed | |
| `SnapshotStore` | snapshot requests, rollback, DELETE, `system prune`, crash | |
| `ExecLog` | the exec log of one sandbox: recording, listing, reading, DELETE, crash | |
| `ContextMap` | what users may take `contexts.yaml` for: one map that changes atomically and routes every request once | |
| `Contexts` | `contexts.yaml` under API requests and commands; routing and forwarding of requests; implements `ContextMap` | |
| `TemplateHistory` | what users may take a template for: an append-only sequence of revisions | |
| `Templates` | template files, revisions and default marker under requests and commands; implements `TemplateHistory` | |
| `EgressProxy` | the proxy's decisions, credentials and log of denials | |
| `WorkspaceFiles` | the file, git and output handlers over one workspace | |
| `GuestControl` | host side of a microVM: boot, calls over one connection, export | |
| `Clients` | box commands and tools, the ways to two daemons, what an answer is taken for | |
| `ShellSession` | one shell between its websocket and the goroutines that copy | |
| `Parts` | the eight above side by side: the first state chooses which one moves | instantiates them |
| `SandboxLifecycleProofs`, `AgentRunsProofs`, `HostExecProofs`, `SnapshotStoreProofs` | theorems | its module, `TLAPS` |
| `ContextsClientsProofs`, `EgressExecLogProofs`, `GuestShellProofs` | theorems about two parts each | `Parts`, `TLAPS` |
| `WorkspaceTemplatesProofs` | theorems about two parts, and the types of all | the three above |
| `MC*` | symmetry sets and constant values for TLC | its module (`MCParts`: `Parts`) |

### SandboxLifecycle

State: `meta` is the `state` field of every `meta.json` (`ABSENT`: no file;
`UNREADABLE`: a write was cut short, so `load` fails); `mode` the mode it was
created with; `dir` the directories under `sandboxes/`; `minted` the ids handed out;
`container`, `volumes` what the engine holds; `pc`, `on` the step and the sandbox of
each request; `daemon` the startup phase; `emitted` the events.

| action | code |
|---|---|
| `CreateStore` … `AnnounceCreated` | `CreateSandbox`, `createCompatContainer` (`api/sandbox_create.go`), with its undo paths |
| `AdmitExec`, `TouchLastUsed`, `MarkExecuting` | `requireSandboxState`, `UpdateLastUsed`, `UpdateState(EXECUTING)` (`api/sandbox_exec.go`) |
| `EnsureContainer`, `ReuseContainer`, `RunEnds`, `RecordRun`, `Release` | `execInContainer`, the run, `logs.Manager.Record`, the deferred `UpdateState(WARM)` |
| `AnswerTaken` | the response of a run, written to the client before the deferred `UpdateState` |
| `AdmitShell` … `ShellEnds` | `api/sandbox_shell.go` |
| `AdmitDelete` … `AnnounceDestroyed` | `api/sandbox_delete.go` |
| `OrphanCleanup`, `Reconcile*`, `Serve` | `Daemon.Start`, `OrphanCleanup`, `reconcileCompatContainers`, `compat.Reconcile` |
| `Crash`, `ContainerVanishes` | the daemon dies where it stands; somebody removes a container meanwhile |

One store call is one step (it holds `Store.mu`), and so is one engine command;
a failing engine command may or may not have taken effect. `UpdateState` with an
ignored error is `SetState`: it writes nothing when the record cannot be read.

### AgentRuns

`state`, `home` and `current` are the store's two maps; `starter`, `supervisor` and
`closer` the positions of the start request, of `superviseRun`, and of
cancel requests and `CompleteAgentRun` calls, which have the same shape (read,
`finishRun`, event, answer). `UpdateState` is one step, the event it earns
another. `Life` is what the record makes of a run: a run that the store does not have is
`unborn` before its start request has created it, and `gone` after. The store is
memory: `Crash` empties it. A run id is minted by its start request, so `Runs` bounds how
many start requests there are.

### HostExec

Bytes are counted, not named. `pipe` is what lies in each pipe, `copier` what each
copying goroutine holds: `Read`, then `Spend` or `Discard` under `mu`, then
`WriteEvent` and `Flushed` outside it; `Buffer` is `Run`'s copier, which has no limit. `Eof`
needs both processes to be gone, `Finish` is `wg.Wait`/`cmd.Wait` and what the reply will
say, `Answered` that it is written. `Kill` reaches the shell only, as `exec.CommandContext`
without a process group does.

Both copiers write to one `bufio.Writer`, which is not made for that. `kept` counts the bytes
that were handed to it; `mixed` says that one copier came to it while the other was in
it, after which what the client can read is any amount (`Legible`). A write ends only
if the client takes it or has hung up (`CanWrite`): `ClientStalls` lets a client stop
reading, and read on, whenever it likes.

### SnapshotStore

A workspace is a function from files to bytes, files numbered in walk order.
`DirHash` joins the bytes, as `dirHash` feeds them to SHA-256: the digest is as good
as what was fed to it, and names and boundaries are not fed. `Stage`, `Look`, `Rename` or
`StartCopy`/`CopyFile`/`FillFile`, and `Point` are `Manager.Create`; `Fetch`, `Clear`, `Put`
are a rollback; `Scan`, `List`, `Sweep`, `EndPrune` are `PruneOrphans`, which removes entry
by entry. Rename and copy are both always possible: the staging directory is
under `TMPDIR`, which may be another device.

Two variables are history, no code reads them. `taken` is the tree a pointer was
made from (the pointer itself holds the digest). `disturbed` collects the digests
where one of these happened, all of them outside what the code can promise
without a lock: a copy or a removal was cut short; the pruner removed content
that a request was about to point at, or had read the pointers before that
request wrote its own; two different trees of one digest were stored at once.
The properties are about every other digest. `disturbed` never shrinks and is
set only at these steps, so it excuses nothing that happens without them.

### ExecLog

`entry` holds whose output each file `exec-<n>.<part>` is of. `OpenLog` is `NewManager` with its
glob and the next number, `EnsureDir` and `WriteFile` the rest of `Record`; its error is
dropped, so `Crash` (or a full disk) ends a recording where it stands, a cut file at
most behind it. `DeleteSandbox` is `Store.Delete`; a recording that made the directory
again goes on there. `List` and `Fetch` are the log handlers: a client reads the numbers
and then the streams.

### Contexts

`file` is `contexts.yaml` beside each of three daemons; only `Home`'s changes. `Change` is a
handler or command up to `save` (load, check, change the copy), `Truncate` and `Fill` are
the two steps of `os.WriteFile`, `Overlaid` what two of them leave when they overlap.
`Call`, `ServeThere`, `BadGateway`, `Answer` are the middleware and `remote.Client`: `sent` is a request
that the other daemon has not taken yet, `gone` one whose client has read 502.

As a `ContextMap`, a change is asked for when it has loaded the file and checked, and
takes effect when it empties the file: from then on `Map` is the copy that is being
filled in, and the file itself again once it is filled. A request that arrives in
between reads an empty file and is served at home, which `ContextMap` allows as long as a change
that took effect is not answered. Once two changes overlapped or one died while
filling (`disturbed`), no more is promised than that the active context is one of the map's.

### Templates

A template is its definition (which stands for the content digest) and the
generation of its lineage. `Install` is `InstallDefaults`, which every request calls
first; `Fork`, `Import`, `Rollback`, `SetDefault` are the store's methods up to their writing,
`Refuse` their errors; `Clear` to `FillIndex` are `Store.Create` with `appendRevision`. An index that
cannot be read counts as empty, as it does in the code. `Prune` removes one
template (the command goes through them one by one), file by file as `os.RemoveAll` does
and as far as it comes: what is left may be any part of it, and another prune may
take it up.

As a `TemplateHistory`, a template's history is its revision files; it grows by one when the
file is written, and listing it in `index.json` comes after. A fork begins as a child of
what `Get` read: the source's last revision, the one being written, or what an emptied
`template.yaml` is read as (`Blank`). A name that two wrote at once, that was pruned under its
writer or in part, or whose writer died (`disturbed`) has no history any more.

`ContextMap` and `TemplateHistory`, like the two records above, translate no code: they state
what the modules that implement them are for.

### EgressProxy

`AddRule` and `SetValue` are the two halves of `AddWithValue`; `Connect`, `Decide`, `Deny` or `Look`,
`Resolve`, `Finish` are `ServeHTTP`, with the decision recorded before the answer 403. The
line after one that a full disk cut ends up on the same line (`MergedLine`), which
`EgressEvents` cannot parse and skips; the lines behind it are read again (`Appended`). `Restart`
forgets what is in memory.

### WorkspaceFiles

A file is a content (or absent, cut, mixed) and whether root owns it. `OpenFile`
and `FillFile` are the shell's redirection and base64; `CopyIn` and `Chown` a push; `CloneStarts`
and `CloneEnds` git; `AddStarts`, `AddEnds`, `DiffOut` the script of diff, patch and pull, with `lock` for
git's `index.lock`; `Sources`, `CopyOut`, `CopiedAll` a pull; `Pack` and `PackCut` a pack. `Work` is a process
of the sandbox.

An engine command that fails or is given up has one of three forms. It did nothing, or
ended with what it did so far (`Fail`); its script runs on in the container, where it may
not even have begun (`RunOn`: a write that is `late` opens its file after its request was
answered, one that is `unheard` fills it; a git whose request was given up holds the lock until
`UnheardEnds`); or a copy broke off and left part of a file, or all of it, which is root's
where a push made it (`BreakOff`). `AddFails` is a `git add -N` that fails, which the script does
not look at; its diff is `unadded`.

Contents are of two kinds: what is no UTF-8 (`Binary`) comes back from a read with
U+FFFD in it (`Text`), because the answer is a JSON string. A path may be one that
`.gitignore` names (`Ignored`). A pull's destination has two places per output: its `top`, and
what `docker cp` has put inside a directory that was there already (`nested`; `Delivered`).

### GuestControl

`Boot` and `Started` are the two halves of `Sandbox.Start`: the VMM runs before the state is set, so
that what the guest does may come first. `AgentReady` is the first frame of
`cmd/pi-agentd`, which `cmd/pi-init` starts; nothing in either program runs the reseed hooks (see
section 5). `Ready` is `VsockConn.Ready`, `MarkWarm` the step of its caller that comes after. `Stop`, or
a guest that dies, ends the connection and changes nothing else; what comes from a
connection that has ended is an error (`EndOfFrames`). A guest that was ready and runs no
more is `gone`. A boot has the template's files and a new connection.

`wire` and `requests` are the two directions of the connection, `holder` the client's
mutex, `thieves` the goroutines of `StreamFrames` that nobody listens to any more. `Send` and
`Receive` are the two halves of `Client.Send`. Each reader decodes from a buffer of its own: it
takes one frame and may lose what it had buffered behind it (`Take`). A frame that does not
fit into a buffer (its content is `Long`) is on the wire in two parts (`InParts`), and a
reader that has the first reads on for the second (`ReadOn`). If another reader took
something meanwhile, the line it gets is put together from what is left of two frames:
it may parse, with a content that no file ever had (`Spliced`), or not (`Lines`, `Tear`).

`OpenFile` and `FillFile` are the two steps of the `os.WriteFile` of an export, each of which can
fail: the export ends with what it has written so far, and a file it had opened stays
empty or in part.

The guest (`Answer`, `GuestAnswers`, `GuestWorks`) is external: the agent of this repository answers
nothing yet, and what the host's code expects of it is taken from the frames it sends
and decodes. So is who calls `Start`, `Ready` and `MarkWarm`: no handler does yet, and ADR-002 names
the order.

### Clients

A command is what it asks for, one request after the other; each is resolved
anew, goes to the local socket, to a remote daemon or to the tools' base URL, and
is answered, cut, or given up and left running. What a client makes of an answer
(`ParsedUnix`, `ParsedRemote`, `DoJSON`, `DecodedList`, `Printed`) is where the three ways differ; a shell that
was upgraded has ended well whatever ends it (`Ended`). A handler is one step: its
interleavings are `SandboxLifecycle`'s.

### ShellSession

`at` says where each goroutine is: `reader` and `sender` are the two of the handler, `feeder` and
`drainer` those of `os/exec` for `Cmd.Stdin` and `Cmd.Stdout`, which are not files here. An `io.Pipe`
has no buffer: `PassIn` and `PassOut` are steps of both its ends. `WaitReturns` is `cmd.Wait`, which
waits for the shell and both copiers, `Return` what follows `<-done`. In
`SandboxLifecycle` a session is one state of its request, from `MarkExecuting` to `ShellEnds`.

### History variables

`mixed` (HostExec), `raced` (ExecLog), `kept` and `disturbed` (Contexts), `disturbed` (Templates), `answered`,
`mixed` and the field `moved` (EgressProxy), `sure`, `failed` and the fields `still`, `inside` and
`unadded` (WorkspaceFiles), `ever` and `again` (GuestControl) and the field `still` (Clients) are
read by no code. Like `disturbed` in `SnapshotStore` they name the cases the code cannot
promise anything for without a lock: two writers at once, a writer that died while
writing, somebody else touching the file. Each is set only at the step where that happens, and each
property says which it excepts.

## 3. What TLC checks

| run | instance | distinct states | question |
|---|---|---|---|
| `sandbox_lifecycle` | 2 sandboxes, 2 requests at a time, all operations, both modes, 2 crashes, 1 vanished container | 647,904 | safety and refinement |
| `sandbox_lifecycle_live` | 1 compat sandbox, 2 requests, 1 crash, clients that need not read | 4,985 | do busy states end |
| `agent_runs` | 2 runs of 1 sandbox, 2 cancel/launcher calls, 1 crash | 255,617 | one event, final states, termination |
| `host_exec` | budget 3, buffer 2, pipe 3, at most 4 bytes per stream, with and without a background process, with a client that may stop reading | 310,224 | budget, truncation, termination |
| `snapshot_store` | 1 sandbox, 1 name, 2 requests, 2 files, 1 byte value, 2 snapshots, pruner, 1 failure | 981,235 | addresses and pointers |
| `parts` | the first state chooses one of eight parts; see below | 857,530 | the properties of the eight modules |
| `lifecycle_orphans`, `lifecycle_torn_down`, `agent_runs_active`, `agent_runs_cancel`, `host_exec_hang`, `snapshot_rollback` | smallest that shows it | | section 5 |

The properties of the passing runs:

* `BusyHasOwner`: a CREATING or EXECUTING sandbox always has a live request that will
  move it on. It is what admission (`WARM` only) relies on: a sandbox without an
  owner would never be usable again.
* `NoResurrection`: a deferred `UpdateState`, a touch or a late log entry never brings
  a deleted record back.
* `DestroyedEventIsFinal`, `DestroyedNeverRevives`, `WarmIsBackedAtStartup`: see section 1.
* `ImplementsRecord`: under `phase <- Phase`, `told <- emitted`, the lifecycle is a
  `SandboxRecord`.
* `BusyEnds` (liveness): CREATING and EXECUTING end, unless the client of the request that
  owns the state does not take its answer (`AwaitsClient`): the deferred `UpdateState(WARM)` comes
  after the answer, and nothing bounds how long that is.
* `CompletedOnce`, `RunsEnd` (liveness); `ImplementsRunRecord`: under `life <- Life` the run store
  is an `AgentRunRecord`. `TerminalIsFinal` follows from it; it has a theorem of its own.
* `BudgetKept`, `TruncatedIsExact`, `RequestEnds` (liveness). `BudgetKept` and
  `TruncatedIsExact` speak of streamed replies: `Run` gives each stream a budget of its
  own and looks at stdout alone. The first counts what is handed to the client's
  writer. The second says that the flag is up exactly when the budget kept bytes from
  that writer, and that what the client can read differs from what was written exactly
  then, unless the two copiers raced in the writer (`mixed`): `docs/features/F05-command-execution.md:43` and
  `:68` promise the stream without that exception (section 5). `RequestEnds` supposes no
  background process, and a client that reads or hangs up.
* `AddressIsTrue`, `PointerIsBacked`.
* `ListedCanBeRead`, `NeverOverwritten` (ExecLog); `ActiveIsKnown`, `ServedWhereActive`,
  `ImplementsMap` (Contexts); `LatestIsCurrent`, `ImplementsHistory` (Templates);
  `SentWhereRegistered`, `DenialsAreListed` (EgressProxy); `UserOwnsFiles`,
  `AcknowledgedIsRead`, `DiffIsComplete`, `DeliveredIsThere` (WorkspaceFiles); `WarmAfterReady`,
  `ReadIsOfItsPath`, `ExportedIsThere` (GuestControl); `ReportedIsDone`, `AllAreDestroyed`
  (Clients); `AllIsSentBeforeClose`, `WaitsForTheLiving` (ShellSession). Each is stated above
  its definition. The two refinements stand for what was asked of these parts piece by piece:
  that an acknowledged change is kept (`AcknowledgedIsKept`) and that a revision is never
  rewritten (`RevisionsAreKept`), which have theorems of their own. `WaitsForTheLiving` says with
  `ENABLED` that the goroutines never wait for each other in a ring: it is the part of "a session ends" that needs no fairness. `written` counts for
  `AllIsSentBeforeClose` only.

What some of these except, beside the history variables of section 2, is what the
code does: a push that failed after it copied leaves files of root (`failed`); a file that
is no UTF-8 is kept as it is but read with U+FFFD (`Replaced`); a diff shows nothing of paths
that `.gitignore` names, and nothing new when its `git add` failed (`unadded`); a pull
delivers inside the directory of an earlier one (`inside`), and an archive whose last
bytes did not fit on the disk is announced (`Part`); a read or an export may be put together
from two frames (`Spliced`); and `WarmAfterReady` promises no more than the ready event, since
no guest binary runs its reseed hook before it. Section 5 has each of them beside the
document that says otherwise.

**The run `parts`.** The eight components share no variable, so their product would
multiply states and show nothing more: in `Parts` the first state chooses a part and
only that part moves, from its own initial states. An invariant of `Parts` asks a part's
own of the part that moves, and so do the two refinements. The instances, in `MCParts`:

| part | instance |
|---|---|
| contexts | two names, three definitions (one invalid, one `http`, one `ssh`), three daemons with active contexts of their own, two requests, one death |
| logs | three execs, one crash |
| templates | a built-in and one more name, two bundles (one invalid), two requests or prunes that stop half-way, one crash |
| egress | one sandbox with an extra host that is on the deny list, three hosts (one below another), one id registered for either of two hosts, two requests and two registrations at a time, two denials, one fault |
| workspace | a source that git ignores and an output file, a text and a binary content, two requests at a time, three requests or changes in all, one failure |
| guest | two callers, two files (one of the template), one content whose frame comes in two parts, four boots, calls or changes by the guest |
| clients | one client, one sandbox there and one to be made, two requests in flight (those given up included), one mishap |
| shell | three messages in, three chunks out, pipes that hold one, a process left behind |

Two requests are what every race here is between: one that reads and acts, one
that comes in between. Three execs let a third take a number after two raced. One
fault is enough because each property excepts by name what the fault touches, and
must hold of the rest. Four boots, calls or changes are what it takes for a guest to be
booted, read from by two callers whose frames get mixed, and changed meanwhile, or to
be booted again under a call of the boot before.

**Bounds.** Two sandboxes in the lifecycle because handlers of different
sandboxes meet only in startup (reconciliation behaves differently when
another sandbox is active). Two requests, because every race in the handlers is
between two of them (an instance with three and one crash, 3,801,747 states,
passes as well and is left out for its length); the theorems are for any number.
Two crashes put one between any two steps of the handlers and another into the
restart that follows, or into the handlers that work on what it left. Two runs of one sandbox: the second
start request meets the first run in every state. Budget 3 with chunks of 2
makes the last chunk straddle the limit; pipes of 3 and 4 bytes let a writer block
and a copier read short. Two files and one byte value give the digests of
length 0, 1 and 2, with two different trees for one of them (the renamed file); two
snapshots give a first and a deduplicated one. `MaxTaken`, `MaxCrashes`, `MaxVanish` are
bounds in guards; a failed write, a failed prune and a crash share `MaxCrashes` in
`SnapshotStore`.

**Symmetry** is used only where no liveness property is checked and the permuted
values are interchangeable: sandboxes and handlers, runs and closers, and
requests; in `parts` the two actors of each part, which no definition chooses
among but by a symmetric `\E` or by a `CHOOSE` that one actor at most fits. Two of the three
execs bear the names of the two actors (no part has both), so that they are
interchangeable as well. `HostExec` and the liveness runs have none.

**Deadlock** is not checked: every model has states where all requests are
answered and no client asks for more, or where the bound of crashes is reached
with the daemon down and nothing left to remove; the parts stop where their
bounds are used up.

**Fairness.** *Lifecycle*: `StartupStep`, because a supervisor restarts the daemon
and startup does not wait for anything but commands with deadlines; each
handler's own steps, because every engine command runs under
`context.WithTimeout` (`runtime/oci/cli.go`) and the store never blocks. A host command has
no such bound (see `host_exec_hang`), hence the liveness run has compat sandboxes only and
no shells, whose client may stay for ever. Clients owe nothing, not even to read: the server
has no write timeout (`daemon/daemon.go:150`), so that a handler with a large answer waits
for as long as its client does (`AnswerTaken` is not fair). *Agent runs*:
goroutines are scheduled; clients and the launcher owe nothing. *Host exec*: the
timer fires, the watcher kills, the copiers and the waiter run; a write to the client
is fair only while the client reads or once it has hung up, because `Flushed` and
`Answered` are enabled only then. The command's processes owe nothing, neither output nor
exit, and the client may stop reading for ever. *Parts*: none, and no liveness;
their requests end because each is a finite list of steps.

**Mutants.** Every property of a passing run has a plausible bug of the code
under which TLC finds it violated. The definitions whose comment says "as if" are
those bugs, each beside the definition it stands in for; no specification uses
them.

## 4. What is proved

`tlapm` checks every theorem for all values of the constants, under the named
assumptions of the modules: `ConstantsAssumption`, `RunsAssumption`,
`ExecAssumption`, `SnapshotAssumption`, `DraftsAssumption` and `PartsAssumption`,
which is the conjunction of the assumptions of the eight parts. TLC evaluates
them for the instances it checks. They say of which kind a constant is, and little
more: execs and proxied requests are finite in number (at any time a daemon has
served finitely many, and lines and files are counted), there is a sandbox id, what a
bundle brings are definitions. Bounds (`MaxAsked`, `MaxDenied`, ...) may be any number.

Eight modules hold the theorems; every safety property of a passing run is stated by
one of them, `WaitsForTheLiving` excepted (below). Those about the parts state the
very definitions that the run `parts` checks, as theorems of `Parts!Spec`: that a
behaviour of `Parts` is one of each part (`CtxIsAPart`, ...; a part that does not move
stutters) lets the proof go on about the part alone. Names of a part's proof begin
with the part's: `Ctx`, `Cl`, `Eg`, `Log`, `Gc`, `Sh`, `Ws`, `Tpl`. An instance has
`Cardinality` for itself, which `EgCounting`, `LogCounting` and `TplCounting`
identify with the one the library's theorems are about.

**SandboxLifecycleProofs**: `TypeCorrect`, `BusyAlwaysOwned`, `WarmAlwaysBacked`,
`DestroyedEventFinal`, `NeverResurrected`, `DestroyedForGood`, `RecordImplemented`. The inductive
invariant adds four facts. `QuietOutsideServing`: no handler lives outside the
serving phase, so a crash and startup meet no one. `MintedFirst`: handlers work on
minted ids. `DestroyedIsQuiet`: a step that may still write CREATING, WARM or EXECUTING
never works on a sandbox that startup declared DESTROYED. `AnnouncedIsGone`: from
the removal of a record to its event nobody can write it. Without
`DestroyedIsQuiet`, a deferred `UpdateState(WARM)` could revive a DESTROYED record; it holds
because only startup writes that state, and admission reads WARM.

**AgentRunsProofs**: `TypeCorrect`, `CompletedAtMostOnce`, `TerminalForGood`,
`RunRecordImplemented`. The invariant counts debts: who has written a terminal state owes one event (`SupervisorOwes`,
`CloserOwes`), no two owe it for one run (`OneOwes`), an open run has had none
(`OpenIsUntold`). The refinement goes action by action (`EveryStepIsRecorded`):
`UpdateState` is an `End` or a stutter, whoever calls it (`UpdateIsRecorded`); an event is
emitted by the one that owes it, so it is the first (`CompletionIsRecorded`, and
`StarterTells` for `pi.run.started`); a crash loses all runs and the requests that were
about to create one (`CrashIsRecorded`).

**HostExecProofs**: `TypeCorrect`, `BudgetAlwaysKept`, `TruncatedAlwaysExact`. `BudgetCovers`: the
counter is what the writer has plus what is about to be handed to it. `NothingHidden`: bytes
in the pipe, in a copier's hands and with the writer make up what was written exactly
while `truncated` is false. `ChunkHeld` and `ReplyIsLast` say when a chunk is empty and that
nothing moves once the reply is being written. What the client can read is what the
writer has, but where `mixed` (`Legible`): of a race in the writer nothing is proved.

**SnapshotStoreProofs**: `TypeCorrect`, `AddressAlwaysTrue`, `PointerAlwaysBacked`. The
invariant says that an undisturbed digest is calm: all copies under way copy one
tree (`OneTree`); every file of it is either there or on some copier's list
(`CopiesInHand`), so the last copier leaves it complete, even though copiers truncate
each other's files; and whoever is about to point at a digest keeps it in the
store (`RequestIsBacked`), which needs that a running prune knows every pointer older
than itself (`PrunerSpares`).

**ContextsClientsProofs**, contexts: `ActiveAlwaysKnown`, `AcknowledgedAlwaysKept`,
`AlwaysServedWhereActive`, `MapImplemented`. The first needs that each change makes a store of a store
(`CtxWithIsStore`, `CtxDeleteIsStore`), what two overlapping writes leave included. The
second rests on `CtxOneAtATime`: while nothing is disturbed at most one change is
between load and the end of its save, its copy is what it makes of `kept`, and the file
holds `kept` whenever nobody is filling it. The third is that what `Call` wants and what
it routes to are read from one file.

That they are a `ContextMap` goes action by action (`CtxStepsImplement`). A change that
passed the checks of the code is one the map allows (`CtxAcceptedIsAllowed`); it is
still so when it takes effect, because undisturbed nobody else has changed the map
since it was loaded (`CtxOneCallChanges`, and `CtxMapIsTheFile`: the map is the file, or the
copy of the one who fills it). `CtxCallRoutes` is about a request that arrives while a change
is filling; `CtxBreaks` and `CtxDisturbedIsAllowed` about the steps that end the promise and
those after it, for which `ActiveIsKnown` is what is left to show.

Clients: `AlwaysReportedIsDone`, `AllAreAlwaysDestroyed`. Between what a command reports
and what a daemon did lie the answer, its way back and what the client makes of it. An
answer stands for what its handler did, whether or not anybody still waits for it
(`ClAnswering`); it belongs to the one request whose client does (`ClAlone`,
`ClPaired`: the step that the client is at and the request agree); and a sandbox whose
deletion was answered with success, or that a client counts as destroyed, is gone,
which no step takes back (`ClGone`). For `destroy --all`: a sandbox that could be deleted
all along is where the client's requests are served (`ClCounted`, `ClSent`), so
that its 404 or its absence from the list cannot come from another daemon.

**EgressExecLogProofs**, credentials: `AlwaysSentWhereRegistered`, `NoWayAroundDenyEver`
(`NoWayAroundDeny` is about lists and configurations more than about steps: it is
proved for all of them, and no run checks it for one). `AddWithValue` takes two locks
one after the other, so an ID's rule and value are of one registration only while
nobody is registering it (`EgOneRegistration`, `EgSettled`). A request that is not
`moved` holds only rules of settled IDs (`EgGood`); whoever registers such an ID again
moves it.

The log of denials: `DenialsAlwaysListed`. A line is appended before the denial is
answered, and appending one counts for its host alone, but where the log ends in a cut line
and no host's line is added (`EgAppendedCounts`): that one denial is not `answered`, those
after it are; lines and
requests in flight fit the bound together (`EgRoomForLines`), so that no denial is kept
from its line by the bound of the model.

Exec logs: `ListedCanAlwaysBeRead`, `EntriesNeverOverwritten`. The `.stdout` files that are
there have the numbers 1 to n (`LogNoGaps`), so that n + 1, which `NewManager` counts, is
a number no file has; at most one number per exec is used, so there is one left
(`LogNextIsANumber`). An exec whose number nobody raced for is alone in writing its
files, in their order (`LogOwnFiles`, `LogWrittenInOrder`), and what a client has listed or
fetched is what these files hold.

**GuestShellProofs**, guest: `AlwaysWarmAfterReady`, `ReadAlwaysOfItsPath`,
`ExportedAlwaysThere`. The invariant is about frames, not about their readers
(`GcTruthful`): an answer that names a path carries what that path has held, in one part
or in two, or is `Spliced`; and an event is on the wire only if the guest has been ready
(`GcHeardOf`), which `Ready` needs to have seen before `MarkWarm` can come. Since `ever` only grows,
it does not matter that a frame may be taken by a reader that another call left
behind; `GcInHand` says the same of what callers hold, the first part of a frame
included. An exported name that nobody opened again is being filled, or has been, by one export
alone (`GcExports`), so no other export empties it or writes over it.

Shell sessions: `AllAlwaysSentBeforeClose`, `NeverWaitInARing`. A chunk is in the kernel's
pipe, in the hands of one of two goroutines, or sent (`ShNoChunkIsLost`), and the session
ends from the shell to the socket, each goroutine after the one it hears from
(`ShEndsInOrder`): when the handler returns, all other places are empty. The
same order shows that whoever waits, waits for one that can step, or in the end for
the processes or the client. `NeverWaitInARing` is `WaitsForTheLiving` with the
guards of the steps (`ShCanStep`) in place of `ENABLED`.

**WorkspaceTemplatesProofs**, workspace: `UserAlwaysOwnsFiles`, `AcknowledgedAlwaysRead`,
`DiffAlwaysComplete`, `DeliveredAlwaysThere`. What a request may say when it is done, it may
say all along of the paths in its `still` (`WsSound`). A diff that is out of `git add`
either holds the lock, or has every such path in the index that git does not ignore, or
knows that its add did not do it (`unadded`); a pull has copied each, to the top or `inside`,
or has it still to do. `WsStaysSound` is the step of another request: it takes nothing back
but the paths it touches.

Templates: `LatestIsAlwaysCurrent`, `RevisionsAreAlwaysKept`, `HistoryImplemented`. Of a template that nobody
disturbed the revisions on disk are 1 to k with growing generations, `index.json` lists
them and `template.yaml` is the last (`TplSettled`); if it is being written, then by one
request, whose position says which of the three it has changed so far, and which
read just these revisions (`TplInOrder`). That the next number exists needs a second
argument, since numbers and generations are bounded: a request may write two revisions,
the restored built-in's and its own, and make one template, so what is on disk leaves
room for those that requests at work still owe (`TplWithinBounds`, with
`TplRoom` and `TplGenRoom` for what is left). Without it the step that writes a revision could not be
shown to keep the types.

That they are a `TemplateHistory` (`TplStepsImplement`) is one lemma per action. The histories
of all names but one stay as they were (`TplUntouched`), and what becomes of that
one follows from its order: a name that nobody writes begins (`TplCreateBegins`, `TplMakes`), with
a child of what `Get` returned, which is what a reader may find (`TplGetIsCurrent`); the step
that writes a revision appends it, since the revisions on disk are the sequence
1 to k (`TplWriteRevisionIsPromised`); a second writer, a prune under a writer or a death ends the
promise (`TplBreaks`).

`MapImplemented` and `HistoryImplemented` state the refinement twice: of the part itself, in every
behaviour of `Parts`, and of the part that moves, which is the definition that the run
checks.

`PartsKeepTheirTypes` is the type invariant of `Parts`, from those of the eight.

Only model-checked: liveness (`BusyEnds`, `RunsEnd`, `RequestEnds`) and
`WaitsForTheLiving`, since the prover has no fairness reasoning over `ENABLED`. The
modules declare no recursive operators; `DirHash` is a community fold, and the proofs
need nothing of it but that it is a function of the tree. What it computes for
every input (a digest is the concatenation) would need induction over data and
stays with TLC.

## 5. Where code and documents disagree

The first six are runs that TLC ends with a counterexample; the others were met
while modelling, and the properties of the run `parts` except them by name.

| run | the document says | the code |
|---|---|---|
| `lifecycle_orphans` | `docs/features/F15-compat-backend.md:182` orphaned containers are collected | `daemon/daemon.go:218` returns before listing containers when no sandbox is active: create, `docker run`, crash, restart, and the container stays |
| `lifecycle_torn_down` | `website/docs/api/sandboxes.md:37` DELETE tears the runtime object down, then emits | an exec admitted earlier makes the container again (`api/sandbox_exec.go:167`); nothing refers to it any more. The trace that TLC finds first is a create that runs its container (`api/sandbox_create.go:181`) after the DELETE removed it |
| `agent_runs_active` | `website/docs/api/agent-runs.md:17` 409 if there is an active run | a PENDING run does not count (`sandbox/agent_run.go:58`): two requests both start |
| `agent_runs_cancel` | `website/docs/api/agent-runs.md:41` 409 if already terminal | `api/agent_run.go:116` drops the outcome and answers CANCELLED for a COMPLETED run |
| `host_exec_hang` | `docs/features/F05-command-execution.md:148` a request does not hang indefinitely | a background process keeps the pipes open (`exec/engine.go:103`, `:233`) |
| `snapshot_rollback` | `docs/features/F14-snapshot-rollback.md:50` rollback restores to the snapshot | names are not hashed (`snapshot/storage.go:118`): a snapshot after a rename is taken for the one before |
| (ExecLog, `raced`) | `logs/entry.go:39` entries are never overwritten across manager instances | two execs that end together count the same files and take one number |
| (Clients, `Served`) | `docs/features/F22-remote-daemon-contexts.md:30` `--context` overrides the active context | `--context local` reaches the local socket, whose daemon sends the request on to the active context |
| (ShellSession, `Silent`) | `api/sandbox_shell.go:94` the server closes the connection when the shell exits | after `exit`, `cmd.Wait` waits for the copier of stdin, that for a message of the client, and the client for the close |
| (Clients, `Printed`) | `logs` prints stdout and stderr | over the local socket an error body is printed as output (`cmd/pi-box/box/box.go:220`) |
| (Templates) | `template/template.go:246` a revision-store failure must not fail the write | it is returned as the error of the write |
| (WorkspaceFiles) | `SPEC.md:383` diff and patch are read-only views | both run `git add -N .`; patch never says `timed_out` |
| (HostExec, SandboxLifecycle: `CanWrite`, `AwaitsClient`) | `docs/features/F05-command-execution.md:148` a request does not hang indefinitely | the server has no write timeout (`daemon/daemon.go:150`): a client that does not read holds its request, and an answered sandbox stays EXECUTING |
| (HostExec, `mixed`) | `docs/features/F05-command-execution.md:43`, `:65` stdout and stderr are streamed, what is cut is flagged | both copiers write one `bufio.Writer` outside `mu` (`exec/engine.go:217`): a race may lose or repeat bytes, or panic |
| (WorkspaceFiles, `Binary`) | `docs/features/F06-workspace-file-ops.md:130` binary files are handled correctly | the content is a JSON string (`api/sandbox_files_read.go:62`): U+FFFD for what is no UTF-8 |
| (WorkspaceFiles, `inside`) | `docs/features/F08-output-delivery.md:120` directory structure is preserved on the host | `docker cp` nests a second pull inside the directory of the first (`api/sandbox_output.go:250`), which stays as it was |
| (WorkspaceFiles, `PackCut`) | `docs/features/F08-output-delivery.md:141`, `:47` the archive is valid, the event comes after successful delivery | the errors of three `Close` calls are dropped (`api/sandbox_output.go:26`) |
| (GuestControl, `AgentReady`) | `docs/decisions/ADR-001-microvm-backend-architecture.md:16`, `docs/features/F20-microvm-backend.md:28` the reseed hook runs before the guest reports ready | `cmd/pi-agentd/main.go:29` reports ready at once; nothing calls `RunRestoreSequence` |
| (GuestControl, `Spliced`) | `docs/features/F21-microvm-guest-control-plane.md:28` host and guest exchange frames | each reader has a buffer of its own (`runtime/microvm/vsock.go:45`): two may each have a part of one frame |
| (Clients, `Ended`) | `cmd/pi-box/box/box.go:580` a shell lasts until the remote closes | any read error ends it with exit 0, a daemon that died included (`:581`) |
| (none) | `system/prune.go:59` removes sandboxes in state destroyed | it looks for lower case, the store writes upper case |
| (Templates, `Prune`) | `cmd/pi-box/template/commands.go:219` removes unused templates | it removes all |

The `hazards` of `PROJECT.json` list everything in this code that is hard to test, with
the properties that watch it or the reason why none does yet.

## 6. What the models leave out

* *Lifecycle*: `dir`, which a late log entry may make again, is in no property (only the
  record is); file-system errors of the store; a first write of `meta.json` or one of
  `OrphanCleanup` cut short; a `RemoveAll` cut short; containers that exist but are
  not running; names of two containers that share the first eight digits of an
  id; `UpdateLastUsed` by the file handlers; a second daemon on the same root;
  `Stop`, which gives requests five seconds and is taken as a crash; the TTL checker,
  which nothing starts.
* *Agent runs*: the check that the sandbox is WARM (any answer would add no
  interleaving: it is read once, before the run exists); the data race on the
  `*AgentRun` that `Get` hands out. `CompleteAgentRun` has no caller, and is modelled
  because it is written to race with the supervisor.
* *Host exec*: a command that cannot be started; a shell that closes its own
  output; what bytes are. Of the race in the `bufio.Writer` it models that the client reads
  any amount, not that the writer may panic: that ends the daemon, which is
  `SandboxLifecycle`'s `Crash`.
* *Snapshots*: reading the workspace out and reading content for a rollback are
  one step each; the pruner's scan of the pointers is one step (a pointer written
  during it is one that the scan overlaps, which `disturbed` covers either way);
  directories, links, modes; snapshots of older versions without a hash; a
  partial clear; a hash prefix is shared by no two digests.
* *Exec logs*: what a torn glob or a removed single file would do to the count;
  a log directory that cannot be made.
* *Contexts*: names that are empty; the headers and bodies of a forwarded request;
  the routes of agent runs, which are forwarded in one direction only; an SSH
  tunnel, which the code does not make.
* *Templates*: revisions torn in their own write; the seven built-ins (one stands
  for them); a default marker that is cut; `Delete`, which has no caller.
* *Egress*: several headers of one request; `Remove`; the packages' older policy and
  proxy (`network/egress_policy.go`, `egress_proxy.go`), the secrets broker, tokens and SSH agent,
  which only tests use.
* *Workspace files*: directories, links and modes (a nested copy is a place of its own, and
  a third copy into it overwrites the second); paths one below the other; a commit
  made in the sandbox (`head` moves with clones only); `git diff HEAD` that fails, after which
  the script takes `git diff`; the container's own end, which is a `Fail`.
* *Guest control*: dialling, which `NewVsockConn` does not do (its callers hold no connection
  today; the model has one for each boot, and drops what the one before held); the
  disks; `RunRestoreSequence`, which nothing calls; a guest whose answers are not those its method
  promises.
* *Clients*: two clients at a time in the checked instance (the module allows
  more); paging, formats, the terminal.
* *Shell sessions*: a shell that cannot be started; a client that does not read (the
  session waits for it, as an exec does for its own); a process left behind that holds the shell's stdin; the goroutine of the reader that
  stays in `stdinW.Write` after the session, which nothing waits for.

Not modelled at all: the runtime selector, policy tables, caches, doctor, status
and disk usage (sequential and read only, or static tables: a model would be the
table again); event delivery (best-effort by ADR-007, nothing is promised); the TTL
checker (nothing starts it); fast and gVisor backends (system calls and arguments);
the other CLI commands, SDK, terminal, MCP server (fixed answers), benchmarks, GUI.

## 7. Plan

Every safety property that a run checks has its theorem, and four of the components
an abstract specification that they implement. What remains: the composition of
`SandboxLifecycle` with `AgentRuns` (a run whose sandbox is deleted) and with `WorkspaceFiles`
(a DELETE under a pull).
