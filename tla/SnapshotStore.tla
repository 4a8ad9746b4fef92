---------------------------- MODULE SnapshotStore ----------------------------
(***************************************************************************)
(* Snapshots (pkg/snapshot, pkg/api/sandbox_snapshot.go): the pointers     *)
(* sandboxes/<id>/snapshots/<name>/meta.json, the content-addressed store  *)
(* they share, the requests that take, roll back and delete snapshots, the *)
(* deletion of their sandbox, and `pi-box system prune`, another process   *)
(* (pkg/system/prune.go).  Nothing in pkg/snapshot holds a lock.           *)
(*                                                                         *)
(* A workspace is a tree: a function from its files, numbered in the order *)
(* filepath.Walk visits them, to what they hold.                           *)
(***************************************************************************)
EXTENDS Naturals, SequencesExt

CONSTANTS
  Sandboxes,
  Names,        \* snapshot names clients use
  Requests,     \* request slots
  NumFiles,     \* bound: files of a workspace
  Bytes,        \* what commands write into a file: non-empty sequences
  Drafts,       \* the workspaces commands leave behind
  Pruner,       \* whether an operator runs `system prune`
  MaxTaken,     \* bound: how many snapshots are started
  MaxCrashes    \* bound: daemon crashes, failed copies and failed prunes

ASSUME SnapshotAssumption ==
  /\ Sandboxes # {} /\ Names # {}
  /\ NumFiles \in Nat /\ MaxTaken \in Nat /\ MaxCrashes \in Nat
  /\ Pruner \in BOOLEAN

Files == 1..NumFiles

\* os.WriteFile empties a file before it writes it.
Cut == <<>>
EmptyTree == [f \in {} |-> Cut]

Trees == UNION {[F -> Bytes \union {Cut}] : F \in SUBSET Files}
ASSUME DraftsAssumption == Drafts \subseteq Trees

\* dirHash feeds the bytes of every file to one hash, in walk order, without
\* their names or lengths.  The digest is as good as what was fed to it.
DirHash(tree) ==
  FlattenSeq([f \in Files |-> IF f \in DOMAIN tree THEN tree[f] ELSE <<>>])

Digests == {DirHash(tree) : tree \in Trees}

VARIABLES
  workspace,  \* the tree in each sandbox's container
  alive,      \* sandboxes the sandbox store knows
  pointer,    \* meta.json per sandbox and name: "none", "ok" or "torn"
  taken,      \* the tree behind each pointer, which itself only holds its digest
  stored,     \* digests that have a directory in the content-addressed store
  content,    \* what these directories hold
  req,        \* what each request is doing
  prune,      \* what the pruner is doing
  disturbed,  \* history: digests whose content a crash or a race touched
  staged,     \* how many snapshots were started
  crashes

boxes == <<workspace, alive>>
pins  == <<pointer, taken>>
cas   == <<stored, content>>
bounds == <<staged, crashes>>
vars  == <<boxes, pins, cas, req, prune, disturbed, bounds>>

Copying == {"copy", "fill"}
Idle == [at |-> "idle", box |-> CHOOSE s \in Sandboxes : TRUE,
         name |-> CHOOSE n \in Names : TRUE, tree |-> EmptyTree, todo |-> {}]
NoPrune == [at |-> "idle", refs |-> {}, unlisted |-> {}, due |-> {}, doomed |-> {}]

TypeOK ==
  /\ workspace \in [Sandboxes -> Trees]
  /\ alive \subseteq Sandboxes
  /\ pointer \in [Sandboxes \X Names -> {"none", "ok", "torn"}]
  /\ taken \in [Sandboxes \X Names -> Trees]
  /\ stored \subseteq Digests
  /\ content \in [Digests -> Trees]
  /\ \A d \in Digests \ stored : content[d] = EmptyTree
  /\ req \in [Requests ->
       [at : {"idle", "look", "move", "point", "clear", "put"} \union Copying,
        box : Sandboxes, name : Names, tree : Trees, todo : SUBSET Files]]
  /\ prune \in [at : {"idle", "sweep"}, refs : SUBSET Digests,
                unlisted : SUBSET Digests, due : SUBSET Digests,
                doomed : SUBSET Digests]
  /\ disturbed \subseteq Digests
  /\ staged \in 0..MaxTaken
  /\ crashes \in 0..MaxCrashes

Init ==
  /\ workspace = [s \in Sandboxes |-> EmptyTree]
  /\ alive = Sandboxes
  /\ pointer = [p \in Sandboxes \X Names |-> "none"]
  /\ taken = [p \in Sandboxes \X Names |-> EmptyTree]
  /\ stored = {}
  /\ content = [d \in Digests |-> EmptyTree]
  /\ req = [q \in Requests |-> Idle]
  /\ prune = NoPrune
  /\ disturbed = {}
  /\ staged = 0 /\ crashes = 0

-----------------------------------------------------------------------------
Pointer(q) == <<req[q].box, req[q].name>>
Digest(q)  == DirHash(req[q].tree)
Holds(p)   == DirHash(taken[p])

Goto(q, step) == req' = [req EXCEPT ![q].at = step]
Reply(q)      == req' = [req EXCEPT ![q] = Idle]

\* A tree laid over another one, as copyDir and `docker cp` do.
Over(new, old) == [f \in DOMAIN new \union DOMAIN old |->
                     IF f \in DOMAIN new THEN new[f] ELSE old[f]]
With(tree, f, bytes) == Over([g \in {f} |-> bytes], tree)

\* A command of the sandbox leaves another workspace behind.
Work(s) ==
  /\ s \in alive
  /\ workspace' \in {[workspace EXCEPT ![s] = tree] : tree \in Drafts}
  /\ UNCHANGED <<alive, pins, cas, req, prune, disturbed, bounds>>

\* DELETE of the sandbox: everything under sandboxes/<id> goes, the
\* content-addressed store stays.
DeleteSandbox(s) ==
  /\ s \in alive
  /\ alive' = alive \ {s}
  /\ pointer' = [p \in Sandboxes \X Names |-> IF p[1] = s THEN "none" ELSE pointer[p]]
  /\ taken' = [p \in Sandboxes \X Names |-> IF p[1] = s THEN EmptyTree ELSE taken[p]]
  /\ workspace' = [workspace EXCEPT ![s] = EmptyTree]
  /\ UNCHANGED <<cas, req, prune, disturbed, bounds>>

-----------------------------------------------------------------------------
(* snapshot/create: copy the workspace out, then Manager.Create.           *)

Stage(q, s, n) ==
  /\ req[q] = Idle
  /\ s \in alive
  /\ staged < MaxTaken
  /\ staged' = staged + 1
  /\ req' = [req EXCEPT ![q] = [at |-> "look", box |-> s, name |-> n,
                                tree |-> workspace[s], todo |-> {}]]
  /\ UNCHANGED <<boxes, pins, cas, prune, disturbed, crashes>>

\* A directory of that name is taken for the content.
Look(q) ==
  /\ req[q].at = "look"
  /\ Goto(q, IF Digest(q) \in stored THEN "point" ELSE "move")
  /\ UNCHANGED <<boxes, pins, cas, prune, disturbed, bounds>>

\* History: another tree of the same digest is there, or on its way.
Rivals(q) == {r \in Requests : req[r].at \in Copying /\ Digest(r) = Digest(q)}

Collides(q) == IF Rivals(q) = {} THEN content[Digest(q)] \notin {EmptyTree, req[q].tree}
               ELSE \E r \in Rivals(q) : req[r].tree # req[q].tree

Disturb(q) == disturbed' = IF Collides(q) THEN disturbed \union {Digest(q)} ELSE disturbed

\* os.Rename replaces at most an empty directory.
Rename(q) ==
  /\ req[q].at = "move"
  /\ content[Digest(q)] = EmptyTree
  /\ stored' = stored \union {Digest(q)}
  /\ content' = [content EXCEPT ![Digest(q)] = req[q].tree]
  /\ Disturb(q)
  /\ Goto(q, "point")
  /\ UNCHANGED <<boxes, pins, prune, bounds>>

\* The rename failed (the staging directory, under TMPDIR, is on another
\* device; or the target is not empty): copyDir, onto whatever is there.
StartCopy(q) ==
  /\ req[q].at = "move"
  /\ stored' = stored \union {Digest(q)}
  /\ Disturb(q)
  /\ req' = [req EXCEPT ![q].at = IF req[q].tree = EmptyTree THEN "point" ELSE "copy",
                        ![q].todo = DOMAIN req[q].tree]
  /\ UNCHANGED <<boxes, pins, content, prune, bounds>>

NextFile(q) == CHOOSE f \in req[q].todo : \A g \in req[q].todo : f <= g

\* Mutant: the file is written wherever its directory went.
CopyFileUnchecked(q) ==
  /\ req[q].at = "copy"
  /\ content' = [content EXCEPT ![Digest(q)] = With(@, NextFile(q), Cut)]
  /\ Goto(q, "fill")
  /\ UNCHANGED <<boxes, pins, stored, prune, disturbed, bounds>>

\* The file is created or truncated; when the pruner took the directory the
\* copy fails.
CopyFile(q) ==
  /\ req[q].at = "copy"
  /\ IF Digest(q) \in stored
       THEN /\ content' = [content EXCEPT ![Digest(q)] = With(@, NextFile(q), Cut)]
            /\ Goto(q, "fill")
       ELSE Reply(q) /\ UNCHANGED content
  /\ UNCHANGED <<boxes, pins, stored, prune, disturbed, bounds>>

\* Mutant: the error of the write is ignored.
FillFileIgnoringErrors(q) ==
  /\ req[q].at = "fill"
  /\ LET left == req[q].todo \ {NextFile(q)}
     IN  req' = [req EXCEPT ![q].at = IF left = {} THEN "point" ELSE "copy",
                            ![q].todo = left]
  /\ UNCHANGED <<boxes, pins, cas, prune, disturbed, bounds>>

\* The bytes go to the open file, wherever its name went since.
FillFile(q) ==
  /\ req[q].at = "fill"
  /\ LET f    == NextFile(q)
         d    == Digest(q)
         left == req[q].todo \ {f}
     IN  /\ content' = IF f \in DOMAIN content[d]
                         THEN [content EXCEPT ![d] = With(@, f, req[q].tree[f])]
                         ELSE content
         /\ req' = [req EXCEPT ![q].at = IF left = {} THEN "point" ELSE "copy",
                               ![q].todo = left]
  /\ UNCHANGED <<boxes, pins, stored, prune, disturbed, bounds>>

\* A write fails (disk full): what was copied stays.
CopyFails(q) ==
  /\ req[q].at \in Copying
  /\ crashes < MaxCrashes
  /\ crashes' = crashes + 1
  /\ disturbed' = disturbed \union {Digest(q)}
  /\ Reply(q)
  /\ UNCHANGED <<boxes, pins, cas, prune, staged>>

\* History: the pruner has read the pointers without this one.
Overlooked(q) == prune.at # "idle" /\ Digest(q) \notin prune.refs

\* createMeta: makes the directories it needs, deleted sandbox or not.
Point(q) ==
  /\ req[q].at = "point"
  /\ disturbed' = IF Overlooked(q) THEN disturbed \union {Digest(q)} ELSE disturbed
  /\ pointer' = [pointer EXCEPT ![Pointer(q)] = "ok"]
  /\ taken' = [taken EXCEPT ![Pointer(q)] = req[q].tree]
  /\ Reply(q)
  /\ UNCHANGED <<boxes, cas, prune, bounds>>

\* snapshot/delete: the pointer only.
DeleteSnapshot(s, n) ==
  /\ s \in alive
  /\ pointer[<<s, n>>] # "none"
  /\ pointer' = [pointer EXCEPT ![<<s, n>>] = "none"]
  /\ taken' = [taken EXCEPT ![<<s, n>>] = EmptyTree]
  /\ UNCHANGED <<boxes, cas, req, prune, disturbed, bounds>>

-----------------------------------------------------------------------------
(* snapshot/rollback: Manager.Rollback into a staging directory, then the   *)
(* workspace is emptied and filled.                                        *)

Fetch(q, s, n) ==
  /\ req[q] = Idle
  /\ s \in alive
  /\ pointer[<<s, n>>] = "ok"
  /\ Holds(<<s, n>>) \in stored
  /\ req' = [req EXCEPT ![q] = [at |-> "clear", box |-> s, name |-> n,
                                tree |-> content[Holds(<<s, n>>)], todo |-> {}]]
  /\ UNCHANGED <<boxes, pins, cas, prune, disturbed, bounds>>

Clear(q) ==
  /\ req[q].at = "clear"
  /\ \/ /\ req[q].box \in alive
        /\ workspace' = [workspace EXCEPT ![req[q].box] = EmptyTree]
        /\ Goto(q, "put") \/ Reply(q)
     \/ Reply(q) /\ UNCHANGED workspace
  /\ UNCHANGED <<alive, pins, cas, prune, disturbed, bounds>>

\* `docker cp` lays the staged tree over what commands wrote meanwhile.
Put(q) ==
  /\ req[q].at = "put"
  /\ \/ /\ req[q].box \in alive
        /\ workspace' = [workspace EXCEPT ![req[q].box] = Over(req[q].tree, @)]
     \/ UNCHANGED workspace
  /\ Reply(q)
  /\ UNCHANGED <<alive, pins, cas, prune, disturbed, bounds>>

-----------------------------------------------------------------------------
(* PruneOrphans: read the pointers, then list the store directory by        *)
(* directory (one per hash prefix: one per digest here) and remove what no  *)
(* pointer named.  A directory made after the prefixes were read may be     *)
(* listed or missed; one that was there is due.                            *)

\* Mutant: the pointers are not found, everything is an orphan.
ScanNoPointers ==
  /\ Pruner
  /\ prune = NoPrune
  /\ prune' = [at |-> "sweep", doomed |-> {}, unlisted |-> Digests, due |-> stored,
               refs |-> {}]
  /\ UNCHANGED <<boxes, pins, cas, req, disturbed, bounds>>

Scan ==
  /\ Pruner
  /\ prune = NoPrune
  /\ LET refs == {Holds(p) : p \in {r \in Sandboxes \X Names : pointer[r] = "ok"}}
     IN  prune' = [at |-> "sweep", doomed |-> {}, unlisted |-> Digests,
                   due |-> stored \ refs, refs |-> refs]
  /\ UNCHANGED <<boxes, pins, cas, req, disturbed, bounds>>

List(d) ==
  /\ prune.at = "sweep"
  /\ prune.doomed = {}
  /\ d \in (stored \cap prune.unlisted) \ prune.refs
  /\ prune' = [prune EXCEPT !.doomed = {d}, !.unlisted = @ \ {d}, !.due = @ \ {d}]
  /\ UNCHANGED <<boxes, pins, cas, req, disturbed, bounds>>

\* History: a request about to write a pointer counts on this content.
Wanted(d) == \E q \in Requests : req[q].at \in Copying \union {"point"} /\ Digest(q) = d

\* os.RemoveAll, one directory entry at a time.
Sweep(d) ==
  /\ prune.at = "sweep"
  /\ d \in prune.doomed
  /\ disturbed' = IF Wanted(d) THEN disturbed \union {d} ELSE disturbed
  /\ \/ /\ \E f \in DOMAIN content[d] :
             content' = [content EXCEPT ![d] = [g \in DOMAIN @ \ {f} |-> @[g]]]
        /\ UNCHANGED <<stored, prune>>
     \/ /\ content[d] = EmptyTree
        /\ stored' = stored \ {d}
        /\ prune' = [prune EXCEPT !.doomed = @ \ {d}]
        /\ UNCHANGED content
  /\ UNCHANGED <<boxes, pins, req, bounds>>

EndPrune ==
  /\ prune.at = "sweep"
  /\ prune.doomed = {} /\ prune.due = {}
  /\ prune' = NoPrune
  /\ UNCHANGED <<boxes, pins, cas, req, disturbed, bounds>>

\* The prune is killed, or it goes on after a RemoveAll that failed.
PruneFails ==
  /\ prune.at = "sweep"
  /\ crashes < MaxCrashes
  /\ crashes' = crashes + 1
  /\ disturbed' = disturbed \union prune.doomed
  /\ prune' \in {NoPrune, [prune EXCEPT !.doomed = {}]}
  /\ UNCHANGED <<boxes, pins, cas, req, staged>>

-----------------------------------------------------------------------------
\* The daemon dies with its requests; a meta.json being written is torn.
Crash ==
  /\ crashes < MaxCrashes
  /\ crashes' = crashes + 1
  /\ \/ UNCHANGED pins
     \/ \E q \in Requests : /\ req[q].at = "point"
                            /\ pointer' = [pointer EXCEPT ![Pointer(q)] = "torn"]
                            /\ taken' = [taken EXCEPT ![Pointer(q)] = EmptyTree]
  /\ disturbed' = disturbed \union
        {Digest(q) : q \in {r \in Requests : req[r].at \in Copying}}
  /\ req' = [q \in Requests |-> Idle]
  /\ UNCHANGED <<boxes, cas, prune, staged>>

Next ==
  \/ \E s \in Sandboxes : Work(s) \/ DeleteSandbox(s)
  \/ \E s \in Sandboxes, n \in Names :
       \/ DeleteSnapshot(s, n)
       \/ \E q \in Requests : Stage(q, s, n) \/ Fetch(q, s, n)
  \/ \E q \in Requests : \/ Look(q) \/ Rename(q) \/ StartCopy(q) \/ CopyFile(q)
                         \/ FillFile(q) \/ CopyFails(q) \/ Point(q)
                         \/ Clear(q) \/ Put(q)
  \/ Scan \/ EndPrune \/ PruneFails
  \/ \E d \in Digests : List(d) \/ Sweep(d)
  \/ Crash

Spec == Init /\ [][Next]_vars

-----------------------------------------------------------------------------
(* What holds.                                                             *)

\* Content a copy or the pruner is at work on.
InFlux(d) == \/ \E q \in Requests : req[q].at \in Copying /\ Digest(q) = d
             \/ d \in prune.doomed

\* The store is content-addressed: what lies under a digest hashes to it,
\* unless a crash, a failed copy or a prune that overlapped a snapshot
\* interfered, or two trees of one digest raced.
AddressIsTrue ==
  \A d \in stored : d \in disturbed \/ InFlux(d) \/ DirHash(content[d]) = d

\* A snapshot that can be listed has its content, unless a prune overlapped
\* its creation: the pointer is written last, sandboxes that share content
\* only delete their pointers, and the pruner spares what is pointed at
\* (prune.go: "that no per-sandbox snapshot pointer references").
PointerIsBacked ==
  \A p \in Sandboxes \X Names :
    pointer[p] = "ok" => Holds(p) \in stored \/ Holds(p) \in disturbed

-----------------------------------------------------------------------------
(* What the documents say and the code does not do.                        *)

\* AC-13.2: rollback "restores to snapshot".  Checked with one request at a
\* time and no crash, prune or failure.
RollbackFetchesTheSnapshot ==
  \A q \in Requests : req[q].at = "clear" => req[q].tree = taken[Pointer(q)]
=============================================================================
