----------------------- MODULE WorkspaceTemplatesProofs -----------------------
(****************************************************************************)
(* Proofs about two parts of Parts: WorkspaceFiles, for every set of paths, *)
(* outputs, contents and requests and any number of failures; and           *)
(* Templates, for every set of names, definitions, bundles and requests and *)
(* any number of prunes and deaths. Names of a part's proof begin with Ws   *)
(* or with Tpl. The last section has the types of all parts.                *)
(*                                                                          *)
(* The argument for the workspace: what a request may say about a path when *)
(* it is done, it may say all along of the paths nobody touched since it    *)
(* began (WsSound), and no step of another request takes it back.           *)
(*                                                                          *)
(* The argument for the templates: of a template nobody disturbed, the      *)
(* revisions on disk are 1 to k with the generations growing, and its one   *)
(* writer, when there is one, has read just these (TplUndisturbed). That a  *)
(* next number exists at all is a matter of budget: each request still has  *)
(* two revisions to write at most and one template to make, and what is on  *)
(* disk leaves room for them (TplWithinBounds).                             *)
(****************************************************************************)
EXTENDS Parts, ContextsClientsProofs, EgressExecLogProofs, GuestShellProofs,
        FiniteSetTheorems, WellFoundedInduction, TLAPS

-----------------------------------------------------------------------------
(* The workspace.                                                           *)

WsReqRecords ==
  [at : {"idle", "run", "late", "fill", "chown", "unheard", "copy", "add", "out", "done"},
   op : Ws!Ops, path : FilePaths, content : Ws!File, todo : SUBSET Outputs,
   staged : [Outputs -> Ws!File], inside : SUBSET Outputs, diff : SUBSET FilePaths,
   timedOut : BOOLEAN, unadded : BOOLEAN, still : SUBSET FilePaths]

\* A content c is where a pull that found the outputs inside at the destination
\* puts the output p.
WsThere(c, to, p, inside) == c = IF p \in inside THEN to[p].nested ELSE to[p].top

\* What the record of a request says is so; has is whether its git has the lock.
WsFits(q, has) ==
  /\ q.op \in {"write", "push"} => q.content \in FileContents
  /\ q.at = "chown" => q.op = "push"
  /\ q.at = "out" => q.op \in Ws!Diffs
  /\ q.at = "run" => q.inside = {}
  /\ q.at = "copy" => q.inside \intersect q.todo = {}
  /\ \A p \in q.still : wsSure[p] # Ws!Absent
  /\ q.at = "done" /\ q.op = "read" /\ q.path \in q.still =>
       wsSure[q.path] \in Binary \/ q.content = wsSure[q.path]
  /\ q.at = "out" /\ ~q.unadded => has \/ q.still \ Ignored \subseteq wsIndex
  /\ q.at = "done" /\ q.op = "diff" /\ ~q.timedOut /\ ~q.unadded /\ wsHead # Ws!NoRepo =>
       \A p \in q.still : wsSure[p] # wsHead[p] /\ (p \in Ignored => wsHead[p] # Ws!Absent) => p \in q.diff
  /\ q.op = "pull" /\ q.at = "copy" =>
       \A p \in Outputs \intersect q.still : p \in q.todo \/ WsThere(wsSure[p], wsDest, p, q.inside)
  /\ q.op = "pull" /\ q.at \in {"add", "out", "done"} =>
       \A p \in Outputs \intersect q.still : WsThere(wsSure[p], wsDest, p, q.inside)
  /\ q.op = "pack" /\ q.at = "copy" =>
       \A p \in Outputs \intersect q.still : p \in q.todo \/ q.staged[p] = wsSure[p]
  /\ q.op = "pack" /\ q.at = "done" =>
       \A p \in Outputs \intersect q.still : wsArchive[p] \in {wsSure[p], Ws!Part}
WsSound(r) == WsFits(wsReq[r], wsLock = r)

\* An acknowledged content is that of the file.
WsSureIsHeld == \A p \in FilePaths : wsSure[p] # Ws!Absent => wsFiles[p].content = wsSure[p]

\* What the last commit has, git knows.
WsTracked == wsHead # Ws!NoRepo => \A p \in FilePaths : wsHead[p] # Ws!Absent => p \in wsIndex

WsIInv ==
  Ws!TypeOK /\ WsSureIsHeld /\ WsTracked /\ Ws!UserOwnsFiles /\ \A r \in Actors : WsSound(r)

\* What docker cp does to one destination, where it succeeds.
WsCopied(p) ==
  \/ /\ wsDest[p].top = Ws!Absent /\ wsDest'[p].top = wsFiles[p].content
     /\ wsDest'[p].nested = wsDest[p].nested
  \/ /\ wsDest[p].top # Ws!Absent /\ wsDest'[p].top = wsDest[p].top
     /\ wsDest'[p].nested = wsFiles[p].content

-----------------------------------------------------------------------------
(* Going on.                                                                *)

LEMMA WsIdleIsRecord ==
  ASSUME Ws!FilesAssumption
  PROVE  Ws!Idle \in WsReqRecords /\ Ws!Idle.at = "idle" /\ Ws!Idle.op = "read" /\ Ws!Idle.still = {}
         /\ Ws!Idle.inside = {}
<1>1. (CHOOSE p \in FilePaths : TRUE) \in FilePaths
  BY DEF Ws!FilesAssumption
<1> QED BY <1>1 DEF Ws!Idle, WsReqRecords, Ws!Nothing, Ws!File, Ws!Ops

LEMMA WsGotoIs ==
  ASSUME wsReq \in [Actors -> WsReqRecords], NEW r \in Actors, NEW rec \in WsReqRecords,
         NEW P \in SUBSET FilePaths, Ws!Goto(r, rec, P)
  PROVE  /\ wsReq' \in [Actors -> WsReqRecords]
         /\ wsReq'[r] = [rec EXCEPT !.still = @ \ P]
         /\ \A q \in Actors : q # r => wsReq'[q] = [wsReq[q] EXCEPT !.still = @ \ P]
<1>1. ASSUME NEW x \in WsReqRecords PROVE [x EXCEPT !.still = @ \ P] \in WsReqRecords
  BY DEF WsReqRecords
<1> DEFINE after(q) == [(IF q = r THEN rec ELSE wsReq[q]) EXCEPT !.still = @ \ P]
<1>2. wsReq' = [q \in Actors |-> after(q)]
  BY DEF Ws!Goto
<1>3. \A q \in Actors : after(q) \in WsReqRecords
  BY <1>1
<1>4. wsReq' \in [Actors -> WsReqRecords] /\ \A q \in Actors : wsReq'[q] = after(q)
  <2> HIDE DEF after
  <2> QED BY <1>2, <1>3
<1> QED BY <1>4

\* What a step leaves to a request q that only forgets the paths P it touches.
LEMMA WsStaysSound ==
  ASSUME WsIInv, NEW q \in Actors, NEW P \in SUBSET FilePaths,
         wsReq'[q] = [wsReq[q] EXCEPT !.still = @ \ P],
         \A p \in FilePaths \ P : wsSure[p] # Ws!Absent => wsSure'[p] = wsSure[p],
         wsLock = q => wsLock' = q,
         P = FilePaths \/ (wsHead' = wsHead /\ wsIndex \subseteq wsIndex'),
         wsReq[q].op # "pack" \/ P = FilePaths \/ wsArchive' = wsArchive,
         \A p \in Outputs \ P : wsDest'[p] = wsDest[p] \/ WsCopied(p)
  PROVE  WsSound(q)'
<1> DEFINE old == wsReq[q]
           new == wsReq'[q]
<1>1. old \in WsReqRecords /\ new = [old EXCEPT !.still = @ \ P] /\ WsSound(q)
  BY DEF WsIInv, Ws!TypeOK, WsReqRecords
<1>2. /\ new.at = old.at /\ new.op = old.op /\ new.path = old.path /\ new.content = old.content
      /\ new.todo = old.todo /\ new.diff = old.diff /\ new.timedOut = old.timedOut
      /\ new.unadded = old.unadded /\ new.still = old.still \ P
      /\ new.staged = old.staged /\ new.inside = old.inside
      /\ old.still \subseteq FilePaths
  BY <1>1 DEF WsReqRecords
<1>3. \A p \in new.still : /\ wsSure[p] # Ws!Absent /\ wsSure'[p] = wsSure[p] /\ p \in FilePaths \ P
                          /\ wsFiles[p].content = wsSure[p]
  BY <1>1, <1>2 DEF WsSound, WsFits, WsIInv, WsSureIsHeld
<1>4. ASSUME NEW p \in new.still \intersect Outputs, NEW inside, WsThere(wsSure[p], wsDest, p, inside)
      PROVE  WsThere(wsSure'[p], wsDest', p, inside)
  <2>1. wsSure'[p] = wsSure[p] /\ wsFiles[p].content = wsSure[p] /\ wsSure[p] # Ws!Absent
    BY <1>3
  <2>2. wsDest'[p] = wsDest[p] \/ WsCopied(p)
    BY <1>3
  <2> QED BY <1>4, <2>1, <2>2 DEF WsThere, WsCopied
<1>5. new.still = {} \/ (wsHead' = wsHead /\ wsIndex \subseteq wsIndex')
  BY <1>2
<1>9. new.op # "pack" \/ new.still = {} \/ wsArchive' = wsArchive
  BY <1>2
<1> HIDE DEF old, new
<1>6. /\ new.op \in {"write", "push"} => new.content \in FileContents
      /\ new.at = "chown" => new.op = "push"
      /\ new.at = "out" => new.op \in Ws!Diffs
      /\ new.at = "run" => new.inside = {}
      /\ new.at = "copy" => new.inside \intersect new.todo = {}
      /\ \A p \in new.still : wsSure'[p] # Ws!Absent
      /\ new.at = "done" /\ new.op = "read" /\ new.path \in new.still =>
           wsSure'[new.path] \in Binary \/ new.content = wsSure'[new.path]
  BY <1>1, <1>2, <1>3 DEF WsSound, WsFits, old
<1>7. /\ new.at = "out" /\ ~new.unadded => wsLock' = q \/ new.still \ Ignored \subseteq wsIndex'
      /\ new.at = "done" /\ new.op = "diff" /\ ~new.timedOut /\ ~new.unadded /\ wsHead' # Ws!NoRepo =>
           \A p \in new.still : wsSure'[p] # wsHead'[p] /\ (p \in Ignored => wsHead'[p] # Ws!Absent) => p \in new.diff
  BY <1>1, <1>2, <1>3, <1>5 DEF WsSound, WsFits, old
<1>8. /\ new.op = "pull" /\ new.at = "copy" =>
           \A p \in Outputs \intersect new.still : p \in new.todo \/ WsThere(wsSure'[p], wsDest', p, new.inside)
      /\ new.op = "pull" /\ new.at \in {"add", "out", "done"} =>
           \A p \in Outputs \intersect new.still : WsThere(wsSure'[p], wsDest', p, new.inside)
  <2>1. \A p \in Outputs \intersect new.still :
          WsThere(wsSure[p], wsDest, p, new.inside) => WsThere(wsSure'[p], wsDest', p, new.inside)
    BY <1>4
  <2> QED BY <1>1, <1>2, <2>1 DEF WsSound, WsFits, old
<1>10. /\ new.op = "pack" /\ new.at = "copy" =>
            \A p \in Outputs \intersect new.still : p \in new.todo \/ new.staged[p] = wsSure'[p]
       /\ new.op = "pack" /\ new.at = "done" =>
            \A p \in Outputs \intersect new.still : wsArchive'[p] \in {wsSure'[p], Ws!Part}
  BY <1>1, <1>2, <1>3, <1>9 DEF WsSound, WsFits, old
<1> QED BY <1>6, <1>7, <1>8, <1>10 DEF WsSound, WsFits, WsThere, new, Ws!NoRepo

LEMMA WsGotoOne ==
  ASSUME WsIInv, NEW r \in Actors, NEW rec \in WsReqRecords, NEW p \in FilePaths, Ws!Goto(r, rec, {p})
  PROVE  wsReq'[r] = [rec EXCEPT !.still = @ \ {p}]
<1>1. wsReq \in [Actors -> WsReqRecords] /\ {p} \in SUBSET FilePaths
  BY DEF WsIInv, Ws!TypeOK, WsReqRecords
<1> QED BY <1>1, WsGotoIs

LEMMA WsGotoNone ==
  ASSUME WsIInv, NEW r \in Actors, NEW rec \in WsReqRecords, Ws!Goto(r, rec, {})
  PROVE  wsReq'[r] = rec
<1>1. wsReq \in [Actors -> WsReqRecords]
  BY DEF WsIInv, Ws!TypeOK, WsReqRecords
<1>2. wsReq'[r] = [rec EXCEPT !.still = @ \ {}]
  BY <1>1, WsGotoIs
<1> QED BY <1>2 DEF WsReqRecords

\* A step of r that has the invariant of its own request and touches the
\* paths P alone has everybody's.
LEMMA WsStepKeeps ==
  ASSUME WsIInv, NEW r \in Actors, NEW rec \in WsReqRecords, NEW P \in SUBSET FilePaths,
         Ws!Goto(r, rec, P),
         wsFiles' \in [FilePaths -> [content : Ws!File, root : BOOLEAN]],
         wsHead' \in [FilePaths -> FileContents \union {Ws!Absent}] \union {Ws!NoRepo}, wsIndex' \subseteq FilePaths,
         wsLock' \in Actors \union {Ws!Nobody, Ws!Unheard},
         wsDest' \in [Outputs -> [top : Ws!File, nested : Ws!File]], wsArchive' = wsArchive,
         wsSure' \in [FilePaths -> FileContents \union {Ws!Absent}], wsFailed' \subseteq FilePaths,
         wsBegun' \in 0..MaxBegun, wsFaults' \in 0..MaxFaults,
         \A p \in FilePaths \ P : wsSure[p] # Ws!Absent => wsSure'[p] = wsSure[p],
         \A q \in Actors \ {r} : wsLock = q => wsLock' = q,
         (P = FilePaths /\ WsTracked') \/ (wsHead' = wsHead /\ wsIndex \subseteq wsIndex'),
         \A p \in Outputs \ P : wsDest'[p] = wsDest[p] \/ WsCopied(p),
         WsSureIsHeld', WsSound(r)',
         \A p \in FilePaths : wsFiles'[p].root =>
           \/ p \in wsFailed'
           \/ rec.at = "chown" /\ rec.path = p
           \/ /\ wsFiles[p].root /\ p \notin wsFailed
              /\ ~(wsReq[r].at = "chown" /\ wsReq[r].path = p)
  PROVE  WsIInv'
<1>1. wsReq \in [Actors -> WsReqRecords]
  BY DEF WsIInv, Ws!TypeOK, WsReqRecords
<1>2. /\ wsReq' \in [Actors -> WsReqRecords]
      /\ wsReq'[r] = [rec EXCEPT !.still = @ \ P]
      /\ \A q \in Actors : q # r => wsReq'[q] = [wsReq[q] EXCEPT !.still = @ \ P]
  BY <1>1, WsGotoIs
<1>3. Ws!TypeOK'
  <2>1. wsArchive \in [Outputs -> Ws!File]
    BY DEF WsIInv, Ws!TypeOK
  <2> QED BY <1>2, <2>1 DEF Ws!TypeOK, WsReqRecords
<1>4. \A q \in Actors \ {r} : WsSound(q)'
  BY <1>2, WsStaysSound
<1>5. ASSUME NEW p \in FilePaths, wsFiles'[p].root, p \notin wsFailed'
      PROVE  \E q \in Actors : wsReq'[q].at = "chown" /\ wsReq'[q].path = p
  <2>1. CASE rec.at = "chown" /\ rec.path = p
    BY <1>2, <2>1 DEF WsReqRecords
  <2>2. CASE /\ wsFiles[p].root /\ p \notin wsFailed
             /\ ~(wsReq[r].at = "chown" /\ wsReq[r].path = p)
    <3>1. PICK q \in Actors : wsReq[q].at = "chown" /\ wsReq[q].path = p
      BY <2>2 DEF WsIInv, Ws!UserOwnsFiles
    <3>2. q # r
      BY <2>2, <3>1
    <3>3. wsReq[q] \in WsReqRecords /\ wsReq'[q] = [wsReq[q] EXCEPT !.still = @ \ P]
      BY <1>1, <1>2, <3>2
    <3> QED BY <3>1, <3>3 DEF WsReqRecords
  <2> QED BY <1>5, <2>1, <2>2
<1>6. Ws!UserOwnsFiles'
  BY <1>5 DEF Ws!UserOwnsFiles
<1>7. WsTracked'
  BY DEF WsIInv, WsTracked, Ws!NoRepo
<1> QED BY <1>3, <1>4, <1>6, <1>7 DEF WsIInv

\* A step that changes nothing but the record of its request, the lock, the
\* counters and what is known to have failed.
LEMMA WsMovesOnKeeps ==
  ASSUME WsIInv, NEW r \in Actors, NEW rec \in WsReqRecords, Ws!Goto(r, rec, {}),
         UNCHANGED <<wsFiles, wsHead, wsIndex, wsDest, wsArchive, wsSure>>,
         wsLock' \in Actors \union {Ws!Nobody, Ws!Unheard}, \A q \in Actors \ {r} : wsLock = q => wsLock' = q,
         wsFailed \subseteq wsFailed', wsFailed' \subseteq FilePaths,
         wsBegun' \in 0..MaxBegun, wsFaults' \in 0..MaxFaults,
         wsReq[r].at = "chown" => wsReq[r].path \in wsFailed' \/ (rec.at = "chown" /\ rec.path = wsReq[r].path),
         WsFits(rec, wsLock' = r)
  PROVE  WsIInv'
<1>3. wsReq'[r] = rec
  BY WsGotoNone
<1>4. WsSound(r)'
  BY <1>3 DEF WsSound, WsFits, WsThere, Ws!NoRepo
<1>5. WsSureIsHeld'
  BY DEF WsSureIsHeld, WsIInv
<1>6. \A p \in FilePaths : wsFiles'[p].root =>
           \/ p \in wsFailed'
           \/ rec.at = "chown" /\ rec.path = p
           \/ /\ wsFiles[p].root /\ p \notin wsFailed
              /\ ~(wsReq[r].at = "chown" /\ wsReq[r].path = p)
  OBVIOUS
<1>7. /\ wsFiles' \in [FilePaths -> [content : Ws!File, root : BOOLEAN]]
      /\ wsHead' \in [FilePaths -> FileContents \union {Ws!Absent}] \union {Ws!NoRepo} /\ wsIndex' \subseteq FilePaths
      /\ wsDest' \in [Outputs -> [top : Ws!File, nested : Ws!File]]
      /\ wsSure' \in [FilePaths -> FileContents \union {Ws!Absent}]
  BY DEF WsIInv, Ws!TypeOK
<1> QED BY <1>4, <1>5, <1>6, <1>7, WsStepKeeps

\* What IInv says of the variables and of one request.
LEMMA WsKnown ==
  ASSUME WsIInv, NEW r \in Actors
  PROVE  /\ wsReq[r] \in WsReqRecords /\ WsFits(wsReq[r], wsLock = r)
         /\ wsArchive \in [Outputs -> Ws!File] /\ wsLock \in Actors \union {Ws!Nobody, Ws!Unheard}
         /\ wsFailed \subseteq FilePaths /\ wsBegun \in 0..MaxBegun /\ wsFaults \in 0..MaxFaults
         /\ wsFiles \in [FilePaths -> [content : Ws!File, root : BOOLEAN]]
         /\ wsHead \in [FilePaths -> FileContents \union {Ws!Absent}] \union {Ws!NoRepo} /\ wsIndex \subseteq FilePaths
         /\ wsDest \in [Outputs -> [top : Ws!File, nested : Ws!File]]
         /\ wsSure \in [FilePaths -> FileContents \union {Ws!Absent}]
BY DEF WsIInv, Ws!TypeOK, WsReqRecords, WsSound

LEMMA WsIdleFits == ASSUME Ws!FilesAssumption, NEW has PROVE WsFits(Ws!Idle, has)
BY WsIdleIsRecord DEF WsFits

-----------------------------------------------------------------------------
(* Requests, and the sandbox's own processes.                               *)

LEMMA WsBeginKeeps ==
  ASSUME Ws!FilesAssumption, WsIInv, NEW r \in Actors, NEW op \in Ws!Ops, NEW p \in FilePaths,
         NEW c \in Ws!File, op \in {"write", "push"} => c \in FileContents, Ws!Begin(r, op, p, c)
  PROVE  WsIInv'
<1> DEFINE known == {x \in FilePaths : wsSure[x] # Ws!Absent}
           rec == [Ws!Idle EXCEPT !.at = "run", !.op = op, !.path = p, !.content = c, !.still = known]
<1>1. rec \in WsReqRecords /\ rec.at = "run" /\ rec.op = op /\ rec.content = c /\ rec.inside = {}
      /\ rec.still = known
  <2>1. Ws!Idle \in WsReqRecords /\ Ws!Idle.inside = {}
    BY WsIdleIsRecord
  <2>2. known \subseteq FilePaths
    OBVIOUS
  <2> HIDE DEF known
  <2> QED BY <2>1, <2>2 DEF WsReqRecords
<1>2. Ws!Goto(r, rec, {}) /\ wsReq[r].at = "idle"
      /\ UNCHANGED <<wsFiles, Ws!git, Ws!host, wsSure, wsFailed, wsFaults>>
  BY DEF Ws!Begin
<1>3. wsBegun' \in 0..MaxBegun
  <2>1. wsBegun \in 0..MaxBegun /\ wsBegun < MaxBegun /\ wsBegun' = wsBegun + 1 /\ MaxBegun \in Nat
    BY WsKnown DEF Ws!Begin, Ws!FilesAssumption
  <2> QED BY <2>1
<1> HIDE DEF rec
<1>4. WsFits(rec, wsLock' = r)
  BY <1>1 DEF WsFits
<1> QED BY <1>1, <1>2, <1>3, <1>4, WsKnown, WsMovesOnKeeps DEF Ws!git, Ws!host

LEMMA WsReplyKeeps ==
  ASSUME Ws!FilesAssumption, WsIInv, NEW r \in Actors, Ws!Reply(r) PROVE WsIInv'
BY WsIdleIsRecord, WsIdleFits, WsKnown, WsMovesOnKeeps DEF Ws!Reply, Ws!git, Ws!host

LEMMA WsReadKeeps ==
  ASSUME Ws!FilesAssumption, WsIInv, NEW r \in Actors, Ws!Read(r) PROVE WsIInv'
<1> DEFINE rec == [wsReq[r] EXCEPT !.at = "done", !.content = Ws!Text(wsFiles[wsReq[r].path].content)]
<1>1. /\ Ws!Goto(r, rec, {}) /\ wsReq[r].at = "run" /\ wsReq[r].op = "read"
      /\ UNCHANGED <<wsFiles, Ws!git, Ws!host, wsSure, wsFailed, wsBegun, wsFaults>>
  BY DEF Ws!Read
<1>2. /\ rec \in WsReqRecords /\ rec.at = "done" /\ rec.op = "read" /\ rec.path = wsReq[r].path
      /\ rec.still = wsReq[r].still /\ rec.content = Ws!Text(wsFiles[rec.path].content) /\ rec.path \in FilePaths
  <2>1. wsReq[r] \in WsReqRecords /\ wsFiles[wsReq[r].path].content \in Ws!File
    BY WsKnown DEF WsReqRecords
  <2>2. Ws!Text(wsFiles[wsReq[r].path].content) \in Ws!File
    BY <2>1 DEF Ws!Text, Ws!File
  <2> HIDE DEF Ws!Text
  <2> QED BY <1>1, <2>1, <2>2 DEF WsReqRecords
<1> HIDE DEF rec
<1>3. \A p \in rec.still : wsSure[p] # Ws!Absent
  BY <1>2, WsKnown DEF WsFits
<1>4. WsFits(rec, wsLock' = r)
  BY <1>2, <1>3 DEF WsFits, WsIInv, WsSureIsHeld, Ws!Text
<1> QED BY <1>1, <1>2, <1>4, WsKnown, WsMovesOnKeeps DEF Ws!git, Ws!host

LEMMA WsWorkKeeps ==
  ASSUME Ws!FilesAssumption, WsIInv, NEW p \in FilePaths, NEW c \in FileContents \union {Ws!Absent}, Ws!Work(p, c)
  PROVE  WsIInv'
<1>1. PICK r \in Actors : Ws!Goto(r, wsReq[r], {p})
  BY DEF Ws!Work
<1>2. /\ wsFiles' = [wsFiles EXCEPT ![p] = [content |-> c, root |-> FALSE]]
      /\ wsSure' = [x \in FilePaths |-> IF x \in {p} THEN Ws!Absent ELSE wsSure[x]]
      /\ UNCHANGED <<Ws!git, Ws!host, wsFailed, wsFaults>> /\ wsBegun < MaxBegun /\ wsBegun' = wsBegun + 1
  BY DEF Ws!Work, Ws!Set, Ws!Touch
<1>3. wsBegun' \in 0..MaxBegun
  <2>1. wsBegun \in 0..MaxBegun /\ MaxBegun \in Nat
    BY <1>1, WsKnown DEF Ws!FilesAssumption
  <2> QED BY <1>2, <2>1
<1>4. /\ wsFiles' \in [FilePaths -> [content : Ws!File, root : BOOLEAN]]
      /\ wsSure' \in [FilePaths -> FileContents \union {Ws!Absent}]
      /\ \A x \in FilePaths \ {p} : wsFiles'[x] = wsFiles[x] /\ wsSure'[x] = wsSure[x]
      /\ wsFiles'[p].root = FALSE /\ wsSure'[p] = Ws!Absent
  BY <1>1, <1>2, WsKnown DEF Ws!File
<1>5. WsSureIsHeld'
  BY <1>4 DEF WsIInv, WsSureIsHeld
<1>6. wsReq'[r] = [wsReq[r] EXCEPT !.still = @ \ {p}]
  <2>1. wsReq[r] \in WsReqRecords
    BY <1>1, WsKnown
  <2> QED BY <1>1, <2>1, WsGotoOne
<1>7. WsSound(r)'
  <2>1. {p} \in SUBSET FilePaths /\ UNCHANGED <<wsHead, wsIndex, wsLock, wsDest, wsArchive>>
    BY <1>2 DEF Ws!git, Ws!host
  <2> QED BY <1>1, <1>4, <1>6, <2>1, WsStaysSound
<1>8. \A x \in FilePaths : wsFiles'[x].root =>
        \/ x \in wsFailed'
        \/ wsReq[r].at = "chown" /\ wsReq[r].path = x
        \/ /\ wsFiles[x].root /\ x \notin wsFailed
           /\ ~(wsReq[r].at = "chown" /\ wsReq[r].path = x)
  <2> SUFFICES ASSUME NEW x \in FilePaths, wsFiles'[x].root, x \notin wsFailed'
               PROVE  wsFiles[x].root /\ x \notin wsFailed
    OBVIOUS
  <2>1. wsFiles'[x] = wsFiles[x]
    BY <1>4
  <2> QED BY <1>2, <2>1
<1>9. wsReq[r] \in WsReqRecords /\ {p} \in SUBSET FilePaths
  BY <1>1, WsKnown
<1> QED BY <1>1, <1>2, <1>3, <1>4, <1>5, <1>7, <1>8, <1>9, WsKnown, WsStepKeeps DEF Ws!git, Ws!host

-----------------------------------------------------------------------------
(* Writes and pushes.                                                       *)

\* The record of a request that goes on as rec, having touched one path.
LEMMA WsTouchedFits ==
  ASSUME WsIInv, NEW r \in Actors, NEW rec \in WsReqRecords, NEW p \in FilePaths,
         Ws!Goto(r, rec, {p}), rec.still \subseteq wsReq[r].still,
         \A x \in FilePaths \ {p} : wsSure'[x] = wsSure[x],
         rec.op \in {"write", "push"} => rec.content \in FileContents,
         rec.at \notin {"done", "out", "run", "copy"}, rec.op # "pull", rec.at = "chown" => rec.op = "push"
  PROVE  WsSound(r)'
<1>1. wsReq'[r] = [rec EXCEPT !.still = @ \ {p}]
  BY WsGotoOne
<1>2. \A x \in wsReq'[r].still : wsSure'[x] # Ws!Absent
  BY <1>1, WsKnown DEF WsReqRecords, WsFits
<1> QED BY <1>1, <1>2 DEF WsSound, WsFits, WsReqRecords

LEMMA WsOpenFileKeeps ==
  ASSUME Ws!FilesAssumption, WsIInv, NEW r \in Actors, Ws!OpenFile(r) PROVE WsIInv'
<1> DEFINE p == wsReq[r].path
           then == Ws!Then(r)
           rec == [wsReq[r] EXCEPT !.at = then]
<1>0. then \in {"fill", "unheard"}
  BY DEF Ws!Then
<1> HIDE DEF then
<1>1. CASE Ws!Goto(r, Ws!Idle, {}) /\ UNCHANGED <<wsFiles, wsSure>>
  <2>1. wsReq[r].at \in {"run", "late"}
    BY DEF Ws!OpenFile, Ws!Going
  <2> QED BY <1>1, <2>1, WsIdleIsRecord, WsIdleFits, WsKnown, WsMovesOnKeeps DEF Ws!OpenFile,
             Ws!git, Ws!host
<1>2. CASE Ws!Set(p, Ws!Cut, FALSE) /\ Ws!Touch({p}) /\ Ws!Goto(r, rec, {p})
  <2>1. /\ p \in FilePaths /\ rec \in WsReqRecords /\ rec.at \in {"fill", "unheard"} /\ rec.op = "write"
        /\ rec.still = wsReq[r].still /\ rec.content \in FileContents /\ wsReq[r].at \in {"run", "late"}
    <3>1. wsReq[r] \in WsReqRecords /\ wsReq[r].op = "write" /\ wsReq[r].at \in {"run", "late"}
          /\ wsReq[r].content \in FileContents
      BY WsKnown DEF Ws!OpenFile, Ws!Going, WsFits
    <3> QED BY <1>0, <3>1 DEF WsReqRecords
  <2>2. /\ wsFiles' = [wsFiles EXCEPT ![p] = [content |-> Ws!Cut, root |-> FALSE]]
        /\ wsSure' = [x \in FilePaths |-> IF x \in {p} THEN Ws!Absent ELSE wsSure[x]]
        /\ UNCHANGED <<Ws!git, Ws!host, wsFailed, wsBegun, wsFaults>> /\ Ws!Goto(r, rec, {p})
    BY <1>2 DEF Ws!OpenFile, Ws!Set, Ws!Touch
  <2> HIDE DEF p, rec
  <2>3. /\ wsFiles' \in [FilePaths -> [content : Ws!File, root : BOOLEAN]]
        /\ wsSure' \in [FilePaths -> FileContents \union {Ws!Absent}]
        /\ \A x \in FilePaths \ {p} : wsFiles'[x] = wsFiles[x] /\ wsSure'[x] = wsSure[x]
        /\ wsFiles'[p].root = FALSE /\ wsSure'[p] = Ws!Absent
    BY <2>1, <2>2, WsKnown DEF Ws!File
  <2>4. WsSureIsHeld'
    BY <2>3 DEF WsIInv, WsSureIsHeld
  <2>5. WsSound(r)'
    BY <2>1, <2>2, <2>3, WsTouchedFits
  <2> QED BY <2>1, <2>2, <2>3, <2>4, <2>5, WsKnown, WsStepKeeps DEF Ws!git, Ws!host
<1> QED BY <1>1, <1>2 DEF Ws!OpenFile, then

LEMMA WsFillFileKeeps ==
  ASSUME Ws!FilesAssumption, WsIInv, NEW r \in Actors, Ws!FillFile(r) PROVE WsIInv'
<1> DEFINE p == wsReq[r].path
           c == wsReq[r].content
           whole == wsFiles[p].content = Ws!Cut /\ Ws!Filling(p) = {r} /\ wsReq[r].at = "fill"
<1>1. /\ p \in FilePaths /\ c \in FileContents /\ c \in Ws!File /\ wsReq[r].at \in {"fill", "unheard"}
      /\ Ws!Goto(r, Ws!Idle, {p}) /\ UNCHANGED <<Ws!git, Ws!host, wsFailed, wsBegun, wsFaults>>
      /\ wsSure' = [wsSure EXCEPT ![p] = IF whole THEN c ELSE Ws!Absent]
  BY WsKnown DEF Ws!FillFile, Ws!Filling, WsReqRecords, WsFits
<1>2. PICK x \in {c} \union (IF wsFiles[p].content = Ws!Cut THEN {} ELSE {Ws!Mixed, wsFiles[p].content}) :
        wsFiles' = [wsFiles EXCEPT ![p] = [content |-> x, root |-> wsFiles[p].root]]
  BY DEF Ws!FillFile, Ws!Set
<1>3. x \in Ws!File /\ (whole => x = c)
  BY <1>1, <1>2, WsKnown DEF Ws!File
<1> HIDE DEF p, c, whole
<1>4. /\ wsFiles' \in [FilePaths -> [content : Ws!File, root : BOOLEAN]]
      /\ wsSure' \in [FilePaths -> FileContents \union {Ws!Absent}]
      /\ \A y \in FilePaths \ {p} : wsFiles'[y] = wsFiles[y] /\ wsSure'[y] = wsSure[y]
      /\ wsFiles'[p].content = x /\ wsFiles'[p].root = wsFiles[p].root
      /\ wsSure'[p] = IF whole THEN c ELSE Ws!Absent
  BY <1>1, <1>2, <1>3, WsKnown
<1>5. WsSureIsHeld'
  BY <1>3, <1>4 DEF WsIInv, WsSureIsHeld
<1>6. WsSound(r)'
  BY <1>1, <1>4, WsTouchedFits, WsIdleIsRecord
<1>7. \A y \in FilePaths : wsFiles'[y].root =>
        \/ y \in wsFailed'
        \/ wsFiles[y].root /\ y \notin wsFailed
  <2> SUFFICES ASSUME NEW y \in FilePaths, wsFiles'[y].root, y \notin wsFailed'
               PROVE  wsFiles[y].root /\ y \notin wsFailed
    OBVIOUS
  <2>1. wsFiles'[y].root = wsFiles[y].root
    BY <1>1, <1>4
  <2> QED BY <1>1, <2>1
<1> QED BY <1>1, <1>4, <1>5, <1>6, <1>7, WsKnown, WsIdleIsRecord, WsStepKeeps DEF Ws!git, Ws!host

LEMMA WsCopyInKeeps ==
  ASSUME Ws!FilesAssumption, WsIInv, NEW r \in Actors, Ws!CopyIn(r) PROVE WsIInv'
<1> DEFINE p == wsReq[r].path
           rec == [wsReq[r] EXCEPT !.at = "chown"]
<1>1. /\ p \in FilePaths /\ rec \in WsReqRecords /\ rec.at = "chown" /\ rec.op = "push" /\ rec.path = p
      /\ rec.still = wsReq[r].still /\ rec.content \in FileContents /\ wsReq[r].at = "run"
      /\ wsReq[r].content \in Ws!File
  <2>1. wsReq[r] \in WsReqRecords /\ wsReq[r].at = "run" /\ wsReq[r].op = "push"
    BY WsKnown DEF Ws!CopyIn
  <2>2. wsReq[r].content \in FileContents
    BY <2>1, WsKnown DEF WsFits
  <2> QED BY <2>1, <2>2 DEF WsReqRecords
<1>2. /\ wsFiles' = [wsFiles EXCEPT ![p] = [content |-> wsReq[r].content, root |-> TRUE]]
      /\ wsSure' = [x \in FilePaths |-> IF x \in {p} THEN Ws!Absent ELSE wsSure[x]]
      /\ Ws!Goto(r, rec, {p}) /\ wsFailed' = wsFailed \ {p}
      /\ UNCHANGED <<Ws!git, Ws!host, wsBegun, wsFaults>>
  BY DEF Ws!CopyIn, Ws!Set, Ws!Touch
<1> HIDE DEF p, rec
<1>3. /\ wsFiles' \in [FilePaths -> [content : Ws!File, root : BOOLEAN]]
      /\ wsSure' \in [FilePaths -> FileContents \union {Ws!Absent}] /\ wsFailed' \subseteq FilePaths
      /\ \A x \in FilePaths \ {p} : wsFiles'[x] = wsFiles[x] /\ wsSure'[x] = wsSure[x]
      /\ wsSure'[p] = Ws!Absent
  BY <1>1, <1>2, WsKnown
<1>4. WsSureIsHeld'
  BY <1>3 DEF WsIInv, WsSureIsHeld
<1>5. WsSound(r)'
  BY <1>1, <1>2, <1>3, WsTouchedFits
<1>6. \A x \in FilePaths : wsFiles'[x].root =>
        \/ x \in wsFailed'
        \/ rec.at = "chown" /\ rec.path = x
        \/ wsFiles[x].root /\ x \notin wsFailed
  <2> SUFFICES ASSUME NEW x \in FilePaths, wsFiles'[x].root, x \notin wsFailed', x # p
               PROVE  wsFiles[x].root /\ x \notin wsFailed
    BY <1>1
  <2>1. wsFiles'[x] = wsFiles[x]
    BY <1>3
  <2> QED BY <1>2, <2>1
<1> QED BY <1>1, <1>2, <1>3, <1>4, <1>5, <1>6, WsKnown, WsStepKeeps DEF Ws!git, Ws!host

\* The content of the push counts as acknowledged where the file still has it.
LEMMA WsChownKeeps ==
  ASSUME Ws!FilesAssumption, WsIInv, NEW r \in Actors, Ws!Chown(r) PROVE WsIInv'
<1> DEFINE p == wsReq[r].path
           c == wsReq[r].content
           held == wsFiles[p].content = c /\ Ws!Filling(p) = {}
<1>1. /\ p \in FilePaths /\ c \in FileContents /\ wsReq[r].at = "chown"
      /\ wsFiles' = [wsFiles EXCEPT ![p].root = FALSE] /\ wsFailed' = wsFailed \ {p}
      /\ wsSure' = [wsSure EXCEPT ![p] = IF held THEN c ELSE @]
      /\ Ws!Goto(r, Ws!Idle, {}) /\ UNCHANGED <<Ws!git, Ws!host, wsBegun, wsFaults>>
  BY WsKnown DEF Ws!Chown, WsReqRecords, WsFits
<1>2. held => wsFiles[p].content = c
  OBVIOUS
<1> HIDE DEF c, held
<1>3. /\ wsFiles' \in [FilePaths -> [content : Ws!File, root : BOOLEAN]]
      /\ wsSure' \in [FilePaths -> FileContents \union {Ws!Absent}] /\ wsFailed' \subseteq FilePaths
      /\ \A x \in FilePaths \ {p} : wsFiles'[x] = wsFiles[x] /\ wsSure'[x] = wsSure[x]
      /\ wsFiles'[p].content = wsFiles[p].content /\ wsFiles'[p].root = FALSE
      /\ wsSure'[p] = IF held THEN c ELSE wsSure[p]
  <2> HIDE DEF p
  <2>1. /\ wsFiles \in [FilePaths -> [content : Ws!File, root : BOOLEAN]]
        /\ wsSure \in [FilePaths -> FileContents \union {Ws!Absent}] /\ wsFailed \subseteq FilePaths
    BY WsKnown
  <2>2. /\ wsFiles' \in [FilePaths -> [content : Ws!File, root : BOOLEAN]]
        /\ \A x \in FilePaths \ {p} : wsFiles'[x] = wsFiles[x]
        /\ wsFiles'[p].content = wsFiles[p].content /\ wsFiles'[p].root = FALSE
    BY <1>1, <2>1
  <2>3. /\ wsSure' \in [FilePaths -> FileContents \union {Ws!Absent}]
        /\ \A x \in FilePaths \ {p} : wsSure'[x] = wsSure[x]
        /\ wsSure'[p] = IF held THEN c ELSE wsSure[p]
    BY <1>1, <2>1
  <2> QED BY <1>1, <2>1, <2>2, <2>3
<1>4. WsSureIsHeld' /\ \A x \in FilePaths : wsSure[x] # Ws!Absent => wsSure'[x] = wsSure[x]
  BY <1>2, <1>3 DEF WsIInv, WsSureIsHeld
<1>5. wsReq'[r] = Ws!Idle
  BY <1>1, WsIdleIsRecord, WsGotoNone
<1>6. WsSound(r)'
  BY <1>5, WsIdleIsRecord DEF WsSound, WsFits
<1>7. \A x \in FilePaths : wsFiles'[x].root =>
        \/ x \in wsFailed'
        \/ /\ wsFiles[x].root /\ x \notin wsFailed /\ ~(wsReq[r].at = "chown" /\ p = x)
  BY <1>1, <1>3
<1> QED BY <1>1, <1>3, <1>4, <1>6, <1>7, WsKnown, WsIdleIsRecord, WsStepKeeps DEF Ws!git, Ws!host

-----------------------------------------------------------------------------
(* clone, diff and patch.                                                   *)

\* What a request knows of the paths nobody touched, and of its own record.
LEMMA WsStillIsHeld ==
  ASSUME WsIInv, NEW r \in Actors, NEW p \in wsReq[r].still
  PROVE  p \in FilePaths /\ wsSure[p] # Ws!Absent /\ wsFiles[p].content = wsSure[p] /\ p \in Ws!Present
<1>1. p \in FilePaths /\ wsSure[p] # Ws!Absent
  BY WsKnown DEF WsReqRecords, WsFits
<1> QED BY <1>1 DEF WsIInv, WsSureIsHeld, Ws!Present

LEMMA WsCloneStartsKeeps ==
  ASSUME Ws!FilesAssumption, WsIInv, NEW r \in Actors, Ws!CloneStarts(r) PROVE WsIInv'
<1> DEFINE then == Ws!Then(r)
           rec == [wsReq[r] EXCEPT !.at = then]
<1>1. wsReq[r].at \in {"run", "late"} /\ wsReq[r].op = "clone"
      /\ UNCHANGED <<wsFiles, Ws!git, Ws!host, wsSure, wsFailed, wsBegun, wsFaults>>
  BY DEF Ws!CloneStarts, Ws!Going
<1>2. then \in {"fill", "unheard"}
  BY DEF Ws!Then
<1>3. Ws!Goto(r, rec, {}) \/ Ws!Goto(r, Ws!Idle, {})
  BY DEF Ws!CloneStarts
<1> HIDE DEF then
<1>4. CASE Ws!Goto(r, rec, {})
  <2>1. wsReq[r] \in WsReqRecords
    BY WsKnown
  <2>2. /\ rec \in WsReqRecords /\ rec.at \in {"fill", "unheard"} /\ rec.op = "clone"
        /\ rec.still = wsReq[r].still
    BY <1>1, <1>2, <2>1 DEF WsReqRecords
  <2> HIDE DEF rec
  <2>3. WsFits(rec, wsLock' = r)
    BY <2>2, WsStillIsHeld DEF WsFits
  <2> QED BY <1>1, <1>4, <2>2, <2>3, WsKnown, WsMovesOnKeeps DEF Ws!git, Ws!host
<1>5. CASE Ws!Goto(r, Ws!Idle, {})
  BY <1>1, <1>5, WsIdleIsRecord, WsIdleFits, WsKnown, WsMovesOnKeeps DEF Ws!git, Ws!host
<1> QED BY <1>3, <1>4, <1>5

\* Whatever git left, nobody knows any path any more, and nothing became
\* root's.
LEMMA WsCloneEndsKeeps ==
  ASSUME Ws!FilesAssumption, WsIInv, NEW r \in Actors, Ws!CloneEnds(r) PROVE WsIInv'
<1>1. /\ wsReq[r].at \in {"fill", "unheard"} /\ Ws!Goto(r, Ws!Idle, FilePaths)
      /\ wsSure' = [p \in FilePaths |-> IF p \in FilePaths THEN Ws!Absent ELSE wsSure[p]]
      /\ UNCHANGED <<wsLock, Ws!host, wsFailed, wsBegun, wsFaults>>
  BY DEF Ws!CloneEnds, Ws!Touch
<1>2. /\ wsSure' \in [FilePaths -> FileContents \union {Ws!Absent}]
      /\ \A p \in FilePaths : wsSure'[p] = Ws!Absent
  BY <1>1
<1> DEFINE Left ==
      /\ wsFiles' \in [FilePaths -> [content : Ws!File, root : BOOLEAN]]
      /\ \A p \in FilePaths : wsFiles'[p] = wsFiles[p] \/ wsFiles'[p].root = FALSE
      /\ wsHead' \in [FilePaths -> FileContents \union {Ws!Absent}] \union {Ws!NoRepo} /\ wsIndex' \subseteq FilePaths
      /\ WsTracked'
<1>3. Left
  <2> DEFINE clashes == {p \in FilePaths : wsFiles[p].content # Ws!Absent /\ Remote[p] # Ws!Absent}
  <2>1. ASSUME NEW kept \in SUBSET clashes,
               wsFiles' = [p \in FilePaths |->
                 IF p \in kept \/ Remote[p] = Ws!Absent THEN wsFiles[p] ELSE Ws!Fetched[p]],
               wsHead' = Remote, wsIndex' = {p \in FilePaths : Remote[p] # Ws!Absent}
        PROVE  Left
    <3>1. \A p \in FilePaths : Remote[p] \in Ws!File
      BY DEF Ws!FilesAssumption, Ws!File
    <3>2. \A p \in FilePaths : Ws!Fetched[p] \in [content : Ws!File, root : BOOLEAN] /\ Ws!Fetched[p].root = FALSE
      BY <3>1 DEF Ws!Fetched
    <3>3. wsFiles \in [FilePaths -> [content : Ws!File, root : BOOLEAN]]
      BY WsKnown
    <3> HIDE DEF clashes
    <3>4. wsFiles' \in [FilePaths -> [content : Ws!File, root : BOOLEAN]]
      BY <2>1, <3>2, <3>3
    <3>5. \A p \in FilePaths : wsFiles'[p] = wsFiles[p] \/ wsFiles'[p].root = FALSE
      BY <2>1, <3>2
    <3> QED BY <2>1, <3>4, <3>5 DEF Ws!FilesAssumption, WsTracked
  <2>2. CASE /\ wsFiles' = [p \in FilePaths |-> [content |-> Ws!Absent, root |-> FALSE]]
             /\ wsHead' = Ws!NoRepo /\ wsIndex' = {}
    BY <2>2 DEF Ws!File, WsTracked, Ws!NoRepo
  <2>3. CASE UNCHANGED <<wsFiles, wsHead, wsIndex>>
    BY <2>3, WsKnown DEF WsIInv, WsTracked, Ws!NoRepo
  <2> QED BY <2>1, <2>2, <2>3 DEF Ws!CloneEnds
<1>4. wsReq'[r] = [Ws!Idle EXCEPT !.still = @ \ FilePaths]
  <2>1. wsReq \in [Actors -> WsReqRecords] /\ FilePaths \in SUBSET FilePaths
    BY DEF WsIInv, Ws!TypeOK, WsReqRecords
  <2> QED BY <1>1, <2>1, WsIdleIsRecord, WsGotoIs
<1>5. WsSound(r)'
  BY <1>4, WsIdleIsRecord DEF WsSound, WsFits, WsReqRecords
<1>6. WsSureIsHeld'
  BY <1>2 DEF WsSureIsHeld
<1>7. \A p \in FilePaths : wsFiles'[p].root =>
        \/ p \in wsFailed'
        \/ /\ wsFiles[p].root /\ p \notin wsFailed
           /\ ~(wsReq[r].at = "chown" /\ wsReq[r].path = p)
  BY <1>1, <1>3
<1> QED BY <1>1, <1>2, <1>3, <1>5, <1>6, <1>7, WsKnown, WsIdleIsRecord, WsStepKeeps DEF Ws!host

LEMMA WsAddStartsKeeps ==
  ASSUME Ws!FilesAssumption, WsIInv, NEW r \in Actors, Ws!AddStarts(r) PROVE WsIInv'
<1>1. /\ wsReq[r].op \in Ws!Diffs /\ wsReq[r].at = IF wsReq[r].op = "pull" THEN "add" ELSE "run"
      /\ UNCHANGED <<wsFiles, wsHead, wsIndex, Ws!host, wsSure, wsFailed, wsBegun, wsFaults>>
      /\ wsReq[r] \in WsReqRecords
  BY WsKnown DEF Ws!AddStarts
<1>2. CASE /\ wsReq[r].op = "pull" /\ Ws!Goto(r, [wsReq[r] EXCEPT !.at = "done"], {})
           /\ UNCHANGED wsLock
  <2> DEFINE rec == [wsReq[r] EXCEPT !.at = "done"]
  <2>1. /\ rec \in WsReqRecords /\ rec.at = "done" /\ rec.op = "pull" /\ rec.still = wsReq[r].still
        /\ rec.inside = wsReq[r].inside
    BY <1>1, <1>2 DEF WsReqRecords
  <2> HIDE DEF rec
  <2>2. \A p \in Outputs \intersect rec.still : WsThere(wsSure[p], wsDest, p, rec.inside)
    BY <1>1, <1>2, <2>1, WsKnown DEF WsFits
  <2>3. WsFits(rec, wsLock' = r)
    BY <2>1, <2>2, WsStillIsHeld DEF WsFits
  <2> QED BY <1>1, <1>2, <2>1, <2>3, WsKnown, WsMovesOnKeeps DEF Ws!host, rec
<1>3. CASE Ws!Goto(r, Ws!Idle, {}) /\ UNCHANGED wsLock
  BY <1>1, <1>3, WsIdleIsRecord, WsIdleFits, WsKnown, WsMovesOnKeeps DEF Ws!host
<1>4. CASE /\ Ws!Goto(r, [wsReq[r] EXCEPT !.at = "out", !.unadded = wsLock # Ws!Nobody], {})
           /\ wsLock' = IF wsLock = Ws!Nobody THEN r ELSE wsLock
  <2> DEFINE rec == [wsReq[r] EXCEPT !.at = "out", !.unadded = wsLock # Ws!Nobody]
  <2>1. /\ rec \in WsReqRecords /\ rec.at = "out" /\ rec.op = wsReq[r].op /\ rec.still = wsReq[r].still
        /\ rec.unadded = (wsLock # Ws!Nobody) /\ rec.inside = wsReq[r].inside
    BY <1>1 DEF WsReqRecords
  <2> HIDE DEF rec
  <2>2. ASSUME rec.op = "pull"
        PROVE  \A p \in Outputs \intersect rec.still : WsThere(wsSure[p], wsDest, p, rec.inside)
    BY <1>1, <2>1, <2>2, WsKnown DEF WsFits
  <2>3. ~rec.unadded => wsLock' = r
    BY <1>4, <2>1
  <2>4. rec.op \in Ws!Diffs /\ rec.op \notin {"write", "push"}
    BY <1>1, <2>1 DEF Ws!Diffs
  <2>5. WsFits(rec, wsLock' = r)
    BY <2>1, <2>2, <2>3, <2>4, WsStillIsHeld DEF WsFits
  <2>6. /\ wsLock' \in Actors \union {Ws!Nobody, Ws!Unheard}
        /\ \A q \in Actors \ {r} : wsLock = q => wsLock' = q
    BY <1>4, WsKnown DEF Ws!FilesAssumption
  <2>7. wsReq[r].at # "chown"
    BY <1>1
  <2> QED BY <1>1, <1>4, <2>1, <2>5, <2>6, <2>7, WsKnown, WsMovesOnKeeps DEF Ws!host, rec
<1> QED BY <1>2, <1>3, <1>4 DEF Ws!AddStarts

\* Where git comes to know more paths, nobody's record is less true; whoever
\* waited for it knows its own paths in the index.
LEMMA WsIndexGrowsKeeps ==
  ASSUME WsIInv, wsLock' = Ws!Nobody, wsIndex \subseteq wsIndex', wsIndex' \subseteq FilePaths,
         UNCHANGED <<wsFiles, wsHead, wsDest, wsArchive, wsReq, wsSure, wsFailed, wsBegun, wsFaults>>,
         \A r \in Actors : wsLock = r => wsReq[r].still \ Ignored \subseteq wsIndex'
  PROVE  WsIInv'
<1>1. Ws!TypeOK'
  BY DEF WsIInv, Ws!TypeOK
<1>2. ASSUME NEW q \in Actors PROVE WsSound(q)'
  <2>1. WsFits(wsReq[q], wsLock = q) /\ (wsLock = q => wsReq[q].still \ Ignored \subseteq wsIndex')
    BY WsKnown
  <2> QED BY <2>1 DEF WsSound, WsFits, Ws!NoRepo
<1>3. WsSureIsHeld' /\ Ws!UserOwnsFiles' /\ WsTracked'
  BY DEF WsIInv, WsSureIsHeld, Ws!UserOwnsFiles, WsTracked, Ws!NoRepo
<1> QED BY <1>1, <1>2, <1>3 DEF WsIInv

\* Now git knows every path that is there and that it does not ignore.
LEMMA WsAddEndsKeeps ==
  ASSUME Ws!FilesAssumption, WsIInv, NEW r \in Actors, Ws!AddEnds(r) PROVE WsIInv'
<1>1. /\ wsLock = r /\ wsLock' = Ws!Nobody /\ wsIndex' = wsIndex \union (Ws!Present \ Ignored)
      /\ UNCHANGED <<wsFiles, wsHead, Ws!host, wsReq, wsSure, wsFailed, wsBegun, wsFaults>>
  BY DEF Ws!AddEnds
<1>2. \A p \in wsReq[r].still \ Ignored : p \in wsIndex'
  BY <1>1, WsStillIsHeld
<1>3. wsIndex \subseteq wsIndex' /\ wsIndex' \subseteq FilePaths
  BY <1>1, WsKnown DEF Ws!Present
<1>4. \A q \in Actors : wsLock = q => wsReq[q].still \ Ignored \subseteq wsIndex'
  BY <1>1, <1>2
<1> QED BY <1>1, <1>3, <1>4, WsIndexGrowsKeeps DEF Ws!host

LEMMA WsAddFailsKeeps ==
  ASSUME Ws!FilesAssumption, WsIInv, NEW r \in Actors, Ws!AddFails(r) PROVE WsIInv'
<1> DEFINE rec == [wsReq[r] EXCEPT !.unadded = TRUE]
<1>1. /\ wsLock = r /\ wsLock' \in {Ws!Nobody, Ws!Unheard} /\ Ws!Goto(r, rec, {})
      /\ UNCHANGED <<wsFiles, wsHead, wsIndex, Ws!host, wsSure, wsFailed, wsBegun>>
  BY DEF Ws!AddFails
<1>2. wsFaults' \in 0..MaxFaults
  <2>1. wsFaults \in 0..MaxFaults /\ MaxFaults \in Nat /\ wsFaults < MaxFaults /\ wsFaults' = wsFaults + 1
    BY WsKnown DEF Ws!AddFails, Ws!FilesAssumption
  <2> QED BY <2>1
<1>3. wsReq[r] \in WsReqRecords /\ WsFits(wsReq[r], wsLock = r)
  BY WsKnown
<1>4. /\ rec \in WsReqRecords /\ rec.unadded = TRUE /\ rec.at = wsReq[r].at /\ rec.op = wsReq[r].op
      /\ rec.path = wsReq[r].path /\ rec.content = wsReq[r].content /\ rec.todo = wsReq[r].todo
      /\ rec.staged = wsReq[r].staged /\ rec.inside = wsReq[r].inside /\ rec.still = wsReq[r].still
  BY <1>3 DEF WsReqRecords
<1> HIDE DEF rec
<1>5. WsFits(rec, wsLock' = r)
  BY <1>3, <1>4 DEF WsFits
<1> QED BY <1>1, <1>2, <1>4, <1>5, WsKnown, WsMovesOnKeeps DEF Ws!host

LEMMA WsUnheardEndsKeeps ==
  ASSUME Ws!FilesAssumption, WsIInv, Ws!UnheardEnds PROVE WsIInv'
<1>1. /\ wsLock = Ws!Unheard /\ wsLock' = Ws!Nobody
      /\ UNCHANGED <<wsFiles, wsHead, Ws!host, wsReq, wsSure, wsFailed, wsBegun, wsFaults>>
  BY DEF Ws!UnheardEnds
<1>2. wsIndex \subseteq wsIndex' /\ wsIndex' \subseteq FilePaths
  <2>1. wsIndex \subseteq FilePaths
    BY DEF WsIInv, Ws!TypeOK
  <2> QED BY <2>1 DEF Ws!UnheardEnds, Ws!Present
<1>3. \A r \in Actors : wsLock # r
  BY <1>1 DEF Ws!FilesAssumption
<1> QED BY <1>1, <1>2, <1>3, WsIndexGrowsKeeps DEF Ws!host

LEMMA WsDiffOutKeeps ==
  ASSUME Ws!FilesAssumption, WsIInv, NEW r \in Actors, Ws!DiffOut(r) PROVE WsIInv'
<1> DEFINE shown == IF wsHead = Ws!NoRepo THEN {} ELSE {p \in wsIndex : wsFiles[p].content # wsHead[p]}
           rec == [wsReq[r] EXCEPT !.at = "done", !.diff = shown]
<1>1. /\ wsReq[r].at = "out" /\ wsLock # r /\ Ws!Goto(r, rec, {})
      /\ UNCHANGED <<wsFiles, Ws!git, Ws!host, wsSure, wsFailed, wsBegun, wsFaults>>
  BY DEF Ws!DiffOut
<1>2. shown \subseteq FilePaths
  BY WsKnown
<1>3. wsHead # Ws!NoRepo => \A p \in wsIndex : wsSure[p] # wsHead[p] /\ wsFiles[p].content = wsSure[p] => p \in shown
  OBVIOUS
<1> HIDE DEF shown
<1>4. /\ rec \in WsReqRecords /\ rec.at = "done" /\ rec.op = wsReq[r].op /\ rec.still = wsReq[r].still
      /\ rec.diff = shown /\ rec.timedOut = wsReq[r].timedOut /\ rec.unadded = wsReq[r].unadded
      /\ rec.inside = wsReq[r].inside
  <2>1. wsReq[r] \in WsReqRecords
    BY WsKnown
  <2> QED BY <1>2, <2>1 DEF WsReqRecords
<1> HIDE DEF rec
<1>5. rec.op \in Ws!Diffs /\ rec.op \notin {"write", "push", "read", "pack"}
  BY <1>1, <1>4, WsKnown DEF WsFits, Ws!Diffs
<1>6. ASSUME ~rec.unadded, wsHead # Ws!NoRepo
      PROVE  \A p \in rec.still :
               wsSure[p] # wsHead[p] /\ (p \in Ignored => wsHead[p] # Ws!Absent) => p \in rec.diff
  <2>1. rec.still \ Ignored \subseteq wsIndex
    BY <1>1, <1>4, <1>6, WsKnown DEF WsFits
  <2>2. \A p \in FilePaths : wsHead[p] # Ws!Absent => p \in wsIndex
    BY <1>6 DEF WsIInv, WsTracked
  <2>3. \A p \in rec.still : p \in FilePaths /\ wsFiles[p].content = wsSure[p]
    BY <1>4, WsStillIsHeld
  <2> QED BY <1>3, <1>4, <1>6, <2>1, <2>2, <2>3
<1>7. ASSUME rec.op = "pull"
      PROVE  \A p \in Outputs \intersect rec.still : WsThere(wsSure[p], wsDest, p, rec.inside)
  BY <1>1, <1>4, <1>7, WsKnown DEF WsFits
<1>8. WsFits(rec, wsLock' = r)
  BY <1>4, <1>5, <1>6, <1>7, WsStillIsHeld DEF WsFits
<1> QED BY <1>1, <1>4, <1>8, WsKnown, WsMovesOnKeeps DEF Ws!git, Ws!host

LEMMA WsDiffTooLateKeeps ==
  ASSUME Ws!FilesAssumption, WsIInv, NEW r \in Actors, Ws!DiffTooLate(r) PROVE WsIInv'
<1> DEFINE rec == [wsReq[r] EXCEPT !.at = "done", !.timedOut = Ws!TimedOut(wsReq[r].op)]
<1>1. /\ wsReq[r].at = "run" /\ wsReq[r].op \in {"diff", "patch"} /\ Ws!Goto(r, rec, {})
      /\ UNCHANGED <<wsFiles, Ws!git, Ws!host, wsSure, wsFailed, wsBegun, wsFaults>>
  BY DEF Ws!DiffTooLate
<1>2. /\ rec \in WsReqRecords /\ rec.at = "done" /\ rec.op = wsReq[r].op /\ rec.still = wsReq[r].still
      /\ rec.timedOut = (wsReq[r].op = "diff")
  <2>1. wsReq[r] \in WsReqRecords /\ Ws!TimedOut(wsReq[r].op) = (wsReq[r].op = "diff")
    BY WsKnown DEF Ws!TimedOut
  <2>2. Ws!TimedOut(wsReq[r].op) \in BOOLEAN
    BY <2>1
  <2> QED BY <2>1, <2>2 DEF WsReqRecords
<1> HIDE DEF rec
<1>3. WsFits(rec, wsLock' = r)
  BY <1>1, <1>2, WsStillIsHeld DEF WsFits
<1> QED BY <1>1, <1>2, <1>3, WsKnown, WsMovesOnKeeps DEF Ws!git, Ws!host

-----------------------------------------------------------------------------
(* output pull and pack.                                                    *)

LEMMA WsSourcesKeeps ==
  ASSUME Ws!FilesAssumption, WsIInv, NEW r \in Actors, Ws!Sources(r) PROVE WsIInv'
<1> DEFINE some == Outputs \intersect Ws!Present
           rec == [wsReq[r] EXCEPT !.at = "copy", !.todo = some]
<1>1. /\ wsReq[r].at = "run" /\ wsReq[r].op \in {"pull", "pack"}
      /\ Ws!Goto(r, Ws!Idle, {}) \/ Ws!Goto(r, rec, {})
      /\ UNCHANGED <<wsFiles, Ws!git, Ws!host, wsSure, wsFailed, wsBegun, wsFaults>>
  BY DEF Ws!Sources
<1>2. CASE Ws!Goto(r, Ws!Idle, {})
  BY <1>1, <1>2, WsIdleIsRecord, WsIdleFits, WsKnown, WsMovesOnKeeps DEF Ws!git, Ws!host
<1>3. CASE Ws!Goto(r, rec, {})
  <2>1. wsReq[r] \in WsReqRecords
    BY WsKnown
  <2>2. /\ rec \in WsReqRecords /\ rec.at = "copy" /\ rec.op = wsReq[r].op /\ rec.todo = some
        /\ rec.still = wsReq[r].still /\ rec.inside = wsReq[r].inside
    BY <2>1 DEF WsReqRecords
  <2>3. rec.inside = {}
    BY <1>1, <2>2, WsKnown DEF WsFits
  <2>4. \A p \in Outputs \intersect rec.still : p \in rec.todo
    BY <2>2, WsStillIsHeld
  <2> HIDE DEF rec, some
  <2>5. WsFits(rec, wsLock' = r)
    BY <1>1, <2>2, <2>3, <2>4, WsStillIsHeld DEF WsFits
  <2> QED BY <1>1, <1>3, <2>2, <2>5, WsKnown, WsMovesOnKeeps DEF Ws!git, Ws!host
<1> QED BY <1>1, <1>2, <1>3

\* A source that is copied out is, at that moment, what the workspace has.
LEMMA WsCopyOutKeeps ==
  ASSUME Ws!FilesAssumption, WsIInv, NEW r \in Actors, Ws!CopyOut(r) PROVE WsIInv'
<1>1. PICK p \in wsReq[r].todo :
        \/ Ws!Goto(r, Ws!Idle, {}) /\ UNCHANGED wsDest
        \/ /\ wsReq[r].op = "pull" /\ wsDest' = [wsDest EXCEPT ![p] = Ws!Delivered(p, wsFiles[p].content)]
           /\ Ws!Goto(r, [wsReq[r] EXCEPT !.todo = @ \ {p}, !.inside = @ \union Ws!Inside(p)], {})
        \/ /\ wsReq[r].op # "pull" /\ UNCHANGED wsDest
           /\ Ws!Goto(r, [wsReq[r] EXCEPT !.todo = @ \ {p}, !.staged[p] = wsFiles[p].content], {})
  <2>1. PICK p \in wsReq[r].todo :
          IF wsFiles[p].content = Ws!Absent
          THEN Ws!Goto(r, Ws!Idle, {}) /\ UNCHANGED wsDest
          ELSE IF wsReq[r].op = "pull"
          THEN /\ wsDest' = [wsDest EXCEPT ![p] = Ws!Delivered(p, wsFiles[p].content)]
               /\ Ws!Goto(r, [wsReq[r] EXCEPT !.todo = @ \ {p}, !.inside = @ \union Ws!Inside(p)], {})
          ELSE /\ Ws!Goto(r, [wsReq[r] EXCEPT !.todo = @ \ {p}, !.staged[p] = wsFiles[p].content], {})
               /\ UNCHANGED wsDest
    BY Zenon DEF Ws!CopyOut
  <2>2. CASE wsFiles[p].content = Ws!Absent
    BY Zenon, <2>1, <2>2
  <2>3. CASE wsFiles[p].content # Ws!Absent /\ wsReq[r].op = "pull"
    BY Zenon, <2>1, <2>3
  <2>4. CASE wsFiles[p].content # Ws!Absent /\ wsReq[r].op # "pull"
    BY Zenon, <2>1, <2>4
  <2> QED BY Zenon, <2>2, <2>3, <2>4
<1>2. /\ wsReq[r].at = "copy" /\ wsReq[r] \in WsReqRecords /\ p \in Outputs /\ p \in FilePaths
      /\ wsFiles[p].content \in Ws!File
      /\ UNCHANGED <<wsFiles, Ws!git, wsArchive, wsSure, wsFailed, wsBegun, wsFaults>>
  BY <1>1, WsKnown DEF Ws!CopyOut, WsReqRecords, Ws!FilesAssumption
<1>3. CASE Ws!Goto(r, Ws!Idle, {}) /\ UNCHANGED wsDest
  BY <1>2, <1>3, WsIdleIsRecord, WsIdleFits, WsKnown, WsMovesOnKeeps DEF Ws!git
<1>4. /\ wsReq[r].op \in {"write", "push"} => wsReq[r].content \in FileContents
      /\ wsReq[r].inside \intersect wsReq[r].todo = {}
      /\ wsReq[r].op = "pull" => \A x \in Outputs \intersect wsReq[r].still :
           x \in wsReq[r].todo \/ WsThere(wsSure[x], wsDest, x, wsReq[r].inside)
      /\ wsReq[r].op = "pack" => \A x \in Outputs \intersect wsReq[r].still :
           x \in wsReq[r].todo \/ wsReq[r].staged[x] = wsSure[x]
  BY <1>2, WsKnown DEF WsFits
<1>5. CASE /\ wsReq[r].op # "pull" /\ UNCHANGED wsDest
           /\ Ws!Goto(r, [wsReq[r] EXCEPT !.todo = @ \ {p}, !.staged[p] = wsFiles[p].content], {})
  <2> DEFINE rec == [wsReq[r] EXCEPT !.todo = @ \ {p}, !.staged[p] = wsFiles[p].content]
  <2>1. /\ rec \in WsReqRecords /\ rec.at = "copy" /\ rec.op = wsReq[r].op /\ rec.still = wsReq[r].still
        /\ rec.todo = wsReq[r].todo \ {p} /\ rec.content = wsReq[r].content /\ rec.inside = wsReq[r].inside
        /\ rec.staged = [wsReq[r].staged EXCEPT ![p] = wsFiles[p].content]
    BY <1>2 DEF WsReqRecords
  <2>2. wsReq[r].staged \in [Outputs -> Ws!File]
    BY <1>2 DEF WsReqRecords
  <2> HIDE DEF rec
  <2>3. ASSUME rec.op = "pack", NEW x \in Outputs \intersect rec.still
        PROVE  x \in rec.todo \/ rec.staged[x] = wsSure[x]
    <3>1. wsFiles[x].content = wsSure[x]
      BY <2>1, WsStillIsHeld
    <3> QED BY <1>2, <1>4, <2>1, <2>2, <2>3, <3>1
  <2>4. WsFits(rec, wsLock' = r)
    BY <1>4, <1>5, <2>1, <2>3, WsStillIsHeld DEF WsFits
  <2> QED BY <1>2, <1>5, <2>1, <2>4, WsKnown, WsMovesOnKeeps DEF Ws!git, rec
<1>6. CASE /\ wsReq[r].op = "pull" /\ wsDest' = [wsDest EXCEPT ![p] = Ws!Delivered(p, wsFiles[p].content)]
           /\ Ws!Goto(r, [wsReq[r] EXCEPT !.todo = @ \ {p}, !.inside = @ \union Ws!Inside(p)], {})
  <2> DEFINE to == Ws!Delivered(p, wsFiles[p].content)
             more == Ws!Inside(p)
             rec == [wsReq[r] EXCEPT !.todo = @ \ {p}, !.inside = @ \union more]
  <2>1. /\ wsDest \in [Outputs -> [top : Ws!File, nested : Ws!File]]
        /\ to \in [top : Ws!File, nested : Ws!File]
        /\ \/ /\ wsDest[p].top = Ws!Absent /\ more = {} /\ to.top = wsFiles[p].content
              /\ to.nested = wsDest[p].nested
           \/ /\ wsDest[p].top # Ws!Absent /\ more = {p} /\ to.top = wsDest[p].top
              /\ to.nested = wsFiles[p].content
    BY <1>2, WsKnown DEF Ws!Delivered, Ws!Inside
  <2>2. Ws!Goto(r, rec, {}) /\ wsDest' = [wsDest EXCEPT ![p] = to]
    BY <1>6
  <2> HIDE DEF to, more
  <2>3. more \subseteq {p} /\ wsReq[r] \in WsReqRecords
    BY <1>2, <2>1
  <2>4. /\ rec \in WsReqRecords /\ rec.at = "copy" /\ rec.op = "pull" /\ rec.still = wsReq[r].still
        /\ rec.todo = wsReq[r].todo \ {p} /\ rec.content = wsReq[r].content
        /\ rec.inside = wsReq[r].inside \union more
    BY <1>2, <1>6, <2>3 DEF WsReqRecords
  <2> HIDE DEF rec
  <2>5. /\ wsDest' \in [Outputs -> [top : Ws!File, nested : Ws!File]] /\ wsDest'[p] = to
        /\ \A x \in Outputs : x # p => wsDest'[x] = wsDest[x]
    BY <1>2, <2>1, <2>2
  <2>6. \A x \in Outputs : wsDest'[x] = wsDest[x] \/ WsCopied(x)
    BY <2>1, <2>5 DEF WsCopied
  <2>7. rec.inside \intersect rec.todo = {} /\ p \notin wsReq[r].inside
    BY <1>1, <1>4, <2>3, <2>4
  <2>8. ASSUME NEW x \in Outputs \intersect rec.still
        PROVE  x \in rec.todo \/ WsThere(wsSure'[x], wsDest', x, rec.inside)
    <3>1. x \in wsReq[r].still /\ wsSure'[x] = wsSure[x] /\ wsFiles[x].content = wsSure[x]
      BY <1>2, <2>4, WsStillIsHeld
    <3>2. CASE x = p
      BY <2>1, <2>4, <2>5, <2>7, <3>1, <3>2 DEF WsThere
    <3>3. CASE x # p
      BY <1>4, <1>6, <2>3, <2>4, <2>5, <3>1, <3>3 DEF WsThere
    <3> QED BY <3>2, <3>3
  <2>9. wsReq'[r] = rec
    BY <2>2, <2>4, WsGotoNone
  <2>10. WsSound(r)'
    <3>1. \A x \in rec.still : wsSure'[x] # Ws!Absent
      BY <1>2, <2>4, WsStillIsHeld
    <3> QED BY <2>4, <2>7, <2>8, <2>9, <3>1 DEF WsSound, WsFits
  <2>11. WsSureIsHeld'
    BY <1>2 DEF WsIInv, WsSureIsHeld
  <2>12. \A x \in FilePaths : wsFiles'[x].root =>
           \/ x \in wsFailed'
           \/ /\ wsFiles[x].root /\ x \notin wsFailed
              /\ ~(wsReq[r].at = "chown" /\ wsReq[r].path = x)
    BY <1>2
  <2> QED BY <1>2, <2>2, <2>4, <2>5, <2>6, <2>10, <2>11, <2>12, WsKnown, WsStepKeeps DEF Ws!git
<1> QED BY <1>1, <1>3, <1>5, <1>6

LEMMA WsCopiedAllKeeps ==
  ASSUME Ws!FilesAssumption, WsIInv, NEW r \in Actors, Ws!CopiedAll(r) PROVE WsIInv'
<1> DEFINE rec == [wsReq[r] EXCEPT !.at = "add"]
<1>1. /\ wsReq[r].at = "copy" /\ wsReq[r].todo = {} /\ wsReq[r].op = "pull" /\ Ws!Goto(r, rec, {})
      /\ UNCHANGED <<wsFiles, Ws!git, Ws!host, wsSure, wsFailed, wsBegun, wsFaults>>
  BY DEF Ws!CopiedAll
<1>2. /\ rec \in WsReqRecords /\ rec.at = "add" /\ rec.op = "pull" /\ rec.still = wsReq[r].still
      /\ rec.inside = wsReq[r].inside
  <2>1. wsReq[r] \in WsReqRecords
    BY WsKnown
  <2> QED BY <1>1, <2>1 DEF WsReqRecords
<1> HIDE DEF rec
<1>3. \A p \in Outputs \intersect rec.still : WsThere(wsSure[p], wsDest, p, rec.inside)
  BY <1>1, <1>2, WsKnown DEF WsFits
<1>4. WsFits(rec, wsLock' = r)
  BY <1>2, <1>3, WsStillIsHeld DEF WsFits
<1> QED BY <1>1, <1>2, <1>4, WsKnown, WsMovesOnKeeps DEF Ws!git, Ws!host

\* Whoever packed before counts on the archive no longer.
LEMMA WsPackedKeeps ==
  ASSUME WsIInv, NEW r \in Actors, NEW rec \in WsReqRecords, Ws!Packed(r, rec),
         UNCHANGED <<wsFiles, wsHead, wsIndex, wsLock, wsDest, wsSure, wsFailed, wsBegun>>,
         wsArchive' \in [Outputs -> Ws!File], wsFaults' \in 0..MaxFaults,
         wsReq[r].at # "chown", rec.still \subseteq wsReq[r].still, rec.at \in {"idle", "done"},
         rec.op \in {"read", "pack"}, rec.op = "read" => rec.at = "idle",
         rec.at = "done" => \A p \in Outputs \intersect rec.still : wsArchive'[p] \in {wsSure[p], Ws!Part}
  PROVE  WsIInv'
<1>1. wsReq \in [Actors -> WsReqRecords]
  BY DEF WsIInv, Ws!TypeOK, WsReqRecords
<1> DEFINE after(q) == IF q = r THEN rec
                       ELSE IF wsReq[q].op = "pack" THEN [wsReq[q] EXCEPT !.still = {}] ELSE wsReq[q]
<1>2. \A q \in Actors : after(q) \in WsReqRecords
  <2>1. \A x \in WsReqRecords : [x EXCEPT !.still = {}] \in WsReqRecords
    BY DEF WsReqRecords
  <2> QED BY <1>1, <2>1
<1>3. wsReq' = [q \in Actors |-> after(q)]
  BY DEF Ws!Packed
<1>4. wsReq' \in [Actors -> WsReqRecords] /\ \A q \in Actors : wsReq'[q] = after(q)
  <2> HIDE DEF after
  <2> QED BY <1>2, <1>3
<1>5. ASSUME NEW q \in Actors, q # r PROVE WsSound(q)'
  <2>1. wsReq[q] \in WsReqRecords /\ wsReq[q].still \subseteq FilePaths
    BY <1>1 DEF WsReqRecords
  <2>2. CASE wsReq[q].op = "pack"
    <3>1. wsReq[q].still \ FilePaths = {} /\ FilePaths \in SUBSET FilePaths
      BY <2>1
    <3>2. wsReq'[q] = [wsReq[q] EXCEPT !.still = @ \ FilePaths]
      BY <1>4, <1>5, <2>1, <2>2, <3>1 DEF WsReqRecords
    <3> QED BY <3>1, <3>2, WsStaysSound
  <2>3. CASE wsReq[q].op # "pack"
    <3>1. wsReq'[q] = [wsReq[q] EXCEPT !.still = @ \ {}] /\ {} \in SUBSET FilePaths
      BY <1>4, <1>5, <2>1, <2>3 DEF WsReqRecords
    <3> QED BY <2>3, <3>1, WsStaysSound
  <2> QED BY <2>2, <2>3
<1>6. WsSound(r)'
  <2>1. wsReq'[r] = rec
    BY <1>4
  <2>2. \A p \in rec.still : wsSure'[p] # Ws!Absent
    BY WsKnown DEF WsFits
  <2> QED BY <2>1, <2>2 DEF WsSound, WsFits
<1>7. Ws!UserOwnsFiles'
  <2> SUFFICES ASSUME NEW p \in FilePaths, wsFiles[p].root, p \notin wsFailed
               PROVE  \E q \in Actors : wsReq'[q].at = "chown" /\ wsReq'[q].path = p
    BY DEF Ws!UserOwnsFiles
  <2>1. PICK q \in Actors : wsReq[q].at = "chown" /\ wsReq[q].path = p
    BY DEF WsIInv, Ws!UserOwnsFiles
  <2>2. q # r /\ wsReq[q] \in WsReqRecords
    BY <1>1, <2>1
  <2> QED BY <1>4, <2>1, <2>2 DEF WsReqRecords
<1>8. Ws!TypeOK'
  BY <1>4 DEF WsIInv, Ws!TypeOK, WsReqRecords
<1>9. WsSureIsHeld' /\ WsTracked'
  BY DEF WsIInv, WsSureIsHeld, WsTracked, Ws!NoRepo
<1> QED BY <1>5, <1>6, <1>7, <1>8, <1>9 DEF WsIInv

LEMMA WsPackKeeps ==
  ASSUME Ws!FilesAssumption, WsIInv, NEW r \in Actors, Ws!Pack(r) \/ Ws!PackCut(r) PROVE WsIInv'
<1> DEFINE rec == [wsReq[r] EXCEPT !.at = "done"]
<1>1. /\ wsReq[r].at = "copy" /\ wsReq[r].todo = {} /\ wsReq[r].op = "pack" /\ Ws!Packed(r, rec)
      /\ UNCHANGED <<wsFiles, Ws!git, wsDest, wsSure, wsFailed, wsBegun>>
  BY DEF Ws!Pack, Ws!PackCut, Ws!Packing
<1>2. rec \in WsReqRecords /\ rec.at = "done" /\ rec.op = "pack" /\ rec.still = wsReq[r].still
      /\ wsReq[r].staged \in [Outputs -> Ws!File]
  <2>1. wsReq[r] \in WsReqRecords
    BY WsKnown
  <2> QED BY <1>1, <2>1 DEF WsReqRecords
<1> HIDE DEF rec
<1>3. wsFaults \in 0..MaxFaults /\ MaxFaults \in Nat
  BY WsKnown DEF Ws!FilesAssumption
<1>4. CASE Ws!Pack(r)
  <2>1. wsArchive' = wsReq[r].staged /\ wsFaults' = wsFaults
    BY <1>4 DEF Ws!Pack
  <2>2. \A p \in Outputs \intersect rec.still : wsArchive'[p] = wsSure[p]
    BY <1>1, <1>2, <2>1, WsKnown DEF WsFits
  <2> QED BY <1>1, <1>2, <1>3, <2>1, <2>2, WsPackedKeeps DEF Ws!git
<1>5. CASE Ws!PackCut(r)
  <2>1. wsFaults' \in 0..MaxFaults
    BY <1>3, <1>5 DEF Ws!PackCut
  <2>2. wsArchive' = [p \in Outputs |-> Ws!Part]
    BY <1>5 DEF Ws!PackCut
  <2>3. wsArchive' \in [Outputs -> Ws!File] /\ \A p \in Outputs : wsArchive'[p] = Ws!Part
    BY <2>2 DEF Ws!File
  <2> QED BY <1>1, <1>2, <2>1, <2>3, WsPackedKeeps DEF Ws!git
<1> QED BY <1>4, <1>5

-----------------------------------------------------------------------------
(* Failures, and every step.                                                *)

LEMMA WsFailedFits ==
  ASSUME Ws!FilesAssumption, WsIInv, NEW r \in Actors, NEW has
  PROVE  Ws!Failed(r) \in WsReqRecords /\ WsFits(Ws!Failed(r), has)
<1>1. wsReq[r] \in WsReqRecords /\ WsFits(wsReq[r], wsLock = r)
  BY WsKnown
<1>2. CASE wsReq[r].op = "pull" /\ wsReq[r].at \in {"add", "out"}
  <2> DEFINE rec == [wsReq[r] EXCEPT !.at = "done"]
  <2>1. /\ rec \in WsReqRecords /\ rec.at = "done" /\ rec.op = "pull" /\ rec.still = wsReq[r].still
        /\ rec.inside = wsReq[r].inside
    BY <1>1, <1>2 DEF WsReqRecords
  <2>2. Ws!Failed(r) = rec
    BY <1>2 DEF Ws!Failed
  <2> HIDE DEF rec
  <2>3. /\ \A p \in Outputs \intersect rec.still : WsThere(wsSure[p], wsDest, p, rec.inside)
        /\ \A p \in rec.still : wsSure[p] # Ws!Absent
    BY <1>1, <1>2, <2>1 DEF WsFits
  <2> QED BY <2>1, <2>2, <2>3 DEF WsFits
<1>3. CASE ~(wsReq[r].op = "pull" /\ wsReq[r].at \in {"add", "out"})
  BY <1>3, WsIdleIsRecord, WsIdleFits DEF Ws!Failed
<1> QED BY <1>2, <1>3

LEMMA WsFailingCounts ==
  ASSUME Ws!FilesAssumption, WsIInv, NEW r \in Actors, Ws!Failing(r)
  PROVE  wsFaults' \in 0..MaxFaults
<1>1. wsFaults \in 0..MaxFaults /\ MaxFaults \in Nat /\ wsFaults < MaxFaults /\ wsFaults' = wsFaults + 1
  BY WsKnown DEF Ws!Failing, Ws!FilesAssumption
<1> QED BY <1>1

LEMMA WsFailKeeps ==
  ASSUME Ws!FilesAssumption, WsIInv, NEW r \in Actors, Ws!Fail(r) PROVE WsIInv'
<1>1. /\ Ws!Failing(r) /\ Ws!Goto(r, Ws!Failed(r), {})
      /\ wsFailed' = IF wsReq[r].at = "chown" THEN wsFailed \union {wsReq[r].path} ELSE wsFailed
      /\ wsLock' = IF wsLock = r THEN Ws!Unheard ELSE wsLock
      /\ UNCHANGED <<wsFiles, wsHead, wsIndex, Ws!host, wsSure, wsBegun>> /\ wsReq[r] \in WsReqRecords
  BY WsKnown DEF Ws!Fail
<1>2. /\ wsFailed \subseteq wsFailed' /\ wsFailed' \subseteq FilePaths
      /\ wsReq[r].at = "chown" => wsReq[r].path \in wsFailed'
  BY <1>1, WsKnown DEF WsReqRecords
<1>3. wsLock' \in Actors \union {Ws!Nobody, Ws!Unheard} /\ \A q \in Actors \ {r} : wsLock = q => wsLock' = q
  BY <1>1, WsKnown
<1>4. Ws!Failed(r) \in WsReqRecords /\ WsFits(Ws!Failed(r), wsLock' = r) /\ wsFaults' \in 0..MaxFaults
  BY <1>1, WsFailedFits, WsFailingCounts
<1> QED BY <1>1, <1>2, <1>3, <1>4, WsKnown, WsMovesOnKeeps DEF Ws!host

LEMMA WsRunOnKeeps ==
  ASSUME Ws!FilesAssumption, WsIInv, NEW r \in Actors, Ws!RunOn(r) PROVE WsIInv'
<1>1. /\ Ws!Failing(r) /\ UNCHANGED <<wsFiles, wsHead, wsIndex, Ws!host, wsSure, wsFailed, wsBegun>>
      /\ wsReq[r] \in WsReqRecords /\ WsFits(wsReq[r], wsLock = r) /\ wsFaults' \in 0..MaxFaults
  BY WsKnown, WsFailingCounts DEF Ws!RunOn
<1> DEFINE on == IF wsReq[r].at = "run" THEN "late" ELSE "unheard"
           rec == [wsReq[r] EXCEPT !.at = on]
<1>2. CASE wsReq[r].op \in {"write", "clone"} /\ Ws!Goto(r, rec, {}) /\ UNCHANGED wsLock
  <2>1. on \in {"late", "unheard"}
    OBVIOUS
  <2> HIDE DEF on
  <2>2. /\ rec \in WsReqRecords /\ rec.at \in {"late", "unheard"} /\ rec.op = wsReq[r].op
        /\ rec.still = wsReq[r].still /\ rec.content = wsReq[r].content
    BY <1>1, <2>1 DEF WsReqRecords
  <2>3. wsReq[r].at # "chown"
    BY <1>1, <1>2 DEF WsFits
  <2> HIDE DEF rec
  <2>4. WsFits(rec, wsLock' = r)
    BY <1>1, <1>2, <2>2 DEF WsFits
  <2> QED BY <1>1, <1>2, <2>2, <2>3, <2>4, WsKnown, WsMovesOnKeeps DEF Ws!host
<1>3. CASE /\ wsReq[r].op \in Ws!Diffs /\ wsLock = Ws!Nobody /\ wsLock' = Ws!Unheard
           /\ Ws!Goto(r, Ws!Failed(r), {})
  <2>1. wsReq[r].at # "chown"
    BY <1>1, <1>3 DEF WsFits, Ws!Diffs
  <2>2. \A q \in Actors : wsLock # q
    BY <1>3 DEF Ws!FilesAssumption
  <2>3. Ws!Failed(r) \in WsReqRecords /\ WsFits(Ws!Failed(r), wsLock' = r)
    BY WsFailedFits
  <2> QED BY <1>1, <1>3, <2>1, <2>2, <2>3, WsKnown, WsMovesOnKeeps DEF Ws!host
<1> QED BY <1>2, <1>3 DEF Ws!RunOn

LEMMA WsBreakOffKeeps ==
  ASSUME Ws!FilesAssumption, WsIInv, NEW r \in Actors, Ws!BreakOff(r) PROVE WsIInv'
<1>1. /\ UNCHANGED <<wsHead, wsIndex, wsLock, wsBegun>> /\ wsFaults' \in 0..MaxFaults
      /\ wsReq[r] \in WsReqRecords
  BY WsKnown, WsFailingCounts DEF Ws!BreakOff, Ws!git
<1>2. Ws!Idle \in WsReqRecords /\ Ws!Idle.at = "idle" /\ Ws!Idle.op = "read" /\ Ws!Idle.still = {}
  BY WsIdleIsRecord
<1>3. CASE LET p == wsReq[r].path IN
        /\ wsReq[r].op = "push" /\ wsReq[r].at = "run"
        /\ \E c \in {Ws!Part, wsReq[r].content} : Ws!Set(p, c, TRUE)
        /\ Ws!Touch({p}) /\ wsFailed' = wsFailed \union {p}
        /\ Ws!Goto(r, Ws!Idle, {p}) /\ UNCHANGED Ws!host
  <2> DEFINE p == wsReq[r].path
  <2>1. PICK c \in {Ws!Part, wsReq[r].content} :
          wsFiles' = [wsFiles EXCEPT ![p] = [content |-> c, root |-> TRUE]]
    BY <1>3 DEF Ws!Set
  <2>2. /\ wsSure' = [x \in FilePaths |-> IF x \in {p} THEN Ws!Absent ELSE wsSure[x]]
        /\ wsFailed' = wsFailed \union {p} /\ Ws!Goto(r, Ws!Idle, {p}) /\ UNCHANGED <<wsDest, wsArchive>>
    BY <1>3 DEF Ws!Touch, Ws!host
  <2>3. p \in FilePaths /\ c \in Ws!File
    BY <1>1, <2>1 DEF WsReqRecords, Ws!File
  <2> HIDE DEF p
  <2>4. /\ wsFiles' \in [FilePaths -> [content : Ws!File, root : BOOLEAN]]
        /\ wsSure' \in [FilePaths -> FileContents \union {Ws!Absent}] /\ wsFailed' \subseteq FilePaths
        /\ \A x \in FilePaths \ {p} : wsFiles'[x] = wsFiles[x] /\ wsSure'[x] = wsSure[x]
        /\ wsSure'[p] = Ws!Absent
    BY <1>3, <2>1, <2>2, <2>3, WsKnown
  <2>5. WsSureIsHeld'
    BY <2>4 DEF WsIInv, WsSureIsHeld
  <2>6. WsSound(r)'
    BY <1>2, <2>2, <2>3, <2>4, WsTouchedFits
  <2>7. \A x \in FilePaths : wsFiles'[x].root => x \in wsFailed' \/ (wsFiles[x].root /\ x \notin wsFailed)
    <3> SUFFICES ASSUME NEW x \in FilePaths, wsFiles'[x].root, x \notin wsFailed'
                 PROVE  wsFiles[x].root /\ x \notin wsFailed
      OBVIOUS
    <3>1. x # p /\ x \notin wsFailed
      BY <2>2
    <3> QED BY <2>4, <3>1
  <2>8. wsReq[r].at = "run" /\ {p} \in SUBSET FilePaths
    BY <1>3, <2>3
  <2> QED BY <1>1, <1>2, <2>2, <2>3, <2>4, <2>5, <2>6, <2>7, <2>8, WsKnown, WsStepKeeps
<1>4. CASE \E p \in wsReq[r].todo :
        /\ wsReq[r].op = "pull" /\ wsReq[r].at = "copy"
        /\ wsDest' = [wsDest EXCEPT ![p] = Ws!Delivered(p, Ws!Part)]
        /\ Ws!Goto(r, Ws!Idle, {p})
        /\ UNCHANGED <<wsFiles, wsArchive, wsSure, wsFailed>>
  <2>1. PICK p \in wsReq[r].todo :
          /\ wsReq[r].op = "pull" /\ wsReq[r].at = "copy"
          /\ wsDest' = [wsDest EXCEPT ![p] = Ws!Delivered(p, Ws!Part)]
          /\ Ws!Goto(r, Ws!Idle, {p})
          /\ UNCHANGED <<wsFiles, wsArchive, wsSure, wsFailed>>
    BY <1>4
  <2>2. p \in Outputs /\ p \in FilePaths /\ {p} \in SUBSET FilePaths
    BY <1>1, <2>1 DEF WsReqRecords, Ws!FilesAssumption
  <2>3. wsDest \in [Outputs -> [top : Ws!File, nested : Ws!File]] /\ Ws!Part \in Ws!File
    BY WsKnown DEF Ws!File
  <2>4. Ws!Delivered(p, Ws!Part) \in [top : Ws!File, nested : Ws!File]
    BY <2>2, <2>3 DEF Ws!Delivered
  <2>5. /\ wsDest' \in [Outputs -> [top : Ws!File, nested : Ws!File]]
        /\ \A x \in Outputs \ {p} : wsDest'[x] = wsDest[x]
    <3> DEFINE to == Ws!Delivered(p, Ws!Part)
    <3>1. wsDest' = [wsDest EXCEPT ![p] = to] /\ to \in [top : Ws!File, nested : Ws!File]
      BY <2>1, <2>4
    <3> HIDE DEF to
    <3> QED BY <2>3, <3>1
  <2>6. WsSound(r)'
    BY <1>2, <2>1, <2>2, WsTouchedFits
  <2>7. WsSureIsHeld'
    BY <2>1 DEF WsIInv, WsSureIsHeld
  <2>8. \A x \in FilePaths : wsFiles'[x].root =>
          \/ x \in wsFailed'
          \/ /\ wsFiles[x].root /\ x \notin wsFailed
             /\ ~(wsReq[r].at = "chown" /\ wsReq[r].path = x)
    BY <2>1
  <2> QED BY <1>1, <1>2, <2>1, <2>2, <2>5, <2>6, <2>7, <2>8, WsKnown, WsStepKeeps
<1>5. CASE /\ Ws!Packing(r) /\ wsArchive' = [p \in Outputs |-> Ws!Part] /\ Ws!Packed(r, Ws!Idle)
           /\ UNCHANGED <<wsFiles, wsDest, wsSure, wsFailed>>
  <2>1. wsArchive' \in [Outputs -> Ws!File] /\ wsReq[r].at = "copy"
    BY <1>5 DEF Ws!File, Ws!Packing
  <2> QED BY <1>1, <1>2, <1>5, <2>1, WsPackedKeeps
<1> QED BY <1>3, <1>4, <1>5 DEF Ws!BreakOff

LEMMA WsInitially == ASSUME Ws!FilesAssumption PROVE Ws!Init => WsIInv
<1> SUFFICES ASSUME Ws!Init PROVE WsIInv
  OBVIOUS
<1>1. wsReq \in [Actors -> WsReqRecords] /\ \A r \in Actors : wsReq[r] = Ws!Idle
  BY WsIdleIsRecord DEF Ws!Init
<1>2. Ws!TypeOK
  <2>1. wsFiles \in [FilePaths -> [content : Ws!File, root : BOOLEAN]]
    BY DEF Ws!Init, Ws!File
  <2>2. wsDest \in [Outputs -> [top : Ws!File, nested : Ws!File]] /\ wsArchive \in [Outputs -> Ws!File]
    BY DEF Ws!Init, Ws!File, Ws!Nothing
  <2>3. wsBegun \in 0..MaxBegun /\ wsFaults \in 0..MaxFaults
    BY DEF Ws!Init, Ws!FilesAssumption
  <2> QED BY <1>1, <2>1, <2>2, <2>3 DEF Ws!Init, Ws!TypeOK, WsReqRecords
<1>3. ASSUME NEW r \in Actors PROVE WsSound(r)
  <2> DEFINE q == wsReq[r]
  <2>1. q.at = "idle" /\ q.op = "read" /\ q.still = {}
    BY <1>1, WsIdleIsRecord
  <2> HIDE DEF q
  <2>2. WsFits(q, wsLock = r)
    BY <2>1 DEF WsFits
  <2> QED BY <2>2 DEF WsSound, q
<1>4. WsSureIsHeld /\ Ws!UserOwnsFiles /\ WsTracked
  BY DEF Ws!Init, WsSureIsHeld, Ws!UserOwnsFiles, WsTracked
<1> QED BY <1>2, <1>3, <1>4 DEF WsIInv

LEMMA WsNextKeeps == ASSUME Ws!FilesAssumption, WsIInv, [Ws!Next]_(Ws!vars) PROVE WsIInv'
<1>1. ASSUME NEW r \in Actors, NEW op \in {"write", "push"}, NEW p \in FilePaths,
             NEW c \in FileContents, Ws!Begin(r, op, p, c)
      PROVE  WsIInv'
  BY <1>1, WsBeginKeeps DEF Ws!Ops, Ws!File
<1>2. ASSUME NEW r \in Actors, NEW p \in FilePaths, Ws!Begin(r, "read", p, Ws!Absent) PROVE WsIInv'
  BY <1>2, WsBeginKeeps DEF Ws!Ops, Ws!File
<1>3. ASSUME NEW r \in Actors, NEW op \in {"clone", "diff", "patch", "pull", "pack"},
             Ws!Begin(r, op, Ws!Idle.path, Ws!Absent)
      PROVE  WsIInv'
  <2>1. Ws!Idle.path \in FilePaths
    BY WsIdleIsRecord DEF WsReqRecords
  <2> QED BY <1>3, <2>1, WsBeginKeeps DEF Ws!Ops, Ws!File
<1>4. ASSUME NEW p \in FilePaths, NEW c \in FileContents \union {Ws!Absent}, Ws!Work(p, c)
      PROVE  WsIInv'
  BY <1>4, WsWorkKeeps
<1>5. ASSUME NEW r \in Actors, Ws!Step(r) PROVE WsIInv'
  BY <1>5, WsOpenFileKeeps, WsFillFileKeeps, WsCopyInKeeps, WsChownKeeps, WsReadKeeps,
     WsCloneStartsKeeps, WsCloneEndsKeeps, WsAddStartsKeeps, WsAddEndsKeeps, WsDiffOutKeeps,
     WsDiffTooLateKeeps, WsSourcesKeeps, WsCopyOutKeeps, WsCopiedAllKeeps, WsPackKeeps,
     WsReplyKeeps, WsFailKeeps, WsAddFailsKeeps, WsRunOnKeeps, WsBreakOffKeeps DEF Ws!Step
<1>6. CASE UNCHANGED Ws!vars
  BY <1>6 DEF Ws!vars, WsIInv, Ws!TypeOK, WsSureIsHeld, Ws!UserOwnsFiles, WsSound, WsFits, WsTracked,
     Ws!NoRepo
<1>7. CASE Ws!UnheardEnds
  BY <1>7, WsUnheardEndsKeeps
<1> QED BY <1>1, <1>2, <1>3, <1>4, <1>5, <1>6, <1>7 DEF Ws!Next

LEMMA WsInvariance == ASSUME Ws!FilesAssumption PROVE Ws!Spec => []WsIInv
<1>1. Ws!Init => WsIInv
  BY WsInitially
<1>2. WsIInv /\ [Ws!Next]_(Ws!vars) => WsIInv'
  BY WsNextKeeps
<1> QED BY <1>1, <1>2, PTL DEF Ws!Spec

-----------------------------------------------------------------------------
(* What holds of the workspace beside the other parts.                      *)

LEMMA WsIsAPart == Spec => Ws!Spec
<1>1. Init => Ws!Init
  BY DEF Init
<1>2. [Next]_vars => [Ws!Next]_(Ws!vars)
  BY DEF Next, vars, ws, Ws!vars
<1> QED BY <1>1, <1>2, PTL DEF Spec, Ws!Spec

LEMMA WsHolds == Spec => []WsIInv /\ [][Ws!Next]_(Ws!vars)
<1>1. Ws!FilesAssumption
  BY PartsAssumption DEF PartsAssumption
<1> QED BY <1>1, WsIsAPart, WsInvariance, PTL DEF Ws!Spec

\* No file stays root's but where a push failed between its two steps.
THEOREM UserAlwaysOwnsFiles == Spec => []UserOwnsFiles
<1>1. WsIInv => Ws!UserOwnsFiles
  BY DEF WsIInv
<1> QED BY <1>1, WsHolds, PTL DEF UserOwnsFiles

\* What a write or push was acknowledged for is in the file and in every read
\* of it, until someone touches it.
THEOREM AcknowledgedAlwaysRead == Spec => []AcknowledgedIsRead
<1>1. WsIInv => Ws!AcknowledgedIsRead
  BY DEF WsIInv, WsSureIsHeld, WsSound, WsFits, Ws!AcknowledgedIsRead
<1> QED BY <1>1, WsHolds, PTL DEF AcknowledgedIsRead

\* A diff shows every acknowledged change nobody touched while it ran, but
\* where its time was over or its git add failed, and what .gitignore hides.
THEOREM DiffAlwaysComplete == Spec => []DiffIsComplete
<1>1. WsIInv => Ws!DiffIsComplete
  <2> SUFFICES ASSUME WsIInv, NEW r \in Actors, wsReq[r].at = "done", wsReq[r].op = "diff",
                      ~wsReq[r].timedOut, ~wsReq[r].unadded, wsHead # Ws!NoRepo,
                      NEW p \in wsReq[r].still, wsSure[p] # wsHead[p], p \in Ignored => wsHead[p] # Ws!Absent
               PROVE  p \in wsReq[r].diff
    BY DEF Ws!DiffIsComplete
  <2> QED BY WsKnown DEF WsFits
<1> QED BY <1>1, WsHolds, PTL DEF DiffIsComplete

\* A pull has delivered every output nobody touched while it ran, and a pack
\* has it in the archive, unless that was cut short unnoticed.
THEOREM DeliveredAlwaysThere == Spec => []DeliveredIsThere
<1>1. WsIInv => Ws!DeliveredIsThere
  BY DEF WsIInv, WsSound, WsFits, WsThere, Ws!DeliveredIsThere
<1> QED BY <1>1, WsHolds, PTL DEF DeliveredIsThere

-----------------------------------------------------------------------------
(* The templates: what the proofs assume of the constants.                  *)

TplAssumptions == Tpl!TemplatesAssumption /\ Tpl!FileAssumption

-----------------------------------------------------------------------------
(* The templates: revision numbers and generations stay within their        *)
(* bounds, for every request has two revisions to write at most, the        *)
(* built-in's and its own, and one template to make.                        *)

TplKinds == {"list", "fork", "import", "rollback", "promote"}
TplOps == [at : Tpl!Writing \union {"idle", "install", "act"}, op : TplKinds, name : TemplateNames,
           arg : TemplateNames \union Bundles \union Nat \union {None}, into : TemplateNames, t : Tpl!Templates,
           seen : SUBSET Tpl!Numbers]

TplTypes ==
  /\ tplYaml \in [TemplateNames -> Tpl!Templates \union {None, Torn}]
  /\ tplRevision \in [TemplateNames -> [Tpl!Numbers -> Tpl!Templates \union {None}]]
  /\ tplIndex \in [TemplateNames -> SUBSET Tpl!Numbers] /\ tplDefault \in TemplateNames \union {None}
  /\ tplOp \in [Actors -> TplOps] /\ tplDisturbed \subseteq TemplateNames
  /\ tplAsked \in 0..MaxAsked /\ tplCrashes \in 0..MaxDeaths

TplWritesBuiltin(o) == o.at \in Tpl!Writing /\ o.into = Builtin /\ o.t = Tpl!BuiltinTemplate
TplArgFits(o) == o.at \in {"install", "act"} \/ TplWritesBuiltin(o) =>
  /\ o.op = "fork" => o.arg \in TemplateNames
  /\ o.op = "import" => o.arg \in Bundles
  /\ o.op = "rollback" => o.arg \in Tpl!Numbers
TplActive == {q \in Actors : tplOp[q].at # "idle"}
TplInstalling == {q \in Actors : tplOp[q].at = "install" \/ TplWritesBuiltin(tplOp[q])}
TplMaking == {q \in Actors : tplOp[q].at \in {"install", "act"} \/ TplWritesBuiltin(tplOp[q])}

\* How far the numbers and the generations may have come.
TplRoom == 2 * tplAsked - Cardinality(TplActive) - Cardinality(TplInstalling)
TplGenRoom == tplAsked - Cardinality(TplMaking)

TplWithinBounds ==
  /\ IsFiniteSet(TplActive) /\ IsFiniteSet(TplInstalling) /\ IsFiniteSet(TplMaking)
  /\ 0 <= TplRoom /\ 0 <= TplGenRoom
  /\ \A name \in TemplateNames : \A k \in tplIndex[name] : k <= TplRoom
  /\ \A q \in Actors : \A k \in tplOp[q].seen : k <= TplRoom
  /\ \A name \in TemplateNames : tplYaml[name] \in Tpl!Templates => tplYaml[name].gen <= TplGenRoom
  /\ \A name \in TemplateNames, n \in Tpl!Numbers :
       tplRevision[name][n] # None => tplRevision[name][n].gen <= TplGenRoom
  /\ \A q \in Actors : tplOp[q].t.gen <= TplGenRoom /\ TplArgFits(tplOp[q])

-----------------------------------------------------------------------------
(* What is on disk of a template nobody disturbed.                          *)

\* Revisions 1 to k, each a generation later, and no other.
TplRecorded(name, k) ==
  /\ k \in Nat
  /\ \A n \in Tpl!Numbers : tplRevision[name][n] # None <=> n <= k
  /\ \A n \in 1..k : n \in Tpl!Numbers
  /\ \A n \in 2..k : tplRevision[name][n - 1].gen < tplRevision[name][n].gen

TplSettled(name, k) ==
  /\ TplRecorded(name, k) /\ tplIndex[name] = 1..k
  /\ tplYaml[name] = IF k = 0 THEN None ELSE tplRevision[name][k]

\* What a request finds that writes it.
TplInOrder(o, name, k) ==
  /\ o.at \in {"clear", "fill", "history", "revision"} =>
       /\ TplRecorded(name, k) /\ tplIndex[name] = 1..k
       /\ k > 0 => tplRevision[name][k].gen < o.t.gen
  /\ o.at = "clear" => TplSettled(name, k)
  /\ o.at = "fill" => tplYaml[name] = Torn
  /\ o.at \in {"history", "revision", "index", "reindex"} => tplYaml[name] = o.t
  /\ o.at \in {"revision", "index", "reindex"} => k \in Nat /\ o.seen = 1..k
  /\ o.at \in {"index", "reindex"} => TplRecorded(name, k + 1) /\ tplRevision[name][k + 1] = o.t
  /\ o.at = "index" => tplIndex[name] = 1..k
  /\ o.at = "reindex" => tplIndex[name] = {}

TplUndisturbed(name) ==
  /\ \A p, q \in Actors : Tpl!Busy(p, name) /\ Tpl!Busy(q, name) => p = q
  /\ Tpl!Quiet(name) => \E k \in Nat : TplSettled(name, k)
  /\ \A q \in Actors : Tpl!Busy(q, name) => \E k \in Nat : TplInOrder(tplOp[q], name, k)

TplInv == TplTypes /\ TplWithinBounds /\ \A name \in TemplateNames \ tplDisturbed : TplUndisturbed(name)

-----------------------------------------------------------------------------
(* The data.                                                                *)

\* A set of numbers below a bound has a greatest, which Max is.
LEMMA TplGreatest ==
  ASSUME NEW n \in Nat, NEW S \in SUBSET (0..n), S # {}
  PROVE  Tpl!Max(S) \in S /\ \A y \in S : y <= Tpl!Max(S)
<1> DEFINE T == {i \in Nat : \E x \in S : i = n - x}
           R == {ss \in Nat \X Nat : ss[1] < ss[2]}
<1>1. T \subseteq Nat /\ T # {}
  <2>1. PICK x \in S : TRUE
    OBVIOUS
  <2>2. n - x \in T
    BY <2>1
  <2> QED BY <2>2
<1>2. IsWellFoundedOn(R, Nat)
  BY NatLessThanWellFounded DEF OpToRel
<1> HIDE DEF R
<1>3. PICK i \in T : \A j \in T : ~(<<j, i>> \in R)
  BY <1>1, <1>2, WFMin
<1>4. PICK x \in S : i = n - x
  BY <1>3
<1>5. \A y \in S : y <= x
  <2> SUFFICES ASSUME NEW y \in S, ~(y <= x) PROVE FALSE
    OBVIOUS
  <2>1. n - y \in T /\ n - y < i /\ n - y \in Nat /\ i \in Nat
    BY <1>3, <1>4
  <2> QED BY <1>3, <2>1 DEF R
<1> QED BY <1>5 DEF Tpl!Max

LEMMA TplData ==
  ASSUME TplAssumptions
  PROVE  /\ Tpl!BuiltinTemplate \in Tpl!Templates /\ Tpl!BuiltinTemplate.gen = 0
         /\ Tpl!Idle \in TplOps /\ TplArgFits(Tpl!Idle) /\ Tpl!Idle.at = "idle" /\ Tpl!Idle.seen = {} /\ Tpl!Idle.t.gen = 0
         /\ None \notin Tpl!Templates /\ Torn \notin Tpl!Templates /\ None # Torn
         /\ MaxAsked \in Nat /\ MaxDeaths \in Nat /\ Builtin \in TemplateNames
         /\ ~TplWritesBuiltin(Tpl!Idle)
<1>1. /\ None \notin Tpl!Templates /\ Torn \notin Tpl!Templates /\ None # Torn
      /\ MaxAsked \in Nat /\ MaxDeaths \in Nat /\ Builtin \in TemplateNames /\ Builtin \in TemplateDefinitions
  BY DEF TplAssumptions, Tpl!TemplatesAssumption, Tpl!FileAssumption
<1>2. Tpl!BuiltinTemplate \in Tpl!Templates /\ Tpl!BuiltinTemplate.gen = 0
  BY <1>1 DEF Tpl!BuiltinTemplate, Tpl!Templates
<1>3. /\ Tpl!Idle \in TplOps /\ Tpl!Idle.at = "idle" /\ Tpl!Idle.seen = {} /\ Tpl!Idle.t = Tpl!BuiltinTemplate
      /\ Tpl!Idle.op = "list"
  BY <1>1, <1>2 DEF Tpl!Idle, TplOps, TplKinds
<1>4. TplArgFits(Tpl!Idle) /\ ~TplWritesBuiltin(Tpl!Idle)
  BY <1>3 DEF TplArgFits, TplWritesBuiltin, Tpl!Writing
<1> QED BY <1>1, <1>2, <1>3, <1>4

LEMMA TplSizes ==
  ASSUME TplTypes, TplWithinBounds
  PROVE  /\ Cardinality(TplActive) \in Nat /\ Cardinality(TplInstalling) \in Nat
         /\ Cardinality(TplMaking) \in Nat /\ tplAsked \in Nat
BY FS_CardinalityType DEF TplTypes, TplWithinBounds

\* A set with one more, with one less, and with some of its own.
LEMMA TplOneMore ==
  ASSUME NEW S, IsFiniteSet(S), NEW x, x \notin S, NEW T, T = S \union {x}
  PROVE  IsFiniteSet(T) /\ Cardinality(T) = Cardinality(S) + 1
BY FS_AddElement

LEMMA TplOneLess ==
  ASSUME NEW S, IsFiniteSet(S), NEW x \in S, NEW T, T = S \ {x}
  PROVE  /\ IsFiniteSet(T) /\ Cardinality(T) = Cardinality(S) - 1
         /\ Cardinality(T) \in Nat /\ Cardinality(S) \in Nat
BY FS_RemoveElement, FS_CardinalityType

LEMMA TplFewer ==
  ASSUME NEW S, IsFiniteSet(S), NEW T \in SUBSET S
  PROVE  /\ IsFiniteSet(T) /\ Cardinality(T) <= Cardinality(S)
         /\ Cardinality(T) \in Nat /\ Cardinality(S) \in Nat
BY FS_Subset, FS_CardinalityType

-----------------------------------------------------------------------------
(* What a step leaves within bounds.                                        *)

LEMMA TplRooms ==
  ASSUME TplTypes, TplWithinBounds
  PROVE  TplRoom \in Int /\ TplGenRoom \in Int
BY TplSizes DEF TplRoom, TplGenRoom

\* Where no request has more to write than before.
LEMMA TplRoomIsKept ==
  ASSUME TplTypes, TplWithinBounds, tplAsked' = tplAsked \/ tplAsked' = tplAsked + 1,
         TplActive' \subseteq TplActive, TplInstalling' \subseteq TplInstalling, TplMaking' \subseteq TplMaking
  PROVE  /\ IsFiniteSet(TplActive') /\ IsFiniteSet(TplInstalling') /\ IsFiniteSet(TplMaking')
         /\ TplRoom' \in Int /\ TplGenRoom' \in Int /\ TplRoom <= TplRoom' /\ TplGenRoom <= TplGenRoom'
<1>1. /\ IsFiniteSet(TplActive') /\ Cardinality(TplActive') <= Cardinality(TplActive)
      /\ IsFiniteSet(TplInstalling') /\ Cardinality(TplInstalling') <= Cardinality(TplInstalling)
      /\ IsFiniteSet(TplMaking') /\ Cardinality(TplMaking') <= Cardinality(TplMaking)
      /\ Cardinality(TplActive') \in Nat /\ Cardinality(TplInstalling') \in Nat
      /\ Cardinality(TplMaking') \in Nat
  BY TplFewer DEF TplWithinBounds
<1> QED BY <1>1, TplSizes DEF TplRoom, TplGenRoom

\* ... what is there stays there, or fits.
LEMMA TplBoundsAreKept ==
  ASSUME TplAssumptions, TplTypes, TplWithinBounds, TplTypes',
         IsFiniteSet(TplActive'), IsFiniteSet(TplInstalling'), IsFiniteSet(TplMaking'),
         TplRoom' \in Int, TplGenRoom' \in Int, TplRoom <= TplRoom', TplGenRoom <= TplGenRoom',
         \A name \in TemplateNames : \A k \in tplIndex'[name] : k <= TplRoom' \/ k \in tplIndex[name]
            \/ \E q \in Actors : k \in tplOp[q].seen,
         \A q \in Actors : \A k \in tplOp'[q].seen : k \in tplOp[q].seen
            \/ \E name \in TemplateNames : k \in tplIndex[name],
         \A name \in TemplateNames : tplYaml'[name] \in Tpl!Templates =>
            \/ tplYaml'[name] = tplYaml[name] \/ \E q \in Actors : tplYaml'[name] = tplOp[q].t,
         \A name \in TemplateNames, n \in Tpl!Numbers : tplRevision'[name][n] # None =>
            \/ tplRevision'[name][n] = tplRevision[name][n]
            \/ \E q \in Actors : tplRevision'[name][n] = tplOp[q].t,
         \A q \in Actors : tplOp'[q].t.gen <= TplGenRoom' \/ tplOp'[q].t = tplOp[q].t,
         \A q \in Actors : TplArgFits(tplOp'[q])
  PROVE  TplWithinBounds'
<1>1. TplRoom \in Int /\ TplGenRoom \in Int
  BY TplRooms
<1>2. /\ \A name \in TemplateNames : tplIndex[name] \subseteq Nat /\ tplIndex'[name] \subseteq Nat
      /\ \A q \in Actors : /\ tplOp[q].seen \subseteq Nat /\ tplOp[q].t.gen \in Nat
                           /\ tplOp'[q].seen \subseteq Nat /\ tplOp'[q].t.gen \in Nat
      /\ \A t \in Tpl!Templates : t.gen \in Nat
  BY DEF TplTypes, TplOps, Tpl!Numbers, Tpl!Templates
<1>3. \A name \in TemplateNames : \A k \in tplIndex'[name] : k <= TplRoom'
  BY <1>1, <1>2 DEF TplWithinBounds
<1>4. \A q \in Actors : \A k \in tplOp'[q].seen : k <= TplRoom'
  BY <1>1, <1>2 DEF TplWithinBounds
<1>5. \A q \in Actors : tplOp'[q].t.gen <= TplGenRoom' /\ tplOp[q].t.gen <= TplGenRoom'
  BY <1>1, <1>2 DEF TplWithinBounds
<1>6. \A name \in TemplateNames : tplYaml'[name] \in Tpl!Templates => tplYaml'[name].gen <= TplGenRoom'
  BY <1>1, <1>2, <1>5 DEF TplWithinBounds
<1>7. \A name \in TemplateNames, n \in Tpl!Numbers :
        tplRevision'[name][n] # None => tplRevision'[name][n].gen <= TplGenRoom'
  <2> SUFFICES ASSUME NEW name \in TemplateNames, NEW n \in Tpl!Numbers, tplRevision'[name][n] # None
               PROVE  tplRevision'[name][n].gen <= TplGenRoom'
    OBVIOUS
  <2>1. tplRevision'[name][n] \in Tpl!Templates
    BY DEF TplTypes
  <2> QED BY <1>1, <1>2, <1>5, <2>1 DEF TplWithinBounds
<1>8. 0 <= TplRoom' /\ 0 <= TplGenRoom'
  BY <1>1 DEF TplWithinBounds
<1> QED BY <1>3, <1>4, <1>5, <1>6, <1>7, <1>8 DEF TplWithinBounds

\* Each step is one request's, or none's.
LEMMA TplOneOp ==
  ASSUME TplTypes, NEW q \in Actors, NEW o \in TplOps, tplOp' = [tplOp EXCEPT ![q] = o]
  PROVE  /\ tplOp' \in [Actors -> TplOps] /\ tplOp'[q] = o
         /\ \A p \in Actors \ {q} : tplOp'[p] = tplOp[p]
         /\ TplActive' = IF o.at # "idle" THEN TplActive \union {q} ELSE TplActive \ {q}
         /\ TplInstalling' = IF o.at = "install" \/ TplWritesBuiltin(o)
                             THEN TplInstalling \union {q} ELSE TplInstalling \ {q}
         /\ TplMaking' = IF o.at \in {"install", "act"} \/ TplWritesBuiltin(o)
                         THEN TplMaking \union {q} ELSE TplMaking \ {q}
<1>1. /\ tplOp' \in [Actors -> TplOps] /\ tplOp'[q] = o
      /\ \A p \in Actors : tplOp'[p] = IF p = q THEN o ELSE tplOp[p]
  BY DEF TplTypes
<1>2. TplActive' = IF o.at # "idle" THEN TplActive \union {q} ELSE TplActive \ {q}
  BY <1>1 DEF TplActive
<1>3. TplInstalling' = IF o.at = "install" \/ TplWritesBuiltin(o)
                       THEN TplInstalling \union {q} ELSE TplInstalling \ {q}
  BY <1>1 DEF TplInstalling
<1>4. TplMaking' = IF o.at \in {"install", "act"} \/ TplWritesBuiltin(o)
                   THEN TplMaking \union {q} ELSE TplMaking \ {q}
  BY <1>1 DEF TplMaking
<1> QED BY <1>1, <1>2, <1>3, <1>4

TplContinues(o, old) ==
  /\ o.at \in Tpl!Writing /\ old.at \in Tpl!Writing /\ o.into = old.into /\ o.t = old.t
  /\ o.op = old.op /\ o.arg = old.arg

\* A request that goes on with what it writes, or has no more to write.
LEMMA TplOpGoesOn ==
  ASSUME TplAssumptions, TplTypes, TplWithinBounds, NEW q \in Actors, NEW o \in TplOps, tplOp' = [tplOp EXCEPT ![q] = o],
         o.t = tplOp[q].t \/ o.t = Tpl!BuiltinTemplate,
         o.at = "idle" \/ TplContinues(o, tplOp[q]),
         \A k \in o.seen : k \in tplOp[q].seen \/ \E name \in TemplateNames : k \in tplIndex[name],
         tplYaml' \in [TemplateNames -> Tpl!Templates \union {None, Torn}],
         tplRevision' \in [TemplateNames -> [Tpl!Numbers -> Tpl!Templates \union {None}]],
         tplIndex' \in [TemplateNames -> SUBSET Tpl!Numbers], tplDefault' \in TemplateNames \union {None},
         tplDisturbed' \subseteq TemplateNames, tplAsked' = tplAsked, tplCrashes' \in 0..MaxDeaths,
         \A name \in TemplateNames : \A k \in tplIndex'[name] : k \in tplIndex[name],
         \A name \in TemplateNames : tplYaml'[name] \in Tpl!Templates =>
            \/ tplYaml'[name] = tplYaml[name] \/ tplYaml'[name] = tplOp[q].t,
         \A name \in TemplateNames, n \in Tpl!Numbers : tplRevision'[name][n] # None =>
            \/ tplRevision'[name][n] = tplRevision[name][n] \/ tplRevision'[name][n] = tplOp[q].t
  PROVE  TplTypes' /\ TplWithinBounds'
<1>1. /\ tplOp' \in [Actors -> TplOps] /\ tplOp'[q] = o
      /\ \A p \in Actors \ {q} : tplOp'[p] = tplOp[p]
      /\ TplActive' = IF o.at # "idle" THEN TplActive \union {q} ELSE TplActive \ {q}
      /\ TplInstalling' = IF o.at = "install" \/ TplWritesBuiltin(o)
                          THEN TplInstalling \union {q} ELSE TplInstalling \ {q}
      /\ TplMaking' = IF o.at \in {"install", "act"} \/ TplWritesBuiltin(o)
                      THEN TplMaking \union {q} ELSE TplMaking \ {q}
  BY TplOneOp
<1>2. TplTypes'
  BY <1>1 DEF TplTypes
<1>3. /\ o.at # "idle" => q \in TplActive /\ o.at \notin {"install", "act"}
      /\ TplWritesBuiltin(o) => TplWritesBuiltin(tplOp[q]) /\ q \in TplInstalling /\ q \in TplMaking
  BY DEF TplActive, TplInstalling, TplMaking, Tpl!Writing, TplWritesBuiltin, TplContinues
<1>4. TplActive' \subseteq TplActive /\ TplInstalling' \subseteq TplInstalling /\ TplMaking' \subseteq TplMaking
  BY <1>1, <1>3
<1>5. /\ IsFiniteSet(TplActive') /\ IsFiniteSet(TplInstalling') /\ IsFiniteSet(TplMaking')
      /\ TplRoom' \in Int /\ TplGenRoom' \in Int /\ TplRoom <= TplRoom' /\ TplGenRoom <= TplGenRoom'
  BY <1>4, TplRoomIsKept
<1>6. TplArgFits(tplOp[q]) => TplArgFits(o)
  BY DEF TplArgFits, TplContinues, TplWritesBuiltin, Tpl!Writing
<1>7. \A p \in Actors : TplArgFits(tplOp'[p])
  BY <1>1, <1>6 DEF TplWithinBounds
<1>8. \A p \in Actors : \A k \in tplOp'[p].seen : k \in tplOp[p].seen
            \/ \E name \in TemplateNames : k \in tplIndex[name]
  BY <1>1
<1>9. \A p \in Actors : tplOp'[p].t.gen <= TplGenRoom' \/ tplOp'[p].t = tplOp[p].t
  BY <1>1, <1>5, TplRooms, TplData DEF TplWithinBounds
<1> QED BY <1>2, <1>5, <1>7, <1>8, <1>9, TplBoundsAreKept

LEMMA TplIdleInOps ==
  ASSUME TplAssumptions, TplTypes, TplWithinBounds, NEW q \in Actors, Tpl!Reply(q), tplAsked' = tplAsked,
         UNCHANGED Tpl!files, tplDefault' \in TemplateNames \union {None}, tplDisturbed' \subseteq TemplateNames,
         tplCrashes' \in 0..MaxDeaths
  PROVE  TplTypes' /\ TplWithinBounds'
<1>1. /\ Tpl!Idle \in TplOps /\ tplOp' = [tplOp EXCEPT ![q] = Tpl!Idle] /\ Tpl!Idle.at = "idle" /\ Tpl!Idle.seen = {}
      /\ Tpl!Idle.t = Tpl!BuiltinTemplate
  BY TplData DEF Tpl!Reply, Tpl!Idle
<1>2. tplYaml' = tplYaml /\ tplRevision' = tplRevision /\ tplIndex' = tplIndex
  BY DEF Tpl!files
<1> QED BY <1>1, <1>2, TplOpGoesOn DEF TplTypes

LEMMA TplAskFits ==
  ASSUME TplAssumptions, TplTypes, TplWithinBounds, NEW q \in Actors, NEW kind \in TplKinds, NEW name \in TemplateNames,
         NEW arg \in TemplateNames \union Bundles \union Nat \union {None}, Tpl!Ask(q, kind, name, arg),
         /\ kind = "fork" => arg \in TemplateNames
         /\ kind = "import" => arg \in Bundles
         /\ kind = "rollback" => arg \in 1..2
  PROVE  TplTypes' /\ TplWithinBounds'
<1> DEFINE o == [Tpl!Idle EXCEPT !.at = "install", !.op = kind, !.name = name, !.arg = arg]
<1>1. /\ tplOp[q] = Tpl!Idle /\ tplAsked < MaxAsked /\ tplAsked' = tplAsked + 1 /\ tplOp' = [tplOp EXCEPT ![q] = o]
      /\ UNCHANGED <<tplYaml, tplRevision, tplIndex, tplDefault, tplDisturbed, tplCrashes>>
  BY DEF Tpl!Ask, Tpl!files
<1>2. Tpl!Idle \in TplOps /\ Tpl!Idle.at = "idle" /\ MaxAsked \in Nat /\ tplAsked \in Nat
  BY TplData DEF TplTypes
<1>3. /\ o \in TplOps /\ o.at = "install" /\ o.op = kind /\ o.arg = arg /\ o.seen = Tpl!Idle.seen
      /\ o.t = Tpl!Idle.t
  BY <1>2 DEF TplOps
<1> HIDE DEF o
<1>4. 1 \in Tpl!Numbers /\ 2 \in Tpl!Numbers
  BY <1>1, <1>2 DEF Tpl!Numbers
<1>5. TplArgFits(o)
  BY <1>3, <1>4 DEF TplArgFits
<1>6. /\ tplOp' \in [Actors -> TplOps] /\ tplOp'[q] = o
      /\ \A p \in Actors \ {q} : tplOp'[p] = tplOp[p]
      /\ TplActive' = TplActive \union {q} /\ TplInstalling' = TplInstalling \union {q}
      /\ TplMaking' = TplMaking \union {q}
  BY <1>1, <1>3, TplOneOp
<1>7. q \notin TplActive /\ q \notin TplInstalling /\ q \notin TplMaking
  BY <1>1, <1>2, TplData DEF TplActive, TplInstalling, TplMaking
<1>8. /\ IsFiniteSet(TplActive') /\ Cardinality(TplActive') = Cardinality(TplActive) + 1
      /\ IsFiniteSet(TplInstalling') /\ Cardinality(TplInstalling') = Cardinality(TplInstalling) + 1
      /\ IsFiniteSet(TplMaking') /\ Cardinality(TplMaking') = Cardinality(TplMaking) + 1
  BY <1>6, <1>7, TplOneMore DEF TplWithinBounds
<1>9. TplRoom' = TplRoom /\ TplGenRoom' = TplGenRoom /\ TplRoom \in Int /\ TplGenRoom \in Int
  BY <1>1, <1>2, <1>8, TplSizes DEF TplRoom, TplGenRoom
<1>10. TplTypes'
  BY <1>1, <1>2, <1>6 DEF TplTypes
<1>11. \A p \in Actors : TplArgFits(tplOp'[p])
  BY <1>5, <1>6 DEF TplWithinBounds
<1>12. \A p \in Actors : \A k \in tplOp'[p].seen : k \in tplOp[p].seen
            \/ \E n \in TemplateNames : k \in tplIndex[n]
  BY <1>1, <1>3, <1>6
<1>13. \A p \in Actors : tplOp'[p].t.gen <= TplGenRoom' \/ tplOp'[p].t = tplOp[p].t
  BY <1>1, <1>3, <1>6
<1> QED BY <1>1, <1>8, <1>9, <1>10, <1>11, <1>12, <1>13, TplBoundsAreKept

\* What Create leaves of a request.
LEMMA TplCreateIs ==
  ASSUME TplAssumptions, TplTypes, NEW q \in Actors, NEW name \in TemplateNames, NEW t \in Tpl!Templates,
         Tpl!Create(q, name, t), tplOp[q].at \in {"install", "act"}
  PROVE  \E o \in TplOps :
           /\ tplOp' = [tplOp EXCEPT ![q] = o]
           /\ o.at = "clear" /\ o.into = name /\ o.t = t
           /\ o.seen = IF tplOp[q].at = "act" THEN {} ELSE tplOp[q].seen
           /\ tplOp[q].at = "install" => o.op = tplOp[q].op /\ o.arg = tplOp[q].arg
<1> DEFINE base == IF tplOp[q].at = "act" THEN [Tpl!Idle EXCEPT !.op = tplOp[q].op] ELSE tplOp[q]
           o == [base EXCEPT !.at = "clear", !.into = name, !.t = t]
<1>1. tplOp' = [tplOp EXCEPT ![q] = o]
  BY DEF Tpl!Create
<1>2. tplOp[q] \in TplOps /\ Tpl!Idle \in TplOps /\ Tpl!Idle.seen = {}
  BY TplData DEF TplTypes
<1>3. tplOp[q].at = "act" => base \in TplOps /\ base.seen = {}
  BY <1>2 DEF TplOps
<1>4. tplOp[q].at = "install" => base = tplOp[q]
  OBVIOUS
<1> HIDE DEF base
<1>5. base \in TplOps
  BY <1>2, <1>3, <1>4
<1>6. /\ o \in TplOps /\ o.at = "clear" /\ o.into = name /\ o.t = t /\ o.seen = base.seen
      /\ o.op = base.op /\ o.arg = base.arg
  BY <1>5 DEF TplOps, Tpl!Writing
<1> HIDE DEF o
<1> QED BY <1>1, <1>3, <1>4, <1>6

LEMMA TplInstallFits ==
  ASSUME TplAssumptions, TplTypes, TplWithinBounds, NEW q \in Actors, Tpl!Install(q)
  PROVE  TplTypes' /\ TplWithinBounds'
<1>1. /\ tplOp[q].at = "install" /\ tplOp[q] \in TplOps
      /\ UNCHANGED <<tplYaml, tplRevision, tplIndex, tplDefault, tplAsked, tplCrashes>>
  BY DEF Tpl!Install, Tpl!files, Tpl!bounds, TplTypes
<1>2. ASSUME NEW o \in TplOps, tplOp' = [tplOp EXCEPT ![q] = o], tplDisturbed' \subseteq TemplateNames,
             o.at = "act" \/ TplWritesBuiltin(o), o.seen = tplOp[q].seen,
             o.op = tplOp[q].op, o.arg = tplOp[q].arg, o.t.gen = 0 \/ o.t = tplOp[q].t
      PROVE  TplTypes' /\ TplWithinBounds'
  <2>1. /\ tplOp' \in [Actors -> TplOps] /\ tplOp'[q] = o
        /\ \A p \in Actors \ {q} : tplOp'[p] = tplOp[p]
        /\ TplActive' = IF o.at # "idle" THEN TplActive \union {q} ELSE TplActive \ {q}
        /\ TplInstalling' = IF o.at = "install" \/ TplWritesBuiltin(o)
                            THEN TplInstalling \union {q} ELSE TplInstalling \ {q}
        /\ TplMaking' = IF o.at \in {"install", "act"} \/ TplWritesBuiltin(o)
                        THEN TplMaking \union {q} ELSE TplMaking \ {q}
    BY <1>2, TplOneOp
  <2>2. q \in TplActive /\ q \in TplInstalling /\ q \in TplMaking
    BY <1>1 DEF TplActive, TplInstalling, TplMaking
  <2>3. TplActive' \subseteq TplActive /\ TplInstalling' \subseteq TplInstalling /\ TplMaking' \subseteq TplMaking
    BY <2>1, <2>2
  <2>4. /\ IsFiniteSet(TplActive') /\ IsFiniteSet(TplInstalling') /\ IsFiniteSet(TplMaking')
        /\ TplRoom' \in Int /\ TplGenRoom' \in Int /\ TplRoom <= TplRoom' /\ TplGenRoom <= TplGenRoom'
    BY <1>1, <2>3, TplRoomIsKept
  <2>5. TplTypes'
    BY <1>1, <1>2, <2>1 DEF TplTypes
  <2>6. TplArgFits(tplOp[q]) => TplArgFits(o)
    BY <1>1, <1>2 DEF TplArgFits
  <2>7. \A p \in Actors : TplArgFits(tplOp'[p])
    BY <2>1, <2>6 DEF TplWithinBounds
  <2>8. \A p \in Actors : \A k \in tplOp'[p].seen : k \in tplOp[p].seen
              \/ \E n \in TemplateNames : k \in tplIndex[n]
    BY <1>2, <2>1
  <2>9. 0 <= TplGenRoom'
    BY <2>4, TplRooms DEF TplWithinBounds
  <2>10. \A p \in Actors : tplOp'[p].t.gen <= TplGenRoom' \/ tplOp'[p].t = tplOp[p].t
    BY <1>2, <2>1, <2>9
  <2> QED BY <1>1, <2>4, <2>5, <2>7, <2>8, <2>10, TplBoundsAreKept
<1>3. CASE Tpl!Exists(Builtin)
  <2> DEFINE o == [tplOp[q] EXCEPT !.at = "act"]
  <2>1. tplOp' = [tplOp EXCEPT ![q] = o] /\ tplDisturbed' = tplDisturbed
    BY <1>3 DEF Tpl!Install, Tpl!Goto, TplTypes
  <2>2. /\ o \in TplOps /\ o.at = "act" /\ o.seen = tplOp[q].seen /\ o.op = tplOp[q].op
        /\ o.arg = tplOp[q].arg /\ o.t = tplOp[q].t
    BY <1>1 DEF TplOps
  <2> HIDE DEF o
  <2> QED BY <1>2, <2>1, <2>2 DEF TplTypes
<1>4. CASE ~Tpl!Exists(Builtin)
  <2>1. Tpl!Create(q, Builtin, Tpl!BuiltinTemplate)
    BY <1>4 DEF Tpl!Install
  <2>2. PICK o \in TplOps :
           /\ tplOp' = [tplOp EXCEPT ![q] = o]
           /\ o.at = "clear" /\ o.into = Builtin /\ o.t = Tpl!BuiltinTemplate
           /\ o.seen = tplOp[q].seen /\ o.op = tplOp[q].op /\ o.arg = tplOp[q].arg
    BY <1>1, <2>1, TplCreateIs, TplData
  <2>3. tplDisturbed' \subseteq TemplateNames
    BY <2>1, TplData DEF Tpl!Create, TplTypes
  <2>4. TplWritesBuiltin(o) /\ o.t.gen = 0
    BY <2>2, TplData DEF TplWritesBuiltin, Tpl!Writing
  <2> QED BY <1>2, <2>2, <2>3, <2>4
<1> QED BY <1>3, <1>4

\* A template made of one that is there, or of a bundle.
LEMMA TplMakingFits ==
  ASSUME TplAssumptions, TplTypes, TplWithinBounds, NEW q \in Actors, tplOp[q].at = "act", NEW name \in TemplateNames,
         NEW t \in Tpl!Templates, Tpl!Create(q, name, t), 1 <= t.gen, t.gen <= TplGenRoom + 1,
         UNCHANGED <<Tpl!files, tplDefault, Tpl!bounds>>
  PROVE  TplTypes' /\ TplWithinBounds'
<1>1. PICK o \in TplOps : /\ tplOp' = [tplOp EXCEPT ![q] = o]
                          /\ o.at = "clear" /\ o.into = name /\ o.t = t /\ o.seen = {}
  BY TplCreateIs
<1>2. /\ UNCHANGED <<tplYaml, tplRevision, tplIndex, tplDefault, tplAsked, tplCrashes>> /\ tplAsked \in Nat
      /\ tplOp[q].at \notin Tpl!Writing
  BY DEF Tpl!files, Tpl!bounds, TplTypes, Tpl!Writing
<1>3. ~TplWritesBuiltin(o) /\ ~TplWritesBuiltin(tplOp[q]) /\ TplArgFits(o)
  <2>1. t # Tpl!BuiltinTemplate
    BY TplData
  <2> QED BY <1>1, <1>2, <2>1 DEF TplWritesBuiltin, TplArgFits
<1>4. /\ tplOp' \in [Actors -> TplOps] /\ tplOp'[q] = o
      /\ \A p \in Actors \ {q} : tplOp'[p] = tplOp[p]
      /\ TplActive' = TplActive \union {q} /\ TplInstalling' = TplInstalling \ {q}
      /\ TplMaking' = TplMaking \ {q}
  BY <1>1, <1>3, TplOneOp
<1>5. q \in TplActive /\ q \notin TplInstalling /\ q \in TplMaking
  BY <1>3 DEF TplActive, TplInstalling, TplMaking
<1>6. TplActive' = TplActive /\ TplInstalling' = TplInstalling
  BY <1>4, <1>5
<1>7. /\ IsFiniteSet(TplMaking') /\ Cardinality(TplMaking') = Cardinality(TplMaking) - 1
      /\ Cardinality(TplMaking) \in Nat
  BY <1>4, <1>5, TplOneLess DEF TplWithinBounds
<1>8. TplRoom' = TplRoom /\ TplGenRoom' = TplGenRoom + 1 /\ TplRoom \in Int /\ TplGenRoom \in Int
  BY <1>2, <1>6, <1>7, TplRooms DEF TplRoom, TplGenRoom
<1>9. TplTypes'
  <2>1. tplDisturbed' \subseteq TemplateNames
    BY DEF Tpl!Create, TplTypes
  <2> QED BY <1>2, <1>4, <2>1 DEF TplTypes
<1>10. \A p \in Actors : TplArgFits(tplOp'[p])
  BY <1>3, <1>4 DEF TplWithinBounds
<1>11. \A p \in Actors : \A k \in tplOp'[p].seen : k \in tplOp[p].seen
            \/ \E n \in TemplateNames : k \in tplIndex[n]
  BY <1>1, <1>4
<1>12. \A p \in Actors : tplOp'[p].t.gen <= TplGenRoom' \/ tplOp'[p].t = tplOp[p].t
  BY <1>1, <1>4, <1>8
<1>13. /\ IsFiniteSet(TplActive') /\ IsFiniteSet(TplInstalling') /\ TplRoom <= TplRoom' /\ TplGenRoom <= TplGenRoom'
       /\ TplRoom' \in Int /\ TplGenRoom' \in Int
  BY <1>6, <1>8 DEF TplWithinBounds
<1> QED BY <1>2, <1>7, <1>9, <1>10, <1>11, <1>12, <1>13, TplBoundsAreKept

LEMMA TplGetIs ==
  ASSUME TplAssumptions, TplTypes, TplWithinBounds, NEW name \in TemplateNames, Tpl!Exists(name)
  PROVE  /\ Tpl!Get(name) \in Tpl!Templates /\ Tpl!Get(name).gen <= TplGenRoom
         /\ tplYaml[name] # Torn => Tpl!Get(name) = tplYaml[name]
<1>1. CASE tplYaml[name] = Torn
  <2>1. [def |-> Tpl!Blank, gen |-> 0] \in Tpl!Templates
    BY TplData DEF Tpl!Templates
  <2> QED BY <1>1, <2>1 DEF Tpl!Get, TplWithinBounds
<1>2. CASE tplYaml[name] # Torn
  <2>1. Tpl!Get(name) = tplYaml[name] /\ tplYaml[name] \in Tpl!Templates
    BY <1>2 DEF Tpl!Get, Tpl!Exists, TplTypes
  <2> QED BY <1>2, <2>1 DEF TplWithinBounds
<1> QED BY <1>1, <1>2

\* There is a request that is still to make its template.
LEMMA TplGenRoomIsLeft ==
  ASSUME TplAssumptions, TplTypes, TplWithinBounds, NEW q \in Actors, tplOp[q].at = "act"
  PROVE  TplGenRoom + 1 <= 2 * MaxAsked /\ TplGenRoom \in Int
<1>1. q \in TplMaking
  BY DEF TplMaking
<1>2. Cardinality(TplMaking \ {q}) = Cardinality(TplMaking) - 1 /\ Cardinality(TplMaking \ {q}) \in Nat
      /\ Cardinality(TplMaking) \in Nat
  BY <1>1, TplOneLess DEF TplWithinBounds
<1>3. tplAsked \in Nat /\ tplAsked <= MaxAsked /\ MaxAsked \in Nat
  BY TplData DEF TplTypes
<1> QED BY <1>2, <1>3 DEF TplGenRoom

LEMMA TplChildIs ==
  ASSUME TplAssumptions, NEW t \in Tpl!Templates, t.gen + 1 <= 2 * MaxAsked
  PROVE  Tpl!Child(t) \in Tpl!Templates /\ Tpl!Child(t).gen = t.gen + 1 /\ 1 <= Tpl!Child(t).gen
<1>1. t.gen \in Nat /\ t.def \in TemplateDefinitions \union {Tpl!Blank} /\ MaxAsked \in Nat
  BY TplData DEF Tpl!Templates
<1> QED BY <1>1 DEF Tpl!Child, Tpl!Templates

LEMMA TplForkFits ==
  ASSUME TplAssumptions, TplTypes, TplWithinBounds, NEW q \in Actors, Tpl!Fork(q)
  PROVE  TplTypes' /\ TplWithinBounds'
<1> DEFINE source == tplOp[q].arg
           t == Tpl!Get(source)
<1>1. /\ tplOp[q].at = "act" /\ tplOp[q].op = "fork" /\ Tpl!Exists(source) /\ tplOp[q].name \in TemplateNames
      /\ Tpl!Create(q, tplOp[q].name, Tpl!Child(t)) /\ UNCHANGED <<Tpl!files, tplDefault, Tpl!bounds>>
  BY DEF Tpl!Fork, Tpl!Acting, TplTypes, TplOps
<1>2. source \in TemplateNames
  BY <1>1 DEF TplWithinBounds, TplArgFits
<1>3. t \in Tpl!Templates /\ t.gen \in Nat /\ t.gen <= TplGenRoom
  BY <1>1, <1>2, TplGetIs DEF Tpl!Templates
<1>4. Tpl!Child(t) \in Tpl!Templates /\ Tpl!Child(t).gen = t.gen + 1 /\ 1 <= Tpl!Child(t).gen
  BY <1>1, <1>3, TplGenRoomIsLeft, TplChildIs, TplData
<1>5. Tpl!Child(t).gen <= TplGenRoom + 1
  BY <1>1, <1>3, <1>4, TplGenRoomIsLeft
<1> HIDE DEF t, source
<1> QED BY <1>1, <1>4, <1>5, TplMakingFits

LEMMA TplImportFits ==
  ASSUME TplAssumptions, TplTypes, TplWithinBounds, NEW q \in Actors, Tpl!Import(q)
  PROVE  TplTypes' /\ TplWithinBounds'
<1>1. /\ tplOp[q].at = "act" /\ tplOp[q].op = "import" /\ tplOp[q].name \in TemplateNames
      /\ UNCHANGED <<Tpl!files, tplDefault, Tpl!bounds>>
  BY DEF Tpl!Import, Tpl!Acting, TplTypes, TplOps
<1>2. PICK d \in tplOp[q].arg.layers : Tpl!Create(q, tplOp[q].name, [def |-> d, gen |-> 1])
  BY DEF Tpl!Import
<1>3. d \in TemplateDefinitions
  BY <1>1 DEF TplWithinBounds, TplArgFits, TplAssumptions, Tpl!TemplatesAssumption
<1>4. 1 <= 2 * MaxAsked /\ MaxAsked \in Nat /\ 1 <= TplGenRoom + 1
  <2>1. 0 <= TplGenRoom /\ TplGenRoom + 1 <= 2 * MaxAsked /\ TplGenRoom \in Int /\ MaxAsked \in Nat
    BY <1>1, TplGenRoomIsLeft, TplData DEF TplWithinBounds
  <2> QED BY <2>1
<1>5. [def |-> d, gen |-> 1] \in Tpl!Templates
  BY <1>3, <1>4 DEF Tpl!Templates
<1> QED BY <1>1, <1>2, <1>4, <1>5, TplMakingFits

LEMMA TplRestoredIs ==
  ASSUME TplAssumptions, TplTypes, TplWithinBounds, NEW q \in Actors, Tpl!Acting(q, "rollback"),
         Tpl!Restorable(tplOp[q].name, tplOp[q].arg), NEW t,
         t = [Tpl!Child(Tpl!Get(tplOp[q].name)) EXCEPT !.def = tplRevision[tplOp[q].name][tplOp[q].arg].def]
  PROVE  /\ t \in Tpl!Templates /\ t.gen = Tpl!Get(tplOp[q].name).gen + 1
         /\ 1 <= t.gen /\ t.gen <= TplGenRoom + 1
<1> DEFINE old == Tpl!Get(tplOp[q].name)
           d == tplRevision[tplOp[q].name][tplOp[q].arg].def
<1>1. /\ tplOp[q].at = "act" /\ tplOp[q].op = "rollback" /\ tplOp[q].name \in TemplateNames /\ tplOp[q].arg \in Tpl!Numbers
      /\ Tpl!Exists(tplOp[q].name) /\ tplRevision[tplOp[q].name][tplOp[q].arg] # None
  BY DEF Tpl!Acting, Tpl!Restorable, TplTypes, TplOps, TplWithinBounds, TplArgFits
<1>2. old \in Tpl!Templates /\ old.gen \in Nat /\ old.gen <= TplGenRoom
  BY <1>1, TplGetIs DEF Tpl!Templates
<1>3. Tpl!Child(old) \in Tpl!Templates /\ Tpl!Child(old).gen = old.gen + 1 /\ 1 <= Tpl!Child(old).gen
  BY <1>1, <1>2, TplGenRoomIsLeft, TplChildIs, TplData
<1>4. d \in TemplateDefinitions \union {Tpl!Blank}
  BY <1>1 DEF TplTypes, Tpl!Templates
<1>5. old.gen + 1 <= TplGenRoom + 1
  BY <1>1, <1>2, TplGenRoomIsLeft
<1> HIDE DEF old, d
<1>6. t = [Tpl!Child(old) EXCEPT !.def = d]
  BY DEF old, d
<1>7. t \in Tpl!Templates /\ t.gen = Tpl!Child(old).gen
  BY <1>3, <1>4, <1>6 DEF Tpl!Templates
<1> QED BY <1>3, <1>5, <1>7 DEF old

LEMMA TplRollbackFits ==
  ASSUME TplAssumptions, TplTypes, TplWithinBounds, NEW q \in Actors, Tpl!Rollback(q)
  PROVE  TplTypes' /\ TplWithinBounds'
<1> DEFINE t == [Tpl!Child(Tpl!Get(tplOp[q].name)) EXCEPT !.def = tplRevision[tplOp[q].name][tplOp[q].arg].def]
<1>1. /\ Tpl!Acting(q, "rollback") /\ tplOp[q].at = "act" /\ tplOp[q].name \in TemplateNames
      /\ Tpl!Restorable(tplOp[q].name, tplOp[q].arg)
      /\ Tpl!Create(q, tplOp[q].name, t) /\ UNCHANGED <<Tpl!files, tplDefault, Tpl!bounds>>
  BY DEF Tpl!Rollback, Tpl!Acting, TplTypes, TplOps
<1>2. t \in Tpl!Templates /\ 1 <= t.gen /\ t.gen <= TplGenRoom + 1
  BY <1>1, TplRestoredIs
<1> HIDE DEF t
<1> QED BY <1>1, <1>2, TplMakingFits

LEMMA TplRepliesFit ==
  ASSUME TplAssumptions, TplTypes, TplWithinBounds, NEW q \in Actors, Tpl!SetDefault(q) \/ Tpl!Refuse(q) \/ Tpl!Die(q)
  PROVE  TplTypes' /\ TplWithinBounds'
<1>1. /\ Tpl!Reply(q) /\ tplAsked' = tplAsked /\ UNCHANGED Tpl!files
      /\ tplDefault' \in TemplateNames \union {None} /\ tplDisturbed' \subseteq TemplateNames
  BY DEF Tpl!SetDefault, Tpl!Refuse, Tpl!Die, TplTypes, TplOps, Tpl!bounds
<1>2. tplCrashes' \in 0..MaxDeaths
  BY TplData DEF Tpl!SetDefault, Tpl!Refuse, Tpl!Die, Tpl!bounds, TplTypes
<1> QED BY <1>1, <1>2, TplIdleInOps

\* The next revision of a request that is writing one has a number.
LEMMA TplNextNumberFits ==
  ASSUME TplAssumptions, TplTypes, TplWithinBounds, NEW q \in Actors, tplOp[q].at \in Tpl!Writing
  PROVE  /\ Tpl!NextNumber(tplOp[q].seen) \in Tpl!Numbers /\ Tpl!NextNumber(tplOp[q].seen) <= TplRoom + 1
         /\ \A k \in tplOp[q].seen : k < Tpl!NextNumber(tplOp[q].seen)
<1>1. tplOp[q].seen \subseteq Tpl!Numbers /\ MaxAsked \in Nat /\ tplAsked \in Nat /\ tplAsked <= MaxAsked
  BY TplData DEF TplTypes, TplOps
<1>2. q \in TplActive
  BY DEF TplActive, Tpl!Writing
<1>3. Cardinality(TplActive \ {q}) = Cardinality(TplActive) - 1 /\ Cardinality(TplActive \ {q}) \in Nat
      /\ Cardinality(TplActive) \in Nat /\ Cardinality(TplInstalling) \in Nat
  BY <1>2, TplOneLess, TplSizes DEF TplWithinBounds
<1>4. TplRoom + 1 <= 2 * MaxAsked /\ 0 <= TplRoom /\ TplRoom \in Int
  BY <1>1, <1>3, TplRooms DEF TplRoom, TplWithinBounds
<1>5. CASE tplOp[q].seen = {}
  BY <1>1, <1>4, <1>5 DEF Tpl!NextNumber, Tpl!Numbers
<1>6. CASE tplOp[q].seen # {}
  <2> DEFINE n == 2 * MaxAsked
             m == Tpl!Max(tplOp[q].seen)
  <2>1. n \in Nat /\ tplOp[q].seen \in SUBSET (0..n)
    BY <1>1 DEF Tpl!Numbers
  <2>2. m \in tplOp[q].seen /\ \A k \in tplOp[q].seen : k <= m
    BY <1>6, <2>1, TplGreatest
  <2>3. m \in Nat /\ m <= TplRoom
    BY <1>1, <2>2 DEF Tpl!Numbers, TplWithinBounds
  <2>4. Tpl!NextNumber(tplOp[q].seen) = m + 1
    BY <1>6 DEF Tpl!NextNumber
  <2> HIDE DEF m
  <2> QED BY <1>1, <1>4, <2>2, <2>3, <2>4 DEF Tpl!Numbers
<1> QED BY <1>5, <1>6

LEMMA TplWritingFits ==
  ASSUME TplAssumptions, TplTypes, TplWithinBounds, NEW q \in Actors,
         Tpl!Clear(q) \/ Tpl!Fill(q) \/ Tpl!ReadHistory(q) \/ Tpl!WriteRevision(q) \/ Tpl!ClearIndex(q)
  PROVE  TplTypes' /\ TplWithinBounds'
<1> DEFINE name == tplOp[q].into
           t == tplOp[q].t
<1>1. /\ tplOp[q] \in TplOps /\ tplOp[q].at \in Tpl!Writing /\ name \in TemplateNames /\ t \in Tpl!Templates
      /\ UNCHANGED <<tplDefault, tplDisturbed, tplAsked, tplCrashes>>
  BY DEF Tpl!Clear, Tpl!Fill, Tpl!ReadHistory, Tpl!WriteRevision, Tpl!ClearIndex, Tpl!Writing,
     Tpl!bounds, TplTypes, TplOps
<1>2. ASSUME NEW step \in Tpl!Writing, tplOp' = [tplOp EXCEPT ![q].at = step],
             tplYaml' \in [TemplateNames -> Tpl!Templates \union {None, Torn}],
             tplRevision' \in [TemplateNames -> [Tpl!Numbers -> Tpl!Templates \union {None}]],
             tplIndex' \in [TemplateNames -> SUBSET Tpl!Numbers],
             \A n \in TemplateNames : \A k \in tplIndex'[n] : k \in tplIndex[n],
             \A n \in TemplateNames : tplYaml'[n] \in Tpl!Templates => tplYaml'[n] = tplYaml[n] \/ tplYaml'[n] = t,
             \A n \in TemplateNames, k \in Tpl!Numbers : tplRevision'[n][k] # None =>
                tplRevision'[n][k] = tplRevision[n][k] \/ tplRevision'[n][k] = t
      PROVE  TplTypes' /\ TplWithinBounds'
  <2> DEFINE o == [tplOp[q] EXCEPT !.at = step]
  <2>1. tplOp' = [tplOp EXCEPT ![q] = o]
    BY <1>2 DEF TplTypes
  <2>2. o \in TplOps /\ TplContinues(o, tplOp[q]) /\ o.seen = tplOp[q].seen
    BY <1>1 DEF TplOps, TplContinues
  <2> HIDE DEF o
  <2>3. o.t = tplOp[q].t
    BY <2>2 DEF TplContinues
  <2> QED BY <1>1, <1>2, <2>1, <2>2, <2>3, TplOpGoesOn DEF TplTypes
<1>3. {"fill", "history", "revision", "index", "reindex"} \subseteq Tpl!Writing
  BY DEF Tpl!Writing
<1>4. CASE Tpl!Clear(q)
  <2>1. /\ tplYaml' = [tplYaml EXCEPT ![name] = Torn] /\ tplOp' = [tplOp EXCEPT ![q].at = "fill"]
        /\ tplRevision' = tplRevision /\ tplIndex' = tplIndex
    BY <1>4 DEF Tpl!Clear, Tpl!Goto
  <2>2. \A n \in TemplateNames : tplYaml'[n] = IF n = name THEN Torn ELSE tplYaml[n]
    BY <1>1, <2>1 DEF TplTypes
  <2> QED BY <1>1, <1>2, <1>3, <2>1, <2>2, TplData DEF TplTypes
<1>5. CASE Tpl!Fill(q)
  <2>1. /\ tplYaml' = [tplYaml EXCEPT ![name] = t] /\ tplOp' = [tplOp EXCEPT ![q].at = "history"]
        /\ tplRevision' = tplRevision /\ tplIndex' = tplIndex
    BY <1>5 DEF Tpl!Fill, Tpl!Goto
  <2>2. \A n \in TemplateNames : tplYaml'[n] = IF n = name THEN t ELSE tplYaml[n]
    BY <1>1, <2>1 DEF TplTypes
  <2> QED BY <1>1, <1>2, <1>3, <2>1, <2>2 DEF TplTypes
<1>6. CASE Tpl!ReadHistory(q)
  <2> DEFINE seen == tplIndex[name]
             o == [tplOp[q] EXCEPT !.at = "revision", !.seen = seen]
  <2>1. tplOp' = [tplOp EXCEPT ![q] = o] /\ UNCHANGED <<tplYaml, tplRevision, tplIndex>>
    BY <1>6 DEF Tpl!ReadHistory, Tpl!History, Tpl!files, TplTypes
  <2>2. seen \in SUBSET Tpl!Numbers
    BY <1>1 DEF TplTypes
  <2> HIDE DEF seen
  <2>3. o \in TplOps /\ TplContinues(o, tplOp[q]) /\ o.seen = seen
    BY <1>1, <1>3, <2>2 DEF TplOps, TplContinues
  <2> HIDE DEF o
  <2>4. o.t = tplOp[q].t
    BY <2>3 DEF TplContinues
  <2>5. \A k \in o.seen : k \in tplOp[q].seen \/ \E n \in TemplateNames : k \in tplIndex[n]
    BY <1>1, <2>3 DEF seen
  <2> QED BY <1>1, <2>1, <2>3, <2>4, <2>5, TplOpGoesOn DEF TplTypes
<1>7. CASE Tpl!WriteRevision(q)
  <2> DEFINE n == Tpl!NextNumber(tplOp[q].seen)
             row == [tplRevision[name] EXCEPT ![n] = t]
  <2>1. n \in Tpl!Numbers
    BY <1>1, TplNextNumberFits
  <2>2. /\ tplRevision' = [tplRevision EXCEPT ![name] = row] /\ tplOp' = [tplOp EXCEPT ![q].at = "index"]
        /\ tplYaml' = tplYaml /\ tplIndex' = tplIndex
    BY <1>7 DEF Tpl!WriteRevision, Tpl!Goto, TplTypes
  <2> HIDE DEF n
  <2>3. /\ row \in [Tpl!Numbers -> Tpl!Templates \union {None}]
        /\ \A k \in Tpl!Numbers : row[k] = IF k = n THEN t ELSE tplRevision[name][k]
    BY <1>1, <2>1 DEF TplTypes
  <2> HIDE DEF row
  <2>4. /\ tplRevision' \in [TemplateNames -> [Tpl!Numbers -> Tpl!Templates \union {None}]]
        /\ \A m \in TemplateNames : tplRevision'[m] = IF m = name THEN row ELSE tplRevision[m]
    BY <1>1, <2>2, <2>3 DEF TplTypes
  <2>5. \A m \in TemplateNames, k \in Tpl!Numbers : tplRevision'[m][k] # None =>
          tplRevision'[m][k] = tplRevision[m][k] \/ tplRevision'[m][k] = t
    BY <2>3, <2>4
  <2> QED BY <1>2, <1>3, <2>2, <2>4, <2>5 DEF TplTypes
<1>8. CASE Tpl!ClearIndex(q)
  <2>1. /\ tplIndex' = [tplIndex EXCEPT ![name] = {}] /\ tplOp' = [tplOp EXCEPT ![q].at = "reindex"]
        /\ tplYaml' = tplYaml /\ tplRevision' = tplRevision
    BY <1>8 DEF Tpl!ClearIndex, Tpl!Goto
  <2>2. \A n \in TemplateNames : tplIndex'[n] = IF n = name THEN {} ELSE tplIndex[n]
    BY <1>1, <2>1 DEF TplTypes
  <2> QED BY <1>1, <1>2, <1>3, <2>1, <2>2 DEF TplTypes
<1> QED BY <1>4, <1>5, <1>6, <1>7, <1>8

LEMMA TplFillIndexFits ==
  ASSUME TplAssumptions, TplTypes, TplWithinBounds, NEW q \in Actors, Tpl!FillIndex(q)
  PROVE  TplTypes' /\ TplWithinBounds'
<1> DEFINE name == tplOp[q].into
           n == Tpl!NextNumber(tplOp[q].seen)
           numbers == tplOp[q].seen \union {n}
<1>1. /\ tplOp[q] \in TplOps /\ tplOp[q].at = "reindex" /\ tplOp[q].at \in Tpl!Writing /\ name \in TemplateNames
      /\ tplOp[q].seen \subseteq Tpl!Numbers /\ tplIndex' = [tplIndex EXCEPT ![name] = numbers]
      /\ UNCHANGED <<tplYaml, tplRevision, tplDefault, tplDisturbed, tplAsked, tplCrashes>>
  BY DEF Tpl!FillIndex, Tpl!Writing, Tpl!bounds, TplTypes, TplOps
<1>2. n \in Tpl!Numbers /\ n <= TplRoom + 1
  BY <1>1, TplNextNumberFits
<1>3. numbers \in SUBSET Tpl!Numbers
  BY <1>1, <1>2
<1>4. /\ tplIndex' \in [TemplateNames -> SUBSET Tpl!Numbers]
      /\ \A m \in TemplateNames : tplIndex'[m] = IF m = name THEN numbers ELSE tplIndex[m]
  <2> HIDE DEF numbers
  <2> QED BY <1>1, <1>3 DEF TplTypes
<1>5. ASSUME NEW o \in TplOps, tplOp' = [tplOp EXCEPT ![q] = o], o.seen = {}, TplArgFits(o),
             o.t = tplOp[q].t \/ o.t.gen = 0, TplActive' \subseteq TplActive,
             TplInstalling' \subseteq TplInstalling, TplMaking' \subseteq TplMaking,
             Cardinality(TplActive') + Cardinality(TplInstalling')
               <= Cardinality(TplActive) + Cardinality(TplInstalling) - 1
      PROVE  TplTypes' /\ TplWithinBounds'
  <2>1. /\ tplOp' \in [Actors -> TplOps] /\ tplOp'[q] = o
        /\ \A p \in Actors \ {q} : tplOp'[p] = tplOp[p]
    BY <1>5, TplOneOp
  <2>2. /\ IsFiniteSet(TplActive') /\ IsFiniteSet(TplInstalling') /\ IsFiniteSet(TplMaking')
        /\ TplRoom' \in Int /\ TplGenRoom' \in Int /\ TplRoom <= TplRoom' /\ TplGenRoom <= TplGenRoom'
    BY <1>1, <1>5, TplRoomIsKept
  <2>3. TplRoom + 1 <= TplRoom'
    <3>1. Cardinality(TplActive') \in Nat /\ Cardinality(TplInstalling') \in Nat
      BY <2>2, FS_CardinalityType
    <3> QED BY <1>1, <1>5, <3>1, TplSizes DEF TplRoom
  <2>4. TplTypes'
    BY <1>1, <1>4, <2>1 DEF TplTypes
  <2>5. \A m \in TemplateNames : \A k \in tplIndex'[m] : k <= TplRoom' \/ k \in tplIndex[m]
            \/ \E p \in Actors : k \in tplOp[p].seen
    <3> SUFFICES ASSUME NEW m \in TemplateNames, NEW k \in tplIndex'[m]
                 PROVE  k <= TplRoom' \/ k \in tplIndex[m] \/ \E p \in Actors : k \in tplOp[p].seen
      OBVIOUS
    <3>1. CASE k = n
      <4>1. n \in Int /\ TplRoom \in Int
        BY <1>2, TplRooms DEF Tpl!Numbers
      <4> QED BY <1>2, <2>2, <2>3, <3>1, <4>1
    <3>2. CASE k # n
      BY <1>4, <3>2
    <3> QED BY <3>1, <3>2
  <2>6. \A p \in Actors : \A k \in tplOp'[p].seen : k \in tplOp[p].seen
            \/ \E m \in TemplateNames : k \in tplIndex[m]
    BY <1>5, <2>1
  <2>7. 0 <= TplGenRoom'
    BY <2>2, TplRooms DEF TplWithinBounds
  <2>8. \A p \in Actors : tplOp'[p].t.gen <= TplGenRoom' \/ tplOp'[p].t = tplOp[p].t
    BY <1>5, <2>1, <2>7
  <2>9. \A p \in Actors : TplArgFits(tplOp'[p])
    BY <1>5, <2>1 DEF TplWithinBounds
  <2> QED BY <1>1, <2>2, <2>4, <2>5, <2>6, <2>8, <2>9, TplBoundsAreKept
<1>6. q \in TplActive
  BY <1>1 DEF TplActive
<1>7. CASE name = Builtin /\ tplOp[q].t = Tpl!BuiltinTemplate
  <2> DEFINE o == [tplOp[q] EXCEPT !.at = "act", !.seen = {}]
  <2>1. tplOp' = [tplOp EXCEPT ![q] = o]
    BY <1>7 DEF Tpl!FillIndex, TplTypes
  <2>2. /\ o \in TplOps /\ o.at = "act" /\ o.seen = {} /\ o.t = tplOp[q].t /\ o.op = tplOp[q].op
        /\ o.arg = tplOp[q].arg
    BY <1>1 DEF TplOps
  <2> HIDE DEF o
  <2>3. TplWritesBuiltin(tplOp[q]) /\ ~TplWritesBuiltin(o)
    BY <1>1, <1>7, <2>2 DEF TplWritesBuiltin, Tpl!Writing
  <2>4. TplArgFits(o)
    BY <2>2, <2>3 DEF TplWithinBounds, TplArgFits
  <2>5. TplActive' = TplActive \union {q} /\ TplInstalling' = TplInstalling \ {q} /\ TplMaking' = TplMaking \union {q}
    BY <2>1, <2>2, <2>3, TplOneOp
  <2>6. q \in TplInstalling /\ q \in TplMaking
    BY <2>3 DEF TplInstalling, TplMaking
  <2>7. Cardinality(TplInstalling') = Cardinality(TplInstalling) - 1 /\ TplActive' = TplActive /\ TplMaking' = TplMaking
    BY <1>6, <2>5, <2>6, TplOneLess DEF TplWithinBounds
  <2>8. Cardinality(TplActive') + Cardinality(TplInstalling')
          <= Cardinality(TplActive) + Cardinality(TplInstalling) - 1
    BY <2>7, TplSizes
  <2>9. TplInstalling' \subseteq TplInstalling
    BY <2>5
  <2> QED BY <1>5, <2>1, <2>2, <2>4, <2>7, <2>8, <2>9
<1>8. CASE ~(name = Builtin /\ tplOp[q].t = Tpl!BuiltinTemplate)
  <2>1. tplOp' = [tplOp EXCEPT ![q] = Tpl!Idle] /\ Tpl!Idle \in TplOps /\ TplArgFits(Tpl!Idle) /\ ~TplWritesBuiltin(Tpl!Idle)
        /\ Tpl!Idle.at = "idle" /\ Tpl!Idle.seen = {} /\ Tpl!Idle.t.gen = 0
    BY <1>8, TplData DEF Tpl!FillIndex, Tpl!Reply
  <2>2. TplActive' = TplActive \ {q} /\ TplInstalling' = TplInstalling \ {q} /\ TplMaking' = TplMaking \ {q}
    BY <2>1, TplOneOp
  <2>3. q \notin TplInstalling
    BY <1>1, <1>8 DEF TplInstalling, TplWritesBuiltin
  <2>4. TplInstalling' = TplInstalling /\ Cardinality(TplActive') = Cardinality(TplActive) - 1
    BY <1>6, <2>2, <2>3, TplOneLess DEF TplWithinBounds
  <2>5. Cardinality(TplActive') + Cardinality(TplInstalling')
          <= Cardinality(TplActive) + Cardinality(TplInstalling) - 1
    BY <2>4, TplSizes
  <2>6. TplActive' \subseteq TplActive /\ TplMaking' \subseteq TplMaking
    BY <2>2
  <2> QED BY <1>5, <2>1, <2>4, <2>5, <2>6
<1> QED BY <1>7, <1>8

\* What a prune leaves: all of it is gone, or the template is disturbed.
LEMMA TplPrunes ==
  ASSUME NEW pruned, Tpl!Prune(pruned)
  PROVE  \E y \in {None, tplYaml[pruned]}, left \in SUBSET Tpl!OnDisk(pruned), i \in {{}, tplIndex[pruned]},
           whole \in BOOLEAN :
         /\ whole = (y = None /\ left = {} /\ i = {})
         /\ tplYaml' = [tplYaml EXCEPT ![pruned] = y]
         /\ tplRevision' = [tplRevision EXCEPT ![pruned] =
              [n \in Tpl!Numbers |-> IF n \in left THEN @[n] ELSE None]]
         /\ tplIndex' = [tplIndex EXCEPT ![pruned] = i]
         /\ IF whole THEN tplAsked' = tplAsked ELSE tplAsked < MaxAsked /\ tplAsked' = tplAsked + 1
         /\ tplDisturbed' = tplDisturbed \union {n \in {pruned} : ~whole \/ \E q \in Actors : Tpl!Busy(q, n)}
         /\ UNCHANGED <<tplDefault, tplOp, tplCrashes>>
<1>1. PICK y \in {None, tplYaml[pruned]}, left \in SUBSET Tpl!OnDisk(pruned), i \in {{}, tplIndex[pruned]} :
        /\ IF y = None /\ left = {} /\ i = {}
           THEN UNCHANGED tplAsked ELSE tplAsked < MaxAsked /\ tplAsked' = tplAsked + 1
        /\ tplYaml' = [tplYaml EXCEPT ![pruned] = y]
        /\ tplRevision' = [tplRevision EXCEPT ![pruned] =
             [n \in Tpl!Numbers |-> IF n \in left THEN @[n] ELSE None]]
        /\ tplIndex' = [tplIndex EXCEPT ![pruned] = i]
        /\ tplDisturbed' = tplDisturbed \union {n \in {pruned} :
             ~(y = None /\ left = {} /\ i = {}) \/ \E q \in Actors : Tpl!Busy(q, n)}
        /\ UNCHANGED <<tplDefault, tplOp, tplCrashes>>
  BY Zenon DEF Tpl!Prune
<1>2. \E whole \in BOOLEAN : whole = (y = None /\ left = {} /\ i = {})
  OBVIOUS
<1> QED BY Zenon, <1>1, <1>2

LEMMA TplPruneIs ==
  ASSUME TplAssumptions, TplTypes, NEW pruned \in TemplateNames, Tpl!Prune(pruned)
  PROVE  /\ TplTypes'
         /\ UNCHANGED <<tplDefault, tplOp, tplCrashes>> /\ (tplAsked' = tplAsked \/ tplAsked' = tplAsked + 1)
         /\ \A m \in TemplateNames \ {pruned} :
              tplYaml'[m] = tplYaml[m] /\ tplIndex'[m] = tplIndex[m] /\ tplRevision'[m] = tplRevision[m]
         /\ tplYaml'[pruned] \in {None, tplYaml[pruned]} /\ tplIndex'[pruned] \in {{}, tplIndex[pruned]}
         /\ \A n \in Tpl!Numbers : tplRevision'[pruned][n] \in {None, tplRevision[pruned][n]}
         /\ tplDisturbed \subseteq tplDisturbed' /\ tplDisturbed' \subseteq tplDisturbed \union {pruned}
         /\ pruned \notin tplDisturbed' =>
              /\ tplYaml'[pruned] = None /\ tplIndex'[pruned] = {}
              /\ \A n \in Tpl!Numbers : tplRevision'[pruned][n] = None
              /\ \A q \in Actors : ~Tpl!Busy(q, pruned)
<1>1. PICK y \in {None, tplYaml[pruned]}, left \in SUBSET Tpl!OnDisk(pruned), i \in {{}, tplIndex[pruned]},
           whole \in BOOLEAN :
        /\ whole = (y = None /\ left = {} /\ i = {})
        /\ tplYaml' = [tplYaml EXCEPT ![pruned] = y]
        /\ tplRevision' = [tplRevision EXCEPT ![pruned] =
             [n \in Tpl!Numbers |-> IF n \in left THEN tplRevision[pruned][n] ELSE None]]
        /\ tplIndex' = [tplIndex EXCEPT ![pruned] = i]
        /\ IF whole THEN tplAsked' = tplAsked ELSE tplAsked < MaxAsked /\ tplAsked' = tplAsked + 1
        /\ tplDisturbed' = tplDisturbed \union {n \in {pruned} : ~whole \/ \E q \in Actors : Tpl!Busy(q, n)}
        /\ UNCHANGED <<tplDefault, tplOp, tplCrashes>>
  BY Zenon, TplPrunes DEF TplTypes
<1> DEFINE rest == [n \in Tpl!Numbers |-> IF n \in left THEN tplRevision[pruned][n] ELSE None]
<1>2. /\ tplYaml[pruned] \in Tpl!Templates \union {None, Torn} /\ tplIndex[pruned] \in SUBSET Tpl!Numbers
      /\ \A n \in Tpl!Numbers : tplRevision[pruned][n] \in Tpl!Templates \union {None}
  BY DEF TplTypes
<1>3. /\ rest \in [Tpl!Numbers -> Tpl!Templates \union {None}]
      /\ \A n \in Tpl!Numbers : rest[n] \in {None, tplRevision[pruned][n]} /\ (left = {} => rest[n] = None)
  BY <1>2
<1>4. tplRevision' = [tplRevision EXCEPT ![pruned] = rest]
  BY <1>1
<1> HIDE DEF rest
<1>5. tplAsked' \in 0..MaxAsked
  BY <1>1, TplData DEF TplTypes
<1>6. /\ tplYaml' \in [TemplateNames -> Tpl!Templates \union {None, Torn}] /\ tplYaml'[pruned] = y
      /\ \A m \in TemplateNames \ {pruned} : tplYaml'[m] = tplYaml[m]
  BY <1>1, <1>2 DEF TplTypes
<1>7. /\ tplIndex' \in [TemplateNames -> SUBSET Tpl!Numbers] /\ tplIndex'[pruned] = i
      /\ \A m \in TemplateNames \ {pruned} : tplIndex'[m] = tplIndex[m]
  BY <1>1, <1>2 DEF TplTypes
<1>8. /\ tplRevision' \in [TemplateNames -> [Tpl!Numbers -> Tpl!Templates \union {None}]]
      /\ tplRevision'[pruned] = rest
      /\ \A m \in TemplateNames \ {pruned} : tplRevision'[m] = tplRevision[m]
  BY <1>3, <1>4 DEF TplTypes
<1>9. /\ tplDisturbed \subseteq tplDisturbed' /\ tplDisturbed' \subseteq tplDisturbed \union {pruned}
      /\ pruned \notin tplDisturbed' => whole /\ \A q \in Actors : ~Tpl!Busy(q, pruned)
  <2> HIDE DEF Tpl!Busy
  <2> QED BY <1>1
<1>10. TplTypes'
  BY <1>1, <1>5, <1>6, <1>7, <1>8, <1>9 DEF TplTypes
<1> QED BY <1>1, <1>3, <1>6, <1>7, <1>8, <1>9, <1>10

LEMMA TplPruneFits ==
  ASSUME TplAssumptions, TplTypes, TplWithinBounds, NEW name \in TemplateNames, Tpl!Prune(name)
  PROVE  TplTypes' /\ TplWithinBounds'
<1>1. /\ TplTypes' /\ tplOp' = tplOp /\ (tplAsked' = tplAsked \/ tplAsked' = tplAsked + 1)
      /\ \A m \in TemplateNames \ {name} :
           tplYaml'[m] = tplYaml[m] /\ tplIndex'[m] = tplIndex[m] /\ tplRevision'[m] = tplRevision[m]
      /\ tplYaml'[name] \in {None, tplYaml[name]} /\ tplIndex'[name] \in {{}, tplIndex[name]}
      /\ \A n \in Tpl!Numbers : tplRevision'[name][n] \in {None, tplRevision[name][n]}
  BY TplPruneIs
<1>2. TplActive' = TplActive /\ TplInstalling' = TplInstalling /\ TplMaking' = TplMaking
  BY <1>1 DEF TplActive, TplInstalling, TplMaking
<1>3. /\ IsFiniteSet(TplActive') /\ IsFiniteSet(TplInstalling') /\ IsFiniteSet(TplMaking')
      /\ TplRoom' \in Int /\ TplGenRoom' \in Int /\ TplRoom <= TplRoom' /\ TplGenRoom <= TplGenRoom'
  BY <1>1, <1>2, TplRoomIsKept
<1>4. /\ \A m \in TemplateNames : tplYaml'[m] \in Tpl!Templates => tplYaml'[m] = tplYaml[m]
      /\ \A m \in TemplateNames, n \in Tpl!Numbers : tplRevision'[m][n] # None => tplRevision'[m][n] = tplRevision[m][n]
      /\ \A m \in TemplateNames : \A k \in tplIndex'[m] : k \in tplIndex[m]
      /\ \A q \in Actors : TplArgFits(tplOp'[q])
  BY <1>1, TplData DEF TplWithinBounds
<1> QED BY <1>1, <1>3, <1>4, TplBoundsAreKept

-----------------------------------------------------------------------------
(* A template nobody disturbed is in order.                                 *)

\* A request that neither wrote nor writes it has no part in it.
LEMMA TplOthersAreLeft ==
  ASSUME TplTypes, NEW q \in Actors, NEW o \in TplOps, tplOp' = [tplOp EXCEPT ![q] = o],
         NEW name \in TemplateNames, TplUndisturbed(name), ~Tpl!Busy(q, name),
         ~(o.at \in Tpl!Writing /\ o.into = name),
         tplYaml'[name] = tplYaml[name], tplRevision'[name] = tplRevision[name], tplIndex'[name] = tplIndex[name]
  PROVE  TplUndisturbed(name)'
<1>1. \A p \in Actors : /\ p # q => tplOp'[p] = tplOp[p]
                        /\ Tpl!Busy(p, name)' => Tpl!Busy(p, name) /\ tplOp'[p] = tplOp[p]
                        /\ Tpl!Busy(p, name) => Tpl!Busy(p, name)'
  BY DEF TplTypes, Tpl!Busy
<1>2. Tpl!Quiet(name)' => Tpl!Quiet(name)
  BY <1>1 DEF Tpl!Quiet
<1>3. \A k \in Nat : TplSettled(name, k) => TplSettled(name, k)'
  BY DEF TplSettled, TplRecorded
<1>4. \A p \in Actors, k \in Nat : Tpl!Busy(p, name)' /\ TplInOrder(tplOp[p], name, k)
        => TplInOrder(tplOp[p], name, k)'
  BY <1>1, <1>3 DEF TplInOrder, TplRecorded
<1>5. \A p, r \in Actors : Tpl!Busy(p, name)' /\ Tpl!Busy(r, name)' => p = r
  BY <1>1 DEF TplUndisturbed
<1>6. Tpl!Quiet(name)' => \E k \in Nat : TplSettled(name, k)'
  BY <1>2, <1>3 DEF TplUndisturbed
<1>7. \A p \in Actors : Tpl!Busy(p, name)' => \E k \in Nat : TplInOrder(tplOp[p], name, k)'
  BY <1>1, <1>4 DEF TplUndisturbed
<1> QED BY <1>1, <1>5, <1>6, <1>7 DEF TplUndisturbed

\* One that is the only writer leaves it in order.
LEMMA TplOneWriter ==
  ASSUME TplTypes, NEW q \in Actors, NEW o \in TplOps, tplOp' = [tplOp EXCEPT ![q] = o],
         NEW name \in TemplateNames, \A p \in Actors \ {q} : ~Tpl!Busy(p, name), NEW k \in Nat,
         \/ o.at \in Tpl!Writing /\ o.into = name /\ TplInOrder(o, name, k)'
         \/ o.at \notin Tpl!Writing /\ TplSettled(name, k)'
  PROVE  TplUndisturbed(name)'
<1>1. /\ tplOp'[q] = o
      /\ \A p \in Actors : Tpl!Busy(p, name)' => p = q
      /\ Tpl!Busy(q, name)' <=> o.at \in Tpl!Writing /\ o.into = name
  BY DEF TplTypes, Tpl!Busy
<1>2. CASE o.at \in Tpl!Writing /\ o.into = name /\ TplInOrder(o, name, k)'
  <2>1. ~Tpl!Quiet(name)'
    BY <1>1, <1>2 DEF Tpl!Quiet
  <2>2. TplInOrder(tplOp[q], name, k)'
    BY <1>1, <1>2 DEF TplInOrder, TplSettled, TplRecorded
  <2> QED BY <1>1, <2>1, <2>2 DEF TplUndisturbed
<1>3. CASE o.at \notin Tpl!Writing /\ TplSettled(name, k)'
  BY <1>1, <1>3 DEF TplUndisturbed
<1> QED BY <1>2, <1>3

\* A template that is not there has no revisions, and one that is there is
\* its last.
LEMMA TplSettledIs ==
  ASSUME TplAssumptions, TplTypes, NEW name \in TemplateNames, NEW k \in Nat, TplSettled(name, k)
  PROVE  /\ ~Tpl!Exists(name) <=> k = 0
         /\ Tpl!Exists(name) => /\ k \in Tpl!Numbers /\ tplRevision[name][k] \in Tpl!Templates
                                /\ tplYaml[name] = tplRevision[name][k] /\ tplYaml[name] # Torn
<1>1. k > 0 => k \in Tpl!Numbers /\ tplRevision[name][k] # None
  BY DEF TplSettled, TplRecorded
<1>2. k > 0 => tplRevision[name][k] \in Tpl!Templates
  BY <1>1 DEF TplTypes
<1> QED BY <1>1, <1>2, TplData DEF TplSettled, Tpl!Exists

\* The number after 1 to k.
LEMMA TplNextIs ==
  ASSUME NEW k \in Nat
  PROVE  Tpl!NextNumber(1..k) = k + 1
<1>1. CASE k = 0
  <2>1. 1..k = {}
    BY <1>1
  <2> QED BY <1>1, <2>1 DEF Tpl!NextNumber
<1>2. CASE k > 0
  <2> DEFINE S == 1..k
  <2>1. S \in SUBSET (0..k) /\ S # {} /\ k \in S /\ \A i \in S : i <= k /\ i \in Nat
    BY <1>2
  <2> HIDE DEF S
  <2>2. Tpl!Max(S) \in S /\ \A y \in S : y <= Tpl!Max(S)
    BY <2>1, TplGreatest
  <2> DEFINE m == Tpl!Max(S)
  <2>3. m \in S /\ \A y \in S : y <= m
    BY <2>2
  <2> HIDE DEF m
  <2>4. m = k
    BY <2>1, <2>3
  <2> QED BY <2>1, <2>4 DEF Tpl!NextNumber, S, m
<1> QED BY <1>1, <1>2

\* What appendRevision writes of a template in order.
LEMMA TplRevisionIs ==
  ASSUME TplAssumptions, TplTypes, TplWithinBounds, NEW q \in Actors, Tpl!WriteRevision(q),
         NEW k \in Nat, TplInOrder(tplOp[q], tplOp[q].into, k)
  PROVE  /\ k + 1 \in Tpl!Numbers /\ tplRevision[tplOp[q].into][k + 1] = None
         /\ \A name \in TemplateNames : name # tplOp[q].into => tplRevision'[name] = tplRevision[name]
         /\ \A n \in Tpl!Numbers : tplRevision'[tplOp[q].into][n] =
              IF n = k + 1 THEN tplOp[q].t ELSE tplRevision[tplOp[q].into][n]
<1> DEFINE name == tplOp[q].into
           t == tplOp[q].t
<1>1. /\ tplOp[q].at = "revision" /\ tplOp[q].at \in Tpl!Writing /\ name \in TemplateNames
      /\ tplRevision' = [tplRevision EXCEPT ![name][Tpl!NextNumber(tplOp[q].seen)] = t]
  BY DEF Tpl!WriteRevision, Tpl!Writing, TplTypes, TplOps
<1>2. tplOp[q].seen = 1..k /\ TplRecorded(name, k)
  BY <1>1 DEF TplInOrder
<1>3. Tpl!NextNumber(tplOp[q].seen) = k + 1
  BY <1>2, TplNextIs
<1>4. k + 1 \in Tpl!Numbers
  BY <1>1, <1>3, TplNextNumberFits
<1>5. tplRevision[name][k + 1] = None
  BY <1>2, <1>4 DEF TplRecorded
<1>6. tplRevision' = [tplRevision EXCEPT ![name] = [tplRevision[name] EXCEPT ![k + 1] = t]]
  BY <1>1, <1>3 DEF TplTypes
<1>7. \A m \in TemplateNames : tplRevision'[m] =
         IF m = name THEN [tplRevision[name] EXCEPT ![k + 1] = t] ELSE tplRevision[m]
  BY <1>1, <1>6 DEF TplTypes
<1>8. \A n \in Tpl!Numbers : tplRevision'[name][n] = IF n = k + 1 THEN t ELSE tplRevision[name][n]
  BY <1>1, <1>4, <1>7 DEF TplTypes
<1> QED BY <1>4, <1>5, <1>7, <1>8

\* A request that goes on to another step of its writing.
LEMMA TplStepTo ==
  ASSUME TplAssumptions, TplTypes, TplWithinBounds, NEW q \in Actors,
         Tpl!Clear(q) \/ Tpl!Fill(q) \/ Tpl!ReadHistory(q) \/ Tpl!WriteRevision(q) \/ Tpl!ClearIndex(q)
  PROVE  \E o \in TplOps :
           /\ tplOp' = [tplOp EXCEPT ![q] = o] /\ o.at \in Tpl!Writing
           /\ o.into = tplOp[q].into /\ o.t = tplOp[q].t
           /\ Tpl!Clear(q) => o.at = "fill"
           /\ Tpl!Fill(q) => o.at = "history"
           /\ Tpl!ReadHistory(q) => o.at = "revision" /\ o.seen = tplIndex[tplOp[q].into]
           /\ Tpl!WriteRevision(q) => o.at = "index" /\ o.seen = tplOp[q].seen
           /\ Tpl!ClearIndex(q) => o.at = "reindex" /\ o.seen = tplOp[q].seen
<1>1. tplOp[q] \in TplOps /\ tplOp[q].into \in TemplateNames /\ tplIndex[tplOp[q].into] \in SUBSET Tpl!Numbers
  BY DEF TplTypes, TplOps
<1>2. {"fill", "history", "revision", "index", "reindex"} \subseteq Tpl!Writing
  BY DEF Tpl!Writing
<1>3. ASSUME NEW step \in Tpl!Writing, tplOp' = [tplOp EXCEPT ![q].at = step]
      PROVE  \E o \in TplOps : /\ tplOp' = [tplOp EXCEPT ![q] = o] /\ o.at = step /\ o.into = tplOp[q].into
                               /\ o.t = tplOp[q].t /\ o.seen = tplOp[q].seen
  <2> DEFINE o == [tplOp[q] EXCEPT !.at = step]
  <2>1. tplOp' = [tplOp EXCEPT ![q] = o]
    BY <1>3 DEF TplTypes
  <2>2. o \in TplOps /\ o.at = step /\ o.into = tplOp[q].into /\ o.t = tplOp[q].t /\ o.seen = tplOp[q].seen
    BY <1>1 DEF TplOps
  <2> HIDE DEF o
  <2> QED BY <2>1, <2>2
<1>4. CASE Tpl!Clear(q)
  <2>1. /\ tplOp' = [tplOp EXCEPT ![q].at = "fill"] /\ ~Tpl!Fill(q) /\ ~Tpl!ReadHistory(q)
        /\ ~Tpl!WriteRevision(q) /\ ~Tpl!ClearIndex(q)
    BY <1>4 DEF Tpl!Clear, Tpl!Goto, Tpl!Fill, Tpl!ReadHistory, Tpl!WriteRevision, Tpl!ClearIndex
  <2>2. PICK o \in TplOps : /\ tplOp' = [tplOp EXCEPT ![q] = o] /\ o.at = "fill"
                            /\ o.into = tplOp[q].into /\ o.t = tplOp[q].t /\ o.seen = tplOp[q].seen
    BY <1>2, <1>3, <2>1
  <2> QED BY <1>2, <2>1, <2>2
<1>5. CASE Tpl!Fill(q)
  <2>1. /\ tplOp' = [tplOp EXCEPT ![q].at = "history"] /\ ~Tpl!Clear(q) /\ ~Tpl!ReadHistory(q)
        /\ ~Tpl!WriteRevision(q) /\ ~Tpl!ClearIndex(q)
    BY <1>5 DEF Tpl!Clear, Tpl!Goto, Tpl!Fill, Tpl!ReadHistory, Tpl!WriteRevision, Tpl!ClearIndex
  <2>2. PICK o \in TplOps : /\ tplOp' = [tplOp EXCEPT ![q] = o] /\ o.at = "history"
                            /\ o.into = tplOp[q].into /\ o.t = tplOp[q].t /\ o.seen = tplOp[q].seen
    BY <1>2, <1>3, <2>1
  <2> QED BY <1>2, <2>1, <2>2
<1>6. CASE Tpl!ReadHistory(q)
  <2> DEFINE seen == tplIndex[tplOp[q].into]
             o == [tplOp[q] EXCEPT !.at = "revision", !.seen = seen]
  <2>1. /\ tplOp' = [tplOp EXCEPT ![q] = o] /\ ~Tpl!Clear(q) /\ ~Tpl!Fill(q)
        /\ ~Tpl!WriteRevision(q) /\ ~Tpl!ClearIndex(q)
    BY <1>6 DEF Tpl!Clear, Tpl!Fill, Tpl!ReadHistory, Tpl!WriteRevision, Tpl!ClearIndex,
       Tpl!History, TplTypes
  <2>2. seen \in SUBSET Tpl!Numbers
    BY <1>1
  <2> HIDE DEF seen
  <2>3. o \in TplOps /\ o.at = "revision" /\ o.into = tplOp[q].into /\ o.t = tplOp[q].t /\ o.seen = seen
    BY <1>1, <1>2, <2>2 DEF TplOps
  <2> HIDE DEF o
  <2> QED BY <1>2, <2>1, <2>3 DEF seen
<1>7. CASE Tpl!WriteRevision(q)
  <2>1. /\ tplOp' = [tplOp EXCEPT ![q].at = "index"] /\ ~Tpl!Clear(q) /\ ~Tpl!Fill(q)
        /\ ~Tpl!ReadHistory(q) /\ ~Tpl!ClearIndex(q)
    BY <1>7 DEF Tpl!Clear, Tpl!Goto, Tpl!Fill, Tpl!ReadHistory, Tpl!WriteRevision, Tpl!ClearIndex
  <2>2. PICK o \in TplOps : /\ tplOp' = [tplOp EXCEPT ![q] = o] /\ o.at = "index"
                            /\ o.into = tplOp[q].into /\ o.t = tplOp[q].t /\ o.seen = tplOp[q].seen
    BY <1>2, <1>3, <2>1
  <2> QED BY <1>2, <2>1, <2>2
<1>8. CASE Tpl!ClearIndex(q)
  <2>1. /\ tplOp' = [tplOp EXCEPT ![q].at = "reindex"] /\ ~Tpl!Clear(q) /\ ~Tpl!Fill(q)
        /\ ~Tpl!ReadHistory(q) /\ ~Tpl!WriteRevision(q)
    BY <1>8 DEF Tpl!Clear, Tpl!Goto, Tpl!Fill, Tpl!ReadHistory, Tpl!WriteRevision, Tpl!ClearIndex
  <2>2. PICK o \in TplOps : /\ tplOp' = [tplOp EXCEPT ![q] = o] /\ o.at = "reindex"
                            /\ o.into = tplOp[q].into /\ o.t = tplOp[q].t /\ o.seen = tplOp[q].seen
    BY <1>2, <1>3, <2>1
  <2> QED BY <1>2, <2>1, <2>2
<1> QED BY <1>4, <1>5, <1>6, <1>7, <1>8

\* What a step of its only writer leaves.
LEMMA TplWriterKeepsOrder ==
  ASSUME TplAssumptions, TplTypes, TplWithinBounds, NEW q \in Actors,
         Tpl!Clear(q) \/ Tpl!Fill(q) \/ Tpl!ReadHistory(q) \/ Tpl!WriteRevision(q) \/ Tpl!ClearIndex(q),
         NEW name \in TemplateNames, name = tplOp[q].into, TplUndisturbed(name)
  PROVE  TplUndisturbed(name)'
<1>1. Tpl!Busy(q, name) /\ tplOp[q] \in TplOps /\ tplOp[q].t \in Tpl!Templates
  BY DEF Tpl!Clear, Tpl!Fill, Tpl!ReadHistory, Tpl!WriteRevision, Tpl!ClearIndex, Tpl!Busy,
     Tpl!Writing, TplTypes, TplOps
<1>2. PICK k \in Nat : TplInOrder(tplOp[q], name, k)
  BY <1>1 DEF TplUndisturbed
<1>3. \A p \in Actors \ {q} : ~Tpl!Busy(p, name)
  BY <1>1 DEF TplUndisturbed
<1>4. PICK o \in TplOps :
           /\ tplOp' = [tplOp EXCEPT ![q] = o] /\ o.at \in Tpl!Writing
           /\ o.into = name /\ o.t = tplOp[q].t
           /\ Tpl!Clear(q) => o.at = "fill"
           /\ Tpl!Fill(q) => o.at = "history"
           /\ Tpl!ReadHistory(q) => o.at = "revision" /\ o.seen = tplIndex[name]
           /\ Tpl!WriteRevision(q) => o.at = "index" /\ o.seen = tplOp[q].seen
           /\ Tpl!ClearIndex(q) => o.at = "reindex" /\ o.seen = tplOp[q].seen
  BY TplStepTo
<1>5. CASE Tpl!Clear(q)
  <2>1. /\ tplOp[q].at = "clear" /\ o.at = "fill" /\ tplYaml'[name] = Torn
        /\ tplRevision' = tplRevision /\ tplIndex' = tplIndex
    BY <1>4, <1>5 DEF Tpl!Clear, TplTypes
  <2>2. TplInOrder(o, name, k)'
    BY <1>2, <1>4, <2>1 DEF TplInOrder, TplRecorded
  <2> QED BY <1>3, <1>4, <2>2, TplOneWriter
<1>6. CASE Tpl!Fill(q)
  <2>1. /\ tplOp[q].at = "fill" /\ o.at = "history" /\ tplYaml'[name] = o.t
        /\ tplRevision' = tplRevision /\ tplIndex' = tplIndex
    BY <1>4, <1>6 DEF Tpl!Fill, TplTypes
  <2>2. TplInOrder(o, name, k)'
    BY <1>2, <1>4, <2>1 DEF TplInOrder, TplRecorded
  <2> QED BY <1>3, <1>4, <2>2, TplOneWriter
<1>7. CASE Tpl!ReadHistory(q)
  <2>1. /\ tplOp[q].at = "history" /\ o.at = "revision" /\ o.seen = tplIndex[name]
        /\ tplYaml' = tplYaml /\ tplRevision' = tplRevision /\ tplIndex' = tplIndex
    BY <1>4, <1>7 DEF Tpl!ReadHistory, Tpl!files
  <2>2. TplInOrder(o, name, k)'
    BY <1>2, <1>4, <2>1 DEF TplInOrder, TplRecorded
  <2> QED BY <1>3, <1>4, <2>2, TplOneWriter
<1>8. CASE Tpl!WriteRevision(q)
  <2>1. /\ tplOp[q].at = "revision" /\ o.at = "index" /\ o.seen = tplOp[q].seen
        /\ tplYaml' = tplYaml /\ tplIndex' = tplIndex
    BY <1>4, <1>8 DEF Tpl!WriteRevision
  <2>2. /\ k + 1 \in Tpl!Numbers
        /\ \A n \in Tpl!Numbers : tplRevision'[name][n] = IF n = k + 1 THEN tplOp[q].t ELSE tplRevision[name][n]
    BY <1>2, <1>8, TplRevisionIs
  <2>3. /\ TplRecorded(name, k) /\ tplIndex[name] = 1..k /\ o.seen = 1..k /\ tplYaml[name] = tplOp[q].t
        /\ k > 0 => tplRevision[name][k].gen < tplOp[q].t.gen
    BY <1>2, <2>1 DEF TplInOrder
  <2>4. TplRecorded(name, k + 1)'
    <3>1. tplOp[q].t # None
      BY <1>1, TplData
    <3>2. \A n \in Tpl!Numbers : tplRevision'[name][n] # None <=> n <= k + 1
      BY <2>2, <2>3, <3>1 DEF TplRecorded, Tpl!Numbers
    <3>3. \A n \in 1..(k + 1) : n \in Tpl!Numbers
      BY <2>2, <2>3 DEF TplRecorded
    <3>4. ASSUME NEW n \in 2..(k + 1)
          PROVE  tplRevision'[name][n - 1].gen < tplRevision'[name][n].gen
      <4>1. n \in Tpl!Numbers /\ n - 1 \in Tpl!Numbers /\ n - 1 # k + 1
        BY <3>3
      <4>2. CASE n = k + 1
        BY <2>2, <2>3, <4>1, <4>2
      <4>3. CASE n # k + 1
        <5>1. n \in 2..k
          BY <4>3
        <5> QED BY <2>2, <2>3, <4>1, <4>3, <5>1 DEF TplRecorded
      <4> QED BY <4>2, <4>3
    <3> QED BY <3>2, <3>3, <3>4 DEF TplRecorded
  <2>5. tplRevision'[name][k + 1] = tplOp[q].t
    BY <2>2
  <2>6. TplInOrder(o, name, k)'
    BY <1>4, <2>1, <2>3, <2>4, <2>5 DEF TplInOrder
  <2> QED BY <1>3, <1>4, <2>6, TplOneWriter
<1>9. CASE Tpl!ClearIndex(q)
  <2>1. /\ tplOp[q].at = "index" /\ o.at = "reindex" /\ o.seen = tplOp[q].seen
        /\ tplYaml' = tplYaml /\ tplRevision' = tplRevision /\ tplIndex'[name] = {}
    BY <1>4, <1>9 DEF Tpl!ClearIndex, TplTypes
  <2>2. TplInOrder(o, name, k)'
    BY <1>2, <1>4, <2>1 DEF TplInOrder, TplRecorded
  <2> QED BY <1>3, <1>4, <2>2, TplOneWriter
<1> QED BY <1>5, <1>6, <1>7, <1>8, <1>9

\* A template Create begins: what is there is settled, and older.
LEMMA TplCreateKeepsOrder ==
  ASSUME TplAssumptions, TplTypes, NEW q \in Actors, NEW made \in TemplateNames, NEW t \in Tpl!Templates,
         Tpl!Create(q, made, t), tplOp[q].at \in {"install", "act"}, UNCHANGED Tpl!files,
         made \notin tplDisturbed' /\ Tpl!Exists(made) /\ tplYaml[made] # Torn => tplYaml[made].gen < t.gen,
         NEW name \in TemplateNames \ tplDisturbed', TplUndisturbed(name)
  PROVE  TplUndisturbed(name)'
<1>1. PICK o \in TplOps : tplOp' = [tplOp EXCEPT ![q] = o] /\ o.at = "clear" /\ o.into = made /\ o.t = t
  BY TplCreateIs
<1>2. /\ tplYaml' = tplYaml /\ tplRevision' = tplRevision /\ tplIndex' = tplIndex
      /\ ~Tpl!Busy(q, name) /\ "clear" \in Tpl!Writing
  BY DEF Tpl!files, Tpl!Busy, Tpl!Writing
<1>3. CASE name # made
  BY <1>1, <1>2, <1>3, TplOthersAreLeft
<1>4. CASE name = made
  <2>1. \A p \in Actors \ {q} : ~Tpl!Busy(p, name)
    BY <1>4 DEF Tpl!Create
  <2>2. PICK k \in Nat : TplSettled(name, k)
    BY <1>2, <2>1 DEF TplUndisturbed, Tpl!Quiet
  <2>3. k > 0 => tplRevision[name][k].gen < t.gen
    BY <1>4, <2>2, TplSettledIs
  <2>4. TplInOrder(o, name, k)'
    BY <1>1, <1>2, <2>2, <2>3 DEF TplInOrder, TplSettled, TplRecorded
  <2> QED BY <1>1, <1>2, <1>4, <2>1, <2>4, TplOneWriter
<1> QED BY <1>3, <1>4

LEMMA TplMakingKeepsOrder ==
  ASSUME TplAssumptions, TplTypes, TplWithinBounds, NEW q \in Actors,
         Tpl!Install(q) \/ Tpl!Fork(q) \/ Tpl!Import(q) \/ Tpl!Rollback(q),
         NEW name \in TemplateNames \ tplDisturbed', TplUndisturbed(name)
  PROVE  TplUndisturbed(name)'
<1>1. UNCHANGED Tpl!files /\ tplOp[q].at \in {"install", "act"} /\ tplOp[q] \in TplOps /\ tplOp[q].name \in TemplateNames
  BY DEF Tpl!Install, Tpl!Fork, Tpl!Import, Tpl!Rollback, Tpl!Acting, TplTypes, TplOps
<1>2. CASE Tpl!Install(q) /\ Tpl!Exists(Builtin)
  <2> DEFINE o == [tplOp[q] EXCEPT !.at = "act"]
  <2>1. tplOp' = [tplOp EXCEPT ![q] = o]
    BY <1>2 DEF Tpl!Install, Tpl!Goto, TplTypes
  <2>2. o \in TplOps /\ o.at \notin Tpl!Writing
    BY <1>1 DEF TplOps, Tpl!Writing
  <2>3. ~Tpl!Busy(q, name) /\ tplYaml' = tplYaml /\ tplRevision' = tplRevision /\ tplIndex' = tplIndex
    BY <1>1 DEF Tpl!Busy, Tpl!Writing, Tpl!files
  <2> HIDE DEF o
  <2> QED BY <2>1, <2>2, <2>3, TplOthersAreLeft
<1>3. CASE Tpl!Install(q) /\ ~Tpl!Exists(Builtin)
  <2>1. Tpl!Create(q, Builtin, Tpl!BuiltinTemplate)
    BY <1>3 DEF Tpl!Install
  <2> QED BY <1>1, <1>3, <2>1, TplData, TplCreateKeepsOrder
<1>4. CASE Tpl!Fork(q)
  <2> DEFINE t == Tpl!Child(Tpl!Get(tplOp[q].arg))
  <2>1. tplOp[q].at = "act" /\ tplOp[q].op = "fork" /\ Tpl!Exists(tplOp[q].arg) /\ ~Tpl!Exists(tplOp[q].name)
        /\ Tpl!Create(q, tplOp[q].name, t)
    BY <1>4 DEF Tpl!Fork, Tpl!Acting
  <2>2. tplOp[q].arg \in TemplateNames
    BY <2>1 DEF TplWithinBounds, TplArgFits
  <2>3. Tpl!Get(tplOp[q].arg) \in Tpl!Templates /\ Tpl!Get(tplOp[q].arg).gen \in Nat /\ Tpl!Get(tplOp[q].arg).gen <= TplGenRoom
    BY <2>1, <2>2, TplGetIs DEF Tpl!Templates
  <2>4. t \in Tpl!Templates
    BY <2>1, <2>3, TplGenRoomIsLeft, TplChildIs, TplData
  <2> HIDE DEF t
  <2> QED BY <1>1, <2>1, <2>4, TplCreateKeepsOrder
<1>5. CASE Tpl!Import(q)
  <2>1. PICK d \in tplOp[q].arg.layers : Tpl!Create(q, tplOp[q].name, [def |-> d, gen |-> 1])
    BY <1>5 DEF Tpl!Import
  <2>2. tplOp[q].at = "act" /\ tplOp[q].op = "import" /\ ~Tpl!Exists(tplOp[q].name)
    BY <1>5 DEF Tpl!Import, Tpl!Acting
  <2>3. tplOp[q].arg \in Bundles
    BY <2>2 DEF TplWithinBounds, TplArgFits
  <2>4. d \in TemplateDefinitions /\ 1 <= 2 * MaxAsked
    <3>1. q \in TplMaking /\ MaxAsked \in Nat /\ TplGenRoom + 1 <= 2 * MaxAsked /\ 0 <= TplGenRoom /\ TplGenRoom \in Int
      BY <2>2, TplGenRoomIsLeft, TplData DEF TplMaking, TplWithinBounds
    <3> QED BY <2>3, <3>1 DEF TplAssumptions, Tpl!TemplatesAssumption
  <2>5. [def |-> d, gen |-> 1] \in Tpl!Templates
    BY <2>4, TplData DEF Tpl!Templates
  <2> QED BY <1>1, <2>1, <2>2, <2>5, TplCreateKeepsOrder
<1>6. CASE Tpl!Rollback(q)
  <2> DEFINE made == tplOp[q].name
             t == [Tpl!Child(Tpl!Get(made)) EXCEPT !.def = tplRevision[made][tplOp[q].arg].def]
  <2>1. tplOp[q].at = "act" /\ Tpl!Restorable(made, tplOp[q].arg) /\ Tpl!Create(q, made, t)
        /\ Tpl!Acting(q, "rollback")
    BY <1>6 DEF Tpl!Rollback, Tpl!Acting
  <2>2. t \in Tpl!Templates /\ t.gen = Tpl!Get(made).gen + 1
    BY <1>1, <2>1, TplRestoredIs
  <2>3. Tpl!Exists(made)
    BY <2>1 DEF Tpl!Restorable
  <2>4. tplYaml[made] # Torn => tplYaml[made].gen < t.gen
    <3>1. tplYaml[made] # Torn => Tpl!Get(made) = tplYaml[made]
      BY <1>1, <2>3, TplGetIs
    <3>2. Tpl!Get(made).gen \in Nat
      BY <1>1, <2>3, TplGetIs DEF Tpl!Templates
    <3>3. Tpl!Get(made).gen < t.gen
      <4> HIDE DEF t
      <4> QED BY <2>2, <3>2
    <3> QED BY <3>1, <3>3
  <2> HIDE DEF t
  <2> QED BY <1>1, <2>1, <2>2, <2>4, TplCreateKeepsOrder
<1> QED BY <1>2, <1>3, <1>4, <1>5, <1>6

\* A request that is asked, refused, or dies where it does not write.
LEMMA TplBystanderKeepsOrder ==
  ASSUME TplAssumptions, TplTypes, NEW q \in Actors,
         NEW o \in TplOps, tplOp' = [tplOp EXCEPT ![q] = o], o.at \notin Tpl!Writing, UNCHANGED Tpl!files,
         NEW name \in TemplateNames, TplUndisturbed(name), ~Tpl!Busy(q, name)
  PROVE  TplUndisturbed(name)'
<1>1. tplYaml' = tplYaml /\ tplRevision' = tplRevision /\ tplIndex' = tplIndex
  BY DEF Tpl!files
<1> QED BY <1>1, TplOthersAreLeft

LEMMA TplFillIndexKeepsOrder ==
  ASSUME TplAssumptions, TplTypes, TplWithinBounds, NEW q \in Actors, Tpl!FillIndex(q),
         NEW name \in TemplateNames, TplUndisturbed(name)
  PROVE  TplUndisturbed(name)'
<1> DEFINE into == tplOp[q].into
           numbers == tplOp[q].seen \union {Tpl!NextNumber(tplOp[q].seen)}
<1>1. /\ tplOp[q] \in TplOps /\ tplOp[q].at = "reindex" /\ tplOp[q].at \in Tpl!Writing /\ into \in TemplateNames
      /\ tplYaml' = tplYaml /\ tplRevision' = tplRevision /\ tplIndex' = [tplIndex EXCEPT ![into] = numbers]
  BY DEF Tpl!FillIndex, Tpl!Writing, TplTypes, TplOps
<1>2. PICK o \in TplOps : tplOp' = [tplOp EXCEPT ![q] = o] /\ o.at \notin Tpl!Writing
  <2>1. CASE into = Builtin /\ tplOp[q].t = Tpl!BuiltinTemplate
    <3> DEFINE o == [tplOp[q] EXCEPT !.at = "act", !.seen = {}]
    <3>1. tplOp' = [tplOp EXCEPT ![q] = o]
      BY <2>1 DEF Tpl!FillIndex, TplTypes
    <3>2. o \in TplOps /\ o.at \notin Tpl!Writing
      BY <1>1 DEF TplOps, Tpl!Writing
    <3> HIDE DEF o
    <3> QED BY <3>1, <3>2
  <2>2. CASE ~(into = Builtin /\ tplOp[q].t = Tpl!BuiltinTemplate)
    BY <2>2, TplData DEF Tpl!FillIndex, Tpl!Reply, Tpl!Writing
  <2> QED BY <2>1, <2>2
<1>3. \A n \in TemplateNames : tplIndex'[n] = IF n = into THEN numbers ELSE tplIndex[n]
  <2> HIDE DEF numbers
  <2> QED BY <1>1 DEF TplTypes
<1>4. CASE name # into
  BY <1>1, <1>2, <1>3, <1>4, TplOthersAreLeft DEF Tpl!Busy
<1>5. CASE name = into
  <2>1. Tpl!Busy(q, name)
    BY <1>1, <1>5 DEF Tpl!Busy
  <2>2. PICK k \in Nat : TplInOrder(tplOp[q], name, k)
    BY <2>1 DEF TplUndisturbed
  <2>3. \A p \in Actors \ {q} : ~Tpl!Busy(p, name)
    BY <2>1 DEF TplUndisturbed
  <2>4. /\ tplOp[q].seen = 1..k /\ tplYaml[name] = tplOp[q].t /\ TplRecorded(name, k + 1)
        /\ tplRevision[name][k + 1] = tplOp[q].t
    BY <1>1, <2>2 DEF TplInOrder
  <2>5. numbers = 1..(k + 1)
    <3>1. numbers = (1..k) \union {k + 1}
      BY <2>4, TplNextIs
    <3> QED BY <3>1
  <2>6. tplIndex'[name] = 1..(k + 1)
    BY <1>3, <1>5, <2>5
  <2>7. TplSettled(name, k + 1)'
    BY <1>1, <2>4, <2>6 DEF TplSettled, TplRecorded
  <2>8. PICK last \in Nat : TplSettled(name, last)'
    BY <2>7
  <2> QED BY <1>2, <2>3, <2>8, TplOneWriter
<1> QED BY <1>4, <1>5

LEMMA TplPruneKeepsOrder ==
  ASSUME TplAssumptions, TplTypes, NEW pruned \in TemplateNames, Tpl!Prune(pruned),
         NEW name \in TemplateNames \ tplDisturbed', TplUndisturbed(name)
  PROVE  TplUndisturbed(name)'
<1>1. tplOp' = tplOp
  BY TplPruneIs
<1>2. CASE name = pruned
  <2>1. Tpl!Quiet(name)'
    BY <1>1, <1>2, TplPruneIs DEF Tpl!Quiet, Tpl!Busy
  <2>2. tplYaml'[name] = None /\ tplIndex'[name] = {} /\ \A n \in Tpl!Numbers : tplRevision'[name][n] = None
    BY <1>2, TplPruneIs
  <2>3. TplSettled(name, 0)'
    BY <2>2, TplData DEF TplSettled, TplRecorded, Tpl!Numbers
  <2> QED BY <2>1, <2>3 DEF TplUndisturbed, Tpl!Quiet
<1>3. CASE name # pruned
  <2>1. tplYaml'[name] = tplYaml[name] /\ tplIndex'[name] = tplIndex[name] /\ tplRevision'[name] = tplRevision[name]
    BY <1>3, TplPruneIs
  <2>2. \A k \in Nat : TplSettled(name, k) => TplSettled(name, k)'
    BY <2>1 DEF TplSettled, TplRecorded
  <2>3. \A q \in Actors, k \in Nat : TplInOrder(tplOp[q], name, k) => TplInOrder(tplOp[q], name, k)'
    BY <1>1, <2>1, <2>2 DEF TplInOrder, TplRecorded
  <2>4. /\ \A q \in Actors : Tpl!Busy(q, name)' <=> Tpl!Busy(q, name)
        /\ Tpl!Quiet(name)' => Tpl!Quiet(name)
    BY <1>1 DEF Tpl!Busy, Tpl!Quiet
  <2> QED BY <2>2, <2>3, <2>4 DEF TplUndisturbed
<1> QED BY <1>2, <1>3

-----------------------------------------------------------------------------
(* Every step keeps all of it.                                              *)

LEMMA TplInitially == ASSUME TplAssumptions, Tpl!Init PROVE TplInv
<1>1. TplTypes
  BY TplData DEF Tpl!Init, TplTypes, Tpl!NoRevisions
<1>2. TplActive = {} /\ TplInstalling = {} /\ TplMaking = {}
  BY TplData DEF Tpl!Init, TplActive, TplInstalling, TplMaking
<1>3. IsFiniteSet({}) /\ Cardinality({}) = 0
  BY FS_EmptySet
<1>4. TplRoom = 0 /\ TplGenRoom = 0
  BY <1>2, <1>3 DEF Tpl!Init, TplRoom, TplGenRoom
<1>5. TplWithinBounds
  BY <1>1, <1>2, <1>3, <1>4, TplData DEF Tpl!Init, TplWithinBounds, Tpl!NoRevisions
<1>6. ASSUME NEW name \in TemplateNames PROVE TplUndisturbed(name)
  <2>1. \A q \in Actors : ~Tpl!Busy(q, name)
    BY TplData DEF Tpl!Init, Tpl!Busy, Tpl!Writing
  <2>2. tplYaml[name] = None /\ tplIndex[name] = {} /\ \A n \in Tpl!Numbers : tplRevision[name][n] = None
    BY DEF Tpl!Init, Tpl!NoRevisions
  <2>3. TplSettled(name, 0)
    BY <2>2 DEF TplSettled, TplRecorded, Tpl!Numbers
  <2> QED BY <2>1, <2>3 DEF TplUndisturbed
<1> QED BY <1>1, <1>5, <1>6 DEF TplInv

LEMMA TplBoundsStep ==
  ASSUME TplAssumptions, TplTypes, TplWithinBounds, [Tpl!Next]_(Tpl!vars)
  PROVE  TplTypes' /\ TplWithinBounds'
<1>1. CASE UNCHANGED Tpl!vars
  BY <1>1 DEF Tpl!vars, Tpl!files, Tpl!bounds, TplTypes, TplWithinBounds, TplActive, TplInstalling,
     TplMaking, TplRoom, TplGenRoom
<1>2. ASSUME NEW q \in Actors, NEW name \in TemplateNames,
             \/ \E source \in TemplateNames : Tpl!Ask(q, "fork", name, source)
             \/ \E b \in Bundles : Tpl!Ask(q, "import", name, b)
             \/ \E n \in 1..2 : Tpl!Ask(q, "rollback", name, n)
             \/ Tpl!Ask(q, "promote", name, None)
      PROVE  TplTypes' /\ TplWithinBounds'
  <2>1. {"fork", "import", "rollback", "promote"} \subseteq TplKinds /\ 1..2 \subseteq Nat
    BY DEF TplKinds
  <2> QED BY <1>2, <2>1, TplAskFits
<1> QED BY <1>1, <1>2, TplInstallFits, TplForkFits, TplImportFits, TplRollbackFits, TplRepliesFit,
           TplWritingFits, TplFillIndexFits, TplPruneFits DEF Tpl!Next, Tpl!Step

LEMMA TplOrderStep ==
  ASSUME TplAssumptions, TplInv, [Tpl!Next]_(Tpl!vars), NEW name \in TemplateNames \ tplDisturbed'
  PROVE  TplUndisturbed(name)'
<1>1. TplTypes /\ TplWithinBounds
  BY DEF TplInv
<1>2. CASE UNCHANGED Tpl!vars
  <2>1. TplUndisturbed(name)
    BY <1>2 DEF TplInv, Tpl!vars
  <2>2. tplYaml' = tplYaml /\ tplRevision' = tplRevision /\ tplIndex' = tplIndex /\ tplOp' = tplOp
    BY <1>2 DEF Tpl!vars, Tpl!files
  <2>3. ASSUME NEW k PROVE TplRecorded(name, k)' = TplRecorded(name, k)
    BY <2>2 DEF TplRecorded
  <2>4. ASSUME NEW k PROVE TplSettled(name, k)' = TplSettled(name, k)
    BY <2>2, <2>3 DEF TplSettled
  <2>5. ASSUME NEW q \in Actors, NEW k, TplInOrder(tplOp[q], name, k)
        PROVE  TplInOrder(tplOp[q], name, k)'
    BY <2>2, <2>3, <2>4, <2>5 DEF TplInOrder
  <2>6. \A q \in Actors : Tpl!Busy(q, name)' = Tpl!Busy(q, name)
    BY <2>2 DEF Tpl!Busy
  <2>7. Tpl!Quiet(name)' = Tpl!Quiet(name)
    BY <2>2, <2>6 DEF Tpl!Quiet
  <2> QED BY <2>1, <2>4, <2>5, <2>6, <2>7 DEF TplUndisturbed
<1>3. CASE Tpl!Next
  <2>1. tplDisturbed \subseteq tplDisturbed'
    <3>1. CASE \E pruned \in TemplateNames : Tpl!Prune(pruned)
      BY <1>1, <3>1, TplPruneIs
    <3>2. CASE ~\E pruned \in TemplateNames : Tpl!Prune(pruned)
      <4>1. ASSUME NEW q \in Actors, Tpl!Step(q) PROVE tplDisturbed \subseteq tplDisturbed'
        <5>0. ASSUME NEW n, NEW t, Tpl!Create(q, n, t) PROVE tplDisturbed \subseteq tplDisturbed'
          BY <5>0, Zenon DEF Tpl!Create
        <5>1. CASE Tpl!Install(q) \/ Tpl!Fork(q) \/ Tpl!Import(q) \/ Tpl!Rollback(q) \/ Tpl!SetDefault(q)
          <6>1. CASE Tpl!Install(q)
            BY <6>1, <5>0, Zenon DEF Tpl!Install
          <6>2. CASE Tpl!Fork(q)
            BY <6>2, <5>0, Zenon DEF Tpl!Fork
          <6>3. CASE Tpl!Import(q)
            BY <6>3, <5>0, Zenon DEF Tpl!Import
          <6>4. CASE Tpl!Rollback(q)
            BY <6>4, <5>0, Zenon DEF Tpl!Rollback
          <6>5. CASE Tpl!SetDefault(q)
            BY <6>5, Zenon DEF Tpl!SetDefault
          <6> QED BY <5>1, <6>1, <6>2, <6>3, <6>4, <6>5
        <5>2. CASE Tpl!Refuse(q) \/ Tpl!Clear(q) \/ Tpl!Fill(q) \/ Tpl!ReadHistory(q)
          BY <5>2 DEF Tpl!Refuse, Tpl!Clear, Tpl!Fill, Tpl!ReadHistory
        <5>3. CASE Tpl!WriteRevision(q) \/ Tpl!ClearIndex(q) \/ Tpl!FillIndex(q) \/ Tpl!Die(q)
          BY <5>3 DEF Tpl!WriteRevision, Tpl!ClearIndex, Tpl!FillIndex, Tpl!Die
        <5> QED BY <4>1, <5>1, <5>2, <5>3 DEF Tpl!Step
      <4>2. ASSUME NEW q, NEW kind, NEW n, NEW arg, Tpl!Ask(q, kind, n, arg)
            PROVE  tplDisturbed \subseteq tplDisturbed'
        BY <4>2 DEF Tpl!Ask
      <4> QED BY <1>3, <3>2, <4>1, <4>2 DEF Tpl!Next
    <3> QED BY <3>1, <3>2
  <2>2. TplUndisturbed(name)
    BY <2>1 DEF TplInv
  <2>3. ASSUME NEW q \in Actors, NEW n \in TemplateNames,
               \/ \E source \in TemplateNames : Tpl!Ask(q, "fork", n, source)
               \/ \E b \in Bundles : Tpl!Ask(q, "import", n, b)
               \/ \E k \in 1..2 : Tpl!Ask(q, "rollback", n, k)
               \/ Tpl!Ask(q, "promote", n, None)
        PROVE  TplUndisturbed(name)'
    <3>1. {"fork", "import", "rollback", "promote"} \subseteq TplKinds /\ 1..2 \subseteq Nat
      BY DEF TplKinds
    <3>2. PICK kind \in TplKinds, arg \in TemplateNames \union Bundles \union Nat \union {None} :
             Tpl!Ask(q, kind, n, arg)
      BY <2>3, <3>1
    <3> DEFINE o == [Tpl!Idle EXCEPT !.at = "install", !.op = kind, !.name = n, !.arg = arg]
    <3>3. tplOp[q] = Tpl!Idle /\ tplOp' = [tplOp EXCEPT ![q] = o] /\ UNCHANGED Tpl!files
      BY <3>2 DEF Tpl!Ask
    <3>4. o \in TplOps /\ o.at \notin Tpl!Writing
      BY TplData DEF TplOps, Tpl!Writing
    <3>5. ~Tpl!Busy(q, name)
      BY <3>3, TplData DEF Tpl!Busy, Tpl!Writing
    <3> HIDE DEF o
    <3> QED BY <1>1, <2>2, <3>3, <3>4, <3>5, TplBystanderKeepsOrder
  <2>4. ASSUME NEW q \in Actors, Tpl!SetDefault(q) \/ Tpl!Refuse(q) \/ Tpl!Die(q)
        PROVE  TplUndisturbed(name)'
    <3>1. tplOp' = [tplOp EXCEPT ![q] = Tpl!Idle] /\ UNCHANGED Tpl!files /\ Tpl!Idle \in TplOps /\ Tpl!Idle.at \notin Tpl!Writing
      BY <2>4, TplData DEF Tpl!SetDefault, Tpl!Refuse, Tpl!Die, Tpl!Reply, Tpl!Writing
    <3>2. ~Tpl!Busy(q, name)
      BY <2>4 DEF Tpl!SetDefault, Tpl!Refuse, Tpl!Die, Tpl!Acting, Tpl!Busy, Tpl!Writing
    <3> QED BY <1>1, <2>2, <3>1, <3>2, TplBystanderKeepsOrder
  <2>5. ASSUME NEW q \in Actors,
               Tpl!Clear(q) \/ Tpl!Fill(q) \/ Tpl!ReadHistory(q) \/ Tpl!WriteRevision(q) \/ Tpl!ClearIndex(q)
        PROVE  TplUndisturbed(name)'
    <3>1. CASE name = tplOp[q].into
      BY <1>1, <2>2, <2>5, <3>1, TplWriterKeepsOrder
    <3>2. CASE name # tplOp[q].into
      <4>1. PICK o \in TplOps : tplOp' = [tplOp EXCEPT ![q] = o] /\ o.into = tplOp[q].into
        BY <1>1, <2>5, TplStepTo
      <4>2. tplYaml'[name] = tplYaml[name] /\ tplRevision'[name] = tplRevision[name] /\ tplIndex'[name] = tplIndex[name]
        BY <1>1, <2>5, <3>2 DEF Tpl!Clear, Tpl!Fill, Tpl!ReadHistory, Tpl!WriteRevision,
           Tpl!ClearIndex, Tpl!files, TplTypes
      <4> QED BY <1>1, <2>2, <3>2, <4>1, <4>2, TplOthersAreLeft DEF Tpl!Busy
    <3> QED BY <3>1, <3>2
  <2> QED BY <1>1, <1>3, <2>2, <2>3, <2>4, <2>5, TplMakingKeepsOrder, TplFillIndexKeepsOrder,
             TplPruneKeepsOrder DEF Tpl!Next, Tpl!Step
<1> QED BY <1>2, <1>3

LEMMA TplInvariance == ASSUME TplAssumptions PROVE Tpl!Spec => []TplInv
<1>1. TplInv /\ [Tpl!Next]_(Tpl!vars) => TplInv'
  BY TplBoundsStep, TplOrderStep DEF TplInv
<1> QED BY <1>1, TplInitially, PTL DEF Tpl!Spec

\* Every variable of the template library keeps its type: a revision always
\* has a number, and a generation stays within the requests that were made.
LEMMA TplKeepsTypes == ASSUME TplAssumptions PROVE Tpl!Spec => []Tpl!TypeOK
<1>1. TplInv => Tpl!TypeOK
  BY DEF TplInv, TplTypes, Tpl!TypeOK, TplOps
<1> QED BY <1>1, TplInvariance, PTL

-----------------------------------------------------------------------------
(* What holds of the templates beside the other parts.                      *)

LEMMA TplIsAPart == Spec => Tpl!Spec
<1>1. Init => Tpl!Init
  BY DEF Init
<1>2. [Next]_vars => [Tpl!Next]_(Tpl!vars)
  BY DEF Next, vars, tpl, Tpl!vars, Tpl!files, Tpl!bounds
<1> QED BY <1>1, <1>2, PTL DEF Spec, Tpl!Spec

LEMMA TplFacts == TplAssumptions
BY PartsAssumption DEF TplAssumptions, PartsAssumption

LEMMA TplHolds == Spec => []TplInv /\ [][Tpl!Next]_(Tpl!vars)
BY TplFacts, TplIsAPart, TplInvariance, PTL DEF Tpl!Spec

\* The part counts with a copy of FiniteSets of its own.
LEMMA TplCounting ==
  ASSUME NEW S
  PROVE  (Tpl!IsFiniteSet(S) <=> IsFiniteSet(S)) /\ Tpl!Cardinality(S) = Cardinality(S)
<1>1. Tpl!IsFiniteSet(S) <=> IsFiniteSet(S)
  BY DEF IsFiniteSet, Tpl!IsFiniteSet
<1>2. Tpl!Cardinality(S) = Cardinality(S)
  BY <1>1 DEF Cardinality, Tpl!Cardinality
<1> QED BY <1>1, <1>2

\* A template nobody is writing is its own last revision, its history has no
\* gap and its generations grow, whatever forks, imports, rollbacks and
\* reinstallations ran into each other: unless two of them wrote that very
\* template at once, died writing it, or lost it to a prune.
THEOREM LatestIsAlwaysCurrent == Spec => []LatestIsCurrent
<1>1. TplInv => Tpl!LatestIsCurrent
  <2> SUFFICES ASSUME TplInv, NEW name \in TemplateNames \ tplDisturbed, Tpl!Quiet(name), Tpl!Exists(name)
               PROVE  LET last == Cardinality(Tpl!History(name)) IN
                      /\ Tpl!History(name) = 1..last
                      /\ tplYaml[name] = tplRevision[name][last]
                      /\ \A n \in 2..last : tplRevision[name][n - 1].gen < tplRevision[name][n].gen
    BY TplCounting DEF Tpl!LatestIsCurrent
  <2>1. PICK k \in Nat : TplSettled(name, k)
    BY DEF TplInv, TplUndisturbed
  <2>2. tplYaml[name] = tplRevision[name][k]
    BY <2>1, TplFacts, TplSettledIs DEF TplInv
  <2>3. Cardinality(1..k) = k
    <3>1. Cardinality(1..k) = IF 1 > k THEN 0 ELSE k - 1 + 1
      BY FS_Interval
    <3> QED BY <3>1
  <2>4. Tpl!History(name) = 1..k /\ TplRecorded(name, k)
    BY <2>1 DEF TplSettled, Tpl!History
  <2> QED BY <2>2, <2>3, <2>4 DEF TplRecorded
<1> QED BY <1>1, TplHolds, PTL DEF LatestIsCurrent

\* A revision once recorded is never written again, by anyone, until its
\* template is pruned: with the same exceptions.
THEOREM RevisionsAreAlwaysKept == Spec => RevisionsAreKept
<1> DEFINE Kept == \A name \in TemplateNames, n \in Tpl!Numbers :
             Tpl!Exists(name)' /\ name \notin tplDisturbed' /\ tplRevision[name][n] # None
               => tplRevision'[name][n] = tplRevision[name][n]
<1>1. ASSUME TplInv, Tpl!Next
      PROVE  Kept
  <2> SUFFICES ASSUME NEW name \in TemplateNames, NEW n \in Tpl!Numbers, Tpl!Exists(name)',
                      name \notin tplDisturbed', tplRevision[name][n] # None
               PROVE  tplRevision'[name][n] = tplRevision[name][n]
    OBVIOUS
  <2>1. TplTypes /\ TplWithinBounds
    BY <1>1 DEF TplInv
  <2>2. ASSUME NEW q \in Actors, Tpl!WriteRevision(q)
        PROVE  tplRevision'[name][n] = tplRevision[name][n]
    <3>1. tplOp[q].at = "revision" /\ tplOp[q].into \in TemplateNames /\ tplDisturbed' = tplDisturbed
      BY <2>1, <2>2 DEF Tpl!WriteRevision, TplTypes, TplOps
    <3>2. CASE name = tplOp[q].into
      <4>1. Tpl!Busy(q, name) /\ TplUndisturbed(name)
        BY <1>1, <3>1, <3>2 DEF TplInv, Tpl!Busy, Tpl!Writing
      <4>2. PICK k \in Nat : TplInOrder(tplOp[q], name, k)
        BY <4>1 DEF TplUndisturbed
      <4>3. tplRevision[name][k + 1] = None
            /\ tplRevision'[name][n] = IF n = k + 1 THEN tplOp[q].t ELSE tplRevision[name][n]
        BY <2>1, <2>2, <3>2, <4>2, TplFacts, TplRevisionIs
      <4> QED BY <4>3
    <3>3. CASE name # tplOp[q].into
      BY <2>1, <2>2, <3>3 DEF Tpl!WriteRevision, TplTypes
    <3> QED BY <3>2, <3>3
  <2>3. ASSUME NEW pruned \in TemplateNames, Tpl!Prune(pruned)
        PROVE  tplRevision'[name][n] = tplRevision[name][n]
    <3>1. pruned # name
      BY <2>1, <2>3, TplFacts, TplPruneIs DEF Tpl!Exists
    <3> QED BY <2>1, <2>3, <3>1, TplFacts, TplPruneIs
  <2>4. tplRevision' = tplRevision \/ (\E q \in Actors : Tpl!WriteRevision(q))
          \/ (\E pruned \in TemplateNames : Tpl!Prune(pruned))
    BY <1>1 DEF Tpl!Next, Tpl!Step, Tpl!Ask, Tpl!Install, Tpl!Fork, Tpl!Import, Tpl!Rollback,
       Tpl!SetDefault, Tpl!Refuse, Tpl!Clear, Tpl!Fill, Tpl!ReadHistory, Tpl!ClearIndex,
       Tpl!FillIndex, Tpl!Die, Tpl!files
  <2> QED BY <2>2, <2>3, <2>4
<1>2. TplInv /\ [Tpl!Next]_(Tpl!vars) => [Kept]_(Tpl!vars)
  BY <1>1
<1>3. Spec => [][TplInv /\ [Tpl!Next]_(Tpl!vars)]_(Tpl!vars)
  BY TplHolds, PTL
<1>4. Spec => [][Kept]_(Tpl!vars)
  BY <1>2, <1>3, PTL
<1> QED BY <1>4 DEF RevisionsAreKept, Tpl!RevisionsAreKept

-----------------------------------------------------------------------------
(* The templates implement TemplateHistory.                                 *)

\* The history and the writing of one name that nobody disturbed.
TplHistoryOf(revisions) == [n \in {m \in Tpl!Numbers : revisions[m] # None} |-> revisions[n]]
TplWrites(o, name) == o.at \in Tpl!Writing /\ o.into = name
TplStage(o) ==
  IF o.at \in {"index", "reindex"} THEN [is |-> "recorded"] ELSE [is |-> "begun", t |-> o.t]
TplWritingOf(ops, name) ==
  IF ~\E q \in Actors : TplWrites(ops[q], name) THEN [is |-> "nothing"]
  ELSE TplStage(ops[CHOOSE q \in Actors : TplWrites(ops[q], name)])

TplHistory(name) == IF name \in tplDisturbed THEN << >> ELSE TplHistoryOf(tplRevision[name])
TplWriting(name) == IF name \in tplDisturbed THEN Tpl!Promise!Nothing ELSE TplWritingOf(tplOp, name)

LEMMA TplHistoriesAre ==
  /\ Tpl!Histories = [name \in TemplateNames |-> TplHistory(name)]
  /\ Tpl!Histories' = [name \in TemplateNames |-> TplHistory(name)']
BY DEF Tpl!Histories, Tpl!OnDisk, TplHistoryOf, TplHistory

LEMMA TplWritingsAre ==
  /\ Tpl!Writings = [name \in TemplateNames |-> TplWriting(name)]
  /\ Tpl!Writings' = [name \in TemplateNames |-> TplWriting(name)']
<1>1. ASSUME NEW name \in TemplateNames PROVE Tpl!Writings[name] = TplWriting(name)
  BY DEF Tpl!Writings, Tpl!Writer, Tpl!Busy, TplWriting, TplWritingOf, TplWrites, TplStage, Tpl!Promise!Nothing
<1>2. ASSUME NEW name \in TemplateNames PROVE Tpl!Writings'[name] = TplWriting(name)'
  BY DEF Tpl!Writings, Tpl!Writer, Tpl!Busy, TplWriting, TplWritingOf, TplWrites, TplStage, Tpl!Promise!Nothing
<1>3. Tpl!Writings = [name \in TemplateNames |-> Tpl!Writings[name]]
      /\ Tpl!Writings' = [name \in TemplateNames |-> Tpl!Writings'[name]]
  BY DEF Tpl!Writings, Tpl!Writer, Tpl!Busy
<1> QED BY <1>1, <1>2, <1>3

\* Of a name nobody writes, and of one with one writer.
LEMMA TplNobodyWrites ==
  ASSUME NEW ops, NEW name, \A q \in Actors : ~TplWrites(ops[q], name)
  PROVE  TplWritingOf(ops, name) = Tpl!Promise!Nothing
BY DEF TplWritingOf, Tpl!Promise!Nothing

LEMMA TplOneWrites ==
  ASSUME NEW ops, NEW name, NEW q \in Actors, TplWrites(ops[q], name),
         \A p \in Actors : TplWrites(ops[p], name) => p = q
  PROVE  TplWritingOf(ops, name) = TplStage(ops[q])
<1> DEFINE writer == CHOOSE p \in Actors : TplWrites(ops[p], name)
<1>1. writer \in Actors /\ TplWrites(ops[writer], name)
  OBVIOUS
<1>2. writer = q
  BY <1>1
<1>3. TplWritingOf(ops, name) = TplStage(ops[writer])
  BY DEF TplWritingOf
<1> HIDE DEF writer
<1> QED BY <1>2, <1>3

\* What is recorded when the files are 1 to k.
TplFirst(name, k) == [n \in 1..k |-> tplRevision[name][n]]

LEMMA TplFirstIs ==
  ASSUME NEW name, NEW k \in Nat
  PROVE  /\ TplFirst(name, k) = << >> <=> k = 0
         /\ Len(TplFirst(name, k)) = k /\ DOMAIN TplFirst(name, k) = 1..k
         /\ k > 0 => Tpl!Promise!Last(TplFirst(name, k)) = tplRevision[name][k]
         /\ \A n \in 1..k : TplFirst(name, k)[n] = tplRevision[name][n]
BY DEF TplFirst, Tpl!Promise!Last

LEMMA TplHistoryFound ==
  ASSUME NEW name, NEW k \in Nat, TplRecorded(name, k)
  PROVE  TplHistoryOf(tplRevision[name]) = TplFirst(name, k)
<1>1. {m \in Tpl!Numbers : tplRevision[name][m] # None} = 1..k
  BY DEF TplRecorded, Tpl!Numbers
<1> QED BY <1>1 DEF TplHistoryOf, TplFirst

\* A name that a request neither changes the revisions of nor writes, or
\* writes at the same stage as before.
TplLeft(name) == TplHistory(name)' = TplHistory(name) /\ TplWriting(name)' = TplWriting(name)

LEMMA TplUntouched ==
  ASSUME TplTypes, NEW q \in Actors, NEW o, tplOp' = [tplOp EXCEPT ![q] = o],
         NEW name \in TemplateNames, name \in tplDisturbed' <=> name \in tplDisturbed,
         tplRevision'[name] = tplRevision[name],
         name \notin tplDisturbed => TplUndisturbed(name),
         TplWrites(o, name) <=> TplWrites(tplOp[q], name),
         TplWrites(o, name) => TplStage(o) = TplStage(tplOp[q])
  PROVE  TplLeft(name)
<1>1. tplOp'[q] = o /\ \A p \in Actors : p # q => tplOp'[p] = tplOp[p]
  BY DEF TplTypes
<1>2. \A p \in Actors : TplWrites(tplOp'[p], name) <=> TplWrites(tplOp[p], name)
  BY <1>1
<1>3. TplHistory(name)' = TplHistory(name)
  BY DEF TplHistory
<1>4. CASE name \in tplDisturbed
  BY <1>3, <1>4 DEF TplWriting, TplLeft
<1>5. CASE name \notin tplDisturbed /\ \A p \in Actors : ~TplWrites(tplOp[p], name)
  BY <1>2, <1>3, <1>5, TplNobodyWrites DEF TplWriting, TplLeft
<1>6. ASSUME name \notin tplDisturbed, NEW p \in Actors, TplWrites(tplOp[p], name)
      PROVE  TplLeft(name)
  <2>1. \A r \in Actors : TplWrites(tplOp[r], name) => r = p
    BY <1>6 DEF TplUndisturbed, Tpl!Busy, TplWrites
  <2>2. TplWritingOf(tplOp, name) = TplStage(tplOp[p])
    BY <1>6, <2>1, TplOneWrites
  <2>3. TplWritingOf(tplOp', name) = TplStage(tplOp'[p])
    BY <1>2, <1>6, <2>1, TplOneWrites
  <2>4. TplStage(tplOp'[p]) = TplStage(tplOp[p])
    BY <1>1, <1>2, <1>6
  <2> QED BY <1>3, <1>6, <2>2, <2>3, <2>4 DEF TplWriting, TplLeft
<1> QED BY <1>4, <1>5, <1>6

\* Where one name alone is touched, or none.
LEMMA TplOneIsTouched ==
  ASSUME NEW made \in TemplateNames, \A name \in TemplateNames \ {made} : TplLeft(name)
  PROVE  /\ Tpl!Histories[made] = TplHistory(made) /\ Tpl!Writings[made] = TplWriting(made)
         /\ Tpl!Histories' = [Tpl!Histories EXCEPT ![made] = TplHistory(made)']
         /\ Tpl!Writings' = [Tpl!Writings EXCEPT ![made] = TplWriting(made)']
         /\ TplHistory(made)' = TplHistory(made) => Tpl!Histories' = Tpl!Histories
         /\ TplWriting(made)' = TplWriting(made) => Tpl!Writings' = Tpl!Writings
BY TplHistoriesAre, TplWritingsAre DEF TplLeft

LEMMA TplNoneIsTouched ==
  ASSUME \A name \in TemplateNames : TplLeft(name), tplDisturbed' = tplDisturbed
  PROVE  UNCHANGED Tpl!Promise!historyVars
BY TplHistoriesAre, TplWritingsAre DEF Tpl!Promise!historyVars, TplLeft

\* What users see of a name nobody disturbed: with a writer, and without.
LEMMA TplWriterIs ==
  ASSUME TplInv, NEW name \in TemplateNames \ tplDisturbed, NEW q \in Actors, Tpl!Busy(q, name)
  PROVE  TplWriting(name) = TplStage(tplOp[q])
<1>1. \A p \in Actors : TplWrites(tplOp[p], name) => p = q
  BY DEF TplInv, TplUndisturbed, Tpl!Busy, TplWrites
<1>2. TplWrites(tplOp[q], name)
  BY Zenon DEF Tpl!Busy, TplWrites
<1> QED BY <1>1, <1>2, TplOneWrites DEF TplWriting

LEMMA TplQuietIs ==
  ASSUME TplInv, NEW name \in TemplateNames \ tplDisturbed, \A q \in Actors : ~Tpl!Busy(q, name)
  PROVE  /\ TplWriting(name) = Tpl!Promise!Nothing
         /\ \E k \in Nat : TplSettled(name, k) /\ TplHistory(name) = TplFirst(name, k)
<1>1. \A q \in Actors : ~TplWrites(tplOp[q], name)
  BY Zenon DEF Tpl!Busy, TplWrites
<1>2. PICK k \in Nat : TplSettled(name, k)
  BY DEF TplInv, TplUndisturbed, Tpl!Quiet
<1>3. TplHistory(name) = TplFirst(name, k)
  BY <1>2, TplHistoryFound DEF TplHistory, TplSettled
<1> QED BY <1>1, <1>2, <1>3, TplNobodyWrites DEF TplWriting

\* What Get returns is what a reader may find.
LEMMA TplGetIsCurrent ==
  ASSUME TplAssumptions, TplInv, NEW name \in TemplateNames, Tpl!Exists(name)
  PROVE  Tpl!Get(name) \in Tpl!Promise!Current(name)
<1> DEFINE t == Tpl!Get(name)
<1>1. TplTypes /\ TplWithinBounds
  BY DEF TplInv
<1>2. t \in Tpl!Promise!Anything
  <2>1. t \in Tpl!Templates
    BY <1>1, TplGetIs
  <2> HIDE DEF t
  <2>2. t \in [def : TemplateDefinitions \union {Tpl!Blank}, gen : Nat]
    BY <2>1, TplData DEF Tpl!Templates
  <2>3. Tpl!Promise!Blank.def = Tpl!Blank
    BY DEF Tpl!Promise!Blank, Tpl!Blank
  <2> QED BY <2>2, <2>3 DEF Tpl!Promise!Anything
<1>3. Tpl!Histories[name] = TplHistory(name) /\ Tpl!Writings[name] = TplWriting(name)
  BY TplHistoriesAre, TplWritingsAre
<1>4. ASSUME NEW k \in Nat, TplRecorded(name, k), k > 0, t = tplRevision[name][k], name \notin tplDisturbed
      PROVE  TplHistory(name) # << >> /\ t = Tpl!Promise!Last(TplHistory(name))
  BY <1>4, TplHistoryFound, TplFirstIs DEF TplHistory
<1>5. CASE name \in tplDisturbed
  BY <1>2, <1>5 DEF Tpl!Promise!Current
<1>6. CASE name \notin tplDisturbed /\ \A q \in Actors : ~Tpl!Busy(q, name)
  <2>1. PICK k \in Nat : TplSettled(name, k)
    BY <1>6, TplQuietIs
  <2>2. k > 0 /\ t = tplRevision[name][k]
    BY <1>1, <2>1, TplSettledIs, TplGetIs
  <2> HIDE DEF t
  <2>3. TplRecorded(name, k)
    BY <2>1 DEF TplSettled
  <2>4. TplHistory(name) # << >> /\ t = Tpl!Promise!Last(TplHistory(name))
    BY <1>4, <1>6, <2>2, <2>3
  <2>5. Tpl!Histories[name] # << >> /\ t = Tpl!Promise!Last(Tpl!Histories[name])
    BY <1>3, <2>4
  <2> QED BY <1>2, <2>5 DEF Tpl!Promise!Current, t
<1>7. ASSUME name \notin tplDisturbed, NEW q \in Actors, Tpl!Busy(q, name)
      PROVE  t \in Tpl!Promise!Current(name)
  <2>1. PICK k \in Nat : TplInOrder(tplOp[q], name, k)
    BY <1>7 DEF TplInv, TplUndisturbed
  <2>2. TplWriting(name) = TplStage(tplOp[q]) /\ tplOp[q].at \in Tpl!Writing
    BY <1>7, TplWriterIs DEF Tpl!Busy
  <2>3. CASE tplOp[q].at = "clear"
    <3>1. TplSettled(name, k)
      BY <2>1, <2>3 DEF TplInOrder
    <3>2. k > 0 /\ t = tplRevision[name][k]
      BY <1>1, <3>1, TplSettledIs, TplGetIs
    <3> HIDE DEF t
    <3> QED BY <1>2, <1>3, <1>4, <1>7, <3>1, <3>2 DEF Tpl!Promise!Current, TplSettled
  <2>4. CASE tplOp[q].at = "fill"
    <3>1. t = Tpl!Promise!Blank
      BY <2>1, <2>4 DEF TplInOrder, Tpl!Get, Tpl!Blank, Tpl!Promise!Blank
    <3>2. TplWriting(name).is = "begun"
      BY <2>2, <2>4 DEF TplStage
    <3> HIDE DEF t
    <3> QED BY <1>2, <1>3, <3>1, <3>2 DEF Tpl!Promise!Current
  <2>5. CASE tplOp[q].at \in {"history", "revision"}
    <3>1. tplYaml[name] = tplOp[q].t /\ tplOp[q].t \in Tpl!Templates
      BY <1>1, <2>1, <2>5 DEF TplInOrder, TplTypes, TplOps
    <3>2. t = tplOp[q].t
      BY <1>1, <3>1, TplGetIs, TplData
    <3>3. TplWriting(name).is = "begun" /\ TplWriting(name).t = tplOp[q].t
      BY <2>2, <2>5 DEF TplStage
    <3> HIDE DEF t
    <3> QED BY <1>2, <1>3, <3>2, <3>3 DEF Tpl!Promise!Current
  <2>6. CASE tplOp[q].at \in {"index", "reindex"}
    <3>1. tplYaml[name] = tplOp[q].t /\ tplOp[q].t \in Tpl!Templates
          /\ TplRecorded(name, k + 1) /\ tplRevision[name][k + 1] = tplOp[q].t
      BY <1>1, <2>1, <2>6 DEF TplInOrder, TplTypes, TplOps
    <3>2. t = tplRevision[name][k + 1]
      BY <1>1, <3>1, TplGetIs, TplData
    <3> HIDE DEF t
    <3> QED BY <1>2, <1>3, <1>4, <1>7, <3>1, <3>2 DEF Tpl!Promise!Current
  <2> QED BY <2>2, <2>3, <2>4, <2>5, <2>6 DEF Tpl!Writing
<1> QED BY <1>5, <1>6, <1>7

\* What breaks the promise for a name: it is being written, or has a history.
LEMMA TplBroken ==
  ASSUME NEW made \in TemplateNames, \A name \in TemplateNames \ {made} : TplLeft(name),
         tplDisturbed' = tplDisturbed \union {made},
         TplWriting(made) # Tpl!Promise!Nothing \/ TplHistory(made) # << >>
  PROVE  Tpl!Promise!HistoryNext
<1>1. TplHistory(made)' = << >> /\ TplWriting(made)' = Tpl!Promise!Nothing
  BY DEF TplHistory, TplWriting
<1>2. Tpl!Promise!Break(made)
  BY <1>1, TplOneIsTouched DEF Tpl!Promise!Break, Tpl!Promise!Put
<1> QED BY <1>2 DEF Tpl!Promise!HistoryNext

LEMMA TplBreaks ==
  ASSUME TplInv, NEW made \in TemplateNames \ tplDisturbed, NEW q \in Actors, Tpl!Busy(q, made),
         tplDisturbed' = tplDisturbed \union {made}, \A name \in TemplateNames \ {made} : TplLeft(name)
  PROVE  Tpl!Promise!HistoryNext
<1>1. TplWriting(made) # Tpl!Promise!Nothing
  BY TplWriterIs DEF TplStage, Tpl!Promise!Nothing
<1> QED BY <1>1, TplBroken

\* A template Create begins, if nobody else writes it and it was in order.
LEMMA TplCreateBegins ==
  ASSUME TplAssumptions, TplInv, NEW q \in Actors, NEW made \in TemplateNames, NEW t \in Tpl!Templates,
         Tpl!Create(q, made, t), tplOp[q].at \in {"install", "act"}, UNCHANGED Tpl!files,
         \A k \in Nat : /\ TplSettled(made, k) /\ Tpl!Histories[made] = TplFirst(made, k)
                       /\ Tpl!Writings'[made] = Tpl!Promise!Begun(t) /\ Tpl!Promise!Begin(made, t)
                       => Tpl!Promise!HistoryNext
  PROVE  [Tpl!Promise!HistoryNext]_(Tpl!Promise!historyVars)
<1>1. TplTypes /\ \A name \in TemplateNames \ tplDisturbed : TplUndisturbed(name)
  BY DEF TplInv
<1>2. PICK o \in TplOps : tplOp' = [tplOp EXCEPT ![q] = o] /\ o.at = "clear" /\ o.into = made /\ o.t = t
  BY <1>1, TplCreateIs
<1>3. /\ tplRevision' = tplRevision /\ "clear" \in Tpl!Writing
      /\ \A name \in TemplateNames : ~TplWrites(tplOp[q], name) /\ ~Tpl!Busy(q, name)
  BY DEF Tpl!files, TplWrites, Tpl!Busy, Tpl!Writing
<1>4. tplDisturbed' = tplDisturbed \union {n \in {made} : \E other \in Actors \ {q} : Tpl!Busy(other, n)}
  BY DEF Tpl!Create
<1>5. ASSUME NEW name \in TemplateNames \ {made} PROVE TplLeft(name)
  <2>1. ~TplWrites(o, name)
    BY <1>2 DEF TplWrites
  <2> QED BY <1>1, <1>2, <1>3, <1>4, <2>1, TplUntouched
<1>6. CASE made \in tplDisturbed
  <2>1. tplDisturbed' = tplDisturbed
    BY <1>4, <1>6
  <2>2. TplLeft(made)
    BY <1>3, <1>6, <2>1 DEF TplLeft, TplHistory, TplWriting
  <2> QED BY <1>5, <2>1, <2>2, TplNoneIsTouched
<1>7. ASSUME made \notin tplDisturbed, NEW p \in Actors, Tpl!Busy(p, made)
      PROVE  Tpl!Promise!HistoryNext
  <2>1. tplDisturbed' = tplDisturbed \union {made}
    BY <1>3, <1>4, <1>7
  <2> QED BY <1>5, <1>7, <2>1, TplBreaks
<1>8. CASE made \notin tplDisturbed /\ \A p \in Actors : ~Tpl!Busy(p, made)
  <2>1. tplDisturbed' = tplDisturbed
    BY <1>4, <1>8
  <2>2. PICK k \in Nat : TplSettled(made, k) /\ TplHistory(made) = TplFirst(made, k)
    BY <1>8, TplQuietIs
  <2>3. TplWriting(made) = Tpl!Promise!Nothing
    BY <1>8, TplQuietIs
  <2>4. tplOp'[q] = o /\ \A p \in Actors : TplWrites(tplOp'[p], made) <=> p = q
    BY <1>1, <1>2, <1>3, <1>8 DEF TplTypes, TplWrites, Tpl!Busy
  <2>5. TplWritingOf(tplOp', made) = TplStage(o)
    BY <2>4, TplOneWrites
  <2>6. TplWriting(made)' = Tpl!Promise!Begun(t)
    BY <1>2, <1>8, <2>1, <2>5 DEF TplWriting, TplStage, Tpl!Promise!Begun
  <2>7. TplHistory(made)' = TplHistory(made)
    BY <1>3, <2>1 DEF TplHistory
  <2>8. Tpl!Promise!Begin(made, t)
    BY <1>5, <1>8, <2>1, <2>3, <2>6, <2>7, TplOneIsTouched DEF Tpl!Promise!Begin, Tpl!Promise!Put
  <2>9. Tpl!Writings'[made] = Tpl!Promise!Begun(t)
    BY <2>6, TplWritingsAre
  <2> QED BY <1>5, <2>2, <2>8, <2>9, TplOneIsTouched
<1> QED BY <1>6, <1>7, <1>8

\* A template that was not there is made, of a built-in, a bundle or another.
LEMMA TplMakes ==
  ASSUME TplAssumptions, TplInv, NEW q \in Actors, NEW made \in TemplateNames, NEW t \in Tpl!Templates,
         Tpl!Create(q, made, t), tplOp[q].at \in {"install", "act"}, UNCHANGED Tpl!files, ~Tpl!Exists(made),
         \/ made = Builtin /\ t = [def |-> Builtin, gen |-> 0]
         \/ t \in [def : TemplateDefinitions \ Invalid, gen : {1}]
         \/ \E source \in TemplateNames \ {made} : Tpl!Promise!Parent(t) \in Tpl!Promise!Current(source)
  PROVE  [Tpl!Promise!HistoryNext]_(Tpl!Promise!historyVars)
<1>1. ASSUME NEW k \in Nat, TplSettled(made, k), Tpl!Histories[made] = TplFirst(made, k),
             Tpl!Writings'[made] = Tpl!Promise!Begun(t), Tpl!Promise!Begin(made, t)
      PROVE  Tpl!Promise!HistoryNext
  <2>1. k = 0
    BY <1>1, TplSettledIs DEF TplInv
  <2>2. Tpl!Histories[made] = << >>
    BY <1>1, <2>1, TplFirstIs
  <2>3. Tpl!Promise!Make(made, t)
    BY <1>1, <2>2 DEF Tpl!Promise!Make
  <2>4. Tpl!Writings'[made].is = "begun" /\ Tpl!Writings'[made].t = t
    BY <1>1 DEF Tpl!Promise!Begun
  <2> QED BY <2>3, <2>4 DEF Tpl!Promise!HistoryNext
<1> QED BY <1>1, TplCreateBegins

LEMMA TplInstallIsPromised ==
  ASSUME TplAssumptions, TplInv, NEW q \in Actors, Tpl!Install(q)
  PROVE  [Tpl!Promise!HistoryNext]_(Tpl!Promise!historyVars)
<1>1. /\ TplTypes /\ \A name \in TemplateNames \ tplDisturbed : TplUndisturbed(name)
      /\ tplOp[q].at = "install" /\ UNCHANGED Tpl!files /\ tplOp[q].at \notin Tpl!Writing
  BY DEF TplInv, Tpl!Install, Tpl!Writing
<1>2. CASE Tpl!Exists(Builtin)
  <2> DEFINE o == [tplOp[q] EXCEPT !.at = "act"]
  <2>1. tplOp' = [tplOp EXCEPT ![q] = o] /\ tplDisturbed' = tplDisturbed
    BY <1>1, <1>2 DEF Tpl!Install, Tpl!Goto, TplTypes
  <2>2. o.at = "act"
    BY <1>1 DEF TplTypes, TplOps
  <2> HIDE DEF o
  <2>3. ASSUME NEW name \in TemplateNames PROVE TplLeft(name)
    <3>1. ~TplWrites(o, name) /\ ~TplWrites(tplOp[q], name) /\ tplRevision'[name] = tplRevision[name]
      BY <1>1, <2>2 DEF TplWrites, Tpl!Writing, Tpl!files
    <3> QED BY <1>1, <2>1, <3>1, TplUntouched
  <2> QED BY <2>1, <2>3, TplNoneIsTouched
<1>3. CASE ~Tpl!Exists(Builtin)
  <2>1. Tpl!Create(q, Builtin, Tpl!BuiltinTemplate)
    BY <1>3 DEF Tpl!Install
  <2>2. Tpl!BuiltinTemplate = [def |-> Builtin, gen |-> 0]
    BY DEF Tpl!BuiltinTemplate
  <2> QED BY <1>1, <1>3, <2>1, <2>2, TplData, TplMakes
<1> QED BY <1>2, <1>3

\* A fork is a child of what its source may be found to be.
LEMMA TplForkIsPromised ==
  ASSUME TplAssumptions, TplInv, NEW q \in Actors, Tpl!Fork(q)
  PROVE  [Tpl!Promise!HistoryNext]_(Tpl!Promise!historyVars)
<1> DEFINE made == tplOp[q].name
           source == tplOp[q].arg
           old == Tpl!Get(source)
           t == Tpl!Child(old)
<1>1. TplTypes /\ TplWithinBounds
  BY DEF TplInv
<1>2. /\ tplOp[q].at = "act" /\ tplOp[q].op = "fork" /\ ~Tpl!Exists(made) /\ Tpl!Exists(source)
      /\ made \in TemplateNames /\ Tpl!Create(q, made, t) /\ UNCHANGED Tpl!files
  BY <1>1 DEF Tpl!Fork, Tpl!Acting, TplTypes, TplOps
<1>3. source \in TemplateNames \ {made}
  BY <1>1, <1>2 DEF TplWithinBounds, TplArgFits
<1>4. old \in Tpl!Templates /\ old.gen \in Nat /\ old.gen <= TplGenRoom
  BY <1>1, <1>2, <1>3, TplGetIs DEF Tpl!Templates
<1>5. old \in Tpl!Promise!Current(source)
  BY <1>2, <1>3, TplGetIsCurrent
<1> HIDE DEF old
<1>6. t \in Tpl!Templates
  BY <1>1, <1>2, <1>4, TplGenRoomIsLeft, TplChildIs, TplData
<1>7. Tpl!Promise!Parent(t) = old
  BY <1>4 DEF Tpl!Promise!Parent, Tpl!Child, Tpl!Templates
<1> HIDE DEF t, made, source
<1> QED BY <1>2, <1>3, <1>5, <1>6, <1>7, TplMakes

\* An import is what its one layer defines, which is valid.
LEMMA TplImportIsPromised ==
  ASSUME TplAssumptions, TplInv, NEW q \in Actors, Tpl!Import(q)
  PROVE  [Tpl!Promise!HistoryNext]_(Tpl!Promise!historyVars)
<1> DEFINE b == tplOp[q].arg
           made == tplOp[q].name
<1>1. TplTypes /\ TplWithinBounds
  BY DEF TplInv
<1>2. /\ tplOp[q].at = "act" /\ tplOp[q].op = "import" /\ ~Tpl!Exists(made) /\ b.layers \cap Invalid = {}
      /\ made \in TemplateNames /\ UNCHANGED Tpl!files
  BY <1>1 DEF Tpl!Import, Tpl!Acting, Tpl!Readable, TplTypes, TplOps
<1>3. PICK d \in b.layers : Tpl!Create(q, made, [def |-> d, gen |-> 1])
  BY DEF Tpl!Import
<1>4. b \in Bundles
  BY <1>1, <1>2 DEF TplWithinBounds, TplArgFits
<1>5. d \in TemplateDefinitions \ Invalid
  BY <1>2, <1>3, <1>4 DEF TplAssumptions, Tpl!TemplatesAssumption
<1>6. 1 <= 2 * MaxAsked /\ MaxAsked \in Nat
  <2>1. 0 <= TplGenRoom /\ TplGenRoom + 1 <= 2 * MaxAsked /\ TplGenRoom \in Int /\ MaxAsked \in Nat
    BY <1>1, <1>2, TplGenRoomIsLeft, TplData DEF TplWithinBounds
  <2> QED BY <2>1
<1> DEFINE t == [def |-> d, gen |-> 1]
<1>7. t \in Tpl!Templates /\ t \in [def : TemplateDefinitions \ Invalid, gen : {1}]
  BY <1>5, <1>6 DEF Tpl!Templates
<1> HIDE DEF t, made, b
<1> QED BY <1>2, <1>3, <1>7, TplMakes DEF t

\* A rollback restores a revision, one generation after the last.
LEMMA TplRollbackIsPromised ==
  ASSUME TplAssumptions, TplInv, NEW q \in Actors, Tpl!Rollback(q)
  PROVE  [Tpl!Promise!HistoryNext]_(Tpl!Promise!historyVars)
<1> DEFINE made == tplOp[q].name
           n == tplOp[q].arg
           old == Tpl!Get(made)
           d == tplRevision[made][n].def
           t == [Tpl!Child(old) EXCEPT !.def = d]
<1>1. TplTypes /\ TplWithinBounds
  BY DEF TplInv
<1>2. /\ tplOp[q].at = "act" /\ Tpl!Acting(q, "rollback") /\ Tpl!Restorable(made, n) /\ Tpl!Create(q, made, t)
      /\ made \in TemplateNames /\ UNCHANGED Tpl!files
      /\ Tpl!Exists(made) /\ tplRevision[made][n] # None
  BY <1>1 DEF Tpl!Rollback, Tpl!Acting, Tpl!Restorable, TplTypes, TplOps
<1>3. n \in Tpl!Numbers
  BY <1>1, <1>2 DEF TplWithinBounds, TplArgFits, Tpl!Acting
<1>4. t \in Tpl!Templates
  BY <1>1, <1>2, TplRestoredIs
<1>5. ASSUME NEW k \in Nat, TplSettled(made, k), Tpl!Histories[made] = TplFirst(made, k),
             Tpl!Promise!Begin(made, t)
      PROVE  Tpl!Promise!HistoryNext
  <2>1. k \in Tpl!Numbers /\ tplYaml[made] = tplRevision[made][k] /\ tplYaml[made] # Torn
    BY <1>1, <1>2, <1>5, TplSettledIs
  <2>2. old = tplRevision[made][k]
    BY <1>1, <1>2, <2>1, TplGetIs
  <2>3. n \in 1..k
    BY <1>2, <1>3, <1>5 DEF TplSettled, TplRecorded, Tpl!Numbers
  <2>4. k > 0
    BY <2>1 DEF Tpl!Numbers
  <2>5. /\ n \in DOMAIN Tpl!Histories[made] /\ Tpl!Histories[made][n] = tplRevision[made][n]
        /\ Tpl!Promise!Last(Tpl!Histories[made]) = old
    <3> HIDE DEF old
    <3> QED BY <1>5, <2>2, <2>3, <2>4, TplFirstIs
  <2>6. t = [def |-> d, gen |-> old.gen + 1]
    <3> HIDE DEF old, d
    <3> QED BY DEF Tpl!Child
  <2>7. t = [def |-> Tpl!Histories[made][n].def, gen |-> Tpl!Promise!Last(Tpl!Histories[made]).gen + 1]
    BY <2>5, <2>6
  <2> HIDE DEF t, made, n
  <2>8. Tpl!Promise!Restore(made, n)
    BY <1>5, <2>5, <2>7 DEF Tpl!Promise!Restore
  <2> QED BY <1>2, <2>5, <2>8 DEF Tpl!Promise!HistoryNext
<1> HIDE DEF t, made
<1> QED BY <1>2, <1>4, <1>5, TplCreateBegins

\* A request that writes on at the same stage is not seen.
LEMMA TplWritingOnIsPromised ==
  ASSUME TplAssumptions, TplInv, NEW q \in Actors,
         Tpl!Clear(q) \/ Tpl!Fill(q) \/ Tpl!ReadHistory(q) \/ Tpl!ClearIndex(q)
  PROVE  UNCHANGED Tpl!Promise!historyVars
<1>1. /\ TplTypes /\ TplWithinBounds /\ \A name \in TemplateNames \ tplDisturbed : TplUndisturbed(name)
      /\ tplRevision' = tplRevision /\ tplDisturbed' = tplDisturbed
  BY DEF TplInv, Tpl!Clear, Tpl!Fill, Tpl!ReadHistory, Tpl!ClearIndex, Tpl!files
<1>2. PICK o \in TplOps :
        /\ tplOp' = [tplOp EXCEPT ![q] = o] /\ o.at \in Tpl!Writing
        /\ o.into = tplOp[q].into /\ o.t = tplOp[q].t
        /\ Tpl!Clear(q) => o.at = "fill"
        /\ Tpl!Fill(q) => o.at = "history"
        /\ Tpl!ReadHistory(q) => o.at = "revision"
        /\ Tpl!ClearIndex(q) => o.at = "reindex"
  BY <1>1, TplStepTo
<1>3. tplOp[q].at \in Tpl!Writing /\ TplStage(o) = TplStage(tplOp[q])
  BY <1>2 DEF TplStage, Tpl!Writing, Tpl!Clear, Tpl!Fill, Tpl!ReadHistory, Tpl!ClearIndex
<1>4. ASSUME NEW name \in TemplateNames PROVE TplLeft(name)
  <2>1. TplWrites(o, name) <=> TplWrites(tplOp[q], name)
    BY <1>2, <1>3 DEF TplWrites
  <2> QED BY <1>1, <1>2, <1>3, <2>1, TplUntouched
<1> QED BY <1>1, <1>4, TplNoneIsTouched

\* The file of a revision records it.
LEMMA TplWriteRevisionIsPromised ==
  ASSUME TplAssumptions, TplInv, NEW q \in Actors, Tpl!WriteRevision(q)
  PROVE  [Tpl!Promise!HistoryNext]_(Tpl!Promise!historyVars)
<1> DEFINE t == tplOp[q].t
<1>0. PICK into \in TemplateNames : into = tplOp[q].into
  BY DEF TplInv, TplTypes, TplOps
<1>1. /\ TplTypes /\ TplWithinBounds /\ \A name \in TemplateNames \ tplDisturbed : TplUndisturbed(name)
      /\ tplOp[q].at = "revision" /\ tplDisturbed' = tplDisturbed /\ tplOp[q].into = into
      /\ tplOp[q].at \in Tpl!Writing
  BY <1>0 DEF TplInv, Tpl!WriteRevision, Tpl!Writing
<1>2. PICK o \in TplOps : /\ tplOp' = [tplOp EXCEPT ![q] = o] /\ o.at \in Tpl!Writing
                          /\ o.into = into /\ o.at = "index"
  BY <1>1, TplStepTo
<1>3. ASSUME NEW name \in TemplateNames \ {into} PROVE TplLeft(name)
  <2>1. ~TplWrites(o, name) /\ ~TplWrites(tplOp[q], name)
    BY <1>0, <1>2 DEF TplWrites
  <2>2. tplRevision'[name] = tplRevision[name]
    BY <1>0, <1>1 DEF Tpl!WriteRevision, TplTypes
  <2> QED BY <1>1, <1>2, <2>1, <2>2, TplUntouched
<1>4. CASE into \in tplDisturbed
  <2>1. TplLeft(into)
    BY <1>1, <1>4 DEF TplLeft, TplHistory, TplWriting
  <2> QED BY <1>1, <1>3, <2>1, TplNoneIsTouched
<1>5. CASE into \notin tplDisturbed
  <2>1. Tpl!Busy(q, into) /\ TplUndisturbed(into)
    BY <1>1, <1>5 DEF Tpl!Busy
  <2>2. PICK k \in Nat : TplInOrder(tplOp[q], into, k)
    BY <2>1 DEF TplUndisturbed
  <2>3. TplRecorded(into, k) /\ t # None
    BY <1>1, <2>2, TplData DEF TplInOrder, TplTypes, TplOps
  <2>4. TplHistory(into) = TplFirst(into, k)
    BY <1>5, <2>3, TplHistoryFound DEF TplHistory
  <2>5. TplHistory(into)' = [n \in 1..(k + 1) |-> IF n = k + 1 THEN t ELSE tplRevision[into][n]]
    <3> DEFINE is == tplRevision'[into]
    <3>1. /\ k + 1 \in Tpl!Numbers
          /\ \A n \in Tpl!Numbers : is[n] = IF n = k + 1 THEN t ELSE tplRevision[into][n]
      BY <1>1, <2>2, TplRevisionIs
    <3>2. TplHistory(into)' = [n \in {m \in Tpl!Numbers : is[m] # None} |-> is[n]]
      BY <1>1, <1>5 DEF TplHistory, TplHistoryOf
    <3> HIDE DEF is, t
    <3>3. {m \in Tpl!Numbers : is[m] # None} = 1..(k + 1)
      BY <2>3, <3>1 DEF TplRecorded, Tpl!Numbers
    <3>4. \A n \in 1..(k + 1) : n \in Tpl!Numbers
      BY <2>3, <3>1 DEF TplRecorded
    <3> QED BY <3>1, <3>2, <3>3, <3>4
  <2>6. TplHistory(into)' = Append(TplHistory(into), t)
    <3>1. Append([n \in 1..k |-> tplRevision[into][n]], t) =
            [n \in 1..(k + 1) |-> IF n = k + 1 THEN t ELSE tplRevision[into][n]]
      <4> HIDE DEF t
      <4> QED OBVIOUS
    <3> QED BY <2>4, <2>5, <3>1 DEF TplFirst
  <2>7. TplWriting(into) = [is |-> "begun", t |-> t]
    BY <1>1, <1>5, <2>1, TplWriterIs DEF TplStage
  <2>8. TplWriting(into)' = Tpl!Promise!Recorded
    <3>1. tplOp'[q] = o /\ \A p \in Actors : TplWrites(tplOp'[p], into) <=> p = q
      BY <1>1, <1>2, <2>1 DEF TplTypes, TplWrites, TplUndisturbed, Tpl!Busy
    <3>2. TplWritingOf(tplOp', into) = TplStage(o)
      BY <3>1, TplOneWrites
    <3> QED BY <1>1, <1>2, <1>5, <3>2 DEF TplWriting, TplStage, Tpl!Promise!Recorded
  <2>9. Tpl!Promise!Record(into)
    <3> HIDE DEF t
    <3>1. Tpl!Writings[into].is = "begun" /\ Tpl!Writings[into].t = t /\ Tpl!Histories[into] = TplHistory(into)
      BY <1>1, <2>7, TplHistoriesAre, TplWritingsAre
    <3> QED BY <1>1, <1>3, <2>6, <2>8, <3>1, TplOneIsTouched DEF Tpl!Promise!Record, Tpl!Promise!Put
  <2> QED BY <1>1, <2>9 DEF Tpl!Promise!HistoryNext
<1> QED BY <1>4, <1>5

\* Where its index lists the revision, a template is written.
LEMMA TplFillIndexIsPromised ==
  ASSUME TplAssumptions, TplInv, NEW q \in Actors, Tpl!FillIndex(q)
  PROVE  [Tpl!Promise!HistoryNext]_(Tpl!Promise!historyVars)
<1>0. PICK into \in TemplateNames : into = tplOp[q].into
  BY DEF TplInv, TplTypes, TplOps
<1>1. /\ TplTypes /\ TplWithinBounds /\ \A name \in TemplateNames \ tplDisturbed : TplUndisturbed(name)
      /\ tplOp[q].at = "reindex" /\ tplDisturbed' = tplDisturbed /\ tplOp[q].into = into
      /\ tplOp[q].at \in Tpl!Writing /\ tplRevision' = tplRevision
  BY <1>0 DEF TplInv, Tpl!FillIndex, Tpl!Writing
<1>2. PICK o : tplOp' = [tplOp EXCEPT ![q] = o] /\ o.at \notin Tpl!Writing
  <2>1. CASE into = Builtin /\ tplOp[q].t = Tpl!BuiltinTemplate
    <3> DEFINE o == [tplOp[q] EXCEPT !.at = "act", !.seen = {}]
    <3>1. tplOp' = [tplOp EXCEPT ![q] = o]
      BY <1>0, <1>1, <2>1 DEF Tpl!FillIndex, TplTypes
    <3>2. o.at \notin Tpl!Writing
      BY <1>1 DEF TplTypes, TplOps, Tpl!Writing
    <3> HIDE DEF o
    <3> QED BY <3>1, <3>2
  <2>2. CASE ~(into = Builtin /\ tplOp[q].t = Tpl!BuiltinTemplate)
    BY <1>0, <2>2, TplData DEF Tpl!FillIndex, Tpl!Reply, Tpl!Writing
  <2> QED BY <2>1, <2>2
<1>3. \A name \in TemplateNames : ~TplWrites(o, name)
  BY <1>2 DEF TplWrites
<1>4. ASSUME NEW name \in TemplateNames \ {into} PROVE TplLeft(name)
  <2>1. ~TplWrites(tplOp[q], name)
    BY <1>0 DEF TplWrites
  <2> QED BY <1>1, <1>2, <1>3, <2>1, TplUntouched
<1>5. CASE into \in tplDisturbed
  <2>1. TplLeft(into)
    BY <1>1, <1>5 DEF TplLeft, TplHistory, TplWriting
  <2> QED BY <1>1, <1>4, <2>1, TplNoneIsTouched
<1>6. CASE into \notin tplDisturbed
  <2>1. Tpl!Busy(q, into) /\ TplUndisturbed(into)
    BY <1>1, <1>6 DEF Tpl!Busy
  <2>2. TplWriting(into) = Tpl!Promise!Recorded /\ TplHistory(into)' = TplHistory(into)
    BY <1>1, <1>6, <2>1, TplWriterIs DEF TplStage, TplHistory, Tpl!Promise!Recorded
  <2>3. TplWriting(into)' = Tpl!Promise!Nothing
    <3>1. tplOp'[q] = o /\ \A p \in Actors : ~TplWrites(tplOp'[p], into)
      BY <1>1, <1>2, <1>3, <2>1 DEF TplTypes, TplWrites, TplUndisturbed, Tpl!Busy
    <3> QED BY <1>1, <1>6, <3>1, TplNobodyWrites DEF TplWriting
  <2>4. Tpl!Promise!End(into)
    BY <1>1, <1>4, <2>2, <2>3, TplOneIsTouched DEF Tpl!Promise!End, Tpl!Promise!Put
  <2> QED BY <1>1, <2>4 DEF Tpl!Promise!HistoryNext
<1> QED BY <1>5, <1>6

\* A request that begins, is answered, or dies where it does not write.
LEMMA TplBystanderIsPromised ==
  ASSUME TplInv, NEW q \in Actors, NEW o, tplOp' = [tplOp EXCEPT ![q] = o],
         o.at \notin Tpl!Writing, tplOp[q].at \notin Tpl!Writing,
         tplRevision' = tplRevision, tplDisturbed' = tplDisturbed
  PROVE  UNCHANGED Tpl!Promise!historyVars
<1>1. TplTypes /\ \A name \in TemplateNames \ tplDisturbed : TplUndisturbed(name)
  BY DEF TplInv
<1>2. ASSUME NEW name \in TemplateNames PROVE TplLeft(name)
  <2>1. ~TplWrites(o, name) /\ ~TplWrites(tplOp[q], name)
    BY DEF TplWrites
  <2> QED BY <1>1, <2>1, TplUntouched
<1> QED BY <1>2, TplNoneIsTouched

\* The death of a writer ends the promise.
LEMMA TplDieIsPromised ==
  ASSUME TplAssumptions, TplInv, NEW q \in Actors, Tpl!Die(q)
  PROVE  [Tpl!Promise!HistoryNext]_(Tpl!Promise!historyVars)
<1>1. PICK into \in TemplateNames : into = tplOp[q].into
  BY DEF TplInv, TplTypes, TplOps
<1>2. /\ TplTypes /\ \A name \in TemplateNames \ tplDisturbed : TplUndisturbed(name)
      /\ tplOp' = [tplOp EXCEPT ![q] = Tpl!Idle] /\ tplRevision' = tplRevision
      /\ tplDisturbed' = tplDisturbed \union {n \in TemplateNames : Tpl!Busy(q, n)}
  BY DEF TplInv, Tpl!Die, Tpl!Reply, Tpl!files
<1>3. Tpl!Idle.at \notin Tpl!Writing
  BY TplData DEF Tpl!Writing
<1>4. CASE tplOp[q].at \notin Tpl!Writing
  <2>1. tplDisturbed' = tplDisturbed
    BY <1>2, <1>4 DEF Tpl!Busy
  <2> QED BY <1>2, <1>3, <1>4, <2>1, TplBystanderIsPromised
<1>5. CASE tplOp[q].at \in Tpl!Writing
  <2>1. tplDisturbed' = tplDisturbed \union {into}
    BY <1>1, <1>2, <1>5 DEF Tpl!Busy
  <2>2. ASSUME NEW name \in TemplateNames \ {into} PROVE TplLeft(name)
    <3>1. ~TplWrites(Tpl!Idle, name) /\ ~TplWrites(tplOp[q], name)
      BY <1>1, <1>3 DEF TplWrites
    <3> QED BY <1>2, <2>1, <3>1, TplUntouched
  <2>3. CASE into \in tplDisturbed
    <3>1. tplDisturbed' = tplDisturbed
      BY <2>1, <2>3
    <3>2. TplLeft(into)
      BY <2>3, <3>1 DEF TplLeft, TplHistory, TplWriting
    <3> QED BY <2>2, <3>1, <3>2, TplNoneIsTouched
  <2>4. CASE into \notin tplDisturbed
    <3>1. Tpl!Busy(q, into)
      BY <1>1, <1>5 DEF Tpl!Busy
    <3> QED BY <2>1, <2>2, <2>4, <3>1, TplBreaks
  <2> QED BY <2>3, <2>4
<1> QED BY <1>4, <1>5

\* A prune takes the whole history, or ends the promise: under a writer, or
\* where it leaves something.
LEMMA TplPruneIsPromised ==
  ASSUME TplAssumptions, TplInv, NEW pruned \in TemplateNames, Tpl!Prune(pruned)
  PROVE  [Tpl!Promise!HistoryNext]_(Tpl!Promise!historyVars)
<1>1. /\ TplTypes /\ tplOp' = tplOp
      /\ \A m \in TemplateNames \ {pruned} : tplRevision'[m] = tplRevision[m]
      /\ tplDisturbed \subseteq tplDisturbed' /\ tplDisturbed' \subseteq tplDisturbed \union {pruned}
      /\ pruned \notin tplDisturbed' => /\ \A n \in Tpl!Numbers : tplRevision'[pruned][n] = None
                                       /\ \A q \in Actors : ~Tpl!Busy(q, pruned)
  BY TplPruneIs DEF TplInv
<1>2. ASSUME NEW name \in TemplateNames \ {pruned} PROVE TplLeft(name)
  <2>1. tplRevision'[name] = tplRevision[name]
    BY <1>1
  <2>2. name \in tplDisturbed' <=> name \in tplDisturbed
    BY <1>1
  <2> QED BY <1>1, <2>1, <2>2 DEF TplLeft, TplHistory, TplWriting
<1>3. CASE pruned \in tplDisturbed
  <2>1. tplDisturbed' = tplDisturbed
    BY <1>1, <1>3
  <2>2. TplLeft(pruned)
    BY <1>3, <2>1 DEF TplLeft, TplHistory, TplWriting
  <2> QED BY <1>2, <2>1, <2>2, TplNoneIsTouched
<1>4. ASSUME pruned \notin tplDisturbed, NEW q \in Actors, Tpl!Busy(q, pruned)
      PROVE  Tpl!Promise!HistoryNext
  <2>1. tplDisturbed' = tplDisturbed \union {pruned}
    BY <1>1, <1>4
  <2> QED BY <1>2, <1>4, <2>1, TplBreaks
<1>5. CASE pruned \notin tplDisturbed /\ pruned \in tplDisturbed' /\ \A q \in Actors : ~Tpl!Busy(q, pruned)
  <2>1. tplDisturbed' = tplDisturbed \union {pruned}
    BY <1>1, <1>5
  <2>2. PICK k \in Nat : TplSettled(pruned, k) /\ TplHistory(pruned) = TplFirst(pruned, k)
    BY <1>5, TplQuietIs
  <2>3. tplYaml[pruned] # None \/ Tpl!OnDisk(pruned) # {} \/ tplIndex[pruned] # {}
    BY Zenon DEF Tpl!Prune, Tpl!Exists
  <2>4. k # 0
    <3>1. k = 0 => tplYaml[pruned] = None /\ Tpl!OnDisk(pruned) = {} /\ tplIndex[pruned] = {}
      BY <2>2 DEF TplSettled, TplRecorded, Tpl!OnDisk, Tpl!Numbers
    <3> QED BY <2>3, <3>1
  <2>5. TplHistory(pruned) # << >>
    BY <2>2, <2>4, TplFirstIs
  <2> QED BY <1>2, <2>1, <2>5, TplBroken
<1>6. CASE pruned \notin tplDisturbed' /\ \A q \in Actors : ~Tpl!Busy(q, pruned)
  <2>1. tplDisturbed' = tplDisturbed
    BY <1>1, <1>6
  <2>2. TplWriting(pruned) = Tpl!Promise!Nothing /\ TplWriting(pruned)' = TplWriting(pruned)
    BY <1>1, <1>6, <2>1, TplQuietIs DEF TplWriting
  <2>3. TplHistory(pruned)' = << >>
    <3> DEFINE is == tplRevision'[pruned]
    <3>1. \A n \in Tpl!Numbers : is[n] = None
      BY <1>1, <1>6
    <3>2. TplHistory(pruned)' = [n \in {m \in Tpl!Numbers : is[m] # None} |-> is[n]]
      BY <1>6 DEF TplHistory, TplHistoryOf
    <3> HIDE DEF is
    <3>3. {m \in Tpl!Numbers : is[m] # None} = {}
      BY <3>1
    <3> QED BY <3>2, <3>3
  <2>4. Tpl!Promise!Prune(pruned)
    BY <1>2, <2>1, <2>2, <2>3, TplOneIsTouched DEF Tpl!Promise!Prune
  <2> QED BY <2>4 DEF Tpl!Promise!HistoryNext
<1> QED BY <1>1, <1>3, <1>4, <1>5, <1>6

LEMMA TplStepsImplement ==
  ASSUME TplAssumptions, TplInv, [Tpl!Next]_(Tpl!vars)
  PROVE  [Tpl!Promise!HistoryNext]_(Tpl!Promise!historyVars)
<1>1. CASE UNCHANGED Tpl!vars
  <2>1. tplOp' = tplOp /\ tplRevision' = tplRevision /\ tplDisturbed' = tplDisturbed
    BY <1>1 DEF Tpl!vars, Tpl!files
  <2>2. ASSUME NEW name \in TemplateNames PROVE TplLeft(name)
    BY <2>1 DEF TplLeft, TplHistory, TplWriting
  <2> QED BY <2>1, <2>2, TplNoneIsTouched
<1>2. ASSUME NEW q \in Actors, NEW kind, NEW name, NEW arg, Tpl!Ask(q, kind, name, arg)
      PROVE  UNCHANGED Tpl!Promise!historyVars
  <2> DEFINE o == [Tpl!Idle EXCEPT !.at = "install", !.op = kind, !.name = name, !.arg = arg]
  <2>1. /\ tplOp' = [tplOp EXCEPT ![q] = o] /\ tplOp[q] = Tpl!Idle
        /\ tplRevision' = tplRevision /\ tplDisturbed' = tplDisturbed
    BY <1>2 DEF Tpl!Ask, Tpl!files
  <2>2. o.at \notin Tpl!Writing /\ Tpl!Idle.at \notin Tpl!Writing
    BY DEF Tpl!Idle, Tpl!Writing
  <2> HIDE DEF o
  <2> QED BY <2>1, <2>2, TplBystanderIsPromised
<1>3. ASSUME NEW q \in Actors, Tpl!SetDefault(q) \/ Tpl!Refuse(q)
      PROVE  UNCHANGED Tpl!Promise!historyVars
  <2>1. /\ tplOp' = [tplOp EXCEPT ![q] = Tpl!Idle] /\ tplOp[q].at \notin Tpl!Writing
        /\ tplRevision' = tplRevision /\ tplDisturbed' = tplDisturbed
    BY <1>3 DEF Tpl!SetDefault, Tpl!Refuse, Tpl!Reply, Tpl!Acting, Tpl!Writing, Tpl!files
  <2>2. Tpl!Idle.at \notin Tpl!Writing
    BY DEF Tpl!Idle, Tpl!Writing
  <2> QED BY <2>1, <2>2, TplBystanderIsPromised
<1>4. CASE Tpl!Next
  <2>1. ASSUME NEW q \in Actors, Tpl!Step(q)
        PROVE  [Tpl!Promise!HistoryNext]_(Tpl!Promise!historyVars)
    BY <1>3, <2>1, TplInstallIsPromised, TplForkIsPromised, TplImportIsPromised, TplRollbackIsPromised,
       TplWritingOnIsPromised, TplWriteRevisionIsPromised, TplFillIndexIsPromised, TplDieIsPromised DEF Tpl!Step
  <2> QED BY <1>2, <1>4, <2>1, TplPruneIsPromised DEF Tpl!Next
<1> QED BY <1>1, <1>4

\* The files of the library, written by requests and commands between each
\* other, make append-only histories: a template begins as a built-in, a
\* valid import or a child of what its source was found to be, and a rollback
\* restores one of its own revisions as a new one.  Only writers of one and
\* the same template that overlap, die or are pruned are not promised that.
THEOREM HistoryImplemented == Spec => Tpl!ImplementsHistory /\ ImplementsHistory
<1>1. Tpl!Init => Tpl!Promise!HistoryInit
  <2> SUFFICES ASSUME Tpl!Init PROVE Tpl!Promise!HistoryInit
    OBVIOUS
  <2>1. tplDisturbed = {} /\ tplRevision = [n \in TemplateNames |-> Tpl!NoRevisions] /\ tplOp = [q \in Actors |-> Tpl!Idle]
    BY DEF Tpl!Init
  <2>2. ASSUME NEW name \in TemplateNames
        PROVE  TplHistory(name) = << >> /\ TplWriting(name) = Tpl!Promise!Nothing
    <3>1. {m \in Tpl!Numbers : tplRevision[name][m] # None} = {}
      BY <2>1 DEF Tpl!NoRevisions
    <3>2. TplHistoryOf(tplRevision[name]) = << >>
      BY <3>1 DEF TplHistoryOf
    <3>3. \A q \in Actors : ~TplWrites(tplOp[q], name)
      <4>1. Tpl!Idle.at \notin Tpl!Writing
        BY DEF Tpl!Idle, Tpl!Writing
      <4>2. \A q \in Actors : tplOp[q] = Tpl!Idle
        BY <2>1, Zenon
      <4> QED BY <4>1, <4>2, Zenon DEF TplWrites
    <3> QED BY <2>1, <3>2, <3>3, TplNobodyWrites DEF TplHistory, TplWriting
  <2> QED BY <2>1, <2>2, TplHistoriesAre, TplWritingsAre DEF Tpl!Promise!HistoryInit
<1>2. TplInv /\ [Tpl!Next]_(Tpl!vars) => [Tpl!Promise!HistoryNext]_(Tpl!Promise!historyVars)
  BY TplFacts, TplStepsImplement
<1>3. Spec => Tpl!Init
  BY TplIsAPart DEF Tpl!Spec
<1>4. [Tpl!Promise!HistoryNext]_(Tpl!Promise!historyVars)
        => [part = "templates" => Tpl!Promise!HistoryNext]_(Tpl!Promise!historyVars)
  OBVIOUS
<1> QED BY <1>1, <1>2, <1>3, <1>4, TplHolds, PTL DEF ImplementsHistory, Tpl!ImplementsHistory, Tpl!Promise!HistorySpec

-----------------------------------------------------------------------------
(* All parts.                                                               *)

\* Every variable of the part that moves keeps its type, for any number of
\* requests, clients, files, crashes and whatever else the parts are bounded by.
THEOREM PartsKeepTheirTypes == Spec => []TypeOK
<1>1. Init => part \in Parts
  BY DEF Init
<1>2. part \in Parts /\ [Next]_vars => (part \in Parts)'
  BY DEF Next, vars
<1>3. Spec => [](part \in Parts)
  BY <1>1, <1>2, PTL DEF Spec
<1>4. /\ CtxIInv => Ctx!TypeOK
      /\ LogInv => Log!TypeOK
      /\ WsIInv => Ws!TypeOK
      /\ GcIInv => Gc!TypeOK
      /\ ShInv => Sh!TypeOK
  BY DEF CtxIInv, LogInv, WsIInv, GcIInv, ShInv
<1>5. Spec => /\ []Ctx!TypeOK /\ []Log!TypeOK /\ []Ws!TypeOK /\ []Gc!TypeOK
              /\ []Sh!TypeOK
  BY <1>4, CtxHolds, LogHolds, WsHolds, GcAlways, ShHolds, PTL
<1>6. EgAssumptions /\ TplAssumptions /\ Cl!ClientsAssumption
  BY PartsAssumption DEF PartsAssumption, EgAssumptions, TplAssumptions
<1>7. Spec => []Eg!TypeOK /\ []Tpl!TypeOK /\ []Cl!TypeOK
  BY <1>6, EgIsAPart, TplIsAPart, ClIsAPart, EgKeepsTypes, TplKeepsTypes, ClKeepsTypes, PTL
<1>8. /\ part \in Parts /\ Ctx!TypeOK /\ Log!TypeOK /\ Tpl!TypeOK /\ Eg!TypeOK
      /\ Ws!TypeOK /\ Gc!TypeOK /\ Cl!TypeOK /\ Sh!TypeOK
      => TypeOK
  BY DEF TypeOK, Parts
<1> QED BY <1>3, <1>5, <1>7, <1>8, PTL
===============================================================================
