--------------------------- MODULE GuestShellProofs ---------------------------
(****************************************************************************)
(* Proofs about two parts of Parts: GuestControl, for every set of callers, *)
(* paths and contents and any number of boots and calls; and ShellSession,  *)
(* for every pipe size and any amount of input and output. Names of a       *)
(* part's proof begin with Gc or with Sh.                                   *)
(*                                                                          *)
(* The argument for the guest: a frame is truthful wherever it is, on the   *)
(* wire, taken by another or in the hands of a reader that has only its     *)
(* head: an event has come from a guest that was ready, and an answer that  *)
(* names a path carries what the path has held, or was put together from    *)
(* two frames. A file on the host that was opened once has one export at    *)
(* work on it (GcExports), and stays empty until that one writes it.        *)
(*                                                                          *)
(* The argument for the shell session: a chunk is in the kernel's pipe, in  *)
(* the hands of one of the two goroutines or sent (ShNoChunkIsLost), and    *)
(* the goroutines end in the order in which they hand chunks on             *)
(* (ShEndsInOrder).                                                         *)
(****************************************************************************)
EXTENDS Parts, SequenceTheorems, TLAPS

-----------------------------------------------------------------------------
(* The guest.                                                              *)

GcAsked == [kind : Gc!Kinds, path : GuestPaths, content : Gc!File]
GcCallRecords ==
  [at : {"idle", "lock", "sent", "collect", "next", "open", "fill", "done"}, kind : Gc!Kinds,
   path : GuestPaths, content : Gc!File \union {Gc!Spliced}, got : Gc!Frames,
   todo : SUBSET GuestPaths, written : SUBSET GuestPaths]

\* What the path has held, or what was put together from two frames.
GcHas(p) == gcEver[p] \union {Gc!Spliced}

\* An answer that names a path carries what the path has.
GcHolds(f) ==
  f.type = "response" /\ ~f.error /\ f.path # Gc!Nobody => f.content \in GcHas(f.path)
GcHeardOf == gcGuest \in {"ready", "gone"}
GcTruthful == {f \in Gc!Frames : GcHolds(f) /\ (f.type = "event" => GcHeardOf)}

GcComplete(q) == q.content \in Gc!File /\ (q.kind = "write" => q.content \in GuestContents)

\* What a caller has in hand: a write has its content, and a file that was
\* read or pulled is what its path has held.
GcInHand(q) ==
  /\ q.at \in {"lock", "sent", "collect"} => GcComplete(q)
  /\ (q.at = "done" /\ q.kind = "read") \/ q.at \in {"open", "fill"} => q.content \in GcHas(q.path)
  /\ GcHolds(q.got)

\* What may be found on the host of an artifact.
GcOnHost(p) ==
  \/ gcExported[Base[p]] = Gc!Spliced
  \/ \E q \in GuestPaths : Base[q] = Base[p] /\ gcExported[Base[p]] \in gcEver[q]

GcFills(c, n) == gcCall[c].at = "fill" /\ Base[gcCall[c].path] = n
GcWrote(c, n) == \E p \in gcCall[c].written : Base[p] = n

\* A name that was not opened again: one export has to do with it, which is
\* to write it or has written it.
GcExports ==
  \A c \in Actors, n \in Gc!Names : n \notin gcAgain =>
    /\ GcFills(c, n) => gcExported[n] = Gc!Emptied /\ ~GcWrote(c, n)
    /\ \A p \in gcCall[c].written : Base[p] = n => GcOnHost(p)
    /\ GcFills(c, n) \/ GcWrote(c, n) =>
         \A d \in Actors : GcFills(d, n) \/ GcWrote(d, n) => d = c

GcIInv ==
  /\ Gc!TypeOK
  /\ \A p \in GuestPaths : gcFiles[p] # Gc!Absent => gcFiles[p] \in gcEver[p]
  /\ gcRequests \in Seq({q \in GcAsked : GcComplete(q)})
  /\ gcWire \in Seq(GcTruthful)
  /\ gcStarter = "heard" => GcHeardOf
  /\ \A c \in Actors : GcInHand(gcCall[c])
  /\ GcExports

-----------------------------------------------------------------------------
(* Sequences and records.                                                   *)

LEMMA GcSeqLater ==
  ASSUME NEW S, NEW s \in Seq(S), NEW n \in Nat
  PROVE  SubSeq(s, n + 1, Len(s)) \in Seq(S)
OBVIOUS

LEMMA GcNoFrameIsFrame ==
  /\ Gc!NoFrame \in Gc!Frames /\ Gc!NoFrame.path = Gc!Nobody /\ Gc!NoFrame.type = "response"
  /\ Gc!NoFrame.part = "whole"
BY DEF Gc!NoFrame, Gc!Frames, Gc!File

LEMMA GcNothingHeld == GcHolds(Gc!NoFrame)
BY GcNoFrameIsFrame DEF GcHolds

LEMMA GcIdleIsRecord ==
  ASSUME Gc!GuestAssumption
  PROVE  /\ Gc!Idle \in GcCallRecords /\ Gc!Idle.at = "idle" /\ Gc!Idle.written = {}
         /\ Gc!Idle.path \in GuestPaths /\ Gc!Idle.got = Gc!NoFrame /\ GcInHand(Gc!Idle)
<1>1. Gc!Idle \in GcCallRecords /\ Gc!Idle.at = "idle" /\ Gc!Idle.written = {}
      /\ Gc!Idle.path \in GuestPaths /\ Gc!Idle.got = Gc!NoFrame
  BY GcNoFrameIsFrame DEF Gc!Idle, GcCallRecords, Gc!GuestAssumption, Gc!File, Gc!Kinds
<1>2. GcInHand(Gc!Idle)
  BY <1>1, GcNothingHeld DEF GcInHand
<1> QED BY <1>1, <1>2

\* What is not the beginning of a frame.
LEMMA GcRemnantIsTruthful == Gc!Remnant \in GcTruthful /\ GcHolds(Gc!Remnant)
<1>1. Gc!Remnant \in Gc!Frames /\ Gc!Remnant.path = Gc!Nobody /\ Gc!Remnant.type = "response"
  BY DEF Gc!Remnant, Gc!NoFrame, Gc!Frames, Gc!File
<1> QED BY <1>1 DEF GcTruthful, GcHolds

\* A call that fails has nothing in hand, and what it had written or nothing.
LEMMA GcFailedIsRecord ==
  ASSUME Gc!GuestAssumption, NEW q \in GcCallRecords
  PROVE  /\ Gc!Failed(q) \in GcCallRecords /\ Gc!Failed(q).written \subseteq q.written
         /\ Gc!Failed(q).at \in {"idle", "done"} /\ GcInHand(Gc!Failed(q))
<1>1. CASE q.kind = "pull"
  <2>1. Gc!Failed(q) = [q EXCEPT !.at = "done", !.kind = "list", !.got = Gc!NoFrame]
    BY <1>1 DEF Gc!Failed
  <2>2. /\ Gc!Failed(q) \in GcCallRecords /\ Gc!Failed(q).written = q.written
        /\ Gc!Failed(q).at = "done" /\ Gc!Failed(q).kind = "list" /\ Gc!Failed(q).got = Gc!NoFrame
    BY <2>1, GcNoFrameIsFrame DEF GcCallRecords, Gc!Kinds
  <2> QED BY <2>2, GcNothingHeld DEF GcInHand
<1>2. CASE q.kind # "pull"
  BY <1>2, GcIdleIsRecord DEF Gc!Failed
<1> QED BY <1>1, <1>2

\* Who loses the rest of a frame keeps all but its content.
LEMMA GcTearIsRecord ==
  ASSUME NEW q \in GcCallRecords, GcInHand(q)
  PROVE  /\ Gc!Tear(q) \in GcCallRecords /\ GcInHand(Gc!Tear(q))
         /\ Gc!Tear(q).written = q.written /\ Gc!Tear(q).at = q.at /\ Gc!Tear(q).path = q.path
<1>1. CASE q.got.part = "head"
  <2> DEFINE g == [q.got EXCEPT !.content = Gc!Spliced]
  <2>1. q.got \in Gc!Frames
    BY DEF GcCallRecords
  <2>2. g \in Gc!Frames /\ g.content = Gc!Spliced /\ g.path = q.got.path
    BY <2>1 DEF Gc!Frames
  <2>3. GcHolds(g)
    BY <2>2 DEF GcHolds, GcHas
  <2>4. Gc!Tear(q) = [q EXCEPT !.got = g]
    BY <1>1 DEF Gc!Tear
  <2> HIDE DEF g
  <2>5. /\ Gc!Tear(q) \in GcCallRecords /\ Gc!Tear(q).got = g /\ Gc!Tear(q).kind = q.kind
        /\ Gc!Tear(q).written = q.written /\ Gc!Tear(q).at = q.at /\ Gc!Tear(q).path = q.path
        /\ Gc!Tear(q).content = q.content
    BY <2>2, <2>4 DEF GcCallRecords
  <2> QED BY <2>3, <2>5 DEF GcInHand, GcComplete
<1>2. CASE q.got.part # "head"
  BY <1>2 DEF Gc!Tear
<1> QED BY <1>1, <1>2

-----------------------------------------------------------------------------
(* What steps leave true.                                                   *)

\* A path's past only grows.
GcGrows == \A p \in GuestPaths : gcEver[p] \subseteq gcEver'[p]

LEMMA GcHoldsLater ==
  ASSUME GcGrows, NEW f \in Gc!Frames, GcHolds(f) PROVE GcHolds(f)'
BY DEF GcHolds, GcHas, GcGrows, Gc!Frames

LEMMA GcInHandLater ==
  ASSUME GcGrows, NEW q \in GcCallRecords, GcInHand(q) PROVE GcInHand(q)'
<1>1. GcHolds(q.got)'
  BY GcHoldsLater DEF GcCallRecords, GcInHand
<1> QED BY <1>1 DEF GcInHand, GcHas, GcGrows, GcCallRecords, GcComplete

LEMMA GcTruthfulLater ==
  ASSUME GcGrows, GcHeardOf => GcHeardOf', NEW s \in Seq(GcTruthful) PROVE s \in Seq(GcTruthful')
<1>1. GcTruthful \subseteq GcTruthful'
  BY GcHoldsLater DEF GcTruthful
<1> QED BY <1>1, SeqMonotonic

\* A caller's record, by itself.
LEMMA GcCallerIsRecord ==
  ASSUME GcIInv, NEW c \in Actors
  PROVE  gcCall[c] \in GcCallRecords /\ GcInHand(gcCall[c])
BY DEF GcIInv, Gc!TypeOK, GcCallRecords

\* No file on the host changes, and no caller comes to fill or to have
\* written another.
GcGoesOn(q, rec) ==
  /\ rec.written \subseteq q.written
  /\ rec.at = "fill" => q.at = "fill" /\ rec.path = q.path

LEMMA GcExportsKept ==
  ASSUME GcIInv, GcGrows, UNCHANGED <<gcExported, gcAgain>>,
         \A c \in Actors : GcGoesOn(gcCall[c], gcCall'[c])
  PROVE  GcExports'
<1>1. ASSUME NEW c \in Actors, NEW n \in Gc!Names
      PROVE  (GcFills(c, n)' => GcFills(c, n)) /\ (GcWrote(c, n)' => GcWrote(c, n))
  BY DEF GcFills, GcWrote, GcGoesOn
<1>2. ASSUME NEW p \in GuestPaths, GcOnHost(p) PROVE GcOnHost(p)'
  BY <1>2 DEF GcOnHost, GcGrows
<1>3. ASSUME NEW c \in Actors, NEW n \in Gc!Names, n \notin gcAgain,
             NEW p \in gcCall'[c].written, Base[p] = n
      PROVE  GcOnHost(p)'
  <2>1. p \in gcCall[c].written
    BY DEF GcGoesOn
  <2>2. p \in GuestPaths
    BY <2>1, GcCallerIsRecord DEF GcCallRecords
  <2>3. GcOnHost(p)
    BY <1>3, <2>1 DEF GcIInv, GcExports
  <2> QED BY <1>2, <2>2, <2>3
<1>4. ASSUME NEW c \in Actors, NEW n \in Gc!Names, n \notin gcAgain
      PROVE  /\ GcFills(c, n)' => gcExported[n] = Gc!Emptied /\ ~GcWrote(c, n)'
             /\ GcFills(c, n)' \/ GcWrote(c, n)' =>
                  \A d \in Actors : GcFills(d, n)' \/ GcWrote(d, n)' => d = c
  BY <1>1, <1>4 DEF GcIInv, GcExports
<1> QED BY <1>3, <1>4 DEF GcExports, Gc!Names

\* A step of callers that touches no file: each goes on with what it may
\* have in hand.
LEMMA GcCallersStepKeeps ==
  ASSUME GcIInv, UNCHANGED <<gcGuest, gcState, Gc!inside, Gc!outside>>,
         gcStarter' \in {"idle", "boot", "wait", "heard"}, gcStarter' = "heard" => gcStarter = "heard" \/ GcHeardOf,
         gcRequests' \in Seq({q \in GcAsked : GcComplete(q)}), gcWire' \in Seq(GcTruthful),
         gcHolder' \in Actors \union {Gc!Nobody}, gcThieves' \in Nat, gcCalls' \in 0..MaxCalls,
         gcCall' \in [Actors -> GcCallRecords],
         \A c \in Actors : GcGoesOn(gcCall[c], gcCall'[c]) /\ GcInHand(gcCall'[c])
  PROVE  GcIInv'
<1>1. GcGrows
  BY DEF GcGrows, Gc!inside
<1>2. GcExports'
  BY <1>1, GcExportsKept DEF Gc!outside
<1>3. GcTruthful \in SUBSET GcTruthful' /\ (GcHeardOf => GcHeardOf')
  BY DEF GcTruthful, GcHolds, GcHas, GcHeardOf, Gc!inside
<1>4. gcWire' \in Seq(GcTruthful') /\ gcWire' \in Seq(Gc!Frames)
  BY <1>3, SeqMonotonic DEF GcTruthful
<1>5. gcRequests' \in Seq(GcAsked)
  BY SeqMonotonic
<1>6. Gc!TypeOK'
  BY <1>4, <1>5 DEF GcIInv, Gc!TypeOK, GcAsked, GcCallRecords, Gc!inside, Gc!outside
<1>7. \A c \in Actors : GcInHand(gcCall[c])'
  BY <1>1, GcInHandLater
<1>8. (gcStarter' = "heard") => GcHeardOf'
  BY <1>3 DEF GcIInv
<1> QED BY <1>2, <1>4, <1>6, <1>7, <1>8 DEF GcIInv, Gc!inside

LEMMA GcGoesOnAsItWas == \A q : GcGoesOn(q, q)
BY DEF GcGoesOn

\* One caller goes on as rec, and others may lose the rest of a frame.
LEMMA GcCallerStepKeeps ==
  ASSUME GcIInv, NEW c \in Actors, NEW rec \in GcCallRecords,
         GcGoesOn(gcCall[c], rec), GcInHand(rec),
         Gc!Goto(c, rec) \/ Gc!Goes(c, rec),
         UNCHANGED <<Gc!boot, Gc!inside, Gc!outside>>,
         gcRequests' \in Seq({q \in GcAsked : GcComplete(q)}), gcWire' \in Seq(GcTruthful),
         gcHolder' \in Actors \union {Gc!Nobody}, gcThieves' \in Nat, gcCalls' \in 0..MaxCalls
  PROVE  GcIInv'
<1>1. ASSUME NEW d \in Actors
      PROVE  /\ d # c => gcCall'[d] \in {gcCall[d], Gc!Tear(gcCall[d])}
             /\ d = c => gcCall'[d] = rec
  BY DEF Gc!Goto, Gc!Goes, GcIInv, Gc!TypeOK
<1>2. ASSUME NEW d \in Actors
      PROVE  gcCall'[d] \in GcCallRecords /\ GcGoesOn(gcCall[d], gcCall'[d]) /\ GcInHand(gcCall'[d])
  <2>1. CASE d = c
    BY <1>1, <2>1
  <2>2. CASE d # c /\ gcCall'[d] = gcCall[d]
    BY <2>2, GcCallerIsRecord, GcGoesOnAsItWas
  <2>3. CASE d # c /\ gcCall'[d] = Gc!Tear(gcCall[d])
    BY <2>3, GcCallerIsRecord, GcTearIsRecord DEF GcGoesOn
  <2> QED BY <1>1, <2>1, <2>2, <2>3
<1>3. gcCall' \in [Actors -> GcCallRecords]
  <2>1. DOMAIN gcCall' = Actors /\ gcCall' = [d \in Actors |-> gcCall'[d]]
    BY DEF Gc!Goto, Gc!Goes, GcIInv, Gc!TypeOK
  <2> QED BY <1>2, <2>1
<1>4. UNCHANGED <<gcGuest, gcState, gcStarter>>
  BY DEF Gc!boot
<1>5. gcStarter' \in {"idle", "boot", "wait", "heard"}
  BY <1>4 DEF GcIInv, Gc!TypeOK
<1> QED BY <1>2, <1>3, <1>4, <1>5, GcCallersStepKeeps

-----------------------------------------------------------------------------
(* The boot, and the guest.                                                 *)

\* A step of the guest or of its boot that leaves the callers alone.
LEMMA GcGuestStepKeeps ==
  ASSUME GcIInv, Gc!TypeOK', GcGrows, UNCHANGED <<gcCall, Gc!outside>>,
         \A p \in GuestPaths : gcFiles'[p] # Gc!Absent => gcFiles'[p] \in gcEver'[p],
         gcRequests' \in Seq({q \in GcAsked : GcComplete(q)}), gcWire' \in Seq(GcTruthful'),
         gcStarter' = "heard" => GcHeardOf'
  PROVE  GcIInv'
<1>1. GcExports'
  BY GcExportsKept, GcGoesOnAsItWas DEF Gc!outside
<1>2. \A c \in Actors : GcInHand(gcCall[c])'
  BY GcInHandLater, GcCallerIsRecord
<1> QED BY <1>1, <1>2 DEF GcIInv

\* Of a new guest's connection nothing is known, and nothing is on its wire.
LEMMA GcBootKeeps == ASSUME Gc!GuestAssumption, GcIInv, Gc!Boot PROVE GcIInv'
<1>1. GcGrows
  BY DEF GcGrows, Gc!Boot, GcIInv, Gc!TypeOK
<1>2. ASSUME NEW c \in Actors
      PROVE  gcCall'[c] \in GcCallRecords /\ GcGoesOn(gcCall[c], gcCall'[c]) /\ GcInHand(gcCall'[c])
  <2>1. gcCall[c] \in GcCallRecords /\ GcInHand(gcCall[c])
    BY GcCallerIsRecord
  <2>2. CASE gcCall[c].at \in {"open", "fill", "done"}
    <3> DEFINE q == gcCall[c]
               rec == [q EXCEPT !.todo = {}]
    <3>1. gcCall'[c] = rec
      BY <2>2 DEF Gc!Boot
    <3>2. /\ rec \in GcCallRecords /\ rec.at = q.at /\ rec.kind = q.kind /\ rec.path = q.path
          /\ rec.content = q.content /\ rec.got = q.got /\ rec.written = q.written
      BY <2>1 DEF GcCallRecords
    <3> HIDE DEF rec
    <3> QED BY <2>1, <3>1, <3>2 DEF GcGoesOn, GcInHand, GcComplete
  <2>3. CASE gcCall[c].at \notin {"open", "fill", "done"}
    <3>1. gcCall'[c] = Gc!Failed(gcCall[c])
      BY <2>3 DEF Gc!Boot
    <3> QED BY <2>1, <3>1, GcFailedIsRecord DEF GcGoesOn
  <2> QED BY <2>2, <2>3
<1>3. GcExports'
  BY <1>1, <1>2, GcExportsKept DEF Gc!Boot, Gc!outside
<1>4. /\ gcFiles' \in [GuestPaths -> Gc!File] /\ gcEver' \in [GuestPaths -> SUBSET GuestContents]
      /\ \A p \in GuestPaths : gcFiles'[p] # Gc!Absent => gcFiles'[p] \in gcEver'[p]
  BY DEF Gc!Boot, Gc!GuestAssumption, Gc!Had, Gc!File, GcIInv, Gc!TypeOK
<1>5. gcRequests' = <<>> /\ gcWire' = <<>> /\ gcHolder' = Gc!Nobody /\ gcThieves' = 0
  BY DEF Gc!Boot
<1>6. gcCalls' \in 0..MaxCalls
  BY DEF Gc!Boot, GcIInv, Gc!TypeOK, Gc!GuestAssumption
<1>7. gcCall' \in [Actors -> GcCallRecords]
  <2>1. gcCall' = [c \in Actors |-> gcCall'[c]]
    BY DEF Gc!Boot
  <2> QED BY <1>2, <2>1
<1>8. Gc!TypeOK'
  <2>1. /\ gcGuest' = "restored" /\ gcStarter' = "boot" /\ gcState' = gcState
        /\ UNCHANGED <<gcExported, gcAgain>>
    BY DEF Gc!Boot, Gc!outside
  <2>2. gcRequests' \in Seq(GcAsked) /\ gcWire' \in Seq(Gc!Frames)
    BY <1>5, EmptySeq
  <2> QED BY <1>4, <1>5, <1>6, <1>7, <2>1, <2>2 DEF GcIInv, Gc!TypeOK, GcCallRecords, GcAsked
<1>9. \A c \in Actors : GcInHand(gcCall[c])'
  BY <1>1, <1>2, GcInHandLater
<1>10. gcStarter' # "heard"
  BY DEF Gc!Boot
<1> QED BY <1>3, <1>4, <1>5, <1>8, <1>9, <1>10, EmptySeq DEF GcIInv

\* Started, MarkWarm and the guest's end change neither files nor frames.
LEMMA GcBootEndKeeps ==
  ASSUME GcIInv, Gc!Started \/ Gc!MarkWarm \/ Gc!Stop PROVE GcIInv'
<1>1. /\ UNCHANGED <<Gc!inside, gcRequests, gcWire, gcHolder, gcThieves, gcCall, Gc!outside, gcCalls>>
      /\ gcGuest' \in {gcGuest, "off", "gone"} /\ (GcHeardOf => GcHeardOf') /\ gcState' \in {gcState, "booting", "warm"}
      /\ gcStarter' \in {gcStarter, "wait", "idle"}
  BY DEF Gc!Started, Gc!MarkWarm, Gc!Stop, Gc!Down, GcHeardOf
<1>2. Gc!TypeOK'
  BY <1>1 DEF GcIInv, Gc!TypeOK, Gc!inside, Gc!outside
<1>3. GcGrows /\ (GcHeardOf => GcHeardOf')
  BY <1>1 DEF GcGrows, GcHeardOf, Gc!inside
<1>4. gcWire' \in Seq(GcTruthful')
  BY <1>1, <1>3, GcTruthfulLater DEF GcIInv
<1>5. gcStarter' = "heard" => GcHeardOf'
  BY <1>1, <1>3 DEF GcIInv
<1>6. /\ \A p \in GuestPaths : gcFiles'[p] # Gc!Absent => gcFiles'[p] \in gcEver'[p]
      /\ gcRequests' \in Seq({q \in GcAsked : GcComplete(q)})
  BY <1>1 DEF GcIInv, Gc!inside
<1> QED BY <1>1, <1>2, <1>3, <1>4, <1>5, <1>6, GcGuestStepKeeps

\* An event comes from a guest that is ready then.
LEMMA GcAgentReadyKeeps == ASSUME GcIInv, Gc!AgentReady PROVE GcIInv'
<1>1. /\ gcGuest' = "ready" /\ gcWire' = Append(gcWire, Gc!Event)
      /\ UNCHANGED <<gcState, gcStarter, Gc!inside, gcRequests, gcHolder, gcThieves, gcCall,
                     Gc!outside, gcCalls>>
  BY DEF Gc!AgentReady
<1>2. Gc!Event \in Gc!Frames /\ Gc!Event.type = "event"
  BY DEF Gc!Event, Gc!NoFrame, Gc!Frames, Gc!File
<1>3. GcGrows /\ GcHeardOf'
  BY <1>1 DEF GcGrows, GcHeardOf, Gc!inside
<1>4. gcWire \in Seq(GcTruthful') /\ Gc!Event \in GcTruthful'
  <2>1. Gc!Event \in GcTruthful'
    BY <1>2, <1>3 DEF GcTruthful, GcHolds
  <2> QED BY <1>3, <2>1, GcTruthfulLater DEF GcIInv
<1>5. gcWire' \in Seq(GcTruthful')
  BY <1>1, <1>4, AppendProperties
<1>6. gcWire' \in Seq(Gc!Frames)
  BY <1>1, <1>2, AppendProperties DEF GcIInv, Gc!TypeOK
<1>7. Gc!TypeOK'
  BY <1>1, <1>6 DEF GcIInv, Gc!TypeOK, Gc!inside, Gc!outside
<1>8. /\ \A p \in GuestPaths : gcFiles'[p] # Gc!Absent => gcFiles'[p] \in gcEver'[p]
      /\ gcRequests' \in Seq({q \in GcAsked : GcComplete(q)})
  BY <1>1 DEF GcIInv, Gc!inside
<1> QED BY <1>1, <1>3, <1>5, <1>7, <1>8, GcGuestStepKeeps

LEMMA GcGuestWorksKeeps ==
  ASSUME Gc!GuestAssumption, GcIInv, NEW p \in GuestPaths, NEW x \in GuestContents, Gc!GuestWorks(p, x)
  PROVE  GcIInv'
<1>1. gcCalls' \in 0..MaxCalls
  BY DEF Gc!GuestWorks, GcIInv, Gc!TypeOK, Gc!GuestAssumption
<1>2. Gc!TypeOK'
  BY <1>1 DEF Gc!GuestWorks, GcIInv, Gc!TypeOK, Gc!boot, Gc!File, Gc!outside
<1>3. GcGrows /\ (GcHeardOf => GcHeardOf')
  BY DEF GcGrows, GcHeardOf, Gc!GuestWorks, Gc!boot, GcIInv, Gc!TypeOK
<1>4. \A q \in GuestPaths : gcFiles'[q] # Gc!Absent => gcFiles'[q] \in gcEver'[q]
  BY DEF Gc!GuestWorks, GcIInv, Gc!TypeOK
<1>5. /\ UNCHANGED <<gcCall, Gc!outside, gcRequests, gcStarter>> /\ gcWire' = gcWire
  BY DEF Gc!GuestWorks, Gc!boot
<1>6. gcWire' \in Seq(GcTruthful')
  BY <1>3, <1>5, GcTruthfulLater DEF GcIInv
<1> QED BY <1>2, <1>3, <1>4, <1>5, <1>6, GcGuestStepKeeps DEF GcIInv

\* What the guest answers to anything but a write.
LEMMA GcAnswerIsTruthful ==
  ASSUME GcIInv, NEW q \in GcAsked
  PROVE  /\ Gc!Answer(q) \in Gc!Frames /\ GcHolds(Gc!Answer(q)) /\ Gc!Answer(q).type = "response"
         /\ Gc!InParts(Gc!Answer(q)) \in Seq({f \in Gc!Frames : GcHolds(f) /\ f.type # "event"})
<1> DEFINE a == Gc!Answer(q)
           S == {f \in Gc!Frames : GcHolds(f) /\ f.type # "event"}
<1>1. a \in Gc!Frames /\ a.type = "response"
  BY DEF Gc!Answer, Gc!NoFrame, Gc!Frames, Gc!File, GcAsked, GcIInv, Gc!TypeOK
<1>2. GcHolds(a)
  <2>1. CASE q.kind \in {"read", "pull"}
    BY <2>1 DEF Gc!Answer, Gc!NoFrame, GcAsked, GcIInv, Gc!TypeOK, GcHolds, GcHas
  <2>2. CASE q.kind \notin {"read", "pull"}
    BY <2>2 DEF Gc!Answer, Gc!NoFrame, GcHolds
  <2> QED BY <2>1, <2>2
<1>3. Gc!Remnant \in S
  BY GcRemnantIsTruthful DEF GcTruthful, Gc!Remnant, Gc!NoFrame
<1> HIDE DEF a
<1> DEFINE first == [a EXCEPT !.part = "head"]
<1>4. first \in Gc!Frames /\ first.type = a.type /\ first.error = a.error /\ first.path = a.path
      /\ first.content = a.content
  BY <1>1 DEF Gc!Frames
<1>5. a \in S /\ first \in S
  BY <1>1, <1>2, <1>4 DEF GcHolds
<1>6. Gc!InParts(a) \in {<<a>>, <<first, Gc!Remnant>>}
  BY DEF Gc!InParts
<1> HIDE DEF first, S
<1>7. Gc!InParts(a) \in Seq(S)
  <2>1. <<a>> \in Seq(S)
    BY <1>5
  <2>2. <<first, Gc!Remnant>> \in Seq(S)
    BY <1>3, <1>5
  <2> QED BY <1>6, <2>1, <2>2
<1> QED BY <1>1, <1>2, <1>7 DEF a, S

LEMMA GcGuestAnswersKeeps == ASSUME Gc!GuestAssumption, GcIInv, Gc!GuestAnswers PROVE GcIInv'
<1> DEFINE q == Head(gcRequests)
           stream == [Gc!NoFrame EXCEPT !.type = "stream"]
           refusal == [Gc!NoFrame EXCEPT !.error = TRUE]
           S == {f \in Gc!Frames : GcHolds(f) /\ f.type # "event"}
<1>1. q \in GcAsked /\ GcComplete(q) /\ Tail(gcRequests) \in Seq({x \in GcAsked : GcComplete(x)})
  BY HeadTailProperties DEF Gc!GuestAnswers, GcIInv
<1>2. /\ gcRequests' = Tail(gcRequests)
      /\ UNCHANGED <<Gc!boot, gcHolder, gcThieves, gcCall, Gc!outside, gcCalls>>
      /\ \/ /\ q.kind # "write" /\ UNCHANGED Gc!inside
            /\ gcWire' = gcWire \o (IF q.kind = "exec" THEN <<stream>> ELSE <<>>)
                                \o Gc!InParts(Gc!Answer(q))
         \/ /\ q.kind = "write" /\ gcWire' = Append(gcWire, Gc!NoFrame)
            /\ gcFiles' = [gcFiles EXCEPT ![q.path] = q.content]
            /\ gcEver' = [gcEver EXCEPT ![q.path] = @ \union {q.content}]
         \/ q.kind = "write" /\ UNCHANGED Gc!inside /\ gcWire' = Append(gcWire, refusal)
  BY DEF Gc!GuestAnswers
<1>3. stream \in S /\ Gc!NoFrame \in S /\ refusal \in S
  BY GcNothingHeld DEF Gc!NoFrame, Gc!Frames, Gc!File, GcHolds
<1> HIDE DEF q, stream, refusal
<1>4. Gc!InParts(Gc!Answer(q)) \in Seq(S)
  BY <1>1, GcAnswerIsTruthful
<1>5. q.path \in GuestPaths /\ q.content \in Gc!File /\ (q.kind = "write" => q.content \in GuestContents)
  BY <1>1 DEF GcAsked, GcComplete
<1>6. /\ gcFiles' \in [GuestPaths -> Gc!File] /\ gcEver' \in [GuestPaths -> SUBSET GuestContents]
      /\ GcGrows /\ \A p \in GuestPaths : gcFiles'[p] # Gc!Absent => gcFiles'[p] \in gcEver'[p]
  <2>1. CASE UNCHANGED Gc!inside
    BY <2>1 DEF GcIInv, Gc!TypeOK, Gc!inside, GcGrows
  <2>2. CASE /\ gcFiles' = [gcFiles EXCEPT ![q.path] = q.content]
             /\ gcEver' = [gcEver EXCEPT ![q.path] = @ \union {q.content}]
             /\ q.kind = "write"
    <3>1. gcFiles' \in [GuestPaths -> Gc!File]
      BY <2>2, <1>5 DEF GcIInv, Gc!TypeOK
    <3>2. gcEver' \in [GuestPaths -> SUBSET GuestContents] /\ GcGrows
      BY <2>2, <1>5 DEF GcIInv, Gc!TypeOK, GcGrows
    <3>3. \A p \in GuestPaths : gcFiles'[p] # Gc!Absent => gcFiles'[p] \in gcEver'[p]
      BY <2>2, <1>5 DEF GcIInv, Gc!TypeOK
    <3> QED BY <3>1, <3>2, <3>3
  <2> QED BY <1>2, <2>1, <2>2
<1>7. ASSUME NEW T, gcWire \in Seq(T), S \subseteq T PROVE gcWire' \in Seq(T)
  <2>1. CASE q.kind = "write"
    BY <1>2, <1>3, <1>7, <2>1, AppendProperties
  <2>2. CASE q.kind # "write"
    <3> DEFINE first == IF q.kind = "exec" THEN <<stream>> ELSE <<>>
               rest == Gc!InParts(Gc!Answer(q))
    <3>1. first \in Seq(T)
      BY <1>3, <1>7
    <3>2. rest \in Seq(T)
      BY <1>4, <1>7, SeqMonotonic
    <3>3. gcWire' = gcWire \o first \o rest
      BY <1>2, <2>2
    <3> HIDE DEF first, rest, S
    <3>4. gcWire \o first \in Seq(T)
      BY <1>7, <3>1, ConcatProperties
    <3> QED BY <3>2, <3>3, <3>4, ConcatProperties
  <2> QED BY <2>1, <2>2
<1>8. gcWire' \in Seq(GcTruthful')
  <2>1. S \subseteq GcTruthful'
    BY <1>6, GcHoldsLater DEF GcTruthful
  <2>2. gcWire \in Seq(GcTruthful')
    BY <1>2, <1>6, GcTruthfulLater DEF GcIInv, GcHeardOf, Gc!boot
  <2> QED BY <1>7, <2>1, <2>2
<1>9. gcWire' \in Seq(Gc!Frames) /\ gcRequests' \in Seq(GcAsked)
  <2>1. gcWire \in Seq(Gc!Frames)
    BY DEF GcIInv, Gc!TypeOK
  <2>2. gcWire' \in Seq(Gc!Frames)
    BY <1>7, <2>1
  <2> QED BY <1>1, <1>2, <2>2, SeqMonotonic
<1>10. Gc!TypeOK'
  BY <1>2, <1>6, <1>9 DEF GcIInv, Gc!TypeOK, Gc!boot, Gc!outside, GcAsked
<1>11. gcStarter' = "heard" => GcHeardOf'
  BY <1>2 DEF GcIInv, GcHeardOf, Gc!boot
<1> QED BY <1>1, <1>2, <1>6, <1>8, <1>10, <1>11, GcGuestStepKeeps

-----------------------------------------------------------------------------
(* The client.                                                              *)

LEMMA GcRestIsTyped ==
  ASSUME GcIInv
  PROVE  /\ gcRequests \in Seq({q \in GcAsked : GcComplete(q)}) /\ gcWire \in Seq(GcTruthful)
         /\ gcHolder \in Actors \union {Gc!Nobody} /\ gcThieves \in Nat /\ gcThieves + 1 \in Nat
         /\ gcCalls \in 0..MaxCalls
<1>1. gcThieves \in Nat
  BY DEF GcIInv, Gc!TypeOK
<1> QED BY <1>1 DEF GcIInv, Gc!TypeOK

\* The step of a caller that neither reads nor writes a frame.
LEMMA GcMovesOnKeeps ==
  ASSUME GcIInv, NEW c \in Actors, NEW rec \in GcCallRecords, GcGoesOn(gcCall[c], rec), GcInHand(rec),
         Gc!Goto(c, rec), UNCHANGED <<Gc!boot, Gc!inside, Gc!outside, gcRequests, gcWire, gcCalls>>,
         gcHolder' \in {gcHolder, Gc!Nobody}, gcThieves' \in {gcThieves, gcThieves + 1}
  PROVE  GcIInv'
<1>1. /\ gcRequests' \in Seq({q \in GcAsked : GcComplete(q)}) /\ gcWire' \in Seq(GcTruthful)
      /\ gcHolder' \in Actors \union {Gc!Nobody} /\ gcThieves' \in Nat /\ gcCalls' \in 0..MaxCalls
  BY GcRestIsTyped
<1> QED BY <1>1, GcCallerStepKeeps

LEMMA GcCallKeeps ==
  ASSUME Gc!GuestAssumption, GcIInv, NEW c \in Actors, NEW kind \in Gc!Kinds, NEW p \in GuestPaths,
         NEW x \in Gc!File, kind = "write" => x \in GuestContents, Gc!Call(c, kind, p, x)
  PROVE  GcIInv'
<1> DEFINE rec == [Gc!Idle EXCEPT !.at = "lock", !.kind = kind, !.path = p, !.content = x]
<1>1. /\ rec \in GcCallRecords /\ rec.at = "lock" /\ rec.kind = kind /\ rec.content = x
      /\ rec.written = {} /\ rec.got = Gc!NoFrame
  BY GcIdleIsRecord DEF GcCallRecords
<1>2. Gc!Goto(c, rec)
  BY DEF Gc!Call
<1>3. gcCalls' \in 0..MaxCalls
  BY DEF Gc!Call, GcIInv, Gc!TypeOK, Gc!GuestAssumption
<1> HIDE DEF rec
<1>4. GcInHand(rec) /\ GcGoesOn(gcCall[c], rec)
  BY <1>1, GcNothingHeld DEF GcInHand, GcComplete, GcGoesOn
<1>5. UNCHANGED <<Gc!boot, Gc!inside, Gc!outside, gcRequests, gcWire, gcHolder, gcThieves>>
  BY DEF Gc!Call
<1>6. /\ gcRequests' \in Seq({q \in GcAsked : GcComplete(q)}) /\ gcWire' \in Seq(GcTruthful)
      /\ gcHolder' \in Actors \union {Gc!Nobody} /\ gcThieves' \in Nat
  BY <1>5, GcRestIsTyped
<1> QED BY <1>1, <1>2, <1>3, <1>4, <1>5, <1>6, GcCallerStepKeeps

LEMMA GcSendKeeps ==
  ASSUME GcIInv, NEW c \in Actors, Gc!Send(c) PROVE GcIInv'
<1> DEFINE rec == [gcCall[c] EXCEPT !.at = "sent"]
           q == Gc!Request(gcCall[c].kind, gcCall[c].path, gcCall[c].content)
<1>1. gcCall[c] \in GcCallRecords /\ GcInHand(gcCall[c]) /\ gcCall[c].at = "lock"
  BY GcCallerIsRecord DEF Gc!Send
<1>2. /\ rec \in GcCallRecords /\ rec.at = "sent" /\ rec.kind = gcCall[c].kind
      /\ rec.content = gcCall[c].content /\ rec.written = gcCall[c].written
      /\ rec.got = gcCall[c].got
  BY <1>1 DEF GcCallRecords
<1>3. Gc!Goto(c, rec) /\ gcRequests' = Append(gcRequests, q) /\ gcHolder' = c
      /\ UNCHANGED <<Gc!boot, Gc!inside, gcWire, gcThieves, Gc!outside, gcCalls>>
  BY DEF Gc!Send
<1> HIDE DEF rec
<1>4. GcInHand(rec) /\ GcGoesOn(gcCall[c], rec)
  BY <1>1, <1>2 DEF GcInHand, GcComplete, GcGoesOn
<1>5. q \in GcAsked /\ GcComplete(q)
  BY <1>1 DEF GcInHand, GcComplete, GcCallRecords, Gc!Request, GcAsked
<1> HIDE DEF q
<1>6. gcRequests' \in Seq({x \in GcAsked : GcComplete(x)})
  BY <1>3, <1>5, GcRestIsTyped, AppendProperties
<1>7. /\ gcWire' \in Seq(GcTruthful) /\ gcHolder' \in Actors \union {Gc!Nobody}
      /\ gcThieves' \in Nat /\ gcCalls' \in 0..MaxCalls
  BY <1>3, GcRestIsTyped
<1> QED BY <1>2, <1>3, <1>4, <1>6, <1>7, GcCallerStepKeeps

-----------------------------------------------------------------------------
(* Readers.                                                                 *)

\* What a reader leaves on the wire is truthful still.
LEMMA GcTakeKeeps ==
  ASSUME gcWire \in Seq(GcTruthful), NEW least \in Nat, Gc!Take(least)
  PROVE  gcWire' \in Seq(GcTruthful)
<1>1. PICK n \in least..Len(gcWire) : gcWire' = SubSeq(gcWire, n + 1, Len(gcWire))
  BY DEF Gc!Take
<1>2. n \in Nat
  BY <1>1, LenProperties
<1> QED BY <1>1, <1>2, GcSeqLater

LEMMA GcHeadIsTruthful ==
  ASSUME GcIInv, gcWire # <<>>
  PROVE  /\ Head(gcWire) \in Gc!Frames /\ GcHolds(Head(gcWire)) /\ Head(gcWire) \in GcTruthful
         /\ Tail(gcWire) \in Seq(GcTruthful)
<1>1. Head(gcWire) \in GcTruthful /\ Tail(gcWire) \in Seq(GcTruthful)
  BY HeadTailProperties DEF GcIInv
<1> QED BY <1>1 DEF GcTruthful

\* What a line reads as: a frame of the guest, or none.
LEMMA GcLinesHold ==
  ASSUME NEW got \in Gc!Frames, GcHolds(got), NEW f \in Gc!Frames, GcHolds(f), NEW g \in Gc!Lines(got, f)
  PROVE  g \in Gc!Frames /\ GcHolds(g)
<1>1. g \in {f, got, Gc!Remnant}
  BY DEF Gc!Lines
<1> QED BY <1>1, GcRemnantIsTruthful DEF GcTruthful

\* The frame that is taken for the answer is accepted for a read or a pull
\* only where it names its path: then it has what the path has held.
LEMMA GcAcceptedIsHeld ==
  ASSUME NEW q \in GcCallRecords, NEW f \in Gc!Frames, GcHolds(f), Gc!Nobody \notin GuestPaths,
         q.kind \in {"read", "pull"}, Gc!Accepts(q, f)
  PROVE  f.content \in GcHas(q.path) /\ f.content \in Gc!File \union {Gc!Spliced}
BY DEF Gc!Accepts, GcHolds, Gc!Frames, GcCallRecords

\* A call goes on with whatever it takes for its answer.
LEMMA GcAfterInHand ==
  ASSUME Gc!GuestAssumption, NEW q \in GcCallRecords, GcInHand(q), q.at = "sent",
         NEW f \in Gc!Frames, GcHolds(f)
  PROVE  Gc!After(q, f) \in GcCallRecords /\ GcGoesOn(q, Gc!After(q, f)) /\ GcInHand(Gc!After(q, f))
<1> DEFINE rec == Gc!After(q, f)
<1>1. \/ rec = Gc!Failed(q)
      \/ rec = [q EXCEPT !.at = "collect", !.got = Gc!NoFrame]
      \/ q.kind = "read" /\ Gc!Accepts(q, f) /\ rec = [q EXCEPT !.at = "done", !.content = f.content, !.got = Gc!NoFrame]
      \/ q.kind = "list" /\ rec = [Gc!Listed(q, f) EXCEPT !.got = Gc!NoFrame]
      \/ q.kind = "pull" /\ Gc!Accepts(q, f) /\ rec = Gc!Pulled(q, f)
  BY DEF Gc!After
<1>2. f.paths \subseteq GuestPaths /\ Gc!Nobody \notin GuestPaths
  BY DEF Gc!Frames, Gc!GuestAssumption
<1> HIDE DEF rec
<1>3. CASE rec = Gc!Failed(q)
  BY <1>3, GcFailedIsRecord DEF GcGoesOn, rec
<1>4. CASE rec = [q EXCEPT !.at = "collect", !.got = Gc!NoFrame]
  <2>1. /\ rec \in GcCallRecords /\ rec.at = "collect" /\ rec.written = q.written
        /\ rec.kind = q.kind /\ rec.content = q.content /\ rec.got = Gc!NoFrame
    BY <1>4, GcNoFrameIsFrame DEF GcCallRecords
  <2> QED BY <2>1, GcNothingHeld DEF GcInHand, GcGoesOn, GcComplete, rec
<1>5. CASE /\ q.kind = "read" /\ Gc!Accepts(q, f)
           /\ rec = [q EXCEPT !.at = "done", !.content = f.content, !.got = Gc!NoFrame]
  <2>1. f.content \in GcHas(q.path) /\ f.content \in Gc!File \union {Gc!Spliced}
    BY <1>2, <1>5, GcAcceptedIsHeld
  <2>2. /\ rec \in GcCallRecords /\ rec.at = "done" /\ rec.written = q.written
        /\ rec.content = f.content /\ rec.got = Gc!NoFrame /\ rec.path = q.path
    BY <1>5, <2>1, GcNoFrameIsFrame DEF GcCallRecords
  <2> QED BY <2>1, <2>2, GcNothingHeld DEF GcInHand, GcGoesOn, rec
<1>6. CASE q.kind = "list" /\ rec = [Gc!Listed(q, f) EXCEPT !.got = Gc!NoFrame]
  <2>1. /\ rec \in GcCallRecords /\ rec.at = "next" /\ rec.written = q.written /\ rec.got = Gc!NoFrame
    BY <1>2, <1>6, GcNoFrameIsFrame DEF GcCallRecords, Gc!Listed
  <2> QED BY <2>1, GcNothingHeld DEF GcInHand, GcGoesOn, rec
<1>7. CASE q.kind = "pull" /\ Gc!Accepts(q, f) /\ rec = Gc!Pulled(q, f)
  <2>1. f.content \in GcHas(q.path) /\ f.content \in Gc!File \union {Gc!Spliced}
    BY <1>2, <1>7, GcAcceptedIsHeld
  <2>2. /\ rec \in GcCallRecords /\ rec.at = "open" /\ rec.written = q.written
        /\ rec.content = f.content /\ rec.got = Gc!NoFrame /\ rec.path = q.path
    BY <1>7, <2>1, GcNoFrameIsFrame DEF GcCallRecords, Gc!Pulled
  <2> QED BY <2>1, <2>2, GcNothingHeld DEF GcInHand, GcGoesOn, rec
<1> QED BY <1>1, <1>3, <1>4, <1>5, <1>6, <1>7 DEF rec

LEMMA GcReadOnKeeps == ASSUME GcIInv, NEW c \in Actors, Gc!ReadOn(c) PROVE GcIInv'
<1> DEFINE q == gcCall[c]
           g == IF q.got.part = "whole" THEN Head(gcWire) ELSE Gc!Remnant
           rec == [q EXCEPT !.got = g]
<1>1. /\ gcWire # <<>> /\ gcWire' = Tail(gcWire) /\ Gc!Goes(c, rec) /\ q.at \in {"sent", "collect"}
      /\ UNCHANGED <<Gc!boot, Gc!inside, gcRequests, gcHolder, gcThieves, Gc!outside, gcCalls>>
  BY DEF Gc!ReadOn
<1>2. q \in GcCallRecords /\ GcInHand(q)
  BY GcCallerIsRecord
<1>3. g \in Gc!Frames /\ GcHolds(g)
  BY <1>1, GcHeadIsTruthful, GcRemnantIsTruthful DEF GcTruthful
<1> HIDE DEF g, q
<1>4. /\ rec \in GcCallRecords /\ rec.at = q.at /\ rec.written = q.written /\ rec.kind = q.kind
      /\ rec.content = q.content /\ rec.got = g
  BY <1>2, <1>3 DEF GcCallRecords
<1> HIDE DEF rec
<1>5. GcInHand(rec) /\ GcGoesOn(gcCall[c], rec)
  BY <1>1, <1>2, <1>3, <1>4 DEF GcInHand, GcComplete, GcGoesOn, q
<1>6. /\ gcRequests' \in Seq({x \in GcAsked : GcComplete(x)}) /\ gcWire' \in Seq(GcTruthful)
      /\ gcHolder' \in Actors \union {Gc!Nobody} /\ gcThieves' \in Nat /\ gcCalls' \in 0..MaxCalls
  BY <1>1, GcRestIsTyped, GcHeadIsTruthful
<1> QED BY <1>1, <1>4, <1>5, <1>6, GcCallerStepKeeps

LEMMA GcReceiveKeeps ==
  ASSUME Gc!GuestAssumption, GcIInv, NEW c \in Actors, Gc!Receive(c) PROVE GcIInv'
<1> DEFINE q == gcCall[c]
<1>1. /\ q.at = "sent" /\ gcWire # <<>> /\ gcHolder' = Gc!Nobody /\ Gc!Take(1)
      /\ UNCHANGED <<Gc!boot, Gc!inside, gcRequests, gcThieves, Gc!outside, gcCalls>>
  BY DEF Gc!Receive
<1>2. PICK f \in Gc!Lines(q.got, Head(gcWire)) : Gc!Goes(c, Gc!After(q, f))
  BY DEF Gc!Receive
<1>3. q \in GcCallRecords /\ GcInHand(q) /\ q.got \in Gc!Frames /\ GcHolds(q.got)
  BY GcCallerIsRecord DEF GcCallRecords, GcInHand
<1>4. f \in Gc!Frames /\ GcHolds(f)
  BY <1>1, <1>2, <1>3, GcHeadIsTruthful, GcLinesHold
<1>5. Gc!After(q, f) \in GcCallRecords /\ GcGoesOn(q, Gc!After(q, f)) /\ GcInHand(Gc!After(q, f))
  BY <1>1, <1>3, <1>4, GcAfterInHand
<1>6. /\ gcRequests' \in Seq({x \in GcAsked : GcComplete(x)}) /\ gcWire' \in Seq(GcTruthful)
      /\ gcHolder' \in Actors \union {Gc!Nobody} /\ gcThieves' \in Nat /\ gcCalls' \in 0..MaxCalls
  BY <1>1, GcRestIsTyped, GcTakeKeeps
<1> QED BY <1>1, <1>2, <1>5, <1>6, GcCallerStepKeeps

\* A command's call that asks for the result.
GcResult(q) == [q EXCEPT !.at = "lock", !.kind = "result", !.got = Gc!NoFrame]

LEMMA GcAskForResult ==
  ASSUME NEW q \in GcCallRecords, GcInHand(q), q.at = "collect"
  PROVE  GcResult(q) \in GcCallRecords /\ GcGoesOn(q, GcResult(q)) /\ GcInHand(GcResult(q))
<1> DEFINE rec == GcResult(q)
<1>1. /\ rec \in GcCallRecords /\ rec.at = "lock" /\ rec.kind = "result" /\ rec.got = Gc!NoFrame
      /\ rec.written = q.written /\ rec.content = q.content
  BY GcNoFrameIsFrame DEF GcCallRecords, Gc!Kinds, GcResult
<1> HIDE DEF rec
<1>2. GcInHand(rec) /\ GcGoesOn(q, rec)
  BY <1>1, GcNothingHeld DEF GcInHand, GcGoesOn, GcComplete
<1> QED BY <1>1, <1>2 DEF rec

LEMMA GcEndOfFramesKeeps ==
  ASSUME Gc!GuestAssumption, GcIInv, NEW c \in Actors, Gc!EndOfFrames(c) PROVE GcIInv'
<1> DEFINE q == gcCall[c]
<1>1. q \in GcCallRecords /\ GcInHand(q)
  BY GcCallerIsRecord
<1>2. UNCHANGED <<Gc!boot, Gc!inside, gcRequests, gcWire, gcThieves, Gc!outside, gcCalls>>
  BY DEF Gc!EndOfFrames
<1>3. CASE Gc!Goto(c, Gc!Failed(q)) /\ gcHolder' = Gc!Nobody
  <2>1. Gc!Failed(q) \in GcCallRecords /\ GcGoesOn(q, Gc!Failed(q)) /\ GcInHand(Gc!Failed(q))
    BY <1>1, GcFailedIsRecord DEF GcGoesOn
  <2> QED BY <1>2, <1>3, <2>1, GcMovesOnKeeps
<1>4. CASE /\ q.at = "collect" /\ UNCHANGED gcHolder
           /\ Gc!Goto(c, GcResult(q))
  <2>1. GcResult(q) \in GcCallRecords /\ GcGoesOn(q, GcResult(q)) /\ GcInHand(GcResult(q))
    BY <1>1, <1>4, GcAskForResult
  <2> QED BY <1>2, <1>4, <2>1, GcMovesOnKeeps
<1> QED BY <1>3, <1>4 DEF Gc!EndOfFrames, GcResult

LEMMA GcCollectKeeps ==
  ASSUME GcIInv, NEW c \in Actors, Gc!Collect(c) PROVE GcIInv'
<1> DEFINE q == gcCall[c]
<1>1. q \in GcCallRecords /\ GcInHand(q) /\ q.at = "collect" /\ gcWire # <<>>
  BY GcCallerIsRecord DEF Gc!Collect
<1>2. UNCHANGED <<Gc!boot, Gc!inside, gcRequests, gcHolder, Gc!outside, gcCalls>>
  BY DEF Gc!Collect
<1>3. CASE gcWire' = Tail(gcWire) /\ Gc!Goes(c, q) /\ UNCHANGED gcThieves
  <2>1. /\ gcRequests' \in Seq({x \in GcAsked : GcComplete(x)}) /\ gcWire' \in Seq(GcTruthful)
        /\ gcHolder' \in Actors \union {Gc!Nobody} /\ gcThieves' \in Nat /\ gcCalls' \in 0..MaxCalls
    BY <1>1, <1>2, <1>3, GcRestIsTyped, GcHeadIsTruthful
  <2> QED BY <1>1, <1>2, <1>3, <2>1, GcCallerStepKeeps, GcGoesOnAsItWas
<1>4. CASE /\ Gc!Take(1) /\ gcThieves' \in {gcThieves, gcThieves + 1}
           /\ Gc!Goes(c, GcResult(q))
  <2>1. GcResult(q) \in GcCallRecords /\ GcGoesOn(q, GcResult(q)) /\ GcInHand(GcResult(q))
    BY <1>1, GcAskForResult
  <2>2. /\ gcRequests' \in Seq({x \in GcAsked : GcComplete(x)}) /\ gcWire' \in Seq(GcTruthful)
        /\ gcHolder' \in Actors \union {Gc!Nobody} /\ gcThieves' \in Nat /\ gcCalls' \in 0..MaxCalls
    BY <1>2, <1>4, GcRestIsTyped, GcTakeKeeps
  <2> QED BY <1>2, <1>4, <2>1, <2>2, GcCallerStepKeeps
<1> QED BY <1>3, <1>4 DEF Gc!Collect, GcResult

LEMMA GcAbandonKeeps ==
  ASSUME Gc!GuestAssumption, GcIInv, NEW c \in Actors, Gc!Abandon(c) PROVE GcIInv'
<1> DEFINE q == gcCall[c]
<1>1. q \in GcCallRecords /\ GcInHand(q) /\ q.at = "collect"
  BY GcCallerIsRecord DEF Gc!Abandon
<1>2. /\ UNCHANGED <<Gc!boot, Gc!inside, gcRequests, gcWire, gcHolder, Gc!outside, gcCalls>>
      /\ gcThieves' = gcThieves + 1
  BY DEF Gc!Abandon
<1>3. CASE Gc!Goto(c, Gc!Idle)
  <2>1. GcGoesOn(q, Gc!Idle)
    BY GcIdleIsRecord DEF GcGoesOn
  <2> QED BY <1>2, <1>3, <2>1, GcIdleIsRecord, GcMovesOnKeeps
<1>4. CASE Gc!Goto(c, GcResult(q))
  <2>1. GcResult(q) \in GcCallRecords /\ GcGoesOn(q, GcResult(q)) /\ GcInHand(GcResult(q))
    BY <1>1, GcAskForResult
  <2> QED BY <1>2, <1>4, <2>1, GcMovesOnKeeps
<1> QED BY <1>3, <1>4 DEF Gc!Abandon, GcResult

LEMMA GcReturnKeeps ==
  ASSUME Gc!GuestAssumption, GcIInv, NEW c \in Actors, Gc!Return(c) PROVE GcIInv'
<1>1. GcGoesOn(gcCall[c], Gc!Idle)
  BY GcIdleIsRecord DEF GcGoesOn
<1> QED BY <1>1, GcIdleIsRecord, GcMovesOnKeeps DEF Gc!Return

\* Who reads beside the calls: readers that stayed behind, and Ready, which
\* takes an event for what the guest has sent.
LEMMA GcReadersKeep == ASSUME GcIInv, Gc!Steal \/ Gc!Ready PROVE GcIInv'
<1>1. /\ \/ UNCHANGED gcCall
         \/ gcCall' = [d \in Actors |-> Gc!Tear(gcCall[d])]
      /\ UNCHANGED <<gcGuest, gcState, Gc!inside, gcRequests, gcHolder, Gc!outside, gcCalls>>
  BY DEF Gc!Steal, Gc!Ready, Gc!boot
<1>2. ASSUME NEW d \in Actors
      PROVE  gcCall'[d] \in GcCallRecords /\ GcGoesOn(gcCall[d], gcCall'[d]) /\ GcInHand(gcCall'[d])
  <2>1. gcCall'[d] \in {gcCall[d], Gc!Tear(gcCall[d])}
    BY <1>1
  <2> QED BY <2>1, GcCallerIsRecord, GcTearIsRecord DEF GcGoesOn
<1>3. gcCall' \in [Actors -> GcCallRecords]
  <2>1. gcCall' = [d \in Actors |-> gcCall'[d]]
    BY <1>1 DEF GcIInv, Gc!TypeOK
  <2> QED BY <1>2, <2>1
<1>4. gcWire' \in Seq(GcTruthful)
  <2>1. \/ gcWire' = gcWire
        \/ gcWire # <<>> /\ gcWire' = Tail(gcWire)
        \/ Gc!Take(1)
    BY DEF Gc!Steal, Gc!Ready
  <2> QED BY <2>1, GcRestIsTyped, GcHeadIsTruthful, GcTakeKeeps
<1>5. gcThieves' \in Nat
  <2>1. gcThieves \in Nat /\ (gcThieves' \in {gcThieves, gcThieves + 1} \/ (gcThieves > 0 /\ gcThieves' = gcThieves - 1))
    BY GcRestIsTyped DEF Gc!Steal, Gc!Ready
  <2> QED BY <2>1
<1>6. gcStarter' \in {"idle", "boot", "wait", "heard"} /\ (gcStarter' = "heard" => gcStarter = "heard" \/ GcHeardOf)
  <2>1. CASE Gc!Steal
    BY <2>1 DEF Gc!Steal, Gc!boot, GcIInv, Gc!TypeOK
  <2>2. CASE Gc!Ready
    <3>1. CASE gcWire # <<>> /\ gcStarter' = IF Head(gcWire).type = "event" THEN "heard" ELSE "idle"
      <4>1. Head(gcWire) \in GcTruthful
        BY <3>1, GcHeadIsTruthful
      <4> QED BY <3>1, <4>1 DEF GcTruthful
    <3>2. CASE gcStarter' = "idle"
      BY <3>2
    <3> QED BY <2>2, <3>1, <3>2 DEF Gc!Ready
  <2> QED BY <2>1, <2>2
<1>7. /\ gcRequests' \in Seq({x \in GcAsked : GcComplete(x)})
      /\ gcHolder' \in Actors \union {Gc!Nobody} /\ gcCalls' \in 0..MaxCalls
  BY <1>1, GcRestIsTyped
<1> QED BY <1>1, <1>2, <1>3, <1>4, <1>5, <1>6, <1>7, GcCallersStepKeeps

-----------------------------------------------------------------------------
(* Exports.                                                                 *)

LEMMA GcNextArtifactKeeps ==
  ASSUME GcIInv, NEW c \in Actors, Gc!NextArtifact(c) PROVE GcIInv'
<1> DEFINE q == gcCall[c]
<1>1. /\ q.at = "next" /\ gcHolder' \in {gcHolder, Gc!Nobody} /\ gcThieves' \in {gcThieves, gcThieves + 1}
      /\ UNCHANGED <<Gc!boot, Gc!inside, gcRequests, gcWire, Gc!outside, gcCalls>>
  BY Zenon DEF Gc!NextArtifact
<1>2. q \in GcCallRecords /\ GcInHand(q)
  BY GcCallerIsRecord
<1>3. CASE Gc!Goto(c, [q EXCEPT !.at = "done", !.kind = "list"])
  <2> DEFINE rec == [q EXCEPT !.at = "done", !.kind = "list"]
  <2>1. /\ rec \in GcCallRecords /\ rec.at = "done" /\ rec.kind = "list" /\ rec.written = q.written
        /\ rec.got = q.got
    BY <1>2 DEF GcCallRecords, Gc!Kinds
  <2>2. Gc!Goto(c, rec)
    BY <1>3
  <2> HIDE DEF rec
  <2>3. GcInHand(rec) /\ GcGoesOn(q, rec)
    BY <1>2, <2>1 DEF GcInHand, GcGoesOn
  <2> QED BY <1>1, <2>1, <2>2, <2>3, GcMovesOnKeeps
<1>4. ASSUME NEW p \in q.todo,
             Gc!Goto(c, [q EXCEPT !.at = "lock", !.kind = "pull", !.path = p, !.content = Gc!Absent])
      PROVE  GcIInv'
  <2> DEFINE rec == [q EXCEPT !.at = "lock", !.kind = "pull", !.path = p, !.content = Gc!Absent]
  <2>1. /\ rec \in GcCallRecords /\ rec.at = "lock" /\ rec.kind = "pull" /\ rec.written = q.written
        /\ rec.got = q.got /\ rec.content = Gc!Absent
    BY <1>2 DEF GcCallRecords, Gc!Kinds, Gc!File
  <2>2. Gc!Goto(c, rec)
    BY <1>4
  <2> HIDE DEF rec
  <2>3. GcInHand(rec) /\ GcGoesOn(q, rec)
    BY <1>2, <2>1 DEF GcInHand, GcGoesOn, GcComplete, Gc!File
  <2> QED BY <1>1, <2>1, <2>2, <2>3, GcMovesOnKeeps
<1> QED BY Zenon, <1>3, <1>4 DEF Gc!NextArtifact

\* Who writes to a name, in the model's words and in the proof's.
LEMMA GcUsingIs ==
  ASSUME NEW c, NEW n PROVE Gc!Using(c, n) <=> GcFills(c, n) \/ GcWrote(c, n)
BY DEF Gc!Using, GcFills, GcWrote

\* A step that writes to one name keeps what is said of files, where it
\* keeps it for that name.
LEMMA GcExportStepKeeps ==
  ASSUME GcIInv, NEW c \in Actors, NEW rec \in GcCallRecords, GcInHand(rec), Gc!Goto(c, rec),
         UNCHANGED <<Gc!boot, Gc!inside, gcRequests, gcWire, gcHolder, gcThieves, gcCalls>>,
         gcExported' \in [Gc!Names -> Gc!File \union {Gc!Emptied, Gc!Partial, Gc!Spliced}],
         gcAgain' \subseteq Gc!Names, GcExports'
  PROVE  GcIInv'
<1>1. \A d \in Actors : gcCall'[d] \in GcCallRecords /\ GcInHand(gcCall'[d])
  <2>1. \A d \in Actors : gcCall'[d] \in {rec, gcCall[d]}
    BY DEF Gc!Goto, GcIInv, Gc!TypeOK
  <2> QED BY <2>1, GcCallerIsRecord
<1>2. gcCall' \in [Actors -> GcCallRecords]
  <2>1. gcCall' = [d \in Actors |-> gcCall'[d]]
    BY DEF Gc!Goto, GcIInv, Gc!TypeOK
  <2> QED BY <1>1, <2>1
<1>3. Gc!TypeOK'
  BY <1>2 DEF GcIInv, Gc!TypeOK, GcCallRecords, Gc!boot, Gc!inside
<1>4. GcGrows /\ (GcHeardOf => GcHeardOf')
  BY DEF GcGrows, GcHeardOf, Gc!inside, Gc!boot
<1>5. \A d \in Actors : GcInHand(gcCall[d])'
  BY <1>1, <1>4, GcInHandLater
<1>6. gcWire' \in Seq(GcTruthful')
  BY <1>4, GcTruthfulLater DEF GcIInv
<1>7. gcStarter' = "heard" => GcHeardOf'
  BY DEF GcIInv, GcHeardOf, Gc!boot
<1> QED BY <1>3, <1>5, <1>6, <1>7 DEF GcIInv, Gc!inside

\* An opened file is empty; where it was in use, that is on record.
LEMMA GcOpenFileKeeps ==
  ASSUME Gc!GuestAssumption, GcIInv, NEW c \in Actors, Gc!OpenFile(c) PROVE GcIInv'
<1> DEFINE q == gcCall[c]
           n == Base[q.path]
<1>1. q \in GcCallRecords /\ GcInHand(q) /\ q.at = "open" /\ n \in Gc!Names
  BY GcCallerIsRecord DEF Gc!OpenFile, GcCallRecords, Gc!Names
<1>2. UNCHANGED <<Gc!boot, Gc!inside, gcRequests, gcWire, gcHolder, gcThieves, gcCalls>>
  BY DEF Gc!OpenFile
<1>3. CASE Gc!Goto(c, Gc!Failed(q)) /\ UNCHANGED Gc!outside
  <2>1. Gc!Failed(q) \in GcCallRecords /\ GcGoesOn(q, Gc!Failed(q)) /\ GcInHand(Gc!Failed(q))
    BY <1>1, GcFailedIsRecord DEF GcGoesOn
  <2> QED BY <1>2, <1>3, <2>1, GcMovesOnKeeps
<1>4. CASE /\ gcExported' = [gcExported EXCEPT ![n] = Gc!Emptied]
           /\ gcAgain' = gcAgain \union {m \in {n} : \E d \in Actors : Gc!Using(d, m)}
           /\ Gc!Goto(c, [q EXCEPT !.at = "fill"])
  <2> DEFINE rec == [q EXCEPT !.at = "fill"]
  <2>1. /\ rec \in GcCallRecords /\ rec.at = "fill" /\ rec.written = q.written /\ rec.path = q.path
        /\ rec.content = q.content /\ rec.got = q.got
    BY <1>1 DEF GcCallRecords
  <2>2. gcCall' = [gcCall EXCEPT ![c] = rec]
    BY <1>4 DEF Gc!Goto
  <2>3. gcCall'[c] = rec /\ \A d \in Actors : d # c => gcCall'[d] = gcCall[d]
    BY <2>2 DEF GcIInv, Gc!TypeOK
  <2> HIDE DEF rec
  <2>4. GcInHand(rec)
    BY <1>1, <2>1 DEF GcInHand
  <2>5. /\ gcExported' \in [Gc!Names -> Gc!File \union {Gc!Emptied, Gc!Partial, Gc!Spliced}]
        /\ gcExported'[n] = Gc!Emptied /\ \A m \in Gc!Names : m # n => gcExported'[m] = gcExported[m]
        /\ gcAgain' \subseteq Gc!Names /\ gcAgain \subseteq gcAgain'
        /\ n \notin gcAgain' => \A d \in Actors : ~GcFills(d, n) /\ ~GcWrote(d, n)
    BY <1>1, <1>4, GcUsingIs DEF GcIInv, Gc!TypeOK
  <2> HIDE DEF n
  <2>6. ASSUME NEW d \in Actors, NEW m \in Gc!Names
        PROVE  /\ GcWrote(d, m)' <=> GcWrote(d, m)
               /\ m # n => (GcFills(d, m)' <=> GcFills(d, m))
               /\ m = n => (GcFills(d, m)' <=> GcFills(d, m) \/ d = c)
    <3>1. CASE d # c
      BY <2>3, <3>1 DEF GcWrote, GcFills
    <3>2. CASE d = c
      BY <1>1, <2>1, <2>3, <3>2 DEF GcWrote, GcFills, n
    <3> QED BY <3>1, <3>2
  <2>7. ASSUME NEW d \in Actors, NEW m \in Gc!Names, m \notin gcAgain',
               NEW p \in gcCall'[d].written, Base[p] = m
        PROVE  GcOnHost(p)'
    <3>1. p \in gcCall[d].written
      BY <2>1, <2>3
    <3>2. GcWrote(d, m)
      BY <2>7, <3>1 DEF GcWrote
    <3>3. m # n
      BY <2>5, <2>7, <3>2
    <3>4. GcOnHost(p)
      BY <2>5, <2>7, <3>1 DEF GcIInv, GcExports
    <3> QED BY <1>2, <2>5, <2>7, <3>3, <3>4 DEF GcOnHost, Gc!inside
  <2>8. ASSUME NEW d \in Actors, NEW m \in Gc!Names, m \notin gcAgain'
        PROVE  /\ GcFills(d, m)' => gcExported'[m] = Gc!Emptied /\ ~GcWrote(d, m)'
               /\ GcFills(d, m)' \/ GcWrote(d, m)' =>
                    \A e \in Actors : GcFills(e, m)' \/ GcWrote(e, m)' => e = d
    BY <2>5, <2>6, <2>8 DEF GcIInv, GcExports
  <2>9. GcExports'
    BY <2>7, <2>8 DEF GcExports, Gc!Names
  <2> QED BY <1>2, <1>4, <2>1, <2>4, <2>5, <2>9, GcExportStepKeeps DEF rec
<1> QED BY <1>3, <1>4 DEF Gc!OpenFile

\* A file is written by the one that opened it last, or is on record; an
\* export that fails has not written it.
LEMMA GcFillFileKeeps ==
  ASSUME Gc!GuestAssumption, GcIInv, NEW c \in Actors, Gc!FillFile(c) PROVE GcIInv'
<1> DEFINE q == gcCall[c]
           n == Base[q.path]
           filled == [q EXCEPT !.at = "next", !.todo = @ \ {q.path}, !.written = @ \union {q.path}]
<1>1. q \in GcCallRecords /\ GcInHand(q) /\ q.at = "fill" /\ n \in Gc!Names
  BY GcCallerIsRecord DEF Gc!FillFile, GcCallRecords, Gc!Names
<1>2. UNCHANGED <<Gc!boot, Gc!inside, gcRequests, gcWire, gcHolder, gcThieves, gcAgain, gcCalls>>
  BY DEF Gc!FillFile
<1>3. q.path \in GuestPaths /\ q.content \in GcHas(q.path) /\ q.content \in Gc!File \union {Gc!Spliced}
  BY <1>1 DEF GcInHand, GcCallRecords
<1>4. /\ filled \in GcCallRecords /\ filled.at = "next" /\ filled.written = q.written \union {q.path}
      /\ filled.got = q.got
  BY <1>1 DEF GcCallRecords
<1>5. GcInHand(filled)
  BY <1>1, <1>4 DEF GcInHand
<1>6. Gc!Failed(q) \in GcCallRecords /\ GcGoesOn(q, Gc!Failed(q)) /\ GcInHand(Gc!Failed(q))
      /\ Gc!Failed(q).at \in {"idle", "done"}
  BY <1>1, GcFailedIsRecord DEF GcGoesOn
<1>7. PICK rec \in {filled, Gc!Failed(q)} :
        /\ Gc!Goto(c, rec)
        /\ \/ /\ rec = filled
              /\ \E x \in {q.content} \union {y \in {Gc!Partial} : gcExported[n] # Gc!Emptied} :
                   gcExported' = [gcExported EXCEPT ![n] = x]
           \/ /\ rec = Gc!Failed(q)
              /\ gcExported' \in {gcExported, [gcExported EXCEPT ![n] = Gc!Partial]}
  BY DEF Gc!FillFile
<1> HIDE DEF filled
<1>8. /\ gcExported' \in [Gc!Names -> Gc!File \union {Gc!Emptied, Gc!Partial, Gc!Spliced}]
      /\ \A m \in Gc!Names : m # n => gcExported'[m] = gcExported[m]
      /\ rec = filled /\ gcExported[n] = Gc!Emptied => gcExported'[n] = q.content \/ rec = Gc!Failed(q)
  BY <1>1, <1>3, <1>7 DEF GcIInv, Gc!TypeOK
<1>9. gcCall'[c] = rec /\ \A d \in Actors : d # c => gcCall'[d] = gcCall[d]
  BY <1>7 DEF Gc!Goto, GcIInv, Gc!TypeOK
<1>10. GcFills(c, n)
  BY <1>1 DEF GcFills
<1> HIDE DEF n
<1>11. ASSUME NEW d \in Actors, NEW m \in Gc!Names
       PROVE  /\ GcFills(d, m)' => GcFills(d, m) /\ d # c
              /\ GcWrote(d, m)' => GcWrote(d, m) \/ (d = c /\ m = n /\ rec = filled)
  <2>1. CASE d # c
    BY <1>9, <2>1 DEF GcFills, GcWrote
  <2>2. CASE d = c
    BY <1>4, <1>6, <1>7, <1>9, <2>2 DEF GcFills, GcWrote, GcGoesOn, n
  <2> QED BY <2>1, <2>2
<1>12. n \notin gcAgain => /\ gcExported[n] = Gc!Emptied
                           /\ \A d \in Actors : ~GcWrote(d, n) /\ (GcFills(d, n) => d = c)
  BY <1>1, <1>10 DEF GcIInv, GcExports
<1>13. ASSUME NEW d \in Actors, NEW m \in Gc!Names, m \notin gcAgain,
              NEW p \in gcCall'[d].written, Base[p] = m
       PROVE  GcOnHost(p)'
  <2>1. GcWrote(d, m)'
    BY <1>13 DEF GcWrote
  <2>2. CASE m # n
    <3>1. p \in gcCall[d].written
      BY <1>4, <1>6, <1>7, <1>9, <1>13, <2>2 DEF GcGoesOn, n
    <3>2. GcOnHost(p)
      BY <1>13, <3>1 DEF GcIInv, GcExports
    <3> QED BY <1>2, <1>8, <1>13, <2>2, <3>2 DEF GcOnHost, Gc!inside
  <2>3. CASE m = n
    <3>1. d = c /\ rec = filled /\ gcExported[n] = Gc!Emptied
      BY <1>11, <1>12, <1>13, <2>1, <2>3
    <3>2. gcExported'[Base[p]] = q.content \/ rec = Gc!Failed(q)
      BY <1>8, <1>13, <2>3, <3>1
    <3>3. rec # Gc!Failed(q)
      BY <1>4, <1>6, <3>1
    <3>4. Base[q.path] = Base[p] /\ gcExported'[Base[p]] \in GcHas(q.path)
      BY <1>3, <1>13, <2>3, <3>2, <3>3 DEF n
    <3> QED BY <1>2, <1>3, <3>4 DEF GcOnHost, GcHas, Gc!inside
  <2> QED BY <2>2, <2>3
<1>14. ASSUME NEW d \in Actors, NEW m \in Gc!Names, m \notin gcAgain
       PROVE  /\ GcFills(d, m)' => gcExported'[m] = Gc!Emptied /\ ~GcWrote(d, m)'
              /\ GcFills(d, m)' \/ GcWrote(d, m)' =>
                   \A e \in Actors : GcFills(e, m)' \/ GcWrote(e, m)' => e = d
  BY <1>8, <1>11, <1>12, <1>14 DEF GcIInv, GcExports
<1>15. GcExports'
  BY <1>2, <1>13, <1>14 DEF GcExports, Gc!Names
<1> QED BY <1>2, <1>4, <1>5, <1>6, <1>7, <1>8, <1>15, GcExportStepKeeps DEF GcIInv, Gc!TypeOK

-----------------------------------------------------------------------------
(* Every step.                                                              *)

LEMMA GcInitially == ASSUME Gc!GuestAssumption PROVE Gc!Init => GcIInv
<1> SUFFICES ASSUME Gc!Init PROVE GcIInv
  OBVIOUS
<1>1. gcCall \in [Actors -> GcCallRecords] /\ \A c \in Actors : gcCall[c] = Gc!Idle
  BY GcIdleIsRecord DEF Gc!Init
<1>2. /\ gcFiles \in [GuestPaths -> Gc!File] /\ gcEver \in [GuestPaths -> SUBSET GuestContents]
      /\ \A p \in GuestPaths : gcFiles[p] # Gc!Absent => gcFiles[p] \in gcEver[p]
  BY DEF Gc!Init, Gc!GuestAssumption, Gc!Had, Gc!File
<1>3. Gc!TypeOK
  <2>1. gcRequests \in Seq(GcAsked) /\ gcWire \in Seq(Gc!Frames)
    BY EmptySeq DEF Gc!Init
  <2>2. gcCalls \in 0..MaxCalls /\ gcThieves \in Nat
    BY DEF Gc!Init, Gc!GuestAssumption
  <2>3. gcExported \in [Gc!Names -> Gc!File \union {Gc!Emptied, Gc!Partial, Gc!Spliced}]
    BY DEF Gc!Init, Gc!File
  <2> QED BY <1>1, <1>2, <2>1, <2>2, <2>3 DEF Gc!Init, Gc!TypeOK, GcCallRecords, GcAsked
<1>4. ASSUME NEW c \in Actors PROVE GcInHand(gcCall[c])
  BY Zenon, <1>1, GcIdleIsRecord
<1>5. GcExports
  BY <1>1, GcIdleIsRecord DEF GcExports, GcFills, GcWrote
<1> QED BY <1>2, <1>3, <1>4, <1>5, EmptySeq DEF Gc!Init, GcIInv

LEMMA GcStepKeeps == ASSUME Gc!GuestAssumption, GcIInv, [Gc!Next]_(Gc!vars) PROVE GcIInv'
<1>1. CASE Gc!Boot \/ Gc!Started \/ Gc!AgentReady \/ Gc!MarkWarm \/ Gc!Stop
  BY <1>1, GcBootKeeps, GcBootEndKeeps, GcAgentReadyKeeps
<1>2. CASE Gc!Ready \/ Gc!Steal
  BY <1>2, GcReadersKeep
<1>3. CASE Gc!GuestAnswers
  BY <1>3, GcGuestAnswersKeeps
<1>4. ASSUME NEW p \in GuestPaths, NEW x \in GuestContents, Gc!GuestWorks(p, x) PROVE GcIInv'
  BY <1>4, GcGuestWorksKeeps
<1>5. ASSUME NEW c \in Actors, NEW p \in GuestPaths, Gc!Call(c, "read", p, Gc!Absent) PROVE GcIInv'
  BY <1>5, GcCallKeeps DEF Gc!Kinds, Gc!File
<1>6. ASSUME NEW c \in Actors, NEW p \in GuestPaths, NEW x \in GuestContents, Gc!Call(c, "write", p, x)
      PROVE  GcIInv'
  BY <1>6, GcCallKeeps DEF Gc!Kinds, Gc!File
<1>7. ASSUME NEW c \in Actors, NEW kind \in {"exec", "list"}, Gc!Call(c, kind, Gc!Idle.path, Gc!Absent)
      PROVE  GcIInv'
  BY <1>7, GcCallKeeps, GcIdleIsRecord DEF Gc!Kinds, Gc!File
<1>8. ASSUME NEW c \in Actors,
             \/ Gc!Send(c) \/ Gc!ReadOn(c) \/ Gc!Receive(c) \/ Gc!EndOfFrames(c) \/ Gc!Return(c)
             \/ Gc!NextArtifact(c) \/ Gc!OpenFile(c) \/ Gc!FillFile(c) \/ Gc!Collect(c) \/ Gc!Abandon(c)
      PROVE  GcIInv'
  BY <1>8, GcSendKeeps, GcReadOnKeeps, GcReceiveKeeps, GcEndOfFramesKeeps, GcReturnKeeps,
     GcNextArtifactKeeps, GcOpenFileKeeps, GcFillFileKeeps, GcCollectKeeps, GcAbandonKeeps
<1>9. CASE UNCHANGED Gc!vars
  <2>1. GcExports' = GcExports
    BY <1>9 DEF Gc!vars, Gc!outside, Gc!inside, GcExports, GcFills, GcWrote, GcOnHost
  <2> QED BY <1>9, <2>1 DEF Gc!vars, GcIInv, Gc!TypeOK, GcTruthful, GcInHand, GcHolds, GcHas, GcHeardOf
<1> QED BY <1>1, <1>2, <1>3, <1>4, <1>5, <1>6, <1>7, <1>8, <1>9 DEF Gc!Next

LEMMA GcInvariance == ASSUME Gc!GuestAssumption PROVE Gc!Spec => []GcIInv
<1>1. Gc!Init => GcIInv
  BY GcInitially
<1>2. GcIInv /\ [Gc!Next]_(Gc!vars) => GcIInv'
  BY GcStepKeeps
<1> QED BY <1>1, <1>2, PTL DEF Gc!Spec

-----------------------------------------------------------------------------
(* What holds of the guest beside the other parts.                          *)

LEMMA GcIsAPart == Spec => Gc!Spec
<1>1. Init => Gc!Init
  BY DEF Init
<1>2. [Next]_vars => [Gc!Next]_(Gc!vars)
  BY DEF Next, vars, gc, Gc!vars
<1> QED BY <1>1, <1>2, PTL DEF Spec, Gc!Spec

LEMMA GcAlways == Spec => []GcIInv /\ [][Gc!Next]_(Gc!vars)
<1>1. Gc!GuestAssumption
  BY PartsAssumption DEF PartsAssumption
<1> QED BY <1>1, GcIsAPart, GcInvariance, PTL DEF Gc!Spec

\* No guest is marked warm before it has sent its ready event, whatever
\* frames were lost, split or taken by others.
THEOREM AlwaysWarmAfterReady == Spec => WarmAfterReady
<1>1. GcIInv /\ [Gc!Next]_(Gc!vars)
        => [gcState # "warm" /\ gcState' = "warm" => gcGuest \in {"ready", "gone"}]_(Gc!vars)
  <2> SUFFICES ASSUME GcIInv, Gc!Next, gcState # "warm", gcState' = "warm"
               PROVE  gcGuest \in {"ready", "gone"}
    OBVIOUS
  <2>1. CASE Gc!MarkWarm
    BY <2>1 DEF Gc!MarkWarm, GcIInv, GcHeardOf
  <2>2. CASE ~Gc!MarkWarm
    <3>1. CASE Gc!Boot \/ Gc!Started \/ Gc!AgentReady \/ Gc!Ready \/ Gc!Stop
      BY <3>1 DEF Gc!Boot, Gc!Started, Gc!AgentReady, Gc!Ready, Gc!Stop
    <3>2. CASE Gc!GuestAnswers \/ Gc!Steal \/ \E p \in GuestPaths, x \in GuestContents : Gc!GuestWorks(p, x)
      BY <3>2 DEF Gc!GuestAnswers, Gc!Steal, Gc!GuestWorks, Gc!boot
    <3>3. ASSUME NEW c \in Actors, NEW kind, NEW p, NEW x, Gc!Call(c, kind, p, x) PROVE UNCHANGED gcState
      BY <3>3 DEF Gc!Call, Gc!boot
    <3>4. ASSUME NEW c \in Actors,
                 \/ Gc!Send(c) \/ Gc!ReadOn(c) \/ Gc!Receive(c) \/ Gc!EndOfFrames(c) \/ Gc!Return(c)
                 \/ Gc!NextArtifact(c) \/ Gc!OpenFile(c) \/ Gc!FillFile(c) \/ Gc!Collect(c) \/ Gc!Abandon(c)
          PROVE  UNCHANGED gcState
      BY <3>4, Zenon DEF Gc!Send, Gc!ReadOn, Gc!Receive, Gc!EndOfFrames, Gc!Return, Gc!NextArtifact,
         Gc!OpenFile, Gc!FillFile, Gc!Collect, Gc!Abandon, Gc!boot
    <3> QED BY <2>2, <3>1, <3>2, <3>3, <3>4 DEF Gc!Next
  <2> QED BY <2>1, <2>2
<1> QED BY <1>1, GcAlways, PTL DEF WarmAfterReady, Gc!WarmAfterReady

\* A read returns what its path has held, or what was put together from two
\* frames, whoever asked for the frame and whoever took its rest.
THEOREM ReadAlwaysOfItsPath == Spec => []ReadIsOfItsPath
<1>1. GcIInv => ReadIsOfItsPath
  BY DEF GcIInv, GcInHand, GcHas, ReadIsOfItsPath, Gc!ReadIsOfItsPath
<1> QED BY <1>1, GcAlways, PTL

\* What an export says it wrote is on the host under its name, unless that
\* name was opened again: it has been in the guest under a path of that name,
\* or was put together from two frames.
THEOREM ExportedAlwaysThere == Spec => []ExportedIsThere
<1>1. GcIInv => ExportedIsThere
  <2> SUFFICES ASSUME GcIInv, NEW c \in Actors, NEW p \in gcCall[c].written, Base[p] \notin gcAgain
               PROVE  GcOnHost(p)
    BY DEF ExportedIsThere, Gc!ExportedIsThere, GcOnHost
  <2>1. p \in GuestPaths
    BY GcCallerIsRecord DEF GcCallRecords
  <2> QED BY <2>1 DEF GcIInv, GcExports, Gc!Names
<1> QED BY <1>1, GcAlways, PTL

-----------------------------------------------------------------------------
(* A chunk is in the kernel's pipe, in the hands of one of the two          *)
(* goroutines, or sent.                                                     *)

\* Chunks a goroutine has read and not passed on.
ShHolding(g) == IF shAt[g] = "write" THEN 1 ELSE 0

ShNoChunkIsLost ==
  shClient = "here" => shSent + ShHolding("sender") + ShHolding("drainer") + shStdout = shWritten

\* The session ends from the shell to the socket, one after the other.
ShEndsInOrder ==
  /\ shAt["drainer"] = "over" => shStdout = 0 /\ shShell = "exited" /\ shHelper # "alive"
  /\ shHandler # "wait" => shAt["drainer"] = "over" /\ shAt["feeder"] = "over"
  /\ shAt["sender"] = "over" => shHandler # "wait"
  /\ shHandler = "returned" => shAt["sender"] = "over"

ShInv == Sh!TypeOK /\ ShNoChunkIsLost /\ ShEndsInOrder

\* A step of one goroutine, on its own or with another.
LEMMA ShAtAfter ==
  ASSUME Sh!TypeOK, NEW g \in Sh!Goroutines, NEW s \in {"read", "write", "over"},
         shAt' = [shAt EXCEPT ![g] = s]
  PROVE  shAt' \in [Sh!Goroutines -> {"read", "write", "over"}] /\ shAt'[g] = s
         /\ \A o \in Sh!Goroutines \ {g} : shAt'[o] = shAt[o]
BY DEF Sh!TypeOK

LEMMA ShTheFour == Sh!Goroutines = {"reader", "feeder", "drainer", "sender"}
BY DEF Sh!Goroutines

\* The client, the processes and what is typed.
LEMMA ShInputKeeps ==
  ASSUME Sh!ShellAssumption, ShInv,
         \/ Sh!Type \/ Sh!Leave \/ Sh!ShellReads \/ Sh!Fork \/ Sh!ShellExits \/ Sh!HelperExits
         \/ Sh!ReadMessage \/ Sh!ReadFails \/ Sh!PassIn \/ Sh!Feed \/ Sh!FeederEnds \/ UNCHANGED Sh!vars
  PROVE  ShInv'
<1> USE DEF ShInv, ShNoChunkIsLost, ShEndsInOrder, ShHolding
<1>1. CASE Sh!Type
  BY <1>1 DEF Sh!ShellAssumption, Sh!Type, Sh!TypeOK, Sh!processes, Sh!output
<1>2. CASE Sh!Leave
  BY <1>2 DEF Sh!Leave, Sh!TypeOK, Sh!input, Sh!processes, Sh!output
<1>3. CASE Sh!ShellReads
  BY <1>3 DEF Sh!ShellAssumption, Sh!ShellReads, Sh!TypeOK, Sh!peer, Sh!processes, Sh!output
<1>4. CASE Sh!Fork \/ Sh!ShellExits \/ Sh!HelperExits
  BY <1>4 DEF Sh!Fork, Sh!ShellExits, Sh!HelperExits, Sh!TypeOK, Sh!peer, Sh!output
<1>5. CASE Sh!ReadMessage
  <2>1. shAt' = [shAt EXCEPT !["reader"] = "write"] /\ shSocket > 0 /\ shSocket' = shSocket - 1
        /\ UNCHANGED <<shClient, shTyped, Sh!processes, shStdin, Sh!output, shHandler>>
    BY <1>5 DEF Sh!ReadMessage
  <2> QED BY <2>1, ShAtAfter, ShTheFour DEF Sh!TypeOK, Sh!processes, Sh!output
<1>6. CASE Sh!ReadFails
  <2>1. shAt' = [shAt EXCEPT !["reader"] = "over"] /\ UNCHANGED <<Sh!peer, Sh!processes, shStdin, Sh!output, shHandler>>
    BY <1>6 DEF Sh!ReadFails
  <2> QED BY <2>1, ShAtAfter, ShTheFour DEF Sh!TypeOK, Sh!peer, Sh!processes, Sh!output
<1>7. CASE Sh!PassIn
  <2>1. shAt' = [shAt EXCEPT !["reader"] = "read", !["feeder"] = "write"] /\ shAt["feeder"] = "read"
        /\ UNCHANGED <<Sh!peer, Sh!processes, shStdin, Sh!output, shHandler>>
    BY <1>7 DEF Sh!PassIn
  <2>2. /\ shAt' \in [Sh!Goroutines -> {"read", "write", "over"}]
        /\ shAt'["drainer"] = shAt["drainer"] /\ shAt'["sender"] = shAt["sender"]
    BY <2>1, ShTheFour DEF Sh!TypeOK
  <2> QED BY <2>1, <2>2 DEF Sh!TypeOK, Sh!peer, Sh!processes, Sh!output
<1>8. CASE Sh!Feed
  <2>1. shAt' = [shAt EXCEPT !["feeder"] = "read"] /\ shAt["feeder"] = "write"
        /\ shStdin' = shStdin + 1 /\ shStdin < PipeSize /\ UNCHANGED <<Sh!peer, Sh!processes, Sh!output, shHandler>>
    BY <1>8 DEF Sh!Feed
  <2> QED BY <2>1, ShAtAfter, ShTheFour DEF Sh!ShellAssumption, Sh!TypeOK, Sh!peer, Sh!processes,
             Sh!output
<1>9. CASE Sh!FeederEnds
  <2>1. shAt' = [shAt EXCEPT !["feeder"] = "over"] /\ UNCHANGED <<Sh!peer, Sh!processes, shStdin, Sh!output, shHandler>>
    BY <1>9 DEF Sh!FeederEnds
  <2> QED BY <2>1, ShAtAfter, ShTheFour DEF Sh!TypeOK, Sh!peer, Sh!processes, Sh!output
<1>10. CASE UNCHANGED Sh!vars
  BY <1>10 DEF Sh!vars, Sh!TypeOK, Sh!input, Sh!processes, Sh!output
<1> QED BY <1>1, <1>2, <1>3, <1>4, <1>5, <1>6, <1>7, <1>8, <1>9, <1>10

\* What is written, on its way to the client, and the end of the session.
LEMMA ShOutputKeeps ==
  ASSUME Sh!ShellAssumption, ShInv,
         Sh!Produce \/ Sh!Drain \/ Sh!PassOut \/ Sh!DrainerEnds \/ Sh!Send \/ Sh!SenderEnds \/ Sh!WaitReturns \/ Sh!Return
  PROVE  ShInv'
<1> USE DEF ShInv, ShNoChunkIsLost, ShEndsInOrder, ShHolding
<1>1. CASE Sh!Produce
  BY <1>1 DEF Sh!ShellAssumption, Sh!Produce, Sh!TypeOK, Sh!peer, Sh!processes
<1>2. CASE Sh!Drain
  <2>1. shAt' = [shAt EXCEPT !["drainer"] = "write"] /\ shAt["drainer"] = "read"
        /\ shStdout > 0 /\ shStdout' = shStdout - 1
        /\ UNCHANGED <<Sh!peer, Sh!processes, shStdin, shWritten, shSent, shHandler>>
    BY <1>2 DEF Sh!Drain
  <2> QED BY <2>1, ShAtAfter, ShTheFour DEF Sh!ShellAssumption, Sh!TypeOK, Sh!peer, Sh!processes
<1>3. CASE Sh!PassOut
  <2>1. shAt' = [shAt EXCEPT !["drainer"] = "read", !["sender"] = "write"]
        /\ shAt["drainer"] = "write" /\ shAt["sender"] = "read"
        /\ UNCHANGED <<Sh!peer, Sh!processes, shStdin, Sh!output, shHandler>>
    BY <1>3 DEF Sh!PassOut
  <2>2. /\ shAt' \in [Sh!Goroutines -> {"read", "write", "over"}]
        /\ shAt'["drainer"] = "read" /\ shAt'["sender"] = "write" /\ shAt'["feeder"] = shAt["feeder"]
    BY <2>1, ShTheFour DEF Sh!TypeOK
  <2> QED BY <2>1, <2>2 DEF Sh!TypeOK, Sh!peer, Sh!processes, Sh!output
<1>4. CASE Sh!DrainerEnds
  <2>1. shAt' = [shAt EXCEPT !["drainer"] = "over"] /\ shAt["drainer"] = "read" /\ shStdout = 0
        /\ shShell = "exited" /\ shHelper # "alive"
        /\ UNCHANGED <<Sh!peer, Sh!processes, shStdin, Sh!output, shHandler>>
    BY <1>4 DEF Sh!DrainerEnds
  <2> QED BY <2>1, ShAtAfter, ShTheFour DEF Sh!TypeOK, Sh!peer, Sh!processes, Sh!output
<1>5. CASE Sh!Send
  <2>1. shAt' = [shAt EXCEPT !["sender"] = "read"] /\ shAt["sender"] = "write"
        /\ shSent' = (IF shClient = "here" /\ shHandler # "returned" THEN shSent + 1 ELSE shSent)
        /\ UNCHANGED <<Sh!peer, Sh!processes, shStdin, shStdout, shWritten, shHandler>>
    BY <1>5 DEF Sh!Send
  <2>2. shHandler # "returned"
    BY <2>1
  <2> QED BY <2>1, <2>2, ShAtAfter, ShTheFour DEF Sh!ShellAssumption, Sh!TypeOK, Sh!peer,
             Sh!processes
<1>6. CASE Sh!SenderEnds
  <2>1. shAt' = [shAt EXCEPT !["sender"] = "over"] /\ shAt["sender"] = "read" /\ shHandler # "wait"
        /\ UNCHANGED <<Sh!peer, Sh!processes, shStdin, Sh!output, shHandler>>
    BY <1>6 DEF Sh!SenderEnds
  <2> QED BY <2>1, ShAtAfter, ShTheFour DEF Sh!TypeOK, Sh!peer, Sh!processes, Sh!output
<1>7. CASE Sh!WaitReturns \/ Sh!Return
  BY <1>7 DEF Sh!WaitReturns, Sh!Return, Sh!TypeOK, Sh!peer, Sh!processes, Sh!output
<1> QED BY <1>1, <1>2, <1>3, <1>4, <1>5, <1>6, <1>7

LEMMA ShInvariance == ASSUME Sh!ShellAssumption PROVE Sh!Spec => []ShInv
<1>1. Sh!Init => ShInv
  BY DEF Sh!ShellAssumption, Sh!Init, ShInv, Sh!TypeOK, ShNoChunkIsLost, ShEndsInOrder, ShHolding,
     Sh!Goroutines
<1>2. ShInv /\ [Sh!Next]_(Sh!vars) => ShInv'
  BY ShInputKeeps, ShOutputKeeps DEF Sh!Next, Sh!DaemonStep
<1> QED BY <1>1, <1>2, PTL DEF Sh!Spec

\* What each step of the daemon waits for.
ShCanStep ==
  \/ /\ shAt["reader"] = "read"
     /\ shHandler = "returned" \/ shClient = "gone" \/ shSocket > 0
  \/ shAt["feeder"] = "read" /\ shAt["reader"] \in {"write", "over"}
  \/ /\ shAt["feeder"] = "write"
     /\ shShell = "exited" \/ shStdin < PipeSize
  \/ shAt["drainer"] = "read" /\ shStdout > 0
  \/ shAt["drainer"] = "read" /\ shShell = "exited" /\ shHelper # "alive"
  \/ shAt["drainer"] = "write" /\ shAt["sender"] = "read"
  \/ shAt["sender"] = "write"
  \/ shAt["sender"] = "read" /\ shHandler # "wait"
  \/ shHandler = "wait" /\ shShell = "exited" /\ shAt["feeder"] = "over" /\ shAt["drainer"] = "over"
  \/ shHandler = "drain" /\ shAt["sender"] = "over"

-----------------------------------------------------------------------------
(* What holds of the shell session beside the other parts.                  *)

LEMMA ShIsAPart == Spec => Sh!Spec
<1>1. Init => Sh!Init
  BY DEF Init
<1>2. [Next]_vars => [Sh!Next]_(Sh!vars)
  BY DEF Next, vars, sh, Sh!vars, Sh!input, Sh!processes, Sh!output
<1> QED BY <1>1, <1>2, PTL DEF Spec, Sh!Spec

LEMMA ShHolds == Spec => []ShInv /\ [][Sh!Next]_(Sh!vars)
<1>1. Sh!ShellAssumption
  BY PartsAssumption DEF PartsAssumption
<1> QED BY <1>1, ShIsAPart, ShInvariance, PTL DEF Sh!Spec

\* Every chunk goes from cmd.Stdout through exec's copier and runShell's
\* goroutine to the socket before `<-done` lets the handler return: a client
\* that stays gets all of the output (runShell, ShellSandbox).
THEOREM AllAlwaysSentBeforeClose == Spec => []AllIsSentBeforeClose
<1>1. ShInv => Sh!AllIsSentBeforeClose
  BY DEF ShInv, Sh!TypeOK, ShNoChunkIsLost, ShEndsInOrder, ShHolding, Sh!AllIsSentBeforeClose,
     Sh!Goroutines
<1> QED BY <1>1, ShHolds, PTL DEF AllIsSentBeforeClose

\* The goroutines of a session and cmd.Wait never wait for each other in a
\* ring: WaitsForTheLiving, with the guards of the steps written out where
\* the property says ENABLED.
THEOREM NeverWaitInARing == Spec => [](shHandler # "returned" /\ ~ShCanStep =>
                      shShell = "running" \/ shHelper = "alive" \/ Sh!Silent)
<1>1. ShInv =>
        (shHandler # "returned" /\ ~ShCanStep => shShell = "running" \/ shHelper = "alive" \/ Sh!Silent)
  <2> SUFFICES ASSUME ShInv, shHandler # "returned", ~ShCanStep, shShell = "exited", shHelper # "alive"
               PROVE  Sh!Silent
    BY DEF ShInv, Sh!TypeOK
  <2>1. shAt["reader"] \in {"read", "write", "over"} /\ shAt["feeder"] \in {"read", "write", "over"}
        /\ shAt["drainer"] \in {"read", "write", "over"} /\ shAt["sender"] \in {"read", "write", "over"}
        /\ shHandler \in {"wait", "drain"} /\ shSocket \in 0..shTyped /\ shTyped \in Nat /\ shClient \in {"here", "gone"}
    BY DEF Sh!ShellAssumption, ShInv, Sh!TypeOK, Sh!Goroutines
  <2>2. shAt["sender"] = "over" => shHandler = "drain"
    BY <2>1 DEF ShInv, ShEndsInOrder
  <2>3. shAt["sender"] = "read" /\ shHandler = "wait"
    BY <2>1, <2>2 DEF ShCanStep
  <2>4. shAt["drainer"] = "over" /\ shAt["feeder"] = "read"
    BY <2>1, <2>3 DEF ShCanStep
  <2> QED BY <2>1, <2>3, <2>4 DEF ShCanStep, Sh!Silent
<1> QED BY <1>1, ShHolds, PTL
===============================================================================
