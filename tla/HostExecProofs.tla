---------------------------- MODULE HostExecProofs ----------------------------
(***************************************************************************)
(* Proofs about HostExec, for every budget, chunk, pipe and command.       *)
(***************************************************************************)
EXTENDS HostExec, TLAPS

\* Least returns one of its arguments and exceeds neither.
LEMMA LeastBounds ==
  ASSUME NEW m \in Nat, NEW n \in Nat
  PROVE  /\ Least(m, n) \in Nat /\ Least(m, n) <= m /\ Least(m, n) <= n
         /\ Least(m, n) \in {m, n}
BY DEF Least

-----------------------------------------------------------------------------
(* The inductive invariant: every byte the command wrote is in the pipe, in *)
(* a copier's hands, with the client, or behind the truncated flag; and the *)
(* budget counter covers what was sent and what is being written.           *)

\* What a copier has taken from the budget and not yet sent.
Writing(s) == IF copier[s].at = "write" THEN copier[s].chunk ELSE 0

Seen(s) == pipe[s] + copier[s].chunk + kept[s]

ChunkHeld == \A s \in Streams :
  /\ copier[s].at = "budget" => copier[s].chunk > 0
  /\ copier[s].at \in {"read", "flush", "done"} => copier[s].chunk = 0
  /\ copier[s].at = "done" => pipe[s] = 0 /\ ~HeldOpen

BudgetCovers ==
  kind = "stream" =>
    /\ totalOut <= MaxOutput
    /\ totalOut = kept["stdout"] + kept["stderr"] + Writing("stdout") + Writing("stderr")

NothingHidden ==
  kind = "stream" =>
    /\ \A s \in Streams : Seen(s) <= wrote[s]
    /\ truncated <=> \E s \in Streams : Seen(s) < wrote[s]

ReplyIsLast ==
  reply.at # "none" => /\ Drained
                       /\ kind = "stream" => /\ reply.truncated = truncated
                                             /\ ~mixed => reply.shown = kept

IInv == TypeOK /\ ChunkHeld /\ BudgetCovers /\ NothingHidden /\ ReplyIsLast

\* Counters stay natural, pipes and chunks never go below zero.
LEMMA TypeStep == ASSUME TypeOK, [Next]_vars PROVE TypeOK'
<1> USE ExecAssumption DEF TypeOK, Streams, process, output
<1>1. ASSUME NEW s \in Streams, Produce(s) PROVE TypeOK'
  <2>1. wrote[s] + 1 \in 0..MaxBytes
    BY <1>1 DEF Produce
  <2> QED BY <1>1, <2>1 DEF Produce
<1>2. ASSUME NEW s \in Streams, Buffer(s) PROVE TypeOK'
  <2> DEFINE n == Least(pipe[s], ChunkSize)
  <2>1. n \in Nat /\ pipe[s] - n \in Nat
    BY DEF Least
  <2>2. pipe' = [pipe EXCEPT ![s] = @ - n] /\ kept' = [kept EXCEPT ![s] = @ + n]
    BY <1>2 DEF Buffer
  <2> HIDE DEF n
  <2> QED BY <1>2, <2>1, <2>2 DEF Buffer
<1>3. ASSUME NEW s \in Streams, Read(s) PROVE TypeOK'
  <2> DEFINE n == Least(pipe[s], ChunkSize)
  <2>1. n \in Nat /\ pipe[s] - n \in Nat
    BY DEF Least
  <2>2. /\ pipe' = [pipe EXCEPT ![s] = @ - n]
        /\ copier' = [copier EXCEPT ![s] = [at |-> "budget", chunk |-> n]]
    BY <1>3 DEF Read
  <2> HIDE DEF n
  <2> QED BY <1>3, <2>1, <2>2 DEF Read
<1>4. ASSUME NEW s \in Streams, Spend(s) PROVE TypeOK'
  <2> DEFINE n == Least(copier[s].chunk, MaxOutput - totalOut)
  <2>1. MaxOutput - totalOut \in Nat
    BY <1>4 DEF Spend
  <2>2. n \in Nat
    BY <2>1, LeastBounds
  <2>3. /\ truncated' = (truncated \/ n < copier[s].chunk)
        /\ totalOut' = totalOut + n
        /\ copier' = [copier EXCEPT ![s] = [at |-> "write", chunk |-> n]]
    BY <1>4 DEF Spend
  <2> HIDE DEF n
  <2>4. truncated' \in BOOLEAN
    BY <2>3
  <2> QED BY <1>4, <2>2, <2>3, <2>4 DEF Spend
<1>5. ASSUME NEW s \in Streams, Discard(s) PROVE TypeOK'
  BY <1>5 DEF Discard
<1>6. ASSUME NEW s \in Streams, WriteEvent(s) PROVE TypeOK'
  BY <1>6 DEF WriteEvent
<1>7. ASSUME NEW s \in Streams, Flushed(s) \/ Eof(s) PROVE TypeOK'
  BY <1>7 DEF Flushed, Eof
<1>8. CASE Fork \/ ShellExits \/ HelperExits \/ ClientStalls \/ Kill \/ Answered
  BY <1>8 DEF Fork, ShellExits, HelperExits, ClientStalls, Kill, Answered
<1>9. ASSUME NEW why \in {"expired", "gone"}, ContextEnds(why) PROVE TypeOK'
  BY <1>9 DEF ContextEnds
<1>10. CASE Finish
  <2>1. \A s \in Streams : Least(kept[s], MaxOutput) \in Nat
    BY LeastBounds
  <2>2. [s \in Streams |-> Least(kept[s], MaxOutput)] \in [Streams -> Nat]
    BY <2>1
  <2>3. Legible \subseteq [Streams -> Nat]
    <3>1. 0..2 * MaxOutput \subseteq Nat
      OBVIOUS
    <3> QED BY <3>1 DEF Legible
  <2>4. PICK cut \in BOOLEAN, shown \in [Streams -> Nat] :
          reply' = [at |-> "writing", truncated |-> cut,
                    timedOut |-> (ctx = "expired"), shown |-> shown]
    BY <1>10, <2>2, <2>3 DEF Finish
  <2>5. reply' \in [at : {"none", "writing", "done"}, truncated : BOOLEAN,
                   timedOut : BOOLEAN, shown : [Streams -> Nat]]
    BY <2>4
  <2> QED BY <1>10, <2>5 DEF Finish
<1>11. CASE UNCHANGED vars
  BY <1>11 DEF vars
<1> QED BY <1>1, <1>2, <1>3, <1>4, <1>5, <1>6, <1>7, <1>8, <1>9, <1>10, <1>11
        DEF Next, CopierStep

LEMMA Inductive == ASSUME IInv, [Next]_vars, TypeOK' PROVE IInv'
<1> USE ExecAssumption DEF IInv, TypeOK, Streams, process, output, ChunkHeld, BudgetCovers,
        NothingHidden, ReplyIsLast, Writing, Seen, Drained, HeldOpen
<1>1. ASSUME NEW s \in Streams, Produce(s) PROVE IInv'
  BY <1>1 DEF Produce
<1>2. ASSUME NEW s \in Streams, Buffer(s) PROVE IInv'
  BY <1>2 DEF Buffer
<1>3. ASSUME NEW s \in Streams, Read(s) PROVE IInv'
  <2> DEFINE n == Least(pipe[s], ChunkSize)
  <2>1. n \in Nat /\ n > 0 /\ n <= pipe[s]
    BY <1>3 DEF Least, Read
  <2>2. /\ copier[s].at = "read" /\ copier[s].chunk = 0
        /\ pipe' = [pipe EXCEPT ![s] = @ - n]
        /\ copier' = [copier EXCEPT ![s] = [at |-> "budget", chunk |-> n]]
        /\ UNCHANGED <<kind, shell, helper, wrote, totalOut, kept, truncated, mixed, reply>>
    BY <1>3 DEF Read
  <2> HIDE DEF n
  <2>3. \A q \in Streams : UNCHANGED <<Seen(q), Writing(q)>>
    BY <2>1, <2>2
  <2>4. ChunkHeld' /\ ReplyIsLast'
    BY <2>1, <2>2
  <2>5. BudgetCovers' /\ NothingHidden'
    BY <2>2, <2>3
  <2> QED BY <2>4, <2>5
<1>4. ASSUME NEW s \in Streams, Spend(s) PROVE IInv'
  <2> DEFINE n == Least(copier[s].chunk, MaxOutput - totalOut)
  <2>1. MaxOutput - totalOut \in Nat
    BY <1>4 DEF Spend
  <2>2. n \in Nat /\ n <= copier[s].chunk /\ totalOut + n <= MaxOutput
    BY <2>1 DEF Least
  <2>3. /\ copier[s].at = "budget"
        /\ truncated' = (truncated \/ n < copier[s].chunk)
        /\ totalOut' = totalOut + n
        /\ copier' = [copier EXCEPT ![s] = [at |-> "write", chunk |-> n]]
        /\ UNCHANGED <<kind, shell, helper, wrote, pipe, kept, mixed, reply>>
    BY <1>4 DEF Spend
  <2> HIDE DEF n
  <2>4. ChunkHeld' /\ ReplyIsLast'
    BY <2>3
  <2>5. BudgetCovers'
    BY <2>2, <2>3
  <2>6. /\ Seen(s)' = Seen(s) - (copier[s].chunk - n)
        /\ \A q \in Streams \ {s} : Seen(q)' = Seen(q)
    BY <2>2, <2>3
  <2>7. NothingHidden'
    <3>1. copier[s].chunk \in Nat /\ \A q \in Streams : Seen(q) \in Nat /\ wrote[q] \in Nat
      OBVIOUS
    <3> HIDE DEF Seen
    <3>2. CASE n < copier[s].chunk
      <4>1. truncated'
        BY <2>3, <3>2
      <4>2. kind = "stream" => Seen(s)' < wrote[s]
        BY <2>2, <2>6, <3>1, <3>2
      <4>3. kind = "stream" => \A q \in Streams : Seen(q)' <= wrote[q]
        BY <2>2, <2>6, <3>1, <4>2
      <4> QED BY <2>3, <4>1, <4>2, <4>3
    <3>3. CASE n = copier[s].chunk
      BY <2>2, <2>3, <2>6, <3>1, <3>3
    <3>4. n < copier[s].chunk \/ n = copier[s].chunk
      BY <2>2, <3>1
    <3> QED BY <3>2, <3>3, <3>4
  <2> QED BY <2>4, <2>5, <2>7
<1>5. ASSUME NEW s \in Streams, Discard(s) PROVE IInv'
  <2>1. /\ copier[s].at = "budget"
        /\ truncated' = TRUE
        /\ copier' = [copier EXCEPT ![s] = [at |-> "read", chunk |-> 0]]
        /\ UNCHANGED <<kind, shell, helper, wrote, pipe, totalOut, kept, mixed, reply>>
    BY <1>5 DEF Discard
  <2>2. ChunkHeld' /\ ReplyIsLast' /\ BudgetCovers'
    BY <2>1
  <2>3. Seen(s)' < Seen(s) /\ \A q \in Streams \ {s} : Seen(q)' = Seen(q)
    BY <2>1
  <2>4. NothingHidden'
    BY <2>1, <2>3
  <2> QED BY <2>2, <2>4
<1>6. ASSUME NEW s \in Streams, WriteEvent(s) PROVE IInv'
  BY <1>6 DEF WriteEvent
<1>7. ASSUME NEW s \in Streams, Flushed(s) \/ Eof(s) PROVE IInv'
  BY <1>7 DEF Flushed, Eof
<1>8. CASE Fork \/ ShellExits \/ HelperExits \/ ClientStalls \/ Kill
  BY <1>8 DEF Fork, ShellExits, HelperExits, ClientStalls, Kill
<1>9. ASSUME NEW why \in {"expired", "gone"}, ContextEnds(why) PROVE IInv'
  BY <1>9 DEF ContextEnds
<1>10. CASE Finish
  BY <1>10 DEF Finish, Legible
<1>11. CASE Answered
  <2>1. /\ reply.at # "none" /\ reply'.truncated = reply.truncated
        /\ reply'.shown = reply.shown
    BY <1>11 DEF Answered
  <2>2. UNCHANGED <<kind, shell, helper, wrote, pipe, copier, totalOut, kept,
                    truncated, mixed>>
    BY <1>11 DEF Answered
  <2>3. ChunkHeld' /\ BudgetCovers' /\ NothingHidden'
    BY <2>2
  <2>4. ReplyIsLast'
    BY <2>1, <2>2
  <2> QED BY <2>3, <2>4
<1>12. CASE UNCHANGED vars
  BY <1>12 DEF vars
<1> QED BY <1>1, <1>2, <1>3, <1>4, <1>5, <1>6, <1>7, <1>8, <1>9, <1>10, <1>11, <1>12
        DEF Next, CopierStep

LEMMA Invariance == Spec => []IInv
<1>1. Init => IInv
  <2> SUFFICES ASSUME Init PROVE IInv
    OBVIOUS
  <2> USE ExecAssumption DEF Init, Streams, NoReply
  <2>1. /\ reply \in [at : {"none", "writing", "done"}, truncated : BOOLEAN,
                      timedOut : BOOLEAN, shown : [Streams -> Nat]]
        /\ copier \in [Streams -> [at : {"read", "budget", "write", "flush", "done"},
                                   chunk : Nat]]
    OBVIOUS
  <2>4. TypeOK
    <3>1. /\ wrote \in [Streams -> 0..MaxBytes]
          /\ pipe \in [Streams -> Nat] /\ kept \in [Streams -> Nat]
      OBVIOUS
    <3> QED BY <2>1, <3>1 DEF TypeOK
  <2>2. ChunkHeld /\ ReplyIsLast
    BY DEF ChunkHeld, ReplyIsLast
  <2>3. BudgetCovers /\ NothingHidden
    BY DEF BudgetCovers, NothingHidden, Writing, Seen
  <2> QED BY <2>2, <2>3, <2>4 DEF IInv
<1>2. IInv /\ [Next]_vars => IInv'
  BY TypeStep, Inductive DEF IInv
<1> QED BY <1>1, <1>2, PTL DEF Spec

\* Every variable of the engine keeps its range.
THEOREM TypeCorrect == Spec => []TypeOK
BY Invariance, PTL DEF IInv

\* BudgetKept: a streamed exec never hands more than MaxOutput bytes to the
\* client's writer, however the two copiers interleave.
THEOREM BudgetAlwaysKept == Spec => []BudgetKept
<1>1. IInv => BudgetKept
  BY ExecAssumption DEF IInv, TypeOK, Streams, BudgetCovers, BudgetKept, Writing
<1> QED BY <1>1, Invariance, PTL

\* TruncatedIsExact: a done event without truncated means that every byte the
\* command wrote went to the client's writer, one with truncated that it did
\* not; and the client can read as much unless two writes raced in the writer.
THEOREM TruncatedAlwaysExact == Spec => []TruncatedIsExact
<1>1. IInv => TruncatedIsExact
  <2> SUFFICES ASSUME IInv, reply.at = "done", kind = "stream"
               PROVE  /\ reply.truncated <=> \E s \in Streams : kept[s] < wrote[s]
                      /\ ~mixed => (reply.truncated <=>
                                      \E s \in Streams : reply.shown[s] < wrote[s])
    BY DEF TruncatedIsExact
  <2>1. \A s \in Streams : Seen(s) = kept[s]
    BY DEF IInv, TypeOK, ChunkHeld, ReplyIsLast, Drained, Seen
  <2>2. reply.truncated <=> \E s \in Streams : kept[s] < wrote[s]
    BY <2>1 DEF IInv, NothingHidden, ReplyIsLast
  <2> QED BY <2>2 DEF IInv, ReplyIsLast
<1> QED BY <1>1, Invariance, PTL
=============================================================================
