------------------------------ MODULE LeaseProofs -----------------------------
(***************************************************************************)
(* Acquisitions, for every set of callers and every number of sessions and *)
(* faults: the lock has one holder or none, and a caller gets its own      *)
(* grant.  The reason is that the deque of futures is empty or holds the   *)
(* future of the lock's holder.                                            *)
(*                                                                         *)
(* The observer, for every number of changes: a ready view is current.     *)
(* The reason is that a ready observer has a subscription that the broker  *)
(* serves, or has been told of its failure, and heard of its session.      *)
(***************************************************************************)
EXTENDS Lease, FiniteSetTheorems, SequenceTheorems, TLAPS

\* a has the lock, or has left it to the task that drains its future.
Inside(a) == acq[a].pc \in {"asking", "deferred"}
Holds(a) == Inside(a) \/ acq[a].drain

OneHolder ==
    /\ \A a, b \in Acquirers : Holds(a) /\ Holds(b) => a = b
    /\ \A a \in Acquirers : ~(Inside(a) /\ acq[a].drain)
    /\ locked <=> \E a \in Acquirers : Holds(a)

UncalledIsFresh ==
    \A a \in Acquirers : acq[a].pc \in {"idle", "locking"} =>
        /\ acq[a].reply = "none" /\ acq[a].future = "pending"
        /\ acq[a].result = "none" /\ ~acq[a].drain /\ broker[a] = "none"

QueueIsHolder ==
    \/ queued = <<>>
    \/ \E a \in Acquirers : /\ queued = <<a>> /\ Holds(a) /\ acq[a].wait
                            /\ acq[a].future = "pending"

\* What the broker still owes an answer is of this session, and a final answer
\* finds its caller's future.
BrokerAgrees ==
    /\ ~Online => \A a \in Acquirers : broker[a] \in {"none", "over"}
    /\ \A a \in Acquirers :
          /\ acq[a].reply \in {"granted", "refused", "lost"} => broker[a] \in {"none", "over"}
          /\ broker[a] = "waiting" => acq[a].wait
          /\ broker[a] \in {"asked", "waiting"} /\ acq[a].wait => queued = <<a>>

AnswersAreOwn ==
    \A a \in Acquirers : /\ acq[a].future = "granted" => acq[a].of = a
                         /\ acq[a].result = "lease" => acq[a].got = a

AcquireInv ==
    /\ AcquireTypeOK
    /\ OneHolder /\ UncalledIsFresh /\ QueueIsHolder /\ BrokerAgrees /\ AnswersAreOwn

------------------------------------------------------------------------------
(* The deque, which has one element or none.                                 *)

LEMMA OneElement ==
    ASSUME NEW S, NEW a \in S
    PROVE  /\ <<a>> \in Seq(S) /\ <<a>> # <<>> /\ Append(<<>>, a) = <<a>>
           /\ Head(<<a>>) = a /\ Tail(<<a>>) = <<>>
           /\ \A b : Contains(<<a>>, b) <=> a = b
           /\ \A b : ~Contains(<<>>, b)
           /\ \A b : <<a>> = <<b>> => a = b
<1>1. Len(<<a>>) = 1 /\ <<a>>[1] = a /\ Len(<<>>) = 0
  OBVIOUS
<1>2. QED
  BY <1>1 DEF Contains

LEMMA WithoutType ==
    ASSUME NEW S, NEW s \in Seq(S), NEW a
    PROVE  Without(s, a) \in Seq(S)
<1>1. CASE ~Contains(s, a)
  BY <1>1 DEF Without
<1>2. CASE Contains(s, a)
  <2> DEFINE i == CHOOSE j \in 1..Len(s) : s[j] = a
  <2>1. i \in 1..Len(s) /\ Len(s) \in Nat
    BY <1>2 DEF Contains
  <2> HIDE DEF i
  <2>2. SubSeq(s, 1, i - 1) \in Seq(S) /\ SubSeq(s, i + 1, Len(s)) \in Seq(S)
    BY <2>1, SubSeqProperties
  <2>3. RemoveAt(s, i) \in Seq(S)
    BY <2>2, ConcatProperties DEF RemoveAt
  <2>4. QED
    BY <1>2, <2>3 DEF Without, i
<1>3. QED
  BY <1>1, <1>2

LEMMA WithoutOne ==
    ASSUME NEW S, NEW a \in S
    PROVE  Without(<<a>>, a) = <<>> /\ \A b : Without(<<>>, b) = <<>>
<1>1. Contains(<<a>>, a) /\ \A b : ~Contains(<<>>, b)
  BY OneElement
<1>2. (CHOOSE i \in 1..Len(<<a>>) : <<a>>[i] = a) = 1
  <2>1. Len(<<a>>) = 1 /\ <<a>>[1] = a
    OBVIOUS
  <2>2. 1..Len(<<a>>) = {1}
    BY <2>1
  <2>3. QED
    BY <2>1, <2>2
<1>3. RemoveAt(<<a>>, 1) = <<>>
  BY DEF RemoveAt
<1>4. QED
  BY <1>1, <1>2, <1>3 DEF Without

------------------------------------------------------------------------------
(* The invariant.                                                            *)

LEMMA InvInit == Init => AcquireInv
<1> SUFFICES ASSUME Init PROVE AcquireInv
  OBVIOUS
<1> USE DEF Init, AcquireInit
<1>1. AcquireTypeOK
  <2>1. [pc |-> "idle", wait |-> FALSE, reply |-> "none", future |-> "pending", of |-> Nobody,
         result |-> "none", got |-> Nobody, drain |-> FALSE] \in AcquireType
    BY DEF AcquireType
  <2>2. <<>> \in Seq(Acquirers)
    OBVIOUS
  <2>3. QED
    BY <2>1, <2>2 DEF AcquireTypeOK
<1>2. OneHolder
  BY DEF OneHolder, Holds, Inside
<1>3. UncalledIsFresh /\ QueueIsHolder /\ BrokerAgrees /\ AnswersAreOwn
  BY DEF UncalledIsFresh, QueueIsHolder, BrokerAgrees, AnswersAreOwn
<1>4. QED
  BY <1>1, <1>2, <1>3 DEF AcquireInv

\* What the invariant says of the deque and the lock's holder.
LEMMA Deque ==
    ASSUME AcquireInv, NEW a \in Acquirers
    PROVE  /\ acq[a] \in AcquireType /\ acq \in [Acquirers -> AcquireType]
           /\ Contains(queued, a) <=> queued = <<a>>
           /\ queued = <<a>> => Holds(a) /\ acq[a].wait /\ acq[a].future = "pending"
           /\ queued # <<>> /\ Holds(a) => queued = <<a>>
           /\ Forgotten(a) = IF Contains(queued, a) THEN <<>> ELSE queued
           /\ ~locked => queued = <<>> /\ \A b \in Acquirers : ~Holds(b)
<1>1. acq[a] \in AcquireType /\ acq \in [Acquirers -> AcquireType]
  BY DEF AcquireInv, AcquireTypeOK
<1>2. CASE queued = <<>>
  BY <1>1, <1>2, OneElement, WithoutOne DEF AcquireInv, OneHolder, Forgotten
<1>3. CASE queued # <<>>
  <2>1. PICK b \in Acquirers :
           queued = <<b>> /\ Holds(b) /\ acq[b].wait /\ acq[b].future = "pending"
    BY <1>3 DEF AcquireInv, QueueIsHolder
  <2>2. Contains(queued, a) <=> a = b
    BY <2>1, OneElement
  <2>3. queued = <<a>> <=> a = b
    BY <2>1, OneElement
  <2>4. Holds(a) => a = b
    BY <2>1 DEF AcquireInv, OneHolder
  <2>5. Forgotten(a) = IF a = b THEN <<>> ELSE queued
    BY <2>1, <2>2, WithoutOne DEF Forgotten, Without
  <2>6. locked
    BY <2>1 DEF AcquireInv, OneHolder
  <2>7. QED
    BY <1>1, <1>3, <2>1, <2>2, <2>3, <2>4, <2>5, <2>6
<1>4. QED
  BY <1>2, <1>3

\* A call or a drain ends and gives back the lock.
LEMMA EndsStep ==
    ASSUME AcquireInv, NEW a \in Acquirers, Holds(a), UNCHANGED <<session, lockers, broker>>,
           NEW k \in AcquireType, acq' = [acq EXCEPT ![a] = k],
           k.pc = "over", ~k.drain, k.wait = acq[a].wait, k.reply = acq[a].reply,
           k.future = acq[a].future, k.of = acq[a].of, k.result = "lease" => k.got = a,
           locked' = FALSE, queued' = <<>>,
           broker[a] \in {"asked", "waiting"} => ~acq[a].wait
    PROVE  AcquireInv'
<1>1. /\ acq \in [Acquirers -> AcquireType]
      /\ \A b \in Acquirers : b # a => acq'[b] = acq[b] /\ ~Holds(b)
      /\ acq'[a] = k
  BY DEF AcquireInv, AcquireTypeOK, OneHolder
<1>2. AcquireTypeOK'
  <2>1. <<>> \in Seq(Acquirers)
    OBVIOUS
  <2>2. QED
    BY <1>1, <2>1 DEF AcquireInv, AcquireTypeOK
<1>3. OneHolder'
  BY <1>1 DEF OneHolder, Holds, Inside
<1>4. UncalledIsFresh'
  <2>1. ~(acq'[a].pc \in {"idle", "locking"})
    BY <1>1
  <2>2. QED
    BY <1>1, <2>1 DEF AcquireInv, UncalledIsFresh
<1>5. QueueIsHolder'
  BY DEF QueueIsHolder
<1>6. BrokerAgrees'
  <2>1. ASSUME NEW b \in Acquirers, b # a, broker[b] \in {"asked", "waiting"}, acq[b].wait
        PROVE  FALSE
    BY <1>1, <2>1, Deque DEF AcquireInv, BrokerAgrees
  <2>2. QED
    BY <1>1, <2>1 DEF AcquireInv, BrokerAgrees, Online, session
<1>7. AnswersAreOwn'
  BY <1>1 DEF AcquireInv, AnswersAreOwn
<1>8. QED
  BY <1>2, <1>3, <1>4, <1>5, <1>6, <1>7 DEF AcquireInv

\* A task's record changes, and nothing that the deque or the lock depends on.
LEMMA QuietStep ==
    ASSUME AcquireInv, NEW a \in Acquirers, UNCHANGED <<session, locked, queued, broker>>,
           lockers' \in Seq(Acquirers),
           NEW k \in AcquireType, acq' = [acq EXCEPT ![a] = k],
           (k.pc \in {"asking", "deferred"} \/ k.drain) <=> Holds(a),
           ~(k.pc \in {"asking", "deferred"} /\ k.drain),
           k.pc \in {"idle", "locking"} => acq[a].pc \in {"idle", "locking"},
           k.wait = acq[a].wait \/ acq[a].pc = "idle",
           k.reply = acq[a].reply, k.future = acq[a].future, k.of = acq[a].of,
           k.result = acq[a].result \/ (k.result = "cancelled" /\ k.pc = "over"),
           k.got = acq[a].got
    PROVE  AcquireInv'
<1>1. /\ acq \in [Acquirers -> AcquireType] /\ acq[a] \in AcquireType
      /\ \A b \in Acquirers : b # a => acq'[b] = acq[b]
      /\ acq'[a] = k
  BY DEF AcquireInv, AcquireTypeOK
<1>2. AcquireTypeOK'
  BY <1>1 DEF AcquireInv, AcquireTypeOK
<1>3. \A b \in Acquirers : /\ Holds(b)' <=> Holds(b)
                           /\ ~(Inside(b)' /\ acq'[b].drain)
  BY <1>1 DEF AcquireInv, OneHolder, Holds, Inside
<1>4. OneHolder'
  BY <1>1, <1>3 DEF AcquireInv, OneHolder
<1>5. UncalledIsFresh'
  <2>1. acq'[a].pc \in {"idle", "locking"} =>
            /\ acq[a].pc \in {"idle", "locking"} /\ ~Holds(a)
            /\ acq'[a].result = acq[a].result /\ ~acq'[a].drain
    BY <1>1 DEF AcquireInv, UncalledIsFresh, Holds, Inside
  <2>2. QED
    BY <1>1, <2>1 DEF AcquireInv, UncalledIsFresh
<1>6. acq[a].pc = "idle" => ~Holds(a) /\ broker[a] = "none"
  BY DEF AcquireInv, UncalledIsFresh, Holds, Inside
<1>7. QueueIsHolder'
  BY <1>1, <1>3, <1>6 DEF AcquireInv, QueueIsHolder
<1>8. BrokerAgrees'
  BY <1>1, <1>6 DEF AcquireInv, BrokerAgrees, Online, session
<1>9. AnswersAreOwn'
  BY <1>1 DEF AcquireInv, AnswersAreOwn
<1>10. QED
  BY <1>2, <1>4, <1>5, <1>7, <1>8, <1>9 DEF AcquireInv

\* The lock is free and a sends its request.
LEMMA AskingStep ==
    ASSUME AcquireInv, NEW a \in Acquirers, NEW wait \in BOOLEAN, Asking(a, wait),
           acq[a].pc \in {"idle", "locking"}, ~locked, lockers' \in Seq(Acquirers),
           UNCHANGED session
    PROVE  AcquireInv'
<1> DEFINE k == [acq[a] EXCEPT !.pc = "asking", !.wait = wait,
                               !.reply = IF Online THEN "none" ELSE "lost"]
<1>0. /\ acq \in [Acquirers -> AcquireType] /\ acq[a] \in AcquireType /\ queued = <<>>
      /\ \A b \in Acquirers : ~Holds(b)
      /\ acq[a].future = "pending" /\ acq[a].result = "none" /\ ~acq[a].drain
      /\ broker \in [Acquirers -> {"none", "asked", "waiting", "over"}] /\ broker[a] = "none"
  BY Deque DEF AcquireInv, UncalledIsFresh, AcquireTypeOK
<1>1. /\ k \in AcquireType /\ k.pc = "asking" /\ k.wait = wait /\ k.future = "pending"
      /\ k.result = "none" /\ ~k.drain /\ k.reply = IF Online THEN "none" ELSE "lost"
  BY <1>0, ZenonT(30) DEF AcquireType
<1>2. acq' = [acq EXCEPT ![a] = k]
  BY <1>0 DEF Asking
<1> HIDE DEF k
<1>3. /\ \A b \in Acquirers : b # a => acq'[b] = acq[b]
      /\ acq'[a] = k
  BY <1>0, <1>2
<1>4. /\ queued' = IF wait THEN <<a>> ELSE <<>>
      /\ locked' = TRUE
      /\ broker' = [broker EXCEPT ![a] = IF Online THEN "asked" ELSE "none"]
  BY <1>0, OneElement DEF Asking
<1>5. AcquireTypeOK'
  <2>1. queued' \in Seq(Acquirers)
    BY <1>4, OneElement
  <2>2. QED
    BY <1>0, <1>1, <1>2, <1>4, <2>1 DEF AcquireTypeOK
<1>6. OneHolder'
  BY <1>0, <1>1, <1>3, <1>4 DEF OneHolder, Holds, Inside
<1>7. UncalledIsFresh'
  BY <1>0, <1>1, <1>3, <1>4 DEF AcquireInv, UncalledIsFresh
<1>8. QueueIsHolder'
  BY <1>0, <1>1, <1>3, <1>4 DEF QueueIsHolder, Holds, Inside
<1>9. BrokerAgrees'
  <2>1. ASSUME NEW b \in Acquirers, b # a, broker[b] \in {"asked", "waiting"}, acq[b].wait
        PROVE  FALSE
    BY <1>0, <2>1, OneElement DEF AcquireInv, BrokerAgrees
  <2>2. QED
    BY <1>0, <1>1, <1>3, <1>4, <2>1 DEF AcquireInv, BrokerAgrees, Online, session
<1>10. AnswersAreOwn'
  BY <1>0, <1>1, <1>3 DEF AcquireInv, AnswersAreOwn
<1>11. QED
  BY <1>5, <1>6, <1>7, <1>8, <1>9, <1>10 DEF AcquireInv

------------------------------------------------------------------------------
(* The steps of a call.                                                      *)

LEMMA CallKeeps ==
    ASSUME AcquireInv, NEW a \in Acquirers, NEW wait \in BOOLEAN, CallAcquire(a, wait)
    PROVE  AcquireInv'
<1>1. lockers \in Seq(Acquirers) /\ acq[a].pc = "idle" /\ UNCHANGED session
  BY DEF AcquireInv, AcquireTypeOK, CallAcquire
<1>2. CASE locked \/ lockers # <<>>
  <2> DEFINE k == [acq[a] EXCEPT !.pc = "locking", !.wait = wait]
  <2>1. /\ acq \in [Acquirers -> AcquireType] /\ acq[a] \in AcquireType
        /\ acq' = [acq EXCEPT ![a].pc = "locking", ![a].wait = wait]
        /\ lockers' = Append(lockers, a) /\ UNCHANGED <<locked, queued, broker>>
    BY <1>2 DEF CallAcquire, AcquireInv, AcquireTypeOK
  <2>2. /\ k \in AcquireType /\ k.pc = "locking" /\ k.drain = acq[a].drain
        /\ k.reply = acq[a].reply /\ k.future = acq[a].future /\ k.of = acq[a].of
        /\ k.result = acq[a].result /\ k.got = acq[a].got
    BY <2>1 DEF AcquireType
  <2>3. acq' = [acq EXCEPT ![a] = k]
    BY <2>1
  <2>6. lockers' \in Seq(Acquirers)
    BY <1>1, <2>1, AppendProperties
  <2>4. ~Holds(a) /\ ~acq[a].drain
    BY <1>1 DEF AcquireInv, UncalledIsFresh, Holds, Inside
  <2> HIDE DEF k
  <2>5. QED
    BY <1>1, <2>1, <2>2, <2>3, <2>4, <2>6, QuietStep
<1>3. CASE ~(locked \/ lockers # <<>>)
  BY <1>1, <1>3, AskingStep DEF CallAcquire
<1>4. QED
  BY <1>2, <1>3

LEMMA LockAcquiredKeeps ==
    ASSUME AcquireInv, NEW a \in Acquirers, LockAcquired(a)
    PROVE  AcquireInv'
<1>1. acq[a] \in AcquireType /\ lockers \in Seq(Acquirers) /\ a \in Acquirers
  BY DEF AcquireInv, AcquireTypeOK
<1>2. acq[a].wait \in BOOLEAN
  BY <1>1 DEF AcquireType
<1>3. lockers' \in Seq(Acquirers)
  <2>1. CASE lockers = <<>>
    BY <1>1, <2>1 DEF LockAcquired
  <2>2. CASE lockers # <<>>
    BY <1>1, <2>2 DEF LockAcquired
  <2>3. QED
    BY <2>1, <2>2
<1>4. QED
  BY <1>2, <1>3, AskingStep DEF LockAcquired

\* Over(a, result, got) when the deque ends up empty.
LEMMA OverKeeps ==
    ASSUME AcquireInv, NEW a \in Acquirers, Inside(a), UNCHANGED <<session, lockers, broker>>,
           NEW result \in {"lease", "error", "cancelled"}, NEW got \in Acquirers \cup {Nobody},
           result = "lease" => got = a, Over(a, result, got), queued' = <<>>,
           broker[a] \in {"asked", "waiting"} => ~acq[a].wait
    PROVE  AcquireInv'
<1> DEFINE k == [acq[a] EXCEPT !.pc = "over", !.result = result, !.got = got]
<1>1. acq \in [Acquirers -> AcquireType] /\ acq[a] \in AcquireType /\ ~acq[a].drain
  BY DEF AcquireInv, AcquireTypeOK, OneHolder
<1>2. /\ k \in AcquireType /\ k.pc = "over" /\ ~k.drain /\ k.wait = acq[a].wait
      /\ k.reply = acq[a].reply /\ k.future = acq[a].future /\ k.of = acq[a].of
      /\ k.result = result /\ k.got = got
  BY <1>1, ZenonT(30) DEF AcquireType
<1>3. acq' = [acq EXCEPT ![a] = k] /\ locked' = FALSE /\ Holds(a)
  BY <1>1 DEF Over, Holds
<1> HIDE DEF k
<1>4. QED
  BY <1>2, <1>3, EndsStep

LEMMA AnsweredKeeps ==
    ASSUME AcquireInv, NEW a \in Acquirers, Answered(a)
    PROVE  AcquireInv'
<1>1. /\ Inside(a) /\ Holds(a) /\ UNCHANGED <<session, lockers, broker>>
      /\ acq[a].pc = "asking" /\ a \in Acquirers \cup {Nobody}
  BY DEF Answered, Inside, Holds
<1>2. Forgotten(a) = <<>>
  BY <1>1, Deque
<1>3. CASE acq[a].reply = "granted"
  <2>1. broker[a] \in {"none", "over"}
    BY <1>3 DEF AcquireInv, BrokerAgrees
  <2>2. Over(a, "error", Nobody) \/ Over(a, "lease", a)
    BY <1>3 DEF Answered
  <2>3. queued' = <<>>
    BY <1>2, <1>3 DEF Answered
  <2>4. QED
    BY <1>1, <2>1, <2>2, <2>3, OverKeeps
<1>4. CASE acq[a].reply = "queued"
  <2> DEFINE k == [acq[a] EXCEPT !.pc = "deferred"]
  <2>1. /\ acq \in [Acquirers -> AcquireType] /\ acq[a] \in AcquireType /\ ~acq[a].drain
        /\ acq' = [acq EXCEPT ![a].pc = "deferred"] /\ UNCHANGED <<locked, queued>>
        /\ lockers \in Seq(Acquirers)
    BY <1>1, <1>4 DEF AcquireInv, AcquireTypeOK, OneHolder, Answered
  <2>2. /\ k \in AcquireType /\ k.pc = "deferred" /\ ~k.drain /\ k.wait = acq[a].wait
        /\ k.reply = acq[a].reply /\ k.future = acq[a].future /\ k.of = acq[a].of
        /\ k.result = acq[a].result /\ k.got = acq[a].got
    BY <2>1 DEF AcquireType
  <2>3. acq' = [acq EXCEPT ![a] = k]
    BY <2>1
  <2> HIDE DEF k
  <2>4. QED
    BY <1>1, <2>1, <2>2, <2>3, QuietStep
<1>5. CASE acq[a].reply \in {"refused", "lost"}
  <2>1. broker[a] \in {"none", "over"}
    BY <1>5 DEF AcquireInv, BrokerAgrees
  <2>2. Over(a, "error", Nobody) /\ queued' = <<>>
    BY <1>2, <1>5 DEF Answered
  <2>3. QED
    BY <1>1, <2>1, <2>2, OverKeeps
<1>6. QED
  BY <1>3, <1>4, <1>5 DEF Answered

LEMMA FinallyAnsweredKeeps ==
    ASSUME AcquireInv, NEW a \in Acquirers, FinallyAnswered(a)
    PROVE  AcquireInv'
<1>1. /\ Inside(a) /\ Holds(a) /\ UNCHANGED <<session, lockers, queued, broker>>
      /\ acq[a].future # "pending"
  BY DEF FinallyAnswered, Inside, Holds
<1>2. queued = <<>> /\ acq[a] \in AcquireType
  BY <1>1, Deque
<1>3. broker[a] \in {"asked", "waiting"} => ~acq[a].wait
  BY <1>2, OneElement DEF AcquireInv, BrokerAgrees
<1>4. CASE acq[a].future = "granted"
  <2>1. acq[a].of = a
    BY <1>4 DEF AcquireInv, AnswersAreOwn
  <2>2. QED
    BY <1>1, <1>2, <1>3, <1>4, <2>1, OverKeeps DEF FinallyAnswered
<1>5. CASE acq[a].future # "granted"
  BY <1>1, <1>2, <1>3, <1>5, OverKeeps DEF FinallyAnswered
<1>6. QED
  BY <1>4, <1>5

LEMMA CancelledAskingKeeps ==
    ASSUME AcquireInv, NEW a \in Acquirers, CancelledAsking(a)
    PROVE  AcquireInv'
<1> DEFINE drains == Contains(queued, a)
           k == [acq[a] EXCEPT !.pc = "over", !.result = "cancelled", !.drain = drains]
<1>1. /\ Inside(a) /\ Holds(a) /\ UNCHANGED <<session, lockers, queued, broker>>
      /\ acq' = [acq EXCEPT ![a].pc = "over", ![a].result = "cancelled", ![a].drain = drains]
      /\ locked' = drains /\ drains \in BOOLEAN
  BY DEF CancelledAsking, Inside, Holds, Contains
<1>2. /\ acq \in [Acquirers -> AcquireType] /\ acq[a] \in AcquireType /\ ~acq[a].drain
      /\ locked = TRUE /\ lockers \in Seq(Acquirers)
  BY <1>1 DEF AcquireInv, AcquireTypeOK, OneHolder
<1>3. /\ k \in AcquireType /\ k.pc = "over" /\ k.drain = drains /\ k.wait = acq[a].wait
      /\ k.reply = acq[a].reply /\ k.future = acq[a].future /\ k.of = acq[a].of
      /\ k.result = "cancelled" /\ k.got = acq[a].got
  BY <1>1, <1>2, ZenonT(30) DEF AcquireType
<1>4. acq' = [acq EXCEPT ![a] = k]
  BY <1>1, <1>2
<1>5. CASE drains
  <2> HIDE DEF k
  <2>1. locked' = locked
    BY <1>1, <1>2, <1>5
  <2>2. QED
    BY <1>1, <1>2, <1>3, <1>4, <1>5, <2>1, QuietStep
<1>6. CASE ~drains
  <2>1. queued = <<>> /\ queued' = <<>>
    BY <1>1, <1>6, Deque
  <2>2. broker[a] \in {"asked", "waiting"} => ~acq[a].wait
    BY <2>1, OneElement DEF AcquireInv, BrokerAgrees
  <2>3. locked' = FALSE /\ ~k.drain
    BY <1>1, <1>3, <1>6
  <2> HIDE DEF k
  <2>4. QED
    BY <1>1, <1>3, <1>4, <2>1, <2>2, <2>3, EndsStep
<1>7. QED
  BY <1>5, <1>6

LEMMA CancelledLockingKeeps ==
    ASSUME AcquireInv, NEW a \in Acquirers, CancelledLocking(a)
    PROVE  AcquireInv'
<1> DEFINE k == [acq[a] EXCEPT !.pc = "over", !.result = "cancelled"]
<1>1. /\ acq \in [Acquirers -> AcquireType] /\ acq[a] \in AcquireType /\ ~acq[a].drain
      /\ ~Holds(a) /\ UNCHANGED <<session, locked, queued, broker>>
      /\ acq' = [acq EXCEPT ![a].pc = "over", ![a].result = "cancelled"]
      /\ lockers \in Seq(Acquirers) /\ lockers' = Without(lockers, a)
  BY DEF AcquireInv, AcquireTypeOK, UncalledIsFresh, Holds, Inside, CancelledLocking
<1>2. /\ k \in AcquireType /\ k.pc = "over" /\ ~k.drain /\ k.wait = acq[a].wait
      /\ k.reply = acq[a].reply /\ k.future = acq[a].future /\ k.of = acq[a].of
      /\ k.result = "cancelled" /\ k.got = acq[a].got
  BY <1>1 DEF AcquireType
<1>3. acq' = [acq EXCEPT ![a] = k] /\ lockers' \in Seq(Acquirers)
  BY <1>1, WithoutType
<1> HIDE DEF k
<1>4. QED
  BY <1>1, <1>2, <1>3, QuietStep

LEMMA DrainKeeps ==
    ASSUME AcquireInv, NEW a \in Acquirers, Drain(a)
    PROVE  AcquireInv'
<1> DEFINE k == [acq[a] EXCEPT !.drain = FALSE]
<1>1. /\ acq \in [Acquirers -> AcquireType] /\ acq[a] \in AcquireType /\ acq[a].drain
      /\ acq[a].future # "pending" /\ Holds(a) /\ ~Inside(a)
      /\ UNCHANGED <<session, lockers, queued, broker>> /\ locked' = FALSE
      /\ acq' = [acq EXCEPT ![a].drain = FALSE]
  BY DEF AcquireInv, AcquireTypeOK, OneHolder, Holds, Drain
<1>2. acq[a].pc = "over"
  BY <1>1 DEF AcquireInv, UncalledIsFresh, Inside, AcquireType
<1>3. queued = <<>> /\ queued' = <<>>
  BY <1>1, Deque
<1>4. broker[a] \in {"asked", "waiting"} => ~acq[a].wait
  BY <1>3, OneElement DEF AcquireInv, BrokerAgrees
<1>5. /\ k \in AcquireType /\ k.pc = "over" /\ ~k.drain /\ k.wait = acq[a].wait
      /\ k.reply = acq[a].reply /\ k.future = acq[a].future /\ k.of = acq[a].of
      /\ k.result = acq[a].result /\ k.got = acq[a].got
  BY <1>1, <1>2 DEF AcquireType
<1>6. acq' = [acq EXCEPT ![a] = k]
  BY <1>1
<1>7. k.result = "lease" => k.got = a
  BY <1>5 DEF AcquireInv, AnswersAreOwn
<1> HIDE DEF k
<1>8. QED
  BY <1>1, <1>3, <1>4, <1>5, <1>6, <1>7, EndsStep

------------------------------------------------------------------------------
(* The broker and the session.                                               *)

LEMMA BrokerAnswersKeeps ==
    ASSUME AcquireInv, NEW a \in Acquirers, BrokerAnswers(a)
    PROVE  AcquireInv'
<1>1. /\ acq \in [Acquirers -> AcquireType] /\ acq[a] \in AcquireType /\ Online
      /\ broker \in [Acquirers -> {"none", "asked", "waiting", "over"}] /\ broker[a] = "asked"
      /\ UNCHANGED <<session, locked, lockers, queued>>
  BY DEF AcquireInv, AcquireTypeOK, BrokerAnswers
<1>2. PICK r \in {"granted", "refused", "queued"} :
          /\ r = "queued" => acq[a].wait
          /\ broker' = [broker EXCEPT ![a] = IF r = "queued" THEN "waiting" ELSE "over"]
          /\ acq' = IF acq[a].pc = "asking" THEN [acq EXCEPT ![a].reply = r] ELSE acq
  BY DEF BrokerAnswers
<1> DEFINE k == IF acq[a].pc = "asking" THEN [acq[a] EXCEPT !.reply = r] ELSE acq[a]
<1>3. /\ k \in AcquireType /\ k.pc = acq[a].pc /\ k.drain = acq[a].drain
      /\ k.wait = acq[a].wait /\ k.future = acq[a].future /\ k.of = acq[a].of
      /\ k.result = acq[a].result /\ k.got = acq[a].got
      /\ k.reply = r \/ k.reply = acq[a].reply
  BY <1>1 DEF AcquireType
<1>4. acq' = [acq EXCEPT ![a] = k]
  BY <1>1, <1>2
<1> HIDE DEF k
<1>5. /\ acq'[a] = k /\ \A b \in Acquirers : b # a => acq'[b] = acq[b] /\ broker'[b] = broker[b]
      /\ broker'[a] = IF r = "queued" THEN "waiting" ELSE "over"
  BY <1>1, <1>2, <1>4
<1>6. AcquireTypeOK'
  BY <1>1, <1>2, <1>3, <1>4 DEF AcquireInv, AcquireTypeOK
<1>7. \A b \in Acquirers : (Holds(b)' <=> Holds(b)) /\ (Inside(b)' <=> Inside(b))
  BY <1>3, <1>5 DEF Holds, Inside
<1>8. OneHolder'
  BY <1>1, <1>3, <1>5, <1>7 DEF AcquireInv, OneHolder
<1>9. UncalledIsFresh'
  BY <1>1, <1>3, <1>5 DEF AcquireInv, UncalledIsFresh
<1>10. QueueIsHolder'
  BY <1>1, <1>3, <1>5, <1>7 DEF AcquireInv, QueueIsHolder
<1>11. BrokerAgrees'
  <2>1. acq[a].reply \notin {"granted", "refused", "lost"}
    BY <1>1 DEF AcquireInv, BrokerAgrees
  <2>2. acq[a].wait => queued = <<a>>
    BY <1>1 DEF AcquireInv, BrokerAgrees
  <2>3. QED
    BY <1>1, <1>2, <1>3, <1>5, <2>1, <2>2 DEF AcquireInv, BrokerAgrees, Online, session
<1>12. AnswersAreOwn'
  BY <1>3, <1>5 DEF AcquireInv, AnswersAreOwn
<1>13. QED
  BY <1>6, <1>8, <1>9, <1>10, <1>11, <1>12 DEF AcquireInv

\* The only future of the deque is that of the call the answer is for.
LEMMA BrokerFinishesKeeps ==
    ASSUME AcquireInv, NEW a \in Acquirers, BrokerFinishes(a)
    PROVE  AcquireInv'
<1>1. /\ acq \in [Acquirers -> AcquireType] /\ acq[a] \in AcquireType /\ Online
      /\ broker \in [Acquirers -> {"none", "asked", "waiting", "over"}] /\ broker[a] = "waiting"
      /\ UNCHANGED <<session, locked, lockers>> /\ broker' = [broker EXCEPT ![a] = "over"]
  BY DEF AcquireInv, AcquireTypeOK, BrokerFinishes
<1>2. queued = <<a>>
  BY <1>1 DEF AcquireInv, BrokerAgrees
<1>3. Holds(a)
  BY <1>2, Deque
<1>4. PICK r \in {"granted", "refused"} :
          acq' = [acq EXCEPT ![a].future = r, ![a].of = a] /\ queued' = <<>>
  BY <1>2, OneElement DEF BrokerFinishes
<1> DEFINE k == [acq[a] EXCEPT !.future = r, !.of = a]
<1>5. /\ k \in AcquireType /\ k.pc = acq[a].pc /\ k.drain = acq[a].drain
      /\ k.wait = acq[a].wait /\ k.reply = acq[a].reply /\ k.future = r /\ k.of = a
      /\ k.result = acq[a].result /\ k.got = acq[a].got
  BY <1>1 DEF AcquireType
<1>6. acq' = [acq EXCEPT ![a] = k]
  BY <1>1, <1>4
<1> HIDE DEF k
<1>7. /\ acq'[a] = k /\ \A b \in Acquirers : b # a => acq'[b] = acq[b] /\ broker'[b] = broker[b]
      /\ broker'[a] = "over"
  BY <1>1, <1>6
<1>8. AcquireTypeOK'
  <2>1. queued' \in Seq(Acquirers)
    BY <1>1, <1>4 DEF AcquireInv, AcquireTypeOK
  <2>2. acq' \in [Acquirers -> AcquireType]
    BY <1>5, <1>6 DEF AcquireInv, AcquireTypeOK
  <2>3. /\ locked' \in BOOLEAN /\ lockers' \in Seq(Acquirers)
        /\ broker' \in [Acquirers -> {"none", "asked", "waiting", "over"}]
    BY <1>1, <1>4 DEF AcquireInv, AcquireTypeOK
  <2>4. QED
    BY <2>1, <2>2, <2>3 DEF AcquireTypeOK
<1>9. \A b \in Acquirers : (Holds(b)' <=> Holds(b)) /\ (Inside(b)' <=> Inside(b))
  BY <1>5, <1>7 DEF Holds, Inside
<1>10. OneHolder'
  BY <1>1, <1>5, <1>7, <1>9 DEF AcquireInv, OneHolder
<1>11. UncalledIsFresh'
  BY <1>1, <1>5, <1>7 DEF AcquireInv, UncalledIsFresh
<1>12. QueueIsHolder'
  BY <1>4 DEF QueueIsHolder
<1>13. BrokerAgrees'
  <2>1. ASSUME NEW b \in Acquirers, b # a, broker[b] \in {"asked", "waiting"}, acq[b].wait
        PROVE  FALSE
    BY <1>2, <2>1, OneElement DEF AcquireInv, BrokerAgrees
  <2>2. QED
    BY <1>1, <1>5, <1>7, <2>1 DEF AcquireInv, BrokerAgrees, Online, session
<1>14. AnswersAreOwn'
  BY <1>5, <1>7 DEF AcquireInv, AnswersAreOwn
<1>15. QED
  BY <1>8, <1>10, <1>11, <1>12, <1>13, <1>14 DEF AcquireInv

LEMMA LossKeeps ==
    ASSUME AcquireInv, Lose \/ Close, AcquireLost
    PROVE  AcquireInv'
<1> DEFINE f(a) == IF acq[a].pc = "asking" /\ acq[a].reply = "none"
                   THEN [acq[a] EXCEPT !.reply = "lost"] ELSE acq[a]
<1>1. /\ acq \in [Acquirers -> AcquireType]
      /\ broker \in [Acquirers -> {"none", "asked", "waiting", "over"}]
      /\ UNCHANGED <<locked, lockers, queued>> /\ ~Online'
  BY DEF AcquireInv, AcquireTypeOK, AcquireLost, Lose, Close, Online
<1>2. acq' = [a \in Acquirers |-> f(a)]
  BY DEF AcquireLost
<1>3. ASSUME NEW a \in Acquirers
      PROVE  /\ f(a) \in AcquireType /\ f(a).pc = acq[a].pc /\ f(a).drain = acq[a].drain
             /\ f(a).wait = acq[a].wait /\ f(a).future = acq[a].future /\ f(a).of = acq[a].of
             /\ f(a).result = acq[a].result /\ f(a).got = acq[a].got
             /\ acq[a].pc \in {"idle", "locking"} => f(a).reply = acq[a].reply
  BY <1>1 DEF AcquireType
<1>4. \A a \in Acquirers : acq'[a] = f(a)
  BY <1>2
<1> HIDE DEF f
<1>5. /\ broker' \in [Acquirers -> {"none", "over"}]
      /\ \A a \in Acquirers : broker[a] = "none" => broker'[a] = "none"
  BY DEF AcquireLost
<1>6. AcquireTypeOK'
  BY <1>1, <1>2, <1>3, <1>5 DEF AcquireInv, AcquireTypeOK
<1>7. \A a \in Acquirers : (Holds(a)' <=> Holds(a)) /\ (Inside(a)' <=> Inside(a))
  BY <1>3, <1>4 DEF Holds, Inside
<1>8. OneHolder'
  BY <1>1, <1>3, <1>4, <1>7 DEF AcquireInv, OneHolder
<1>9. UncalledIsFresh'
  BY <1>3, <1>4, <1>5 DEF AcquireInv, UncalledIsFresh
<1>10. QueueIsHolder'
  BY <1>1, <1>3, <1>4, <1>7 DEF AcquireInv, QueueIsHolder
<1>11. BrokerAgrees'
  BY <1>5 DEF BrokerAgrees
<1>12. AnswersAreOwn'
  BY <1>3, <1>4 DEF AcquireInv, AnswersAreOwn
<1>13. QED
  BY <1>6, <1>8, <1>9, <1>10, <1>11, <1>12 DEF AcquireInv

LEMMA DisconnectedKeeps ==
    ASSUME AcquireInv, Notified, AcquireDisconnected
    PROVE  AcquireInv'
<1> DEFINE f(a) == IF Contains(queued, a) THEN [acq[a] EXCEPT !.future = "lost"] ELSE acq[a]
<1>1. /\ acq \in [Acquirers -> AcquireType] /\ ~Online
      /\ UNCHANGED <<locked, lockers, broker>> /\ queued' = <<>>
  BY DEF AcquireInv, AcquireTypeOK, AcquireDisconnected, Notified, Online
<1>2. acq' = [a \in Acquirers |-> f(a)]
  BY DEF AcquireDisconnected
<1>3. ASSUME NEW a \in Acquirers
      PROVE  /\ f(a) \in AcquireType /\ f(a).pc = acq[a].pc /\ f(a).drain = acq[a].drain
             /\ f(a).wait = acq[a].wait /\ f(a).reply = acq[a].reply /\ f(a).of = acq[a].of
             /\ f(a).result = acq[a].result /\ f(a).got = acq[a].got
             /\ f(a).future = acq[a].future \/ f(a).future = "lost"
             /\ ~Contains(queued, a) => f(a) = acq[a]
  BY <1>1 DEF AcquireType
<1>4. \A a \in Acquirers : acq'[a] = f(a)
  BY <1>2
<1> HIDE DEF f
<1>5. \A a \in Acquirers : broker[a] \in {"none", "over"}
  BY <1>1 DEF AcquireInv, BrokerAgrees
<1>6. AcquireTypeOK'
  <2>1. <<>> \in Seq(Acquirers)
    OBVIOUS
  <2>2. QED
    BY <1>1, <1>2, <1>3, <2>1 DEF AcquireInv, AcquireTypeOK
<1>7. \A a \in Acquirers : (Holds(a)' <=> Holds(a)) /\ (Inside(a)' <=> Inside(a))
  BY <1>3, <1>4 DEF Holds, Inside
<1>8. OneHolder'
  BY <1>1, <1>3, <1>4, <1>7 DEF AcquireInv, OneHolder
<1>9. UncalledIsFresh'
  <2>1. ASSUME NEW a \in Acquirers, acq[a].pc \in {"idle", "locking"}
        PROVE  ~Contains(queued, a)
    <3>1. ~Holds(a)
      BY <2>1 DEF AcquireInv, UncalledIsFresh, Holds, Inside
    <3>2. QED
      BY <3>1, Deque
  <2>2. QED
    BY <1>1, <1>3, <1>4, <2>1 DEF AcquireInv, UncalledIsFresh
<1>10. QueueIsHolder'
  BY <1>1 DEF QueueIsHolder
<1>11. BrokerAgrees'
  BY <1>1, <1>5 DEF BrokerAgrees
<1>12. AnswersAreOwn'
  BY <1>3, <1>4 DEF AcquireInv, AnswersAreOwn
<1>13. QED
  BY <1>6, <1>8, <1>9, <1>10, <1>11, <1>12 DEF AcquireInv

\* A session comes back, or the observer takes a step.
LEMMA ApartKeeps ==
    ASSUME AcquireInv, UNCHANGED acquireVars, Online => Online'
    PROVE  AcquireInv'
<1> USE DEF acquireVars
<1>1. AcquireTypeOK' /\ UncalledIsFresh' /\ QueueIsHolder' /\ AnswersAreOwn' /\ OneHolder'
  BY DEF AcquireInv, AcquireTypeOK, UncalledIsFresh, QueueIsHolder, AnswersAreOwn, OneHolder,
         Holds, Inside
<1>2. BrokerAgrees'
  BY DEF AcquireInv, BrokerAgrees
<1>3. QED
  BY <1>1, <1>2 DEF AcquireInv

LEMMA ObserverApart ==
    ASSUME ObserverSteps \/ ObserverFaults
    PROVE  UNCHANGED session
<1> USE DEF Keep, Booting
<1>1. ASSUME Start \/ StartReturns \/ CloseObserver \/ CloseReturns \/ Reconcile
      PROVE  UNCHANGED session
  BY <1>1 DEF Start, StartReturns, CloseObserver, CloseReturns, Reconcile
<1>2. ASSUME BootTask \/ ConsumerTask
      PROVE  UNCHANGED session
  BY <1>2 DEF BootTask, Invalidated, SubscriptionReady, ListReturns, ListRaises, BackoffEnds,
              ConsumerTask, Consume, Resubscribe, Resubscribed
<1>3. ASSUME InventoryChanges \/ Notify \/ SubscribeAccepted \/ SubscribeRefused
             \/ ListAnswered \/ ListRefused
      PROVE  UNCHANGED session
  BY <1>3 DEF InventoryChanges, Notify, SubscribeAccepted, SubscribeRefused, ListAnswered,
              ListRefused
<1>4. ASSUME RestoreAccepted \/ RestoreRefused \/ HandleReconnect
      PROVE  UNCHANGED session
  BY <1>4 DEF RestoreAccepted, RestoreRefused, HandleReconnect
<1>5. QED
  BY <1>1, <1>2, <1>3, <1>4 DEF ObserverSteps, ObserverFaults

LEMMA NextKeeps == AcquireInv /\ [Next]_vars => AcquireInv'
<1> SUFFICES ASSUME AcquireInv, [Next]_vars PROVE AcquireInv'
  OBVIOUS
<1>1. ASSUME NEW a \in Acquirers, AcquireSteps(a) \/ AcquireFaults(a)
      PROVE  AcquireInv'
  <2>1. CASE \E wait \in BOOLEAN : CallAcquire(a, wait)
    BY <2>1, CallKeeps
  <2>2. CASE LockAcquired(a)
    BY <2>2, LockAcquiredKeeps
  <2>3. CASE Answered(a)
    BY <2>3, AnsweredKeeps
  <2>4. CASE FinallyAnswered(a)
    BY <2>4, FinallyAnsweredKeeps
  <2>5. CASE Drain(a)
    BY <2>5, DrainKeeps
  <2>6. CASE BrokerAnswers(a)
    BY <2>6, BrokerAnswersKeeps
  <2>7. CASE BrokerFinishes(a)
    BY <2>7, BrokerFinishesKeeps
  <2>8. CASE CancelledAsking(a)
    BY <2>8, CancelledAskingKeeps
  <2>9. CASE CancelledLocking(a)
    BY <2>9, CancelledLockingKeeps
  <2>10. QED
    BY <1>1, <2>1, <2>2, <2>3, <2>4, <2>5, <2>6, <2>7, <2>8, <2>9
       DEF AcquireSteps, AcquireTask, AcquireFaults
<1>2. ASSUME (ObserverSteps \/ ObserverFaults) /\ UNCHANGED acquireVars
      PROVE  AcquireInv'
  BY <1>2, ObserverApart, ApartKeeps DEF Online, session
<1>3. CASE Disconnected
  BY <1>3, DisconnectedKeeps DEF Disconnected
<1>4. CASE Reconnected
  BY <1>4, ApartKeeps DEF Reconnected, Reconnect, Online
<1>5. CASE Restored
  BY <1>5, ApartKeeps DEF Restored, Online, acquireVars
<1>6. CASE LoseSession
  BY <1>6, LossKeeps DEF LoseSession
<1>7. CASE UNCHANGED vars
  BY <1>7, ApartKeeps DEF vars, session, Online
<1>8. QED
  BY <1>1, <1>2, <1>3, <1>4, <1>5, <1>6, <1>7 DEF Next, Step, Fault

LEMMA Invariance == Spec => []AcquireInv
  BY InvInit, NextKeeps, PTL DEF Spec

------------------------------------------------------------------------------
(* The theorems.                                                             *)

\* The variables of the acquisitions have their types in every reachable state,
\* whatever the callers, the broker and the connection do.
THEOREM AcquireTypeCorrect == Spec => []AcquireTypeOK
<1>1. AcquireInv => AcquireTypeOK
  BY DEF AcquireInv
<1>2. QED
  BY <1>1, Invariance, PTL

\* However many callers wait and are cancelled, none of them is given a lease
\* that the broker granted to another (lease.py:618-643, 883-902).
THEOREM GrantsAreOwn == Spec => []GrantReachesItsCaller
<1>1. AcquireInv => GrantReachesItsCaller
  BY DEF AcquireInv, AnswersAreOwn, GrantReachesItsCaller
<1>2. QED
  BY <1>1, Invariance, PTL

\* The lock has exactly one holder while it is held, a call or the drain of a
\* cancelled one, and none while it is free (lease.py:616-651, 897-902).
THEOREM LockIsExact == Spec => []AcquireLockExact
<1>1. ASSUME AcquireInv PROVE AcquireLockExact
  <2> DEFINE inside == {a \in Acquirers : Inside(a)}
             drained == {a \in Acquirers : acq[a].drain}
  <2>1. inside \cap drained = {}
    BY <1>1 DEF AcquireInv, OneHolder
  <2>2. CASE ~locked
    <3>1. inside = {} /\ drained = {}
      BY <1>1, <2>2 DEF AcquireInv, OneHolder, Holds
    <3>2. Cardinality(inside) = 0 /\ Cardinality(drained) = 0
      BY <3>1, FS_EmptySet
    <3>3. QED
      BY <2>1, <2>2, <3>2 DEF AcquireLockExact, Inside
  <2>3. CASE locked
    <3>1. PICK a \in Acquirers : Holds(a) /\ \A b \in Acquirers : Holds(b) => b = a
      BY <1>1, <2>3 DEF AcquireInv, OneHolder
    <3>2. CASE Inside(a)
      <4>1. inside = {a} /\ drained = {}
        BY <1>1, <3>1, <3>2 DEF AcquireInv, OneHolder, Holds
      <4>2. Cardinality(inside) = 1 /\ Cardinality(drained) = 0
        BY <4>1, FS_EmptySet, FS_Singleton
      <4>3. QED
        BY <2>1, <2>3, <4>2 DEF AcquireLockExact, Inside
    <3>3. CASE ~Inside(a)
      <4>1. inside = {} /\ drained = {a}
        BY <1>1, <3>1, <3>3 DEF AcquireInv, OneHolder, Holds
      <4>2. Cardinality(inside) = 0 /\ Cardinality(drained) = 1
        BY <4>1, FS_EmptySet, FS_Singleton
      <4>3. QED
        BY <2>1, <2>3, <4>2 DEF AcquireLockExact, Inside
    <3>4. QED
      BY <3>2, <3>3
  <2>4. QED
    BY <2>2, <2>3
<1>2. QED
  BY <1>1, Invariance, PTL

------------------------------------------------------------------------------
(* The observer: what its view shows is what the broker has, or the change   *)
(* is on its way.                                                            *)

\* The view, or what a LIST brought, is the inventory, or will be seen not to be.
Covered(v) == v = inventory \/ flying > 0 \/ sub.st = "failed"

\* No more notifications are on their way than changes were made.
NotifiedSince == flying <= inventory

NotStarted ==
    obs.life \in {"off", "starting"} =>
        ~obs.ready /\ ~obs.subReady /\ obs.boot = "off" /\ obs.cons = "off"

ReadyIsSubscribed == obs.ready => obs.subReady

\* The consumer has the subscription until it takes its failure or end.
SubscriptionKept ==
    obs.life = "open" /\ obs.subReady =>
        obs.cons = "iterating" /\ sub.st \in {"live", "failed", "ended"}

\* The broker serves a live subscription, but for the time of a restoration.
LiveIsServed == Online /\ restore # "todo" /\ sub.st = "live" => served

EndedIsClosed == sub.st = "ended" => mode = "closed"

UpIsRestored == mode = "up" => restore = "none"

\* The observer has heard of the session that it is in.
Told == obs.life = "open" /\ Online /\ restore = "none"

ViewCovered == Told /\ obs.ready /\ ~obs.buffering => Covered(obs.view)

\* A pass that nothing has invalidated is about to install a view as good.
SnapshotCovered ==
    Told /\ obs.boot = "listing" /\ obs.list = "answered" /\ ~Raced(obs) => Covered(obs.snapshot)

ObserverInv ==
    /\ SessionTypeOK /\ ObserverTypeOK /\ NotifiedSince
    /\ NotStarted /\ ReadyIsSubscribed /\ SubscriptionKept
    /\ LiveIsServed /\ EndedIsClosed /\ UpIsRestored
    /\ ViewCovered /\ SnapshotCovered

LEMMA ObserverInvInit == Init => ObserverInv
<1> SUFFICES ASSUME Init PROVE ObserverInv
  OBVIOUS
<1> USE DEF Init, SessionInit, ObserverInit
<1>1. SessionTypeOK /\ NotifiedSince
  BY SessionAssumption DEF SessionTypeOK, NotifiedSince
<1>2. obs \in ObserverType
  BY LeaseObserverAssumption DEF ObserverType
<1>3. sub \in SubType
  BY LeaseObserverAssumption DEF SubType, NoSub
<1>4. ObserverTypeOK
  <2>1. served \in BOOLEAN
    OBVIOUS
  <2>2. flying \in 0..MaxChanges /\ inventory \in 0..MaxChanges
    BY LeaseObserverAssumption
  <2>3. QED
    BY <1>2, <1>3, <2>1, <2>2 DEF ObserverTypeOK
<1>5. NotStarted /\ ReadyIsSubscribed /\ SubscriptionKept
  BY DEF NotStarted, ReadyIsSubscribed, SubscriptionKept
<1>6. LiveIsServed /\ EndedIsClosed /\ UpIsRestored
  BY DEF LiveIsServed, EndedIsClosed, UpIsRestored, NoSub
<1>7. ViewCovered /\ SnapshotCovered
  BY DEF ViewCovered, SnapshotCovered, Told
<1>8. QED
  BY <1>1, <1>4, <1>5, <1>6, <1>7 DEF ObserverInv

------------------------------------------------------------------------------
(* The types of the observer.                                                *)

LEMMA PassTyped ==
    ASSUME NEW o \in ObserverType
    PROVE  Pass(o) \in ObserverType
<1> DEFINE l == IF Online THEN "asked" ELSE "failed"
<1>1. [o EXCEPT !.boot = "blocked"] \in ObserverType
  BY Zenon DEF ObserverType
<1>2. \A x \in {"asked", "failed"} :
         [o EXCEPT !.boot = "listing", !.noted = FALSE, !.resubscribed = FALSE, !.list = x]
            \in ObserverType
  BY Zenon DEF ObserverType
<1>3. l \in {"asked", "failed"}
  OBVIOUS
<1>4. QED
  BY <1>1, <1>2, <1>3 DEF Pass

\* The methods of the observer keep its type.
LEMMA MethodsTyped ==
    ASSUME NEW o \in ObserverType
    PROVE  /\ Pass(o) \in ObserverType /\ Bootstrap(o) \in ObserverType
           /\ NoteNotification(o) \in ObserverType
           /\ NoteFailure(o) \in ObserverType
           /\ NoteReplacement(o) \in ObserverType
<1>1. [o EXCEPT !.invalidate = FALSE, !.buffering = TRUE, !.buffer = FALSE] \in ObserverType
  BY Zenon DEF ObserverType
<1>2. Bootstrap(o) \in ObserverType
  BY PassTyped, <1>1 DEF Bootstrap
<1>3. NoteNotification(o) \in ObserverType
  BY Zenon DEF ObserverType, NoteNotification
<1>4. NoteFailure(o) \in ObserverType
  BY Zenon DEF ObserverType, NoteFailure
<1>5. NoteReplacement(o) \in ObserverType
  BY Zenon DEF ObserverType, NoteReplacement
<1>6. QED
  BY PassTyped, <1>2, <1>3, <1>4, <1>5

\* So do the assignments of its tasks.
LEMMA UpdatesTyped ==
    ASSUME NEW o \in ObserverType, NEW p \in ObserverType, inventory \in 0..MaxChanges,
           NEW x \in {"closing", "subscribing", "backoff", "iterating"}
    PROVE
      /\ [o EXCEPT !.life = "starting"] \in ObserverType
      /\ [o EXCEPT !.life = "closed"] \in ObserverType
      /\ [o EXCEPT !.life = "open", !.boot = "idle", !.cons = "iterating"] \in ObserverType
      /\ [o EXCEPT !.life = "closing", !.invalidate = TRUE, !.boot = "over",
                   !.cons = "over", !.list = "none"] \in ObserverType
      /\ [o EXCEPT !.invalidate = FALSE, !.boot = "waiting"] \in ObserverType
      /\ [o EXCEPT !.buffer = FALSE, !.list = "none"] \in ObserverType
      /\ [o EXCEPT !.boot = "raced"] \in ObserverType
      /\ [o EXCEPT !.view = p.snapshot, !.buffering = FALSE, !.ready = TRUE,
                   !.boot = "idle"] \in ObserverType
      /\ [o EXCEPT !.ready = FALSE, !.list = "none", !.boot = "retry"] \in ObserverType
      /\ [o EXCEPT !.invalidate = TRUE, !.boot = "idle"] \in ObserverType
      /\ [o EXCEPT !.ready = FALSE, !.invalidate = TRUE] \in ObserverType
      /\ [o EXCEPT !.buffer = TRUE] \in ObserverType
      /\ [o EXCEPT !.subReady = FALSE, !.ready = FALSE, !.cons = "over"] \in ObserverType
      /\ [o EXCEPT !.list = "answered", !.snapshot = inventory] \in ObserverType
      /\ [o EXCEPT !.list = "failed"] \in ObserverType
      /\ [o EXCEPT !.ready = FALSE, !.buffering = TRUE, !.buffer = FALSE,
                   !.resubscribed = TRUE, !.invalidate = TRUE] \in ObserverType
      /\ [o EXCEPT !.cons = x] \in ObserverType
<1>1. [o EXCEPT !.life = "starting"] \in ObserverType
  BY ZenonT(30) DEF ObserverType
<1>2. [o EXCEPT !.life = "closed"] \in ObserverType
  BY ZenonT(30) DEF ObserverType
<1>3. [o EXCEPT !.life = "open", !.boot = "idle", !.cons = "iterating"] \in ObserverType
  BY ZenonT(30) DEF ObserverType
<1>4. [o EXCEPT !.life = "closing", !.invalidate = TRUE, !.boot = "over",
               !.cons = "over", !.list = "none"] \in ObserverType
  BY ZenonT(30) DEF ObserverType
<1>5. [o EXCEPT !.invalidate = FALSE, !.boot = "waiting"] \in ObserverType
  BY ZenonT(30) DEF ObserverType
<1>6. [o EXCEPT !.buffer = FALSE, !.list = "none"] \in ObserverType
  BY ZenonT(30) DEF ObserverType
<1>7. [o EXCEPT !.boot = "raced"] \in ObserverType
  BY ZenonT(30) DEF ObserverType
<1>8. [o EXCEPT !.view = p.snapshot, !.buffering = FALSE, !.ready = TRUE,
               !.boot = "idle"] \in ObserverType
  BY ZenonT(30) DEF ObserverType
<1>9. [o EXCEPT !.ready = FALSE, !.list = "none", !.boot = "retry"] \in ObserverType
  BY ZenonT(30) DEF ObserverType
<1>10. [o EXCEPT !.invalidate = TRUE, !.boot = "idle"] \in ObserverType
  BY ZenonT(30) DEF ObserverType
<1>11. [o EXCEPT !.ready = FALSE, !.invalidate = TRUE] \in ObserverType
  BY ZenonT(30) DEF ObserverType
<1>12. [o EXCEPT !.buffer = TRUE] \in ObserverType
  BY ZenonT(30) DEF ObserverType
<1>13. [o EXCEPT !.subReady = FALSE, !.ready = FALSE, !.cons = "over"] \in ObserverType
  BY ZenonT(30) DEF ObserverType
<1>14. [o EXCEPT !.list = "answered", !.snapshot = inventory] \in ObserverType
  BY ZenonT(30) DEF ObserverType
<1>15. [o EXCEPT !.list = "failed"] \in ObserverType
  BY ZenonT(30) DEF ObserverType
<1>16. [o EXCEPT !.ready = FALSE, !.buffering = TRUE, !.buffer = FALSE,
               !.resubscribed = TRUE, !.invalidate = TRUE] \in ObserverType
  BY ZenonT(30) DEF ObserverType
<1>17. [o EXCEPT !.cons = x] \in ObserverType
  BY ZenonT(30) DEF ObserverType
<1>18. QED
  BY <1>1, <1>2, <1>3, <1>4, <1>5, <1>6, <1>7, <1>8, <1>9,
     <1>10, <1>11, <1>12, <1>13, <1>14, <1>15, <1>16, <1>17

\* The record the observer is stays one.
LEMMA ObserverTyped ==
    ASSUME ObserverInv, ObserverSteps \/ ObserverFaults
    PROVE  obs' \in ObserverType
<1> USE DEF ObserverInv, ObserverTypeOK, Booting
<1>1. ASSUME Start PROVE obs' \in ObserverType
  BY <1>1, MethodsTyped, UpdatesTyped, ZenonT(30) DEF Start
<1>2. ASSUME StartReturns PROVE obs' \in ObserverType
  BY <1>2, MethodsTyped, UpdatesTyped, ZenonT(30) DEF StartReturns
<1>3. ASSUME CloseObserver PROVE obs' \in ObserverType
  BY <1>3, MethodsTyped, UpdatesTyped, ZenonT(30) DEF CloseObserver
<1>4. ASSUME CloseReturns PROVE obs' \in ObserverType
  BY <1>4, MethodsTyped, UpdatesTyped, ZenonT(30) DEF CloseReturns
<1>5. ASSUME Invalidated PROVE obs' \in ObserverType
  BY <1>5, MethodsTyped, UpdatesTyped, ZenonT(30) DEF Invalidated
<1>6. ASSUME SubscriptionReady PROVE obs' \in ObserverType
  BY <1>6, MethodsTyped, UpdatesTyped, ZenonT(30) DEF SubscriptionReady
<1>7. ASSUME ListReturns PROVE obs' \in ObserverType
  BY <1>7, MethodsTyped, UpdatesTyped, ZenonT(30) DEF ListReturns
<1>8. ASSUME ListRaises PROVE obs' \in ObserverType
  BY <1>8, MethodsTyped, UpdatesTyped, ZenonT(30) DEF ListRaises
<1>9. ASSUME BackoffEnds PROVE obs' \in ObserverType
  BY <1>9, MethodsTyped, UpdatesTyped, ZenonT(30) DEF BackoffEnds
<1>10. ASSUME Reconcile PROVE obs' \in ObserverType
  BY <1>10, MethodsTyped, UpdatesTyped, ZenonT(30) DEF Reconcile
<1>11. ASSUME Consume PROVE obs' \in ObserverType
  <2> DEFINE o == IF obs.subReady THEN NoteFailure(obs) ELSE obs
  <2>1. o \in ObserverType
    BY MethodsTyped
  <2>2. [o EXCEPT !.cons = "closing"] \in ObserverType
    BY <2>1, UpdatesTyped, ZenonT(30)
  <2> HIDE DEF o
  <2>3. QED
    BY <1>11, <2>2, MethodsTyped, UpdatesTyped, ZenonT(30) DEF Consume, o
<1>12. ASSUME Resubscribe PROVE obs' \in ObserverType
  BY <1>12, MethodsTyped, UpdatesTyped, ZenonT(30) DEF Resubscribe
<1>13. ASSUME Resubscribed PROVE obs' \in ObserverType
  BY <1>13, MethodsTyped, UpdatesTyped, ZenonT(30) DEF Resubscribed
<1>14. ASSUME InventoryChanges PROVE obs' \in ObserverType
  BY <1>14, MethodsTyped, UpdatesTyped, ZenonT(30) DEF InventoryChanges
<1>15. ASSUME Notify PROVE obs' \in ObserverType
  BY <1>15, MethodsTyped, UpdatesTyped, ZenonT(30) DEF Notify
<1>16. ASSUME SubscribeAccepted PROVE obs' \in ObserverType
  BY <1>16, MethodsTyped, UpdatesTyped, ZenonT(30) DEF SubscribeAccepted
<1>17. ASSUME SubscribeRefused PROVE obs' \in ObserverType
  BY <1>17, MethodsTyped, UpdatesTyped, ZenonT(30) DEF SubscribeRefused
<1>18. ASSUME ListAnswered PROVE obs' \in ObserverType
  BY <1>18, MethodsTyped, UpdatesTyped, Zenon DEF ListAnswered
<1>19. ASSUME ListRefused PROVE obs' \in ObserverType
  BY <1>19, MethodsTyped, UpdatesTyped, Zenon DEF ListRefused
<1>20. ASSUME RestoreAccepted PROVE obs' \in ObserverType
  BY <1>20, MethodsTyped, UpdatesTyped, Zenon DEF RestoreAccepted
<1>21. ASSUME RestoreRefused PROVE obs' \in ObserverType
  BY <1>21, MethodsTyped, UpdatesTyped, Zenon DEF RestoreRefused
<1>22. ASSUME HandleReconnect PROVE obs' \in ObserverType
  BY <1>22, MethodsTyped, UpdatesTyped, Zenon DEF HandleReconnect
<1>23. QED
  BY <1>1, <1>2, <1>3, <1>4, <1>5, <1>6, <1>7, <1>8, <1>9, <1>10, <1>11, <1>12, <1>13,
     <1>14, <1>15, <1>16, <1>17, <1>18, <1>19, <1>20, <1>21, <1>22
     DEF ObserverSteps, ObserverFaults, BootTask, ConsumerTask

LEMMA SubTyped ==
    ASSUME ObserverInv, ObserverSteps \/ ObserverFaults
    PROVE  sub' \in SubType
<1> USE LeaseObserverAssumption DEF ObserverInv, ObserverTypeOK, SubType, Booting, NoSub, Sub, Fits
<1>1. ASSUME Start PROVE sub' \in SubType
  BY <1>1 DEF Start
<1>2. ASSUME StartReturns PROVE sub' \in SubType
  BY <1>2 DEF StartReturns
<1>3. ASSUME CloseObserver PROVE sub' \in SubType
  BY <1>3 DEF CloseObserver
<1>4. ASSUME CloseReturns PROVE sub' \in SubType
  BY <1>4 DEF CloseReturns
<1>5. ASSUME Invalidated PROVE sub' \in SubType
  BY <1>5 DEF Invalidated
<1>6. ASSUME SubscriptionReady PROVE sub' \in SubType
  BY <1>6 DEF SubscriptionReady
<1>7. ASSUME ListReturns PROVE sub' \in SubType
  BY <1>7 DEF ListReturns
<1>8. ASSUME ListRaises PROVE sub' \in SubType
  BY <1>8 DEF ListRaises
<1>9. ASSUME BackoffEnds PROVE sub' \in SubType
  BY <1>9 DEF BackoffEnds
<1>10. ASSUME Reconcile PROVE sub' \in SubType
  BY <1>10 DEF Reconcile
<1>11. ASSUME Consume PROVE sub' \in SubType
  BY <1>11 DEF Consume
<1>12. ASSUME Resubscribe PROVE sub' \in SubType
  BY <1>12 DEF Resubscribe
<1>13. ASSUME Resubscribed PROVE sub' \in SubType
  BY <1>13 DEF Resubscribed
<1>14. ASSUME InventoryChanges PROVE sub' \in SubType
  BY <1>14 DEF InventoryChanges
<1>15. ASSUME Notify PROVE sub' \in SubType
  BY <1>15 DEF Notify
<1>16. ASSUME SubscribeAccepted PROVE sub' \in SubType
  BY <1>16 DEF SubscribeAccepted
<1>17. ASSUME SubscribeRefused PROVE sub' \in SubType
  BY <1>17 DEF SubscribeRefused
<1>18. ASSUME ListAnswered PROVE sub' \in SubType
  BY <1>18 DEF ListAnswered
<1>19. ASSUME ListRefused PROVE sub' \in SubType
  BY <1>19 DEF ListRefused
<1>20. ASSUME RestoreAccepted PROVE sub' \in SubType
  BY <1>20 DEF RestoreAccepted
<1>21. ASSUME RestoreRefused PROVE sub' \in SubType
  BY <1>21 DEF RestoreRefused
<1>22. ASSUME HandleReconnect PROVE sub' \in SubType
  BY <1>22 DEF HandleReconnect
<1>23. QED
  BY <1>1, <1>2, <1>3, <1>4, <1>5, <1>6, <1>7, <1>8, <1>9, <1>10, <1>11, <1>12, <1>13,
     <1>14, <1>15, <1>16, <1>17, <1>18, <1>19, <1>20, <1>21, <1>22
     DEF ObserverSteps, ObserverFaults, BootTask, ConsumerTask

LEMMA ServedTyped ==
    ASSUME ObserverInv, ObserverSteps \/ ObserverFaults
    PROVE  served' \in BOOLEAN
<1> USE DEF ObserverInv, ObserverTypeOK, Booting, Keep, wireVars
<1>1. ASSUME Start PROVE served' \in BOOLEAN
  BY <1>1 DEF Start
<1>2. ASSUME StartReturns PROVE served' \in BOOLEAN
  BY <1>2 DEF StartReturns
<1>3. ASSUME CloseObserver PROVE served' \in BOOLEAN
  BY <1>3 DEF CloseObserver
<1>4. ASSUME CloseReturns PROVE served' \in BOOLEAN
  BY <1>4 DEF CloseReturns
<1>5. ASSUME Invalidated PROVE served' \in BOOLEAN
  BY <1>5 DEF Invalidated
<1>6. ASSUME SubscriptionReady PROVE served' \in BOOLEAN
  BY <1>6 DEF SubscriptionReady
<1>7. ASSUME ListReturns PROVE served' \in BOOLEAN
  BY <1>7 DEF ListReturns
<1>8. ASSUME ListRaises PROVE served' \in BOOLEAN
  BY <1>8 DEF ListRaises
<1>9. ASSUME BackoffEnds PROVE served' \in BOOLEAN
  BY <1>9 DEF BackoffEnds
<1>10. ASSUME Reconcile PROVE served' \in BOOLEAN
  BY <1>10 DEF Reconcile
<1>11. ASSUME Consume PROVE served' \in BOOLEAN
  BY <1>11 DEF Consume
<1>12. ASSUME Resubscribe PROVE served' \in BOOLEAN
  BY <1>12 DEF Resubscribe
<1>13. ASSUME Resubscribed PROVE served' \in BOOLEAN
  BY <1>13 DEF Resubscribed
<1>14. ASSUME InventoryChanges PROVE served' \in BOOLEAN
  BY <1>14 DEF InventoryChanges
<1>15. ASSUME Notify PROVE served' \in BOOLEAN
  BY <1>15 DEF Notify
<1>16. ASSUME SubscribeAccepted PROVE served' \in BOOLEAN
  BY <1>16 DEF SubscribeAccepted
<1>17. ASSUME SubscribeRefused PROVE served' \in BOOLEAN
  BY <1>17 DEF SubscribeRefused
<1>18. ASSUME ListAnswered PROVE served' \in BOOLEAN
  BY <1>18 DEF ListAnswered
<1>19. ASSUME ListRefused PROVE served' \in BOOLEAN
  BY <1>19 DEF ListRefused
<1>20. ASSUME RestoreAccepted PROVE served' \in BOOLEAN
  BY <1>20 DEF RestoreAccepted
<1>21. ASSUME RestoreRefused PROVE served' \in BOOLEAN
  BY <1>21 DEF RestoreRefused
<1>22. ASSUME HandleReconnect PROVE served' \in BOOLEAN
  BY <1>22 DEF HandleReconnect
<1>23. QED
  BY <1>1, <1>2, <1>3, <1>4, <1>5, <1>6, <1>7, <1>8, <1>9, <1>10, <1>11, <1>12, <1>13,
     <1>14, <1>15, <1>16, <1>17, <1>18, <1>19, <1>20, <1>21, <1>22
     DEF ObserverSteps, ObserverFaults, BootTask, ConsumerTask

LEMMA CountedKept ==
    ASSUME ObserverInv, ObserverSteps \/ ObserverFaults
    PROVE  /\ flying' \in 0..MaxChanges /\ inventory' \in 0..MaxChanges
           /\ restore' \in {"none", "todo", "handle"} /\ NotifiedSince'
<1> DEFINE Counted == /\ flying \in 0..MaxChanges /\ inventory \in 0..MaxChanges
                      /\ restore \in {"none", "todo", "handle"} /\ NotifiedSince
<1> USE LeaseObserverAssumption
    DEF ObserverInv, ObserverTypeOK, NotifiedSince, Booting, Keep, wireVars
<1>1. ASSUME Start PROVE Counted'
  BY <1>1 DEF Start
<1>2. ASSUME StartReturns PROVE Counted'
  BY <1>2 DEF StartReturns
<1>3. ASSUME CloseObserver PROVE Counted'
  BY <1>3 DEF CloseObserver
<1>4. ASSUME CloseReturns PROVE Counted'
  BY <1>4 DEF CloseReturns
<1>5. ASSUME Invalidated PROVE Counted'
  BY <1>5 DEF Invalidated
<1>6. ASSUME SubscriptionReady PROVE Counted'
  BY <1>6 DEF SubscriptionReady
<1>7. ASSUME ListReturns PROVE Counted'
  BY <1>7 DEF ListReturns
<1>8. ASSUME ListRaises PROVE Counted'
  BY <1>8 DEF ListRaises
<1>9. ASSUME BackoffEnds PROVE Counted'
  BY <1>9 DEF BackoffEnds
<1>10. ASSUME Reconcile PROVE Counted'
  BY <1>10 DEF Reconcile
<1>11. ASSUME Consume PROVE Counted'
  BY <1>11 DEF Consume
<1>12. ASSUME Resubscribe PROVE Counted'
  BY <1>12 DEF Resubscribe
<1>13. ASSUME Resubscribed PROVE Counted'
  BY <1>13 DEF Resubscribed
<1>14. ASSUME InventoryChanges PROVE Counted'
  BY <1>14 DEF InventoryChanges
<1>15. ASSUME Notify PROVE Counted'
  BY <1>15 DEF Notify
<1>16. ASSUME SubscribeAccepted PROVE Counted'
  BY <1>16 DEF SubscribeAccepted
<1>17. ASSUME SubscribeRefused PROVE Counted'
  BY <1>17 DEF SubscribeRefused
<1>18. ASSUME ListAnswered PROVE Counted'
  BY <1>18 DEF ListAnswered
<1>19. ASSUME ListRefused PROVE Counted'
  BY <1>19 DEF ListRefused
<1>20. ASSUME RestoreAccepted PROVE Counted'
  BY <1>20 DEF RestoreAccepted
<1>21. ASSUME RestoreRefused PROVE Counted'
  BY <1>21 DEF RestoreRefused
<1>22. ASSUME HandleReconnect PROVE Counted'
  BY <1>22 DEF HandleReconnect
<1>23. QED
  BY <1>1, <1>2, <1>3, <1>4, <1>5, <1>6, <1>7, <1>8, <1>9, <1>10, <1>11, <1>12, <1>13,
     <1>14, <1>15, <1>16, <1>17, <1>18, <1>19, <1>20, <1>21, <1>22
     DEF ObserverSteps, ObserverFaults, BootTask, ConsumerTask

------------------------------------------------------------------------------
(* What the steps that call the observer's methods change.                   *)

LEMMA PassFields ==
    ASSUME NEW o \in ObserverType
    PROVE  /\ Pass(o).life = o.life /\ Pass(o).cons = o.cons /\ Pass(o).subReady = o.subReady
           /\ Pass(o).view = o.view /\ Pass(o).ready = o.ready
           /\ Pass(o).buffering = o.buffering
           /\ Pass(o).boot = "blocked" \/ (Pass(o).boot = "listing" /\ Pass(o).list # "answered")
<1>1. CASE o.subReady
  BY <1>1 DEF Pass, ObserverType
<1>2. CASE ~o.subReady
  <2>1. Pass(o) = [o EXCEPT !.boot = "blocked"]
    BY <1>2 DEF Pass
  <2>2. QED
    BY <2>1 DEF ObserverType
<1>3. QED
  BY <1>1, <1>2

LEMMA NoteNotificationFields ==
    ASSUME NEW o \in ObserverType
    PROVE  LET n == NoteNotification(o) IN
           /\ n.life = o.life /\ n.boot = o.boot /\ n.cons = o.cons /\ n.subReady = o.subReady
           /\ n.list = o.list /\ n.view = o.view /\ n.snapshot = o.snapshot
           /\ n.buffering = o.buffering /\ n.noted
           /\ n.ready => o.ready /\ o.buffering
<1>1. CASE o.buffering
  BY <1>1 DEF ObserverType, NoteNotification
<1>2. CASE ~o.buffering
  BY <1>2 DEF ObserverType, NoteNotification
<1>3. QED
  BY <1>1, <1>2

LEMMA NoteFailureFields ==
    ASSUME NEW o \in ObserverType
    PROVE  LET n == NoteFailure(o) IN
           /\ n.life = o.life /\ n.boot = o.boot /\ n.cons = o.cons
           /\ n.list = o.list /\ n.view = o.view /\ n.snapshot = o.snapshot
           /\ ~n.ready /\ ~n.subReady
  BY DEF ObserverType, NoteFailure

LEMMA NoteReplacementFields ==
    ASSUME NEW o \in ObserverType
    PROVE  LET n == NoteReplacement(o) IN
           /\ n.life = o.life /\ n.boot = o.boot /\ n.cons = o.cons
           /\ n.list = o.list /\ n.view = o.view /\ n.snapshot = o.snapshot
           /\ n.ready = o.ready /\ n.buffering = o.buffering
           /\ n.subReady /\ n.resubscribed
  BY DEF ObserverType, NoteReplacement

\* A pass begins, or waits for the subscription, or for its backoff's end.
LEMMA PassEffect ==
    ASSUME ObserverInv, Invalidated \/ SubscriptionReady \/ BackoffEnds
    PROVE  /\ UNCHANGED <<session, sub, wireVars>>
           /\ obs'.life = obs.life /\ obs'.cons = obs.cons /\ obs'.subReady = obs.subReady
           /\ obs'.view = obs.view /\ obs'.ready = obs.ready
           /\ obs.buffering => obs'.buffering
           /\ obs'.boot = "listing" => obs'.list # "answered"
           /\ obs.boot # "off"
<1> DEFINE b == [obs EXCEPT !.invalidate = FALSE, !.buffering = TRUE, !.buffer = FALSE]
           w == [obs EXCEPT !.invalidate = FALSE, !.boot = "waiting"]
           r == [obs EXCEPT !.invalidate = TRUE, !.boot = "idle"]
<1> USE DEF ObserverInv, ObserverTypeOK
<1>1. /\ UNCHANGED <<session, sub, wireVars>> /\ obs.boot # "off"
      /\ \/ obs' = Pass(b) \/ obs' = Pass(obs) \/ obs' = w \/ obs' = r
  BY DEF Invalidated, SubscriptionReady, BackoffEnds, Booting, Keep, Bootstrap
<1>2. /\ b \in ObserverType /\ b.life = obs.life /\ b.cons = obs.cons /\ b.subReady = obs.subReady
      /\ b.view = obs.view /\ b.ready = obs.ready /\ b.buffering
  <2>1. b \in ObserverType
    BY Zenon DEF ObserverType
  <2>2. QED
    BY <2>1 DEF ObserverType
<1>3. /\ w.life = obs.life /\ w.cons = obs.cons /\ w.subReady = obs.subReady
      /\ w.view = obs.view /\ w.ready = obs.ready /\ w.buffering = obs.buffering
      /\ w.boot = "waiting"
  BY DEF ObserverType
<1>4. /\ r.life = obs.life /\ r.cons = obs.cons /\ r.subReady = obs.subReady
      /\ r.view = obs.view /\ r.ready = obs.ready /\ r.buffering = obs.buffering
      /\ r.boot = "idle"
  BY DEF ObserverType
<1> HIDE DEF b, w, r
<1>5. QED
  BY <1>1, <1>2, <1>3, <1>4, PassFields

\* The subscription of observe() or its replacement is there, or is not.
LEMMA SubscribedEffect ==
    ASSUME ObserverInv, StartReturns \/ Resubscribed
    PROVE  /\ UNCHANGED <<session, sub, wireVars>>
           /\ obs'.view = obs.view /\ obs'.ready = obs.ready /\ obs'.buffering = obs.buffering
           /\ obs'.list = obs.list /\ obs'.snapshot = obs.snapshot
           /\ \/ /\ obs.life = "starting" /\ obs'.life = "closed"
              \/ /\ obs.cons = "subscribing" /\ obs'.life = obs.life /\ obs'.boot = obs.boot
                 /\ obs'.subReady = obs.subReady /\ obs'.cons = "backoff"
              \/ /\ sub.st \in {"live", "failed", "ended"} /\ obs'.resubscribed
                 /\ \/ obs.life = "starting" /\ obs'.life = "open"
                    \/ obs.cons = "subscribing" /\ obs'.life = obs.life
                 /\ obs'.cons = "iterating"
                 /\ obs'.boot = "idle" \/ obs'.boot = obs.boot
                 /\ obs'.subReady
<1> DEFINE n == NoteReplacement(obs)
<1> USE DEF ObserverInv, ObserverTypeOK
<1>1. /\ UNCHANGED <<session, sub, wireVars>>
      /\ sub.st = "none" \/ sub.st \in {"live", "failed", "ended"}
  BY DEF StartReturns, Resubscribed, Keep, SubType
<1>2. /\ n.life = obs.life /\ n.boot = obs.boot /\ n.cons = obs.cons
      /\ n.list = obs.list /\ n.view = obs.view /\ n.snapshot = obs.snapshot
      /\ n.ready = obs.ready /\ n.buffering = obs.buffering
      /\ n.subReady /\ n.resubscribed /\ n \in ObserverType
  BY NoteReplacementFields, MethodsTyped
<1>3. CASE sub.st = "none"
  BY <1>1, <1>3 DEF StartReturns, Resubscribed, ObserverType
<1>4. CASE sub.st # "none"
  <2>1. \/ obs.life = "starting"
           /\ obs' = [n EXCEPT !.life = "open", !.boot = "idle", !.cons = "iterating"]
        \/ obs.cons = "subscribing" /\ obs' = [n EXCEPT !.cons = "iterating"]
    BY <1>4 DEF StartReturns, Resubscribed
  <2> HIDE DEF n
  <2>2. CASE obs.cons = "subscribing" /\ obs' = [n EXCEPT !.cons = "iterating"]
    BY <1>1, <1>2, <1>4, <2>2 DEF ObserverType
  <2>3. CASE /\ obs.life = "starting"
             /\ obs' = [n EXCEPT !.life = "open", !.boot = "idle", !.cons = "iterating"]
    <3>1. /\ obs'.view = n.view /\ obs'.ready = n.ready /\ obs'.buffering = n.buffering
          /\ obs'.list = n.list /\ obs'.snapshot = n.snapshot
          /\ obs'.resubscribed = n.resubscribed /\ obs'.subReady = n.subReady
          /\ obs'.life = "open" /\ obs'.boot = "idle" /\ obs'.cons = "iterating"
      BY <1>2, <2>3 DEF ObserverType
    <3>2. QED
      BY <1>1, <1>2, <1>4, <2>3, <3>1
  <2>4. QED
    BY <2>1, <2>2, <2>3
<1>5. QED
  BY <1>3, <1>4

\* The consumer gets a notification, or the end of its subscription.
LEMMA ConsumeEffect ==
    ASSUME ObserverInv, Consume
    PROVE  /\ UNCHANGED <<session, wireVars>> /\ sub'.st = sub.st
           /\ obs'.life = obs.life /\ obs'.view = obs.view /\ obs'.boot = obs.boot
           /\ obs'.list = obs.list /\ obs'.snapshot = obs.snapshot
           /\ obs.cons = "iterating"
           /\ \/ /\ obs'.cons = obs.cons /\ obs'.subReady = obs.subReady
                 /\ obs'.buffering = obs.buffering /\ (obs'.ready => obs.ready)
                 /\ obs'.noted = obs.noted /\ obs'.resubscribed = obs.resubscribed
                 /\ obs.buffer => obs'.buffer
              \/ ~obs'.ready /\ ~obs'.subReady
<1> DEFINE o == IF obs.subReady THEN NoteFailure(obs) ELSE obs
<1> USE DEF ObserverInv, ObserverTypeOK
<1>1. UNCHANGED <<session, wireVars>> /\ sub'.st = sub.st /\ obs.cons = "iterating"
  BY DEF Consume, Keep, SubType
<1>2. /\ o \in ObserverType /\ o.life = obs.life /\ o.view = obs.view /\ o.boot = obs.boot
      /\ o.list = obs.list /\ o.snapshot = obs.snapshot /\ ~o.ready /\ ~o.subReady
  BY MethodsTyped, NoteFailureFields DEF ReadyIsSubscribed
<1>3. \/ obs' = [obs EXCEPT !.buffer = TRUE]
      \/ obs' = [obs EXCEPT !.ready = FALSE, !.invalidate = TRUE]
      \/ obs' = [o EXCEPT !.cons = "closing"]
      \/ obs' = [obs EXCEPT !.subReady = FALSE, !.ready = FALSE, !.cons = "over"]
  BY DEF Consume
<1> HIDE DEF o
<1>4. CASE obs' = [obs EXCEPT !.buffer = TRUE]
  BY <1>1, <1>4 DEF ObserverType
<1>5. CASE obs' = [obs EXCEPT !.ready = FALSE, !.invalidate = TRUE]
  BY <1>1, <1>5 DEF ObserverType
<1>6. CASE obs' = [o EXCEPT !.cons = "closing"]
  BY <1>1, <1>2, <1>6 DEF ObserverType
<1>7. CASE obs' = [obs EXCEPT !.subReady = FALSE, !.ready = FALSE, !.cons = "over"]
  BY <1>1, <1>7 DEF ObserverType
<1>8. QED
  BY <1>3, <1>4, <1>5, <1>6, <1>7

\* A notification arrives: it is dropped, taken note of, or one too many.
LEMMA NotifyEffect ==
    ASSUME ObserverInv, Notify
    PROVE  /\ Online /\ flying > 0 /\ UNCHANGED <<session, served, inventory, restore>>
           /\ obs'.life = obs.life /\ obs'.cons = obs.cons /\ obs'.boot = obs.boot
           /\ obs'.list = obs.list /\ obs'.view = obs.view /\ obs'.snapshot = obs.snapshot
           /\ \/ sub.st # "live" /\ UNCHANGED <<obs, sub>>
              \/ /\ sub.st = "live" /\ sub'.st = "live"
                 /\ obs'.subReady = obs.subReady /\ obs'.buffering = obs.buffering
                 /\ obs'.noted /\ (obs'.ready => obs.ready /\ obs.buffering)
              \/ sub.st = "live" /\ sub'.st = "failed" /\ ~obs'.ready /\ ~obs'.subReady
<1> DEFINE n == NoteNotification(obs)
<1> USE DEF ObserverInv, ObserverTypeOK
<1>1. n \in ObserverType
  BY MethodsTyped
<1>2. CASE sub.st # "live"
  BY <1>2 DEF Notify
<1>3. CASE sub.st = "live" /\ Fits
  <2>1. obs' = n /\ sub'.st = "live"
    BY <1>3 DEF Notify, SubType
  <2>2. QED
    BY <1>3, <2>1, NoteNotificationFields DEF Notify
<1>4. CASE sub.st = "live" /\ ~Fits
  <2>1. obs' = NoteFailure(n) /\ sub'.st = "failed"
    BY <1>4 DEF Notify, Sub
  <2> HIDE DEF n
  <2>2. /\ obs'.life = n.life /\ obs'.cons = n.cons /\ obs'.boot = n.boot
        /\ obs'.list = n.list /\ obs'.view = n.view /\ obs'.snapshot = n.snapshot
        /\ ~obs'.ready /\ ~obs'.subReady
    BY <1>1, <2>1, NoteFailureFields
  <2>3. QED
    BY <1>4, <2>1, <2>2, NoteNotificationFields DEF Notify, n
<1>5. QED
  BY <1>2, <1>3, <1>4

------------------------------------------------------------------------------
(* The observer's invariant.                                                 *)

LEMMA StandingKept ==
    ASSUME ObserverInv, ObserverSteps \/ ObserverFaults
    PROVE  NotStarted' /\ ReadyIsSubscribed' /\ SubscriptionKept'
<1> DEFINE Standing == NotStarted /\ ReadyIsSubscribed /\ SubscriptionKept
<1> USE DEF ObserverInv, NotStarted, ReadyIsSubscribed,
            SubscriptionKept, Booting, NoSub, Sub, Raced
<1>1. ASSUME Start PROVE Standing'
  BY <1>1 DEF Start, ObserverTypeOK, ObserverType, SubType
<1>2. ASSUME StartReturns PROVE Standing'
  BY <1>2, SubscribedEffect
<1>3. ASSUME CloseObserver PROVE Standing'
  BY <1>3 DEF CloseObserver, ObserverTypeOK, ObserverType, SubType
<1>4. ASSUME CloseReturns PROVE Standing'
  BY <1>4 DEF CloseReturns, ObserverTypeOK, ObserverType, SubType
<1>5. ASSUME Invalidated PROVE Standing'
  BY <1>5, PassEffect
<1>6. ASSUME SubscriptionReady PROVE Standing'
  BY <1>6, PassEffect
<1>7. ASSUME ListReturns PROVE Standing'
  BY <1>7 DEF ListReturns, ObserverTypeOK, ObserverType, SubType
<1>8. ASSUME ListRaises PROVE Standing'
  BY <1>8 DEF ListRaises, ObserverTypeOK, ObserverType, SubType
<1>9. ASSUME BackoffEnds PROVE Standing'
  BY <1>9, PassEffect
<1>10. ASSUME Reconcile PROVE Standing'
  BY <1>10 DEF Reconcile, ObserverTypeOK, ObserverType, SubType
<1>11. ASSUME Consume PROVE Standing'
  BY <1>11, ConsumeEffect
<1>12. ASSUME Resubscribe PROVE Standing'
  BY <1>12 DEF Resubscribe, ObserverTypeOK, ObserverType, SubType
<1>13. ASSUME Resubscribed PROVE Standing'
  BY <1>13, SubscribedEffect
<1>14. ASSUME InventoryChanges PROVE Standing'
  BY <1>14 DEF InventoryChanges, ObserverTypeOK, ObserverType, SubType
<1>15. ASSUME Notify PROVE Standing'
  BY <1>15, NotifyEffect
<1>16. ASSUME SubscribeAccepted PROVE Standing'
  BY <1>16 DEF SubscribeAccepted, ObserverTypeOK, ObserverType, SubType
<1>17. ASSUME SubscribeRefused PROVE Standing'
  BY <1>17 DEF SubscribeRefused, ObserverTypeOK, ObserverType, SubType
<1>18. ASSUME ListAnswered PROVE Standing'
  BY <1>18 DEF ListAnswered, ObserverTypeOK, ObserverType, SubType
<1>19. ASSUME ListRefused PROVE Standing'
  BY <1>19 DEF ListRefused, ObserverTypeOK, ObserverType, SubType
<1>20. ASSUME RestoreAccepted PROVE Standing'
  BY <1>20 DEF RestoreAccepted, ObserverTypeOK, ObserverType, SubType
<1>21. ASSUME RestoreRefused PROVE Standing'
  BY <1>21, NoteFailureFields
     DEF RestoreRefused, ObserverTypeOK, SubType
<1>22. ASSUME HandleReconnect PROVE Standing'
  BY <1>22 DEF HandleReconnect, ObserverTypeOK, ObserverType, SubType
<1>23. QED
  BY <1>1, <1>2, <1>3, <1>4, <1>5, <1>6, <1>7, <1>8, <1>9, <1>10, <1>11, <1>12, <1>13,
     <1>14, <1>15, <1>16, <1>17, <1>18, <1>19, <1>20, <1>21, <1>22
     DEF ObserverSteps, ObserverFaults, BootTask, ConsumerTask

LEMMA RegisteredKept ==
    ASSUME ObserverInv, ObserverSteps \/ ObserverFaults
    PROVE  LiveIsServed' /\ EndedIsClosed' /\ UpIsRestored'
<1> DEFINE Registered == LiveIsServed /\ EndedIsClosed /\ UpIsRestored
<1> USE DEF ObserverInv, LiveIsServed, EndedIsClosed, UpIsRestored, Online,
            Booting, Keep, session, wireVars, NoSub, Sub
<1>1. ASSUME Start PROVE Registered'
  BY <1>1 DEF Start, ObserverTypeOK, SubType
<1>2. ASSUME StartReturns PROVE Registered'
  BY <1>2 DEF StartReturns, ObserverTypeOK, SubType
<1>3. ASSUME CloseObserver PROVE Registered'
  BY <1>3 DEF CloseObserver, ObserverTypeOK, SubType
<1>4. ASSUME CloseReturns PROVE Registered'
  BY <1>4 DEF CloseReturns, ObserverTypeOK, SubType
<1>5. ASSUME Invalidated PROVE Registered'
  BY <1>5 DEF Invalidated, ObserverTypeOK, SubType
<1>6. ASSUME SubscriptionReady PROVE Registered'
  BY <1>6 DEF SubscriptionReady, ObserverTypeOK, SubType
<1>7. ASSUME ListReturns PROVE Registered'
  BY <1>7 DEF ListReturns, ObserverTypeOK, SubType
<1>8. ASSUME ListRaises PROVE Registered'
  BY <1>8 DEF ListRaises, ObserverTypeOK, SubType
<1>9. ASSUME BackoffEnds PROVE Registered'
  BY <1>9 DEF BackoffEnds, ObserverTypeOK, SubType
<1>10. ASSUME Reconcile PROVE Registered'
  BY <1>10 DEF Reconcile, ObserverTypeOK, SubType
<1>11. ASSUME Consume PROVE Registered'
  BY <1>11 DEF Consume, ObserverTypeOK, SubType
<1>12. ASSUME Resubscribe PROVE Registered'
  BY <1>12 DEF Resubscribe, ObserverTypeOK, SubType
<1>13. ASSUME Resubscribed PROVE Registered'
  BY <1>13 DEF Resubscribed, ObserverTypeOK, SubType
<1>14. ASSUME InventoryChanges PROVE Registered'
  BY <1>14 DEF InventoryChanges, ObserverTypeOK, SubType
<1>15. ASSUME Notify PROVE Registered'
  BY <1>15 DEF Notify, ObserverTypeOK, SubType
<1>16. ASSUME SubscribeAccepted PROVE Registered'
  BY <1>16 DEF SubscribeAccepted, ObserverTypeOK, SubType
<1>17. ASSUME SubscribeRefused PROVE Registered'
  BY <1>17 DEF SubscribeRefused, ObserverTypeOK, SubType
<1>18. ASSUME ListAnswered PROVE Registered'
  BY <1>18 DEF ListAnswered, ObserverTypeOK, SubType
<1>19. ASSUME ListRefused PROVE Registered'
  BY <1>19 DEF ListRefused, ObserverTypeOK, SubType
<1>20. ASSUME RestoreAccepted PROVE Registered'
  BY <1>20 DEF RestoreAccepted, ObserverTypeOK, SubType
<1>21. ASSUME RestoreRefused PROVE Registered'
  BY <1>21 DEF RestoreRefused, ObserverTypeOK, SubType
<1>22. ASSUME HandleReconnect PROVE Registered'
  BY <1>22 DEF HandleReconnect, ObserverTypeOK, SubType
<1>23. QED
  BY <1>1, <1>2, <1>3, <1>4, <1>5, <1>6, <1>7, <1>8, <1>9, <1>10, <1>11, <1>12, <1>13,
     <1>14, <1>15, <1>16, <1>17, <1>18, <1>19, <1>20, <1>21, <1>22
     DEF ObserverSteps, ObserverFaults, BootTask, ConsumerTask

LEMMA ViewKept ==
    ASSUME ObserverInv, ObserverSteps \/ ObserverFaults
    PROVE  ViewCovered'
<1> USE DEF ObserverInv, NotStarted, ReadyIsSubscribed,
            SubscriptionKept, LiveIsServed, EndedIsClosed, ViewCovered, Told, Covered, Online,
            Booting, Keep, session, wireVars, NoSub, Sub
<1>1. ASSUME Start PROVE ViewCovered'
  BY <1>1 DEF Start, ObserverTypeOK, ObserverType, SubType
<1>2. ASSUME StartReturns PROVE ViewCovered'
  BY <1>2, SubscribedEffect
<1>3. ASSUME CloseObserver PROVE ViewCovered'
  BY <1>3 DEF CloseObserver, ObserverTypeOK, ObserverType, SubType
<1>4. ASSUME CloseReturns PROVE ViewCovered'
  BY <1>4 DEF CloseReturns, ObserverTypeOK, ObserverType, SubType
<1>5. ASSUME Invalidated PROVE ViewCovered'
  BY <1>5, PassEffect
<1>6. ASSUME SubscriptionReady PROVE ViewCovered'
  BY <1>6, PassEffect
<1>7. ASSUME ListReturns PROVE ViewCovered'
  <2>1. CASE Raced(obs)
    <3>1. /\ UNCHANGED <<session, sub, wireVars>>
          /\ obs'.ready = obs.ready /\ obs'.buffering = obs.buffering
          /\ obs'.view = obs.view /\ obs'.life = obs.life
      BY <1>7, <2>1 DEF ListReturns, ObserverTypeOK, ObserverType
    <3>2. QED
      BY <3>1
  <2>2. CASE ~Raced(obs)
    <3>1. /\ UNCHANGED <<session, sub, wireVars>>
          /\ obs.boot = "listing" /\ obs.list = "answered"
          /\ obs'.view = obs.snapshot /\ obs'.life = obs.life
      BY <1>7, <2>2 DEF ListReturns, ObserverTypeOK, ObserverType
    <3>2. QED
      BY <2>2, <3>1 DEF SnapshotCovered
  <2>3. QED
    BY <2>1, <2>2
<1>8. ASSUME ListRaises PROVE ViewCovered'
  BY <1>8 DEF ListRaises, ObserverTypeOK, ObserverType, SubType
<1>9. ASSUME BackoffEnds PROVE ViewCovered'
  BY <1>9, PassEffect
<1>10. ASSUME Reconcile PROVE ViewCovered'
  BY <1>10 DEF Reconcile, ObserverTypeOK, ObserverType, SubType
<1>11. ASSUME Consume PROVE ViewCovered'
  BY <1>11, ConsumeEffect
<1>12. ASSUME Resubscribe PROVE ViewCovered'
  BY <1>12 DEF Resubscribe, ObserverTypeOK, ObserverType, SubType
<1>13. ASSUME Resubscribed PROVE ViewCovered'
  BY <1>13, SubscribedEffect
<1>14. ASSUME InventoryChanges PROVE ViewCovered'
  BY <1>14 DEF InventoryChanges, ObserverTypeOK, ObserverType, SubType
<1>15. ASSUME Notify PROVE ViewCovered'
  BY <1>15, NotifyEffect
<1>16. ASSUME SubscribeAccepted PROVE ViewCovered'
  BY <1>16 DEF SubscribeAccepted, ObserverTypeOK, ObserverType, SubType
<1>17. ASSUME SubscribeRefused PROVE ViewCovered'
  BY <1>17 DEF SubscribeRefused, ObserverTypeOK, ObserverType, SubType
<1>18. ASSUME ListAnswered PROVE ViewCovered'
  BY <1>18 DEF ListAnswered, ObserverTypeOK, ObserverType, SubType
<1>19. ASSUME ListRefused PROVE ViewCovered'
  BY <1>19 DEF ListRefused, ObserverTypeOK, ObserverType, SubType
<1>20. ASSUME RestoreAccepted PROVE ViewCovered'
  BY <1>20 DEF RestoreAccepted, ObserverTypeOK, ObserverType, SubType
<1>21. ASSUME RestoreRefused PROVE ViewCovered'
  BY <1>21, NoteFailureFields
     DEF RestoreRefused, ObserverTypeOK, SubType
<1>22. ASSUME HandleReconnect PROVE ViewCovered'
  BY <1>22 DEF HandleReconnect, ObserverTypeOK, ObserverType, SubType
<1>23. QED
  BY <1>1, <1>2, <1>3, <1>4, <1>5, <1>6, <1>7, <1>8, <1>9, <1>10, <1>11, <1>12, <1>13,
     <1>14, <1>15, <1>16, <1>17, <1>18, <1>19, <1>20, <1>21, <1>22
     DEF ObserverSteps, ObserverFaults, BootTask, ConsumerTask

LEMMA SnapshotKept ==
    ASSUME ObserverInv, ObserverSteps \/ ObserverFaults
    PROVE  SnapshotCovered'
<1> USE DEF ObserverInv, NotStarted,
            SubscriptionKept, LiveIsServed, EndedIsClosed, SnapshotCovered, Told, Covered, Online,
            Raced, Booting, Keep, session, wireVars, NoSub, Sub
<1>1. ASSUME Start PROVE SnapshotCovered'
  BY <1>1 DEF Start, ObserverTypeOK, ObserverType, SubType
<1>2. ASSUME StartReturns PROVE SnapshotCovered'
  BY <1>2, SubscribedEffect
<1>3. ASSUME CloseObserver PROVE SnapshotCovered'
  BY <1>3 DEF CloseObserver, ObserverTypeOK, ObserverType, SubType
<1>4. ASSUME CloseReturns PROVE SnapshotCovered'
  BY <1>4 DEF CloseReturns, ObserverTypeOK, ObserverType, SubType
<1>5. ASSUME Invalidated PROVE SnapshotCovered'
  BY <1>5, PassEffect
<1>6. ASSUME SubscriptionReady PROVE SnapshotCovered'
  BY <1>6, PassEffect
<1>7. ASSUME ListReturns PROVE SnapshotCovered'
  BY <1>7 DEF ListReturns, ObserverTypeOK, ObserverType, SubType
<1>8. ASSUME ListRaises PROVE SnapshotCovered'
  BY <1>8 DEF ListRaises, ObserverTypeOK, ObserverType, SubType
<1>9. ASSUME BackoffEnds PROVE SnapshotCovered'
  BY <1>9, PassEffect
<1>10. ASSUME Reconcile PROVE SnapshotCovered'
  BY <1>10 DEF Reconcile, ObserverTypeOK, ObserverType, SubType
<1>11. ASSUME Consume PROVE SnapshotCovered'
  BY <1>11, ConsumeEffect
<1>12. ASSUME Resubscribe PROVE SnapshotCovered'
  BY <1>12 DEF Resubscribe, ObserverTypeOK, ObserverType, SubType
<1>13. ASSUME Resubscribed PROVE SnapshotCovered'
  BY <1>13, SubscribedEffect
<1>14. ASSUME InventoryChanges PROVE SnapshotCovered'
  BY <1>14 DEF InventoryChanges, ObserverTypeOK, ObserverType, SubType
<1>15. ASSUME Notify PROVE SnapshotCovered'
  BY <1>15, NotifyEffect
<1>16. ASSUME SubscribeAccepted PROVE SnapshotCovered'
  BY <1>16 DEF SubscribeAccepted, ObserverTypeOK, ObserverType, SubType
<1>17. ASSUME SubscribeRefused PROVE SnapshotCovered'
  BY <1>17 DEF SubscribeRefused, ObserverTypeOK, ObserverType, SubType
<1>18. ASSUME ListAnswered PROVE SnapshotCovered'
  BY <1>18 DEF ListAnswered, ObserverTypeOK, ObserverType, SubType
<1>19. ASSUME ListRefused PROVE SnapshotCovered'
  BY <1>19 DEF ListRefused, ObserverTypeOK, ObserverType, SubType
<1>20. ASSUME RestoreAccepted PROVE SnapshotCovered'
  BY <1>20 DEF RestoreAccepted, ObserverTypeOK, ObserverType, SubType
<1>21. ASSUME RestoreRefused PROVE SnapshotCovered'
  BY <1>21, NoteFailureFields
     DEF RestoreRefused, ObserverTypeOK, SubType
<1>22. ASSUME HandleReconnect PROVE SnapshotCovered'
  BY <1>22 DEF HandleReconnect, ObserverTypeOK, ObserverType, SubType
<1>23. QED
  BY <1>1, <1>2, <1>3, <1>4, <1>5, <1>6, <1>7, <1>8, <1>9, <1>10, <1>11, <1>12, <1>13,
     <1>14, <1>15, <1>16, <1>17, <1>18, <1>19, <1>20, <1>21, <1>22
     DEF ObserverSteps, ObserverFaults, BootTask, ConsumerTask

------------------------------------------------------------------------------
(* Every step.                                                               *)

LEMMA ObserverStepsKeep ==
    ASSUME ObserverInv, ObserverSteps \/ ObserverFaults
    PROVE  ObserverInv'
<1>1. SessionTypeOK'
  BY ObserverApart DEF ObserverInv, SessionTypeOK, session
<1>2. ObserverTypeOK' /\ NotifiedSince'
  BY ObserverTyped, SubTyped, ServedTyped, CountedKept DEF ObserverTypeOK
<1>3. QED
  BY <1>1, <1>2, StandingKept, RegisteredKept, ViewKept, SnapshotKept DEF ObserverInv

LEMMA ObserverLossKeeps ==
    ASSUME ObserverInv, Lose \/ Close, ObserverLost
    PROVE  ObserverInv'
<1> DEFINE o == [obs EXCEPT !.list = "failed"]
<1>1. /\ mode' \in {"lost", "closing"} /\ generation' = generation /\ ~Online'
      /\ inventory' = inventory /\ restore' = restore
      /\ served' = FALSE /\ flying' = 0
  BY DEF Lose, Close, ObserverLost, Online
<1>2. mode # "closed"
  BY DEF Lose, Close, Online
<1>3. (obs' = o \/ obs' = obs) /\ (sub' = NoSub \/ sub' = sub)
  BY DEF ObserverLost
<1>4. SessionTypeOK'
  BY <1>1, Zenon DEF ObserverInv, SessionTypeOK
<1>5. o \in ObserverType
  BY UpdatesTyped, Zenon DEF ObserverInv, ObserverTypeOK
<1>6. /\ o.life = obs.life /\ o.ready = obs.ready /\ o.subReady = obs.subReady
      /\ o.boot = obs.boot /\ o.cons = obs.cons
  BY DEF ObserverInv, ObserverTypeOK, ObserverType
<1>7. ObserverTypeOK' /\ NotifiedSince'
  <2>1. sub' \in SubType
    BY <1>3, LeaseObserverAssumption DEF ObserverInv, ObserverTypeOK, SubType, NoSub
  <2>2. served' \in BOOLEAN
    BY <1>1
  <2>3. flying' \in 0..MaxChanges /\ NotifiedSince'
    BY <1>1, LeaseObserverAssumption DEF ObserverInv, ObserverTypeOK, NotifiedSince
  <2>4. obs' \in ObserverType
    BY <1>3, <1>5 DEF ObserverInv, ObserverTypeOK
  <2>5. QED
    BY <1>1, <2>1, <2>2, <2>3, <2>4 DEF ObserverInv, ObserverTypeOK
<1> HIDE DEF o
<1>8. NotStarted' /\ ReadyIsSubscribed'
  BY <1>3, <1>6 DEF ObserverInv, NotStarted, ReadyIsSubscribed
<1>9. SubscriptionKept'
  <2>1. sub' = sub \/ sub.st = "asked"
    BY DEF ObserverLost
  <2>2. QED
    BY <1>3, <1>6, <2>1 DEF ObserverInv, SubscriptionKept
<1>10. EndedIsClosed'
  BY <1>1, <1>2, <1>3 DEF ObserverInv, EndedIsClosed, NoSub
<1>11. LiveIsServed' /\ UpIsRestored' /\ ViewCovered' /\ SnapshotCovered'
  BY <1>1 DEF LiveIsServed, UpIsRestored, ViewCovered, SnapshotCovered, Told
<1>12. QED
  BY <1>4, <1>7, <1>8, <1>9, <1>10, <1>11 DEF ObserverInv

\* close() ends the subscription and its consumer finds the end mark.
LEMMA ObserverDisconnectedKeeps ==
    ASSUME ObserverInv, Notified, ObserverDisconnected
    PROVE  ObserverInv'
<1>1. /\ mode' \in {"down", "closed"} /\ generation' = generation /\ ~Online'
      /\ UNCHANGED <<obs, wireVars>>
      /\ \/ sub' = sub /\ mode' = "closed"
         \/ sub' = sub /\ mode # "closed"
         \/ sub' = Sub("ended") /\ sub.st = "live" /\ mode' = "closed"
  BY DEF Notified, ObserverDisconnected, Online
<1>2. SessionTypeOK'
  BY <1>1 DEF ObserverInv, SessionTypeOK
<1>3. sub' \in SubType
  BY <1>1, LeaseObserverAssumption DEF ObserverInv, ObserverTypeOK, SubType, Sub
<1>4. ObserverTypeOK' /\ NotifiedSince'
  BY <1>1, <1>3 DEF ObserverInv, ObserverTypeOK, NotifiedSince, wireVars
<1>5. NotStarted' /\ ReadyIsSubscribed'
  BY <1>1 DEF ObserverInv, NotStarted, ReadyIsSubscribed
<1>6. SubscriptionKept' /\ EndedIsClosed'
  BY <1>1 DEF ObserverInv, SubscriptionKept, EndedIsClosed, Sub
<1>7. LiveIsServed' /\ UpIsRestored' /\ ViewCovered' /\ SnapshotCovered'
  BY <1>1 DEF LiveIsServed, UpIsRestored, ViewCovered, SnapshotCovered, Told, Online
<1>8. QED
  BY <1>2, <1>4, <1>5, <1>6, <1>7 DEF ObserverInv

\* In the new session nothing is claimed until the observer has heard of it.
LEMMA ObserverReconnectedKeeps ==
    ASSUME ObserverInv, Reconnect, ObserverReconnected
    PROVE  ObserverInv'
<1>1. /\ mode = "down" /\ mode' = "restoring" /\ restore' = "todo"
      /\ generation' = generation + 1 /\ generation < MaxGeneration
      /\ UNCHANGED <<obs, sub, served, flying, inventory>>
  BY DEF Reconnect, ObserverReconnected
<1>2. SessionTypeOK'
  BY <1>1, SessionAssumption DEF ObserverInv, SessionTypeOK
<1>3. ObserverTypeOK' /\ NotifiedSince'
  BY <1>1 DEF ObserverInv, ObserverTypeOK, NotifiedSince
<1>4. NotStarted' /\ ReadyIsSubscribed' /\ SubscriptionKept' /\ EndedIsClosed'
  BY <1>1 DEF ObserverInv, NotStarted, ReadyIsSubscribed, SubscriptionKept, EndedIsClosed
<1>5. LiveIsServed' /\ UpIsRestored' /\ ViewCovered' /\ SnapshotCovered'
  BY <1>1 DEF LiveIsServed, UpIsRestored, ViewCovered, SnapshotCovered, Told
<1>6. QED
  BY <1>2, <1>3, <1>4, <1>5 DEF ObserverInv

LEMMA RestoredKeeps ==
    ASSUME ObserverInv, Restored
    PROVE  ObserverInv'
<1>1. /\ Online /\ Online' /\ mode' = "up" /\ restore = "none"
      /\ UNCHANGED <<generation, observerVars>>
  BY DEF Restored, Online
<1>2. SessionTypeOK' /\ ObserverTypeOK' /\ NotifiedSince'
  BY <1>1 DEF ObserverInv, SessionTypeOK, ObserverTypeOK, NotifiedSince, observerVars
<1>3. NotStarted' /\ ReadyIsSubscribed' /\ SubscriptionKept'
  BY <1>1 DEF ObserverInv, NotStarted, ReadyIsSubscribed, SubscriptionKept, observerVars
<1>4. LiveIsServed' /\ EndedIsClosed' /\ UpIsRestored'
  BY <1>1 DEF ObserverInv, LiveIsServed, EndedIsClosed, UpIsRestored, Online, observerVars
<1>5. ViewCovered' /\ SnapshotCovered'
  BY <1>1 DEF ObserverInv, ViewCovered, SnapshotCovered, Told, Covered, Raced, observerVars
<1>6. QED
  BY <1>2, <1>3, <1>4, <1>5 DEF ObserverInv

\* An acquisition takes a step, or nothing happens.
LEMMA ElsewhereKeeps ==
    ASSUME ObserverInv, UNCHANGED <<session, observerVars>>
    PROVE  ObserverInv'
<1> USE DEF session, observerVars
<1>1. SessionTypeOK' /\ ObserverTypeOK' /\ NotifiedSince'
  BY DEF ObserverInv, SessionTypeOK, ObserverTypeOK, NotifiedSince
<1>2. NotStarted' /\ ReadyIsSubscribed' /\ SubscriptionKept'
  BY DEF ObserverInv, NotStarted, ReadyIsSubscribed, SubscriptionKept
<1>3. LiveIsServed' /\ EndedIsClosed' /\ UpIsRestored'
  BY DEF ObserverInv, LiveIsServed, EndedIsClosed, UpIsRestored, Online
<1>4. ViewCovered' /\ SnapshotCovered'
  BY DEF ObserverInv, ViewCovered, SnapshotCovered, Told, Covered, Raced, Online
<1>5. QED
  BY <1>1, <1>2, <1>3, <1>4 DEF ObserverInv

LEMMA AcquireApart ==
    ASSUME NEW a \in Acquirers, AcquireSteps(a) \/ AcquireFaults(a)
    PROVE  UNCHANGED session
  BY DEF AcquireSteps, AcquireTask, AcquireFaults, CallAcquire, LockAcquired, Answered,
         FinallyAnswered, Drain, BrokerAnswers, BrokerFinishes, CancelledAsking, CancelledLocking

LEMMA ObserverNextKeeps == ObserverInv /\ [Next]_vars => ObserverInv'
<1> SUFFICES ASSUME ObserverInv, [Next]_vars PROVE ObserverInv'
  OBVIOUS
<1>1. ASSUME NEW a \in Acquirers, AcquireSteps(a) \/ AcquireFaults(a), UNCHANGED observerVars
      PROVE  ObserverInv'
  BY <1>1, AcquireApart, ElsewhereKeeps
<1>2. ASSUME ObserverSteps \/ ObserverFaults
      PROVE  ObserverInv'
  BY <1>2, ObserverStepsKeep
<1>3. CASE Disconnected
  BY <1>3, ObserverDisconnectedKeeps DEF Disconnected
<1>4. CASE Reconnected
  BY <1>4, ObserverReconnectedKeeps DEF Reconnected
<1>5. CASE Restored
  BY <1>5, RestoredKeeps
<1>6. CASE LoseSession
  BY <1>6, ObserverLossKeeps DEF LoseSession
<1>7. CASE UNCHANGED vars
  BY <1>7, ElsewhereKeeps DEF vars
<1>8. QED
  BY <1>1, <1>2, <1>3, <1>4, <1>5, <1>6, <1>7 DEF Next, Step, Fault

LEMMA ObserverInvariance == Spec => []ObserverInv
  BY ObserverInvInit, ObserverNextKeeps, PTL DEF Spec

LEMMA FaultsCounted == Spec => [](faults \in 0..MaxFaults)
<1> DEFINE Counted == faults \in 0..MaxFaults
<1>1. Init => Counted
  BY LeaseAssumption DEF Init
<1>2. Counted /\ [Next]_vars => Counted'
  BY LeaseAssumption DEF Next, Bounded, vars
<1> HIDE DEF Counted
<1>3. Spec => []Counted
  BY <1>1, <1>2, PTL DEF Spec
<1>4. QED
  BY <1>3 DEF Counted

\* The variables of the lease client, of its observer and of the connection keep
\* their types, whatever the callers, the broker and the connection do.
THEOREM TypeCorrect == Spec => []TypeOK
<1>1. ObserverInv /\ AcquireTypeOK /\ faults \in 0..MaxFaults => TypeOK
  BY DEF ObserverInv, TypeOK
<1>2. QED
  BY <1>1, ObserverInvariance, AcquireTypeCorrect, FaultsCounted, PTL

\* A ready view with no pass under way shows the broker's inventory, or what it
\* misses is on its way or about to be noticed, for any number of changes,
\* sessions and refusals (lease.py:352-382, 414-452).
THEOREM ViewIsCurrent == Spec => []ReadyViewIsCurrent
<1>1. ObserverInv => ReadyViewIsCurrent
  BY DEF ObserverInv, ReadyViewIsCurrent, ViewCovered, Told, Covered, UpIsRestored, Online
<1>2. QED
  BY <1>1, ObserverInvariance, PTL
==============================================================================
