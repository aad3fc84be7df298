-------------------------- MODULE RequestGateProofs --------------------------
(***************************************************************************)
(* The safety properties of the request gate, for every finite set of      *)
(* tasks and all limits.  GateInv is the inductive invariant: to know that  *)
(* _active is exact one must know where the waiter of every interrupted     *)
(* task is, since a task that finds its waiter missing releases a slot.     *)
(***************************************************************************)
EXTENDS RequestGate, FiniteSetTheorems, SequenceTheorems, TLAPS

Listed(t) == \E i \in 1..Len(waiters) : waiters[i] = t

\* Where the tasks that will be woken with an exception come from.
InterruptedOK ==
    /\ \A t \in Tasks : st[t] = "failed" => closed
    /\ \A t \in Tasks : mustCancel[t] => st[t] \in {"granted", "failed"}
    /\ ~raced /\ ~closed => \A t \in Tasks : st[t] = "cancelled" => Listed(t)

GateInv ==
    /\ TypeOK
    /\ QueueConsistent
    /\ NoIdleCapacity
    /\ InterruptedOK
    /\ NoSlotLeak
    /\ ExactUnlessRaced
    /\ BoundedUnlessRaced

\* The set of owners is finite, so its cardinality is a number (used by every
\* counting step below).
LEMMA OwnersFinite == TypeOK => /\ IsFiniteSet(Owners)
                                /\ Cardinality(Owners) \in Nat
<1> HAVE TypeOK
<1>1. Owners \subseteq Tasks
  BY DEF Owners
<1>2. IsFiniteSet(Owners)
  BY <1>1, FS_Subset, GateAssumption DEF GateAssumption
<1> QED
  BY <1>2, FS_CardinalityType

\* Types are preserved by a release: the slot is handed over or given back
\* (_runtime.py:166-175).
LEMMA ReleaseType ==
    ASSUME TypeOK, NEW s \in [Tasks -> Places], ReleaseSlot(s)
    PROVE  /\ active' \in 0..Maximum
           /\ waiters' \in Seq(Tasks)
           /\ st' \in [Tasks -> Places]
           /\ raced' \in BOOLEAN
<1>1. CASE HandOver(s)
  <2>1. PICK i \in 1..Len(waiters) :
            /\ st' = [s EXCEPT ![waiters[i]] = "granted"]
            /\ waiters' = SubSeq(waiters, i + 1, Len(waiters))
            /\ raced' = (raced \/ i > 1)
            /\ active' = active
    BY <1>1 DEF HandOver
  <2>2. waiters' \in Seq(Tasks)
    BY <2>1 DEF TypeOK
  <2>3. st' \in [Tasks -> Places]
    BY <2>1 DEF TypeOK, Places
  <2> QED
    BY <2>1, <2>2, <2>3 DEF TypeOK
<1>2. CASE GiveBack(s)
  BY <1>2, GateAssumption DEF GiveBack, TypeOK, GateAssumption
<1> QED
  BY <1>1, <1>2 DEF ReleaseSlot

\* A new gate is well typed (_runtime.py:113-118).
LEMMA TypeInit == Init => TypeOK
<1> HAVE Init
<1>1. waiters \in Seq(Tasks)
  BY DEF Init
<1>2. active \in 0..Maximum
  BY GateAssumption DEF Init, GateAssumption
<1>3. st \in [Tasks -> Places] /\ mustCancel \in [Tasks -> BOOLEAN]
  BY DEF Init, Places
<1> QED
  BY <1>1, <1>2, <1>3 DEF Init, TypeOK

\* Type correctness of the gate (_runtime.py:112-185): in particular _active
\* stays between 0 and the maximum.
THEOREM TypeCorrect == Spec => []TypeOK
<1>1. Init => TypeOK
  BY TypeInit
<1>2. TypeOK /\ [Next]_vars => TypeOK'
  <2> SUFFICES ASSUME TypeOK, [Next]_vars
               PROVE  TypeOK'
    OBVIOUS
  <2> USE GateAssumption DEF GateAssumption
  <2>1. CASE UNCHANGED vars
    BY <2>1 DEF TypeOK, vars
  <2>2. CASE Close
    BY <2>2 DEF Close, TypeOK, Places
  <2>3. ASSUME NEW t \in Tasks, AcquireNow(t) PROVE TypeOK'
    BY <2>3 DEF AcquireNow, HasRoom, TypeOK, Places
  <2>4. ASSUME NEW t \in Tasks, AcquireQueued(t) PROVE TypeOK'
    BY <2>4 DEF AcquireQueued, TypeOK, Places
  <2>5. ASSUME NEW t \in Tasks, Cancel(t) PROVE TypeOK'
    BY <2>5 DEF Cancel, TypeOK, Places
  <2>6. ASSUME NEW t \in Tasks, WakeGranted(t) PROVE TypeOK'
    BY <2>6 DEF WakeGranted, TypeOK, Places
  <2>7. ASSUME NEW t \in Tasks,
               ReleaseSlot([st EXCEPT ![t] = "idle"]),
               closed' = closed,
               mustCancel' \in [Tasks -> BOOLEAN]
        PROVE  TypeOK'
    <3>1. [st EXCEPT ![t] = "idle"] \in [Tasks -> Places]
      BY DEF TypeOK, Places
    <3> QED
      BY <2>7, <3>1, ReleaseType DEF TypeOK
  <2>8. ASSUME NEW t \in Tasks, WakeClosed(t) \/ Release(t) PROVE TypeOK'
    BY <2>7, <2>8 DEF WakeClosed, Release, TypeOK
  <2>9. ASSUME NEW t \in Tasks, WakeUnlisted(t) PROVE TypeOK'
    BY <2>7, <2>9 DEF WakeUnlisted, TypeOK
  <2>10. ASSUME NEW t \in Tasks, WakeRemoved(t) PROVE TypeOK'
    BY <2>10 DEF WakeRemoved, TypeOK, Places
  <2> QED
    BY <2>1, <2>2, <2>3, <2>4, <2>5, <2>6, <2>8, <2>9, <2>10 DEF Next
<1> QED
  BY <1>1, <1>2, PTL DEF Spec

------------------------------------------------------------------------------
\* What a hand-over to the oldest live waiter does to the queue and the owners, for
\* a task t that leaves acquire() or gives its token back (_runtime.py:166-173).
LEMMA HandOverEffect ==
    ASSUME TypeOK, QueueConsistent, NEW t \in Tasks, ~Listed(t),
           HandOver([st EXCEPT ![t] = "idle"]), closed' = closed
    PROVE  /\ waiters # <<>>
           /\ QueueConsistent'
           /\ active' = active
           /\ \E u \in Tasks : /\ u \notin Owners /\ u # t
                              /\ Owners' = (Owners \ {t}) \cup {u}
           /\ \A v \in Tasks : st'[v] \in {"failed", "cancelled"} => st'[v] = st[v]
           /\ \A v \in Tasks : st'[v] # st[v] /\ v # t => st'[v] = "granted"
           /\ ~raced' => ~raced /\ \A v \in Tasks : st[v] = "cancelled" /\ Listed(v) => Listed(v)'
<1> DEFINE s == [st EXCEPT ![t] = "idle"]
<1>1. PICK i \in 1..Len(waiters) :
          /\ s[waiters[i]] = "queued"
          /\ \A j \in 1..(i - 1) : s[waiters[j]] # "queued"
          /\ st' = [s EXCEPT ![waiters[i]] = "granted"]
          /\ waiters' = SubSeq(waiters, i + 1, Len(waiters))
          /\ raced' = (raced \/ i > 1)
          /\ active' = active
  BY DEF HandOver
<1> DEFINE u == waiters[i]
<1>2. u \in Tasks /\ st \in [Tasks -> Places] /\ s \in [Tasks -> Places]
  BY DEF TypeOK, Places
<1>3. u # t /\ st[u] = "queued"
  BY <1>1, <1>2
<1>4. \A v \in Tasks : st'[v] = IF v = u THEN "granted" ELSE IF v = t THEN "idle" ELSE st[v]
  BY <1>1, <1>2
<1>5. Owners' = (Owners \ {t}) \cup {u}
  BY <1>2, <1>3, <1>4 DEF Owners
<1>6. /\ Len(waiters') = Len(waiters) - i
      /\ Len(waiters') \in Nat
      /\ \A k \in 1..Len(waiters') : waiters'[k] = waiters[k + i]
  BY <1>1, SMTT(30) DEF TypeOK
<1>7. \A j \in (i + 1)..Len(waiters) : \E k \in 1..Len(waiters') : waiters'[k] = waiters[j]
  <2> SUFFICES ASSUME NEW j \in (i + 1)..Len(waiters)
               PROVE  \E k \in 1..Len(waiters') : waiters'[k] = waiters[j]
    OBVIOUS
  <2>1. (j - i) \in 1..Len(waiters') /\ (j - i) + i = j
    BY <1>6 DEF TypeOK
  <2> QED
    BY <2>1, <1>6
<1>8. QueueConsistent'
  <2>1. \A k, l \in 1..Len(waiters') : waiters'[k] = waiters'[l] => k = l
    BY <1>6 DEF QueueConsistent, TypeOK
  <2>2. \A k \in 1..Len(waiters') : st'[waiters'[k]] \in {"queued", "cancelled"}
    <3> SUFFICES ASSUME NEW k \in 1..Len(waiters')
                 PROVE  st'[waiters'[k]] \in {"queued", "cancelled"}
      OBVIOUS
    <3>1. k + i \in 1..Len(waiters) /\ k + i # i /\ waiters'[k] = waiters[k + i]
      BY <1>6 DEF TypeOK
    <3>2. waiters[k + i] \in Tasks /\ waiters[k + i] # u /\ waiters[k + i] # t
      BY <3>1 DEF QueueConsistent, TypeOK, Listed
    <3> QED
      BY <3>1, <3>2, <1>4 DEF QueueConsistent
  <2>3. \A v \in Tasks : st'[v] = "queued" => \E k \in 1..Len(waiters') : waiters'[k] = v
    <3> SUFFICES ASSUME NEW v \in Tasks, st'[v] = "queued"
                 PROVE  \E k \in 1..Len(waiters') : waiters'[k] = v
      OBVIOUS
    <3>1. v # u /\ v # t /\ st[v] = "queued"
      BY <1>4
    <3>2. PICK j \in 1..Len(waiters) : waiters[j] = v
      BY <3>1 DEF QueueConsistent
    <3>3. s[waiters[j]] = "queued"
      BY <3>1, <3>2, <1>2
    <3>4. j # i /\ ~(j \in 1..(i - 1))
      BY <3>1, <3>2, <3>3, <1>1
    <3>5. j \in (i + 1)..Len(waiters)
      BY <3>4 DEF TypeOK
    <3> QED
      BY <3>2, <3>5, <1>7
  <2>4. Len(waiters') <= QueueSize
    BY <1>6, GateAssumption DEF QueueConsistent, TypeOK, GateAssumption
  <2>5. ~closed
    BY DEF QueueConsistent, TypeOK
  <2> QED
    BY <2>1, <2>2, <2>3, <2>4, <2>5 DEF QueueConsistent
<1>9. ASSUME ~raced', NEW v \in Tasks, st[v] = "cancelled", Listed(v)
      PROVE  Listed(v)'
  <2>0. ~(i > 1)
    BY <1>1, <1>9, Zenon
  <2>1. i = 1
    BY <2>0
  <2>2. PICK j \in 1..Len(waiters) : waiters[j] = v
    BY <1>9 DEF Listed
  <2>3. j \in (i + 1)..Len(waiters)
    BY <2>1, <2>2, <1>3, <1>9 DEF TypeOK
  <2> QED
    BY <2>2, <2>3, <1>7 DEF Listed
<1>10. waiters # <<>>
  BY DEF TypeOK
<1>11. u \notin Owners
  BY <1>3 DEF Owners
<1> QED
  BY <1>1, <1>2, <1>3, <1>4, <1>5, <1>8, <1>9, <1>10, <1>11

\* What a release that finds no live waiter does (_runtime.py:174-175).
LEMMA GiveBackEffect ==
    ASSUME TypeOK, QueueConsistent, NEW t \in Tasks, ~Listed(t),
           GiveBack([st EXCEPT ![t] = "idle"]), closed' = closed
    PROVE  /\ waiters' = <<>>
           /\ QueueConsistent'
           /\ active' = IF active > 0 THEN active - 1 ELSE active
           /\ Owners' = Owners \ {t}
           /\ \A v \in Tasks : st'[v] = IF v = t THEN "idle" ELSE st[v]
           /\ ~raced' => ~raced /\ waiters = <<>>
<1>1. \A v \in Tasks : st'[v] = IF v = t THEN "idle" ELSE st[v]
  BY DEF GiveBack, TypeOK
<1>2. Owners' = Owners \ {t}
  BY <1>1 DEF Owners
<1>3. \A v \in Tasks : st'[v] # "queued"
  <2> SUFFICES ASSUME NEW v \in Tasks, st'[v] = "queued" PROVE FALSE
    OBVIOUS
  <2>1. v # t /\ st[v] = "queued"
    BY <1>1
  <2>2. PICK j \in 1..Len(waiters) : waiters[j] = v
    BY <2>1 DEF QueueConsistent
  <2> QED
    BY <2>1, <2>2 DEF GiveBack, TypeOK
<1>4. waiters' = <<>> /\ Len(waiters') = 0
  BY DEF GiveBack
<1>5. QueueConsistent'
  BY <1>3, <1>4, GateAssumption DEF QueueConsistent, GateAssumption
<1> QED
  BY <1>1, <1>2, <1>4, <1>5 DEF GiveBack

\* The bookkeeping of a release by an owner, or by an interrupted task that finds its
\* waiter missing: GateInv survives it.  When the interrupted task never had a slot
\* the invariant survives because a race, or close(), came before.
LEMMA ReleaseKeepsGateInv ==
    ASSUME GateInv, TypeOK', NEW t \in Tasks, ~Listed(t),
           ReleaseSlot([st EXCEPT ![t] = "idle"]), closed' = closed,
           t \in Owners \/ raced \/ closed,
           \A v \in Tasks : mustCancel'[v] => mustCancel[v] /\ v # t
    PROVE  GateInv'
<1> USE GateAssumption DEF GateAssumption
<1>a. TypeOK /\ QueueConsistent /\ active \in 0..Maximum /\ st \in [Tasks -> Places]
  BY DEF GateInv, TypeOK
<1>b. IsFiniteSet(Owners) /\ Cardinality(Owners) \in Nat
  BY <1>a, OwnersFinite
<1> DEFINE before == Cardinality(Owners)
           without == Cardinality(Owners \ {t})
           after == Cardinality(Owners')
<1>c. IsFiniteSet(Owners \ {t})
  BY <1>b, FS_RemoveElement
<1>d. t \in Owners => without = before - 1
  BY <1>b, FS_RemoveElement
<1>e. t \notin Owners => without = before
  <2> SUFFICES ASSUME t \notin Owners PROVE Owners \ {t} = Owners
    OBVIOUS
  <2> QED
    OBVIOUS
<1>f. before \in Nat /\ without \in Nat
  BY <1>b, <1>c, FS_CardinalityType
<1> HIDE DEF before, without, after
<1>1. CASE HandOver([st EXCEPT ![t] = "idle"])
  <2>1. /\ waiters # <<>>
        /\ QueueConsistent'
        /\ active' = active
        /\ \E u \in Tasks : /\ u \notin Owners /\ u # t
                           /\ Owners' = (Owners \ {t}) \cup {u}
        /\ \A v \in Tasks : st'[v] \in {"failed", "cancelled"} => st'[v] = st[v]
        /\ \A v \in Tasks : st'[v] # st[v] /\ v # t => st'[v] = "granted"
        /\ ~raced' => ~raced /\ \A v \in Tasks : st[v] = "cancelled" /\ Listed(v) => Listed(v)'
    BY <1>a, <1>1, HandOverEffect
  <2>2. after = without + 1
    <3>1. PICK u \in Tasks : u \notin Owners /\ u # t /\ Owners' = (Owners \ {t}) \cup {u}
      BY <2>1
    <3>2. u \notin Owners \ {t}
      BY <3>1
    <3> QED
      BY <3>1, <3>2, <1>c, FS_AddElement DEF after, without
  <2>3. InterruptedOK'
    BY <2>1 DEF GateInv, InterruptedOK
  <2>4. NoIdleCapacity'
    BY <2>1 DEF GateInv, NoIdleCapacity
  <2>6. ~closed
    BY <2>1 DEF GateInv, QueueConsistent
  <2>8. active <= before
    BY <2>6 DEF GateInv, NoSlotLeak, before
  <2>9. active' <= after
    BY <2>1, <2>2, <2>8, <1>a, <1>d, <1>e, <1>f
  <2>5. NoSlotLeak'
    BY <2>9 DEF NoSlotLeak, after
  <2>10. ~raced' => after = before
    BY <2>1, <2>2, <2>6, <1>d, <1>f
  <2>7. ~raced' => Cardinality(Owners') = Cardinality(Owners)
    BY <2>10 DEF after, before
  <2> QED
    BY <2>1, <2>3, <2>4, <2>5, <2>7 DEF GateInv, ExactUnlessRaced, BoundedUnlessRaced
<1>2. CASE GiveBack([st EXCEPT ![t] = "idle"])
  <2>1. /\ waiters' = <<>>
        /\ QueueConsistent'
        /\ active' = IF active > 0 THEN active - 1 ELSE active
        /\ Owners' = Owners \ {t}
        /\ \A v \in Tasks : st'[v] = IF v = t THEN "idle" ELSE st[v]
        /\ ~raced' => ~raced /\ waiters = <<>>
    BY <1>a, <1>2, GiveBackEffect
  <2>2. InterruptedOK'
    <3>1. ~raced' /\ ~closed => \A v \in Tasks : st[v] # "cancelled"
      BY <2>1, <1>a DEF GateInv, InterruptedOK, Listed
    <3> QED
      BY <2>1, <3>1 DEF GateInv, InterruptedOK
  <2>3. NoIdleCapacity'
    BY <2>1 DEF NoIdleCapacity
  <2>7. after = without
    BY <2>1 DEF after, without
  <2>4. NoSlotLeak'
    <3> SUFFICES ASSUME ~closed' PROVE active' <= after
      BY DEF NoSlotLeak, after
    <3>1. active <= before
      BY DEF GateInv, NoSlotLeak, before
    <3> QED
      BY <3>1, <2>1, <2>7, <1>a, <1>d, <1>e, <1>f
  <2>5. ExactUnlessRaced'
    <3> SUFFICES ASSUME ~raced', ~closed' PROVE active' = after
      BY DEF ExactUnlessRaced, after
    <3>1. active = before /\ t \in Owners
      BY <2>1 DEF GateInv, ExactUnlessRaced, before
    <3> QED
      BY <3>1, <2>1, <2>7, <1>a, <1>d, <1>f
  <2>6. BoundedUnlessRaced'
    <3> SUFFICES ASSUME ~raced' PROVE after <= Maximum
      BY DEF BoundedUnlessRaced, after
    <3>1. before <= Maximum
      BY <2>1 DEF GateInv, BoundedUnlessRaced, before
    <3> QED
      BY <3>1, <2>7, <1>d, <1>e, <1>f
  <2> QED
    BY <2>1, <2>2, <2>3, <2>4, <2>5, <2>6 DEF GateInv
<1> QED
  BY <1>1, <1>2 DEF ReleaseSlot

------------------------------------------------------------------------------
\* The gate's invariant holds initially and is kept by every step of acquire(),
\* release(), close() and of a cancellation (_runtime.py:120-185).
LEMMA GateInvInit == Init => GateInv
<1> HAVE Init
<1> USE GateAssumption DEF GateAssumption
<1>1. TypeOK
  BY TypeInit
<1>2. Owners = {} /\ waiters = <<>> /\ Len(waiters) = 0
  BY DEF Init, Owners
<1>3. Cardinality(Owners) = 0
  BY <1>2, FS_EmptySet
<1>4. QueueConsistent
  BY <1>2 DEF Init, QueueConsistent
<1>5. InterruptedOK
  BY DEF Init, InterruptedOK
<1> QED
  BY <1>1, <1>2, <1>3, <1>4, <1>5
  DEF Init, GateInv, NoIdleCapacity, NoSlotLeak, ExactUnlessRaced, BoundedUnlessRaced

\* Steps that leave the owners, the counter and close() alone keep every counting
\* part of the invariant.
LEMMA SameOwners ==
    ASSUME GateInv, Owners' = Owners, active' = active, raced' = raced,
           closed' = closed \/ closed'
    PROVE  NoSlotLeak' /\ ExactUnlessRaced' /\ BoundedUnlessRaced'
BY DEF GateInv, NoSlotLeak, ExactUnlessRaced, BoundedUnlessRaced

\* A caller takes a free slot (_runtime.py:120-127).
LEMMA GateInvAcquireNow ==
    ASSUME GateInv, TypeOK', NEW t \in Tasks, AcquireNow(t)
    PROVE  GateInv'
<1> USE GateAssumption DEF GateAssumption
<1>1. /\ ~closed /\ closed' = closed /\ raced' = raced
      /\ waiters = <<>> /\ waiters' = <<>> /\ Len(waiters') = 0
      /\ active < Maximum /\ active' = active + 1 /\ active \in Nat
      /\ mustCancel' = mustCancel
      /\ \A v \in Tasks : st'[v] = IF v = t THEN "holding" ELSE st[v]
      /\ st[t] = "idle"
  BY DEF GateInv, TypeOK, AcquireNow, HasRoom
<1>2. QueueConsistent'
  BY <1>1 DEF GateInv, QueueConsistent
<1>3. InterruptedOK'
  BY <1>1 DEF GateInv, InterruptedOK, Listed
<1>4. Owners' = Owners \cup {t} /\ t \notin Owners
  BY <1>1 DEF Owners
<1> DEFINE before == Cardinality(Owners)
           after == Cardinality(Owners')
<1>5. before \in Nat /\ IsFiniteSet(Owners)
  BY OwnersFinite DEF GateInv
<1>6. after = before + 1
  BY <1>4, <1>5, FS_AddElement
<1>7. /\ active <= before
      /\ ~raced => active = before
  BY <1>1 DEF GateInv, NoSlotLeak, ExactUnlessRaced
<1> HIDE DEF before, after
<1>8. active' <= after /\ (~raced => active' = after /\ after <= Maximum)
  BY <1>1, <1>5, <1>6, <1>7
<1>9. NoSlotLeak' /\ ExactUnlessRaced' /\ BoundedUnlessRaced'
  BY <1>1, <1>8 DEF NoSlotLeak, ExactUnlessRaced, BoundedUnlessRaced, after
<1>10. NoIdleCapacity'
  BY <1>1 DEF NoIdleCapacity
<1> QED
  BY <1>2, <1>3, <1>9, <1>10 DEF GateInv

\* A caller joins the queue, within its bound (_runtime.py:128-134).
LEMMA GateInvAcquireQueued ==
    ASSUME GateInv, TypeOK', NEW t \in Tasks, AcquireQueued(t)
    PROVE  GateInv'
<1> USE GateAssumption DEF GateAssumption
<1>1. /\ ~closed /\ closed' = closed /\ raced' = raced
      /\ active' = active /\ active \in 0..Maximum
      /\ mustCancel' = mustCancel
      /\ waiters' = Append(waiters, t) /\ waiters \in Seq(Tasks)
      /\ \A v \in Tasks : st'[v] = IF v = t THEN "queued" ELSE st[v]
      /\ st[t] = "idle"
      /\ Len(waiters) < QueueSize
      /\ active = Maximum \/ waiters # <<>>
  BY DEF GateInv, TypeOK, AcquireQueued, HasRoom, QueueHasRoom
<1>2. /\ Len(waiters') = Len(waiters) + 1 /\ Len(waiters) \in Nat
      /\ \A i \in 1..Len(waiters) : waiters'[i] = waiters[i]
      /\ waiters'[Len(waiters')] = t
  BY <1>1
<1>3. \A i \in 1..Len(waiters) : waiters[i] # t
  BY <1>1 DEF GateInv, QueueConsistent
<1>4. QueueConsistent'
  <2>1. \A i, j \in 1..Len(waiters') : waiters'[i] = waiters'[j] => i = j
    BY <1>2, <1>3 DEF GateInv, QueueConsistent
  <2>2. \A i \in 1..Len(waiters') : st'[waiters'[i]] \in {"queued", "cancelled"}
    BY <1>1, <1>2, <1>3 DEF GateInv, QueueConsistent
  <2>3. \A v \in Tasks : st'[v] = "queued" => \E i \in 1..Len(waiters') : waiters'[i] = v
    <3> SUFFICES ASSUME NEW v \in Tasks, st'[v] = "queued"
                 PROVE  \E i \in 1..Len(waiters') : waiters'[i] = v
      OBVIOUS
    <3>1. CASE v = t
      BY <3>1, <1>2
    <3>2. CASE v # t
      <4>1. PICK i \in 1..Len(waiters) : waiters[i] = v
        BY <3>2, <1>1 DEF GateInv, QueueConsistent
      <4> QED
        BY <4>1, <1>2
    <3> QED
      BY <3>1, <3>2
  <2>4. Len(waiters') <= QueueSize
    BY <1>1, <1>2
  <2> QED
    BY <2>1, <2>2, <2>3, <2>4, <1>1 DEF QueueConsistent
<1>5. InterruptedOK'
  <2>1. \A v \in Tasks : Listed(v) => Listed(v)'
    BY <1>2 DEF Listed
  <2> QED
    BY <2>1, <1>1 DEF GateInv, InterruptedOK
<1>6. Owners' = Owners
  BY <1>1 DEF Owners
<1>7. NoIdleCapacity'
  BY <1>1 DEF GateInv, NoIdleCapacity
<1> QED
  BY <1>1, <1>4, <1>5, <1>6, <1>7, SameOwners DEF GateInv

\* A cancellation marks the future, or the task once its future is done; the deque
\* keeps the waiter until the task runs (_runtime.py:134-135).
LEMMA GateInvCancel ==
    ASSUME GateInv, TypeOK', NEW t \in Tasks, Cancel(t)
    PROVE  GateInv'
<1>1. /\ closed' = closed /\ raced' = raced /\ active' = active /\ waiters' = waiters
  BY DEF Cancel
<1>2. CASE /\ st[t] = "queued"
           /\ st' = [st EXCEPT ![t] = "cancelled"]
           /\ mustCancel' = mustCancel
  <2>1. \A v \in Tasks : st'[v] = IF v = t THEN "cancelled" ELSE st[v]
    BY <1>2 DEF GateInv, TypeOK
  <2>2. QueueConsistent'
    BY <1>1, <1>2, <2>1 DEF GateInv, QueueConsistent, TypeOK
  <2>3. InterruptedOK'
    BY <1>1, <1>2, <2>1 DEF GateInv, InterruptedOK, QueueConsistent, Listed
  <2>4. Owners' = Owners
    BY <1>2, <2>1 DEF Owners
  <2> QED
    BY <1>1, <2>2, <2>3, <2>4, SameOwners DEF GateInv, NoIdleCapacity
<1>3. CASE /\ st[t] \in {"granted", "failed"} /\ st' = st
           /\ mustCancel' = [mustCancel EXCEPT ![t] = TRUE]
  <2>1. QueueConsistent' /\ Owners' = Owners
    BY <1>1, <1>3 DEF GateInv, QueueConsistent, Owners
  <2>2. InterruptedOK'
    BY <1>1, <1>3 DEF GateInv, InterruptedOK, TypeOK, Listed
  <2> QED
    BY <1>1, <2>1, <2>2, SameOwners DEF GateInv, NoIdleCapacity
<1> QED
  BY <1>2, <1>3 DEF Cancel

\* A woken waiter that was served becomes a holder (_runtime.py:134, 143-146).
LEMMA GateInvWakeGranted ==
    ASSUME GateInv, TypeOK', NEW t \in Tasks, WakeGranted(t)
    PROVE  GateInv'
<1>1. /\ closed' = closed /\ raced' = raced /\ active' = active /\ waiters' = waiters
      /\ mustCancel' = mustCancel /\ ~mustCancel[t]
      /\ st[t] = "granted"
      /\ \A v \in Tasks : st'[v] = IF v = t THEN "holding" ELSE st[v]
  BY DEF WakeGranted, GateInv, TypeOK
<1>2. QueueConsistent'
  BY <1>1 DEF GateInv, QueueConsistent, TypeOK
<1>3. InterruptedOK'
  BY <1>1 DEF GateInv, InterruptedOK, Listed
<1>4. Owners' = Owners
  BY <1>1 DEF Owners
<1> QED
  BY <1>1, <1>2, <1>3, <1>4, SameOwners DEF GateInv, NoIdleCapacity

\* A cancelled waiter that nobody discarded takes itself out of the deque
\* (_runtime.py:135-142).
LEMMA GateInvWakeRemoved ==
    ASSUME GateInv, TypeOK', NEW t \in Tasks, WakeRemoved(t)
    PROVE  GateInv'
<1> USE GateAssumption DEF GateAssumption
<1>1. PICK p \in 1..Len(waiters) :
         /\ waiters[p] = t
         /\ waiters' = SubSeq(waiters, 1, p - 1) \o SubSeq(waiters, p + 1, Len(waiters))
  BY DEF WakeRemoved
<1>2. /\ closed' = closed /\ raced' = raced /\ active' = active
      /\ mustCancel' = mustCancel /\ st[t] = "cancelled"
      /\ waiters \in Seq(Tasks)
      /\ \A v \in Tasks : st'[v] = IF v = t THEN "idle" ELSE st[v]
  BY DEF WakeRemoved, GateInv, TypeOK
<1> DEFINE old(k) == IF k < p THEN k ELSE k + 1
<1>3. /\ Len(waiters') = Len(waiters) - 1 /\ Len(waiters') \in Nat
      /\ \A k \in 1..Len(waiters') : waiters'[k] = waiters[old(k)]
  <2> DEFINE front == SubSeq(waiters, 1, p - 1)
             back == SubSeq(waiters, p + 1, Len(waiters))
  <2>1. /\ front \in Seq(Tasks) /\ Len(front) = p - 1
        /\ \A k \in 1..Len(front) : front[k] = waiters[k]
    BY <1>2
  <2>2. /\ back \in Seq(Tasks) /\ Len(back) = Len(waiters) - p
        /\ \A k \in 1..Len(back) : back[k] = waiters[k + p]
    BY <1>2
  <2>3. waiters' = front \o back
    BY <1>1
  <2> HIDE DEF front, back
  <2>4. /\ Len(front \o back) = Len(front) + Len(back)
        /\ \A k \in 1..Len(front) + Len(back) :
              (front \o back)[k] = IF k <= Len(front) THEN front[k] ELSE back[k - Len(front)]
    BY <2>1, <2>2, ConcatProperties
  <2>6. /\ Len(waiters') = Len(front) + Len(back)
        /\ \A k \in 1..Len(waiters') :
              waiters'[k] = IF k <= Len(front) THEN front[k] ELSE back[k - Len(front)]
    BY <2>3, <2>4
  <2>5. ASSUME NEW k \in 1..Len(waiters')
        PROVE  waiters'[k] = waiters[old(k)]
    <3>1. CASE k < p
      BY <3>1, <2>1, <2>6
    <3>2. CASE ~(k < p)
      <4>1. k - (p - 1) \in 1..Len(back) /\ (k - (p - 1)) + p = k + 1
        BY <3>2, <2>1, <2>2, <2>6, <1>2
      <4> QED
        BY <3>2, <4>1, <2>1, <2>2, <2>6
    <3> QED
      BY <3>1, <3>2
  <2>7. Len(waiters') = Len(waiters) - 1 /\ Len(waiters') \in Nat
    BY <2>1, <2>2, <2>6, <1>2
  <2> QED
    BY <2>5, <2>7
<1>4. \A k \in 1..Len(waiters') : old(k) \in 1..Len(waiters) /\ old(k) # p
  BY <1>2, <1>3
<1>5. \A i \in 1..Len(waiters) : i # p => \E k \in 1..Len(waiters') : waiters'[k] = waiters[i]
  <2> SUFFICES ASSUME NEW i \in 1..Len(waiters), i # p
               PROVE  \E k \in 1..Len(waiters') : waiters'[k] = waiters[i]
    OBVIOUS
  <2>1. CASE i < p
    <3>1. i \in 1..Len(waiters') /\ old(i) = i
      BY <2>1, <1>2, <1>3
    <3> QED
      BY <3>1, <1>3
  <2>2. CASE i > p
    <3>1. (i - 1) \in 1..Len(waiters') /\ old(i - 1) = i
      BY <2>2, <1>2, <1>3
    <3> QED
      BY <3>1, <1>3
  <2> QED
    BY <2>1, <2>2, <1>2
<1>6. QueueConsistent'
  <2>1. \A i, j \in 1..Len(waiters') : waiters'[i] = waiters'[j] => i = j
    <3> SUFFICES ASSUME NEW i \in 1..Len(waiters'), NEW j \in 1..Len(waiters'),
                        waiters'[i] = waiters'[j]
                 PROVE  i = j
      OBVIOUS
    <3>1. old(i) = old(j)
      BY <1>3, <1>4 DEF GateInv, QueueConsistent
    <3> QED
      BY <3>1, <1>3
  <2>2. \A i \in 1..Len(waiters') : st'[waiters'[i]] \in {"queued", "cancelled"}
    <3> SUFFICES ASSUME NEW i \in 1..Len(waiters')
                 PROVE  st'[waiters'[i]] \in {"queued", "cancelled"}
      OBVIOUS
    <3>1. waiters'[i] = waiters[old(i)] /\ old(i) \in 1..Len(waiters) /\ old(i) # p
      BY <1>3, <1>4
    <3> HIDE DEF old
    <3>2. waiters[old(i)] \in Tasks /\ waiters[old(i)] # t
      BY <3>1, <1>1, <1>2 DEF GateInv, QueueConsistent
    <3> QED
      BY <3>1, <3>2, <1>2 DEF GateInv, QueueConsistent
  <2>3. \A v \in Tasks : st'[v] = "queued" => \E i \in 1..Len(waiters') : waiters'[i] = v
    <3> SUFFICES ASSUME NEW v \in Tasks, st'[v] = "queued"
                 PROVE  \E i \in 1..Len(waiters') : waiters'[i] = v
      OBVIOUS
    <3>1. v # t /\ st[v] = "queued"
      BY <1>2
    <3>2. PICK i \in 1..Len(waiters) : waiters[i] = v
      BY <3>1 DEF GateInv, QueueConsistent
    <3> QED
      BY <3>1, <3>2, <1>1, <1>5
  <2>4. Len(waiters') <= QueueSize
    BY <1>2, <1>3 DEF GateInv, QueueConsistent
  <2>5. ~closed
    BY <1>1, <1>2 DEF GateInv, QueueConsistent
  <2> QED
    BY <2>1, <2>2, <2>3, <2>4, <2>5, <1>2 DEF QueueConsistent
<1>7. InterruptedOK'
  <2>1. \A v \in Tasks : v # t /\ Listed(v) => Listed(v)'
    BY <1>1, <1>5 DEF Listed
  <2> QED
    BY <2>1, <1>2 DEF GateInv, InterruptedOK
<1>8. Owners' = Owners
  BY <1>2 DEF Owners
<1>9. NoIdleCapacity'
  BY <1>1, <1>2 DEF GateInv, NoIdleCapacity
<1> QED
  BY <1>2, <1>6, <1>7, <1>8, <1>9, SameOwners DEF GateInv

\* close() fails everyone still waiting (_runtime.py:177-185).
LEMMA GateInvClose ==
    ASSUME GateInv, TypeOK', Close
    PROVE  GateInv'
<1> USE GateAssumption DEF GateAssumption
<1>1. /\ closed' /\ raced' = raced /\ active' = active
      /\ mustCancel' = mustCancel /\ waiters' = <<>> /\ Len(waiters') = 0
      /\ \A v \in Tasks : st'[v] = IF st[v] = "queued" THEN "failed" ELSE st[v]
  BY DEF Close
<1>2. QueueConsistent'
  BY <1>1 DEF QueueConsistent
<1>3. InterruptedOK'
  BY <1>1 DEF GateInv, InterruptedOK
<1>4. Owners' = Owners
  BY <1>1 DEF Owners
<1> QED
  BY <1>1, <1>2, <1>3, <1>4, SameOwners DEF GateInv, NoIdleCapacity

\* GateInv is inductive: one step per action of Next.
LEMMA GateInvNext == GateInv /\ TypeOK' /\ [Next]_vars => GateInv'
<1> SUFFICES ASSUME GateInv, TypeOK', [Next]_vars
             PROVE  GateInv'
  OBVIOUS
<1>1. CASE UNCHANGED vars
  BY <1>1 DEF vars, GateInv, QueueConsistent, NoIdleCapacity, InterruptedOK, NoSlotLeak,
              ExactUnlessRaced, BoundedUnlessRaced, Owners, Listed
<1>2. ASSUME NEW t \in Tasks, Release(t) PROVE GateInv'
  <2>1. ~Listed(t) /\ t \in Owners
    BY <1>2 DEF Release, GateInv, QueueConsistent, Listed, Owners
  <2>2. \A v \in Tasks : mustCancel'[v] => mustCancel[v] /\ v # t
    BY <1>2 DEF Release, GateInv, InterruptedOK
  <2> QED
    BY <1>2, <2>1, <2>2, ReleaseKeepsGateInv DEF Release
<1>3. ASSUME NEW t \in Tasks, WakeClosed(t) PROVE GateInv'
  <2>1. ~Listed(t) /\ t \in Owners
    BY <1>3 DEF WakeClosed, GateInv, QueueConsistent, Listed, Owners
  <2>2. \A v \in Tasks : mustCancel'[v] => mustCancel[v] /\ v # t
    BY <1>3 DEF WakeClosed
  <2> QED
    BY <1>3, <2>1, <2>2, ReleaseKeepsGateInv DEF WakeClosed
<1>4. ASSUME NEW t \in Tasks, WakeUnlisted(t) PROVE GateInv'
  <2>1. ~Listed(t)
    BY <1>4 DEF WakeUnlisted, Listed
  <2>2. t \in Owners \/ raced \/ closed
    BY <1>4, <2>1 DEF WakeUnlisted, GateInv, InterruptedOK, Owners
  <2>3. \A v \in Tasks : mustCancel'[v] => mustCancel[v] /\ v # t
    BY <1>4 DEF WakeUnlisted, GateInv, TypeOK
  <2> QED
    BY <1>4, <2>1, <2>2, <2>3, ReleaseKeepsGateInv DEF WakeUnlisted
<1> QED
  BY <1>1, <1>2, <1>3, <1>4, GateInvAcquireNow, GateInvAcquireQueued, GateInvCancel,
     GateInvWakeGranted, GateInvWakeRemoved, GateInvClose DEF Next

\* GateInv holds in every reachable state.
LEMMA GateInvariant == Spec => []GateInv
  BY GateInvInit, GateInvNext, TypeCorrect, PTL DEF Spec

\* The deque holds exactly the waiters that may still be in it, each once, so that no
\* queued task is forgotten (_runtime.py:129-144, 166-171).
THEOREM QueueIsConsistent == Spec => []QueueConsistent
<1>1. GateInv => QueueConsistent
  BY DEF GateInv
<1> QED
  BY <1>1, GateInvariant, PTL

\* A task waits only while all the capacity is counted (_runtime.py:125, 166-175).
THEOREM NoWakeupIsLost == Spec => []NoIdleCapacity
<1>1. GateInv => NoIdleCapacity
  BY DEF GateInv
<1> QED
  BY <1>1, GateInvariant, PTL

\* Whatever cancellations interleave, no slot of an open gate stays counted for nobody
\* (_runtime.py:135-142).
THEOREM NoSlotIsLost == Spec => []NoSlotLeak
<1>1. GateInv => NoSlotLeak
  BY DEF GateInv
<1> QED
  BY <1>1, GateInvariant, PTL

\* Without a discarded waiter, _active counts the owners exactly (_runtime.py:120-175).
THEOREM CountIsExact == Spec => []ExactUnlessRaced
<1>1. GateInv => ExactUnlessRaced
  BY DEF GateInv
<1> QED
  BY <1>1, GateInvariant, PTL

\* Without a discarded waiter, at most Maximum requests are admitted, for every number
\* of tasks and every maximum and queue size (_runtime.py:120-185).
THEOREM AdmissionIsBounded == Spec => []BoundedUnlessRaced
<1>1. GateInv => BoundedUnlessRaced
  BY DEF GateInv
<1> QED
  BY <1>1, GateInvariant, PTL

------------------------------------------------------------------------------
\* A release hands over at most one slot, and to a waiter nobody is ahead of
\* (_runtime.py:166-173).
LEMMA ReleaseIsFifo ==
    ASSUME TypeOK, NEW r \in Tasks, st[r] # "queued",
           ReleaseSlot([st EXCEPT ![r] = "idle"])
    PROVE  /\ \A t \in Tasks : st'[t] = "holding" => st[t] = "holding"
           /\ \A t, u \in Tasks : t \notin Owners /\ t \in Owners' /\ u # t => ~Ahead(u, t)
<1> DEFINE s == [st EXCEPT ![r] = "idle"]
<1>1. CASE GiveBack(s)
  BY <1>1 DEF GiveBack, TypeOK, Owners
<1>2. CASE HandOver(s)
  <2>1. PICK i \in 1..Len(waiters) :
            /\ \A j \in 1..(i - 1) : s[waiters[j]] # "queued"
            /\ st' = [s EXCEPT ![waiters[i]] = "granted"]
    BY <1>2 DEF HandOver
  <2>2. \A v \in Tasks : st'[v] = IF v = waiters[i] THEN "granted"
                                 ELSE IF v = r THEN "idle" ELSE st[v]
    BY <2>1 DEF TypeOK
  <2>3. ASSUME NEW t \in Tasks, NEW u \in Tasks,
               t \notin Owners, t \in Owners', u # t, Ahead(u, t)
        PROVE  FALSE
    <3>1. t = waiters[i]
      BY <2>2, <2>3 DEF Owners
    <3>2. PICK k \in 1..Len(waiters) :
              waiters[k] = u /\ st[u] = "queued" /\ \A j \in 1..(k - 1) : waiters[j] # t
      BY <2>3 DEF Ahead
    <3>3. s[waiters[k]] = "queued"
      BY <3>2 DEF TypeOK
    <3>4. ~(k \in 1..(i - 1)) /\ k # i /\ ~(i \in 1..(k - 1))
      BY <2>1, <2>3, <3>1, <3>2, <3>3
    <3> QED
      BY <3>4
  <2> QED
    BY <2>2, <2>3
<1> QED
  BY <1>1, <1>2 DEF ReleaseSlot

\* close() is final, whatever the gate had reserved before (_runtime.py:143-145).
THEOREM ClosedStaysClosed == Spec => NoAdmissionAfterClose
<1>1. TypeOK /\ [Next]_vars
        => [closed => \A t \in Tasks : st'[t] = "holding" => st[t] = "holding"]_vars
  <2> SUFFICES ASSUME TypeOK, Next, closed, NEW t \in Tasks, st'[t] = "holding"
               PROVE  st[t] = "holding"
    OBVIOUS
  <2>1. ASSUME NEW r \in Tasks, Release(r) \/ WakeClosed(r) \/ WakeUnlisted(r)
        PROVE  st[t] = "holding"
    BY <2>1, ReleaseIsFifo DEF Release, WakeClosed, WakeUnlisted
  <2>2. ASSUME NEW r \in Tasks, Cancel(r) \/ WakeRemoved(r) PROVE st[t] = "holding"
    BY <2>2 DEF Cancel, WakeRemoved, TypeOK
  <2> QED
    BY <2>1, <2>2 DEF Next, AcquireNow, AcquireQueued, WakeGranted, Close
<1> QED
  BY <1>1, TypeCorrect, PTL DEF Spec, NoAdmissionAfterClose

\* Slots are served in the order of arrival (_runtime.py:123-127, 166-173).
THEOREM Fifo == Spec => NoOvertaking
<1>1. TypeOK /\ [Next]_vars
        => [\A t, u \in Tasks :
              t \notin Owners /\ t \in Owners' /\ u # t => ~Ahead(u, t)]_vars
  <2> SUFFICES ASSUME TypeOK, Next, NEW t \in Tasks, NEW u \in Tasks,
                      t \notin Owners, t \in Owners', u # t
               PROVE  ~Ahead(u, t)
    OBVIOUS
  <2>1. ASSUME NEW r \in Tasks, Release(r) \/ WakeClosed(r) \/ WakeUnlisted(r)
        PROVE  ~Ahead(u, t)
    BY <2>1, ReleaseIsFifo DEF Release, WakeClosed, WakeUnlisted
  <2>2. ASSUME NEW r \in Tasks, AcquireNow(r) PROVE ~Ahead(u, t)
    BY <2>2 DEF AcquireNow, HasRoom, Ahead
  <2>3. ASSUME NEW r \in Tasks,
               AcquireQueued(r) \/ Cancel(r) \/ WakeGranted(r) \/ WakeRemoved(r)
        PROVE  FALSE
    BY <2>3 DEF AcquireQueued, Cancel, WakeGranted, WakeRemoved, Owners, TypeOK
  <2>4. CASE Close
    BY <2>4 DEF Close, Owners
  <2> QED
    BY <2>1, <2>2, <2>3, <2>4 DEF Next
<1> QED
  BY <1>1, TypeCorrect, PTL DEF Spec, NoOvertaking
==============================================================================
