----------------------------- MODULE RequestGate -----------------------------
(***************************************************************************)
(* The request admission gate of one connection (_runtime.RequestGate):    *)
(* at most Maximum requests hold a slot, at most QueueSize more wait, and  *)
(* a released slot is handed over to the oldest waiter.                    *)
(*                                                                         *)
(* asyncio runs one task at a time, so the code between two awaits is one  *)
(* step.  The only await is `await waiter`: a task that waits is woken by  *)
(* a later step of the event loop, and what happens between the moment its *)
(* future is done and the moment the task runs is what this module is      *)
(* about.                                                                  *)
(***************************************************************************)
EXTENDS Integers, Sequences, FiniteSets

CONSTANTS Tasks,      \* the tasks that issue requests; each acquires again and again
          Maximum,    \* RequestGate(maximum, ...): max_in_flight, at least 1
          QueueSize   \* RequestGate(..., queue_size): request_queue_size, may be 0

ASSUME GateAssumption ==
    /\ IsFiniteSet(Tasks)
    /\ Maximum \in Nat \ {0}
    /\ QueueSize \in Nat

VARIABLES active,      \* self._active
          closed,      \* self._closed
          waiters,     \* self._waiters, each waiter named by the task awaiting it
          st,          \* where each task is, and the state of its waiter future
          mustCancel,  \* Task._must_cancel: cancelled after its future was done
          raced        \* history: a release has discarded an already cancelled waiter

vars == <<active, closed, waiters, st, mustCancel, raced>>

(***************************************************************************)
(* idle      - not in acquire() and without a token                        *)
(* queued    - awaiting a waiter future that is not done                   *)
(* granted   - set_result(None) was called: a slot is reserved for the     *)
(*             task, which has not run yet                                 *)
(* failed    - close() called set_exception: the task has not run yet      *)
(* cancelled - task.cancel() cancelled the future: the task has not run    *)
(* holding   - acquire() returned a release token not called so far        *)
(***************************************************************************)
Places == {"idle", "queued", "granted", "failed", "cancelled", "holding"}

TypeOK ==
    /\ active \in 0..Maximum
    /\ closed \in BOOLEAN
    /\ waiters \in Seq(Tasks)
    /\ st \in [Tasks -> Places]
    /\ mustCancel \in [Tasks -> BOOLEAN]
    /\ raced \in BOOLEAN

Init ==
    /\ active = 0
    /\ closed = FALSE
    /\ waiters = <<>>
    /\ st = [t \in Tasks |-> "idle"]
    /\ mustCancel = [t \in Tasks |-> FALSE]
    /\ raced = FALSE

------------------------------------------------------------------------------
(* _release_slot, run by a step that leaves the tasks in the places s. *)

\* Mutant: the newest waiter is served first.
HandOverNewest(s) ==
    \E i \in 1..Len(waiters) :
        /\ s[waiters[i]] = "queued"
        /\ \A j \in (i + 1)..Len(waiters) : s[waiters[j]] # "queued"
        /\ st' = [s EXCEPT ![waiters[i]] = "granted"]
        /\ waiters' = SubSeq(waiters, 1, i - 1)
        /\ UNCHANGED <<active, raced>>

\* The oldest waiter that is not done gets the slot: _active keeps its value.
HandOver(s) ==
    \E i \in 1..Len(waiters) :
        /\ s[waiters[i]] = "queued"
        /\ \A j \in 1..(i - 1) : s[waiters[j]] # "queued"
        /\ st' = [s EXCEPT ![waiters[i]] = "granted"]
        /\ waiters' = SubSeq(waiters, i + 1, Len(waiters))
        /\ raced' = (raced \/ i > 1)
        /\ UNCHANGED active

\* Mutant: only one waiter is looked at, even when it is done.
GiveBackAtOnce(s) ==
    /\ \A i \in 1..Len(waiters) : i = 1 => s[waiters[i]] # "queued"
    /\ st' = s
    /\ waiters' = IF waiters = <<>> THEN <<>> ELSE Tail(waiters)
    /\ raced' = (raced \/ waiters # <<>>)
    /\ active' = IF active > 0 THEN active - 1 ELSE active

\* No live waiter: the deque is drained and the slot is free again.
GiveBack(s) ==
    /\ \A i \in 1..Len(waiters) : s[waiters[i]] # "queued"
    /\ st' = s
    /\ waiters' = <<>>
    /\ raced' = (raced \/ waiters # <<>>)
    /\ active' = IF active > 0 THEN active - 1 ELSE active

ReleaseSlot(s) == HandOver(s) \/ GiveBack(s)

------------------------------------------------------------------------------
(* acquire() up to its await.  A closed gate and a full queue raise and      *)
(* change nothing, so they are not steps.                                    *)

\* Mutant: the limit is off by one.
QueueHasRoomForOneMore == Len(waiters) <= QueueSize

HasRoom == active < Maximum /\ waiters = <<>>
QueueHasRoom == Len(waiters) < QueueSize

AcquireNow(t) ==
    /\ st[t] = "idle"
    /\ ~closed
    /\ HasRoom
    /\ active' = active + 1
    /\ st' = [st EXCEPT ![t] = "holding"]
    /\ UNCHANGED <<closed, waiters, mustCancel, raced>>

AcquireQueued(t) ==
    /\ st[t] = "idle"
    /\ ~closed
    /\ ~HasRoom
    /\ QueueHasRoom
    /\ waiters' = Append(waiters, t)
    /\ st' = [st EXCEPT ![t] = "queued"]
    /\ UNCHANGED <<active, closed, mustCancel, raced>>

(* task.cancel() of a task awaiting its waiter. *)
Cancel(t) ==
    \/ /\ st[t] = "queued"
       /\ st' = [st EXCEPT ![t] = "cancelled"]
       /\ UNCHANGED <<active, closed, waiters, mustCancel, raced>>
    \/ /\ st[t] \in {"granted", "failed"} /\ ~mustCancel[t]
       /\ mustCancel' = [mustCancel EXCEPT ![t] = TRUE]
       /\ UNCHANGED <<active, closed, waiters, st, raced>>

\* Mutant: the waker does not look at _closed again.
WakeGrantedUnchecked(t) ==
    /\ st[t] = "granted" /\ ~mustCancel[t]
    /\ st' = [st EXCEPT ![t] = "holding"]
    /\ UNCHANGED <<active, closed, waiters, mustCancel, raced>>

(* The awaiting task runs with a result and the gate is open. *)
WakeGranted(t) ==
    /\ st[t] = "granted" /\ ~mustCancel[t]
    /\ ~closed
    /\ st' = [st EXCEPT ![t] = "holding"]
    /\ UNCHANGED <<active, closed, waiters, mustCancel, raced>>

(* The awaiting task runs with a result after close(): it gives the slot     *)
(* back and raises.                                                          *)
WakeClosed(t) ==
    /\ st[t] = "granted" /\ ~mustCancel[t]
    /\ closed
    /\ ReleaseSlot([st EXCEPT ![t] = "idle"])
    /\ UNCHANGED <<closed, mustCancel>>

(* The awaiting task runs with an exception and its waiter is still queued.  *)
WakeRemoved(t) ==
    /\ st[t] = "cancelled"
    /\ \E i \in 1..Len(waiters) :
          /\ waiters[i] = t
          /\ waiters' = SubSeq(waiters, 1, i - 1) \o SubSeq(waiters, i + 1, Len(waiters))
    /\ st' = [st EXCEPT ![t] = "idle"]
    /\ UNCHANGED <<active, closed, mustCancel, raced>>

\* Mutant: a cancelled hand-over keeps the slot.
WakeUnlistedKeepingSlot(t) ==
    /\ \/ st[t] \in {"failed", "cancelled"}
       \/ st[t] = "granted" /\ mustCancel[t]
    /\ \A i \in 1..Len(waiters) : waiters[i] # t
    /\ st' = [st EXCEPT ![t] = "idle"]
    /\ mustCancel' = [mustCancel EXCEPT ![t] = FALSE]
    /\ UNCHANGED <<active, closed, waiters, raced>>

(* The awaiting task runs with an exception and waiters.remove raises        *)
(* ValueError: whatever took the waiter out of the deque (a hand-over,       *)
(* close(), or a release that skipped it because it was done), the code      *)
(* releases a slot.                                                          *)
WakeUnlisted(t) ==
    /\ \/ st[t] \in {"failed", "cancelled"}
       \/ st[t] = "granted" /\ mustCancel[t]
    /\ \A i \in 1..Len(waiters) : waiters[i] # t
    /\ ReleaseSlot([st EXCEPT ![t] = "idle"])
    /\ mustCancel' = [mustCancel EXCEPT ![t] = FALSE]
    /\ UNCHANGED closed

Wake(t) == WakeGranted(t) \/ WakeClosed(t) \/ WakeRemoved(t) \/ WakeUnlisted(t)

(* The first call of the token; later calls change nothing. *)
Release(t) ==
    /\ st[t] = "holding"
    /\ ReleaseSlot([st EXCEPT ![t] = "idle"])
    /\ UNCHANGED <<closed, mustCancel>>

\* Mutant: the deque is cleared without failing the waiters.
CloseSilently ==
    /\ ~closed
    /\ closed' = TRUE
    /\ waiters' = <<>>
    /\ UNCHANGED <<active, st, mustCancel, raced>>

Close ==
    /\ ~closed
    /\ closed' = TRUE
    /\ st' = [t \in Tasks |-> IF st[t] = "queued" THEN "failed" ELSE st[t]]
    /\ waiters' = <<>>
    /\ UNCHANGED <<active, mustCancel, raced>>

Next ==
    \/ \E t \in Tasks :
          \/ AcquireNow(t)
          \/ AcquireQueued(t)
          \/ Cancel(t)
          \/ WakeGranted(t)
          \/ WakeClosed(t)
          \/ WakeRemoved(t)
          \/ WakeUnlisted(t)
          \/ Release(t)
    \/ Close

Spec == Init /\ [][Next]_vars

(* The event loop runs every ready task, and every request ends: each has a  *)
(* reply, a timeout or a lost connection, and releases in a finally block.   *)
FairSpec == Spec /\ \A t \in Tasks : WF_vars(Wake(t)) /\ WF_vars(Release(t))

------------------------------------------------------------------------------
(* Properties. *)

\* The tasks a slot was acquired by or reserved for.
Owners == {t \in Tasks : st[t] \in {"granted", "holding"}}

\* Every waiter in the deque belongs to exactly one task inside acquire(), and a
\* task whose future is not done can still be found there, so that no waiter is
\* forgotten (_runtime.py:129-144, 166-171, 182-185).
QueueConsistent ==
    /\ \A i, j \in 1..Len(waiters) : waiters[i] = waiters[j] => i = j
    /\ \A i \in 1..Len(waiters) : st[waiters[i]] \in {"queued", "cancelled"}
    /\ \A t \in Tasks : st[t] = "queued" => \E i \in 1..Len(waiters) : waiters[i] = t
    /\ Len(waiters) <= QueueSize
    /\ closed => waiters = <<>>

\* No lost wakeup: while a caller is queued every slot is accounted for, so no
\* capacity is free next to a waiter (_runtime.py:125, 166-175).
NoIdleCapacity == waiters # <<>> => active = Maximum

\* No lost capacity: an open gate never counts a slot that nobody acquired and
\* nobody is about to receive, whatever cancellations interleave
\* (_runtime.py:135-142).
NoSlotLeak == ~closed => active <= Cardinality(Owners)

\* As long as no release meets a waiter that was cancelled but has not run yet,
\* _active is exactly the number of acquired or reserved slots.
ExactUnlessRaced == ~raced /\ ~closed => active = Cardinality(Owners)

\* ... and then no more than Maximum requests are ever admitted at once, before
\* and after close().
BoundedUnlessRaced == ~raced => Cardinality(Owners) <= Maximum

\* What docs/README.md:8 ("bounded request admission") says without condition: no
\* more than Maximum requests hold a token at once.  The code does not ensure it.
AdmissionBounded == Cardinality({t \in Tasks : st[t] = "holding"}) <= Maximum

\* close() is final: no task obtains a token afterwards, not even one whose slot
\* was reserved before (_runtime.py:143-145).
NoAdmissionAfterClose ==
    [][closed => \A t \in Tasks : st'[t] = "holding" => st[t] = "holding"]_vars

\* u waits for a slot and has waited longer than t.
Ahead(u, t) ==
    \E i \in 1..Len(waiters) :
        /\ waiters[i] = u /\ st[u] = "queued"
        /\ \A j \in 1..(i - 1) : waiters[j] # t

\* FIFO without stealing: a slot never goes to a task while one that has waited
\* longer is still waiting ("Queued callers own the next slots",
\* _runtime.py:123).
NoOvertaking ==
    [][\A t, u \in Tasks :
          t \notin Owners /\ t \in Owners' /\ u # t => ~Ahead(u, t)]_vars

\* A queued caller is admitted, or told that it never will be.
WaiterProgress == \A t \in Tasks : st[t] = "queued" ~> st[t] # "queued"

==============================================================================
