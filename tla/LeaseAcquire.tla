----------------------------- MODULE LeaseAcquire -----------------------------
(***************************************************************************)
(* LeaseClient.acquire (domains/lease.py).  The broker answers an ACQUIRE  *)
(* at once, or says "queued" and sends the final answer later in a frame   *)
(* without a correlation id: the client gives that frame to the first      *)
(* future in _queued.  So acquisitions take turns under _acquire_lock, and *)
(* one that is cancelled leaves its future behind to swallow its answer.   *)
(*                                                                         *)
(* One record per call of acquire().  The answer to its request arrives in *)
(* one step and its task goes on in a later one.                           *)
(***************************************************************************)
EXTENDS Session, Sequences, FiniteSets, SequencesExt

CONSTANTS Acquirers,
          Nobody

ASSUME LeaseAcquireAssumption == IsFiniteSet(Acquirers) /\ Nobody \notin Acquirers

VARIABLES acq,      \* the calls
          locked,   \* _acquire_lock
          lockers,  \* its waiters
          queued,   \* the deque _queued, whose futures are named by their calls
          broker    \* the broker's view of each ACQUIRE

acquireVars == <<acq, locked, lockers, queued, broker>>

AcquireType == [
    pc     : {"idle", "locking", "asking", "deferred", "over"},
    wait   : BOOLEAN,                          \* a positive wait: it has a future
    reply  : {"none", "granted", "queued", "refused", "lost"},  \* to its request
    future : {"pending", "granted", "refused", "lost"},
    of     : Acquirers \cup {Nobody},          \* history: whose final answer that is
    result : {"none", "lease", "error", "cancelled"},
    got    : Acquirers \cup {Nobody},          \* history: whose grant it returned
    drain  : BOOLEAN]                          \* its _drain_cancelled_acquire task

AcquireTypeOK ==
    /\ acq \in [Acquirers -> AcquireType]
    /\ locked \in BOOLEAN
    /\ lockers \in Seq(Acquirers) /\ queued \in Seq(Acquirers)
    /\ broker \in [Acquirers -> {"none", "asked", "waiting", "over"}]

AcquireInit ==
    /\ acq = [a \in Acquirers |->
                 [pc |-> "idle", wait |-> FALSE, reply |-> "none", future |-> "pending",
                  of |-> Nobody, result |-> "none", got |-> Nobody, drain |-> FALSE]]
    /\ locked = FALSE /\ lockers = <<>> /\ queued = <<>>
    /\ broker = [a \in Acquirers |-> "none"]

------------------------------------------------------------------------------
(* The call. *)

\* request() of the ACQUIRE; offline it raises at once.
Asking(a, wait) ==
    /\ acq' = [acq EXCEPT ![a].pc = "asking", ![a].wait = wait,
                          ![a].reply = IF Online THEN "none" ELSE "lost"]
    /\ locked' = TRUE
    /\ queued' = IF wait THEN Append(queued, a) ELSE queued
    /\ broker' = [broker EXCEPT ![a] = IF Online THEN "asked" ELSE @]

\* acquire() up to its first wait, for the lock or for the answer.
CallAcquire(a, wait) ==
    /\ acq[a].pc = "idle"
    /\ IF locked \/ lockers # <<>>
       THEN /\ acq' = [acq EXCEPT ![a].pc = "locking", ![a].wait = wait]
            /\ lockers' = Append(lockers, a)
            /\ UNCHANGED <<locked, queued, broker>>
       ELSE Asking(a, wait) /\ UNCHANGED lockers
    /\ UNCHANGED session

\* The lock's first waiter gets it.
LockAcquired(a) ==
    /\ acq[a].pc = "locking" /\ ~locked /\ Head(lockers) = a
    /\ lockers' = Tail(lockers)
    /\ Asking(a, acq[a].wait)
    /\ UNCHANGED session

\* The call ends and its finally clause releases the lock.
Over(a, result, got) ==
    /\ acq' = [acq EXCEPT ![a].pc = "over", ![a].result = result, ![a].got = got]
    /\ locked' = FALSE

\* deque.remove
Without(s, a) ==
    IF Contains(s, a) THEN RemoveAt(s, CHOOSE i \in 1..Len(s) : s[i] = a) ELSE s

Forgotten(a) == Without(queued, a)

\* The answer to the request is at hand.  A future that the disconnect took
\* from the deque makes remove() raise although the lease was granted.
Answered(a) ==
    LET k == acq[a] IN
    /\ k.pc = "asking" /\ k.reply # "none"
    /\ \/ /\ k.reply = "granted"
          /\ IF k.wait /\ ~Contains(queued, a) THEN Over(a, "error", Nobody)
             ELSE Over(a, "lease", a)
          /\ queued' = Forgotten(a)
       \/ /\ k.reply = "queued" /\ k.wait
          /\ acq' = [acq EXCEPT ![a].pc = "deferred"]
          /\ UNCHANGED <<locked, queued>>
       \/ /\ k.reply \in {"refused", "lost"}
          /\ Over(a, "error", Nobody)
          /\ queued' = Forgotten(a)
    /\ UNCHANGED <<session, lockers, broker>>

\* The final answer is at hand.
FinallyAnswered(a) ==
    LET k == acq[a] IN
    /\ k.pc = "deferred" /\ k.future # "pending"
    /\ IF k.future = "granted" THEN Over(a, "lease", k.of) ELSE Over(a, "error", Nobody)
    /\ UNCHANGED <<session, lockers, queued, broker>>

\* Mutant: a cancelled acquisition takes its future with it.
CancelledCleanly(a) ==
    /\ acq[a].pc \in {"asking", "deferred"}
    /\ Over(a, "cancelled", Nobody)
    /\ queued' = Forgotten(a)
    /\ UNCHANGED <<session, lockers, broker>>

\* Mutant: ... or leaves it to a drain task and releases the lock all the same.
CancelledTwice(a) ==
    /\ acq[a].pc \in {"asking", "deferred"}
    /\ acq' = [acq EXCEPT ![a].pc = "over", ![a].result = "cancelled",
                          ![a].drain = Contains(queued, a)]
    /\ locked' = FALSE
    /\ UNCHANGED <<session, lockers, queued, broker>>

\* Its task is cancelled while it awaits an answer: as long as its future is
\* in the deque, a task that drains it takes over the lock.
CancelledAsking(a) ==
    LET drains == Contains(queued, a) IN
    /\ acq[a].pc \in {"asking", "deferred"}
    /\ acq' = [acq EXCEPT ![a].pc = "over", ![a].result = "cancelled", ![a].drain = drains]
    /\ locked' = drains
    /\ UNCHANGED <<session, lockers, queued, broker>>

\* ... while it awaits the lock.
CancelledLocking(a) ==
    /\ acq[a].pc = "locking"
    /\ acq' = [acq EXCEPT ![a].pc = "over", ![a].result = "cancelled"]
    /\ lockers' = Without(lockers, a)
    /\ UNCHANGED <<session, locked, queued, broker>>

\* _drain_cancelled_acquire
Drain(a) ==
    /\ acq[a].drain /\ acq[a].future # "pending"
    /\ acq' = [acq EXCEPT ![a].drain = FALSE]
    /\ locked' = FALSE
    /\ UNCHANGED <<session, lockers, queued, broker>>

------------------------------------------------------------------------------
(* The broker. *)

\* It answers an ACQUIRE; nobody receives the answer of an abandoned request.
BrokerAnswers(a) ==
    /\ broker[a] = "asked" /\ Online
    /\ \E r \in {"granted", "refused"} \cup (IF acq[a].wait THEN {"queued"} ELSE {}) :
          /\ broker' = [broker EXCEPT ![a] = IF r = "queued" THEN "waiting" ELSE "over"]
          /\ acq' = IF acq[a].pc = "asking" THEN [acq EXCEPT ![a].reply = r] ELSE acq
    /\ UNCHANGED <<session, locked, lockers, queued>>

\* It sends the final answer of a queued ACQUIRE: _queued_reply.
BrokerFinishes(a) ==
    /\ broker[a] = "waiting" /\ Online
    /\ broker' = [broker EXCEPT ![a] = "over"]
    /\ \E r \in {"granted", "refused"} :
          IF queued = <<>> THEN UNCHANGED <<acq, queued>>
          ELSE /\ acq' = [acq EXCEPT ![Head(queued)].future = r, ![Head(queued)].of = a]
               /\ queued' = Tail(queued)
    /\ UNCHANGED <<session, locked, lockers>>

------------------------------------------------------------------------------
(* The session. *)

\* The requests on their way fail and the broker forgets the session.
AcquireLost ==
    /\ acq' = [a \in Acquirers |->
                  IF acq[a].pc = "asking" /\ acq[a].reply = "none"
                  THEN [acq[a] EXCEPT !.reply = "lost"] ELSE acq[a]]
    /\ broker' = [a \in Acquirers |-> IF broker[a] = "none" THEN "none" ELSE "over"]
    /\ UNCHANGED <<locked, lockers, queued>>

\* Mutant: the futures are dropped and not failed.
AcquireForgotten == queued' = <<>> /\ UNCHANGED <<acq, locked, lockers, broker>>

\* LeaseClient._disconnect
AcquireDisconnected ==
    /\ acq' = [a \in Acquirers |->
                  IF Contains(queued, a) THEN [acq[a] EXCEPT !.future = "lost"] ELSE acq[a]]
    /\ queued' = <<>>
    /\ UNCHANGED <<locked, lockers, broker>>

AcquireTask(a) == LockAcquired(a) \/ Answered(a) \/ FinallyAnswered(a) \/ Drain(a)

AcquireSteps(a) ==
    \/ \E wait \in BOOLEAN : CallAcquire(a, wait)
    \/ AcquireTask(a) \/ BrokerAnswers(a) \/ BrokerFinishes(a)

AcquireFaults(a) == CancelledAsking(a) \/ CancelledLocking(a)

\* A task of a call can run.  A new session takes many turns of the event
\* loop, so no call is still on its way from an answer of the old one.
AcquireRunnable ==
    \E a \in Acquirers :
        \/ acq[a].pc = "asking" /\ acq[a].reply # "none"
        \/ acq[a].pc = "deferred" /\ acq[a].future # "pending"

------------------------------------------------------------------------------
(* Properties. *)

\* A lease is the one the broker granted to this very call, although the final
\* answers name no call and calls are cancelled at any moment
\* (lease.py:618-643, 883-902; AUDIT_REMEDIATION.md:25).
GrantReachesItsCaller == \A a \in Acquirers : acq[a].result = "lease" => acq[a].got = a

\* _acquire_lock is released exactly once for each call that got it: it is held
\* while one call asks or one cancelled call is drained, by no more than one of
\* them, and is free otherwise (lease.py:616-651, 897-902).
AcquireLockExact ==
    LET inside == {a \in Acquirers : acq[a].pc \in {"asking", "deferred"}}
        drained == {a \in Acquirers : acq[a].drain}
    IN  /\ Cardinality(inside) + Cardinality(drained) = IF locked THEN 1 ELSE 0
        /\ inside \cap drained = {}

\* A cancelled acquisition whose answer never comes blocks the others until the
\* session ends, and no longer (lease.py:890-902).
LossFreesTheLock == mode \in {"lost", "closing"} ~> ~locked
===============================================================================
