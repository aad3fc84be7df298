---------------------------- MODULE KvTransaction ----------------------------
(***************************************************************************)
(* KVTransaction (domains/kv.py), obtained through the LazyAsyncContext    *)
(* (_runtime.py) that client.transaction() returns.  Both tasks enter the  *)
(* same context and close it as they like: the first to enter begins the   *)
(* transaction under the start lock, and closing rolls it back.            *)
(*                                                                         *)
(* An operation runs under the transaction's own lock; reads are retried,  *)
(* holding it.  rollback() of a closed transaction does nothing.           *)
(***************************************************************************)
EXTENDS HandleBase

KvKeep == UNCHANGED <<session, kind, resource>>

\* ctx after t left the start lock.
Unlocked(c, t) == [c EXCEPT !.lock = IF @ = t THEN Nobody ELSE @]

------------------------------------------------------------------------------
(* Operations.  h is the transaction. *)

\* _finish closes the transaction before its request.
Finish(h, op) ==
    IF op \in Finishing THEN [h EXCEPT !.closed = TRUE, !.finished = TRUE] ELSE h

\* t has the lock, or finds it free: the check, and the request.
Proceed(t, op, then) ==
    IF Valid THEN Request(t, [Finish(handle, op) EXCEPT !.lock = t], op, then) /\ UNCHANGED ctx
    ELSE /\ task' = [task EXCEPT ![t] = IF then = "in" THEN Back(@) ELSE Out(@, FALSE)]
         /\ ctx' = Unlocked(ctx, t)
         /\ UNCHANGED <<handle, wire, ops>>

Operate(t, op, then) ==
    IF handle.lock = Nobody THEN Proceed(t, op, then)
    ELSE /\ task' = [task EXCEPT ![t].pc = "locking", ![t].op = op, ![t].then = then]
         /\ UNCHANGED <<ctx, handle, wire, ops>>

Read(t) == task[t].pc = "in" /\ Operate(t, "read", "in") /\ KvKeep

Write(t) == task[t].pc = "in" /\ Operate(t, "write", "in") /\ KvKeep

Commit(t) == task[t].pc = "in" /\ Operate(t, "commit", "in") /\ KvKeep

Rollback(t) == task[t].pc = "in" /\ ~handle.closed /\ Operate(t, "rollback", "in") /\ KvKeep

\* The lock is free.  (asyncio's lock is fair; here either task may go first.)
LockAcquired(t) ==
    /\ task[t].pc = "locking" /\ handle.lock = Nobody
    /\ Proceed(t, task[t].op, task[t].then)
    /\ KvKeep

\* Mutant: as a stream session does, the transaction stays open after a COMMIT
\* or ROLLBACK that raises.
ReturnOpen(t) ==
    LET cut == task[t].op \in Finishing /\ task[t].reply # "ok" IN
    /\ task[t].pc = "asking" /\ Answered(t)
    /\ Ended(t, ~cut)
    /\ handle' = [handle EXCEPT !.lock = Nobody, !.failed = @ \/ cut, !.closed = @ /\ ~cut]
    /\ ctx' = IF task[t].then = "in" THEN ctx ELSE Unlocked(ctx, t)
    /\ UNCHANGED <<wire, ops>> /\ KvKeep

\* The operation returns or raises, in t or in t's exit.
Return(t) ==
    LET ok == task[t].reply = "ok" IN
    /\ task[t].pc = "asking" /\ Answered(t)
    /\ Ended(t, ok)
    /\ handle' = [handle EXCEPT !.lock = Nobody,
                                !.failed = @ \/ (task[t].op \in Finishing /\ ~ok)]
    /\ ctx' = IF task[t].then = "in" THEN ctx ELSE Unlocked(ctx, t)
    /\ UNCHANGED <<wire, ops>> /\ KvKeep

\* run_with_retry, for as many attempts as the policy has.
RetryLater(t) ==
    /\ task[t].pc = "asking" /\ task[t].op = "read" /\ task[t].reply = "retryable"
    /\ task' = [task EXCEPT ![t].pc = "backoff", ![t].reply = "none"]
    /\ UNCHANGED <<ctx, handle, wire, ops>> /\ KvKeep

\* Mutant: the transaction is not looked at again.
RetryBlindly(t) ==
    /\ task[t].pc = "backoff"
    /\ Request(t, handle, "read", "in") /\ UNCHANGED ctx
    /\ KvKeep

Retry(t) ==
    /\ task[t].pc = "backoff"
    /\ IF Valid THEN Request(t, handle, "read", "in") /\ UNCHANGED ctx
       ELSE /\ Raised(t) /\ handle' = [handle EXCEPT !.lock = Nobody]
            /\ UNCHANGED <<ctx, wire, ops>>
    /\ KvKeep

------------------------------------------------------------------------------
(* The context. *)

\* Under the start lock: the transaction is begun, or there, or refused.
Starting(t) ==
    \/ /\ ctx.closed
       /\ Left(t, FALSE) /\ UNCHANGED <<ctx, handle, wire, ops>>
    \/ /\ ~ctx.closed /\ ctx.has
       /\ task' = [task EXCEPT ![t].pc = "in"] /\ UNCHANGED <<ctx, handle, wire, ops>>
    \/ /\ ~ctx.closed /\ ~ctx.has /\ MayBegin
       /\ Request(t, handle, "begin", "in") /\ ctx' = [ctx EXCEPT !.lock = t]

Enter(t) ==
    /\ task[t].pc = "out"
    /\ IF ctx.lock = Nobody THEN Starting(t)
       ELSE task' = [task EXCEPT ![t].pc = "starting"] /\ UNCHANGED <<ctx, handle, wire, ops>>
    /\ KvKeep

StartLocked(t) == task[t].pc = "starting" /\ ctx.lock = Nobody /\ Starting(t) /\ KvKeep

\* The transaction has begun: into a context closed meanwhile it goes no
\* further than its rollback.
BeginReturns(t) ==
    /\ task[t].pc = "beginning" /\ Answered(t)
    /\ \/ /\ task[t].reply # "ok"
          /\ Raised(t) /\ ctx' = Unlocked(ctx, t) /\ UNCHANGED <<handle, wire, ops>>
       \/ /\ task[t].reply = "ok" /\ ~ctx.closed
          /\ task' = [task EXCEPT ![t] = Back(@)]
          /\ handle' = NewHandle
          /\ ctx' = [ctx EXCEPT !.has = TRUE, !.lock = Nobody]
          /\ UNCHANGED <<wire, ops>>
       \/ /\ task[t].reply = "ok" /\ ctx.closed
          /\ Request(t, [Finish(NewHandle, "rollback") EXCEPT !.lock = t], "rollback", "raise")
          /\ UNCHANGED ctx
    /\ KvKeep

\* aclose() under the start lock: the transaction is taken out and rolled back.
Closing(t) ==
    \/ /\ ~ctx.has \/ handle.closed
       /\ Left(t, TRUE) /\ ctx' = [ctx EXCEPT !.closed = TRUE, !.has = FALSE]
       /\ UNCHANGED <<handle, wire, ops>>
    \/ /\ ctx.has /\ ~handle.closed /\ handle.lock = Nobody /\ Valid
       /\ Request(t, [Finish(handle, "rollback") EXCEPT !.lock = t], "rollback", "exit")
       /\ ctx' = [closed |-> TRUE, has |-> FALSE, lock |-> t]
    \/ /\ ctx.has /\ ~handle.closed /\ handle.lock = Nobody /\ ~Valid
       /\ Left(t, FALSE) /\ ctx' = [ctx EXCEPT !.closed = TRUE, !.has = FALSE]
       /\ UNCHANGED <<handle, wire, ops>>
    \/ /\ ctx.has /\ ~handle.closed /\ handle.lock # Nobody
       /\ task' = [task EXCEPT ![t].pc = "locking", ![t].op = "rollback", ![t].then = "exit"]
       /\ ctx' = [closed |-> TRUE, has |-> FALSE, lock |-> t]
       /\ UNCHANGED <<handle, wire, ops>>

\* Mutant: without the start lock.
CloseAtOnce(t) ==
    /\ task[t].pc \in {"out", "in"}
    /\ Closing(t)
    /\ KvKeep

\* aclose(), by a task that entered or by another.
CloseContext(t) ==
    /\ task[t].pc \in {"out", "in"}
    /\ IF ctx.lock = Nobody THEN Closing(t)
       ELSE /\ task' = [task EXCEPT ![t].pc = "closing"] /\ ctx' = [ctx EXCEPT !.closed = TRUE]
            /\ UNCHANGED <<handle, wire, ops>>
    /\ KvKeep

CloseLocked(t) == task[t].pc = "closing" /\ ctx.lock = Nobody /\ Closing(t) /\ KvKeep

\* t is cancelled while it waits; what it sent stays sent.
Cancelled(t) ==
    LET k == task[t]
        held == handle.lock = t
    IN  /\ k.pc \in {"starting", "beginning", "locking", "asking", "backoff", "closing"}
        /\ IF k.pc \in {"starting", "closing"} THEN Left(t, FALSE) ELSE Raised(t)
        /\ handle' = [handle EXCEPT !.lock = IF held THEN Nobody ELSE @,
                                    !.failed = @ \/ (k.op \in Finishing /\ (held \/ k.then # "in"))]
        /\ ctx' = Unlocked(ctx, t)
        /\ Withdrawn(t) /\ UNCHANGED ops /\ KvKeep

KvSteps(t) ==
    /\ kind = "kv"
    /\ \/ Enter(t) \/ StartLocked(t) \/ BeginReturns(t)
       \/ Read(t) \/ Write(t) \/ Commit(t) \/ Rollback(t)
       \/ LockAcquired(t) \/ Return(t) \/ RetryLater(t) \/ Retry(t)
       \/ CloseContext(t) \/ CloseLocked(t)

KvFaults(t) == kind = "kv" /\ Cancelled(t)
===============================================================================
