------------------------------- MODULE Handles --------------------------------
(***************************************************************************)
(* The handles of all four domains: KvTransaction, and here StreamSession  *)
(* (domains/stream.py), QueueItem (domains/queue.py), Lease and            *)
(* ManagedLease (domains/lease.py), over one connection that is lost and   *)
(* comes back.                                                             *)
(*                                                                         *)
(* These three have no lock.  They look at their generation and their flag *)
(* when an operation is called, and set the flag when a finishing request  *)
(* has succeeded.  Between the look and the sending lies the connection's  *)
(* gate, in which a request may wait (connection.py:202).  The second task *)
(* of a lease is its renewal.                                              *)
(***************************************************************************)
EXTENDS KvTransaction

CONSTANT MaxFaults   \* bound: sessions lost, errors and cancellations

ASSUME HandlesAssumption == MaxFaults \in Nat

VARIABLE faults   \* counter for the bound

vars == <<session, handleVars, faults>>

TypeOK == SessionTypeOK /\ HandlesTypeOK /\ faults \in 0..MaxFaults

Init == SessionInit /\ HandlesInit /\ faults = 0

Keep == UNCHANGED <<session, kind, ctx, resource>>

------------------------------------------------------------------------------
(* Obtaining the handle. *)

\* The request of begin(), reserve() or acquire().
Obtain ==
    /\ task[Owner].pc = "out" /\ MayBegin
    /\ Request(Owner, handle, "begin", "in")
    /\ Keep

\* Its answer; ManagedLease starts the renewal.
Obtained ==
    /\ task[Owner].pc = "beginning" /\ Answered(Owner)
    /\ IF task[Owner].reply # "ok" THEN Raised(Owner) /\ UNCHANGED handle
       ELSE /\ task' = [t \in Tasks |-> IF t = Owner \/ kind = "lease" THEN Back(task[t]) ELSE task[t]]
            /\ handle' = NewHandle
    /\ UNCHANGED <<wire, ops>> /\ Keep

\* The other task is given the handle.
Share ==
    /\ kind # "lease" /\ handle.made /\ task[Other].pc = "out"
    /\ task' = [task EXCEPT ![Other].pc = "in"]
    /\ UNCHANGED <<handle, wire, ops>> /\ Keep

------------------------------------------------------------------------------
(* Operations. *)

Call(t, k, op) ==
    /\ kind = k /\ task[t].pc = "in" /\ Valid
    /\ Request(t, handle, op, "in")
    /\ Keep

\* The operation returns: only success closes the handle.
Returned(t, k, op, h) ==
    LET ok == task[t].reply = "ok" IN
    /\ kind = k /\ task[t].pc = "asking" /\ task[t].op = op /\ Answered(t)
    /\ Ended(t, ok)
    /\ handle' = IF ok THEN h ELSE handle
    /\ UNCHANGED <<wire, ops>> /\ Keep

Closed == [handle EXCEPT !.closed = TRUE, !.finished = TRUE]

StreamAppend(t) == Call(t, "stream", "write") \/ Returned(t, "stream", "write", handle)

StreamCommit(t) == Call(t, "stream", "commit") \/ Returned(t, "stream", "commit", Closed)

StreamRollback(t) == Call(t, "stream", "rollback") \/ Returned(t, "stream", "rollback", Closed)

ItemExtend(t) == Call(t, "item", "extend") \/ Returned(t, "item", "extend", handle)

Complete(t) == Call(t, "item", "commit") \/ Returned(t, "item", "commit", Closed)

Nack(t) == Call(t, "item", "rollback") \/ Returned(t, "item", "rollback", Closed)

\* extend() by the owner.
LeaseExtend ==
    \/ Call(Owner, "lease", "extend")
    \/ Returned(Owner, "lease", "extend", [handle EXCEPT !.token = task[Owner].token])

Release == Call(Owner, "lease", "commit") \/ Returned(Owner, "lease", "commit", Closed)

\* _renew: the timer fires, extend() returns; when it raises, the renewal ends
\* and the lease counts as lost.
Renewal ==
    \/ Call(Other, "lease", "extend")
    \/ /\ kind = "lease" /\ task[Other].pc = "in" /\ ~Valid
       /\ Left(Other, FALSE) /\ UNCHANGED <<handle, wire, ops>> /\ Keep
    \/ /\ kind = "lease" /\ task[Other].pc = "asking" /\ Answered(Other)
       /\ IF task[Other].reply = "ok"
          THEN Ended(Other, TRUE) /\ handle' = [handle EXCEPT !.token = task[Other].token]
          ELSE Left(Other, FALSE) /\ UNCHANGED handle
       /\ UNCHANGED <<wire, ops>> /\ Keep

------------------------------------------------------------------------------
(* Leaving. *)

\* StreamSession.__aexit__
StreamExit ==
    /\ kind = "stream" /\ task[Owner].pc = "in"
    /\ \/ /\ handle.closed
          /\ Left(Owner, TRUE) /\ UNCHANGED <<handle, wire, ops>>
       \/ /\ ~handle.closed /\ Valid
          /\ Request(Owner, handle, "rollback", "exit")
       \/ /\ ~handle.closed /\ ~Valid
          /\ Left(Owner, FALSE) /\ UNCHANGED <<handle, wire, ops>>
    /\ Keep

\* ManagedLease.__aexit__ cancels the renewal, wherever it is,
LeaseExit ==
    /\ kind = "lease" /\ task[Owner].pc = "in"
    /\ LET lost == task[Other].pc = "left" IN
          task' = [task EXCEPT ![Owner].pc = "closing", ![Other] = Out(@, ~lost)]
    /\ Withdrawn(Other)
    /\ UNCHANGED <<handle, ops>> /\ Keep

\* and releases the lease, with the token it knows; a lost lease is reported.
LeaseExitReleases ==
    LET fine == task[Other].quiet IN
    /\ kind = "lease" /\ task[Owner].pc = "closing"
    /\ \/ handle.closed /\ Left(Owner, fine) /\ UNCHANGED <<handle, wire, ops>>
       \/ /\ ~handle.closed /\ Valid
          /\ Request(Owner, handle, "commit", IF fine THEN "exit" ELSE "raise")
       \/ ~handle.closed /\ ~Valid /\ Left(Owner, FALSE) /\ UNCHANGED <<handle, wire, ops>>
    /\ Keep

\* A task is cancelled while it waits.  (ManagedLease.__aexit__ swallows a
\* cancellation that reaches it while it awaits the renewal.)
TaskCancelled(t) ==
    /\ kind # "kv" /\ ~(kind = "lease" /\ t = Other)
    /\ task[t].pc \in {"beginning", "asking"}
    /\ Raised(t) /\ Withdrawn(t)
    /\ UNCHANGED <<handle, ops>> /\ Keep

OtherSteps ==
    \/ kind # "kv" /\ (Obtain \/ Obtained \/ Share)
    \/ \E t \in Tasks :
          \/ StreamAppend(t) \/ StreamCommit(t) \/ StreamRollback(t)
          \/ ItemExtend(t) \/ Complete(t) \/ Nack(t)
    \/ LeaseExtend \/ Release \/ Renewal
    \/ StreamExit \/ LeaseExit \/ LeaseExitReleases

------------------------------------------------------------------------------
(* The specification. *)

Disconnected == Notified /\ HandlesDisconnected

\* The reconnect listeners are none of the handles' concern.
Reconnected == ~Resumable /\ Reconnect /\ UNCHANGED handleVars

Restored ==
    /\ mode = "restoring"
    /\ mode' = "up"
    /\ UNCHANGED <<generation, handleVars>>

Step ==
    \/ \E t \in Tasks : KvSteps(t)
    \/ OtherSteps
    \/ Admitted \/ Broker
    \/ Disconnected \/ Reconnected \/ Restored

Fault ==
    \/ \E t \in Tasks : KvFaults(t) \/ TaskCancelled(t)
    \/ BrokerFaults
    \/ (Lose \/ Close) /\ HandlesLost

Next ==
    /\ \/ Step /\ UNCHANGED faults
       \/ Fault /\ faults < MaxFaults /\ faults' = faults + 1
    /\ ops' <= MaxOps

Spec == Init /\ [][Next]_vars

------------------------------------------------------------------------------
(* Properties. *)

\* An operation is sent on no session but the one that granted the handle,
\* whatever it waited for before: a lock, or the backoff of a retry
\* (kv.py:77-92, 206-215; queue.py:53-55; stream.py:265-270; lease.py:85-87).
Fenced ==
    \A r \in wire : r.op # "begin" => resource.at = generation

\* Once a handle is finished - a transaction by its COMMIT or ROLLBACK, even one
\* that was cancelled, lost or refused; another handle by a finishing operation
\* that returned - no operation on it gets as far as the gate any more (kv.py:299-310;
\* stream.py:227-245; queue.py:61-68; lease.py:96-99).  What still goes out is
\* what the gate held back already: of a transaction, whose lock the waiting
\* operation keeps, only that COMMIT or ROLLBACK itself; of the other handles also
\* an append, an extend or a second finishing request that had looked at the
\* handle before (stream.py:189; queue.py:57; lease.py:90; connection.py:202).
NothingAfterFinish ==
    [][handle.finished =>
          \A r \in wire' \ wire : \E s \in Held :
              /\ r = [s EXCEPT !.sent = TRUE]
              /\ kind = "kv" => s.op \in Finishing]_vars

\* An exit that raises nothing leaves nothing behind: no begin is on its way in
\* another task, and the broker holds nothing open, unless a cancelled begin
\* left it there or the transaction's COMMIT or ROLLBACK is not over yet or
\* was cut short
\* (_runtime.py:34-58; kv.py:279-282; stream.py:178-180; lease.py:129-145).
ExitLeavesNothing ==
    \A t \in Tasks : task[t].quiet /\ ~(kind = "lease" /\ t = Other) =>
        /\ \A u \in Tasks : task[u].pc # "beginning"
        /\ resource.st = "open" =>
              \/ ~handle.made \/ handle.failed
              \/ \E u \in Tasks : task[u].pc = "asking" /\ task[u].op \in Finishing
===============================================================================
