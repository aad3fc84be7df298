------------------------------- MODULE RpcCalls -------------------------------
(***************************************************************************)
(* The caller's side of domains/rpc: open_call, RPCCall and the client's   *)
(* tables of calls and of cancellations that await the broker's answer.    *)
(*                                                                         *)
(* One record per call.  Response and lifecycle frames are handled in the  *)
(* step that receives them, as _on_response and _on_lifecycle are          *)
(* synchronous; the tasks of a call (its opener, its one consumer, the     *)
(* deadline's and the parent's watcher) interleave with them.  A frame     *)
(* sent while the session lasts may reach the broker.                      *)
(***************************************************************************)
EXTENDS Session, Sequences, FiniteSets

CONSTANTS Calls,
          BufferSize,   \* limits.subscription_buffer_size
          MaxFrames,    \* bound: response frames of a call
          Parents,      \* inbound requests a call may be linked to
          NoParent

ASSUME RpcCallsAssumption ==
    /\ IsFiniteSet(Calls)
    /\ BufferSize \in Nat \ {0}
    /\ MaxFrames \in Nat \ {0}
    /\ NoParent \notin Parents

VARIABLE call

Watcher == {"none", "waiting", "over"}

CallType == [
    pc       : {"idle", "opening", "open", "failed"},   \* open_call()
    at       : 0..MaxGeneration,   \* the session of its request
    parent   : Parents \cup {NoParent},
    listed   : BOOLEAN,            \* in _pending
    closed   : BOOLEAN,
    terminal : BOOLEAN,
    failure  : {"none", "timeout", "lost"},
    queue    : Seq({"frame", "none", "error"}),
    outcome  : {"open", "not_requested", "connection_closed", "answered", "unconfirmed"},
    awaiting : BOOLEAN,            \* in _pending_cancellations
    cancel   : {"none", "sending", "sent"},  \* its CANCELLATION frame
    late     : BOOLEAN,            \* the deadline has passed
    expiry   : Watcher,            \* _deadline_task
    watch    : Watcher,            \* _parent_cancellation_task
    user     : {"idle", "waiting"},  \* the consumer's __anext__
    seen     : {"nothing", "end", "error", "cancelled"},  \* history: how its iteration ended
    cause    : {"none", "owner", "parent", "deadline"},   \* history: who closed it
    answer   : {"none", "streaming", "ended"},  \* the worker's answer, as sent by the broker
    sent     : 0..MaxFrames,       \* history: frames of the answer
    taken    : 0..MaxFrames]       \* history: frames the consumer got

CallsTypeOK == call \in [Calls -> CallType]

Unopened == [
    pc |-> "idle", at |-> 0, parent |-> NoParent, listed |-> FALSE, closed |-> FALSE,
    terminal |-> FALSE, failure |-> "none", queue |-> <<>>, outcome |-> "open",
    awaiting |-> FALSE, cancel |-> "none", late |-> FALSE, expiry |-> "none", watch |-> "none",
    user |-> "idle", seen |-> "nothing", cause |-> "none", answer |-> "none", sent |-> 0,
    taken |-> 0]

CallsInit == call = [c \in Calls |-> Unopened]

------------------------------------------------------------------------------
(* What the methods do to a call. *)

\* _resolve_call_outcome
Resolve(k, o) == IF k.outcome = "open" THEN [k EXCEPT !.outcome = o] ELSE k

\* _finish_call
FinishCall(k, o) == Resolve([k EXCEPT !.listed = FALSE], o)

\* _settle_cancellation
Settle(k, o) == IF k.awaiting THEN Resolve([k EXCEPT !.awaiting = FALSE], o) ELSE k

\* _stop_parent_cancellation; watchers not created yet are not stopped.
StopWatchers(k) ==
    LET Stopped(w) == IF w = "waiting" THEN "over" ELSE w
    IN  [k EXCEPT !.expiry = Stopped(@), !.watch = Stopped(@)]

\* Mutant: a full buffer swallows the error.
FailSilentlyWhenFull(k, o, preserve) ==
    IF k.closed THEN k
    ELSE LET f == FinishCall(StopWatchers([k EXCEPT !.closed = TRUE]), o)
         IN  IF Len(f.queue) < BufferSize THEN [f EXCEPT !.queue = Append(@, "error")] ELSE f

\* RPCCall.fail: the error goes behind the buffered frames, or is kept aside.
Fail(k, o, preserve) ==
    IF k.closed THEN k
    ELSE LET f == FinishCall(StopWatchers([k EXCEPT !.closed = TRUE]), o)
             q == IF preserve THEN f.queue ELSE <<>>
         IN  IF Len(q) < BufferSize
             THEN [f EXCEPT !.queue = Append(q, "error"), !.failure = "none"]
             ELSE [f EXCEPT !.queue = q, !.failure = "lost"]

\* RPCCall.push
Push(k, end) ==
    IF k.closed THEN k
    ELSE IF Len(k.queue) = BufferSize THEN Fail(k, "not_requested", FALSE)
    ELSE LET p == [k EXCEPT !.queue = Append(@, "frame")]
         IN  IF end
             THEN FinishCall(StopWatchers([p EXCEPT !.terminal = TRUE]), "not_requested")
             ELSE p

\* _on_response; an "error" is a terminal frame that decodes to an RPC error.
OnResponse(k, kind) ==
    IF ~k.listed THEN k
    ELSE IF kind = "error" THEN [Fail(k, "not_requested", TRUE) EXCEPT !.listed = FALSE]
    ELSE Push(k, kind = "end")

\* Mutant: without a session nothing settles the cancellation.
AbandonOnlineOnly(k) ==
    LET p == [k EXCEPT !.listed = FALSE]
    IN  IF p.outcome = "open" /\ ~p.awaiting /\ Online
        THEN [p EXCEPT !.awaiting = TRUE, !.cancel = "sending"]
        ELSE p

\* _abandon_call up to its send, which raises at once without a session.
Abandon(k) ==
    LET p == [k EXCEPT !.listed = FALSE]
    IN  IF p.outcome # "open" \/ p.awaiting THEN p
        ELSE IF Online THEN [p EXCEPT !.awaiting = TRUE, !.cancel = "sending"]
        ELSE Resolve(p, "connection_closed")

\* RPCCall._close_and_cancel
CloseAndCancel(k, why) ==
    IF k.terminal \/ k.closed THEN k
    ELSE Abandon(StopWatchers([k EXCEPT !.closed = TRUE, !.queue = <<"none">>,
                                         !.cause = why]))

\* The consumer's __anext__ ended its iteration.
Ended(k, how) == [k EXCEPT !.user = "idle", !.seen = how]

\* What __anext__ does with the head of the queue.
Popped(k) ==
    LET p == [k EXCEPT !.queue = Tail(@), !.user = "idle"]
    IN  CASE Head(k.queue) = "frame" -> [p EXCEPT !.taken = @ + 1]
          [] Head(k.queue) = "none" ->
                Ended([p EXCEPT !.closed = TRUE, !.failure = "none"],
                      IF k.failure # "none" THEN "error" ELSE "end")
          [] Head(k.queue) = "error" ->
                Ended([p EXCEPT !.closed = TRUE, !.failure = "none"], "error")

------------------------------------------------------------------------------
(* Actions.  call[c] becomes k. *)

Becomes(c, k) == call' = [call EXCEPT ![c] = k] /\ UNCHANGED session

\* open_call up to the send of its REQUEST; call_from_request names a parent
\* that is neither cancelled nor out of time (the composition's condition).
OpenCall(c, p) ==
    /\ call[c].pc = "idle" /\ Online
    /\ Becomes(c, [call[c] EXCEPT !.pc = "opening", !.at = generation, !.parent = p,
                                  !.listed = TRUE, !.answer = "streaming"])

\* The REQUEST was sent: open_call creates the watchers and returns, whatever
\* happened to the call meanwhile.
CallOpened(c) ==
    LET k == call[c] IN
    /\ k.pc = "opening"
    /\ Becomes(c, [k EXCEPT !.pc = "open", !.expiry = "waiting",
                            !.watch = IF k.parent = NoParent THEN "none" ELSE "waiting"])

\* The send raised, or the opener was cancelled in it.
OpenFailed(c) ==
    /\ call[c].pc = "opening"
    /\ Becomes(c, [call[c] EXCEPT !.pc = "failed", !.listed = FALSE])

\* A response frame of the worker arrives.  (One for a call that is over and
\* no longer listed changes nothing.)
Response(c, kind) ==
    LET k == call[c] IN
    /\ k.answer = "streaming" /\ Current(k.at) /\ k.sent < MaxFrames
    /\ k.listed \/ ~(k.closed \/ k.terminal)
    /\ Becomes(c, OnResponse([k EXCEPT !.sent = IF kind = "error" THEN @ ELSE @ + 1,
                                       !.answer = IF kind = "frame" THEN @ ELSE "ended"],
                             kind))

\* Nothing looks at the deadline once the iteration has ended.
DeadlinePasses(c) ==
    /\ call[c].pc \in {"opening", "open"} /\ ~call[c].late
    /\ call[c].seen = "nothing" \/ call[c].expiry = "waiting"
    /\ Becomes(c, [call[c] EXCEPT !.late = TRUE])

\* _expire_at_deadline
Expire(c) ==
    LET k == [call[c] EXCEPT !.expiry = "over"] IN
    /\ call[c].expiry = "waiting" /\ call[c].late
    /\ Becomes(c, IF k.closed \/ k.terminal THEN k
                  ELSE CloseAndCancel([k EXCEPT !.failure = "timeout"], "deadline"))

\* _cancel_when_parent_cancelled; cancelled is the parent's context.cancelled.
ParentCancelled(c, cancelled) ==
    /\ call[c].watch = "waiting" /\ cancelled
    /\ Becomes(c, CloseAndCancel([call[c] EXCEPT !.watch = "over"], "parent"))

\* aclose() or cancel() by the call's owner.
OwnerCloses(c) ==
    /\ call[c].pc = "open" /\ ~call[c].closed /\ ~call[c].terminal
    /\ Becomes(c, CloseAndCancel(call[c], "owner"))

\* __anext__ up to its wait.  The consumer stops at the first end or error.
Iterate(c) ==
    LET k == call[c] IN
    /\ k.pc = "open" /\ k.user = "idle" /\ k.seen = "nothing"
    /\ Becomes(c,
          IF k.failure # "none" /\ k.queue = <<>>
          THEN Ended([k EXCEPT !.failure = "none"], "error")
          ELSE IF (k.closed \/ k.terminal) /\ k.queue = <<>> THEN Ended(k, "end")
          ELSE IF k.late THEN Ended(CloseAndCancel(k, "deadline"), "error")
          ELSE IF k.queue # <<>> THEN Popped(k)
          ELSE [k EXCEPT !.user = "waiting"])

\* queue.get() returns to the waiting consumer.
Receive(c) ==
    /\ call[c].user = "waiting" /\ call[c].queue # <<>>
    /\ Becomes(c, Popped(call[c]))

\* Its timeout ends the wait.
WaitTimesOut(c) ==
    /\ call[c].user = "waiting" /\ call[c].late
    /\ Becomes(c, Ended(CloseAndCancel(call[c], "deadline"), "error"))

\* Its task is cancelled.
WaitCancelled(c) ==
    /\ call[c].user = "waiting"
    /\ Becomes(c, Ended(CloseAndCancel(call[c], "owner"), "cancelled"))

\* The rest of _abandon_call: its send returned or was cancelled.
CancelSent(c) ==
    /\ call[c].cancel = "sending"
    /\ Becomes(c, [call[c] EXCEPT !.cancel = "sent"])

\* Its send raised for the session, or for something else.
CancelRaised(c) ==
    /\ call[c].cancel = "sending"
    /\ \E o \in {"connection_closed", "unconfirmed"} :
          Becomes(c, Settle([call[c] EXCEPT !.cancel = "sent"], o))

\* _on_lifecycle, kind 4: the broker answers the CANCELLATION.
CancelAnswered(c) ==
    /\ call[c].cancel # "none" /\ call[c].awaiting /\ Current(call[c].at)
    /\ Becomes(c, Settle(call[c], "answered"))

\* The grace period's timer.
GraceEnds(c) ==
    /\ call[c].awaiting
    /\ Becomes(c, Settle(call[c], "unconfirmed"))

\* _disconnect, the part about calls.
CallsDisconnected ==
    call' = [c \in Calls |->
                LET k == call[c]
                    f == IF k.listed THEN Fail(k, "connection_closed", TRUE) ELSE k
                IN  Settle([f EXCEPT !.listed = FALSE], "connection_closed")]

CallSteps(c) ==
    \/ CallOpened(c)
    \/ \E kind \in {"frame", "end", "error"} : Response(c, kind)
    \/ Expire(c) \/ OwnerCloses(c)
    \/ Iterate(c) \/ Receive(c) \/ WaitTimesOut(c)
    \/ CancelSent(c) \/ CancelAnswered(c) \/ GraceEnds(c)

\* Time, cancellations of tasks, and errors.
CallFaults(c) == OpenFailed(c) \/ DeadlinePasses(c) \/ WaitCancelled(c) \/ CancelRaised(c)

------------------------------------------------------------------------------
(* Properties. *)

Over(c) == call[c].closed \/ call[c].terminal

\* An iteration ends like a complete answer only if the consumer got every
\* frame of a complete answer, or somebody asked for the end: the call's owner,
\* or the cancellation of the request it was made for (rpc.py:177-211, 238-271).
CleanEndIsComplete ==
    \A c \in Calls : call[c].seen = "end" =>
        \/ call[c].answer = "ended" /\ call[c].taken = call[c].sent
        \/ call[c].cause \in {"owner", "parent"}

\* Whoever awaits call.cancellation of a call that is over gets an answer,
\* even if the broker never gives one (rpc.py:550-595).
OutcomesResolve == \A c \in Calls : Over(c) ~> call[c].outcome # "open"
===============================================================================
