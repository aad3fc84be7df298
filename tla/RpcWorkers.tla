------------------------------ MODULE RpcWorkers ------------------------------
(***************************************************************************)
(* The worker's side of domains/rpc (registrations, invocations, response  *)
(* writers, cleanup acknowledgements) on top of _runtime.AsyncDispatcher.  *)
(*                                                                         *)
(* One record per inbound request.  Its stage is where the one task that   *)
(* serves it stands; a second task may acknowledge its cleanup beside it.  *)
(* Registrations are for one route; workers are the identities registered  *)
(* for it.  A frame whose send was started on a live session is counted as *)
(* sent, whether or not the send returns normally.                         *)
(***************************************************************************)
EXTENDS Session, Sequences, FiniteSets

CONSTANTS Requests,
          Workers,
          Nobody,
          MaxHandlers,    \* AsyncDispatcher maximum
          HandlerQueue,   \* AsyncDispatcher queue_size
          MaxConcurrency  \* of a registration

ASSUME RpcWorkersAssumption ==
    /\ IsFiniteSet(Requests) /\ IsFiniteSet(Workers)
    /\ Nobody \notin Workers
    /\ MaxHandlers \in Nat \ {0} /\ HandlerQueue \in Nat
    /\ MaxConcurrency \in Nat \ {0}

VARIABLES inv,        \* the invocation of each request
          waiting,    \* AsyncDispatcher._queued
          stopped,    \* AsyncDispatcher._closed
          worker,     \* _workers[route]: the identity, or Nobody
          handle,     \* where each worker's register and unsubscribe stand
          wire,       \* the request of the task that holds the route's lock
          known,      \* broker: the client serves the route in this session
          rst         \* where _restore() is

workerVars == <<inv, waiting, stopped, worker, handle, wire, known, rst>>
registration == <<worker, handle, wire, known, rst>>

(***************************************************************************)
(* none; dropped - no worker was registered; queued - in the dispatcher;   *)
(* ready - its task was created; waiting - for the semaphore; expiring -   *)
(* sends "deadline elapsed"; running - in the handler; ending - the        *)
(* handler awaits send(end=True); failing - sends the handler's error;     *)
(* acking - sends the acknowledgement; leaving - the task is done, the     *)
(* dispatcher not told yet; over.  A refused request is saturated (the     *)
(* terminate() task was created), refusing (sends its error) and yielding  *)
(* (sends the acknowledgement).                                            *)
(***************************************************************************)
Busy == {"ready", "waiting", "expiring", "running", "ending", "failing", "acking", "leaving"}
Stages == Busy \cup {"none", "dropped", "queued", "over", "saturated", "refusing", "yielding"}

InvocationType == [
    stage    : Stages,
    at       : 0..MaxGeneration,  \* ResponseWriter._generation
    by       : Workers \cup {Nobody},
    active   : BOOLEAN,  \* in _active_invocations
    request  : BOOLEAN,  \* cancellation_requested
    cancelled : BOOLEAN, \* context.cancelled
    late     : BOOLEAN,  \* the inherited deadline has passed
    started  : BOOLEAN,
    finished : BOOLEAN,
    ended    : BOOLEAN,  \* the writer has sent its end
    timedOut : BOOLEAN,  \* the dispatcher's timeout has fired
    doomed   : BOOLEAN,  \* the dispatcher's close() has cancelled the task
    ack      : {"none", "created", "sending", "over"},  \* _schedule_cleanup_ack
    asked    : BOOLEAN,  \* history: the broker has sent its cancellation
    ends     : 0..3,     \* history: terminal responses sent
    acks     : 0..2,     \* history: acknowledgements sent
    broken   : BOOLEAN,  \* history: the send of an end was cut short or raised
    silent   : BOOLEAN]  \* history: its handler returned without an end

WireType == [st : {"idle", "sent", "ok", "error"}, kind : {"sub", "unsub"},
             who : Workers \cup {Nobody}]

WorkersTypeOK ==
    /\ inv \in [Requests -> InvocationType]
    /\ waiting \in Seq(Requests)
    /\ stopped \in BOOLEAN
    /\ worker \in Workers \cup {Nobody}
    /\ handle \in [Workers -> {"idle", "entering", "registered", "leaving", "over"}]
    /\ wire \in WireType
    /\ known \in BOOLEAN
    /\ rst \in {"none", "todo", "asking"}

NoWire == [st |-> "idle", kind |-> "sub", who |-> Nobody]

Undelivered == [
    stage |-> "none", at |-> 0, by |-> Nobody, active |-> FALSE, request |-> FALSE,
    cancelled |-> FALSE, late |-> FALSE, started |-> FALSE, finished |-> FALSE,
    ended |-> FALSE, timedOut |-> FALSE, doomed |-> FALSE, ack |-> "none",
    asked |-> FALSE, ends |-> 0, acks |-> 0, broken |-> FALSE,
    silent |-> FALSE]

WorkersInit ==
    /\ inv = [i \in Requests |-> Undelivered]
    /\ waiting = <<>> /\ stopped = FALSE
    /\ worker = Nobody
    /\ handle = [w \in Workers |-> "idle"]
    /\ wire = NoWire
    /\ known = FALSE /\ rst = "none"

------------------------------------------------------------------------------
(* What the methods do to an invocation. *)

In(stages) == {i \in Requests : inv[i].stage \in stages}
Active == In(Busy)   \* AsyncDispatcher._active

\* The semaphore of w's registration has a free place.
Free(w) == Cardinality({i \in In({"expiring", "running", "ending", "failing"}) :
                            inv[i].by = w}) < MaxConcurrency

\* Mutant: the writer forgets that it has ended.
CanAnswerAgain(v) == Current(v.at)

\* ResponseWriter.send up to its await does not raise.
CanAnswer(v) == ~v.ended /\ Current(v.at)

\* The end of _run_worker: its finally clause, up to the send in it.
\* _acknowledge_invocation forgets the invocation first.
Finally(v) ==
    LET f == [v EXCEPT !.finished = TRUE] IN
    IF ~(v.request \/ v.ended) THEN [f EXCEPT !.stage = "leaving"]
    ELSE IF Online THEN [f EXCEPT !.active = FALSE, !.acks = @ + 1, !.stage = "acking"]
    ELSE [f EXCEPT !.active = FALSE, !.stage = "leaving"]

\* _send_error up to its await, in the given stage; if it raises, finally.
SendError(v, stage) ==
    IF CanAnswer(v) THEN [v EXCEPT !.ends = @ + 1, !.stage = stage] ELSE Finally(v)

\* Mutant: an invocation is not looked at again behind the semaphore.
EnterUnchecked(v) ==
    IF v.late /\ v.active THEN SendError([v EXCEPT !.cancelled = TRUE], "expiring")
    ELSE [v EXCEPT !.started = TRUE, !.stage = "running"]

\* _run_worker behind the semaphore.
Enter(v) ==
    IF ~v.active THEN Finally(v)
    ELSE IF v.late /\ v.request THEN Finally([v EXCEPT !.cancelled = TRUE])
    ELSE IF v.late THEN SendError([v EXCEPT !.cancelled = TRUE], "expiring")
    ELSE IF v.cancelled THEN Finally(v)
    ELSE [v EXCEPT !.started = TRUE, !.stage = "running"]

\* The handler raised, or was cancelled.
HandlerFailed(v) == IF v.ended THEN Finally(v) ELSE SendError(v, "failing")

\* The task of v is cancelled at its await.  A task that has not begun
\* never enters _run_worker.
Interrupted(v) ==
    CASE v.stage \in {"ready", "acking"} -> [v EXCEPT !.stage = "leaving"]
      [] v.stage = "waiting" -> Finally(v)
      [] v.stage \in {"expiring", "failing"} -> Finally([v EXCEPT !.broken = TRUE])
      [] v.stage = "running" -> HandlerFailed(v)
      [] v.stage = "ending" -> HandlerFailed([v EXCEPT !.broken = TRUE])

------------------------------------------------------------------------------
(* Inbound requests.  inv[i] becomes v. *)

Rest == UNCHANGED <<session, registration, stopped>>
Serve(i, v) == inv' = [inv EXCEPT ![i] = v] /\ UNCHANGED waiting /\ Rest

\* A step of the task that serves i, unless that task has been cancelled.
Serving(i, stages) == inv[i].stage \in stages /\ ~inv[i].doomed

\* A request fits behind the running handlers.
QueueHasRoom == Len(waiting) < HandlerQueue

\* _on_request with AsyncDispatcher.dispatch.
Deliver(i) ==
    LET v == [inv[i] EXCEPT !.at = generation, !.by = worker, !.active = TRUE] IN
    /\ inv[i].stage = "none" /\ Online /\ known
    /\ IF worker = Nobody
       THEN Serve(i, [inv[i] EXCEPT !.stage = "dropped", !.at = generation])
       ELSE IF ~stopped /\ Cardinality(Active) < MaxHandlers
       THEN Serve(i, [v EXCEPT !.stage = "ready"])
       ELSE IF ~stopped /\ QueueHasRoom
       THEN /\ inv' = [inv EXCEPT ![i] = [v EXCEPT !.stage = "queued"]]
            /\ waiting' = Append(waiting, i)
            /\ Rest
       ELSE Serve(i, [v EXCEPT !.active = FALSE, !.stage = "saturated"])

\* The first step of _run_worker.
Begin(i) ==
    /\ Serving(i, {"ready"})
    /\ Serve(i, IF ~inv[i].active
                   THEN [inv[i] EXCEPT !.finished = TRUE, !.stage = "leaving"]
                   ELSE IF Free(inv[i].by) THEN Enter(inv[i])
                   ELSE [inv[i] EXCEPT !.stage = "waiting"])

\* The semaphore lets a waiter in.
Admit(i) ==
    /\ Serving(i, {"waiting"}) /\ Free(inv[i].by)
    /\ Serve(i, Enter(inv[i]))

\* The handler calls send(end=True), returns, or raises.
HandlerEnds(i) ==
    /\ Serving(i, {"running"})
    /\ Serve(i, IF CanAnswer(inv[i])
                   THEN [inv[i] EXCEPT !.ends = @ + 1, !.stage = "ending"]
                   ELSE HandlerFailed(inv[i]))

HandlerReturns(i) ==
    /\ Serving(i, {"running"})
    /\ Serve(i, Finally([inv[i] EXCEPT !.silent = ~inv[i].ended]))

HandlerRaises(i) ==
    /\ Serving(i, {"running"})
    /\ Serve(i, HandlerFailed(inv[i]))

\* A send of the task returns or raises.
SendReturns(i) ==
    LET v == [inv[i] EXCEPT !.ended = TRUE] IN
    \/ Serving(i, {"ending"}) /\ Serve(i, [v EXCEPT !.stage = "running"])
    \/ Serving(i, {"expiring", "failing"}) /\ Serve(i, Finally(v))
    \/ Serving(i, {"acking"}) /\ Serve(i, [inv[i] EXCEPT !.stage = "leaving"])

SendRaises(i) ==
    LET v == [inv[i] EXCEPT !.broken = TRUE] IN
    \/ Serving(i, {"ending"}) /\ Serve(i, HandlerFailed(v))
    \/ Serving(i, {"expiring", "failing"}) /\ Serve(i, Finally(v))

\* The dispatcher's timeout, which runs from the task's first step.
HandlerTimeout(i) ==
    /\ Serving(i, Busy \ {"ready", "leaving"}) /\ ~inv[i].timedOut
    /\ Serve(i, Interrupted([inv[i] EXCEPT !.timedOut = TRUE]))

\* A task that close() cancelled takes its next step.
Doomed(i) ==
    /\ inv[i].doomed /\ inv[i].stage \in Busy \ {"leaving"}
    /\ Serve(i, Interrupted([inv[i] EXCEPT !.doomed = FALSE]))

\* Mutant: the slot of a finished handler is not given to the next request.
CompletedAlone(i) ==
    inv[i].stage = "leaving" /\ Serve(i, [inv[i] EXCEPT !.stage = "over"])

\* AsyncDispatcher._completed
Completed(i) ==
    /\ inv[i].stage = "leaving"
    /\ IF stopped \/ waiting = <<>>
       THEN Serve(i, [inv[i] EXCEPT !.stage = "over"])
       ELSE /\ inv' = [inv EXCEPT ![i].stage = "over", ![Head(waiting)].stage = "ready"]
            /\ waiting' = Tail(waiting)
            /\ Rest

\* The terminate() task of a refused request: its error, its acknowledgement.
Refuse(i) ==
    LET v == inv[i]
        Yield(u) == IF Online THEN [u EXCEPT !.acks = @ + 1, !.stage = "yielding"]
                    ELSE [u EXCEPT !.stage = "over"]
    IN  \/ /\ v.stage = "saturated"
           /\ Serve(i, IF CanAnswer(v) THEN [v EXCEPT !.ends = @ + 1, !.stage = "refusing"]
                          ELSE Yield(v))
        \/ /\ v.stage = "refusing"
           /\ \E u \in {[v EXCEPT !.ended = TRUE], [v EXCEPT !.broken = TRUE]} :
                 Serve(i, Yield(u))
        \/ v.stage = "yielding" /\ Serve(i, [v EXCEPT !.stage = "over"])

\* Mutant: a running handler is acknowledged as if it were done.
CancelAcknowledged(i) ==
    /\ inv[i].active /\ ~inv[i].asked /\ Current(inv[i].at)
    /\ Serve(i, [inv[i] EXCEPT !.asked = TRUE, !.request = TRUE, !.cancelled = TRUE,
                               !.ack = "created"])

\* _on_lifecycle, kind 2: the broker cancels a request it delivered.  (It
\* changes nothing when the invocation is no longer listed.)
CancelRequested(i) ==
    LET v == [inv[i] EXCEPT !.asked = TRUE, !.request = TRUE, !.cancelled = TRUE] IN
    /\ inv[i].active /\ ~inv[i].asked /\ Current(inv[i].at)
    /\ Serve(i, IF v.finished \/ ~v.started THEN [v EXCEPT !.ack = "created"] ELSE v)

\* The task of _schedule_cleanup_ack.
CleanupAck(i) ==
    LET v == [inv[i] EXCEPT !.active = FALSE] IN
    \/ /\ inv[i].ack = "created"
       /\ Serve(i, IF Online THEN [v EXCEPT !.acks = @ + 1, !.ack = "sending"]
                      ELSE [v EXCEPT !.ack = "over"])
    \/ inv[i].ack = "sending" /\ Serve(i, [inv[i] EXCEPT !.ack = "over"])

\* The inherited deadline passes; its timer fires while the invocation is
\* listed.  Later than this nothing looks at it.
BudgetEnds(i) ==
    /\ inv[i].stage \in {"queued", "ready", "waiting", "running", "ending"} /\ ~inv[i].late
    /\ Serve(i, [inv[i] EXCEPT !.late = TRUE, !.cancelled = @ \/ inv[i].active])

------------------------------------------------------------------------------
(* Registrations.  The tasks that want the lock try again when it is free. *)

KeepInv == UNCHANGED <<session, inv, waiting, stopped>>

Ask(kind, w) == wire' = [st |-> IF Online THEN "sent" ELSE "error", kind |-> kind, who |-> w]

\* register_worker
Register(w) ==
    /\ handle[w] = "idle" /\ wire.st = "idle" /\ Online
    /\ Ask("sub", w)
    /\ handle' = [handle EXCEPT ![w] = "entering"]
    /\ UNCHANGED <<worker, known, rst>> /\ KeepInv

\* _unregister; a handle that was replaced does nothing.
Unregister(w) ==
    /\ handle[w] = "registered" /\ wire.st = "idle"
    /\ IF worker = w
       THEN Ask("unsub", w) /\ handle' = [handle EXCEPT ![w] = "leaving"]
       ELSE UNCHANGED wire /\ handle' = [handle EXCEPT ![w] = "over"]
    /\ UNCHANGED <<worker, known, rst>> /\ KeepInv

\* The broker handles the request; the client's task runs in a later step.
WireAnswered ==
    /\ wire.st = "sent" /\ Online
    /\ \/ wire' = [wire EXCEPT !.st = "ok"] /\ known' = (wire.kind = "sub")
       \/ wire' = [wire EXCEPT !.st = "error"] /\ UNCHANGED known
    /\ UNCHANGED <<worker, handle, rst>> /\ KeepInv

\* The task that asked goes on: register_worker, _unregister or _restore.
WireReturns ==
    LET w == wire.who
        ok == wire.st = "ok"
        gone == IF wire.kind = "sub" THEN rst = "asking" /\ ~ok ELSE ok
    IN  /\ wire.st \in {"ok", "error"}
        /\ worker' = IF handle[w] = "entering" /\ ok THEN w
                     ELSE IF gone /\ worker = w THEN Nobody
                     ELSE worker
        /\ handle' = [handle EXCEPT ![w] =
                          IF @ = "entering" THEN IF ok THEN "registered" ELSE "over"
                          ELSE IF @ = "leaving" THEN IF ok THEN "over" ELSE "registered"
                          ELSE @]
        /\ rst' = IF rst = "asking" THEN "none" ELSE rst
        /\ wire' = NoWire
        /\ UNCHANGED known /\ KeepInv

\* The task that registers or unsubscribes is cancelled while it awaits the
\* answer; the broker handles the request all the same.
WireCancelled ==
    /\ wire.st \in {"sent", "ok"} /\ rst # "asking"
    /\ handle' = [handle EXCEPT ![wire.who] = "over"]
    /\ known' = IF wire.st = "sent" /\ Online THEN wire.kind = "sub" ELSE known
    /\ wire' = NoWire
    /\ UNCHANGED <<worker, rst>> /\ KeepInv

\* _restore after a reconnect.
Restore ==
    /\ rst = "todo" /\ wire.st = "idle"
    /\ IF worker = Nobody
       THEN rst' = "none" /\ UNCHANGED wire
       ELSE rst' = "asking" /\ Ask("sub", worker)
    /\ UNCHANGED <<worker, handle, known>> /\ KeepInv

------------------------------------------------------------------------------
(* What the session's steps do to this side. *)

\* The broker forgets the session; the request on its way fails.
WorkersLost ==
    /\ known' = FALSE
    /\ wire' = IF wire.st = "sent" THEN [wire EXCEPT !.st = "error"] ELSE wire
    /\ UNCHANGED <<inv, waiting, stopped, worker, handle, rst>>

\* _disconnect, the part about invocations; close() then closes the dispatcher.
WorkersDisconnected ==
    LET closing == mode = "closing"
        Drop(v) == [v EXCEPT !.active = FALSE, !.cancelled = @ \/ v.active,
                             !.doomed = closing /\ v.stage \in Busy \ {"leaving"}]
    IN  /\ inv' = [i \in Requests |-> Drop(inv[i])]
        /\ stopped' = closing
        /\ waiting' = IF closing THEN <<>> ELSE waiting
        /\ UNCHANGED registration

WorkersReconnected ==
    /\ rst' = "todo"
    /\ UNCHANGED <<inv, waiting, stopped, worker, handle, wire, known>>

RequestSteps(i) ==
    \/ Deliver(i) \/ Begin(i) \/ Admit(i)
    \/ HandlerEnds(i) \/ HandlerReturns(i) \/ SendReturns(i)
    \/ HandlerTimeout(i) \/ Doomed(i) \/ Completed(i)
    \/ Refuse(i) \/ CleanupAck(i)

\* Time, the broker's cancellations, and errors.
RequestFaults(i) ==
    HandlerRaises(i) \/ SendRaises(i) \/ CancelRequested(i) \/ BudgetEnds(i)

RegistrationSteps ==
    \/ \E w \in Workers : Register(w) \/ Unregister(w)
    \/ WireAnswered \/ WireReturns \/ Restore

------------------------------------------------------------------------------
(* Properties. *)

\* An acknowledgement tells the broker that the work of a request is over: none
\* is sent before the handler has returned, and no handler starts after one,
\* however the cancellation, the deadline and the queues interleave
\* (rpc.py:527-535, 656-692).
AckAfterCleanup ==
    \A i \in Requests : inv[i].acks > 0 => inv[i].stage \notin {"running", "ending", "failing"}

\* A request gets at most one terminal response from its handler, from the
\* error path, from the expired deadline and from the saturated dispatcher
\* together, unless the send of the first was cut short or raised, after which
\* nobody knows whether it went out (rpc.py:86-99, 663-685).
AnsweredOnce == \A i \in Requests : inv[i].ends > 1 => inv[i].broken

\* At most maximum handlers run and queue_size wait, through timeouts,
\* cancellations and close(), and nobody waits while a handler could run
\* (_runtime.py:204-240).
DispatcherExact ==
    /\ Cardinality(Active) <= MaxHandlers
    /\ Len(waiting) <= HandlerQueue
    /\ waiting # <<>> => Cardinality(Active) = MaxHandlers

\* What releases the client from its duty to a request it was handed.  A
\* request is dropped silently when its worker's registration is not in place,
\* and when the dispatcher's timeout meets it in front of the semaphore.
Settled(i) ==
    \/ inv[i].ends > 0 \/ inv[i].acks > 0 \/ inv[i].silent
    \/ ~Current(inv[i].at)
    \/ inv[i].stage = "dropped"
    \/ inv[i].timedOut /\ ~inv[i].started

\* Every request is eventually answered or acknowledged (rpc.py:617-692, 743-748).
RequestsSettle == \A i \in Requests : inv[i].stage # "none" ~> Settled(i)
==============================================================================
