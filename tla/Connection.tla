------------------------------ MODULE Connection ------------------------------
(***************************************************************************)
(* The lifecycle of one client (connection.Connection): attempts to open   *)
(* and authenticate a transport, the loss of a connection, the reconnect   *)
(* loop, the heartbeat and close().                                        *)
(*                                                                         *)
(* Every coroutine is a sequence of steps from one await to the next; the  *)
(* steps of different tasks interleave.  All of them share _state,         *)
(* _transport, _receive_task and _auth_error.  Network and broker are      *)
(* external: a transport may fail at any time, HELLO answers a CONNECT.    *)
(***************************************************************************)
EXTENDS Integers, FiniteSets

CONSTANTS MaxAttempts,  \* bound of the model: how many transports are opened
          MaxTries,     \* reconnect.max_attempts
          Reconnects,   \* reconnect.enabled
          Heartbeats,   \* heartbeat.enabled
          ConnectAgain, \* when the application calls connect() after the first time:
                        \* "never", "afterCleanup" (not while a loss is being
                        \* cleaned up) or "anytime"
          Failures      \* how CONNECT may fail: "error", "rejected", "version"

ASSUME ConnectionAssumption ==
    /\ MaxAttempts \in Nat /\ MaxTries \in Nat
    /\ Reconnects \in BOOLEAN /\ Heartbeats \in BOOLEAN
    /\ ConnectAgain \in {"never", "afterCleanup", "anytime"}
    /\ Failures \subseteq {"error", "rejected", "version"}

Attempts == 1..MaxAttempts

VARIABLES
    state,         \* self._state
    closed,        \* self._closed
    transport,     \* self._transport: the attempt that opened it, 0 is None
    receiver,      \* self._receive_task: the attempt it reads for, 0 is None
    authOf,        \* self._auth_error: the attempt that created it, 0 is None
    gen,           \* self._generation
    everAuth,      \* self._ever_authenticated
    negotiated,    \* the multiplexer's protocol version is not 0
    closeNotified, \* self._close_notified
    opened,        \* how many attempts were begun
    att,           \* where each run of _open_and_authenticate is
    why,           \* the exception that ended it
    auth,          \* the future each attempt created
    waitsOn,       \* the future it awaits: the value of _auth_error at that time
    asked,         \* transports that carry an unanswered CONNECT
    rcv,           \* the receive task of each attempt
    genOf,         \* history: the generation an attempt began
    connectTask,   \* the attempt of self._connect_task, 0 if there was none
    rtask,         \* self._reconnect_task
    tries,         \* attempts of the current reconnect loop
    hb,            \* self._heartbeat_task
    lossTask,      \* self._loss_task
    closer,        \* self._close_task
    inflight,      \* transports with a request that has not ended
    consumer       \* a task iterating over a subscription

connVars == <<state, closed, transport, negotiated>>
authVars == <<receiver, authOf, auth, waitsOn, asked>>
attemptVars == <<opened, att, why, connectTask>>
loopVars == <<rtask, tries, closeNotified, consumer>>
genVars == <<gen, genOf, everAuth>>
taskVars == <<hb, lossTask, closer, inflight>>
vars == <<connVars, authVars, attemptVars, loopVars, genVars, taskVars, rcv>>

(***************************************************************************)
(* created - the connect task has not run      dialing   - transport.connect *)
(* sending - token provider and write lock     hello     - awaits a future   *)
(* restoring - the reconnect listeners run     swapping  - gathers the old   *)
(*             heartbeat task                  unwinding - closes the        *)
(*             transport after an exception    draining  - closes the        *)
(*             dispatcher after a rejection                                  *)
(***************************************************************************)
InProgress == {"created", "dialing", "sending", "hello", "restoring", "swapping",
               "unwinding", "draining"}
Settled == {"DISCONNECTED", "RECONNECTING", "CLOSED"}

TypeOK ==
    /\ state \in Settled \cup {"CONNECTING", "AUTHENTICATING", "AUTHENTICATED"}
    /\ closed \in BOOLEAN /\ everAuth \in BOOLEAN
    /\ negotiated \in BOOLEAN /\ closeNotified \in BOOLEAN
    /\ transport \in 0..MaxAttempts /\ receiver \in 0..MaxAttempts
    /\ authOf \in 0..MaxAttempts /\ connectTask \in 0..MaxAttempts
    /\ opened \in 0..MaxAttempts /\ gen \in Nat
    /\ att \in [Attempts -> InProgress \cup {"unused", "done", "failed"}]
    /\ why \in [Attempts -> {"none", "error", "rejected", "version"}]
    /\ auth \in [Attempts -> {"none", "pending", "hello", "error", "rejected", "version"}]
    /\ waitsOn \in [Attempts -> 0..MaxAttempts]
    /\ asked \subseteq Attempts /\ inflight \subseteq Attempts
    /\ rcv \in [Attempts -> {"none", "running", "losing", "done"}]
    /\ genOf \in [Attempts -> Nat]
    /\ rtask \in {"none", "created", "backoff", "opening", "done"}
    /\ tries \in 0..MaxTries
    /\ hb \in {"none", "beating", "losing", "done"}
    /\ lossTask \in {"none", "created", "losing", "done"}
    /\ closer \in {"none", "notifying", "done", "skipped"}
    /\ consumer \in {"none", "waiting", "ended"}

Init ==
    /\ state = "DISCONNECTED"
    /\ closed = FALSE /\ everAuth = FALSE /\ negotiated = FALSE /\ closeNotified = FALSE
    /\ transport = 0 /\ receiver = 0 /\ authOf = 0 /\ opened = 0 /\ connectTask = 0
    /\ gen = 0
    /\ att = [a \in Attempts |-> "unused"]
    /\ why = [a \in Attempts |-> "none"]
    /\ auth = [a \in Attempts |-> "none"]
    /\ waitsOn = [a \in Attempts |-> 0]
    /\ asked = {} /\ inflight = {}
    /\ rcv = [a \in Attempts |-> "none"]
    /\ genOf = [a \in Attempts |-> 0]
    /\ rtask = "none" /\ tries = 0
    /\ hb = "none" /\ lossTask = "none" /\ closer = "none" /\ consumer = "none"

\* Mutant: a closed connection may still change its state.
SetStateAlways(s) == state' = s

\* _set_state: CLOSED is final.
SetState(s) == state' = IF closed THEN state ELSE s

------------------------------------------------------------------------------
(* connect() and the begin of an attempt. *)

\* Mutant: connect() does not look for a running reconnect loop.
NobodyConnectingByHand == \A a \in Attempts : a = connectTask => att[a] \notin InProgress

\* Neither the reconnect task nor the connect task is running.
NobodyConnecting ==
    /\ rtask \in {"none", "done"}
    /\ \A a \in Attempts : a = connectTask => att[a] \notin InProgress

\* The calls of connect() after the first one that a configuration allows.
Repeatable ==
    \/ ConnectAgain = "anytime"
    \/ /\ ConnectAgain = "afterCleanup"
       /\ "losing" \notin {hb, lossTask} \cup {rcv[a] : a \in Attempts}

(* connect() creates the connect task; it joins a running one otherwise.     *)
CallConnect ==
    /\ connectTask # 0 => Repeatable
    /\ ~closed /\ state # "AUTHENTICATED"
    /\ NobodyConnecting
    /\ opened < MaxAttempts
    /\ opened' = opened + 1
    /\ connectTask' = opened + 1
    /\ att' = [att EXCEPT ![opened + 1] = "created"]
    /\ UNCHANGED <<connVars, authVars, why, loopVars, genVars, taskVars, rcv>>

ConnectStarts(a) ==
    /\ att[a] = "created"
    /\ IF closed
       THEN /\ att' = [att EXCEPT ![a] = "failed"]
            /\ UNCHANGED <<transport, state>>
       ELSE /\ att' = [att EXCEPT ![a] = "dialing"]
            /\ transport' = a
            /\ SetState("CONNECTING")
    /\ UNCHANGED <<closed, negotiated, authVars, opened, why, connectTask, loopVars,
                   genVars, taskVars, rcv>>

------------------------------------------------------------------------------
(* _open_and_authenticate after transport.connect(). *)

Dialed(a) ==
    /\ att[a] = "dialing"
    /\ att' = [att EXCEPT ![a] = "sending"]
    /\ SetState("AUTHENTICATING")
    /\ authOf' = a
    /\ auth' = [auth EXCEPT ![a] = "pending"]
    /\ receiver' = a
    /\ rcv' = [rcv EXCEPT ![a] = "running"]
    /\ UNCHANGED <<closed, transport, negotiated, waitsOn, asked, opened, why,
                   connectTask, loopVars, genVars, taskVars>>

\* The synchronous part of the exception handler.
Unwind(a, kind) ==
    /\ att' = [att EXCEPT ![a] = "unwinding"]
    /\ why' = [why EXCEPT ![a] = kind]
    /\ negotiated' = FALSE
    /\ transport' = IF transport = a THEN 0 ELSE transport

(* _send_connect writes to self._transport, whoever opened it, and the       *)
(* attempt then awaits self._auth_error, whoever created it.                 *)
SendConnect(a) ==
    /\ att[a] = "sending"
    /\ asked' = asked \cup ({transport} \ {0})
    /\ \/ /\ transport # 0 /\ authOf # 0
          /\ waitsOn' = [waitsOn EXCEPT ![a] = authOf]
          /\ att' = [att EXCEPT ![a] = "hello"]
          /\ UNCHANGED <<transport, negotiated, why>>
       \/ /\ transport = 0 \/ authOf = 0
          /\ Unwind(a, "error")
          /\ UNCHANGED waitsOn
    /\ UNCHANGED <<state, closed, receiver, authOf, auth, opened, connectTask, loopVars,
                   genVars, taskVars, rcv>>

(* The transport refuses, the token provider raises, or the timeout of the   *)
(* attempt fires.                                                            *)
AttemptFails(a) ==
    /\ att[a] \in {"dialing", "sending", "hello"}
    /\ Unwind(a, "error")
    /\ UNCHANGED <<state, closed, authVars, opened, connectTask, loopVars, genVars,
                   taskVars, rcv>>

\* Mutant: only the state is looked at before the connection is declared ready.
OwnsTransportByState(a) == ~closed /\ state # "DISCONNECTED"

\* _assert_transport_owner.
OwnsTransport(a) ==
    /\ ~closed
    /\ transport = a /\ receiver = a
    /\ rcv[a] # "done"
    /\ state # "DISCONNECTED"

\* The reconnect task ends with its attempt.
LoopEnds(a) == rtask' = IF a = connectTask THEN rtask ELSE "done"

(* AUTHENTICATED, and _start_heartbeat: the first heartbeat starts at once,  *)
(* a later one after the previous task was cancelled and gathered.           *)
Authenticated(a) ==
    /\ everAuth' = TRUE
    /\ SetState("AUTHENTICATED")
    /\ IF Heartbeats /\ hb # "none"
       THEN /\ hb' = "done"
            /\ att' = [att EXCEPT ![a] = "swapping"]
            /\ UNCHANGED rtask
       ELSE /\ hb' = IF Heartbeats THEN "beating" ELSE hb
            /\ att' = [att EXCEPT ![a] = "done"]
            /\ LoopEnds(a)

HeartbeatSwapped(a) ==
    /\ att[a] = "swapping"
    /\ att' = [att EXCEPT ![a] = "done"]
    /\ hb' = "beating"
    /\ LoopEnds(a)
    /\ UNCHANGED <<connVars, authVars, opened, why, connectTask, tries, closeNotified,
                   consumer, genVars, lossTask, closer, inflight, rcv>>

\* Mutant: a new connection keeps the generation of the old one.
NewGenerationKept(a) == gen' = gen /\ genOf' = [genOf EXCEPT ![a] = gen + 1]

\* The generation that invalidates every handle of the previous connection.
NewGeneration(a) == gen' = gen + 1 /\ genOf' = [genOf EXCEPT ![a] = gen + 1]

(* The awaited future is done: _auth_error is looked at again, dropped, and  *)
(* the ownership checked.                                                    *)
AuthSettled(a) ==
    /\ att[a] = "hello" /\ auth[waitsOn[a]] # "pending"
    /\ \/ /\ auth[waitsOn[a]] # "hello"
          /\ Unwind(a, auth[waitsOn[a]])
          /\ UNCHANGED <<authOf, state, genVars, hb, rtask>>
       \/ /\ auth[waitsOn[a]] = "hello" /\ authOf = 0
          /\ Unwind(a, "error")
          /\ UNCHANGED <<authOf, state, genVars, hb, rtask>>
       \/ /\ auth[waitsOn[a]] = "hello" /\ authOf # 0
          /\ auth[authOf] \notin {"hello", "pending"}
          /\ Unwind(a, auth[authOf])
          /\ UNCHANGED <<authOf, state, genVars, hb, rtask>>
       \/ /\ auth[waitsOn[a]] = "hello" /\ authOf # 0 /\ auth[authOf] \in {"hello", "pending"}
          /\ authOf' = 0
          /\ \/ /\ ~OwnsTransport(a)
                /\ Unwind(a, "error")
                /\ UNCHANGED <<state, genVars, hb, rtask>>
             \/ /\ OwnsTransport(a)
                /\ NewGeneration(a)
                /\ IF a = connectTask
                   THEN Authenticated(a)
                   ELSE /\ att' = [att EXCEPT ![a] = "restoring"]
                        /\ UNCHANGED <<state, everAuth, hb, rtask>>
                /\ UNCHANGED <<transport, negotiated, why>>
    /\ UNCHANGED <<closed, receiver, auth, waitsOn, asked, opened, connectTask, tries,
                   closeNotified, consumer, lossTask, closer, inflight, rcv>>

(* _restore_registrations is over, whatever its listeners met.               *)
Restored(a) ==
    /\ att[a] = "restoring"
    /\ \/ /\ OwnsTransport(a)
          /\ Authenticated(a)
          /\ UNCHANGED <<transport, negotiated, why>>
       \/ /\ ~OwnsTransport(a)
          /\ Unwind(a, "error")
          /\ UNCHANGED <<state, everAuth, hb, rtask>>
    /\ UNCHANGED <<closed, authVars, opened, connectTask, tries, closeNotified, consumer,
                   gen, genOf, lossTask, closer, inflight, rcv>>

------------------------------------------------------------------------------
(* The end of a failed attempt and the reconnect loop. *)

\* Mutant: the close listeners are not told.
NotifyNobody == closeNotified' = TRUE /\ UNCHANGED consumer

\* _notify_close: the close listeners end every subscription, once in a lifetime.
NotifyClose ==
    IF closeNotified
    THEN UNCHANGED <<closeNotified, consumer>>
    ELSE /\ closeNotified' = TRUE
         /\ consumer' = IF consumer = "waiting" THEN "ended" ELSE consumer

\* policy.max_attempts allows another attempt.
TriesLeft == tries < MaxTries

(* The head of the loop: once more, give up, or stop after close().          *)
LoopAgain ==
    \/ /\ closed
       /\ rtask' = "done"
       /\ UNCHANGED <<state, tries, closeNotified, consumer>>
    \/ /\ ~closed /\ TriesLeft
       /\ rtask' = "backoff"
       /\ tries' = tries + 1
       /\ SetState("RECONNECTING")
       /\ UNCHANGED <<closeNotified, consumer>>
    \/ /\ ~closed /\ ~TriesLeft
       /\ rtask' = "done"
       /\ SetState("DISCONNECTED")
       /\ NotifyClose
       /\ UNCHANGED tries

ReconnectStarts ==
    /\ rtask = "created"
    /\ LoopAgain
    /\ UNCHANGED <<closed, transport, negotiated, authVars, attemptVars, genVars, taskVars,
                   rcv>>

BackoffEnds ==
    /\ rtask = "backoff"
    /\ \/ /\ closed
          /\ LoopAgain
          /\ UNCHANGED <<opened, att, transport>>
       \/ /\ ~closed /\ opened < MaxAttempts
          /\ opened' = opened + 1
          /\ att' = [att EXCEPT ![opened + 1] = "dialing"]
          /\ transport' = opened + 1
          /\ SetState("RECONNECTING")
          /\ rtask' = "opening"
          /\ UNCHANGED <<tries, closeNotified, consumer>>
    /\ UNCHANGED <<closed, negotiated, authVars, why, connectTask, genVars, taskVars, rcv>>

\* Mutant: a failed attempt ends the loop.
AfterFailureStopping(a) ==
    /\ SetState("DISCONNECTED")
    /\ LoopEnds(a)
    /\ UNCHANGED <<tries, closeNotified, consumer>>

\* What follows an attempt that failed for any reason but a rejection: a version
\* mismatch ends the loop, another failure is tried again.
AfterFailure(a) ==
    \/ /\ a = connectTask
       /\ SetState("DISCONNECTED")
       /\ UNCHANGED loopVars
    \/ /\ a # connectTask /\ why[a] = "version"
       /\ SetState("DISCONNECTED")
       /\ NotifyClose
       /\ rtask' = "done"
       /\ UNCHANGED tries
    \/ /\ a # connectTask /\ why[a] # "version"
       /\ LoopAgain

Unwound(a) ==
    /\ att[a] = "unwinding"
    /\ rcv' = [rcv EXCEPT ![a] = IF @ = "none" THEN @ ELSE "done"]
    /\ \/ /\ why[a] = "rejected"
          /\ closed' = TRUE
          /\ att' = [att EXCEPT ![a] = "draining"]
          /\ UNCHANGED <<state, loopVars>>
       \/ /\ why[a] # "rejected"
          /\ att' = [att EXCEPT ![a] = "failed"]
          /\ AfterFailure(a)
          /\ UNCHANGED closed
    /\ UNCHANGED <<transport, negotiated, authVars, opened, why, connectTask, genVars,
                   taskVars>>

Drained(a) ==
    /\ att[a] = "draining"
    /\ att' = [att EXCEPT ![a] = "failed"]
    /\ state' = "CLOSED"
    /\ LoopEnds(a)
    /\ UNCHANGED <<closed, transport, negotiated, authVars, opened, why, connectTask, tries,
                   closeNotified, consumer, genVars, taskVars, rcv>>

------------------------------------------------------------------------------
(* The loss of the connection. *)

\* _connection_lost up to its first await, unless the state says it is known.
Lost ==
    /\ state \notin Settled
    /\ negotiated' = FALSE
    /\ SetState("DISCONNECTED")
    /\ transport' = 0

\* The receive tasks after one of them, or none, has met the loss: the current one
\* is cancelled, and with it the clean-up it may itself be in.
ReceiversAfter(self) ==
    [b \in Attempts |-> IF b = self THEN "losing"
                        ELSE IF b = receiver THEN "done" ELSE rcv[b]]

\* Mutant: whether the client was closed meanwhile is not asked.
StartReconnectAfterClose ==
    IF everAuth /\ Reconnects /\ rtask \in {"none", "done"}
    THEN rtask' = "created" /\ tries' = 0
    ELSE UNCHANGED <<rtask, tries>>

\* _connection_lost after its last await.
StartReconnect ==
    IF everAuth /\ Reconnects /\ ~closed /\ rtask \in {"none", "done"}
    THEN rtask' = "created" /\ tries' = 0
    ELSE UNCHANGED <<rtask, tries>>

(* HELLO is read from the transport in use.  CONNECT waited for the write    *)
(* lock behind every earlier send, so the calls of lost connections have     *)
(* ended by now, and what they scheduled has run.                            *)
ReceiveHello(b) ==
    /\ rcv[b] = "running" /\ transport = b /\ ~closed
    /\ b \in asked /\ ~negotiated
    /\ inflight \subseteq {b} /\ lossTask # "created"
    /\ asked' = asked \ {b}
    /\ negotiated' = TRUE
    /\ auth' = IF authOf # 0 /\ auth[authOf] = "pending"
               THEN [auth EXCEPT ![authOf] = "hello"] ELSE auth
    /\ UNCHANGED <<state, closed, transport, receiver, authOf, waitsOn, attemptVars,
                   loopVars, genVars, taskVars, rcv>>

(* The receive loop raises.  While an attempt authenticates, that attempt is *)
(* told, whichever transport the loop reads from.                            *)
ReceiveRaises(b, kind) ==
    /\ rcv[b] = "running"
    /\ kind = "error" \/ (b \in asked /\ transport = b /\ ~closed)
    /\ LET telling == state = "AUTHENTICATING" /\ authOf # 0
           mine == ~telling /\ ~closed /\ transport = b /\ state \notin Settled IN
       \/ /\ telling
          /\ auth' = [auth EXCEPT ![authOf] = IF @ = "pending" THEN kind ELSE @]
          /\ rcv' = [rcv EXCEPT ![b] = "done"]
          /\ UNCHANGED connVars
       \/ /\ mine
          /\ Lost
          /\ rcv' = ReceiversAfter(b)
          /\ UNCHANGED <<closed, auth>>
       \/ /\ ~telling /\ ~mine
          /\ rcv' = [rcv EXCEPT ![b] = "done"]
          /\ UNCHANGED <<connVars, auth>>
    /\ UNCHANGED <<receiver, authOf, waitsOn, asked, attemptVars, loopVars, genVars,
                   taskVars>>

ReceiverRetires(b) ==
    /\ rcv[b] = "running" /\ (closed \/ transport # b)
    /\ rcv' = [rcv EXCEPT ![b] = "done"]
    /\ UNCHANGED <<connVars, authVars, attemptVars, loopVars, genVars, taskVars>>

ReceiverLossEnds(b) ==
    /\ rcv[b] = "losing"
    /\ rcv' = [rcv EXCEPT ![b] = "done"]
    /\ StartReconnect
    /\ UNCHANGED <<connVars, authVars, attemptVars, closeNotified, consumer, genVars,
                   taskVars>>

(* A request of the connection in use, by the application or by a listener   *)
(* that restores a registration.                                             *)
RequestBegins ==
    /\ ~closed /\ transport # 0
    /\ state = "AUTHENTICATED" \/ \E a \in Attempts : att[a] = "restoring"
    /\ inflight' = inflight \cup {transport}
    /\ UNCHANGED <<connVars, authVars, attemptVars, loopVars, genVars, hb, lossTask, closer,
                   rcv>>

(* It ends; with a connection error or a timeout it schedules the loss task. *)
RequestEnds(a) ==
    /\ a \in inflight
    /\ inflight' = inflight \ {a}
    /\ lossTask' \in {lossTask, IF lossTask \in {"none", "done"} THEN "created" ELSE lossTask}
    /\ UNCHANGED <<connVars, authVars, attemptVars, loopVars, genVars, hb, closer, rcv>>

LossTaskRuns ==
    /\ lossTask = "created"
    /\ \/ /\ state \in Settled
          /\ lossTask' = "done"
          /\ UNCHANGED <<connVars, rcv>>
       \/ /\ Lost
          /\ lossTask' = "losing"
          /\ rcv' = ReceiversAfter(0)
          /\ UNCHANGED closed
    /\ UNCHANGED <<authVars, attemptVars, loopVars, genVars, hb, closer, inflight>>

LossTaskEnds ==
    /\ lossTask = "losing"
    /\ lossTask' = "done"
    /\ StartReconnect
    /\ UNCHANGED <<connVars, authVars, attemptVars, closeNotified, consumer, genVars, hb,
                   closer, inflight, rcv>>

HeartbeatFails ==
    /\ hb = "beating"
    /\ \/ /\ state \in Settled
          /\ hb' = "done"
          /\ UNCHANGED <<connVars, rcv>>
       \/ /\ Lost
          /\ hb' = "losing"
          /\ rcv' = ReceiversAfter(0)
          /\ UNCHANGED closed
    /\ UNCHANGED <<authVars, attemptVars, loopVars, genVars, lossTask, closer, inflight>>

HeartbeatStops ==
    /\ hb = "beating" /\ (closed \/ state # "AUTHENTICATED" \/ transport = 0)
    /\ hb' = "done"
    /\ UNCHANGED <<connVars, authVars, attemptVars, loopVars, genVars, lossTask, closer,
                   inflight, rcv>>

HeartbeatLossEnds ==
    /\ hb = "losing"
    /\ hb' = "done"
    /\ StartReconnect
    /\ UNCHANGED <<connVars, authVars, attemptVars, closeNotified, consumer, genVars,
                   lossTask, closer, inflight, rcv>>

------------------------------------------------------------------------------
(* The application. *)

Subscribe ==
    /\ ~closed /\ state = "AUTHENTICATED" /\ consumer # "waiting"
    /\ consumer' = "waiting"
    /\ UNCHANGED <<connVars, authVars, attemptVars, rtask, tries, closeNotified, genVars,
                   taskVars, rcv>>

(* close(): a client that is closed already has nothing to do.               *)
CallClose ==
    /\ closer = "none"
    /\ IF closed
       THEN closer' = "skipped" /\ UNCHANGED <<closed, state, negotiated>>
       ELSE /\ closed' = TRUE
            /\ state' = "CLOSED"
            /\ negotiated' = FALSE
            /\ closer' = "notifying"
    /\ UNCHANGED <<transport, authVars, attemptVars, loopVars, genVars, hb, lossTask,
                   inflight, rcv>>

Cancelled(s) == IF s = "none" THEN s ELSE "done"

(* The disconnect listeners were told: now the close listeners, and every    *)
(* task the connection owns is cancelled.  A cancelled attempt unwinds and   *)
(* cancels its own receive task, unless it was unwinding already and the     *)
(* cancellation ends it while it closes its transport.                       *)
CloseEnds ==
    /\ closer = "notifying"
    /\ closer' = "done"
    /\ NotifyClose
    /\ transport' = 0
    /\ rtask' = Cancelled(rtask)
    /\ hb' = Cancelled(hb)
    /\ lossTask' = Cancelled(lossTask)
    /\ \E spared \in SUBSET {a \in Attempts : att[a] = "unwinding"} :
           rcv' = [b \in Attempts |->
                      IF b = receiver \/ (att[b] \in InProgress /\ b \notin spared)
                      THEN Cancelled(rcv[b]) ELSE rcv[b]]
    /\ att' = [a \in Attempts |-> IF att[a] \in InProgress THEN "failed" ELSE att[a]]
    /\ UNCHANGED <<state, closed, negotiated, authVars, opened, why, connectTask, tries,
                   genVars, inflight>>

------------------------------------------------------------------------------

AttemptStep(a) ==
    \/ ConnectStarts(a) \/ Dialed(a) \/ SendConnect(a) \/ AttemptFails(a)
    \/ AuthSettled(a) \/ Restored(a) \/ HeartbeatSwapped(a)
    \/ Unwound(a) \/ Drained(a)

ReceiverStep(a) ==
    \/ ReceiveHello(a)
    \/ \E kind \in Failures : ReceiveRaises(a, kind)
    \/ ReceiverRetires(a)

LoopStep == ReconnectStarts \/ BackoffEnds

Next ==
    \/ CallConnect \/ CallClose \/ CloseEnds \/ Subscribe
    \/ \E a \in Attempts : \/ AttemptStep(a)
                           \/ ReceiverStep(a)
                           \/ ReceiverLossEnds(a)
                           \/ RequestEnds(a)
    \/ LoopStep
    \/ RequestBegins
    \/ LossTaskRuns \/ LossTaskEnds
    \/ HeartbeatFails \/ HeartbeatStops \/ HeartbeatLossEnds

Spec == Init /\ [][Next]_vars

\* The event loop runs every task that can go on; an attempt is bounded by its
\* timeout, the listeners and the back-off end.  Nothing obliges the network, the
\* broker or the application.
FairSpec ==
    /\ Spec
    /\ WF_vars(LoopStep) /\ WF_vars(LossTaskRuns) /\ WF_vars(LossTaskEnds)
    /\ WF_vars(HeartbeatLossEnds) /\ WF_vars(CloseEnds)
    /\ \A a \in Attempts : WF_vars(AttemptStep(a)) /\ WF_vars(ReceiverLossEnds(a))

------------------------------------------------------------------------------
(* Properties. *)

\* Requests are admitted by the state AUTHENTICATED only while the transport in use is
\* the one that answered, its receive loop still runs, and the generation is the one it
\* began: no loss, close() or older attempt can resurrect a session
\* (connection.py:357-371, 547-569, 675-682, 752-764).
AuthenticatedOwnsSession ==
    state = "AUTHENTICATED" /\ ~closed =>
        /\ transport # 0 /\ receiver = transport
        /\ rcv[transport] = "running"
        /\ genOf[transport] = gen

\* A handle of one session is never mistaken for one of a later session: two
\* transports never serve the same generation (connection.py:359).
GenerationNamesSession ==
    \A a, b \in Attempts : genOf[a] # 0 /\ genOf[a] = genOf[b] => a = b

\* After close() or a rejection no attempt, loss or reconnect loop, in whatever await
\* it was, brings the connection back (connection.py:165-195, 684-695).
ClosedIsFinal ==
    [][closed => closed' /\ state' \in {state, "CLOSED"}]_vars

\* When close() has returned no attempt, reconnect loop, heartbeat, clean-up or receive
\* task that the connection still refers to runs on, and nothing that was under way
\* starts one again: what may be left is a loss task that will find the client closed
\* (connection.py:176-198, 566-569).  The exception is the code's own: a receive task
\* whose reference a later attempt has overwritten (connection.py:353) is not cancelled,
\* and the clean-up it may be in closes its transport and calls the disconnect
\* listeners after close().
CloseStopsEverything ==
    closer = "done" =>
        /\ rtask \in {"none", "done"} /\ hb \in {"none", "done"}
        /\ lossTask \in {"none", "created", "done"}
        /\ \A a \in Attempts : att[a] \notin InProgress
        /\ \A a \in Attempts : rcv[a] \in {"running", "losing"} => a # receiver

\* Only one attempt to open a connection runs at a time.  AUDIT_REMEDIATION.md:32
\* promises it ("manual connect coalesces with automatic reconnect"); a connect()
\* during the clean-up after a loss breaks it (connection.py:149-155, 556-569).
AttemptsCoalesce == Cardinality({a \in Attempts : att[a] \in InProgress}) <= 1

\* The reconnect loop wants to connect and the model has no attempt left.
OutOfAttempts == rtask = "backoff" /\ opened = MaxAttempts

\* A client that lost its session has a session again or tells its close listeners, unless
\* it is closed: no loss leaves it DISCONNECTED, RECONNECTING or in an attempt for good.
\* README.md:51: "Reconnect is enabled by default after the first successful
\* authentication."  OutOfAttempts is where the model ends, not the code.  A loss while
\* the old heartbeat is being gathered is met by a reconnect task that is not done and
\* never looks again (connection.py:371-372, 568-569, 649-651).
LossIsRepaired ==
    everAuth /\ state = "DISCONNECTED"
        ~> state = "AUTHENTICATED" \/ closed \/ closeNotified \/ OutOfAttempts

\* No consumer is left waiting by a closed client.  domains/lease.py:486:
\* "SubscriptionRegistry.terminate() finishes consumers cleanly when the client is
\* permanently closed."  Neither the rejection of a reconnect nor the close() that
\* follows it calls the listeners (connection.py:169-170, 382-386, 588-591).
ConsumersReleased == closer \in {"done", "skipped"} => consumer # "waiting"
==============================================================================
