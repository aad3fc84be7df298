# Formal models of the fitz-py client

This directory holds TLA+ models of the client library in `src/fitz_py`, the TLC
configurations that check them on small instances, and proofs of their most
important invariants that TLAPS checks for all values of the constants.
Line numbers refer to `src/fitz_py`; `PROJECT.json` maps every definition to the
lines it stands for and lists the runs, the mutants, the hazards, the findings
and the theorems.

## 1. The system

fitz-py is an asyncio client of the Fitz broker. One `Client` owns one
`Connection`; seven domain clients (notice, rpc, lease, kv, queue, stream,
schedule) send requests through it and register listeners with it.

| component | state it keeps | operations | talks to |
|---|---|---|---|
| request gate (`_runtime.RequestGate`) | count of slots, deque of waiters, closed | `acquire`, the release token, `close` | every request of a connection holds a slot; a new gate is made per attempt and at HELLO |
| multiplexer (`multiplexer.Multiplexer`) | next correlation id, pending calls by id, connected/negotiated | `request`, `dispatch_correlated`, `set_connected`, `set_disconnected` | the connection's send and receive loop; the domains' requests |
| connection (`connection.Connection`) | state, transport, receive/connect/reconnect/loss/heartbeat/close tasks, authentication future, generation, listeners | `connect`, `close`, `request`, `send`, receive loop, heartbeat, reconnect loop | transports below; gate, multiplexer and dispatcher inside; domains through reconnect, disconnect and close listeners |
| dispatcher (`_runtime.AsyncDispatcher`) | running handlers, queued handlers, closed | `dispatch`, `close` | lease and RPC callbacks |
| subscriptions (`_runtime.AsyncSubscription`, `domains/_subscriptions`, `domains/notice`) | registrations, wire ids, consumers, early notifications; per consumer a bounded queue | `subscribe`, `publish`, `restore`, `terminate`, `aclose` | requests; reconnect and close listeners; the receive loop |
| lazy resources (`_runtime.LazyAsync*`) | resource, start lock, closed | `_start`, `aclose` | every domain API that returns a handle |
| lease (`domains/lease`) | acquisition queue and lock, held leases with deadlines, inventory snapshot | `acquire`, `release`, renewal, observer bootstrap | requests, notifications, disconnect and reconnect listeners |
| rpc (`domains/rpc`) | open calls, workers and their running requests | `open_call`, `cancel`, `register_worker`, response writers | requests, notifications, dispatcher, listeners |
| kv, queue, stream (`domains/*`) | handles bound to a generation: transactions, items, stream sessions | begin/commit/rollback, ack/nack, read/append/commit | requests; generation of the connection |
| schedule, routes | none beyond a subscription; pure validation | | |
| codec, transports | parser buffer; sockets | encode/decode, connect/send/receive | |

asyncio runs one task at a time, so code between two `await`s is atomic and
everything hard lies in what happens *across* an `await`: a future is done but
its task has not run, a task was cancelled but has not noticed, two coroutines
share `self._transport` or `self._auth_error`, a listener awaits while the
connection it restores dies. That is the grain of all models: one action per
stretch of code from one await to the next.

Hard behaviours, component by component, and the properties that make it right:

* gate: hand-over of slots against cancellation and close - no capacity lost, none
  invented, arrival order kept, nothing admitted after close;
* multiplexer: late, reordered and lost replies, timers and cancellations during
  the send, loss and reuse of ids on the next connection - a call gets its own
  reply or an error, exactly once, and always ends;
* connection: overlapping attempts, loss during authentication or restoration,
  close at any time - an authenticated state is backed by a live session, closed
  is final, a lost session is repaired or given up audibly;
* dispatcher: bounds, a handler that closes its own client;
* subscriptions: notifications before the reply that names them, restoration with
  new ids, unsubscribe racing subscribe, consumers that fall behind;
* lease: a queued acquisition abandoned by its caller, disconnect draining it, the
  inventory bootstrapped while it changes;
* rpc: response, cancel, deadline and disconnect racing for the end of a call;
* handles: an operation that resumes after its session was replaced, two tasks that
  share one handle, a finishing request that is refused, lost or cancelled.

## 2. The modules

| module | contents |
|---|---|
| `RequestGate` | the gate: acquire (both paths), cancellation, wake-up, release, close |
| `RequestGateProofs` | its inductive invariant and eight theorems |
| `CallContract` | abstract: what a correlated call promises its caller |
| `Multiplexer` | calls over successive connections; implements `CallContract` |
| `MultiplexerProofs` | its inductive invariant, four theorems and the refinement |
| `Connection` | attempts, authentication, generations, loss, reconnect, heartbeat, close |
| `ConnectionProofs` | its inductive invariant and four theorems |
| `ConnectionLoopProofs` | the shutdown, the reconnect loop and the consumers: four more invariants, four theorems |
| `Subscriptions` | the subscription registry, its copy in the notice client, and the consumers |
| `MCSubscriptions` | the instance that TLC checks, with its symmetry and one more bound |
| `SubscriptionsProofs` | its inductive invariant and six theorems |
| `Session` | the connection as the domains see it: up, lost, listeners, restored, closing; shared by all that follow |
| `RpcCalls` | the caller's side of `domains/rpc`: one record per call |
| `RpcWorkers` | the worker's side, with registrations and the `AsyncDispatcher` that runs the handlers |
| `ServeContract` | abstract: what a worker promises the broker about each request |
| `Rpc` | both over one session; a handler's calls linked to its request; implements `ServeContract` |
| `RpcProofs` | its inductive invariant, five theorems and the refinement |
| `LeaseAcquire` | `LeaseClient.acquire`: the lock, the deque of futures, the drain of a cancelled call |
| `LeaseObserver` | `LeaseInventoryObserver`: bootstrap loop, consumer, callbacks, timer |
| `Lease` | both over one session |
| `LeaseProofs` | the invariants of the acquisitions and of the observer, five theorems |
| `HandleBase` | what every handle is: a grant of one session, requests of several tasks, the broker's view |
| `KvTransaction` | transactions with their lock and retries, inside the `LazyAsyncContext` that returns them |
| `Handles` | stream sessions, queue items, leases with their renewal; all four kinds over one session |
| `HandlesProofs` | two inductive invariants and four theorems |

**RequestGate.** `waiters` is the deque, each future named by the task that awaits
it; `st[t]` is where the task is together with the state of its future (`queued`:
not done; `granted`, `failed`, `cancelled`: done, task not yet run; `holding`: has
a token). `HandOver`/`GiveBack` are the two outcomes of `_release_slot`. Cancelling
a task whose future is done sets `mustCancel`, as asyncio does: the next step of
the task raises although the future has a result. `raced` is a history variable:
some release has discarded a waiter that was cancelled and had not run.

**Multiplexer.** `pc[r]` is the await a call is suspended in; its send task `snd[r]`
goes on by itself because the code shields it. `correlated` maps ids to calls;
an entry whose future is `dropped` is a tombstone. `wire` is what the broker has
received and not answered: it may answer in any order, at any time, or never.
A send that fails may have reached the broker. `Connect` waits for the sends of the
previous connection, because CONNECT goes through the same write lock
(connection.py:433). An unknown id is a protocol error and ends the connection.
The legacy lanes without correlation (`dispatch`, `_pending`) cannot be reached
after a Wire-3 HELLO and are left out, and so are intermediate frames of a streamed
response, which change nothing in the multiplexer.

**Connection.** Attempts are numbered in the order they begin; `transport`,
`receiver` and `authOf` say *whose* object `_transport`, `_receive_task` and
`_auth_error` refer to, which is how attempts that overlap come to share them.
`att[a]` is the await attempt `a` is suspended in, and `rcv[b]` its receive task.
`Lost` is the synchronous part of `_connection_lost`; the three tasks that may run
it (receive loop, loss task, heartbeat) are then `losing` until its awaits are over
and `StartReconnect` is evaluated. `consumer` stands for the close listeners: a task
that iterates over a subscription and is released only by them. The states
`CONNECTED` and `AUTHENTICATING` follow each other without an await and are one.
Restoration is one action, because each listener's failure is caught and reported;
what the listeners do belongs to the domains. HELLO is received only after the calls
of older connections have ended: they hold the write lock or wait for it, so CONNECT
was sent after them and a round trip later they have run. `CloseEnds` cancels what `_close`
cancels, and with each attempt the receive task that the attempt itself cancels when it
unwinds; one that was unwinding already may be cut short before it gets there (`spared`).

**Subscriptions.** One module for two pieces of code that differ in a few places:
`flavour` says which one runs. The notice client does not shield the request of
`subscribe()` from a cancellation, unsubscribes by id, and has `unsubscribe_all()`.
`wire`, `cons` and `byId` are the two indexes; `early` is the bounded deque of
notifications whose id has no entry, kept per id here: the numbers of the notifications
tell their order, so that the oldest of all is the one dropped (`Oldest`). `subscribe()`, the close of a consumer, `restore()`
and `unsubscribe_all()` keep the registry's lock while they await a request, so `req` is
the only one in flight and the lock is held exactly while somebody is at such an await
(`Free`). Any waiter may take the free lock: asyncio's order of arrival is not used by
any property. `publish()` and `terminate()` do not take the lock. What the broker sends
is one step with its arrival; a notification is early when the reply has arrived and its
task has not run. A request that times out or is abandoned may have been handled.
Four history variables say what an observer outside would know: `due` is what each
consumer is owed, `gapped` whose early notification was dropped, `doubtful` which
registrations had a request without a visible answer in this session, and `twice` which
ones were restored although they were live already. The `_pending_notifications` of a
registration that was kept by a failed unsubscribe go to the first consumer that joins it.

**Session.** `Connection` in five states, so that the domains can be composed with a
connection without its attempts. A loss (`Lose`) makes every send and request raise at
once; the disconnect listeners run in a later step (`Notified`); the next session
(`Reconnect`) has the next generation and is `restoring` until the reconnect listeners
are done: it is the reconnect loop's, in `Session` as in `Subscriptions`. A session that
`connect()` makes by hand runs no reconnect listeners (connection.py:363) and is not modelled. `close()` goes through `closing` to `closed`, from any state. One thing is assumed
that `Connection` does not give: that the disconnect listeners of a loss have run before the
next session begins (section 5).

**RpcCalls.** `call[c]` holds the fields of `RPCCall` and the two tables of the client
that mention it (`listed`: in `_pending`; `awaiting`: in `_pending_cancellations`).
`Push`, `Fail`, `FinishCall`, `Settle`, `Abandon` and `CloseAndCancel` are the
synchronous methods; the actions are their callers: the frames that arrive, the
consumer's `__anext__` before and after its wait, the deadline's and the parent's
watcher, the owner, the send of the CANCELLATION, the grace timer and the disconnect
listener. `answer`, `sent`, `taken`, `seen` and `cause` are history: what the worker sent,
what the consumer got, and who ended the call.

**RpcWorkers.** `inv[i].stage` is where the task that serves request `i` stands, from the
dispatcher's queue through the semaphore, the handler and the error path to the
acknowledgement. `Finally` is the `finally` clause of `_run_worker`, `Enter` what happens
behind the semaphore, `Interrupted` a cancellation at each await (by the dispatcher's
timeout or its `close()`). `Deliver` and `Completed` are `dispatch` and `_completed`;
`Refuse` is the `terminate()` task of a saturated dispatcher and `CleanupAck` the task of
`_schedule_cleanup_ack`. Registrations are for one route; `wire` is the request made under
its lock. A frame whose send was started on a live session counts as sent.

**ServeContract.** A request is new, held, with a handler or done with; beside that the contract
knows the session it came in, whether the broker cancelled it, and what was answered and
acknowledged. There is no dispatcher, semaphore, deadline or task in it. It says what the
four places that answer and the two that acknowledge must achieve together: a handler gets a
request at most once and never after its cancellation or an answer; an answer is given in
its own session, once unless it was cut short; an acknowledgement is said when no handler works
on the request, nothing is answered after it, and there is a reason for it. `Phase` and `View`
in `Rpc` map a request's record to it.

**LeaseAcquire.** `acq[a]` is one call of `acquire()`; `queued` is the deque of futures, to
whose first the broker's next final answer goes, whoever it was meant for. `of` and `got`
record for whom it was meant. A cancelled call whose future is still in the deque becomes
a `drain` task that keeps the lock.

**LeaseObserver.** `boot` and `cons` are where the two tasks stand; the callbacks change the
same record. The generations that a pass compares are the flags `noted` and
`resubscribed`, cleared when a pass starts. The broker's inventory is a version number, a
LIST an answer with the version of its moment; `flying` counts notifications on their way.

**HandleBase, KvTransaction, Handles.** `kind` says which domain's handle this is. `handle`
is the client's object (generation, closed flag, lock, token), `resource` the grant as the
broker sees it, `wire` the requests it has not handled. Two tasks use the handle: for a
lease the second is the renewal. A request carries the token it was given, so that the
broker refuses one that an `extend` has overtaken. `Finish` is `_finish` of a transaction,
which closes it before the request; the other handles close when a finishing request has
succeeded (`Returned`). `ctx` is the `LazyAsyncContext` both tasks may enter and close.
Between the handle's own check and the send lies `await self._gate.acquire()`
(connection.py:202). `Request` therefore has several fates: it passes the gate, is held by it
(`Held`: made, with its token, but not `sent`), finds its queue full, which may be retried, or
is refused offline. `Admitted` sends a held request without a look at the handle, a loss
refuses it, and the cancellation of its caller withdraws it. How many slots the gate has and
whose turn it is belongs to `RequestGate`; here any request may be held, and any held one be
the next. In the other domain modules a request passes the gate at once, or its wait there is
part of the send (`RpcWorkers`) or of the wait for the answer.

A definition whose comment begins with "Mutant:" is a deliberately wrong variant of the
definition after it. `PROJECT.json` pairs each checked property
with one that violates it, which shows that the property depends on that piece of code.

## 3. The runs

Run TLC as `tlc -config X.cfg M`; deadlock is not checked because the system really
may stop: calls happen a bounded number of times, and a closed client does nothing.

| run | checks | bounds |
|---|---|---|
| `request_gate` | consistency of the deque, no idle or lost capacity, the count, close finality, FIFO, progress of waiters | 5 tasks, 2 slots, 2 places: all places filled with one task to spare; each task acquires again and again |
| `request_gate_bound` | *violation*: the unconditional bound | 4 tasks, 1 slot |
| `multiplexer` | reply matching, no stranded call, tombstones, refinement of `CallContract` with liveness | 2 calls, 2 connections, 3 ids, 2 cancellations per call |
| `connection` | session ownership, generations, finality of close, what close leaves running | 3 attempts, 2 tries, all failures, heartbeat, `connect()` at any time |
| `connection_steady` | serialized attempts, repaired losses, released consumers | 4 attempts, 3 tries, plain failures, no heartbeat, no `connect()` during a clean-up |
| `connection_overlap` | *violation*: attempts are serialized although `connect()` comes during a clean-up | 3 attempts |
| `connection_heartbeat` | *violation*: a loss is repaired with heartbeats on | 3 attempts, 2 tries |
| `connection_rejected` | *violation*: close releases consumers after a rejected reconnect | 3 attempts |
| `subscriptions` | indexes, agreement with the broker, gap-free delivery, membership, release of wire subscriptions | both flavours, 2 consumers, 2 registrations, 3 ids, 2 notifications (1 in the notice client), a buffer of 1, 2 faults |
| `rpc` | how iterations end, acknowledgement after clean-up, one terminal answer, the dispatcher's counts, refinement of `ServeContract`; every call's outcome resolves, every request settles | 1 call, 2 requests, 2 workers, 2 sessions; dispatcher 1 + 1, concurrency 1, a buffer of 1, 2 frames, up to 3 activities and 2 faults, 4 of both together |
| `lease` | grants reach their caller, the lock has one holder, a ready view is current; a loss frees the lock, the view converges | 3 acquisitions, 3 sessions, 3 changes, an inbox of 1, 2 faults |
| `handles` | nothing sent across sessions, nothing after a finishing request but what the gate held, exits leave nothing open | 4 kinds, 2 tasks, 5 requests, 2 sessions, 3 faults |

Why the bounds suffice. Gate: the interesting cases need one holder, one dead waiter,
one live waiter behind it and one newcomer; five tasks give all of them for both slots
at once. Multiplexer: a reply can only be confused between two calls, and ids only
between two connections; three ids let one-way frames exhaust them. Two cancellations
are what it takes to leave the second shield. Connection: an overlap has two attempts,
the third is what follows. Counters that the code does not bound (attempts, connections,
cancellations) are bounded by `MaxAttempts`, `MaxGen` and `MaxCancels` in the guards.
Subscriptions: two consumers can share a registration or not, join one after the other,
and hold and wait for the lock; a buffer of one overflows with the second notification;
two faults are a loss during a restoration, a loss and a cancellation, or the two
cancellations that leave a shield. Consumers are interchangeable and so are registrations,
and nothing checked there is a liveness property, so `MCSubscriptions` may use symmetry. The
notice client buffers and delivers with the code of the registry: it gets one notification, and
the requests, which are its own, are explored in full. In
`connection_steady` the reconnect loop that follows a first success may make its three tries,
give up and tell the close listeners; one that follows a later loss, or a `connect()` that
failed, can come to the end of the four attempts in its back-off. There the model ends and not
the code, which would open a fifth: `LossIsRepaired` excepts exactly these states
(`OutOfAttempts`), and it is not satisfied by a client that is still reconnecting.

Rpc: a handler is assumed to end when it is cancelled (`RequestsSettle`). With one handler at a
time nobody waits in front of the workers' semaphore in TLC's instance; the theorems cover that
stage for every bound. With one handler and one place in the queue, two requests meet as running and queued,
and an ended one frees its place to the other; a registration, its replacement and one
request are three activities; two frames overflow the buffer of one. Three activities meet one
fault and two meet two. `Bounded` in `Rpc` leaves out what shares nothing but the session: a call
outside a handler beside the worker's side, a handler's call beside a registration that is
on its way, and other orders of the same names. Lease: the misdelivery that must not happen
needs a cancelled call, its late answer and a second call; the third waits for the lock meanwhile. Three changes
are one before a LIST, one during it and one after it, and an inbox of one overflows.
Handles: begin, two operations, a finish and one more request that must not be sent are
five; three faults are a cancelled begin and a loss with a cancellation, or any other three.
`MaxActivities`, `MaxFaults`, `MaxEvents`, `MaxOps`, `MaxFrames`, `MaxChanges` and `MaxGeneration` name these
bounds in the guards.

Types: the runs of the gate, the multiplexer, the connection, rpc and the handles do not repeat the
type invariants, nor that of the gate the bound of its admission: they are proved
for all values of the constants (section 4).

`connection_steady` is deliberately restricted: each restriction excludes exactly one of
the defects below, and the property is then what remains true. The restrictions are
constants of the specification (`Heartbeats`, `ConnectAgain`, `Failures`), not changes
to it.

Fairness. A task that is ready runs (asyncio's loop is FIFO), a coroutine of the library
that awaits something with a timeout goes on, and a holder releases in a `finally`.
Subscriptions has no liveness property: its lock is an `async with`, and each request
made under it has a timer. Nothing is assumed of the network, the broker or the application: no fairness on
`ReceiveHello`, `Reply`, `Lose`, `RequestBegins`, `CallConnect`, `CallClose`. The gate's
`Release` is fair because every request ends by reply, timer or loss. The multiplexer's
`Timeout` is fair because each call has a timer. `Rpc` assumes the grace timer of a
cancellation and, per request, that its task goes on and the dispatcher's timeout fires;
nothing of handlers, callers, registrations or the session. `Lease` assumes that ready tasks
run, that the disconnect listeners of a loss are called, and that the broker answers the
observer's subscribe and LIST and delivers its notifications; it owes an acquisition nothing, which
is why only a loss is sure to free the lock. `Handles` has no liveness property: what an
operation waits for is the broker's answer or the request's timer, and both lead on.

### What the violations show

1. **Admission bound** (`AdmissionBounded`). A cancelled waiter whose place in the deque
   was discarded by a release, before its task ran, returns a slot that it never had.
   Afterwards one request too many is admitted. `ExactUnlessRaced` and
   `BoundedUnlessRaced` say that this is the only way.
2. **Overlap** (`AttemptsCoalesce`). `connect()` between a loss and the creation of the
   reconnect task starts a second attempt. The invariants of `connection` hold all the
   same, because ownership is checked again after every await.
3. **Lost reconnect** (`LossIsRepaired`). A loss while a successful reconnect is
   gathering the old heartbeat sees a reconnect task that is not done.
4. **Unreleased consumers** (`ConsumersReleased`). A rejected reconnect closes the client
   without its close listeners, and `close()` then returns early. The same property also
   fails when a client whose reconnect loop gave up is connected by hand again, because
   `_close_notified` is never reset (connection.py:631-634): TLC shows it in
   `ConnectionSteady.cfg` with `MaxTries = 2`.

Two further limits are written into properties rather than reported: the tombstone of a
call that was cancelled twice during its send, and of one whose send failed after the
broker had the frame, is lost (`LateReplyIsExpected`). And replies are matched by id in
any order; the per-message FIFO of docs/README.md:6 describes the unreachable legacy lane.

The subscription properties name what the code leaves open rather than hide it:

* the deque of early notifications drops the oldest silently (`gapped`);
* a subscribe admitted while the listeners restore is made twice, and its notifications
  may be repeated or come out of order (`twice`);
* after two cancellations, or a timeout, the registry and the broker may disagree until the
  next session, and a consumer that joins may hear nothing (`doubtful`);
* `aclose()` cancelled while it waits for the registry leaves the wire subscription to
  nobody (`ReleasedUnlessFailed`), because `_wire_closed` is set already;
* a loss during a restoration fails all registrations not restored yet, though the client
  goes on to reconnect: the consumers are told, as `NoForgottenConsumer` says;
* a subscribe answered in the turn of `terminate()` opens a consumer nobody ends.

`CloseStopsEverything` names what `close()` does not stop: a receive task whose reference a
later attempt has overwritten (connection.py:353). `close()` cancels the current one only
(179-189), so the older one may still end its clean-up, close its transport and call the
disconnect listeners afterwards (547-566).

The properties of the domains name these limits:

* an append, an extend or a second finishing request of a stream session, queue item or lease
  that waits in a full gate passed the handle's check before it did (stream.py:189; queue.py:57;
  lease.py:90) and is sent when it gets its slot, even if the finishing operation has returned
  meanwhile (stream.py:234); a transaction keeps its lock while it waits, so of it only the
  COMMIT or ROLLBACK itself can go out late (`NothingAfterFinish`);
* a request that arrives between the broker's answer to a registration and the client's own
  entry is dropped silently, and so is one whose dispatcher timeout fires in front of the
  semaphore (`Settled`);
* a send of a terminal response that was cut short or raised may be followed by a second
  one (`AnsweredOnce` excepts `broken`), and a request may be acknowledged twice, by its
  task and by the clean-up task (`acks` reaches 2);
* a worker whose restoration fails, or meets a loss, is forgotten (`WireReturns`);
* an acquisition that was cancelled after its ACQUIRE was queued holds the lock until its
  answer or the end of the session; one granted at once leaves a future that nobody
  resolves, with the same effect (`LossFreesTheLock` promises no more);
* the old view of an observer stays ready during a repeated pass (`ReadyViewIsCurrent` speaks
  of a view with no pass under way);
* a transaction whose COMMIT or ROLLBACK was cancelled, lost or refused is closed for the
  client, which cannot roll it back any more (kv.py:304), and a cancelled begin leaves a
  transaction, session or lease that nobody closes until the session ends
  (`ExitLeavesNothing` excepts both);
* leaving a managed lease while its renewal is in flight may release it with the token of
  before, which the broker refuses; `__aexit__` also swallows a cancellation
  that reaches it while it awaits the renewal (lease.py:131), and an early `release()` makes
  a later renewal report a lost lease.

## 4. The proofs

All theorems have the form `Spec => []P` or `Spec => [][A]_vars` and assume only the
named assumption of the module: a finite set of tasks and a positive limit for the
gate; natural bounds and a sentinel that is not a request for the multiplexer; the ranges
of the options for the connection; for the domains, finite sets of actors, positive limits and
sentinels outside the sets they are used with. None bounds the number of tasks, calls,
attempts, requests or sessions. Three theorems have a hypothesis besides, on the options and
on what the broker does; the paragraph on the connection says which and why.

**Gate.** `GateInv` is the conjunction of the type invariant, `QueueConsistent`,
`NoIdleCapacity`, the two halves of the count, the bound, and `InterruptedOK`. The last is
the strengthening: a task that finds its waiter missing releases a slot, so whether the
count stays exact depends on where the waiter of every interrupted task is: a failed
waiter means the gate is closed, and an unraced cancelled one is still in the deque. The
count compares `active` with the *cardinality* of the set of owners, so lemmas say how
each release changes that set (one task removed, or one exchanged for another).
`NoOvertaking` follows from `QueueConsistent`: a new owner was the first live waiter, or
the deque was empty.

**Multiplexer.** `MuxInv` ties an id to one call per connection, in the table as on the
wire: ids are distinct and below `nextId` (`IdsDistinct`), an entry belongs to the current
connection and carries its call's id (`EntriesOwned`), a frame on the wire identifies its
call (`WireOwned`), and a call that is being sent is registered unless it was cancelled
twice (`SendingOK`). A reply read from the current transport can then only find the entry
of the call that sent it. The refinement maps a call's await to its abstract phase; its
step lemmas show that every action is an abstract step or a stutter.

**Connection.** `ConnInv` adds to `TypeOK` what the properties silently rely on: attempts
beyond `opened` are untouched; a receive task exists only after dialing; one that cleans
up after a loss has given its transport away; an attempt awaits a future that exists; no
transport has a generation later than `gen`, and the transport in use has the latest one;
a running `close()` has set `closed`; and an authenticated state has a live session whose
attempt got that far (`SessionKept`). Each action has one lemma with one step per conjunct.

`ConnectionLoopProofs` asks who drives the connection. `CloseStopsEverything` needs only that
a running `close()` has set the state to CLOSED (`ShutFirst`): from then on no clean-up
begins, every loop stops at its head, an attempt that still runs can only fail, and no receive
task becomes the current one. The other properties hold under a condition, and section 3 has
the runs that break them without it.

* `AttemptsCoalesce` is proved under `Coalescing`: reconnecting is disabled, or the
  application calls `connect()` once, or it does not call it during a clean-up, the loop has no
  heartbeat to gather and it gives up with the last attempt, if at all (`Untiring`). `LoopInv`,
  which holds in every configuration, says that an attempt made by nobody's hand is the loop's
  only one (`LoopOwns`, `LoopAlone`) and that the loop begins after the first success.
  `HandsOff`: from that success on the connect task is idle. It stays so because a `connect()`
  never finds the way free (`HandsTied`): until the client closes it is connected, or a
  clean-up is under way, or the loop runs (`Repairing`), or the loop has made more attempts than
  its policy counts and told the close listeners (`GaveUp`).
* `LossIsUnderRepair` states that last fact, the safety half of `LossIsRepaired`: where
  connects coalesce and there are no heartbeats, a client that was once connected is never
  idle unless its close listeners were told. `connection_steady` is an instance of both theorems.
* `ConsumersReleased` is proved under `Persistent`: no rejection, no version mismatch, and as
  many tries as there are attempts, which for every `MaxAttempts` is the default policy
  (`max_attempts` None). The loop then never runs out of tries (`TriesBehind`,
  `NeverGivesUp`), so only `close()` closes and only it tells the listeners (`CloseAlone`).
  `connection_steady` is not an instance of this one: its loop may also give up, with the last
  attempt. A loop that gives up earlier breaks the property (section 3, violation 4).

**Subscriptions.** `SubscriptionsInv` begins with the lock: it has one holder (`OneHolder`), and
the request in flight is the one the holder waits for (`HolderWaits`); `Stages` says what the
await of a task implies for the sets it is in. The ids: the broker gives each out once, so the
id in the holder's hands is registered nowhere yet (`FreshIds`, `Given`), from which the two
indexes agree at every point inside a critical section (`Indexes`) and `IndexConsistent` follows.
What is owed: a registration with consumers keeps nothing in the deque, nothing is due to a
consumer whose request the broker has not handled, and a restored registration is served once
(`Owed`); with each notification kept once and in order (`KeptOnce`) this makes `NothingLost`
inductive, where the lemmas say what dropping the oldest, handing over and appending do to
each sequence. What the broker knows: for each registration without a doubtful request it has
exactly the id that the registry will write down when the holder is through (`Wanted`, `Known`),
in a restoration at most that; `BrokerAgrees` is this where nobody holds the lock.
`ReleasedUnlessFailed` is proved action by action.

**Rpc.** `RpcInv` is local: `InvocationOK` speaks of one request's record, `CallOK` of one
call's, and lemmas show that each method of the code maps such a record to such a record
(`FinallyOK`, `SendErrorOK`, `EnterOK`, `InterruptedOK`; `FailOK`, `CloseOK`, `PushOK`,
`PoppedOK`), so that each action is one application. For a request the strengthening counts: an acknowledgement
belongs to the clean-up task or to a task that is done (`AckBound`), and a terminal answer
is one the writer knows of, or is on its way (`Clear`). For a call it is the position of the
mark: a closed call still has an error or an end mark behind its frames, or keeps its
failure aside (`Marked`), and the frames in the queue plus those taken are those sent. Only
the dispatcher's counts relate several records: `WaitersQueued` and the cardinality of
`Active`, which changes when `Completed` exchanges one handler for the next.

`ServesByContract` is the refinement of `ServeContract`. One more strengthening is needed
(`Told`): the client notes the broker's cancellation at once, a response that the writer
knows of or that is on its way was sent, and a request that is not listed yet hears of no
cancellation. `Moves` says when the change of one record is something the broker can tell: a
cancellation heard, a start, an answer, a release, an acknowledgement, or nothing of these.
`MovesRefine` shows once that such a change is a step of the contract or a stutter. What is
left is one lemma per method (`FinallyMoves`, `SendErrorMoves`, `EnterMoves`, `InterruptedMoves`,
...), that it moves the record it is applied to, and one per action. Steps of the dispatcher's
book-keeping change two records or all of them, and the broker can tell none of it (`Unseen`).
Losses and new sessions are steps of the contract's own; calls and registrations are not seen
in it.

**Lease.** `AcquireInv` explains why answers that name no call are safe: the deque `queued` is
empty or holds exactly the future of the lock's holder (`QueueIsHolder`), the holder is one
call or one drain (`OneHolder`), and the broker has a queued ACQUIRE of nobody but the holder
(`BrokerAgrees`), so the first future is the right one. `UncalledIsFresh` and
`AnswersAreOwn` carry this from the answer to the result.

`ObserverInv` carries `ReadyViewIsCurrent`. A view is right if it is the inventory, or a
notification is on its way, or the subscription has failed and the consumer will see it
(`Covered`). So one has to know that the broker serves the observer's subscription whenever it
looks live (`LiveIsServed`), that a ready observer has one and its consumer iterates over it
(`ReadyIsSubscribed`, `SubscriptionKept`), and that nothing is claimed in a new session before
`HandleReconnect` has run (`Told`). Of a pass under way the same is said of the answer it has
received and is about to install, unless one of its two flags has been raised since it
began (`SnapshotCovered`): that is what the comparison of the generations is for.

**Handles.** `HandlesInv`: a handle that a task uses has been made (`UsersHaveIt`), one
begin at a time creates the grant (`OneGrant`), a fresh grant belongs to the session of its
begin (`GrantIsFresh`), every request of the handle on the wire was sent in the handle's
session (`WireOfHandle`), and a finished handle is closed (`FinishedIsClosed`). `Fenced`
follows, and of `NothingAfterFinish` that no new request is made.

`ExitInv` carries `ExitLeavesNothing`. An open grant belongs to this session
(`OpenIsCurrent`), and a finishing request that succeeded has ended it (`OkIsOver`). An item, a
stream or a lease is closed only by what ended its grant (`OthersExit`). A transaction closes
before its request is sent, so the argument has stages: a finished one has failed, has no grant,
or is being finished by a task that still awaits the answer (`KvFinished`); one that was
taken out of its context is settled, or the task that took it out holds the start lock and
will roll it back (`KvLocks`, `KvTakenOut`); and when a task has left quietly the context is
closed, nobody begins, and the transaction is settled (`KvQuiet`). Two parts speak of the gate:
a request that it holds is awaited by the task that made it (`HeldIsAwaited`), and what it holds
of a finished transaction is the COMMIT or ROLLBACK (`KvHeld`), because the task that waits has
the lock. The rest of `NothingAfterFinish` follows from these: both invariants are needed for it.

Model-checked only: the liveness properties (`WaiterProgress`, the fairness part of
`KeepsContract`, `LossIsRepaired`, `OutcomesResolve`, `RequestsSettle`, `LossFreesTheLock`,
`ViewConverges`), which are beyond TLAPS' reach together with `ENABLED`. The three restricted
theorems of the connection say nothing of other configurations, of which section 3 has the
counterexamples.

## 5. Not modelled, and the plan

Left out for good: byte-level codec and transports (pure I/O and encodings; the models
use only that a transport may fail at any time and delivers frames of its own session),
observability callbacks, option and error types, the facade. Back-off durations are
abstracted to "ends at some time".

Not explored although the code has it: the domains of a client that is connected by hand
after its reconnect loop gave up, during a clean-up, or with reconnecting disabled (whose
reconnect listeners then do not run), a handler that calls
`close()` and so waits for itself, two tasks that iterate one subscription, streamed
responses of the multiplexer, `LazyRPCCall` and `LazyAsyncIterator` (the same start lock as
`LazyAsyncContext`), the sequence numbers of responses, several routes of workers, the pages
of a kv scan, the observer's queue of changes. `PROJECT.json` lists each under its component
or its hazard. The schedule domain keeps no state beyond its subscription.

Assumed of the connection by every domain model (`Session`): the disconnect listeners of a loss
run before the next session. `_connection_lost` awaits the close of the transport before it
calls them (connection.py:556-566), and a second close of a transport returns at once. When a
session is lost while its attempt still authenticates or restores, that attempt fails and the
reconnect loop goes on beside the clean-up, so the listeners may run in the next session and fail
its calls, drain its lease queue and invalidate its transactions. `Connection` has these steps;
what they do to a domain is not explored.

Next, in this order:

1. An abstract specification of a handle (granted, used in one session, finished once),
   implemented by `Handles`, from `HandlesInv` and `ExitInv`.
2. A domain over the attempts of `Connection` instead of `Session`, for the listeners that run
   late.
3. Routes: validation checked against a reference definition over short segments.
4. The exactness of the count in a repaired gate, in which a waiter knows whether it was
   granted.

Runs are bounded to a few minutes each.
