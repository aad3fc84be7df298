---------------------------- MODULE Subscriptions ----------------------------
(***************************************************************************)
(* One broker subscription shared by many local consumers                  *)
(* (domains/_subscriptions.SubscriptionRegistry, its copy in               *)
(* domains/notice and _runtime.AsyncSubscription).                         *)
(*                                                                         *)
(* subscribe(), the close of a consumer, restore() and unsubscribe_all()   *)
(* hold the registry's lock over their wire request, so at most one        *)
(* request is in flight; publish() and terminate() do not take the lock.   *)
(* A request is answered in one step and its task runs in a later one:     *)
(* notifications, a cancellation, the loss of the session and terminate()  *)
(* come in between.  The broker handles the requests of a session in the   *)
(* order it receives them and never reuses an id.                          *)
(***************************************************************************)
EXTENDS Integers, Sequences, FiniteSets

CONSTANTS Flavours,       \* which code: subset of {"registry", "notice"}
          Consumers,      \* the AsyncSubscription objects, each subscribed once
          Registrations,  \* routes and patterns
          Nobody,         \* not a registration
          Capacity,       \* subscription_buffer_size
          MaxId,          \* bound: ids the broker hands out
          MaxItems,       \* bound: notifications
          MaxFaults       \* bound: sessions lost and tasks cancelled, together

ASSUME SubscriptionsAssumption ==
    /\ Flavours \subseteq {"registry", "notice"}
    /\ IsFiniteSet(Consumers)
    /\ Nobody \notin Registrations
    /\ Capacity \in Nat \ {0}
    /\ {MaxId, MaxItems, MaxFaults} \subseteq Nat

VARIABLES flavour,    \* the code that runs; never changes
          mode,       \* up | down | restoring | closed (the close listeners ran)
          live,       \* broker: <<id, registration>> of this session
          nextId,     \* broker: the next id
          wire,       \* _by_registration[r].sub_id, 0 when r has no entry
          cons,       \* _by_registration[r].consumers
          byId,       \* _by_id
          early,      \* _pending_notifications, by id; the numbers keep its order
          req,        \* the wire request of the task that holds the lock
          pc,         \* where each consumer's subscribe() is
          reg,        \* the registration each consumer asked for
          fate,       \* none | failed | ended: _closed and the mark in the queue
          queue,      \* AsyncSubscription._queue of an open consumer
          clo,        \* where each consumer's aclose() is
          auto,       \* consumers whose aclose() is run by a clean-up task
          rst, todo,  \* where restore() is, and the registrations before it
          all,        \* where unsubscribe_all() is
          items, faults,  \* counters for the bounds
          due,        \* history: notifications sent for a consumer, not taken
          gapped,     \* history: consumers an early notification of which was dropped
          doubtful,   \* history: registrations of requests whose answer nobody saw
          twice       \* history: registrations restored although they were live

session  == <<mode, live, nextId>>
registry == <<wire, cons, byId, early>>
local    == <<fate, queue, due>>
counters == <<items, faults>>
history  == <<gapped, doubtful, twice>>
vars == <<flavour, session, registry, req, pc, reg, local, clo, auto, rst, todo, all,
          counters, history>>

Ids == 1..MaxId

\* The notifications in the deque.  They are numbered as they are sent.
Kept == UNION {{early[i][k] : k \in 1..Len(early[i])} : i \in Ids}
Full == Cardinality(Kept) = Capacity

\* The first one in the deque was sent for this id.
Oldest(id) ==
    /\ early[id] # <<>>
    /\ \A i \in Ids : early[i] # <<>> => Head(early[id]) <= Head(early[i])

(***************************************************************************)
(* subscribe(): idle; locking - waits for the lock; asking - awaits the    *)
(* request; draining - cancelled, awaits the request all the same; undoing *)
(* - awaits the unsubscribe that follows; open - returned a consumer;      *)
(* failed - raised.                                                        *)
(* aclose(): none; scheduled - the clean-up task is created; locking;      *)
(* leaving - awaits the unsubscribe; draining - cancelled, awaits it all   *)
(* the same; done; abandoned - cancelled while it waited for the lock.     *)
(***************************************************************************)
Requests ==
    [st : {"idle", "sent", "ok", "error"}, kind : {"none", "sub", "unsub", "all"},
     id : 0..MaxId, reg : Registrations \cup {Nobody}]

TasksTyped ==
    /\ flavour \in Flavours
    /\ mode \in {"up", "down", "restoring", "closed"}
    /\ pc \in [Consumers -> {"idle", "locking", "asking", "draining", "undoing", "open", "failed"}]
    /\ reg \in [Consumers -> Registrations \cup {Nobody}]
    /\ clo \in [Consumers -> {"none", "scheduled", "locking", "leaving", "draining", "done",
                              "abandoned"}]
    /\ auto \subseteq Consumers
    /\ rst \in {"none", "locking", "asking"} /\ todo \subseteq Registrations
    /\ all \in {"none", "locking", "asking", "done"}
    /\ items \in 0..MaxItems /\ faults \in 0..MaxFaults
    /\ gapped \subseteq Consumers /\ twice \subseteq Registrations

RegistryTyped ==
    /\ live \subseteq Ids \X Registrations
    /\ nextId \in 1..(MaxId + 1)
    /\ wire \in [Registrations -> 0..MaxId]
    /\ cons \in [Registrations -> SUBSET Consumers]
    /\ byId \in [Ids -> Registrations \cup {Nobody}]
    /\ req \in Requests
    /\ doubtful \subseteq Registrations

BuffersTyped ==
    /\ early \in [Ids -> Seq(1..MaxItems)]
    /\ fate \in [Consumers -> {"none", "failed", "ended"}]
    /\ queue \in [Consumers -> Seq(1..MaxItems)]
    /\ \A c \in Consumers : Len(queue[c]) <= Capacity
    /\ due \in [Consumers -> Seq(1..MaxItems)]

TypeOK ==
    /\ TasksTyped /\ RegistryTyped /\ BuffersTyped
    /\ Cardinality(Kept) <= Capacity

NoRequest == [st |-> "idle", kind |-> "none", id |-> 0, reg |-> Nobody]

Init ==
    /\ flavour \in Flavours
    /\ mode = "up" /\ live = {} /\ nextId = 1
    /\ wire = [r \in Registrations |-> 0]
    /\ cons = [r \in Registrations |-> {}]
    /\ byId = [i \in Ids |-> Nobody]
    /\ early = [i \in Ids |-> <<>>]
    /\ req = NoRequest
    /\ pc = [c \in Consumers |-> "idle"]
    /\ reg = [c \in Consumers |-> Nobody]
    /\ fate = [c \in Consumers |-> "none"]
    /\ queue = [c \in Consumers |-> <<>>]
    /\ clo = [c \in Consumers |-> "none"]
    /\ auto = {} /\ rst = "none" /\ todo = {} /\ all = "none"
    /\ items = 0 /\ faults = 0
    /\ due = [c \in Consumers |-> <<>>]
    /\ gapped = {} /\ doubtful = {} /\ twice = {}

------------------------------------------------------------------------------
(* Shared pieces. *)

Online == mode \in {"up", "restoring"}
Answered == req.st \in {"ok", "error"}

(* The lock is held exactly while its holder awaits a request: everything    *)
(* else it protects runs without an await.                                   *)
Free ==
    /\ \A c \in Consumers : /\ pc[c] \notin {"asking", "draining", "undoing"}
                            /\ clo[c] \notin {"leaving", "draining"}
    /\ rst # "asking" /\ all # "asking"

\* A request without an authenticated session raises (connection.py:675).
Request(kind, r, id) ==
    req' = [st |-> IF Online THEN "sent" ELSE "error", kind |-> kind, id |-> id, reg |-> r]

\* push() has an effect on c; all of s finds room in its buffer.
Pushed(c, s) == fate[c] = "none" /\ s # <<>>
Fits(c, s) == Len(queue[c]) + Len(s) <= Capacity

\* push() of the items s to the consumers cs: an open one takes them or, when one
\* of them finds the buffer full, loses what it has and fails.
Deliver(cs, s) ==
    /\ queue' = [c \in Consumers |->
                    IF c \notin cs \/ ~Pushed(c, s) THEN queue[c]
                    ELSE IF Fits(c, s) THEN queue[c] \o s ELSE <<>>]
    /\ fate' = [c \in Consumers |->
                    IF c \in cs /\ Pushed(c, s) /\ ~Fits(c, s) THEN "failed" ELSE fate[c]]

\* finish() or fail() of the open ones among cs.
End(cs, how) ==
    /\ fate' = [c \in Consumers |-> IF c \in cs /\ fate[c] = "none" THEN how ELSE fate[c]]
    /\ queue' = [c \in Consumers |-> IF c \in cs THEN <<>> ELSE queue[c]]
    /\ due' = [c \in Consumers |-> IF c \in cs THEN <<>> ELSE due[c]]

\* Mutant: the notifications that came early are thrown away.
FlushNothing(id, cs) ==
    /\ early' = [early EXCEPT ![id] = <<>>]
    /\ Deliver(cs, <<>>)

\* _flush_pending: the early notifications of id go to the consumers cs.
Flush(id, cs) ==
    /\ early' = [early EXCEPT ![id] = <<>>]
    /\ Deliver(cs, early[id])

\* What the broker does with the request in flight.
Handled ==
    \/ /\ req.kind = "sub" /\ nextId \in Ids
       /\ live' = live \cup {<<nextId, req.reg>>}
       /\ nextId' = nextId + 1
    \/ /\ req.kind = "unsub"
       /\ live' = {p \in live : IF flavour = "notice" THEN p[1] # req.id ELSE p[2] # req.reg}
       /\ UNCHANGED nextId
    \/ /\ req.kind = "all"
       /\ live' = {}
       /\ UNCHANGED nextId

\* The registrations the request is about.
Unsure == IF req.kind = "all" THEN Registrations ELSE {req.reg}

\* The task stops waiting for the request: nobody will see its answer.
AbandonRequest ==
    /\ \/ req.st = "sent" /\ Handled
       \/ UNCHANGED <<live, nextId>>
    /\ doubtful' = IF req.st # "error" THEN doubtful \cup Unsure ELSE doubtful
    /\ req' = NoRequest

Fault == faults < MaxFaults /\ faults' = faults + 1

------------------------------------------------------------------------------
(* subscribe() *)

SubscribeCall(c) ==
    /\ pc[c] = "idle"
    /\ pc' = [pc EXCEPT ![c] = "locking"]
    /\ \E r \in Registrations : reg' = [reg EXCEPT ![c] = r]
    /\ UNCHANGED <<flavour, session, registry, req, local, clo, auto, rst, todo, all, counters,
                   history>>

\* The registration is there already: with other consumers, or kept by an unsubscribe
\* that failed, and then what was kept for it goes to the first that joins.
SubscribeJoins(c) ==
    /\ pc[c] = "locking" /\ Free
    /\ wire[reg[c]] # 0
    /\ cons' = [cons EXCEPT ![reg[c]] = @ \cup {c}]
    /\ Flush(wire[reg[c]], cons'[reg[c]])
    /\ due' = [due EXCEPT ![c] = early[wire[reg[c]]]]
    /\ pc' = [pc EXCEPT ![c] = "open"]
    /\ UNCHANGED <<flavour, session, wire, byId, req, reg, clo, auto, rst, todo, all, counters,
                   history>>

SubscribeAsks(c) ==
    /\ pc[c] = "locking" /\ Free
    /\ wire[reg[c]] = 0
    /\ Request("sub", reg[c], 0)
    /\ pc' = [pc EXCEPT ![c] = "asking"]
    /\ UNCHANGED <<flavour, session, registry, reg, local, clo, auto, rst, todo, all, counters,
                   history>>

\* The entry of r with its id; nothing is removed, for r has none.
Register(r, id) ==
    /\ wire' = [wire EXCEPT ![r] = id]
    /\ byId' = [byId EXCEPT ![id] = r]

SubscribeResumes(c) ==
    /\ pc[c] = "asking" /\ Answered
    /\ IF req.st = "ok"
       THEN /\ Register(reg[c], req.id)
            /\ cons' = [cons EXCEPT ![reg[c]] = @ \cup {c}]
            /\ Flush(req.id, cons'[reg[c]])
            /\ pc' = [pc EXCEPT ![c] = "open"]
       ELSE /\ pc' = [pc EXCEPT ![c] = "failed"]
            /\ UNCHANGED <<registry, queue, fate>>
    /\ req' = NoRequest
    /\ UNCHANGED <<flavour, session, reg, due, clo, auto, rst, todo, all, counters, history>>

\* Mutant: the subscription that a cancelled caller made is left to the broker.
DrainForgets(c) ==
    /\ pc[c] = "draining" /\ Answered
    /\ req' = NoRequest
    /\ pc' = [pc EXCEPT ![c] = "failed"]
    /\ UNCHANGED <<flavour, session, registry, reg, local, clo, auto, rst, todo, all, counters,
                   history>>

\* The request has ended although the caller was cancelled.
DrainResumes(c) ==
    /\ pc[c] = "draining" /\ Answered
    /\ IF req.st = "ok"
       THEN /\ Request("unsub", reg[c], req.id)
            /\ pc' = [pc EXCEPT ![c] = "undoing"]
       ELSE /\ req' = NoRequest
            /\ pc' = [pc EXCEPT ![c] = "failed"]
    /\ UNCHANGED <<flavour, session, registry, reg, local, clo, auto, rst, todo, all, counters,
                   history>>

\* An unsubscribe that fails keeps the registration, for it may be live.
UndoResumes(c) ==
    /\ pc[c] = "undoing" /\ Answered
    /\ IF req.st = "ok" THEN UNCHANGED <<wire, byId>> ELSE Register(reg[c], req.id)
    /\ req' = NoRequest
    /\ pc' = [pc EXCEPT ![c] = "failed"]
    /\ UNCHANGED <<flavour, session, cons, early, reg, local, clo, auto, rst, todo, all, counters,
                   history>>

(* task.cancel() inside subscribe().  The registry shields the request and   *)
(* awaits it after all; a second cancellation reaches it.  The notice client *)
(* does not shield.  Behind a lock that is free there is nothing to wait for.*)
CancelSubscribe(c) ==
    /\ Fault
    /\ \/ /\ pc[c] = "locking" /\ ~Free
          /\ pc' = [pc EXCEPT ![c] = "failed"]
          /\ UNCHANGED <<live, nextId, wire, byId, req, doubtful>>
       \/ /\ pc[c] = "asking" /\ flavour = "registry"
          /\ pc' = [pc EXCEPT ![c] = "draining"]
          /\ UNCHANGED <<live, nextId, wire, byId, req, doubtful>>
       \/ /\ \/ pc[c] = "asking" /\ flavour = "notice"
             \/ pc[c] = "draining"
          /\ AbandonRequest
          /\ pc' = [pc EXCEPT ![c] = "failed"]
          /\ UNCHANGED <<wire, byId>>
       \/ /\ pc[c] = "undoing"
          /\ AbandonRequest
          /\ Register(reg[c], req.id)
          /\ pc' = [pc EXCEPT ![c] = "failed"]
    /\ due' = [due EXCEPT ![c] = <<>>]
    /\ UNCHANGED <<flavour, mode, cons, early, reg, fate, queue, clo, auto, rst, todo, all, items, gapped, twice>>

------------------------------------------------------------------------------
(* aclose() of a consumer.  Only the first call does anything. *)

CloseCall(c) ==
    /\ pc[c] = "open" /\ clo[c] \in {"none", "scheduled"}
    /\ clo' = [clo EXCEPT ![c] = "locking"]
    /\ UNCHANGED <<flavour, session, registry, req, pc, reg, local, auto, rst, todo, all, counters,
                   history>>

\* The task created by publish() for a consumer that fell behind.
CleanupRuns(c) ==
    /\ clo[c] = "scheduled"
    /\ clo' = [clo EXCEPT ![c] = "locking"]
    /\ auto' = auto \cup {c}
    /\ UNCHANGED <<flavour, session, registry, req, pc, reg, local, rst, todo, all, counters,
                   history>>

\* Others remain, or the registration is gone: only the consumer ends.
CloseLocally(c) ==
    /\ clo[c] = "locking" /\ Free
    /\ wire[reg[c]] = 0 \/ cons[reg[c]] \ {c} # {}
    /\ cons' = [cons EXCEPT ![reg[c]] = @ \ {c}]
    /\ End({c}, "ended")
    /\ clo' = [clo EXCEPT ![c] = "done"]
    /\ UNCHANGED <<flavour, session, wire, byId, early, req, pc, reg, auto, rst, todo, all,
                   counters, history>>

CloseLast(c) ==
    /\ clo[c] = "locking" /\ Free
    /\ wire[reg[c]] # 0 /\ cons[reg[c]] \subseteq {c}
    /\ cons' = [cons EXCEPT ![reg[c]] = {}]
    /\ Request("unsub", reg[c], wire[reg[c]])
    /\ clo' = [clo EXCEPT ![c] = "leaving"]
    /\ UNCHANGED <<flavour, session, wire, byId, early, pc, reg, local, auto, rst, todo, all,
                   counters, history>>

\* _by_registration.pop(r) and _by_id.pop(id).
Unregister(r, id) ==
    /\ wire' = [wire EXCEPT ![r] = 0]
    /\ byId' = [i \in Ids |-> IF i = id THEN Nobody ELSE byId[i]]
    /\ cons' = [cons EXCEPT ![r] = {}]

\* An unsubscribe that fails keeps the entry.
CloseResumes(c) ==
    /\ clo[c] \in {"leaving", "draining"} /\ Answered
    /\ IF req.st = "ok" THEN Unregister(reg[c], req.id) ELSE UNCHANGED <<wire, byId, cons>>
    /\ req' = NoRequest
    /\ End({c}, "ended")
    /\ clo' = [clo EXCEPT ![c] = "done"]
    /\ UNCHANGED <<flavour, session, early, pc, reg, auto, rst, todo, all, counters, history>>

(* task.cancel() of the application's aclose(); nobody cancels a clean-up task. *)
CancelClose(c) ==
    /\ Fault
    /\ c \notin auto
    /\ \/ /\ clo[c] = "locking" /\ ~Free
          /\ clo' = [clo EXCEPT ![c] = "abandoned"]
          /\ End({c}, "ended")
          /\ UNCHANGED <<live, nextId, req, doubtful>>
       \/ /\ clo[c] = "leaving"
          /\ clo' = [clo EXCEPT ![c] = "draining"]
          /\ UNCHANGED <<live, nextId, req, doubtful, local>>
       \/ /\ clo[c] = "draining"
          /\ AbandonRequest
          /\ clo' = [clo EXCEPT ![c] = "done"]
          /\ End({c}, "ended")
    /\ UNCHANGED <<flavour, mode, registry, pc, reg, auto, rst, todo, all, items, gapped, twice>>

------------------------------------------------------------------------------
(* unsubscribe_all() of the notice client *)

AllCall ==
    /\ flavour = "notice" /\ all = "none"
    /\ all' = "locking"
    /\ UNCHANGED <<flavour, session, registry, req, pc, reg, local, clo, auto, rst, todo, counters,
                   history>>

AllAsks ==
    /\ all = "locking" /\ Free
    /\ all' = "asking"
    /\ Request("all", Nobody, 0)
    /\ UNCHANGED <<flavour, session, registry, pc, reg, local, clo, auto, rst, todo, counters,
                   history>>

\* Every consumer of a registration, of any registration.
Members == UNION {cons[r] : r \in Registrations}

Clear ==
    /\ wire' = [r \in Registrations |-> 0]
    /\ byId' = [i \in Ids |-> Nobody]
    /\ cons' = [r \in Registrations |-> {}]
    /\ End(Members, "ended")

AllResumes ==
    /\ all = "asking" /\ Answered
    /\ all' = "done"
    /\ IF req.st = "ok" THEN Clear ELSE UNCHANGED <<wire, byId, cons, local>>
    /\ req' = NoRequest
    /\ UNCHANGED <<flavour, session, early, pc, reg, clo, auto, rst, todo, counters, history>>

AllCancelled ==
    /\ Fault
    /\ \/ /\ all = "locking" /\ ~Free
          /\ UNCHANGED <<live, nextId, req, doubtful>>
       \/ /\ all = "asking"
          /\ AbandonRequest
    /\ all' = "done"
    /\ UNCHANGED <<flavour, mode, registry, pc, reg, local, clo, auto, rst, todo, items, gapped, twice>>

------------------------------------------------------------------------------
(* Notifications *)

\* The consumers an early notification of id is kept for.
Awaiting(id) ==
    {c \in Consumers :
        /\ req.st = "ok" /\ req.kind = "sub" /\ req.id = id
        /\ \/ pc[c] = "asking"
           \/ rst = "asking" /\ c \in cons[req.reg] /\ fate[c] = "none"}

\* Mutant: the deque has no limit.
PublishEarlyUnbounded(id) ==
    /\ byId[id] = Nobody
    /\ early' = [early EXCEPT ![id] = Append(@, items')]
    /\ due' = [c \in Consumers |-> IF c \in Awaiting(id) THEN Append(due[c], items') ELSE due[c]]
    /\ UNCHANGED <<gapped, cons, fate, queue, clo>>

\* No entry for the id: the notification is kept, and the oldest goes when the
\* deque is full.
PublishEarly(id) ==
    /\ byId[id] = Nobody
    /\ \/ /\ ~Full
          /\ early' = [early EXCEPT ![id] = Append(@, items')]
          /\ UNCHANGED gapped
       \/ /\ Full
          /\ \E old \in Ids :
                /\ Oldest(old)
                /\ early' = [[early EXCEPT ![old] = Tail(@)] EXCEPT ![id] = Append(@, items')]
                /\ gapped' = gapped \cup Awaiting(old)
    /\ due' = [c \in Consumers |-> IF c \in Awaiting(id) THEN Append(due[c], items') ELSE due[c]]
    /\ UNCHANGED <<cons, fate, queue, clo>>

\* Mutant: a consumer that fell behind leaves the set and nobody cleans up.
PublishWithoutCleanup(id) ==
    LET members == cons[byId[id]]
        dead == {c \in members : fate'[c] # "none"}
    IN
    /\ byId[id] # Nobody
    /\ Deliver(members, <<items'>>)
    /\ due' = [c \in Consumers |->
                  IF c \in dead THEN <<>>
                  ELSE IF c \in members THEN Append(due[c], items') ELSE due[c]]
    /\ cons' = [cons EXCEPT ![byId[id]] = @ \ dead]
    /\ UNCHANGED <<early, gapped, clo>>

\* Consumers that are closed or fall behind leave the set and are cleaned up.
PublishTo(id) ==
    LET members == cons[byId[id]]
        dead == {c \in members : fate'[c] # "none"}
    IN
    /\ byId[id] # Nobody
    /\ Deliver(members, <<items'>>)
    /\ due' = [c \in Consumers |->
                  IF c \in dead THEN <<>>
                  ELSE IF c \in members THEN Append(due[c], items') ELSE due[c]]
    /\ cons' = [cons EXCEPT ![byId[id]] = @ \ dead]
    /\ clo' = [c \in Consumers |->
                  IF c \in dead /\ clo[c] = "none" THEN "scheduled" ELSE clo[c]]
    /\ UNCHANGED <<early, gapped>>

Publish ==
    /\ Online /\ items < MaxItems
    /\ items' = items + 1
    /\ \E p \in live : PublishEarly(p[1]) \/ PublishTo(p[1])
    /\ UNCHANGED <<flavour, session, wire, byId, req, pc, reg, auto, rst, todo, all, faults, doubtful, twice>>

\* __anext__ of an open consumer.
Take(c) ==
    /\ pc[c] = "open" /\ fate[c] = "none" /\ queue[c] # <<>>
    /\ queue' = [queue EXCEPT ![c] = Tail(@)]
    /\ due' = [due EXCEPT ![c] = IF @ = <<>> THEN @ ELSE Tail(@)]
    /\ UNCHANGED <<flavour, session, registry, req, pc, reg, fate, clo, auto, rst, todo, all,
                   counters, history>>

------------------------------------------------------------------------------
(* The broker and the session *)

BrokerAccepts ==
    /\ req.st = "sent"
    /\ Handled
    /\ req' = [req EXCEPT !.st = "ok", !.id = IF req.kind = "sub" THEN nextId ELSE @]
    /\ UNCHANGED <<flavour, mode, registry, pc, reg, local, clo, auto, rst, todo, all, counters,
                   history>>

BrokerRefuses ==
    /\ req.st = "sent"
    /\ req' = [req EXCEPT !.st = "error"]
    /\ UNCHANGED <<flavour, session, registry, pc, reg, local, clo, auto, rst, todo, all, counters,
                   history>>

\* The timer of the request: the broker may have handled it.
TimesOut ==
    /\ req.st = "sent"
    /\ Handled \/ UNCHANGED <<live, nextId>>
    /\ req' = [req EXCEPT !.st = "error"]
    /\ doubtful' = doubtful \cup Unsure
    /\ UNCHANGED <<flavour, mode, registry, pc, reg, local, clo, auto, rst, todo, all, counters,
                   gapped, twice>>

\* A session that ends fails the request in flight, unless it was answered.
SessionEnds ==
    /\ live' = {}
    /\ req' = [req EXCEPT !.st = IF @ = "sent" THEN "error" ELSE @]
    /\ doubtful' = {}
    /\ UNCHANGED nextId

Lose ==
    /\ Online /\ Fault
    /\ mode' = "down"
    /\ SessionEnds
    /\ UNCHANGED <<flavour, registry, pc, reg, local, clo, auto, rst, todo, all, items, gapped, twice>>

\* The reconnect loop's next session: its listeners run, and the next attempt starts when
\* those of the last one are through.  A session that connect() makes by hand runs no
\* listeners (connection.py:363) and is not modelled: where the loop is disabled, during
\* a clean-up, or after a loop that gave up, which has called Terminate before.
Reconnect ==
    /\ mode = "down" /\ rst = "none"
    /\ mode' = "restoring"
    /\ rst' = "locking"
    /\ UNCHANGED <<flavour, live, nextId, registry, req, pc, reg, local, clo, auto, todo, all,
                   counters, history>>

\* terminate(): the connection is closed for good, with or without a session.
Terminate ==
    /\ mode # "closed"
    /\ mode' = "closed"
    /\ SessionEnds
    /\ Clear
    /\ early' = [i \in Ids |-> <<>>]
    /\ UNCHANGED <<flavour, pc, reg, clo, auto, rst, todo, all, counters, gapped, twice>>

------------------------------------------------------------------------------
(* restore() *)

\* The loop goes on with the registrations s: it asks for the next one or ends.
RestoreNext(s) ==
    \/ /\ s = {}
       /\ rst' = "none" /\ todo' = {}
       /\ req' = NoRequest
       /\ mode' = IF mode = "restoring" THEN "up" ELSE mode
       /\ UNCHANGED twice
    \/ \E r \in s :
       /\ rst' = "asking" /\ todo' = s \ {r}
       /\ Request("sub", r, 0)
       /\ twice' = IF \E p \in live : p[2] = r THEN twice \cup {r} ELSE twice
       /\ UNCHANGED mode

RestoreRuns ==
    /\ rst = "locking" /\ Free
    /\ RestoreNext({r \in Registrations : wire[r] # 0})
    /\ UNCHANGED <<flavour, live, nextId, registry, pc, reg, local, clo, auto, all, counters,
                   gapped, doubtful>>

\* Mutant: the old id keeps pointing at the registration.
RekeyOnly(r, id) ==
    /\ wire' = [wire EXCEPT ![r] = IF @ = 0 THEN 0 ELSE id]
    /\ byId' = [byId EXCEPT ![id] = r]

\* The entry gets its new id.  After terminate() the loop still has the entry,
\* which the registry has not.
Rekey(r, id) ==
    /\ wire' = [wire EXCEPT ![r] = IF @ = 0 THEN 0 ELSE id]
    /\ byId' = [i \in Ids |->
                   IF i = id THEN r ELSE IF i = wire[r] THEN Nobody ELSE byId[i]]

\* Mutant: the registration is forgotten without telling its consumers.
FailRegistrationSilently(r) ==
    /\ Unregister(r, wire[r])
    /\ UNCHANGED local

\* fail_registration: the consumers are told and the entry is dropped.
FailRegistration(r) ==
    /\ Unregister(r, wire[r])
    /\ End(cons[r], "failed")

RestoreResumes ==
    /\ rst = "asking" /\ Answered
    /\ IF req.st = "ok"
       THEN /\ Rekey(req.reg, req.id)
            /\ Flush(req.id, cons[req.reg])
            /\ UNCHANGED <<cons, due>>
       ELSE /\ FailRegistration(req.reg)
            /\ UNCHANGED early
    /\ RestoreNext(todo)
    /\ UNCHANGED <<flavour, live, nextId, pc, reg, clo, auto, all, counters, gapped, doubtful>>

\* close() cancels the attempt that restores.
RestoreCancelled ==
    /\ mode = "closed" /\ rst # "none"
    /\ rst' = "none" /\ todo' = {}
    /\ req' = IF rst = "asking" THEN NoRequest ELSE req
    /\ UNCHANGED <<flavour, session, registry, pc, reg, local, clo, auto, all, counters, history>>

------------------------------------------------------------------------------
Next ==
    \/ \E c \in Consumers :
          \/ SubscribeCall(c)
          \/ SubscribeJoins(c)
          \/ SubscribeAsks(c)
          \/ SubscribeResumes(c)
          \/ DrainResumes(c)
          \/ UndoResumes(c)
          \/ CancelSubscribe(c)
          \/ CloseCall(c)
          \/ CleanupRuns(c)
          \/ CloseLocally(c)
          \/ CloseLast(c)
          \/ CloseResumes(c)
          \/ CancelClose(c)
          \/ Take(c)
    \/ AllCall
    \/ AllAsks
    \/ AllResumes
    \/ AllCancelled
    \/ Publish
    \/ BrokerAccepts
    \/ BrokerRefuses
    \/ TimesOut
    \/ Lose
    \/ Reconnect
    \/ Terminate
    \/ RestoreRuns
    \/ RestoreResumes
    \/ RestoreCancelled

Spec == Init /\ [][Next]_vars

------------------------------------------------------------------------------
(* Properties. *)

IsOpen(c) == pc[c] = "open" /\ fate[c] = "none"

\* The two indexes are inverse to each other while the registry is in use: no id
\* outlives its registration or leads to another one, through restorations, failed
\* unsubscribes and cancellations (_subscriptions.py:96-98, 139-142, 148).
IndexConsistent ==
    mode # "closed" =>
        /\ \A r \in Registrations : wire[r] # 0 => byId[wire[r]] = r
        /\ \A i \in Ids : byId[i] # Nobody => wire[byId[i]] = i

\* The lock holder is not busy with r.
Settled(r) == \/ Free
              \/ req.kind # "all" /\ req.reg # r

\* Outside of a restoration the broker has exactly the subscription the registry
\* knows, unless the answer to a request about it was never seen in this session
\* or it was asked for twice.  A new session removes every such doubt.
BrokerAgrees ==
    mode = "up" =>
        \A r \in Registrations :
            Settled(r) /\ r \notin doubtful \cup twice =>
                {p[1] : p \in {x \in live : x[2] = r}} = (IF wire[r] = 0 THEN {} ELSE {wire[r]})

\* What an open consumer will be given: its buffer, and what is kept for it.
InStore(c) ==
    queue[c] \o (IF c \in Awaiting(req.id) THEN early[req.id] ELSE <<>>)

\* No consumer loses, repeats or reorders a notification without being told: an open
\* one still has, in order, all that was sent to its registration since it joined and
\* that it did not take (_subscriptions.py:110-120, 172-182).  The exceptions are an
\* early notification that the bounded deque dropped, and terminate().
NothingLost ==
    mode # "closed" =>
        \A c \in Consumers :
            (IsOpen(c) \/ pc[c] = "asking") /\ c \notin gapped /\ reg[c] \notin twice
                => InStore(c) = due[c]

\* A consumer that was not told of its end is in the set of its registration, where
\* publish(), restore() and terminate() find it; one that leaves is on its way out
\* (_subscriptions.py:70-101, 121-124, 144-163).
NoForgottenConsumer ==
    \A c \in Consumers :
        IsOpen(c) /\ clo[c] \notin {"leaving", "draining"} =>
            wire[reg[c]] # 0 /\ c \in cons[reg[c]]

\* Somebody has an interest in r: a consumer whose close will still see to it, or a
\* close that is under way.
InUse(r) ==
    \E c \in Consumers :
        /\ reg[c] = r
        /\ \/ c \in cons[r] /\ clo[c] # "abandoned"
           \/ clo[c] \in {"scheduled", "locking", "leaving", "draining"}

\* A registration outlives its last consumer only when an unsubscribe failed or a close
\* was cancelled, now or before - never because of an overflow, a restoration or the order in which
\* consumers leave (_subscriptions.py:70-101, 121-124).
ReleasedUnlessFailed ==
    [][\A r \in Registrations :
          wire[r] # 0 /\ wire'[r] # 0 /\ InUse(r) /\ ~InUse(r)' =>
              \/ req.kind = "unsub" /\ req.reg = r /\ req.st = "error"
              \/ \E c \in Consumers :
                    /\ reg[c] = r
                    /\ \/ clo[c] = "draining" /\ req'.st = "idle" /\ faults' # faults
                       \/ clo'[c] = "abandoned"]_vars

==============================================================================
