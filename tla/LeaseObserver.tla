---------------------------- MODULE LeaseObserver ----------------------------
(***************************************************************************)
(* LeaseInventoryObserver (domains/lease.py): a view of the leases that    *)
(* match a pattern, rebuilt by full LIST passes, which notifications,      *)
(* reconnects, failures of the subscription and a timer ask for.           *)
(*                                                                         *)
(* Two tasks, the bootstrap loop and the consumer, and the callbacks of    *)
(* the subscription and of the connection share the observer's fields.     *)
(* _lock is never held across an await and so is not modelled.  The two    *)
(* generations are only compared with their value at the start of a pass:  *)
(* noted and resubscribed say whether they have moved since.  The broker's *)
(* inventory is a version that grows with every change, and a LIST of      *)
(* several pages counts as one answer with the version of its first page.  *)
(***************************************************************************)
EXTENDS Session

CONSTANTS MaxChanges,   \* bound: changes of the inventory
          InboxSize     \* limits.subscription_buffer_size

ASSUME LeaseObserverAssumption == MaxChanges \in Nat /\ InboxSize \in Nat \ {0}

VARIABLES obs,     \* the observer
          sub,     \* its subscription and the notifications buffered in it
          served,  \* broker: the subscription exists in this session
          flying,  \* notifications on their way
          inventory,
          restore  \* where the reconnect listeners are

observerVars == <<obs, sub, served, flying, inventory, restore>>
wireVars == <<served, flying, inventory, restore>>

ObserverType == [
    life        : {"off", "starting", "open", "closing", "closed"},
    ready       : BOOLEAN,
    buffering   : BOOLEAN,   \* _mode = "buffering"
    buffer      : BOOLEAN,   \* _buffer is not empty
    noted       : BOOLEAN,
    resubscribed : BOOLEAN,
    subReady    : BOOLEAN,   \* _subscription_ready
    invalidate  : BOOLEAN,
    view        : 0..MaxChanges,   \* the version the view shows
    list        : {"none", "asked", "answered", "failed"},  \* the LIST of the pass
    snapshot    : 0..MaxChanges,   \* the version it returns
    boot        : {"off", "idle", "waiting", "blocked", "listing", "raced", "retry", "over"},
    cons        : {"off", "iterating", "closing", "subscribing", "backoff", "over"}]

SubType == [st : {"none", "asked", "live", "failed", "ended"}, inbox : 0..InboxSize]

ObserverTypeOK ==
    /\ obs \in ObserverType /\ sub \in SubType
    /\ served \in BOOLEAN
    /\ flying \in 0..MaxChanges /\ inventory \in 0..MaxChanges
    /\ restore \in {"none", "todo", "handle"}

NoSub == [st |-> "none", inbox |-> 0]
Sub(st) == [st |-> st, inbox |-> 0]

ObserverInit ==
    /\ obs = [life |-> "off", ready |-> FALSE, buffering |-> TRUE, buffer |-> FALSE,
              noted |-> FALSE, resubscribed |-> FALSE, subReady |-> FALSE, invalidate |-> TRUE,
              view |-> 0, list |-> "none", snapshot |-> 0, boot |-> "off", cons |-> "off"]
    /\ sub = NoSub /\ served = FALSE /\ flying = 0 /\ inventory = 0 /\ restore = "none"

------------------------------------------------------------------------------
(* The callbacks. *)

\* _note_notification, before the notification is buffered.
NoteNotification(o) ==
    LET n == [o EXCEPT !.noted = TRUE]
    IN  IF o.buffering THEN n ELSE [n EXCEPT !.ready = FALSE, !.invalidate = TRUE]

\* _note_subscription_failure
NoteFailure(o) ==
    [o EXCEPT !.resubscribed = TRUE, !.subReady = FALSE, !.ready = FALSE,
              !.buffering = TRUE, !.buffer = FALSE, !.invalidate = TRUE]

\* A replacement subscription, or the first one, is in place.
NoteReplacement(o) == [o EXCEPT !.resubscribed = TRUE, !.subReady = TRUE, !.invalidate = TRUE]

------------------------------------------------------------------------------
(* Start and close. *)

Keep == UNCHANGED <<session, wireVars>>

\* observe() up to its subscription's request.
Start ==
    /\ obs.life = "off" /\ Online
    /\ obs' = [obs EXCEPT !.life = "starting"]
    /\ sub' = Sub("asked")
    /\ Keep

\* The subscription is there, or observe() raises.
StartReturns ==
    /\ obs.life = "starting" /\ sub.st # "asked"
    /\ obs' = IF sub.st = "none" THEN [obs EXCEPT !.life = "closed"]
              ELSE [NoteReplacement(obs) EXCEPT !.life = "open", !.boot = "idle",
                                                !.cons = "iterating"]
    /\ UNCHANGED sub /\ Keep

\* close() cancels the tasks and closes the subscription.
CloseObserver ==
    /\ obs.life = "open"
    /\ obs' = [obs EXCEPT !.life = "closing", !.invalidate = TRUE, !.boot = "over",
                          !.cons = "over", !.list = "none"]
    /\ UNCHANGED sub /\ Keep

CloseReturns ==
    /\ obs.life = "closing"
    /\ obs' = [obs EXCEPT !.life = "closed"]
    /\ sub' = NoSub /\ served' = FALSE /\ flying' = 0
    /\ UNCHANGED <<session, inventory, restore>>

------------------------------------------------------------------------------
(* The bootstrap loop. *)

\* One round of _bootstrap's loop, up to the LIST.
Pass(o) ==
    IF ~o.subReady THEN [o EXCEPT !.boot = "blocked"]
    ELSE [o EXCEPT !.boot = "listing", !.noted = FALSE, !.resubscribed = FALSE,
                   !.list = IF Online THEN "asked" ELSE "failed"]

Bootstrap(o) == Pass([o EXCEPT !.invalidate = FALSE, !.buffering = TRUE, !.buffer = FALSE])

Booting(stage) == obs.boot = stage /\ UNCHANGED sub /\ Keep

Invalidated ==
    /\ Booting("idle") /\ obs.invalidate
    /\ obs' = IF obs.subReady THEN Bootstrap(obs)
              ELSE [obs EXCEPT !.invalidate = FALSE, !.boot = "waiting"]

SubscriptionReady ==
    \/ Booting("waiting") /\ obs.subReady /\ obs' = Bootstrap(obs)
    \/ Booting("blocked") /\ obs.subReady /\ obs' = Pass(obs)

\* Mutant: only notifications are looked at.
RacedByNotification(o) == o.buffer \/ o.noted

\* Something invalidated the pass.
Raced(o) == o.buffer \/ o.noted \/ ~o.subReady \/ o.resubscribed

\* The LIST returns: the view is installed, or the pass repeated.
ListReturns ==
    LET o == [obs EXCEPT !.buffer = FALSE, !.list = "none"] IN
    /\ Booting("listing") /\ obs.list = "answered"
    /\ obs' = IF Raced(obs) THEN [o EXCEPT !.boot = "raced"]
              ELSE [o EXCEPT !.view = obs.snapshot, !.buffering = FALSE, !.ready = TRUE,
                             !.boot = "idle"]

ListRaises ==
    /\ Booting("listing") /\ obs.list = "failed"
    /\ obs' = [obs EXCEPT !.ready = FALSE, !.list = "none", !.boot = "retry"]

\* Mutant: a failed pass is not repeated.
BackoffForgets ==
    \/ Booting("raced") /\ obs' = Pass(obs)
    \/ Booting("retry") /\ obs' = [obs EXCEPT !.boot = "idle"]

\* The end of the two backoffs.
BackoffEnds ==
    \/ Booting("raced") /\ obs' = Pass(obs)
    \/ Booting("retry") /\ obs' = [obs EXCEPT !.invalidate = TRUE, !.boot = "idle"]

\* _reconcile_loop
Reconcile ==
    /\ obs.life = "open" /\ ~obs.invalidate
    /\ obs' = [obs EXCEPT !.ready = FALSE, !.invalidate = TRUE]
    /\ UNCHANGED sub /\ Keep

------------------------------------------------------------------------------
(* The consumer. *)

Consume ==
    /\ obs.cons = "iterating"
    /\ \/ /\ sub.inbox > 0
          /\ sub' = [sub EXCEPT !.inbox = @ - 1]
          /\ obs' = IF obs.buffering THEN [obs EXCEPT !.buffer = TRUE]
                    ELSE [obs EXCEPT !.ready = FALSE, !.invalidate = TRUE]
       \/ /\ sub.st = "failed"
          /\ obs' = [(IF obs.subReady THEN NoteFailure(obs) ELSE obs) EXCEPT !.cons = "closing"]
          /\ UNCHANGED sub
       \/ /\ sub.st = "ended"
          /\ obs' = [obs EXCEPT !.subReady = FALSE, !.ready = FALSE, !.cons = "over"]
          /\ UNCHANGED sub
    /\ Keep

\* The old subscription is closed, or a backoff ends: the next is asked for.
Resubscribe ==
    /\ obs.cons \in {"closing", "backoff"}
    /\ sub' = Sub(IF Online THEN "asked" ELSE "none")
    /\ obs' = [obs EXCEPT !.cons = IF Online THEN "subscribing" ELSE "backoff"]
    /\ served' = FALSE /\ flying' = 0
    /\ UNCHANGED <<session, inventory, restore>>

Resubscribed ==
    /\ obs.cons = "subscribing" /\ sub.st # "asked"
    /\ obs' = IF sub.st = "none" THEN [obs EXCEPT !.cons = "backoff"]
              ELSE [NoteReplacement(obs) EXCEPT !.cons = "iterating"]
    /\ UNCHANGED sub /\ Keep

------------------------------------------------------------------------------
(* The broker and the registry of subscriptions. *)

InventoryChanges ==
    /\ inventory < MaxChanges
    /\ inventory' = inventory + 1
    /\ flying' = IF served THEN flying + 1 ELSE flying
    /\ UNCHANGED <<session, obs, sub, served, restore>>

\* Mutant: one too many.
FitsOneMore == sub.inbox <= InboxSize

\* The subscription's queue has room.
Fits == sub.inbox < InboxSize

\* A notification arrives: AsyncSubscription.push, which overflows.
Notify ==
    LET noted == NoteNotification(obs) IN
    /\ flying > 0 /\ Online
    /\ flying' = flying - 1
    /\ IF sub.st # "live" THEN UNCHANGED <<obs, sub>>
       ELSE /\ sub' = IF Fits THEN [sub EXCEPT !.inbox = @ + 1] ELSE Sub("failed")
            /\ obs' = IF Fits THEN noted ELSE NoteFailure(noted)
    /\ UNCHANGED <<session, served, inventory, restore>>

SubscribeAccepted ==
    /\ sub.st = "asked" /\ Online
    /\ sub' = Sub("live") /\ served' = TRUE /\ flying' = 0
    /\ UNCHANGED <<session, obs, inventory, restore>>

SubscribeRefused == sub.st = "asked" /\ sub' = NoSub /\ UNCHANGED obs /\ Keep

ListAnswered ==
    /\ obs.list = "asked" /\ Online
    /\ obs' = [obs EXCEPT !.list = "answered", !.snapshot = inventory]
    /\ UNCHANGED sub /\ Keep

ListRefused ==
    obs.list = "asked" /\ obs' = [obs EXCEPT !.list = "failed"] /\ UNCHANGED sub /\ Keep

\* SubscriptionRegistry.restore subscribes again,
RestoreAccepted ==
    /\ restore = "todo" /\ (Online \/ sub.st # "live")
    /\ restore' = "handle"
    /\ IF sub.st = "live" THEN served' = TRUE /\ flying' = 0 ELSE UNCHANGED <<served, flying>>
    /\ UNCHANGED <<session, obs, sub, inventory>>

\* or fails the subscription.
RestoreRefused ==
    /\ restore = "todo" /\ sub.st = "live"
    /\ restore' = "handle"
    /\ sub' = Sub("failed") /\ obs' = NoteFailure(obs)
    /\ UNCHANGED <<session, served, flying, inventory>>

\* _handle_reconnect, the observer's own listener.
HandleReconnect ==
    /\ restore = "handle"
    /\ restore' = "none"
    /\ obs' = IF obs.life = "open"
              THEN [obs EXCEPT !.ready = FALSE, !.buffering = TRUE, !.buffer = FALSE,
                               !.resubscribed = TRUE, !.invalidate = TRUE]
              ELSE obs
    /\ UNCHANGED <<session, sub, served, flying, inventory>>

------------------------------------------------------------------------------
(* The session. *)

ObserverLost ==
    /\ obs' = IF obs.list = "asked" THEN [obs EXCEPT !.list = "failed"] ELSE obs
    /\ sub' = IF sub.st = "asked" THEN NoSub ELSE sub
    /\ served' = FALSE /\ flying' = 0
    /\ UNCHANGED <<inventory, restore>>

\* close() ends the subscriptions.
ObserverDisconnected ==
    /\ sub' = IF mode = "closing" /\ sub.st = "live" THEN Sub("ended") ELSE sub
    /\ UNCHANGED <<obs, wireVars>>

ObserverReconnected == restore' = "todo" /\ UNCHANGED <<obs, sub, served, flying, inventory>>

BootTask == Invalidated \/ SubscriptionReady \/ ListReturns \/ ListRaises \/ BackoffEnds
ConsumerTask == Consume \/ Resubscribe \/ Resubscribed

ObserverSteps ==
    \/ Start \/ StartReturns \/ CloseObserver \/ CloseReturns
    \/ BootTask \/ ConsumerTask \/ Reconcile
    \/ InventoryChanges \/ Notify \/ SubscribeAccepted \/ ListAnswered
    \/ RestoreAccepted \/ (RestoreRefused /\ ~Online) \/ HandleReconnect

ObserverFaults == SubscribeRefused \/ ListRefused \/ (RestoreRefused /\ Online)

------------------------------------------------------------------------------
(* Properties. *)

\* A view that is ready, with no pass under way, is the broker's inventory, or a
\* notification of a change it misses is on its way, or the failure of its
\* subscription is in front of the consumer: passes that raced a change, a
\* failure or a reconnect are never installed, and what comes later takes the
\* readiness back (lease.py:352-382, 414-452).  (During a repeated pass the old
\* view stays ready whatever is notified.)
ReadyViewIsCurrent ==
    obs.ready /\ ~obs.buffering /\ obs.life = "open" /\ mode = "up" =>
        obs.view = inventory \/ flying > 0 \/ sub.st = "failed"

\* Once the session stays, the view catches up with the inventory, again and
\* again: no interleaving of the loops, the callbacks and the listeners loses
\* the last invalidation (lease.py:384-412, 464-526).
ViewConverges ==
    <>[](mode = "up" /\ obs.life = "open") => []<>(obs.ready /\ obs.view = inventory)
===============================================================================
