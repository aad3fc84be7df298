------------------------- MODULE SubscriptionsProofs -------------------------
(***************************************************************************)
(* Invariants of Subscriptions for any number of consumers, registrations, *)
(* notifications and sessions.                                             *)
(*                                                                         *)
(* The lock has one holder and the request in flight is the holder's; an   *)
(* id is registered by the task that the broker answered with it, and by   *)
(* nobody before.  From these follow the two indexes, who is in the set of *)
(* a registration, what each consumer is still owed, and what the broker   *)
(* knows of each registration in the session that is up.                   *)
(***************************************************************************)
EXTENDS Subscriptions, FiniteSetTheorems, SequenceTheorems, TLAPS

(* A subscribe() or a close that holds the lock. *)
Asks(c) == pc[c] \in {"asking", "draining", "undoing"}
Leaves(c) == clo[c] \in {"leaving", "draining"}

OneHolder ==
    /\ \A c, d \in Consumers : Asks(c) /\ Asks(d) => c = d
    /\ \A c, d \in Consumers : Leaves(c) /\ Leaves(d) => c = d
    /\ \A c, d \in Consumers : ~(Asks(c) /\ Leaves(d))
    /\ \A c \in Consumers : Asks(c) \/ Leaves(c) => rst # "asking" /\ all # "asking"
    /\ rst # "asking" \/ all # "asking"

(* The request in flight is the one the holder waits for. *)
HolderWaits ==
    /\ Free => req = NoRequest
    /\ ~Free => req.st # "idle"
    /\ \A c \in Consumers :
          /\ pc[c] \in {"asking", "draining"} => req.kind = "sub"
          /\ pc[c] = "undoing" \/ Leaves(c) => req.kind = "unsub"
          /\ Asks(c) \/ Leaves(c) => req.reg = reg[c]
    /\ rst = "asking" => req.kind = "sub" /\ req.reg \in Registrations \ todo
    /\ rst # "asking" => todo = {}
    /\ all = "asking" => req.kind = "all"

(* What the stage of a consumer says of the rest of its state. *)
Stages ==
    /\ \A c \in Consumers :
          /\ pc[c] # "idle" => reg[c] \in Registrations
          /\ pc[c] # "open" => fate[c] = "none" /\ queue[c] = <<>> /\ clo[c] = "none"
          /\ pc[c] \in {"idle", "locking"} => due[c] = <<>>
          /\ Leaves(c) => cons[reg[c]] = {}
    /\ \A r \in Registrations :
          /\ cons[r] # {} => wire[r] # 0
          /\ \A c \in cons[r] : /\ pc[c] = "open" /\ reg[c] = r
                                /\ clo[c] \in {"none", "scheduled", "locking", "abandoned"}

(* The id that the holder was given and has not registered. *)
Given(i) ==
    /\ req.id = i
    /\ \/ req.kind = "sub" /\ req.st = "ok"
       \/ \E c \in Consumers : pc[c] = "undoing"

(* Every id in use was handed out, and the one just given is nobody's. *)
FreshIds ==
    /\ \A p \in live : p[1] < nextId
    /\ \A r \in Registrations : wire[r] < nextId
    /\ \A i \in Ids : /\ byId[i] # Nobody => i < nextId
                      /\ early[i] # <<>> => i < nextId
    /\ \A i \in 0..MaxId : Given(i) => i \in Ids /\ i < nextId

(* The indexes, with the holder in the middle of its work. *)
Indexes ==
    mode # "closed" =>
        /\ \A r \in Registrations : wire[r] # 0 => byId[wire[r]] = r
        /\ \A i \in Ids : byId[i] # Nobody => wire[byId[i]] = i
        /\ \A i \in Ids : Given(i) => byId[i] = Nobody
        /\ \A c \in Consumers : /\ Asks(c) => wire[reg[c]] = 0
                                /\ Leaves(c) => wire[reg[c]] = req.id
        /\ \A r \in todo : wire[r] # 0
        /\ rst = "asking" => wire[req.reg] # 0
        /\ \A p \in live : byId[p[1]] \in {Nobody, p[2]}
        /\ \A p \in live : Given(p[1]) => p[2] = req.reg

(* The deque holds each notification once, and only those that were sent. *)
KeptOnce ==
    \A i, j \in Ids : \A k \in 1..Len(early[i]), l \in 1..Len(early[j]) :
        /\ early[i][k] <= items
        /\ early[i][k] = early[j][l] => i = j /\ k = l

(* Nothing is kept for a registration that has consumers. *)
NothingKept == \A r \in Registrations : cons[r] # {} => early[wire[r]] = <<>>

(* Nothing is sent for a consumer before the broker has its request. *)
NothingDue == \A c \in Consumers : pc[c] = "asking" /\ ~(req.st = "ok") => due[c] = <<>>

(* The broker has only the subscription that restore() just made. *)
RestoredOnce ==
    rst = "asking" /\ req.reg \notin twice =>
        /\ req.st = "ok" => \A p \in live : p[2] = req.reg => p[1] = req.id
        /\ req.st = "sent" => \A p \in live : p[2] # req.reg

(* What the consumers are owed. *)
Owed == mode # "closed" => NothingKept /\ NothingDue /\ RestoredOnce

(* What the broker has for r. *)
Has(r, id) == \A i \in Ids : <<i, r>> \in live <=> i = id
HasAtMost(r, id) == \A i \in Ids : <<i, r>> \in live => i = id

Sessions ==
    /\ mode \in {"down", "closed"} => live = {} /\ req.st # "sent"
    /\ mode = "up" => rst = "none"
    /\ mode = "restoring" => rst # "none"

(* Restored: what the registry has for r was asked for in this session. *)
Current(r) == mode = "up" \/ (rst = "asking" /\ r \notin todo)

(* The id that the broker should have for r: what the registry will write     *)
(* down when the holder of the lock is through.                               *)
Wanted(r) ==
    CASE req.kind = "sub" /\ req.reg = r -> IF req.st = "ok" THEN req.id ELSE 0
      [] req.kind = "unsub" /\ req.reg = r -> IF req.st = "ok" THEN 0 ELSE req.id
      [] req.kind = "all" -> IF req.st = "ok" THEN 0 ELSE wire[r]
      [] OTHER -> wire[r]

Agrees(r) == IF Current(r) THEN Has(r, Wanted(r)) ELSE HasAtMost(r, Wanted(r))

Known == Online => \A r \in Registrations \ (doubtful \cup twice) : Agrees(r)

SubscriptionsInv ==
    /\ TypeOK /\ OneHolder /\ HolderWaits /\ Stages /\ FreshIds /\ Indexes /\ KeptOnce
    /\ Owed /\ NothingLost /\ NoForgottenConsumer /\ Sessions /\ Known

------------------------------------------------------------------------------
(* The lock. *)

Locked == OneHolder /\ HolderWaits

(* A step that neither takes the lock nor lets go of it. *)
HolderStays ==
    /\ \A c \in Consumers :
          /\ pc'[c] = pc[c] \/ (~Asks(c) /\ ~Asks(c)')
          /\ clo'[c] = clo[c] \/ (~Leaves(c) /\ ~Leaves(c)')
          /\ reg'[c] = reg[c] \/ (~Asks(c) /\ ~Leaves(c))
    /\ rst' = "asking" <=> rst = "asking"
    /\ all' = "asking" <=> all = "asking"
    /\ todo' = todo

(* The request stays, as far as the holder is concerned. *)
SameRequest ==
    /\ req'.kind = req.kind /\ req'.reg = req.reg
    /\ req.st = "idle" <=> req'.st = "idle"
    /\ req.st = "idle" => req' = req

LEMMA HolderIsFree ==
    Free <=> /\ \A c \in Consumers : ~Asks(c) /\ ~Leaves(c)
             /\ rst # "asking" /\ all # "asking"
  BY DEF Free, Asks, Leaves

LEMMA HolderStaysLocked ==
    ASSUME Locked, HolderStays, SameRequest
    PROVE  Locked'
<1>1. Free' <=> Free
  BY HolderIsFree DEF HolderStays, Asks, Leaves, Free
<1>2. OneHolder'
  BY DEF Locked, OneHolder, HolderStays, Asks, Leaves
<1>3. HolderWaits'
  BY <1>1 DEF Locked, HolderWaits, HolderStays, SameRequest, NoRequest, Asks, Leaves
<1>4. QED
  BY <1>2, <1>3 DEF Locked

(* The lock is let go of, and nobody takes it in the same step. *)
LEMMA Released ==
    ASSUME Free', req' = NoRequest, todo' = {}
    PROVE  Locked'
<1>1. OneHolder'
  BY DEF OneHolder, Free, Asks, Leaves
<1>2. HolderWaits'
  BY DEF HolderWaits, Free, Asks, Leaves
<1>3. QED
  BY <1>1, <1>2 DEF Locked

(* What a consumer can be, as far as the lock is concerned. *)
LEMMA SubscriberHolds ==
    ASSUME Locked, NEW c \in Consumers, Asks(c)
    PROVE  /\ \A d \in Consumers : Asks(d) => d = c
           /\ \A d \in Consumers : ~Leaves(d)
           /\ rst # "asking" /\ all # "asking" /\ todo = {} /\ ~Free
           /\ req.st # "idle" /\ req.reg = reg[c]
           /\ req.kind = IF pc[c] = "undoing" THEN "unsub" ELSE "sub"
  BY DEF Locked, OneHolder, HolderWaits, Asks, Free

LEMMA CloserHolds ==
    ASSUME Locked, NEW c \in Consumers, Leaves(c)
    PROVE  /\ \A d \in Consumers : Leaves(d) => d = c
           /\ \A d \in Consumers : ~Asks(d)
           /\ rst # "asking" /\ all # "asking" /\ todo = {} /\ ~Free
           /\ req.st # "idle" /\ req.reg = reg[c] /\ req.kind = "unsub"
  BY DEF Locked, OneHolder, HolderWaits, Leaves, Free

LEMMA RestoreHolds ==
    ASSUME Locked, rst = "asking"
    PROVE  /\ \A d \in Consumers : ~Asks(d) /\ ~Leaves(d)
           /\ all # "asking" /\ ~Free
           /\ req.st # "idle" /\ req.kind = "sub" /\ req.reg \in Registrations \ todo
  BY DEF Locked, OneHolder, HolderWaits, Leaves, Asks, Free

LEMMA AllHolds ==
    ASSUME Locked, all = "asking"
    PROVE  /\ \A d \in Consumers : ~Asks(d) /\ ~Leaves(d)
           /\ rst # "asking" /\ todo = {} /\ ~Free
           /\ req.st # "idle" /\ req.kind = "all"
  BY DEF Locked, OneHolder, HolderWaits, Leaves, Asks, Free

LEMMA SubscriberLock ==
    ASSUME TasksTyped, RegistryTyped, Locked, Stages, NEW c \in Consumers,
           \/ SubscribeCall(c) \/ SubscribeJoins(c) \/ SubscribeAsks(c) \/ SubscribeResumes(c)
           \/ DrainResumes(c) \/ UndoResumes(c) \/ CancelSubscribe(c)
    PROVE  Locked'
<1>0. /\ pc \in [Consumers -> {"idle", "locking", "asking", "draining", "undoing", "open",
                               "failed"}]
      /\ reg \in [Consumers -> Registrations \cup {Nobody}]
  BY DEF TasksTyped
<1>1. CASE SubscribeCall(c)
  <2>1. /\ pc[c] = "idle" /\ pc' = [pc EXCEPT ![c] = "locking"]
        /\ \E r \in Registrations : reg' = [reg EXCEPT ![c] = r]
        /\ UNCHANGED <<req, clo, rst, all, todo>>
    BY <1>1 DEF SubscribeCall
  <2>2. HolderStays /\ SameRequest
    BY <1>0, <2>1 DEF HolderStays, SameRequest, Stages, Asks, Leaves
  <2>3. QED
    BY <2>2, HolderStaysLocked
<1>2. CASE SubscribeJoins(c)
  <2>1. /\ pc[c] = "locking" /\ pc' = [pc EXCEPT ![c] = "open"]
        /\ UNCHANGED <<req, reg, clo, rst, all, todo>>
    BY <1>2 DEF SubscribeJoins
  <2>2. HolderStays /\ SameRequest
    BY <1>0, <2>1 DEF HolderStays, SameRequest, Asks, Leaves
  <2>3. QED
    BY <2>2, HolderStaysLocked
<1>3. CASE SubscribeAsks(c)
  <2>1. /\ Free /\ pc' = [pc EXCEPT ![c] = "asking"]
        /\ UNCHANGED <<reg, clo, rst, all, todo>>
        /\ req'.kind = "sub" /\ req'.reg = reg[c] /\ req'.st \in {"sent", "error"}
    BY <1>3 DEF SubscribeAsks, Request
  <2>2. QED
    BY <1>0, <2>1 DEF Locked, OneHolder, HolderWaits, Free, Asks, Leaves
<1>4. CASE SubscribeResumes(c)
  <2>1. /\ pc[c] = "asking" /\ \E v \in {"open", "failed"} : pc' = [pc EXCEPT ![c] = v]
        /\ req' = NoRequest /\ UNCHANGED <<reg, clo, rst, all, todo>>
    BY <1>4 DEF SubscribeResumes
  <2>2. Free' /\ todo' = {}
    BY <1>0, <2>1, SubscriberHolds DEF Free, Asks, Leaves
  <2>3. QED
    BY <2>1, <2>2, Released
<1>5. CASE DrainResumes(c)
  <2>1. /\ pc[c] = "draining" /\ UNCHANGED <<reg, clo, rst, all, todo>>
        /\ \/ pc' = [pc EXCEPT ![c] = "failed"] /\ req' = NoRequest
           \/ /\ pc' = [pc EXCEPT ![c] = "undoing"] /\ req'.kind = "unsub"
              /\ req'.reg = reg[c] /\ req'.st \in {"sent", "error"}
    BY <1>5 DEF DrainResumes, Request
  <2>2. CASE pc' = [pc EXCEPT ![c] = "failed"] /\ req' = NoRequest
    <3>1. Free' /\ todo' = {}
      BY <1>0, <2>1, <2>2, SubscriberHolds DEF Free, Asks, Leaves
    <3>2. QED
      BY <2>2, <3>1, Released
  <2>3. CASE /\ pc' = [pc EXCEPT ![c] = "undoing"] /\ req'.kind = "unsub"
             /\ req'.reg = reg[c] /\ req'.st \in {"sent", "error"}
    <3>1. \A d \in Consumers : Asks(d)' <=> d = c
      BY <1>0, <2>1, <2>3, SubscriberHolds DEF Asks
    <3>2. \A d \in Consumers : ~Leaves(d)'
      BY <2>1, SubscriberHolds DEF Asks, Leaves
    <3>3. rst' # "asking" /\ all' # "asking" /\ todo' = {}
      BY <2>1, SubscriberHolds DEF Asks
    <3>4. ~Free' /\ pc'[c] = "undoing" /\ reg'[c] = reg[c]
      BY <1>0, <2>1, <2>3 DEF Free
    <3>5. \A d \in Consumers : pc'[d] \in {"asking", "draining", "undoing"} => d = c
      BY <3>1 DEF Asks
    <3>6. OneHolder' /\ HolderWaits'
      BY <2>3, <3>1, <3>2, <3>3, <3>4, <3>5 DEF OneHolder, HolderWaits
    <3>7. QED
      BY <3>6 DEF Locked
  <2>4. QED
    BY <2>1, <2>2, <2>3
<1>6. CASE UndoResumes(c)
  <2>1. /\ pc[c] = "undoing" /\ pc' = [pc EXCEPT ![c] = "failed"]
        /\ req' = NoRequest /\ UNCHANGED <<reg, clo, rst, all, todo>>
    BY <1>6 DEF UndoResumes
  <2>2. Free' /\ todo' = {}
    BY <1>0, <2>1, SubscriberHolds DEF Free, Asks, Leaves
  <2>3. QED
    BY <2>1, <2>2, Released
<1>7. CASE CancelSubscribe(c)
  <2>1. /\ UNCHANGED <<reg, clo, rst, all, todo>>
        /\ \/ pc[c] = "locking" /\ pc' = [pc EXCEPT ![c] = "failed"] /\ req' = req
           \/ pc[c] = "asking" /\ pc' = [pc EXCEPT ![c] = "draining"] /\ req' = req
           \/ Asks(c) /\ pc' = [pc EXCEPT ![c] = "failed"] /\ req' = NoRequest
    BY <1>7 DEF CancelSubscribe, AbandonRequest, Asks
  <2>2. CASE pc[c] = "locking" /\ pc' = [pc EXCEPT ![c] = "failed"] /\ req' = req
    <3>1. HolderStays /\ SameRequest
      BY <1>0, <2>1, <2>2 DEF HolderStays, SameRequest, Asks, Leaves
    <3>2. QED
      BY <3>1, HolderStaysLocked
  <2>3. CASE pc[c] = "asking" /\ pc' = [pc EXCEPT ![c] = "draining"] /\ req' = req
    <3>1. /\ \A d \in Consumers : Asks(d)' <=> Asks(d)
          /\ \A d \in Consumers : Leaves(d)' <=> Leaves(d)
      BY <1>0, <2>1, <2>3 DEF Asks, Leaves
    <3>2. \A d \in Consumers :
          /\ pc'[d] \in {"asking", "draining"}
             <=> pc[d] \in {"asking", "draining"}
          /\ pc'[d] = "undoing" <=> pc[d] = "undoing"
      BY <1>0, <2>3
    <3>3. Free' <=> Free
      BY <2>1, <3>1 DEF Free, Asks, Leaves
    <3>4. OneHolder' /\ HolderWaits'
      BY <2>1, <2>3, <3>1, <3>2, <3>3 DEF Locked, OneHolder, HolderWaits
    <3>5. QED
      BY <3>4 DEF Locked
  <2>4. CASE Asks(c) /\ pc' = [pc EXCEPT ![c] = "failed"] /\ req' = NoRequest
    <3>1. Free' /\ todo' = {}
      BY <1>0, <2>1, <2>4, SubscriberHolds DEF Free, Asks, Leaves
    <3>2. QED
      BY <2>4, <3>1, Released
  <2>5. QED
    BY <2>1, <2>2, <2>3, <2>4
<1>8. QED
  BY <1>1, <1>2, <1>3, <1>4, <1>5, <1>6, <1>7

LEMMA CloserLock ==
    ASSUME TasksTyped, RegistryTyped, Locked, NEW c \in Consumers,
           \/ CloseCall(c) \/ CleanupRuns(c) \/ CloseLocally(c) \/ CloseLast(c)
           \/ CloseResumes(c) \/ CancelClose(c) \/ Take(c)
    PROVE  Locked'
<1>0. clo \in [Consumers -> {"none", "scheduled", "locking", "leaving", "draining", "done",
                              "abandoned"}]
  BY DEF TasksTyped
<1>1. CASE CloseCall(c) \/ CleanupRuns(c)
  <2>1. /\ clo[c] \in {"none", "scheduled"} /\ clo' = [clo EXCEPT ![c] = "locking"]
        /\ UNCHANGED <<req, pc, reg, rst, all, todo>>
    BY <1>1 DEF CloseCall, CleanupRuns
  <2>2. HolderStays /\ SameRequest
    BY <1>0, <2>1 DEF HolderStays, SameRequest, Asks, Leaves
  <2>3. QED
    BY <2>2, HolderStaysLocked
<1>2. CASE CloseLocally(c)
  <2>1. /\ clo[c] = "locking" /\ clo' = [clo EXCEPT ![c] = "done"]
        /\ UNCHANGED <<req, pc, reg, rst, all, todo>>
    BY <1>2 DEF CloseLocally
  <2>2. HolderStays /\ SameRequest
    BY <1>0, <2>1 DEF HolderStays, SameRequest, Asks, Leaves
  <2>3. QED
    BY <2>2, HolderStaysLocked
<1>3. CASE CloseLast(c)
  <2>1. /\ Free /\ clo' = [clo EXCEPT ![c] = "leaving"]
        /\ UNCHANGED <<reg, pc, rst, all, todo>>
        /\ req'.kind = "unsub" /\ req'.reg = reg[c] /\ req'.st \in {"sent", "error"}
    BY <1>3 DEF CloseLast, Request
  <2>2. QED
    BY <1>0, <2>1 DEF Locked, OneHolder, HolderWaits, Free, Asks, Leaves
<1>4. CASE CloseResumes(c)
  <2>1. /\ Leaves(c) /\ clo' = [clo EXCEPT ![c] = "done"]
        /\ req' = NoRequest /\ UNCHANGED <<reg, pc, rst, all, todo>>
    BY <1>4 DEF CloseResumes, Leaves
  <2>2. Free' /\ todo' = {}
    BY <1>0, <2>1, CloserHolds DEF Free, Asks, Leaves
  <2>3. QED
    BY <2>1, <2>2, Released
<1>5. CASE CancelClose(c)
  <2>1. /\ UNCHANGED <<reg, pc, rst, all, todo>>
        /\ \/ clo[c] = "locking" /\ clo' = [clo EXCEPT ![c] = "abandoned"] /\ req' = req
           \/ clo[c] = "leaving" /\ clo' = [clo EXCEPT ![c] = "draining"] /\ req' = req
           \/ clo[c] = "draining" /\ clo' = [clo EXCEPT ![c] = "done"] /\ req' = NoRequest
    BY <1>5 DEF CancelClose, AbandonRequest
  <2>2. CASE clo[c] = "locking" /\ clo' = [clo EXCEPT ![c] = "abandoned"] /\ req' = req
    <3>1. HolderStays /\ SameRequest
      BY <1>0, <2>1, <2>2 DEF HolderStays, SameRequest, Asks, Leaves
    <3>2. QED
      BY <3>1, HolderStaysLocked
  <2>3. CASE clo[c] = "leaving" /\ clo' = [clo EXCEPT ![c] = "draining"] /\ req' = req
    <3>1. /\ \A d \in Consumers : Asks(d)' <=> Asks(d)
          /\ \A d \in Consumers : Leaves(d)' <=> Leaves(d)
      BY <1>0, <2>1, <2>3 DEF Asks, Leaves
    <3>2. Free' <=> Free
      BY <2>1, <3>1 DEF Free, Asks, Leaves
    <3>3. OneHolder' /\ HolderWaits'
      BY <2>1, <2>3, <3>1, <3>2 DEF Locked, OneHolder, HolderWaits
    <3>4. QED
      BY <3>3 DEF Locked
  <2>4. CASE clo[c] = "draining" /\ clo' = [clo EXCEPT ![c] = "done"] /\ req' = NoRequest
    <3>1. Free' /\ todo' = {}
      BY <1>0, <2>1, <2>4, CloserHolds DEF Free, Asks, Leaves
    <3>2. QED
      BY <2>4, <3>1, Released
  <2>5. QED
    BY <2>1, <2>2, <2>3, <2>4
<1>6. CASE Take(c)
  <2>1. UNCHANGED <<req, pc, reg, clo, rst, all, todo>>
    BY <1>6 DEF Take
  <2>2. HolderStays /\ SameRequest
    BY <2>1 DEF HolderStays, SameRequest
  <2>3. QED
    BY <2>2, HolderStaysLocked
<1>7. QED
  BY <1>1, <1>2, <1>3, <1>4, <1>5, <1>6

LEMMA AllLock ==
    ASSUME Locked, AllCall \/ AllAsks \/ AllResumes \/ AllCancelled
    PROVE  Locked'
<1>1. CASE AllCall
  <2>1. /\ all = "none" /\ all' = "locking"
        /\ UNCHANGED <<req, pc, reg, clo, rst, todo>>
    BY <1>1 DEF AllCall
  <2>2. HolderStays /\ SameRequest
    BY <2>1 DEF HolderStays, SameRequest, Asks, Leaves
  <2>3. QED
    BY <2>2, HolderStaysLocked
<1>2. CASE AllAsks
  <2>1. /\ Free /\ all' = "asking"
        /\ UNCHANGED <<reg, pc, clo, rst, todo>>
        /\ req'.kind = "all" /\ req'.st \in {"sent", "error"}
    BY <1>2 DEF AllAsks, Request
  <2>2. QED
    BY <2>1 DEF Locked, OneHolder, HolderWaits, Free, Asks, Leaves
<1>3. CASE AllResumes \/ (AllCancelled /\ all = "asking")
  <2>1. /\ all = "asking" /\ all' = "done"
        /\ req' = NoRequest /\ UNCHANGED <<reg, pc, clo, rst, todo>>
    BY <1>3 DEF AllResumes, AllCancelled, AbandonRequest
  <2>2. Free' /\ todo' = {}
    BY <2>1, AllHolds DEF Free, Asks, Leaves
  <2>3. QED
    BY <2>1, <2>2, Released
<1>4. CASE AllCancelled /\ all # "asking"
  <2>1. /\ all' = "done" /\ UNCHANGED <<req, pc, reg, clo, rst, todo>>
    BY <1>4 DEF AllCancelled
  <2>2. HolderStays /\ SameRequest
    BY <1>4, <2>1 DEF HolderStays, SameRequest, Asks, Leaves
  <2>3. QED
    BY <2>2, HolderStaysLocked
<1>5. QED
  BY <1>1, <1>2, <1>3, <1>4

LEMMA SessionLock ==
    ASSUME TasksTyped, RegistryTyped, Locked,
           \/ Publish \/ BrokerAccepts \/ BrokerRefuses \/ TimesOut \/ Lose
           \/ Reconnect \/ Terminate
    PROVE  Locked'
<1>1. CASE Publish
  <2>1. /\ UNCHANGED <<req, pc, reg, rst, all, todo>>
        /\ \A c \in Consumers :
              clo'[c] = clo[c] \/ (clo[c] = "none" /\ clo'[c] = "scheduled")
    <3>1. UNCHANGED <<req, pc, reg, rst, all, todo>>
      BY <1>1 DEF Publish
    <3>2. PICK p \in live : PublishEarly(p[1]) \/ PublishTo(p[1])
      BY <1>1 DEF Publish
    <3>3. CASE PublishEarly(p[1])
      BY <3>1, <3>3 DEF PublishEarly
    <3>4. CASE PublishTo(p[1])
      BY <3>1, <3>4 DEF PublishTo
    <3>5. QED
      BY <3>2, <3>3, <3>4
  <2>2. HolderStays /\ SameRequest
    BY <2>1 DEF HolderStays, SameRequest, Asks, Leaves, TasksTyped
  <2>3. QED
    BY <2>2, HolderStaysLocked
<1>2. CASE BrokerAccepts \/ BrokerRefuses \/ TimesOut \/ Lose \/ Terminate
  <2>1. UNCHANGED <<pc, reg, clo, rst, all, todo>>
    BY <1>2 DEF BrokerAccepts, BrokerRefuses, TimesOut, Lose, Terminate
  <2>2. SameRequest
    BY <1>2 DEF BrokerAccepts, BrokerRefuses, TimesOut, Lose, Terminate, SessionEnds,
       SameRequest, RegistryTyped, Requests
  <2>3. QED
    BY <2>1, <2>2, HolderStaysLocked DEF HolderStays
<1>3. CASE Reconnect
  <2>1. /\ rst = "none" /\ rst' = "locking"
        /\ UNCHANGED <<req, pc, reg, clo, all, todo>>
    BY <1>3 DEF Reconnect
  <2>2. HolderStays /\ SameRequest
    BY <2>1 DEF HolderStays, SameRequest
  <2>3. QED
    BY <2>2, HolderStaysLocked
<1>4. QED
  BY <1>1, <1>2, <1>3

LEMMA RestoreLock ==
    ASSUME TasksTyped, RegistryTyped, Locked, RestoreRuns \/ RestoreResumes \/ RestoreCancelled
    PROVE  Locked'
<1>1. CASE RestoreRuns \/ RestoreResumes
  <2>1. /\ UNCHANGED <<pc, reg, clo, all>>
        /\ \A c \in Consumers : ~Asks(c) /\ ~Leaves(c)
        /\ all # "asking"
    BY <1>1, HolderIsFree, RestoreHolds DEF RestoreRuns, RestoreResumes
  <2>2. PICK s \in SUBSET Registrations : RestoreNext(s)
    BY <1>1 DEF RestoreRuns, RestoreResumes, TasksTyped, RegistryTyped
  <2>3. CASE rst' = "none" /\ todo' = {} /\ req' = NoRequest
    <3>1. Free'
      BY <2>1, <2>3 DEF Free, Asks, Leaves
    <3>2. QED
      BY <2>3, <3>1, Released
  <2>4. CASE \E r \in s : /\ rst' = "asking" /\ todo' = s \ {r}
                          /\ Request("sub", r, 0)
    <3>1. PICK r \in s : rst' = "asking" /\ todo' = s \ {r} /\ Request("sub", r, 0)
      BY <2>4
    <3>2. req'.kind = "sub" /\ req'.reg = r /\ req'.st \in {"sent", "error"}
      BY <3>1 DEF Request
    <3>3. \A c \in Consumers : ~Asks(c)' /\ ~Leaves(c)'
      BY <2>1 DEF Asks, Leaves
    <3>4. OneHolder'
      BY <2>1, <3>1, <3>3 DEF OneHolder
    <3>5. ~Free'
      BY <3>1 DEF Free
    <3>6. HolderWaits'
      BY <2>1, <3>1, <3>2, <3>3, <3>5 DEF HolderWaits, Asks, Leaves
    <3>7. QED
      BY <3>4, <3>6 DEF Locked
  <2>5. QED
    BY <2>2, <2>3, <2>4 DEF RestoreNext
<1>2. CASE RestoreCancelled
  <2>1. /\ rst' = "none" /\ todo' = {} /\ UNCHANGED <<pc, reg, clo, all>>
        /\ req' = IF rst = "asking" THEN NoRequest ELSE req
    BY <1>2 DEF RestoreCancelled
  <2>2. CASE rst = "asking"
    <3>1. Free'
      BY <2>1, <2>2, RestoreHolds DEF Free, Asks, Leaves
    <3>2. QED
      BY <2>1, <2>2, <3>1, Released
  <2>3. CASE rst # "asking"
    <3>1. HolderStays /\ SameRequest
      BY <2>1, <2>3 DEF Locked, HolderWaits, HolderStays, SameRequest, Asks, Leaves
    <3>2. QED
      BY <3>1, HolderStaysLocked
  <2>4. QED
    BY <2>2, <2>3
<1>3. QED
  BY <1>1, <1>2

LEMMA LockStep ==
    ASSUME TasksTyped, RegistryTyped, Locked, Stages, Next
    PROVE  Locked'
  BY SubscriberLock, CloserLock, AllLock, SessionLock, RestoreLock DEF Next

------------------------------------------------------------------------------
(* Types. *)

LEMMA Bounds ==
    /\ MaxId \in Nat /\ MaxItems \in Nat /\ MaxFaults \in Nat
    /\ Capacity \in Nat \ {0} /\ Nobody \notin Registrations
    /\ IsFiniteSet(Consumers)
  BY SubscriptionsAssumption DEF SubscriptionsAssumption

LEMMA NoRequestTyped == NoRequest \in Requests
  BY Bounds DEF NoRequest, Requests

\* A request for a registration and an id that exist.
LEMMA RequestTyped ==
    ASSUME NEW kind \in {"sub", "unsub", "all"}, NEW r \in Registrations \cup {Nobody},
           NEW id \in 0..MaxId, Request(kind, r, id)
    PROVE  /\ req' \in Requests
           /\ req'.kind = kind /\ req'.reg = r /\ req'.id = id
           /\ req'.st = (IF Online THEN "sent" ELSE "error")
  BY DEF Request, Requests

LEMMA DeliverTyped ==
    ASSUME BuffersTyped, NEW cs, NEW s \in Seq(1..MaxItems), Deliver(cs, s)
    PROVE  /\ fate' \in [Consumers -> {"none", "failed", "ended"}]
           /\ queue' \in [Consumers -> Seq(1..MaxItems)]
           /\ \A c \in Consumers : Len(queue'[c]) <= Capacity
<1>1. fate' \in [Consumers -> {"none", "failed", "ended"}]
  BY DEF Deliver, BuffersTyped
<1>2. queue' \in [Consumers -> Seq(1..MaxItems)]
  <2>1. \A c \in Consumers : queue[c] \o s \in Seq(1..MaxItems) /\ <<>> \in Seq(1..MaxItems)
    BY DEF BuffersTyped
  <2>2. QED
    BY <2>1 DEF Deliver, BuffersTyped
<1>3. ASSUME NEW c \in Consumers PROVE Len(queue'[c]) <= Capacity
  <2>1. queue[c] \in Seq(1..MaxItems) /\ Len(queue[c]) <= Capacity
    BY DEF BuffersTyped
  <2>2. \/ queue'[c] = queue[c]
        \/ queue'[c] = queue[c] \o s /\ Len(queue[c]) + Len(s) <= Capacity
        \/ queue'[c] = <<>>
    BY DEF Deliver, Fits
  <2>3. Len(queue[c] \o s) = Len(queue[c]) + Len(s)
    BY <2>1
  <2>4. QED
    BY <2>1, <2>2, <2>3, Bounds
<1>4. QED
  BY <1>1, <1>2, <1>3

LEMMA EndTyped ==
    ASSUME BuffersTyped, NEW cs, NEW how \in {"failed", "ended"}, End(cs, how)
    PROVE  /\ fate' \in [Consumers -> {"none", "failed", "ended"}]
           /\ queue' \in [Consumers -> Seq(1..MaxItems)]
           /\ \A c \in Consumers : Len(queue'[c]) <= Capacity
           /\ due' \in [Consumers -> Seq(1..MaxItems)]
<1>1. fate' \in [Consumers -> {"none", "failed", "ended"}]
  BY DEF End, BuffersTyped
<1>2. <<>> \in Seq(1..MaxItems)
  OBVIOUS
<1>3. queue' \in [Consumers -> Seq(1..MaxItems)]
  BY <1>2 DEF End, BuffersTyped
<1>4. due' \in [Consumers -> Seq(1..MaxItems)]
  BY <1>2 DEF End, BuffersTyped
<1>5. \A c \in Consumers : queue'[c] = queue[c] \/ queue'[c] = <<>>
  BY DEF End
<1>6. \A c \in Consumers : Len(queue'[c]) <= Capacity
  BY <1>5, Bounds DEF BuffersTyped
<1>7. QED
  BY <1>1, <1>3, <1>4, <1>6

LEMMA FlushTyped ==
    ASSUME BuffersTyped, NEW id \in Ids, NEW cs, Flush(id, cs)
    PROVE  /\ early' \in [Ids -> Seq(1..MaxItems)]
           /\ fate' \in [Consumers -> {"none", "failed", "ended"}]
           /\ queue' \in [Consumers -> Seq(1..MaxItems)]
           /\ \A c \in Consumers : Len(queue'[c]) <= Capacity
<1>1. early[id] \in Seq(1..MaxItems) /\ early' \in [Ids -> Seq(1..MaxItems)]
  BY DEF BuffersTyped, Flush
<1>2. QED
  BY <1>1, DeliverTyped DEF Flush

(* A registration a consumer asked for. *)
LEMMA RegTyped ==
    ASSUME Stages, NEW c \in Consumers, pc[c] # "idle" \/ clo[c] # "none"
    PROVE  reg[c] \in Registrations
  BY DEF Stages

(* The registration a request is about. *)
LEMMA RequestReg ==
    ASSUME Locked, Stages, req.st # "idle", req.kind # "all"
    PROVE  req.reg \in Registrations
<1>1. ~Free
  BY DEF Locked, HolderWaits, NoRequest
<1>2. CASE \E c \in Consumers : Asks(c) \/ Leaves(c)
  BY <1>2 DEF Locked, HolderWaits, Stages, Asks, Leaves
<1>3. CASE rst = "asking" \/ all = "asking"
  BY <1>3 DEF Locked, HolderWaits
<1>4. QED
  BY <1>1, <1>2, <1>3, HolderIsFree

LEMMA TasksTypedStep ==
    ASSUME TasksTyped, Next
    PROVE  TasksTyped'
<1>1. CASE \E c \in Consumers : SubscribeResumes(c)
  <2>1. PICK c \in Consumers : SubscribeResumes(c)
    BY <1>1
  <2>2. /\ \E v \in {"open", "failed"} : pc' = [pc EXCEPT ![c] = v]
        /\ UNCHANGED <<flavour, mode, reg, clo, auto, rst, todo, all, items, faults, gapped, twice>>
    BY <2>1 DEF SubscribeResumes, session, counters, history
  <2>3. QED
    BY <2>2 DEF TasksTyped
<1>2. ASSUME NEW c \in Consumers, SubscribeCall(c) \/ SubscribeJoins(c) \/ SubscribeAsks(c)
      PROVE  TasksTyped'
  BY <1>2, Bounds DEF TasksTyped, SubscribeCall, SubscribeJoins, SubscribeAsks, session,
     counters, history
<1>3. ASSUME NEW c \in Consumers, DrainResumes(c) \/ UndoResumes(c)
      PROVE  TasksTyped'
  BY <1>3, Bounds DEF TasksTyped, DrainResumes, UndoResumes, session, counters, history
<1>4. ASSUME NEW c \in Consumers, CancelSubscribe(c)
      PROVE  TasksTyped'
  BY <1>4, Bounds DEF TasksTyped, CancelSubscribe, Fault, AbandonRequest, session, counters, history
<1>5. ASSUME NEW c \in Consumers, CloseCall(c) \/ CleanupRuns(c) \/ CloseLocally(c) \/ Take(c)
      PROVE  TasksTyped'
  BY <1>5, Bounds DEF TasksTyped, CloseCall, CleanupRuns, CloseLocally, Take, session,
     counters, history
<1>6. ASSUME NEW c \in Consumers, CloseLast(c) \/ CloseResumes(c)
      PROVE  TasksTyped'
  BY <1>6, Bounds DEF TasksTyped, CloseLast, CloseResumes, session, counters, history
<1>7. ASSUME NEW c \in Consumers, CancelClose(c)
      PROVE  TasksTyped'
  BY <1>7, Bounds DEF TasksTyped, CancelClose, Fault, AbandonRequest, session, counters, history
<1>8. CASE AllCall \/ AllAsks \/ AllResumes
  BY <1>8, Bounds DEF TasksTyped, AllCall, AllAsks, AllResumes, session, counters, history
<1>9. CASE AllCancelled
  BY <1>9, Bounds DEF TasksTyped, AllCancelled, Fault, AbandonRequest, session, counters, history
<1>10. CASE Publish
  BY <1>10, Bounds DEF TasksTyped, Publish, PublishEarly, PublishTo, Awaiting, session,
     counters, history
<1>11. CASE BrokerAccepts \/ BrokerRefuses
  BY <1>11, Bounds DEF TasksTyped, BrokerAccepts, BrokerRefuses, session, counters, history
<1>12. CASE TimesOut \/ Lose
  BY <1>12, Bounds DEF TasksTyped, TimesOut, Lose, Fault, session, counters, history
<1>13. CASE Reconnect \/ Terminate
  BY <1>13, Bounds DEF TasksTyped, Reconnect, Terminate, session, counters, history
<1>14. CASE RestoreRuns \/ RestoreResumes
  BY <1>14, Bounds DEF TasksTyped, RestoreRuns, RestoreResumes, RestoreNext, session,
     counters, history
<1>15. CASE RestoreCancelled
  BY <1>15, Bounds DEF TasksTyped, RestoreCancelled, session, counters, history
<1>16. QED
  BY <1>1, <1>2, <1>3, <1>4, <1>5, <1>6, <1>7, <1>8, <1>9, <1>10, <1>11, <1>12, <1>13, <1>14,
     <1>15 DEF Next

LEMMA RegisterTyped ==
    ASSUME RegistryTyped, NEW r \in Registrations, NEW id \in 0..MaxId, Register(r, id)
    PROVE  wire' \in [Registrations -> 0..MaxId] /\ byId' \in [Ids -> Registrations \cup {Nobody}]
  BY DEF RegistryTyped, Register

LEMMA UnregisterTyped ==
    ASSUME RegistryTyped, NEW r \in Registrations, NEW id, Unregister(r, id)
    PROVE  /\ wire' \in [Registrations -> 0..MaxId]
           /\ byId' \in [Ids -> Registrations \cup {Nobody}]
           /\ cons' \in [Registrations -> SUBSET Consumers]
<1>1. wire' \in [Registrations -> 0..MaxId] /\ cons' \in [Registrations -> SUBSET Consumers]
  BY Bounds DEF RegistryTyped, Unregister
<1>2. byId' \in [Ids -> Registrations \cup {Nobody}]
  BY DEF RegistryTyped, Unregister
<1>3. QED
  BY <1>1, <1>2

LEMMA HandledTyped ==
    ASSUME RegistryTyped, req.kind = "sub" => req.reg \in Registrations, Handled
    PROVE  live' \subseteq Ids \X Registrations /\ nextId' \in 1..(MaxId + 1)
  BY Bounds DEF RegistryTyped, Handled, Ids

LEMMA AbandonTyped ==
    ASSUME RegistryTyped, req.kind # "all" => req.reg \in Registrations, AbandonRequest
    PROVE  /\ live' \subseteq Ids \X Registrations /\ nextId' \in 1..(MaxId + 1)
           /\ req' \in Requests /\ doubtful' \subseteq Registrations
<1>1. live' \subseteq Ids \X Registrations /\ nextId' \in 1..(MaxId + 1)
  BY HandledTyped DEF RegistryTyped, AbandonRequest
<1>2. req' \in Requests
  BY NoRequestTyped DEF AbandonRequest
<1>3. doubtful' \subseteq Registrations
  BY DEF RegistryTyped, AbandonRequest, Unsure
<1>4. QED
  BY <1>1, <1>2, <1>3

LEMMA ChangedRequestTyped ==
    ASSUME req \in Requests, NEW st \in {"ok", "error"}, NEW id \in 0..MaxId,
           req' = [req EXCEPT !.st = st, !.id = id]
    PROVE  req' \in Requests
  BY DEF Requests

LEMMA FailedRequestTyped ==
    ASSUME req \in Requests, req' = [req EXCEPT !.st = "error"]
    PROVE  req' \in Requests
  BY DEF Requests

LEMMA RegistryTypedStep ==
    ASSUME TasksTyped, RegistryTyped, Locked, Stages, Next
    PROVE  RegistryTyped'
<1>0. /\ wire \in [Registrations -> 0..MaxId] /\ cons \in [Registrations -> SUBSET Consumers]
      /\ req \in Requests /\ req.id \in 0..MaxId
      /\ \A c \in Consumers : pc[c] # "idle" => reg[c] \in Registrations
      /\ \A c \in Consumers : clo[c] # "none" => reg[c] \in Registrations
  BY DEF RegistryTyped, Stages, Requests
<1>1. ASSUME NEW c \in Consumers, SubscribeCall(c) \/ SubscribeJoins(c)
      PROVE  RegistryTyped'
  BY <1>0, <1>1 DEF RegistryTyped, SubscribeCall, SubscribeJoins, session, registry, history
<1>2. ASSUME NEW c \in Consumers, SubscribeAsks(c)
      PROVE  RegistryTyped'
  <2>1. req' \in Requests
    BY <1>0, <1>2, Bounds, RequestTyped DEF SubscribeAsks
  <2>2. QED
    BY <1>2, <2>1 DEF RegistryTyped, SubscribeAsks, session, registry, history
<1>3. ASSUME NEW c \in Consumers, SubscribeResumes(c)
      PROVE  RegistryTyped'
  <2>1. reg[c] \in Registrations
    BY <1>0, <1>3 DEF SubscribeResumes
  <2>2. CASE req.st = "ok"
    <3>1. /\ Register(reg[c], req.id)
          /\ cons' = [cons EXCEPT ![reg[c]] = @ \cup {c}]
          /\ req' = NoRequest /\ UNCHANGED <<live, nextId, doubtful>>
      BY <1>3, <2>2 DEF SubscribeResumes, session, history
    <3>2. QED
      BY <1>0, <2>1, <3>1, RegisterTyped, NoRequestTyped DEF RegistryTyped
  <2>3. CASE req.st # "ok"
    BY <1>3, <2>3, NoRequestTyped DEF RegistryTyped, SubscribeResumes, session, registry, history
  <2>4. QED
    BY <2>2, <2>3
<1>4. ASSUME NEW c \in Consumers, DrainResumes(c)
      PROVE  RegistryTyped'
  <2>1. req' \in Requests
    BY <1>0, <1>4, RequestTyped, NoRequestTyped DEF DrainResumes
  <2>2. QED
    BY <1>4, <2>1 DEF RegistryTyped, DrainResumes, session, registry, history
<1>5. ASSUME NEW c \in Consumers, UndoResumes(c)
      PROVE  RegistryTyped'
  <2>1. /\ (wire' = wire /\ byId' = byId) \/ Register(reg[c], req.id)
        /\ req' = NoRequest /\ UNCHANGED <<live, nextId, cons, doubtful>>
        /\ reg[c] \in Registrations
    BY <1>0, <1>5 DEF UndoResumes, session, history
  <2>2. QED
    BY <1>0, <2>1, RegisterTyped, NoRequestTyped DEF RegistryTyped
<1>6. ASSUME NEW c \in Consumers, CancelSubscribe(c)
      PROVE  RegistryTyped'
  <2>1. cons' = cons /\ reg[c] \in Registrations
    BY <1>0, <1>6 DEF CancelSubscribe
  <2>2. CASE UNCHANGED <<live, nextId, wire, byId, req, doubtful>>
    BY <2>1, <2>2 DEF RegistryTyped
  <2>3. CASE /\ Asks(c) /\ AbandonRequest
             /\ (wire' = wire /\ byId' = byId) \/ Register(reg[c], req.id)
    <3>1. req.reg \in Registrations
      BY <2>1, <2>3, SubscriberHolds
    <3>2. /\ wire' \in [Registrations -> 0..MaxId]
          /\ byId' \in [Ids -> Registrations \cup {Nobody}]
      BY <1>0, <2>1, <2>3, RegisterTyped DEF RegistryTyped
    <3>3. QED
      BY <2>1, <2>3, <3>1, <3>2, AbandonTyped DEF RegistryTyped
  <2>4. QED
    BY <1>6, <2>2, <2>3 DEF CancelSubscribe, Asks
<1>7. ASSUME NEW c \in Consumers, CloseCall(c) \/ CleanupRuns(c) \/ CloseLocally(c) \/ Take(c)
      PROVE  RegistryTyped'
  BY <1>0, <1>7
     DEF RegistryTyped, CloseCall, CleanupRuns, CloseLocally, Take, session, registry, history
<1>8. ASSUME NEW c \in Consumers, CloseLast(c)
      PROVE  RegistryTyped'
  <2>1. reg[c] \in Registrations /\ wire[reg[c]] \in 0..MaxId
    BY <1>0, <1>8 DEF CloseLast
  <2>2. req' \in Requests
    BY <1>8, <2>1, RequestTyped DEF CloseLast
  <2>3. QED
    BY <1>0, <1>8, <2>1, <2>2 DEF RegistryTyped, CloseLast, session, registry, history
<1>9. ASSUME NEW c \in Consumers, CloseResumes(c)
      PROVE  RegistryTyped'
  <2>1. /\ Unregister(reg[c], req.id) \/ UNCHANGED <<wire, byId, cons>>
        /\ req' = NoRequest /\ UNCHANGED <<live, nextId, doubtful>>
        /\ reg[c] \in Registrations
    BY <1>0, <1>9 DEF CloseResumes, session, history
  <2>2. QED
    BY <2>1, UnregisterTyped, NoRequestTyped DEF RegistryTyped
<1>10. ASSUME NEW c \in Consumers, CancelClose(c)
       PROVE  RegistryTyped'
  <2>1. /\ UNCHANGED <<wire, cons, byId>> /\ reg[c] \in Registrations
        /\ \/ UNCHANGED <<live, nextId, req, doubtful>>
           \/ Leaves(c) /\ AbandonRequest
    BY <1>0, <1>10 DEF CancelClose, registry, Leaves
  <2>2. CASE UNCHANGED <<live, nextId, req, doubtful>>
    BY <2>1, <2>2 DEF RegistryTyped
  <2>3. CASE Leaves(c) /\ AbandonRequest
    <3>1. req.reg \in Registrations
      BY <2>1, <2>3, CloserHolds
    <3>2. QED
      BY <2>1, <2>3, <3>1, AbandonTyped DEF RegistryTyped
  <2>4. QED
    BY <2>1, <2>2, <2>3
<1>11. CASE AllCall
  BY <1>11 DEF RegistryTyped, AllCall, session, registry, history
<1>12. CASE AllAsks
  <2>1. req' \in Requests
    BY <1>12, Bounds, RequestTyped DEF AllAsks
  <2>2. QED
    BY <1>12, <2>1 DEF RegistryTyped, AllAsks, session, registry, history
<1>13. CASE AllResumes \/ Terminate
  <2>1. /\ Clear \/ UNCHANGED <<wire, byId, cons>>
        /\ UNCHANGED nextId /\ live' \in {live, {}} /\ doubtful' \in {doubtful, {}}
    BY <1>13 DEF AllResumes, Terminate, SessionEnds, session, history
  <2>2. /\ wire' \in [Registrations -> 0..MaxId]
        /\ byId' \in [Ids -> Registrations \cup {Nobody}]
        /\ cons' \in [Registrations -> SUBSET Consumers]
    BY <2>1, Bounds DEF Clear, RegistryTyped
  <2>3. req' \in Requests
    BY <1>0, <1>13, NoRequestTyped, FailedRequestTyped
       DEF AllResumes, Terminate, SessionEnds, Requests
  <2>4. QED
    BY <2>1, <2>2, <2>3 DEF RegistryTyped
<1>14. CASE AllCancelled
  <2>1. UNCHANGED <<wire, cons, byId>>
    BY <1>14 DEF AllCancelled, registry
  <2>2. \/ UNCHANGED <<live, nextId, req, doubtful>>
        \/ all = "asking" /\ AbandonRequest
    BY <1>14 DEF AllCancelled
  <2>3. QED
    BY <2>1, <2>2, AllHolds, AbandonTyped DEF RegistryTyped
<1>24. CASE Publish
  <2>1. UNCHANGED <<live, nextId, wire, byId, req, doubtful>>
    BY <1>24 DEF Publish, session
  <2>2. cons' \in [Registrations -> SUBSET Consumers]
    <3>1. PICK p \in live : PublishEarly(p[1]) \/ PublishTo(p[1])
      BY <1>24 DEF Publish
    <3>2. \/ cons' = cons
          \/ \E dead : cons' = [cons EXCEPT ![byId[p[1]]] = @ \ dead]
      BY <3>1 DEF PublishEarly, PublishTo
    <3>3. QED
      BY <1>0, <3>2
  <2>3. QED
    BY <2>1, <2>2 DEF RegistryTyped
<1>16. CASE BrokerAccepts
  <2>1. UNCHANGED <<wire, cons, byId, doubtful>>
    BY <1>16 DEF BrokerAccepts, registry, history
  <2>2. req.kind = "sub" => req.reg \in Registrations
    BY <1>16, RequestReg DEF BrokerAccepts
  <2>3. req.kind = "sub" => nextId \in 0..MaxId
    BY <1>16, Bounds DEF BrokerAccepts, Handled, Ids
  <2>4. live' \subseteq Ids \X Registrations /\ nextId' \in 1..(MaxId + 1)
    BY <1>16, <2>2, HandledTyped DEF BrokerAccepts
  <2>5. req' \in Requests
    BY <1>0, <1>16, <2>3, ChangedRequestTyped DEF BrokerAccepts
  <2>6. QED
    BY <2>1, <2>4, <2>5 DEF RegistryTyped
<1>17. CASE BrokerRefuses
  <2>1. UNCHANGED <<live, nextId, wire, cons, byId, doubtful>>
    BY <1>17 DEF BrokerRefuses, session, registry, history
  <2>2. req' \in Requests
    BY <1>0, <1>17, FailedRequestTyped DEF BrokerRefuses
  <2>3. QED
    BY <2>1, <2>2 DEF RegistryTyped
<1>18. CASE TimesOut
  <2>1. UNCHANGED <<wire, cons, byId>> /\ req.st # "idle"
    BY <1>18 DEF TimesOut, registry
  <2>2. req.kind # "all" => req.reg \in Registrations
    BY <2>1, RequestReg
  <2>3. live' \subseteq Ids \X Registrations /\ nextId' \in 1..(MaxId + 1)
    BY <1>18, <2>2, HandledTyped DEF TimesOut, RegistryTyped
  <2>4. req' \in Requests
    BY <1>0, <1>18, FailedRequestTyped DEF TimesOut
  <2>5. doubtful' \subseteq Registrations
    BY <1>18, <2>2 DEF TimesOut, Unsure, RegistryTyped
  <2>6. QED
    BY <2>1, <2>3, <2>4, <2>5 DEF RegistryTyped
<1>19. CASE Lose
  <2>1. UNCHANGED <<nextId, wire, cons, byId>> /\ live' = {} /\ doubtful' = {}
    BY <1>19 DEF Lose, SessionEnds, registry
  <2>2. req' \in Requests
    BY <1>0, <1>19, FailedRequestTyped DEF Lose, SessionEnds, Requests
  <2>3. QED
    BY <2>1, <2>2 DEF RegistryTyped
<1>20. CASE Reconnect
  BY <1>20 DEF RegistryTyped, Reconnect, registry, history
<1>21. CASE RestoreRuns \/ RestoreResumes
  <2>1. PICK s \in SUBSET Registrations : RestoreNext(s)
    BY <1>21 DEF RestoreRuns, RestoreResumes, TasksTyped
  <2>2. req' \in Requests
    <3>1. req' = NoRequest \/ \E r \in s : Request("sub", r, 0)
      BY <2>1 DEF RestoreNext
    <3>2. QED
      BY <3>1, Bounds, RequestTyped, NoRequestTyped
  <2>3. UNCHANGED <<live, nextId, doubtful>>
    BY <1>21 DEF RestoreRuns, RestoreResumes
  <2>4. /\ wire' \in [Registrations -> 0..MaxId]
        /\ byId' \in [Ids -> Registrations \cup {Nobody}]
        /\ cons' \in [Registrations -> SUBSET Consumers]
    <3>1. CASE RestoreRuns
      BY <3>1 DEF RestoreRuns, registry, RegistryTyped
    <3>2. CASE RestoreResumes
      <4>1. req.reg \in Registrations
        BY <3>2, RestoreHolds DEF RestoreResumes
      <4>2. \/ Rekey(req.reg, req.id) /\ cons' = cons
            \/ Unregister(req.reg, wire[req.reg])
        BY <3>2 DEF RestoreResumes, FailRegistration
      <4>3. CASE Rekey(req.reg, req.id) /\ cons' = cons
        BY <1>0, <4>1, <4>3, Bounds DEF Rekey, RegistryTyped
      <4>4. CASE Unregister(req.reg, wire[req.reg])
        BY <4>1, <4>4, UnregisterTyped
      <4>5. QED
        BY <4>2, <4>3, <4>4
    <3>3. QED
      BY <1>21, <3>1, <3>2
  <2>5. QED
    BY <2>2, <2>3, <2>4 DEF RegistryTyped
<1>22. CASE RestoreCancelled
  <2>1. req' \in Requests
    BY <1>0, <1>22, NoRequestTyped DEF RestoreCancelled
  <2>2. QED
    BY <1>22, <2>1 DEF RegistryTyped, RestoreCancelled, session, registry, history
<1>23. QED
  BY <1>1, <1>2, <1>3, <1>4, <1>5, <1>6, <1>7, <1>8, <1>9, <1>10, <1>11, <1>12, <1>13, <1>14,
     <1>24, <1>16, <1>17, <1>18, <1>19, <1>20, <1>21, <1>22 DEF Next

(* A subscription that was accepted has an id. *)
LEMMA OkIsGiven ==
    ASSUME RegistryTyped, FreshIds, req.st = "ok", req.kind = "sub"
    PROVE  Given(req.id) /\ req.id \in Ids /\ req.id < nextId
<1>1. req.id \in 0..MaxId /\ Given(req.id)
  BY DEF RegistryTyped, Requests, Given
<1>2. QED
  BY <1>1 DEF FreshIds

LEMMA PublishTyped ==
    ASSUME TasksTyped, RegistryTyped, BuffersTyped, Publish
    PROVE  BuffersTyped'
<1>1. PICK p \in live : PublishEarly(p[1]) \/ PublishTo(p[1])
  BY DEF Publish
<1>2. items' \in 1..MaxItems /\ p[1] \in Ids /\ <<items'>> \in Seq(1..MaxItems)
  BY Bounds DEF Publish, TasksTyped, RegistryTyped
<1>3. \A s \in Seq(1..MaxItems) : Append(s, items') \in Seq(1..MaxItems)
  BY <1>2
<1>4. CASE PublishEarly(p[1])
  <2>1. UNCHANGED <<fate, queue>>
    BY <1>4 DEF PublishEarly
  <2>2. due' \in [Consumers -> Seq(1..MaxItems)]
    BY <1>3, <1>4 DEF PublishEarly, BuffersTyped
  <2>3. ASSUME NEW f \in [Ids -> Seq(1..MaxItems)]
        PROVE  [f EXCEPT ![p[1]] = Append(@, items')] \in [Ids -> Seq(1..MaxItems)]
    BY <1>2, <1>3
  <2>4. \A old \in Ids : Oldest(old) =>
            [early EXCEPT ![old] = Tail(@)] \in [Ids -> Seq(1..MaxItems)]
    BY DEF BuffersTyped, Oldest
  <2>5. early' \in [Ids -> Seq(1..MaxItems)]
    <3>1. CASE early' = [early EXCEPT ![p[1]] = Append(@, items')]
      BY <2>3, <3>1 DEF BuffersTyped
    <3>2. ASSUME NEW old \in Ids, Oldest(old),
                 early' = [[early EXCEPT ![old] = Tail(@)] EXCEPT ![p[1]] = Append(@, items')]
          PROVE  early' \in [Ids -> Seq(1..MaxItems)]
      BY <2>3, <2>4, <3>2
    <3>3. QED
      BY <1>4, <3>1, <3>2 DEF PublishEarly
  <2>6. QED
    BY <2>1, <2>2, <2>5 DEF BuffersTyped
<1>5. CASE PublishTo(p[1])
  <2>1. Deliver(cons[byId[p[1]]], <<items'>>) /\ early' = early
    BY <1>5 DEF PublishTo
  <2>2. due' \in [Consumers -> Seq(1..MaxItems)]
    <3>1. <<>> \in Seq(1..MaxItems)
      OBVIOUS
    <3>2. QED
      BY <1>3, <1>5, <3>1 DEF PublishTo, BuffersTyped
  <2>3. QED
    BY <1>2, <2>1, <2>2, DeliverTyped DEF BuffersTyped
<1>6. QED
  BY <1>1, <1>4, <1>5

LEMMA BuffersTypedStep ==
    ASSUME TasksTyped, RegistryTyped, BuffersTyped, Locked, Stages, FreshIds, Next
    PROVE  BuffersTyped'
<1>0. /\ wire \in [Registrations -> 0..MaxId] /\ <<>> \in Seq(1..MaxItems)
      /\ due \in [Consumers -> Seq(1..MaxItems)] /\ early \in [Ids -> Seq(1..MaxItems)]
      /\ queue \in [Consumers -> Seq(1..MaxItems)]
  BY DEF RegistryTyped, BuffersTyped
<1>1. ASSUME NEW c \in Consumers,
             \/ SubscribeCall(c) \/ SubscribeAsks(c) \/ DrainResumes(c) \/ UndoResumes(c)
             \/ CloseCall(c) \/ CleanupRuns(c) \/ CloseLast(c)
      PROVE  BuffersTyped'
  <2>1. UNCHANGED <<early, fate, queue, due>>
    BY <1>1 DEF SubscribeCall, SubscribeAsks, DrainResumes, UndoResumes, CloseCall, CleanupRuns,
       CloseLast, registry, local
  <2>2. QED
    BY <2>1 DEF BuffersTyped
<1>2. ASSUME NEW c \in Consumers, SubscribeJoins(c)
      PROVE  BuffersTyped'
  <2>1. wire[reg[c]] \in Ids
    BY <1>0, <1>2, RegTyped DEF SubscribeJoins, Ids
  <2>2. Flush(wire[reg[c]], cons'[reg[c]]) /\ due' = [due EXCEPT ![c] = early[wire[reg[c]]]]
    BY <1>2 DEF SubscribeJoins
  <2>3. due' \in [Consumers -> Seq(1..MaxItems)]
    BY <1>0, <2>1, <2>2
  <2>4. QED
    BY <2>1, <2>2, <2>3, FlushTyped DEF BuffersTyped
<1>3. ASSUME NEW c \in Consumers, SubscribeResumes(c)
      PROVE  BuffersTyped'
  <2>1. due' = due
    BY <1>3 DEF SubscribeResumes
  <2>2. CASE req.st # "ok"
    BY <1>3, <2>1, <2>2 DEF SubscribeResumes, registry, BuffersTyped
  <2>3. CASE req.st = "ok" /\ req.id \in Ids
    <3>1. Flush(req.id, cons'[reg[c]])
      BY <1>3, <2>3 DEF SubscribeResumes
    <3>2. QED
      BY <2>1, <2>3, <3>1, FlushTyped DEF BuffersTyped
  <2>4. QED
    BY <1>3, <2>2, <2>3, OkIsGiven, SubscriberHolds DEF SubscribeResumes, Asks
<1>4. ASSUME NEW c \in Consumers, CancelSubscribe(c)
      PROVE  BuffersTyped'
  BY <1>0, <1>4 DEF CancelSubscribe, BuffersTyped
<1>5. ASSUME NEW c \in Consumers, CloseLocally(c) \/ CloseResumes(c) \/ CancelClose(c)
      PROVE  BuffersTyped'
  <2>1. early' = early /\ (UNCHANGED <<fate, queue, due>> \/ End({c}, "ended"))
    BY <1>5 DEF CloseLocally, CloseResumes, CancelClose, registry, local
  <2>2. QED
    BY <2>1, EndTyped DEF BuffersTyped
<1>6. ASSUME NEW c \in Consumers, Take(c)
      PROVE  BuffersTyped'
  <2>1. /\ queue[c] # <<>> /\ queue' = [queue EXCEPT ![c] = Tail(@)]
        /\ due' = [due EXCEPT ![c] = IF @ = <<>> THEN @ ELSE Tail(@)]
        /\ UNCHANGED <<early, fate>>
    BY <1>6 DEF Take, registry
  <2>2. \A s \in Seq(1..MaxItems) : s # <<>> => Tail(s) \in Seq(1..MaxItems)
    OBVIOUS
  <2>3. queue' \in [Consumers -> Seq(1..MaxItems)] /\ due' \in [Consumers -> Seq(1..MaxItems)]
    BY <1>0, <2>2, <2>1
  <2>4. \A d \in Consumers : Len(queue'[d]) <= Capacity
    <3>1. Len(queue'[c]) = Len(queue[c]) - 1
      BY <1>0, <2>1
    <3>2. Len(queue[c]) \in Nat /\ Len(queue[c]) <= Capacity
      BY DEF BuffersTyped
    <3>3. QED
      BY <1>0, <2>1, <3>1, <3>2, Bounds DEF BuffersTyped
  <2>5. QED
    BY <2>1, <2>3, <2>4 DEF BuffersTyped
<1>7. CASE AllCall \/ AllAsks \/ AllCancelled
  BY <1>7 DEF AllCall, AllAsks, AllCancelled, registry, local, BuffersTyped
<1>8. CASE AllResumes \/ Terminate
  <2>1. UNCHANGED <<fate, queue, due>> \/ End(Members, "ended")
    BY <1>8 DEF AllResumes, Terminate, Clear, local
  <2>2. early' \in [Ids -> Seq(1..MaxItems)]
    BY <1>0, <1>8 DEF AllResumes, Terminate
  <2>3. QED
    BY <2>1, <2>2, EndTyped DEF BuffersTyped
<1>9. CASE \/ BrokerAccepts \/ BrokerRefuses \/ TimesOut \/ Lose \/ Reconnect
           \/ RestoreRuns \/ RestoreCancelled
  <2>1. UNCHANGED <<early, fate, queue, due>>
    BY <1>9 DEF BrokerAccepts, BrokerRefuses, TimesOut, Lose, Reconnect, RestoreRuns,
       RestoreCancelled, registry, local
  <2>2. QED
    BY <2>1 DEF BuffersTyped
<1>10. CASE RestoreResumes
  <2>1. CASE req.st = "ok" /\ req.id \in Ids
    <3>1. Flush(req.id, cons[req.reg]) /\ due' = due
      BY <1>10, <2>1 DEF RestoreResumes
    <3>2. QED
      BY <2>1, <3>1, FlushTyped DEF BuffersTyped
  <2>2. CASE req.st # "ok"
    <3>1. End(cons[req.reg], "failed") /\ early' = early
      BY <1>10, <2>2 DEF RestoreResumes, FailRegistration
    <3>2. QED
      BY <3>1, EndTyped DEF BuffersTyped
  <2>3. QED
    BY <1>10, <2>1, <2>2, OkIsGiven, RestoreHolds DEF RestoreResumes
<1>11. QED
  BY <1>1, <1>2, <1>3, <1>4, <1>5, <1>6, <1>7, <1>8, <1>9, <1>10, PublishTyped DEF Next

------------------------------------------------------------------------------
(* The deque of early notifications. *)

LEMMA ElementOf ==
    ASSUME NEW T, NEW s \in Seq(T), NEW k \in 1..Len(s)
    PROVE  s[k] \in T
  OBVIOUS

LEMMA KeptNumbers ==
    ASSUME BuffersTyped, NEW i \in Ids, NEW k \in 1..Len(early[i])
    PROVE  early[i][k] \in 1..MaxItems /\ early[i][k] \in Nat
<1>1. early[i] \in Seq(1..MaxItems)
  BY DEF BuffersTyped
<1>2. early[i][k] \in 1..MaxItems
  BY <1>1, ElementOf
<1>3. QED
  BY <1>2, Bounds

LEMMA InKept ==
    \A n : n \in Kept <=> \E i \in Ids : \E k \in 1..Len(early[i]) : n = early[i][k]
  BY DEF Kept

LEMMA KeptIsFinite ==
    ASSUME TasksTyped, BuffersTyped
    PROVE  /\ Kept \subseteq 1..MaxItems /\ IsFiniteSet(Kept)
           /\ Cardinality(Kept) \in Nat
<1>1. Kept \subseteq 1..MaxItems
  BY InKept, KeptNumbers
<1>2. IsFiniteSet(1..MaxItems)
  BY Bounds, FS_Interval
<1>3. IsFiniteSet(Kept) /\ Cardinality(Kept) \in Nat
  BY <1>1, <1>2, FS_Subset, FS_CardinalityType
<1>4. QED
  BY <1>1, <1>3

\* A step that at most empties what is kept for some of the ids.
LEMMA KeptShrinks ==
    ASSUME TasksTyped, BuffersTyped, TasksTyped', items' >= items,
           Cardinality(Kept) <= Capacity, KeptOnce,
           \A i \in Ids : early'[i] = early[i] \/ early'[i] = <<>>
    PROVE  Cardinality(Kept') <= Capacity /\ KeptOnce'
<1>1. Kept' \subseteq Kept
  BY DEF Kept
<1>2. Cardinality(Kept') <= Cardinality(Kept) /\ Cardinality(Kept') \in Nat
  BY <1>1, KeptIsFinite, FS_Subset, FS_CardinalityType
<1>3. Cardinality(Kept') <= Capacity
  BY <1>2, KeptIsFinite, Bounds
<1>4. KeptOnce'
  <2>1. SUFFICES ASSUME NEW i \in Ids, NEW j \in Ids,
                        NEW k \in 1..Len(early'[i]), NEW l \in 1..Len(early'[j])
                 PROVE  /\ early'[i][k] <= items'
                        /\ early'[i][k] = early'[j][l] => i = j /\ k = l
    BY DEF KeptOnce
  <2>2. early'[i] = early[i] /\ early'[j] = early[j]
    OBVIOUS
  <2>3. early[i][k] \in Nat /\ early[i][k] <= items
    BY <2>2, KeptNumbers DEF KeptOnce
  <2>4. items' \in Nat /\ items \in Nat
    BY DEF TasksTyped
  <2>5. QED
    BY <2>2, <2>3, <2>4 DEF KeptOnce
<1>5. QED
  BY <1>3, <1>4

LEMMA PublishEarlyKeeps ==
    ASSUME TasksTyped, RegistryTyped, BuffersTyped, Cardinality(Kept) <= Capacity, KeptOnce,
           items' = items + 1, items' \in 1..MaxItems, NEW id \in Ids, PublishEarly(id)
    PROVE  Cardinality(Kept') <= Capacity /\ KeptOnce'
<1>0. early \in [Ids -> Seq(1..MaxItems)] /\ items \in Nat
  BY DEF TasksTyped, BuffersTyped
<1>1. PICK d \in [Ids -> {0, 1}], base \in [Ids -> Seq(1..MaxItems)] :
          /\ \A i \in Ids : \/ d[i] = 0 /\ base[i] = early[i]
                            \/ d[i] = 1 /\ early[i] # <<>> /\ base[i] = Tail(early[i])
          /\ early' = [base EXCEPT ![id] = Append(@, items')]
          /\ Full => \E i \in Ids : d[i] = 1
  <2>1. CASE ~Full
    <3>1. early' = [early EXCEPT ![id] = Append(@, items')]
      BY <2>1 DEF PublishEarly
    <3>2. [i \in Ids |-> 0] \in [Ids -> {0, 1}]
      OBVIOUS
    <3>3. \A i \in Ids : [j \in Ids |-> 0][i] = 0
      OBVIOUS
    <3>4. QED
      BY <1>0, <2>1, <3>1, <3>2, <3>3
  <2>2. CASE Full
    <3>1. PICK old \in Ids :
            /\ Oldest(old)
            /\ early' = [[early EXCEPT ![old] = Tail(@)] EXCEPT ![id] = Append(@, items')]
      BY <2>2 DEF PublishEarly
    <3> DEFINE d == [i \in Ids |-> IF i = old THEN 1 ELSE 0]
               base == [early EXCEPT ![old] = Tail(@)]
    <3>2. early[old] # <<>> /\ Tail(early[old]) \in Seq(1..MaxItems)
      BY <1>0, <3>1 DEF Oldest
    <3>3. d \in [Ids -> {0, 1}] /\ base \in [Ids -> Seq(1..MaxItems)]
      BY <1>0, <3>2
    <3>4. \A i \in Ids : \/ d[i] = 0 /\ base[i] = early[i]
                         \/ d[i] = 1 /\ early[i] # <<>> /\ base[i] = Tail(early[i])
      BY <1>0, <3>2
    <3>5. d[old] = 1 /\ early' = [base EXCEPT ![id] = Append(@, items')]
      BY <3>1
    <3> HIDE DEF d, base
    <3>6. QED
      BY <3>3, <3>4, <3>5
  <2>3. QED
    BY <2>1, <2>2
<1>2. ASSUME NEW i \in Ids, NEW k \in 1..Len(early'[i])
      PROVE  \/ i = id /\ k = Len(early'[i]) /\ early'[i][k] = items'
             \/ \E m \in 1..Len(early[i]) : m = k + d[i] /\ early'[i][k] = early[i][m]
  <2>1. early[i] \in Seq(1..MaxItems) /\ base[i] \in Seq(1..MaxItems)
    BY <1>0
  <2>2. ASSUME NEW l \in 1..Len(base[i])
        PROVE  \E m \in 1..Len(early[i]) : m = l + d[i] /\ base[i][l] = early[i][m]
    <3>1. CASE d[i] = 0 /\ base[i] = early[i]
      BY <2>1, <3>1
    <3>2. CASE d[i] = 1 /\ early[i] # <<>> /\ base[i] = Tail(early[i])
      <4>1. l + 1 \in 1..Len(early[i]) /\ base[i][l] = early[i][l + 1]
        BY <2>1, <3>2
      <4>2. QED
        BY <3>2, <4>1
    <3>3. QED
      BY <1>1, <3>1, <3>2
  <2>3. CASE i # id
    <3>1. early'[i] = base[i]
      BY <1>1, <2>3
    <3>2. QED
      BY <2>2, <3>1
  <2>4. CASE i = id
    <3>1. early'[i] = Append(base[i], items')
      BY <1>1, <2>4
    <3>2. Len(early'[i]) = Len(base[i]) + 1 /\ Len(base[i]) \in Nat
      BY <2>1, <3>1
    <3>3. CASE k = Len(base[i]) + 1
      BY <2>1, <2>4, <3>1, <3>2, <3>3
    <3>4. CASE k \in 1..Len(base[i])
      <4>1. early'[i][k] = base[i][k]
        BY <2>1, <3>1, <3>4
      <4>2. QED
        BY <2>2, <3>4, <4>1
    <3>5. QED
      BY <3>2, <3>3, <3>4
  <2>5. QED
    BY <2>3, <2>4
<1>3. \A i \in Ids : \A k \in 1..Len(early[i]) : early[i][k] \in Nat /\ early[i][k] <= items
  BY KeptNumbers DEF KeptOnce
<1>4. KeptOnce'
  <2>1. SUFFICES ASSUME NEW i \in Ids, NEW j \in Ids,
                        NEW k \in 1..Len(early'[i]), NEW l \in 1..Len(early'[j])
                 PROVE  /\ early'[i][k] <= items'
                        /\ early'[i][k] = early'[j][l] => i = j /\ k = l
    BY DEF KeptOnce
  <2>2. /\ \/ i = id /\ k = Len(early'[i]) /\ early'[i][k] = items'
           \/ \E m \in 1..Len(early[i]) : m = k + d[i] /\ early'[i][k] = early[i][m]
        /\ \/ j = id /\ l = Len(early'[j]) /\ early'[j][l] = items'
           \/ \E m \in 1..Len(early[j]) : m = l + d[j] /\ early'[j][l] = early[j][m]
    BY <1>2
  <2>3. early'[i][k] <= items'
    BY <1>0, <1>3, <2>2, SMTT(30)
  <2>4. ASSUME early'[i][k] = early'[j][l]
        PROVE  i = j /\ k = l
    <3>1. CASE early'[i][k] = items'
      <4>1. \A x \in Ids : \A m \in 1..Len(early[x]) : early[x][m] # items'
        BY <1>0, <1>3
      <4>2. i = id /\ k = Len(early'[i]) /\ j = id /\ l = Len(early'[j])
        BY <2>2, <2>4, <3>1, <4>1
      <4>3. QED
        BY <4>2
    <3>2. CASE early'[i][k] # items'
      <4>1. PICK m \in 1..Len(early[i]) : m = k + d[i] /\ early'[i][k] = early[i][m]
        BY <2>2, <3>2
      <4>2. PICK n \in 1..Len(early[j]) : n = l + d[j] /\ early'[j][l] = early[j][n]
        BY <2>2, <2>4, <3>2
      <4>3. early[i][m] = early[j][n]
        BY <2>4, <4>1, <4>2
      <4>4. i = j /\ m = n
        BY <4>3 DEF KeptOnce
      <4>5. d[i] \in {0, 1} /\ k + d[i] = l + d[i]
        BY <4>1, <4>2, <4>4
      <4>6. QED
        BY <4>4, <4>5
    <3>3. QED
      BY <3>1, <3>2
  <2>5. QED
    BY <2>3, <2>4
<1>5. ASSUME NEW n \in Kept'
      PROVE  \/ n = items'
             \/ \E i \in Ids : \E m \in 1..Len(early[i]) : m >= 1 + d[i] /\ n = early[i][m]
  <2>1. PICK i \in Ids : n \in {early'[i][k] : k \in 1..Len(early'[i])}
    BY DEF Kept
  <2>2. PICK k \in 1..Len(early'[i]) : n = early'[i][k]
    BY <2>1
  <2>3. \/ early'[i][k] = items'
        \/ \E m \in 1..Len(early[i]) : m = k + d[i] /\ early'[i][k] = early[i][m]
    BY <1>2
  <2>4. d[i] \in {0, 1} /\ k + d[i] >= 1 + d[i]
    OBVIOUS
  <2>5. QED
    BY <2>2, <2>3, <2>4
<1>6. Kept' \subseteq Kept \cup {items'}
  BY <1>5, InKept
<1>7. CASE ~Full
  <2>1. Cardinality(Kept) < Capacity
    BY <1>7, KeptIsFinite, Bounds DEF Full
  <2>2. /\ IsFiniteSet(Kept \cup {items'})
        /\ Cardinality(Kept \cup {items'}) \in {Cardinality(Kept), Cardinality(Kept) + 1}
    BY KeptIsFinite, FS_AddElement
  <2>3. Cardinality(Kept') <= Cardinality(Kept \cup {items'})
    BY <1>6, <2>2, FS_Subset
  <2>4. Cardinality(Kept') \in Nat
    BY <1>6, <2>2, FS_Subset, FS_CardinalityType
  <2>5. QED
    BY <1>4, <2>1, <2>2, <2>3, <2>4, KeptIsFinite, Bounds
<1>8. CASE Full
  <2>1. PICK old \in Ids : d[old] = 1
    BY <1>1, <1>8
  <2>2. early[old] # <<>> /\ Len(early[old]) \in Nat \ {0}
    BY <1>0, <1>1, <2>1
  <2> DEFINE h == early[old][1]
  <2>3. h \in Kept /\ h <= items /\ h \in Nat
    BY <1>3, <2>2 DEF Kept
  <2>4. h \notin Kept'
    <3>1. SUFFICES ASSUME h \in Kept' PROVE FALSE
      OBVIOUS
    <3>2. h # items'
      BY <1>0, <2>3
    <3>3. PICK i \in Ids : \E m \in 1..Len(early[i]) : m >= 1 + d[i] /\ h = early[i][m]
      BY <1>5, <3>1, <3>2
    <3>4. PICK m \in 1..Len(early[i]) : m >= 1 + d[i] /\ h = early[i][m]
      BY <3>3
    <3>5. i = old /\ m = 1
      BY <2>2, <3>4 DEF KeptOnce
    <3>6. QED
      BY <2>1, <3>5, <3>4
  <2>5. Kept' \subseteq (Kept \ {h}) \cup {items'}
    BY <1>6, <2>4
  <2> HIDE DEF h
  <2>6. /\ IsFiniteSet(Kept \ {h}) /\ Cardinality(Kept \ {h}) = Cardinality(Kept) - 1
        /\ Cardinality(Kept \ {h}) \in Nat
    BY <2>3, KeptIsFinite, FS_RemoveElement, FS_CardinalityType
  <2>7. /\ IsFiniteSet((Kept \ {h}) \cup {items'})
        /\ Cardinality((Kept \ {h}) \cup {items'})
              \in {Cardinality(Kept \ {h}), Cardinality(Kept \ {h}) + 1}
    BY <2>6, FS_AddElement
  <2>8. /\ Cardinality(Kept') <= Cardinality((Kept \ {h}) \cup {items'})
        /\ Cardinality(Kept') \in Nat
    BY <2>5, <2>7, FS_Subset, FS_CardinalityType
  <2>9. QED
    BY <1>4, <2>6, <2>7, <2>8, KeptIsFinite, Bounds
<1>9. QED
  BY <1>7, <1>8

LEMMA KeptStep ==
    ASSUME TypeOK, KeptOnce, Locked, Stages, FreshIds, Next
    PROVE  Cardinality(Kept') <= Capacity /\ KeptOnce'
<1>0. TasksTyped /\ RegistryTyped /\ BuffersTyped /\ Cardinality(Kept) <= Capacity /\ TasksTyped'
  BY TasksTypedStep DEF TypeOK
<1>1. CASE Publish
  <2>1. PICK p \in live : PublishEarly(p[1]) \/ PublishTo(p[1])
    BY <1>1 DEF Publish
  <2>2. items' = items + 1 /\ items' \in 1..MaxItems /\ p[1] \in Ids
    BY <1>0, <1>1, Bounds DEF Publish, TasksTyped, RegistryTyped
  <2>3. CASE PublishEarly(p[1])
    BY <1>0, <2>2, <2>3, PublishEarlyKeeps
  <2>4. CASE PublishTo(p[1])
    <3>1. early' = early /\ items' >= items
      BY <1>0, <2>2, <2>4 DEF PublishTo, TasksTyped
    <3>2. QED
      BY <1>0, <3>1, KeptShrinks
  <2>5. QED
    BY <2>1, <2>3, <2>4
<1>2. CASE ~Publish
  <2>1. ASSUME NEW c \in Consumers,
               \/ SubscribeCall(c) \/ SubscribeJoins(c) \/ SubscribeAsks(c)
               \/ SubscribeResumes(c) \/ DrainResumes(c) \/ UndoResumes(c)
               \/ CancelSubscribe(c)
        PROVE  items' = items /\ (early' = early \/ \E id : early' = [early EXCEPT ![id] = <<>>])
    BY <2>1 DEF SubscribeCall, SubscribeJoins, SubscribeAsks, SubscribeResumes,
       DrainResumes, UndoResumes, CancelSubscribe, counters, registry, Flush
  <2>2. ASSUME NEW c \in Consumers,
               \/ CloseCall(c) \/ CleanupRuns(c) \/ CloseLocally(c) \/ CloseLast(c)
               \/ CloseResumes(c) \/ CancelClose(c) \/ Take(c)
        PROVE  items' = items /\ early' = early
    BY <2>2 DEF CloseCall, CleanupRuns, CloseLocally, CloseLast, CloseResumes, CancelClose,
       Take, counters, registry
  <2>3. ASSUME \/ AllCall \/ AllAsks \/ AllResumes \/ AllCancelled \/ BrokerAccepts
               \/ BrokerRefuses \/ TimesOut
        PROVE  items' = items /\ early' = early
    BY <2>3 DEF AllCall, AllAsks, AllResumes, AllCancelled, BrokerAccepts, BrokerRefuses,
       TimesOut, counters, registry
  <2>4. ASSUME \/ Lose \/ Reconnect \/ Terminate \/ RestoreRuns \/ RestoreResumes
               \/ RestoreCancelled
        PROVE  /\ items' = items
               /\ \/ early' = early \/ early' = [i \in Ids |-> <<>>]
                  \/ \E id : early' = [early EXCEPT ![id] = <<>>]
    BY <2>4 DEF Lose, Reconnect, Terminate, RestoreRuns, RestoreResumes, RestoreCancelled,
       counters, registry, Flush
  <2>5. /\ items' = items
        /\ \/ early' = early \/ early' = [i \in Ids |-> <<>>]
           \/ \E id : early' = [early EXCEPT ![id] = <<>>]
    BY <1>2, <2>1, <2>2, <2>3, <2>4 DEF Next
  <2>6. \A i \in Ids : early'[i] = early[i] \/ early'[i] = <<>>
    BY <1>0, <2>5 DEF BuffersTyped
  <2>7. items' >= items
    <3>1. items \in 0..MaxItems /\ items' = items
      BY <1>0, <2>5 DEF TasksTyped
    <3>2. QED
      BY <3>1, Bounds
  <2>8. QED
    BY <1>0, <2>6, <2>7, KeptShrinks
<1>3. QED
  BY <1>1, <1>2

------------------------------------------------------------------------------
(* The stages of the consumers. *)

LEMMA DeliverElsewhere ==
    ASSUME NEW cs, NEW s, Deliver(cs, s), NEW d \in Consumers, d \notin cs
    PROVE  fate'[d] = fate[d] /\ queue'[d] = queue[d]
  BY DEF Deliver

LEMMA EndElsewhere ==
    ASSUME BuffersTyped, NEW cs, NEW how, End(cs, how), NEW d \in Consumers, d \notin cs
    PROVE  fate'[d] = fate[d] /\ queue'[d] = queue[d] /\ due'[d] = due[d]
  BY DEF End

(* A step that leaves all that Stages speaks of alone, but for open consumers. *)
LEMMA SameStages ==
    ASSUME Stages,
           UNCHANGED <<pc, reg, clo, cons, wire>>,
           \A c \in Consumers :
               pc[c] # "open" => fate'[c] = fate[c] /\ queue'[c] = queue[c] /\ due'[c] = due[c]
    PROVE  Stages'
  BY DEF Stages, Leaves

LEMMA SubscriberStages ==
    ASSUME TypeOK, Locked, Stages, FreshIds, NEW c \in Consumers,
           \/ SubscribeCall(c) \/ SubscribeJoins(c) \/ SubscribeAsks(c) \/ SubscribeResumes(c)
           \/ DrainResumes(c) \/ UndoResumes(c) \/ CancelSubscribe(c)
    PROVE  Stages'
<1>0. /\ pc \in [Consumers -> {"idle", "locking", "asking", "draining", "undoing", "open",
                               "failed"}]
      /\ reg \in [Consumers -> Registrations \cup {Nobody}]
      /\ wire \in [Registrations -> 0..MaxId]
      /\ cons \in [Registrations -> SUBSET Consumers]
      /\ due \in [Consumers -> Seq(1..MaxItems)]
      /\ byId \in [Ids -> Registrations \cup {Nobody}]
  BY DEF TypeOK, TasksTyped, RegistryTyped, BuffersTyped
<1>1. CASE SubscribeCall(c)
  <2>1. /\ pc[c] = "idle" /\ pc' = [pc EXCEPT ![c] = "locking"]
        /\ \E r \in Registrations : reg' = [reg EXCEPT ![c] = r]
        /\ UNCHANGED <<fate, queue, due, clo, cons, wire>>
    BY <1>1 DEF SubscribeCall, registry, local
  <2>2. QED
    BY <1>0, <2>1 DEF Stages, Leaves
<1>2. CASE SubscribeJoins(c)
  <2>1. /\ pc[c] = "locking" /\ pc' = [pc EXCEPT ![c] = "open"]
        /\ wire[reg[c]] # 0 /\ cons' = [cons EXCEPT ![reg[c]] = @ \cup {c}]
        /\ due' = [due EXCEPT ![c] = early[wire[reg[c]]]]
        /\ UNCHANGED <<reg, clo, wire>>
    BY <1>2 DEF SubscribeJoins
  <2>2. reg[c] \in Registrations /\ cons'[reg[c]] = cons[reg[c]] \cup {c}
    BY <1>0, <2>1, RegTyped
  <2>3. \A d \in Consumers : d \notin cons[reg[c]] /\ d # c =>
            fate'[d] = fate[d] /\ queue'[d] = queue[d]
    BY <1>2, <2>2, DeliverElsewhere DEF SubscribeJoins, Flush
  <2>4. \A d \in Consumers : d # c => due'[d] = due[d] /\ pc'[d] = pc[d]
    BY <1>0, <2>1
  <2>5. \A d \in Consumers : ~Leaves(d)
    BY <1>2, HolderIsFree DEF SubscribeJoins
  <2>6. pc'[c] = "open" /\ clo[c] = "none"
    BY <1>0, <2>1 DEF Stages
  <2>7. \A d \in Consumers :
          /\ pc'[d] # "idle" => reg'[d] \in Registrations
          /\ pc'[d] # "open" => fate'[d] = "none" /\ queue'[d] = <<>> /\ clo'[d] = "none"
          /\ pc'[d] \in {"idle", "locking"} => due'[d] = <<>>
          /\ ~Leaves(d)'
    BY <2>1, <2>2, <2>3, <2>4, <2>5, <2>6 DEF Stages, Leaves
  <2>8. \A r \in Registrations :
          /\ cons'[r] # {} => wire'[r] # 0
          /\ \A d \in cons'[r] : /\ pc'[d] = "open" /\ reg'[d] = r
                                 /\ clo'[d] \in {"none", "scheduled", "locking", "abandoned"}
    BY <1>0, <2>1, <2>2, <2>4, <2>6 DEF Stages
  <2>9. QED
    BY <2>7, <2>8 DEF Stages
<1>3. CASE SubscribeAsks(c)
  <2>1. /\ pc[c] = "locking" /\ pc' = [pc EXCEPT ![c] = "asking"]
        /\ UNCHANGED <<reg, fate, queue, due, clo, cons, wire>>
    BY <1>3 DEF SubscribeAsks, registry, local
  <2>2. QED
    BY <1>0, <2>1 DEF Stages, Leaves
<1>4. CASE SubscribeResumes(c)
  <2>0. /\ pc[c] = "asking" /\ UNCHANGED <<reg, due, clo>>
        /\ reg[c] \in Registrations /\ \A d \in Consumers : ~Leaves(d)
    BY <1>4, RegTyped, SubscriberHolds DEF SubscribeResumes, Asks
  <2>1. CASE req.st # "ok"
    <3>1. pc' = [pc EXCEPT ![c] = "failed"] /\ UNCHANGED <<wire, cons, queue, fate>>
      BY <1>4, <2>1 DEF SubscribeResumes, registry
    <3>2. QED
      BY <1>0, <2>0, <3>1 DEF Stages, Leaves
  <2>2. CASE req.st = "ok"
    <3>1. /\ wire' = [wire EXCEPT ![reg[c]] = req.id]
          /\ cons' = [cons EXCEPT ![reg[c]] = @ \cup {c}]
          /\ pc' = [pc EXCEPT ![c] = "open"]
          /\ Deliver(cons'[reg[c]], early[req.id])
      BY <1>4, <2>2 DEF SubscribeResumes, Register, Flush
    <3>2. req.id # 0
      BY <2>0, <2>2, OkIsGiven, SubscriberHolds DEF TypeOK, Asks, Ids
    <3>3. cons'[reg[c]] = cons[reg[c]] \cup {c} /\ pc'[c] = "open" /\ clo[c] = "none"
      BY <1>0, <2>0, <3>1 DEF Stages
    <3>4. \A d \in Consumers : d \notin cons[reg[c]] /\ d # c =>
              fate'[d] = fate[d] /\ queue'[d] = queue[d]
      BY <3>1, <3>3, DeliverElsewhere
    <3>5. \A d \in Consumers : d # c => pc'[d] = pc[d]
      BY <1>0, <3>1
    <3>6. \A d \in Consumers :
            /\ pc'[d] # "idle" => reg'[d] \in Registrations
            /\ pc'[d] # "open" => fate'[d] = "none" /\ queue'[d] = <<>> /\ clo'[d] = "none"
            /\ pc'[d] \in {"idle", "locking"} => due'[d] = <<>>
            /\ ~Leaves(d)'
      BY <2>0, <3>3, <3>4, <3>5 DEF Stages, Leaves
    <3>7. \A r \in Registrations :
            /\ cons'[r] # {} => wire'[r] # 0
            /\ \A d \in cons'[r] : /\ pc'[d] = "open" /\ reg'[d] = r
                                   /\ clo'[d] \in {"none", "scheduled", "locking", "abandoned"}
      BY <1>0, <2>0, <3>1, <3>2, <3>3, <3>5 DEF Stages
    <3>8. QED
      BY <3>6, <3>7 DEF Stages
  <2>3. QED
    BY <2>1, <2>2
<1>5. CASE DrainResumes(c) \/ UndoResumes(c) \/ CancelSubscribe(c)
  <2>1. /\ pc[c] \in {"locking", "asking", "draining", "undoing"}
        /\ \E v \in {"draining", "undoing", "failed"} : pc' = [pc EXCEPT ![c] = v]
        /\ UNCHANGED <<reg, fate, queue, clo, cons>>
        /\ due' = due \/ due' = [due EXCEPT ![c] = <<>>]
    BY <1>5 DEF DrainResumes, UndoResumes, CancelSubscribe, registry, local
  <2>2. reg[c] \in Registrations
    BY <2>1, RegTyped
  <2>3. wire' = wire \/ (pc[c] = "undoing" /\ Register(reg[c], req.id))
    BY <1>5 DEF DrainResumes, UndoResumes, CancelSubscribe, registry
  <2>4. \A r \in Registrations : wire[r] # 0 => wire'[r] # 0
    <3>1. pc[c] = "undoing" => req.id \in Ids
      BY DEF TypeOK, RegistryTyped, Requests, FreshIds, Given
    <3>2. QED
      BY <1>0, <2>2, <2>3, <3>1 DEF Register, Ids
  <2>5. \A d \in Consumers : d # c => due'[d] = due[d] /\ pc'[d] = pc[d]
    BY <1>0, <2>1
  <2>6. pc'[c] \in {"draining", "undoing", "failed"} /\ (due'[c] = due[c] \/ due'[c] = <<>>)
    BY <1>0, <2>1
  <2>7. \A d \in Consumers :
          /\ pc'[d] # "idle" => reg'[d] \in Registrations
          /\ pc'[d] # "open" => fate'[d] = "none" /\ queue'[d] = <<>> /\ clo'[d] = "none"
          /\ pc'[d] \in {"idle", "locking"} => due'[d] = <<>>
          /\ Leaves(d)' => cons'[reg'[d]] = {}
    BY <2>1, <2>2, <2>5, <2>6 DEF Stages, Leaves
  <2>8. \A r \in Registrations :
          /\ cons'[r] # {} => wire'[r] # 0
          /\ \A d \in cons'[r] : /\ pc'[d] = "open" /\ reg'[d] = r
                                 /\ clo'[d] \in {"none", "scheduled", "locking", "abandoned"}
    BY <1>0, <2>1, <2>4, <2>5 DEF Stages
  <2>9. QED
    BY <2>7, <2>8 DEF Stages
<1>6. QED
  BY <1>1, <1>2, <1>3, <1>4, <1>5

LEMMA CloserStages ==
    ASSUME TypeOK, Locked, Stages, NEW c \in Consumers,
           \/ CloseCall(c) \/ CleanupRuns(c) \/ CloseLocally(c) \/ CloseLast(c)
           \/ CloseResumes(c) \/ CancelClose(c) \/ Take(c)
    PROVE  Stages'
<1>0. /\ clo \in [Consumers -> {"none", "scheduled", "locking", "leaving", "draining", "done",
                                "abandoned"}]
      /\ wire \in [Registrations -> 0..MaxId]
      /\ cons \in [Registrations -> SUBSET Consumers]
      /\ BuffersTyped
  BY DEF TypeOK, TasksTyped, RegistryTyped
<1>1. CASE Take(c)
  <2>1. /\ pc[c] = "open" /\ UNCHANGED <<pc, reg, clo, cons, wire, fate>>
        /\ \A d \in Consumers : d # c => queue'[d] = queue[d] /\ due'[d] = due[d]
    BY <1>0, <1>1 DEF Take, registry, BuffersTyped
  <2>2. QED
    BY <2>1, SameStages
<1>2. CASE CloseCall(c) \/ CleanupRuns(c)
  <2>1. /\ clo[c] # "none" \/ pc[c] = "open"
        /\ clo' = [clo EXCEPT ![c] = "locking"]
        /\ UNCHANGED <<pc, reg, cons, wire, fate, queue, due>>
    BY <1>2 DEF CloseCall, CleanupRuns, registry, local
  <2>2. QED
    BY <1>0, <2>1 DEF Stages, Leaves
<1>3. CASE CloseLocally(c) \/ CloseLast(c) \/ CloseResumes(c) \/ CancelClose(c)
  <2>1. /\ UNCHANGED <<pc, reg>> /\ clo[c] \in {"locking", "leaving", "draining"}
        /\ \E v \in {"done", "leaving", "draining", "abandoned"} :
              clo' = [clo EXCEPT ![c] = v]
    BY <1>3 DEF CloseLocally, CloseLast, CloseResumes, CancelClose
  <2>2. pc[c] = "open" /\ reg[c] \in Registrations
    BY <2>1 DEF Stages
  <2>3. \A d \in Consumers : d # c =>
            /\ fate'[d] = fate[d] /\ queue'[d] = queue[d] /\ due'[d] = due[d]
            /\ clo'[d] = clo[d]
    <3>1. UNCHANGED <<fate, queue, due>> \/ End({c}, "ended")
      BY <1>3 DEF CloseLocally, CloseLast, CloseResumes, CancelClose, local
    <3>2. QED
      BY <1>0, <2>1, <3>1, EndElsewhere
  <2>4. \A r \in Registrations : /\ cons'[r] \subseteq cons[r]
                                 /\ wire'[r] = wire[r] \/ (wire'[r] = 0 /\ cons'[r] = {})
    BY <1>0, <1>3, <2>2
       DEF CloseLocally, CloseLast, CloseResumes, CancelClose, registry, Unregister
  <2>5. clo'[c] \in {"done", "leaving", "draining"} => c \notin cons'[reg[c]]
    <3>1. CASE CloseLocally(c) \/ CloseLast(c)
      BY <1>0, <2>2, <3>1 DEF CloseLocally, CloseLast
    <3>2. CASE CloseResumes(c) \/ (CancelClose(c) /\ Leaves(c))
      BY <2>2, <2>4, <3>2 DEF CloseResumes, Leaves, Stages
    <3>3. CASE CancelClose(c) /\ clo'[c] = "abandoned"
      BY <3>3
    <3>4. QED
      BY <1>0, <1>3, <3>1, <3>2, <3>3 DEF CancelClose, Leaves
  <2>6. Leaves(c)' => cons'[reg[c]] = {}
    <3>1. CASE CloseLast(c)
      BY <1>0, <2>2, <3>1 DEF CloseLast
    <3>2. CASE CancelClose(c) /\ clo[c] = "leaving"
      BY <2>2, <2>4, <3>2 DEF Leaves, Stages
    <3>3. QED
      BY <1>0, <1>3, <3>1, <3>2 DEF CloseLocally, CloseResumes, CancelClose, Leaves
  <2>7. clo'[c] \in {"done", "leaving", "draining", "abandoned"}
    BY <1>0, <2>1
  <2>8. \A d \in Consumers :
          /\ pc'[d] # "idle" => reg'[d] \in Registrations
          /\ pc'[d] # "open" => fate'[d] = "none" /\ queue'[d] = <<>> /\ clo'[d] = "none"
          /\ pc'[d] \in {"idle", "locking"} => due'[d] = <<>>
    BY <2>1, <2>2, <2>3 DEF Stages
  <2>9. \A d \in Consumers : Leaves(d)' => cons'[reg'[d]] = {}
    <3>1. \A d \in Consumers : clo[d] # "none" => reg[d] \in Registrations
      BY RegTyped
    <3>2. QED
      BY <2>1, <2>3, <2>4, <2>6, <3>1 DEF Stages, Leaves
  <2>10. \A r \in Registrations :
          /\ cons'[r] # {} => wire'[r] # 0
          /\ \A d \in cons'[r] : /\ pc'[d] = "open" /\ reg'[d] = r
                                 /\ clo'[d] \in {"none", "scheduled", "locking", "abandoned"}
    BY <1>0, <2>1, <2>3, <2>4, <2>5, <2>7 DEF Stages
  <2>11. QED
    BY <2>8, <2>9, <2>10 DEF Stages
<1>4. QED
  BY <1>1, <1>2, <1>3

LEMMA OtherStages ==
    ASSUME TypeOK, Locked, Stages, FreshIds,
           \/ AllCall \/ AllAsks \/ AllResumes \/ AllCancelled
           \/ Publish \/ BrokerAccepts \/ BrokerRefuses \/ TimesOut \/ Lose
           \/ Reconnect \/ Terminate \/ RestoreRuns \/ RestoreResumes \/ RestoreCancelled
    PROVE  Stages'
<1>0. /\ wire \in [Registrations -> 0..MaxId]
      /\ cons \in [Registrations -> SUBSET Consumers]
      /\ byId \in [Ids -> Registrations \cup {Nobody}]
      /\ live \subseteq Ids \X Registrations
      /\ clo \in [Consumers -> {"none", "scheduled", "locking", "leaving", "draining", "done",
                                "abandoned"}]
      /\ BuffersTyped
  BY DEF TypeOK, TasksTyped, RegistryTyped
<1>1. CASE \/ AllCall \/ AllAsks \/ AllCancelled
           \/ BrokerAccepts \/ BrokerRefuses \/ TimesOut \/ Lose
           \/ Reconnect \/ RestoreRuns \/ RestoreCancelled
  <2>1. UNCHANGED <<pc, reg, clo, cons, wire, fate, queue, due>>
    BY <1>1 DEF AllCall, AllAsks, AllCancelled, BrokerAccepts, BrokerRefuses, TimesOut, Lose,
       Reconnect, RestoreRuns, RestoreCancelled, registry, local
  <2>2. QED
    BY <2>1, SameStages
<1>2. CASE AllResumes \/ Terminate
  <2>1. UNCHANGED <<pc, reg, clo>>
    BY <1>2 DEF AllResumes, Terminate
  <2>2. CASE UNCHANGED <<wire, cons, fate, queue, due>>
    BY <2>1, <2>2, SameStages
  <2>3. CASE Clear
    <3>1. \A r \in Registrations : cons'[r] = {}
      BY <2>3 DEF Clear
    <3>2. \A d \in Consumers :
              pc[d] # "open" => fate'[d] = fate[d] /\ queue'[d] = queue[d] /\ due'[d] = due[d]
      <4>1. \A d \in Consumers : pc[d] # "open" => d \notin Members
        BY DEF Members, Stages
      <4>2. QED
        BY <1>0, <2>3, <4>1, EndElsewhere DEF Clear
    <3>3. QED
      BY <2>1, <3>1, <3>2 DEF Stages, Leaves
  <2>4. QED
    BY <1>2, <2>2, <2>3 DEF AllResumes, Terminate, local
<1>3. CASE Publish
  <2>1. UNCHANGED <<pc, reg, wire>>
    BY <1>3 DEF Publish
  <2>2. PICK p \in live : PublishEarly(p[1]) \/ PublishTo(p[1])
    BY <1>3 DEF Publish
  <2>3. CASE PublishEarly(p[1])
    <3>1. UNCHANGED <<clo, cons, fate, queue>>
      BY <2>3 DEF PublishEarly
    <3>2. \A d \in Consumers : pc[d] \in {"idle", "locking"} => due'[d] = due[d]
      <4>1. \A d \in Consumers : d \in Awaiting(p[1]) => pc[d] \in {"asking", "open"}
        BY RestoreHolds DEF Awaiting, Stages
      <4>2. QED
        BY <2>3, <4>1 DEF PublishEarly
    <3>3. QED
      BY <2>1, <3>1, <3>2 DEF Stages, Leaves
  <2>4. CASE PublishTo(p[1])
    <3> DEFINE r == byId[p[1]]
    <3>1. r \in Registrations /\ p[1] \in Ids
      BY <1>0, <2>4 DEF PublishTo
    <3>2. /\ cons' \in [Registrations -> SUBSET Consumers]
          /\ \A q \in Registrations : cons'[q] \subseteq cons[q]
      BY <1>0, <2>4, <3>1 DEF PublishTo
    <3>3. \A d \in Consumers : d \notin cons[r] =>
            fate'[d] = fate[d] /\ queue'[d] = queue[d] /\ due'[d] = due[d] /\ clo'[d] = clo[d]
      <4>1. \A d \in Consumers : d \notin cons[r] => fate'[d] = fate[d] /\ queue'[d] = queue[d]
        BY <2>4, DeliverElsewhere DEF PublishTo
      <4>2. \A d \in Consumers : d \notin cons[r] => due'[d] = due[d] /\ clo'[d] = clo[d]
        BY <2>4 DEF PublishTo
      <4>3. QED
        BY <4>1, <4>2
    <3>4. \A d \in Consumers : \/ clo'[d] = clo[d]
                               \/ clo[d] = "none" /\ clo'[d] = "scheduled"
      BY <2>4 DEF PublishTo
    <3>5. \A d \in Consumers : d \in cons[r] => pc[d] = "open"
      BY <3>1 DEF Stages
    <3> HIDE DEF r
    <3>6. \A d \in Consumers :
            /\ pc'[d] # "idle" => reg'[d] \in Registrations
            /\ pc'[d] # "open" => fate'[d] = "none" /\ queue'[d] = <<>> /\ clo'[d] = "none"
            /\ pc'[d] \in {"idle", "locking"} => due'[d] = <<>>
      BY <2>1, <3>3, <3>5 DEF Stages
    <3>7. \A d \in Consumers : Leaves(d)' => cons'[reg'[d]] = {}
      <4>1. \A d \in Consumers : clo[d] # "none" => reg[d] \in Registrations
        BY RegTyped
      <4>2. QED
        BY <2>1, <3>2, <3>4, <4>1 DEF Stages, Leaves
    <3>8. \A q \in Registrations :
            /\ cons'[q] # {} => wire'[q] # 0
            /\ \A d \in cons'[q] : /\ pc'[d] = "open" /\ reg'[d] = q
                                   /\ clo'[d] \in {"none", "scheduled", "locking", "abandoned"}
      BY <1>0, <2>1, <3>2, <3>4 DEF Stages
    <3>9. QED
      BY <3>6, <3>7, <3>8 DEF Stages
  <2>5. QED
    BY <2>2, <2>3, <2>4
<1>4. CASE RestoreResumes
  <2>1. UNCHANGED <<pc, reg, clo>> /\ req.reg \in Registrations
    BY <1>4, RestoreHolds DEF RestoreResumes
  <2>2. \A r \in Registrations :
          /\ cons'[r] \subseteq cons[r]
          /\ cons'[r] # {} /\ wire[r] # 0 => wire'[r] # 0
    <3>1. CASE req.st = "ok"
      <4>1. cons' = cons /\ wire' = [wire EXCEPT ![req.reg] = IF @ = 0 THEN 0 ELSE req.id]
        BY <1>4, <3>1 DEF RestoreResumes, Rekey
      <4>2. req.id # 0
        BY <1>4, <3>1, OkIsGiven, RestoreHolds DEF RestoreResumes, TypeOK, Ids
      <4>3. QED
        BY <1>0, <2>1, <4>1, <4>2
    <3>2. CASE req.st # "ok"
      <4>1. /\ cons' = [cons EXCEPT ![req.reg] = {}]
            /\ wire' = [wire EXCEPT ![req.reg] = 0]
        BY <1>4, <3>2 DEF RestoreResumes, FailRegistration, Unregister
      <4>2. QED
        BY <1>0, <2>1, <4>1
    <3>3. QED
      BY <3>1, <3>2
  <2>3. \A d \in Consumers :
            pc[d] # "open" => fate'[d] = fate[d] /\ queue'[d] = queue[d] /\ due'[d] = due[d]
    <3>1. \A d \in Consumers : pc[d] # "open" => d \notin cons[req.reg]
      BY <2>1 DEF Stages
    <3>2. CASE req.st = "ok"
      <4>1. Deliver(cons[req.reg], early[req.id]) /\ due' = due
        BY <1>4, <3>2 DEF RestoreResumes, Flush
      <4>2. QED
        BY <3>1, <4>1, DeliverElsewhere
    <3>3. CASE req.st # "ok"
      <4>1. End(cons[req.reg], "failed")
        BY <1>4, <3>3 DEF RestoreResumes, FailRegistration
      <4>2. QED
        BY <1>0, <3>1, <4>1, EndElsewhere
    <3>4. QED
      BY <3>2, <3>3
  <2>4. \A d \in Consumers : clo[d] # "none" => reg[d] \in Registrations
    BY RegTyped
  <2>5. cons' \in [Registrations -> SUBSET Consumers]
    BY <1>0, <1>4, <2>1 DEF RestoreResumes, FailRegistration, Unregister
  <2>6. \A d \in Consumers :
          /\ pc'[d] # "idle" => reg'[d] \in Registrations
          /\ pc'[d] # "open" => fate'[d] = "none" /\ queue'[d] = <<>> /\ clo'[d] = "none"
          /\ pc'[d] \in {"idle", "locking"} => due'[d] = <<>>
    BY <2>1, <2>3 DEF Stages
  <2>7. \A d \in Consumers : Leaves(d)' => cons'[reg'[d]] = {}
    BY <2>1, <2>2, <2>4 DEF Stages, Leaves
  <2>8. \A r \in Registrations :
          /\ cons'[r] # {} => wire'[r] # 0
          /\ \A d \in cons'[r] : /\ pc'[d] = "open" /\ reg'[d] = r
                                 /\ clo'[d] \in {"none", "scheduled", "locking", "abandoned"}
    BY <1>0, <2>1, <2>2, <2>5 DEF Stages
  <2>9. QED
    BY <2>6, <2>7, <2>8 DEF Stages
<1>5. QED
  BY <1>1, <1>2, <1>3, <1>4

LEMMA StagesStep ==
    ASSUME TypeOK, Locked, Stages, FreshIds, Next
    PROVE  Stages'
  BY SubscriberStages, CloserStages, OtherStages DEF Next

------------------------------------------------------------------------------
(* The ids. *)

\* What the broker does with a request changes for the ids in use.
LEMMA HandledIds ==
    ASSUME RegistryTyped, Handled
    PROVE  /\ nextId \in Nat /\ nextId' \in {nextId, nextId + 1}
           /\ \A p \in live' : p \in live \/ (p = <<nextId, req.reg>> /\ nextId' = nextId + 1)
           /\ nextId' # nextId => req.kind = "sub" /\ nextId \in Ids
  BY DEF Handled, RegistryTyped

(* Nobody has an id that is not registered. *)
LEMMA NothingGiven ==
    ASSUME Locked', req' = NoRequest
    PROVE  \A i \in 0..MaxId : ~Given(i)'
<1>1. \A c \in Consumers : pc'[c] # "undoing"
  BY DEF Locked, HolderWaits, NoRequest
<1>2. QED
  BY <1>1 DEF Given, NoRequest

LEMMA SameFreshIds ==
    ASSUME RegistryTyped, BuffersTyped, FreshIds, nextId' \in {nextId, nextId + 1},
           \A p \in live' : p \in live \/ p[1] < nextId',
           \A r \in Registrations : \/ wire'[r] \in {wire[r], 0}
                                    \/ wire'[r] \in 0..MaxId /\ Given(wire'[r]),
           \A i \in Ids : byId'[i] \in {byId[i], Nobody} \/ Given(i),
           \A i \in Ids : early'[i] = <<>> \/ early[i] # <<>>,
           \A i \in 0..MaxId : Given(i)' => Given(i)
    PROVE  FreshIds'
<1>1. nextId \in Nat \ {0} /\ \A i \in Ids : i \in 0..MaxId
  BY Bounds DEF RegistryTyped, Ids
<1>2. \A p \in live' : p[1] < nextId'
  BY <1>1 DEF FreshIds, RegistryTyped, Ids
<1>3. \A r \in Registrations : wire'[r] < nextId'
  BY <1>1 DEF FreshIds, RegistryTyped
<1>4. \A i \in Ids : i \in Nat
  BY Bounds DEF Ids
<1>5. \A i \in Ids : /\ byId'[i] # Nobody => i < nextId'
                     /\ early'[i] # <<>> => i < nextId'
  BY <1>1, <1>4 DEF FreshIds
<1>6. \A i \in 0..MaxId : Given(i)' => i \in Ids /\ i < nextId'
  BY <1>1, <1>4 DEF FreshIds
<1>7. QED
  BY <1>2, <1>3, <1>5, <1>6 DEF FreshIds

LEMMA FreshIdsStep ==
    ASSUME TypeOK, Locked, Stages, FreshIds, Locked', Next
    PROVE  FreshIds'
<1>0. /\ RegistryTyped /\ BuffersTyped /\ TasksTyped
      /\ wire \in [Registrations -> 0..MaxId] /\ req \in Requests /\ nextId \in Nat
      /\ early \in [Ids -> Seq(1..MaxItems)] /\ byId \in [Ids -> Registrations \cup {Nobody}]
      /\ req.id \in 0..MaxId
  BY DEF TypeOK, RegistryTyped, BuffersTyped, Requests
<1>1. ASSUME NEW c \in Consumers, SubscribeCall(c) \/ SubscribeJoins(c)
      PROVE  FreshIds'
  <2>1. /\ UNCHANGED <<live, nextId, wire, byId, req>>
        /\ \E v \in {"locking", "open"} : pc' = [pc EXCEPT ![c] = v]
    BY <1>1 DEF SubscribeCall, SubscribeJoins, session, registry
  <2>2. \A i \in Ids : early'[i] = <<>> \/ early[i] # <<>>
    BY <1>0, <1>1 DEF SubscribeCall, SubscribeJoins, registry, Flush
  <2>3. \A d \in Consumers : pc'[d] = "undoing" => pc[d] = "undoing"
    BY <1>0, <2>1 DEF TasksTyped
  <2>4. \A i \in 0..MaxId : Given(i)' => Given(i)
    BY <2>1, <2>3 DEF Given
  <2>5. QED
    BY <1>0, <2>1, <2>2, <2>4, SameFreshIds
<1>2. ASSUME NEW c \in Consumers, SubscribeAsks(c) \/ CloseLast(c)
      PROVE  FreshIds'
  <2>1. /\ UNCHANGED <<live, nextId, wire, byId, early>>
        /\ req'.st \in {"sent", "error"} /\ Free
        /\ \A d \in Consumers : pc'[d] = "undoing" => pc[d] = "undoing"
    BY <1>2 DEF SubscribeAsks, CloseLast, Request, session, registry, TypeOK, TasksTyped
  <2>2. \A i \in 0..MaxId : ~Given(i)'
    BY <2>1 DEF Given, Free
  <2>3. QED
    BY <1>0, <2>1, <2>2, SameFreshIds
<1>3. ASSUME NEW c \in Consumers,
             \/ SubscribeResumes(c) \/ UndoResumes(c) \/ CancelSubscribe(c)
             \/ CloseResumes(c) \/ CancelClose(c)
      PROVE  FreshIds'
  <2>1. \/ UNCHANGED <<live, nextId>>
        \/ Handled
    BY <1>3 DEF SubscribeResumes, UndoResumes, CancelSubscribe, CloseResumes, CancelClose,
       AbandonRequest, session
  <2>2. \/ req' = NoRequest
        \/ req' = req /\ \A d \in Consumers : pc'[d] = "undoing" => pc[d] = "undoing"
    BY <1>3 DEF SubscribeResumes, UndoResumes, CancelSubscribe, CloseResumes, CancelClose,
       AbandonRequest, TypeOK, TasksTyped
  <2>3. \A i \in 0..MaxId : Given(i)' => Given(i)
    <3>1. CASE req' = NoRequest
      BY <3>1, NothingGiven
    <3>2. CASE req' = req /\ \A d \in Consumers : pc'[d] = "undoing" => pc[d] = "undoing"
      BY <3>2 DEF Given
    <3>3. QED
      BY <2>2, <3>1, <3>2
  <2>4. /\ nextId' \in {nextId, nextId + 1}
        /\ \A p \in live' : p \in live \/ p[1] < nextId'
    BY <1>0, <2>1, HandledIds
  <2>5. \A i \in Ids : early'[i] = <<>> \/ early[i] # <<>>
    BY <1>0, <1>3 DEF SubscribeResumes, UndoResumes, CancelSubscribe, CloseResumes, CancelClose,
       registry, Flush
  <2>6. /\ \A r \in Registrations : wire'[r] \in {wire[r], 0} \/ Given(wire'[r])
        /\ \A i \in Ids : byId'[i] \in {byId[i], Nobody} \/ Given(i)
    <3>1. CASE UNCHANGED <<wire, byId>>
      BY <3>1
    <3>2. CASE Register(reg[c], req.id) /\ Given(req.id)
      BY <1>0, <3>2 DEF Register
    <3>3. CASE Unregister(reg[c], req.id)
      BY <1>0, <3>3 DEF Unregister
    <3>4. pc[c] = "undoing" => Given(req.id)
      BY DEF Given
    <3>5. pc[c] = "asking" /\ req.st = "ok" => Given(req.id)
      BY SubscriberHolds DEF Given, Asks
    <3>6. QED
      BY <1>3, <3>1, <3>2, <3>3, <3>4, <3>5
         DEF SubscribeResumes, UndoResumes, CancelSubscribe, CloseResumes, CancelClose, registry
  <2>7. \A r \in Registrations : \/ wire'[r] \in {wire[r], 0}
                                 \/ wire'[r] \in 0..MaxId /\ Given(wire'[r])
    BY <1>0, <2>6 DEF Given
  <2>8. QED
    BY <1>0, <2>3, <2>4, <2>5, <2>6, <2>7, SameFreshIds
<1>4. ASSUME NEW c \in Consumers, DrainResumes(c)
      PROVE  FreshIds'
  <2>1. UNCHANGED <<live, nextId, wire, byId, early>>
    BY <1>4 DEF DrainResumes, session, registry
  <2>2. \A i \in 0..MaxId : Given(i)' => Given(i)
    <3>1. CASE req' = NoRequest
      BY <3>1, NothingGiven
    <3>2. CASE req' # NoRequest
      <4>1. req.st = "ok" /\ req'.id = req.id /\ req.kind = "sub"
        BY <1>4, <3>2, SubscriberHolds DEF DrainResumes, Request, Asks
      <4>2. QED
        BY <4>1 DEF Given
    <3>3. QED
      BY <3>1, <3>2
  <2>3. QED
    BY <1>0, <2>1, <2>2, SameFreshIds
<1>5. ASSUME NEW c \in Consumers, CloseCall(c) \/ CleanupRuns(c) \/ CloseLocally(c) \/ Take(c)
      PROVE  FreshIds'
  <2>1. UNCHANGED <<live, nextId, wire, byId, early, req, pc>>
    BY <1>5 DEF CloseCall, CleanupRuns, CloseLocally, Take, session, registry
  <2>2. QED
    BY <2>1 DEF FreshIds, Given
<1>6. CASE AllCall \/ Reconnect
  <2>1. UNCHANGED <<live, nextId, wire, byId, early, req, pc>>
    BY <1>6 DEF AllCall, Reconnect, session, registry
  <2>2. QED
    BY <2>1 DEF FreshIds, Given
<1>7. CASE AllAsks \/ RestoreRuns
  <2>1. UNCHANGED <<live, nextId, wire, byId, early, pc>> /\ Free
    BY <1>7 DEF AllAsks, RestoreRuns, session, registry
  <2>2. req'.st \in {"sent", "error", "idle"}
    BY <1>7 DEF AllAsks, RestoreRuns, RestoreNext, Request, NoRequest
  <2>3. \A i \in 0..MaxId : ~Given(i)'
    BY <2>1, <2>2 DEF Given, Free
  <2>4. QED
    BY <1>0, <2>1, <2>3, SameFreshIds
<1>8. CASE AllResumes \/ AllCancelled \/ RestoreCancelled
  <2>1. UNCHANGED pc /\ (req' = req \/ req' = NoRequest)
        /\ (UNCHANGED <<live, nextId>> \/ Handled)
    BY <1>8 DEF AllResumes, AllCancelled, RestoreCancelled, AbandonRequest, session
  <2>2. /\ early' = early
        /\ \A r \in Registrations : wire'[r] \in {wire[r], 0}
        /\ \A i \in Ids : byId'[i] \in {byId[i], Nobody}
    BY <1>8 DEF AllResumes, AllCancelled, RestoreCancelled, Clear, registry
  <2>3. \A i \in 0..MaxId : Given(i)' => Given(i)
    BY <2>1, NothingGiven DEF Given
  <2>4. /\ nextId' \in {nextId, nextId + 1}
        /\ \A p \in live' : p \in live \/ p[1] < nextId'
    BY <1>0, <2>1, HandledIds
  <2>5. QED
    BY <1>0, <2>2, <2>3, <2>4, SameFreshIds
<1>9. CASE Publish
  <2>1. UNCHANGED <<live, nextId, wire, byId, req, pc>>
    BY <1>9 DEF Publish, session
  <2>2. PICK p \in live : PublishEarly(p[1]) \/ PublishTo(p[1])
    BY <1>9 DEF Publish
  <2>3. p[1] \in Ids /\ p[1] < nextId
    BY DEF TypeOK, RegistryTyped, FreshIds
  <2>4. \A i \in Ids : i # p[1] => early'[i] = <<>> \/ early[i] # <<>>
    BY <1>0, <2>2, <2>3 DEF PublishEarly, PublishTo, Oldest
  <2>5. \A i \in Ids : early'[i] # <<>> => i < nextId
    BY <2>3, <2>4 DEF FreshIds
  <2>6. QED
    BY <2>1, <2>5 DEF FreshIds, Given
<1>10. CASE BrokerAccepts
  <2>1. UNCHANGED <<wire, byId, early, pc>> /\ Handled
        /\ req' = [req EXCEPT !.st = "ok", !.id = IF req.kind = "sub" THEN nextId ELSE @]
    BY <1>10 DEF BrokerAccepts, registry
  <2>2. CASE req.kind # "sub"
    <3>1. /\ nextId' = nextId /\ live' \subseteq live /\ req'.id = req.id /\ req'.kind = req.kind
      BY <1>0, <2>1, <2>2, HandledIds DEF Handled, Requests
    <3>2. \A i \in 0..MaxId : Given(i)' => Given(i)
      BY <2>1, <2>2, <3>1 DEF Given
    <3>3. QED
      BY <1>0, <2>1, <3>1, <3>2, SameFreshIds
  <2>3. CASE req.kind = "sub"
    <3>1. /\ nextId \in Ids /\ nextId' = nextId + 1 /\ live' = live \cup {<<nextId, req.reg>>}
          /\ req'.id = nextId
      BY <1>0, <2>1, <2>3 DEF Handled, Requests
    <3>2. \A p \in live' : p[1] < nextId'
      BY <1>0, <3>1 DEF FreshIds, RegistryTyped, Ids
    <3>3. /\ \A r \in Registrations : wire'[r] < nextId'
          /\ \A i \in Ids : i < nextId => i < nextId'
      BY <1>0, <2>1, <3>1 DEF FreshIds, Ids
    <3>4. \A i \in 0..MaxId : Given(i)' => i \in Ids /\ i < nextId'
      BY <1>0, <3>1 DEF Given
    <3>5. QED
      BY <2>1, <3>2, <3>3, <3>4 DEF FreshIds
  <2>4. QED
    BY <2>2, <2>3
<1>11. CASE BrokerRefuses \/ TimesOut \/ Lose
  <2>1. UNCHANGED <<wire, byId, early, pc>>
    BY <1>11 DEF BrokerRefuses, TimesOut, Lose, registry
  <2>2. /\ nextId' \in {nextId, nextId + 1}
        /\ \A p \in live' : p \in live \/ p[1] < nextId'
    BY <1>0, <1>11, HandledIds DEF BrokerRefuses, TimesOut, Lose, SessionEnds, session
  <2>3. req' = req \/ req' = [req EXCEPT !.st = "error"]
    BY <1>0, <1>11 DEF BrokerRefuses, TimesOut, Lose, SessionEnds, Requests
  <2>4. \A i \in 0..MaxId : Given(i)' => Given(i)
    BY <1>0, <2>1, <2>3 DEF Given, Requests
  <2>5. QED
    BY <1>0, <2>1, <2>2, <2>4, SameFreshIds
<1>12. CASE Terminate
  <2>1. /\ UNCHANGED <<nextId, pc>> /\ live' = {}
        /\ \A r \in Registrations : wire'[r] = 0
        /\ \A i \in Ids : byId'[i] = Nobody /\ early'[i] = <<>>
    BY <1>12 DEF Terminate, SessionEnds, Clear
  <2>2. req' = req \/ req' = [req EXCEPT !.st = "error"]
    BY <1>0, <1>12 DEF Terminate, SessionEnds, Requests
  <2>3. \A i \in 0..MaxId : Given(i)' => Given(i)
    BY <1>0, <2>1, <2>2 DEF Given, Requests
  <2>4. QED
    BY <1>0, <2>1, <2>3, SameFreshIds
<1>13. CASE RestoreResumes
  <2>1. UNCHANGED <<live, nextId, pc>> /\ req.kind = "sub" /\ req.reg \in Registrations
        /\ \A d \in Consumers : ~Asks(d)
    BY <1>13, RestoreHolds DEF RestoreResumes
  <2>2. req'.st \in {"sent", "error", "idle"}
    BY <1>13 DEF RestoreResumes, RestoreNext, Request, NoRequest
  <2>3. \A i \in 0..MaxId : ~Given(i)'
    BY <2>1, <2>2 DEF Given, Asks
  <2>4. \A i \in Ids : early'[i] = <<>> \/ early[i] # <<>>
    BY <1>0, <1>13 DEF RestoreResumes, Flush
  <2>5. /\ \A r \in Registrations : \/ wire'[r] \in {wire[r], 0}
                                    \/ wire'[r] \in 0..MaxId /\ Given(wire'[r])
        /\ \A i \in Ids : byId'[i] \in {byId[i], Nobody} \/ Given(i)
    <3>1. CASE req.st = "ok" /\ Rekey(req.reg, req.id)
      BY <1>0, <2>1, <3>1 DEF Rekey, Given
    <3>2. CASE Unregister(req.reg, wire[req.reg])
      BY <1>0, <2>1, <3>2 DEF Unregister
    <3>3. QED
      BY <1>13, <3>1, <3>2 DEF RestoreResumes, FailRegistration
  <2>6. QED
    BY <1>0, <2>1, <2>3, <2>4, <2>5, SameFreshIds
<1>14. QED
  BY <1>1, <1>2, <1>3, <1>4, <1>5, <1>6, <1>7, <1>8, <1>9, <1>10, <1>11, <1>12, <1>13 DEF Next

------------------------------------------------------------------------------
(* The two indexes. *)

(* Each leads back to where the other came from. *)
LeadBack ==
    /\ \A r \in Registrations : wire[r] # 0 => byId[wire[r]] = r
    /\ \A i \in Ids : byId[i] # Nobody => wire[byId[i]] = i

LEMMA IdsAreNumbers == \A i \in Ids : i \in Nat \ {0} /\ i \in 0..MaxId
  BY Bounds DEF Ids

LEMMA RegisterLeadsBack ==
    ASSUME RegistryTyped, LeadBack, NEW r \in Registrations, NEW i \in Ids,
           wire[r] = 0, byId[i] = Nobody, Register(r, i)
    PROVE  LeadBack'
<1>1. /\ wire' = [wire EXCEPT ![r] = i] /\ byId' = [byId EXCEPT ![i] = r]
      /\ wire \in [Registrations -> 0..MaxId]
      /\ byId \in [Ids -> Registrations \cup {Nobody}] /\ Nobody \notin Registrations
  BY SubscriptionsAssumption DEF Register, RegistryTyped
<1>2. \A q \in Registrations : wire[q] # 0 => wire[q] \in Ids /\ wire[q] # i
  BY <1>1, Bounds DEF LeadBack, Ids
<1>3. \A j \in Ids : byId[j] # Nobody => byId[j] \in Registrations /\ byId[j] # r
  BY <1>1, IdsAreNumbers DEF LeadBack
<1>4. \A q \in Registrations : wire'[q] # 0 => byId'[wire'[q]] = q
  BY <1>1, <1>2 DEF LeadBack
<1>5. \A j \in Ids : byId'[j] # Nobody => wire'[byId'[j]] = j
  BY <1>1, <1>3 DEF LeadBack
<1>6. QED
  BY <1>4, <1>5 DEF LeadBack

LEMMA UnregisterLeadsBack ==
    ASSUME RegistryTyped, LeadBack, NEW r \in Registrations, Unregister(r, wire[r])
    PROVE  LeadBack'
<1>1. /\ wire' = [wire EXCEPT ![r] = 0]
      /\ byId' = [i \in Ids |-> IF i = wire[r] THEN Nobody ELSE byId[i]]
      /\ wire \in [Registrations -> 0..MaxId]
      /\ byId \in [Ids -> Registrations \cup {Nobody}] /\ Nobody \notin Registrations
  BY SubscriptionsAssumption DEF Unregister, RegistryTyped
<1>2. \A q \in Registrations : wire[q] # 0 => wire[q] \in Ids /\ (wire[q] = wire[r] => q = r)
  BY <1>1, Bounds DEF LeadBack, Ids
<1>3. \A j \in Ids : byId[j] # Nobody =>
          byId[j] \in Registrations /\ (byId[j] = r => j = wire[r])
  BY <1>1 DEF LeadBack
<1>4. \A q \in Registrations : wire'[q] # 0 => byId'[wire'[q]] = q
  BY <1>1, <1>2 DEF LeadBack
<1>5. \A j \in Ids : byId'[j] # Nobody => wire'[byId'[j]] = j
  BY <1>1, <1>3 DEF LeadBack
<1>6. QED
  BY <1>4, <1>5 DEF LeadBack

LEMMA RekeyLeadsBack ==
    ASSUME RegistryTyped, LeadBack, NEW r \in Registrations, NEW i \in Ids,
           wire[r] # 0, byId[i] = Nobody, Rekey(r, i)
    PROVE  LeadBack'
<1>1. /\ wire' = [wire EXCEPT ![r] = i]
      /\ byId' = [j \in Ids |-> IF j = i THEN r ELSE IF j = wire[r] THEN Nobody ELSE byId[j]]
      /\ wire \in [Registrations -> 0..MaxId]
      /\ byId \in [Ids -> Registrations \cup {Nobody}] /\ Nobody \notin Registrations
  BY SubscriptionsAssumption DEF Rekey, RegistryTyped
<1>2. \A q \in Registrations : wire[q] # 0 =>
          wire[q] \in Ids /\ wire[q] # i /\ (wire[q] = wire[r] => q = r)
  BY <1>1, Bounds DEF LeadBack, Ids
<1>3. \A j \in Ids : byId[j] # Nobody =>
          byId[j] \in Registrations /\ (byId[j] = r => j = wire[r])
  BY <1>1 DEF LeadBack
<1>4. \A q \in Registrations : wire'[q] # 0 => byId'[wire'[q]] = q
  BY <1>1, <1>2 DEF LeadBack
<1>5. \A j \in Ids : byId'[j] # Nobody => wire'[byId'[j]] = j
  BY <1>1, <1>3 DEF LeadBack
<1>6. QED
  BY <1>4, <1>5 DEF LeadBack

(* The lock is let go of: there is no holder to speak of. *)
LEMMA ReleasedIndexes ==
    ASSUME Locked', req' = NoRequest, mode' # "closed" => LeadBack',
           mode' # "closed" => \A p \in live' : byId'[p[1]] \in {Nobody, p[2]},
           live' \subseteq Ids \X Registrations
    PROVE  Indexes'
<1>1. \A i \in 0..MaxId : ~Given(i)'
  BY NothingGiven
<1>2. /\ \A c \in Consumers : ~Asks(c)' /\ ~Leaves(c)'
      /\ rst' # "asking" /\ todo' = {}
  <2>1. Free'
    BY DEF Locked, HolderWaits, NoRequest
  <2>2. QED
    BY <2>1 DEF Free, Asks, Leaves, Locked, HolderWaits
<1>3. /\ \A i \in Ids : ~Given(i)'
      /\ \A p \in live' : ~Given(p[1])'
  BY <1>1, IdsAreNumbers
<1>4. QED
  BY <1>2, <1>3 DEF Indexes, LeadBack

LEMMA IndexesStep ==
    ASSUME TypeOK, Locked, Stages, FreshIds, Indexes, Locked', RegistryTyped', Next
    PROVE  Indexes'
<1>0. /\ TasksTyped /\ RegistryTyped
      /\ wire \in [Registrations -> 0..MaxId] /\ req \in Requests /\ req.id \in 0..MaxId
      /\ byId \in [Ids -> Registrations \cup {Nobody}]
      /\ live \subseteq Ids \X Registrations /\ live' \subseteq Ids \X Registrations
  BY DEF TypeOK, RegistryTyped, Requests
<1>1. mode # "closed" => LeadBack
  BY DEF Indexes, LeadBack
<1>2. ASSUME NEW c \in Consumers,
             SubscribeCall(c) \/ SubscribeJoins(c) \/ SubscribeAsks(c) \/ DrainResumes(c)
      PROVE  Indexes'
  <2>1. CASE SubscribeCall(c)
    BY <2>1 DEF SubscribeCall, session, registry, Ids, TypeOK, TasksTyped, Locked, OneHolder,
       Stages, Indexes, Given, Asks, Leaves
  <2>2. CASE SubscribeJoins(c)
    BY <2>2 DEF SubscribeJoins, Free, session, Ids, TypeOK, TasksTyped, Locked, OneHolder,
       Stages, Indexes, Given, Asks, Leaves
  <2>3. CASE SubscribeAsks(c)
    BY <2>3 DEF SubscribeAsks, Free, Request, session, registry, TypeOK, TasksTyped, Locked,
       HolderWaits, Stages, Indexes, Given, Asks, Leaves
  <2>4. CASE DrainResumes(c)
    BY <2>4 DEF DrainResumes, Answered, Request, NoRequest, session, registry, TypeOK, TasksTyped,
       Locked, OneHolder, HolderWaits, Indexes, Given, Asks, Leaves
  <2>5. QED
    BY <1>2, <2>1, <2>2, <2>3, <2>4
<1>3. ASSUME NEW c \in Consumers,
             CloseCall(c) \/ CleanupRuns(c) \/ CloseLocally(c) \/ CloseLast(c) \/ Take(c)
      PROVE  Indexes'
  <2>1. CASE CloseCall(c) \/ CleanupRuns(c) \/ Take(c)
    BY <2>1 DEF CloseCall, CleanupRuns, Take, session, registry, TypeOK, TasksTyped,
       Indexes, Given, Asks, Leaves
  <2>2. CASE CloseLocally(c)
    BY <2>2 DEF CloseLocally, session, TypeOK, TasksTyped, Indexes, Given, Asks, Leaves
  <2>3. CASE CloseLast(c)
    BY <1>0, <2>3 DEF CloseLast, Free, Request, session, TypeOK, TasksTyped, Locked, HolderWaits,
       Stages, Indexes, Given, Asks, Leaves
  <2>4. QED
    BY <1>3, <2>1, <2>2, <2>3
<1>4. CASE AllCall \/ AllAsks \/ Reconnect \/ RestoreRuns
  <2>1. CASE AllCall \/ Reconnect
    BY <2>1 DEF AllCall, Reconnect, session, registry, Indexes, Given, Asks, Leaves
  <2>2. CASE AllAsks
    BY <2>2 DEF AllAsks, Free, Request, session, registry, Indexes, Given, Asks, Leaves
  <2>3. CASE RestoreRuns
    BY <2>3 DEF RestoreRuns, RestoreNext, Free, Request, NoRequest, registry, Indexes, Given,
       Asks, Leaves
  <2>4. QED
    BY <1>4, <2>1, <2>2, <2>3
<1>5. CASE BrokerAccepts \/ BrokerRefuses \/ TimesOut \/ Lose
  <2>1. CASE BrokerAccepts
    BY <2>1 DEF BrokerAccepts, Handled, registry, TypeOK, RegistryTyped, Ids, Locked, OneHolder,
       HolderWaits, Stages, FreshIds, Indexes, Given, Asks, Leaves, Requests
  <2>2. CASE BrokerRefuses
    BY <1>0, <2>2 DEF BrokerRefuses, session, registry, Indexes, Given, Asks, Leaves, Requests
  <2>3. CASE TimesOut
    BY <1>0, <2>3 DEF TimesOut, Handled, registry, FreshIds, Indexes, Given, Asks, Leaves,
       Requests
  <2>4. CASE Lose
    BY <1>0, <2>4 DEF Lose, Online, SessionEnds, registry, Indexes, Given, Asks, Leaves, Requests
  <2>5. QED
    BY <1>5, <2>1, <2>2, <2>3, <2>4
<1>6. CASE Terminate
  BY <1>6 DEF Terminate, Indexes
<1>7. CASE Publish
  <2>1. UNCHANGED <<live, wire, byId, req, pc, reg, rst, todo>> /\ mode' = mode
    BY <1>7 DEF Publish, session
  <2>2. \A d \in Consumers : Leaves(d)' => Leaves(d)
    BY <1>7 DEF Publish, PublishEarly, PublishTo, Leaves
  <2>3. QED
    BY <2>1, <2>2 DEF Indexes, Given, Asks
<1>8. ASSUME NEW c \in Consumers, SubscribeResumes(c) \/ UndoResumes(c) \/ CancelSubscribe(c)
      PROVE  Indexes'
  <2>1. mode' = mode
    BY <1>8 DEF SubscribeResumes, UndoResumes, CancelSubscribe, session
  <2>2. CASE UNCHANGED <<wire, byId>> /\ req' = req
    <3>1. CancelSubscribe(c) /\ pc[c] \in {"locking", "asking"}
      BY <1>8, <2>2, SubscriberHolds
         DEF SubscribeResumes, UndoResumes, CancelSubscribe, NoRequest, AbandonRequest, Asks
    <3>2. \E v \in {"draining", "failed"} : pc' = [pc EXCEPT ![c] = v]
      BY <3>1 DEF CancelSubscribe
    <3>3. /\ \A d \in Consumers : Asks(d)' => Asks(d) \/ d = c
          /\ \A d \in Consumers : pc'[d] = "undoing" => pc[d] = "undoing"
      BY <1>0, <3>2 DEF Asks, TasksTyped
    <3>4. Asks(c)' => Asks(c)
      BY <1>0, <3>1 DEF CancelSubscribe, AbandonRequest, Asks, TasksTyped
    <3>5. live' = live /\ UNCHANGED <<clo, reg, rst, todo>>
      BY <3>1, <2>2, SubscriberHolds DEF CancelSubscribe, AbandonRequest, NoRequest, Asks
    <3>6. QED
      BY <2>1, <2>2, <3>3, <3>4, <3>5 DEF Indexes, Given, Leaves
  <2>3. CASE UNCHANGED <<wire, byId>> /\ req' = NoRequest
    <3>1. live' = live \/ Handled
      BY <1>8 DEF SubscribeResumes, UndoResumes, CancelSubscribe, session, AbandonRequest
    <3>2. mode' # "closed" => \A p \in live' : byId'[p[1]] \in {Nobody, p[2]}
      BY <1>0, <2>1, <2>3, <3>1, HandledIds DEF Indexes, FreshIds
    <3>3. mode' # "closed" => LeadBack'
      BY <1>1, <2>1, <2>3 DEF LeadBack
    <3>4. QED
      BY <1>0, <2>3, <3>2, <3>3, ReleasedIndexes
  <2>4. CASE Register(reg[c], req.id) /\ req' = NoRequest /\ Asks(c) /\ Given(req.id)
    <3>1. /\ mode # "closed" => wire[reg[c]] = 0 /\ byId[req.id] = Nobody
          /\ reg[c] \in Registrations /\ req.id \in Ids /\ req.reg = reg[c]
      BY <1>0, <2>4, RegTyped, SubscriberHolds DEF Indexes, FreshIds, Asks
    <3>2. mode' # "closed" => LeadBack'
      BY <1>0, <1>1, <2>1, <2>4, <3>1, RegisterLeadsBack
    <3>3. live' \subseteq live
      <4>1. req.kind = "unsub" \/ req.st = "ok"
        BY <2>4, SubscriberHolds DEF Given, Asks
      <4>2. live' = live \/ (req.st = "sent" /\ Handled)
        BY <1>8 DEF SubscribeResumes, UndoResumes, CancelSubscribe, session, AbandonRequest
      <4>3. QED
        BY <4>1, <4>2 DEF Handled
    <3>4. mode' # "closed" => \A p \in live' : byId'[p[1]] \in {Nobody, p[2]}
      BY <1>0, <2>1, <2>4, <3>1, <3>3 DEF Indexes, Register
    <3>5. QED
      BY <1>0, <2>4, <3>2, <3>4, ReleasedIndexes
  <2>5. QED
    <3>1. Asks(c) => Given(req.id) \/ ~(pc[c] = "undoing" \/ req.st = "ok")
      BY SubscriberHolds DEF Given
    <3>2. QED
      BY <1>8, <2>2, <2>3, <2>4, <3>1
         DEF SubscribeResumes, UndoResumes, CancelSubscribe, AbandonRequest, Asks, registry
<1>9. ASSUME NEW c \in Consumers, CloseResumes(c) \/ CancelClose(c)
      PROVE  Indexes'
  <2>1. mode' = mode
    BY <1>9 DEF CloseResumes, CancelClose, session
  <2>2. CASE CancelClose(c) /\ req' = req
    <3>1. /\ UNCHANGED <<wire, byId, pc, reg, rst, todo>>
          /\ \E v \in {"abandoned", "draining", "done"} : clo' = [clo EXCEPT ![c] = v]
          /\ clo'[c] = "draining" => Leaves(c)
      BY <2>2 DEF CancelClose, registry, Leaves, TypeOK, TasksTyped
    <3>2. \A d \in Consumers : Leaves(d)' => Leaves(d)
      BY <1>0, <3>1 DEF Leaves, TasksTyped
    <3>3. live' = live
      BY <2>2, CloserHolds DEF CancelClose, AbandonRequest, NoRequest, Leaves
    <3>4. QED
      BY <2>1, <2>2, <3>1, <3>2, <3>3 DEF Indexes, Given, Asks
  <2>3. CASE UNCHANGED <<wire, byId>> /\ req' = NoRequest
    <3>1. live' = live \/ Handled
      BY <1>9 DEF CloseResumes, CancelClose, session, AbandonRequest
    <3>2. mode' # "closed" => \A p \in live' : byId'[p[1]] \in {Nobody, p[2]}
      BY <1>0, <2>1, <2>3, <3>1, HandledIds DEF Indexes, FreshIds
    <3>3. mode' # "closed" => LeadBack'
      BY <1>1, <2>1, <2>3 DEF LeadBack
    <3>4. QED
      BY <1>0, <2>3, <3>2, <3>3, ReleasedIndexes
  <2>4. CASE CloseResumes(c) /\ Unregister(reg[c], req.id)
    <3>1. /\ reg[c] \in Registrations /\ (mode # "closed" => wire[reg[c]] = req.id)
      BY <2>4, RegTyped DEF CloseResumes, Indexes, Leaves
    <3>2. mode' # "closed" => LeadBack'
      BY <1>0, <1>1, <2>1, <2>4, <3>1, UnregisterLeadsBack
    <3>3. live' = live /\ req' = NoRequest
      BY <2>4 DEF CloseResumes, session
    <3>4. mode' # "closed" => \A p \in live' : byId'[p[1]] \in {Nobody, p[2]}
      BY <1>0, <2>1, <2>4, <3>1, <3>3 DEF Indexes, Unregister
    <3>5. QED
      BY <1>0, <3>2, <3>3, <3>4, ReleasedIndexes
  <2>5. QED
    BY <1>9, <2>2, <2>3, <2>4 DEF CloseResumes, CancelClose, AbandonRequest, registry
<1>10. CASE AllResumes \/ AllCancelled \/ RestoreCancelled
  <2>1. UNCHANGED <<pc, clo, reg>> /\ mode' = mode
    BY <1>10 DEF AllResumes, AllCancelled, RestoreCancelled, session
  <2>2. CASE RestoreCancelled
    BY <2>1, <2>2 DEF RestoreCancelled, Indexes
  <2>3. CASE AllCancelled /\ req' = req
    <3>1. UNCHANGED <<live, wire, byId, rst, todo>>
      BY <2>3, AllHolds DEF AllCancelled, AbandonRequest, NoRequest, registry
    <3>2. QED
      BY <2>1, <2>3, <3>1 DEF Indexes, Given, Asks, Leaves
  <2>4. CASE UNCHANGED <<wire, byId>> /\ req' = NoRequest /\ ~RestoreCancelled
    <3>1. live' = live \/ Handled
      BY <1>10, <2>4 DEF AllResumes, AllCancelled, session, AbandonRequest
    <3>2. mode' # "closed" => \A p \in live' : byId'[p[1]] \in {Nobody, p[2]}
      BY <1>0, <2>1, <2>4, <3>1, HandledIds DEF Indexes, FreshIds
    <3>3. mode' # "closed" => LeadBack'
      BY <1>1, <2>1, <2>4 DEF LeadBack
    <3>4. QED
      BY <1>0, <2>4, <3>2, <3>3, ReleasedIndexes
  <2>5. CASE AllResumes /\ Clear
    <3>1. /\ \A r \in Registrations : wire'[r] = 0
          /\ \A i \in Ids : byId'[i] = Nobody
          /\ req' = NoRequest
      BY <2>5 DEF AllResumes, Clear
    <3>2. LeadBack' /\ \A p \in live' : byId'[p[1]] \in {Nobody, p[2]}
      BY <1>0, <3>1 DEF LeadBack
    <3>3. QED
      BY <1>0, <3>1, <3>2, ReleasedIndexes
  <2>6. QED
    BY <1>10, <2>2, <2>3, <2>4, <2>5 DEF AllResumes, AllCancelled, AbandonRequest, registry
<1>11. CASE RestoreResumes
  <2>1. /\ UNCHANGED <<live, pc, clo, reg>> /\ (mode' = "closed" <=> mode = "closed")
        /\ req.kind = "sub" /\ req.reg \in Registrations \ todo
        /\ \A d \in Consumers : ~Asks(d)' /\ ~Leaves(d)'
    BY <1>11, RestoreHolds DEF RestoreResumes, RestoreNext, Asks, Leaves
  <2>2. /\ LeadBack' \/ mode = "closed"
        /\ mode # "closed" => \A p \in live' : byId'[p[1]] \in {Nobody, p[2]}
        /\ \A r \in todo : wire'[r] = wire[r]
    <3>1. CASE req.st = "ok"
      <4>1. /\ Rekey(req.reg, req.id) /\ Given(req.id)
        BY <1>11, <2>1, <3>1 DEF RestoreResumes, Given
      <4>2. /\ req.id \in Ids
            /\ mode # "closed" => wire[req.reg] # 0 /\ byId[req.id] = Nobody
        BY <1>0, <1>11, <4>1 DEF FreshIds, Indexes, RestoreResumes
      <4>3. mode # "closed" => LeadBack'
        BY <1>0, <1>1, <2>1, <4>1, <4>2, RekeyLeadsBack
      <4>4. mode # "closed" => \A p \in live' : byId'[p[1]] \in {Nobody, p[2]}
        BY <1>0, <2>1, <4>1, <4>2 DEF Rekey, Indexes
      <4>5. \A r \in todo : wire'[r] = wire[r]
        BY <1>0, <2>1, <4>1 DEF Rekey, TasksTyped
      <4>6. QED
        BY <4>3, <4>4, <4>5
    <3>2. CASE Unregister(req.reg, wire[req.reg])
      <4>1. mode # "closed" => LeadBack'
        BY <1>0, <1>1, <2>1, <3>2, UnregisterLeadsBack
      <4>2. mode # "closed" => \A p \in live' : byId'[p[1]] \in {Nobody, p[2]}
        BY <1>0, <2>1, <3>2 DEF Unregister, Indexes
      <4>3. \A r \in todo : wire'[r] = wire[r]
        BY <1>0, <2>1, <3>2 DEF Unregister, TasksTyped
      <4>4. QED
        BY <4>1, <4>2, <4>3
    <3>3. QED
      BY <1>11, <3>1, <3>2 DEF RestoreResumes, FailRegistration
  <2>3. CASE rst' = "none"
    <3>1. req' = NoRequest
      BY <1>11, <2>3 DEF RestoreResumes, RestoreNext
    <3>2. QED
      BY <1>0, <2>1, <2>2, <3>1, ReleasedIndexes
  <2>4. CASE rst' = "asking"
    <3>1. PICK r \in todo : todo' = todo \ {r} /\ Request("sub", r, 0)
      BY <1>11, <2>4 DEF RestoreResumes, RestoreNext
    <3>2. req'.reg = r /\ req'.st # "ok" /\ req'.kind = "sub"
      BY <3>1 DEF Request
    <3>3. \A i \in Ids : ~Given(i)'
      BY <2>1, <3>2 DEF Given, Asks
    <3>4. mode # "closed" => \A q \in todo : wire'[q] # 0
      BY <2>2 DEF Indexes
    <3>5. QED
      BY <1>0, <2>1, <2>2, <3>1, <3>2, <3>3, <3>4 DEF Indexes, LeadBack
  <2>5. QED
    BY <1>11, <2>3, <2>4 DEF RestoreResumes, RestoreNext
<1>12. QED
  BY <1>2, <1>3, <1>4, <1>5, <1>6, <1>7, <1>8, <1>9, <1>10, <1>11 DEF Next

------------------------------------------------------------------------------
(* Who is in the set of a registration. *)

(* A consumer that was present and is not told of its end stays present. *)
LEMMA Present ==
    ASSUME NoForgottenConsumer, Stages',
           \A c \in Consumers : IsOpen(c)' /\ ~Leaves(c)' =>
              \/ c \in cons'[reg'[c]]
              \/ /\ IsOpen(c) /\ ~Leaves(c) /\ reg'[c] = reg[c]
                 /\ reg[c] \in Registrations /\ c \in cons[reg[c]] => c \in cons'[reg[c]]
    PROVE  NoForgottenConsumer'
<1>1. \A c \in Consumers : IsOpen(c)' => reg'[c] \in Registrations
  BY DEF IsOpen, Stages
<1>2. \A c \in Consumers : IsOpen(c)' /\ ~Leaves(c)' => c \in cons'[reg'[c]]
  BY <1>1 DEF NoForgottenConsumer, Leaves
<1>3. \A c \in Consumers : c \in cons'[reg'[c]] /\ reg'[c] \in Registrations => wire'[reg'[c]] # 0
  BY DEF Stages
<1>4. QED
  BY <1>1, <1>2, <1>3 DEF NoForgottenConsumer, Leaves

LEMMA PresentStep ==
    ASSUME TypeOK, Locked, Stages, NoForgottenConsumer, Stages', Next
    PROVE  NoForgottenConsumer'
<1>0. /\ cons \in [Registrations -> SUBSET Consumers]
      /\ pc \in [Consumers -> {"idle", "locking", "asking", "draining", "undoing", "open",
                               "failed"}]
      /\ clo \in [Consumers -> {"none", "scheduled", "locking", "leaving", "draining", "done",
                                "abandoned"}]
      /\ fate \in [Consumers -> {"none", "failed", "ended"}]
      /\ reg \in [Consumers -> Registrations \cup {Nobody}]
  BY DEF TypeOK, TasksTyped, RegistryTyped, BuffersTyped
<1>1. ASSUME NEW c \in Consumers,
             \/ SubscribeCall(c) \/ SubscribeAsks(c) \/ DrainResumes(c) \/ UndoResumes(c)
             \/ CancelSubscribe(c)
      PROVE  NoForgottenConsumer'
  <2>1. /\ UNCHANGED <<cons, fate, clo>>
        /\ pc[c] # "open" /\ \E v \in {"locking", "asking", "failed", "undoing", "draining"} :
                                pc' = [pc EXCEPT ![c] = v]
        /\ reg' = reg \/ \E r \in Registrations : reg' = [reg EXCEPT ![c] = r]
    BY <1>1 DEF SubscribeCall, SubscribeAsks, DrainResumes, UndoResumes, CancelSubscribe,
       registry, local
  <2>2. \A d \in Consumers : pc'[d] = "open" => pc[d] = "open" /\ reg'[d] = reg[d]
    BY <1>0, <2>1
  <2>3. QED
    BY <2>1, <2>2, Present DEF IsOpen, Leaves
<1>2. ASSUME NEW c \in Consumers, SubscribeJoins(c) \/ SubscribeResumes(c)
      PROVE  NoForgottenConsumer'
  <2>1. /\ UNCHANGED <<clo, reg>> /\ reg[c] \in Registrations
        /\ \/ cons' = [cons EXCEPT ![reg[c]] = @ \cup {c}] /\ pc' = [pc EXCEPT ![c] = "open"]
           \/ cons' = cons /\ pc' = [pc EXCEPT ![c] = "failed"]
    BY <1>0, <1>2 DEF SubscribeJoins, SubscribeResumes, registry, Stages
  <2>2. \A d \in Consumers : fate'[d] = "none" => fate[d] = "none"
    BY <1>0, <1>2 DEF SubscribeJoins, SubscribeResumes, Flush, Deliver
  <2>3. \A d \in Consumers : pc'[d] = "open" /\ d # c => pc[d] = "open"
    BY <1>0, <2>1
  <2>4. pc'[c] = "open" => c \in cons'[reg[c]]
    BY <1>0, <2>1
  <2>5. \A r \in Registrations : cons[r] \subseteq cons'[r]
    BY <1>0, <2>1
  <2>6. QED
    BY <2>1, <2>2, <2>3, <2>4, <2>5, Present DEF IsOpen, Leaves
<1>3. ASSUME NEW c \in Consumers, CloseCall(c) \/ CleanupRuns(c) \/ CloseLast(c) \/ Take(c)
      PROVE  NoForgottenConsumer'
  <2>1. /\ UNCHANGED <<fate, pc, reg>>
        /\ \A d \in Consumers : Leaves(d) => Leaves(d)'
    BY <1>0, <1>3 DEF CloseCall, CleanupRuns, CloseLast, Take, local, Leaves
  <2>2. cons' = cons \/ (CloseLast(c) /\ cons[reg[c]] \subseteq {c}
                          /\ cons' = [cons EXCEPT ![reg[c]] = {}])
    BY <1>3 DEF CloseCall, CleanupRuns, CloseLast, Take, registry
  <2>3. CloseLast(c) => Leaves(c)'
    BY <1>0 DEF CloseLast, Leaves
  <2>4. \A d \in Consumers, r \in Registrations : d \in cons[r] /\ d # c => d \in cons'[r]
    BY <1>0, <2>2
  <2>5. ~Leaves(c)' => cons' = cons
    BY <2>2, <2>3
  <2>6. QED
    BY <2>1, <2>4, <2>5, Present DEF IsOpen
<1>4. ASSUME NEW c \in Consumers, CloseLocally(c) \/ CloseResumes(c)
      PROVE  NoForgottenConsumer'
  <2>1. /\ UNCHANGED <<pc, reg>> /\ End({c}, "ended") /\ clo' = [clo EXCEPT ![c] = "done"]
    BY <1>4 DEF CloseLocally, CloseResumes
  <2>2. /\ fate'[c] # "none" /\ \A d \in Consumers : fate'[d] = "none" => fate[d] = "none"
        /\ \A d \in Consumers : d # c => clo'[d] = clo[d]
    BY <1>0, <2>1 DEF End
  <2>3. \A d \in Consumers, r \in Registrations : d \in cons[r] /\ d # c => d \in cons'[r]
    <3>1. CASE CloseLocally(c)
      BY <1>0, <3>1 DEF CloseLocally
    <3>2. CASE CloseResumes(c)
      <4>1. cons' = cons \/ (cons[reg[c]] = {} /\ cons' = [cons EXCEPT ![reg[c]] = {}])
        BY <3>2 DEF CloseResumes, Unregister, Stages, Leaves
      <4>2. QED
        BY <1>0, <4>1
    <3>3. QED
      BY <1>4, <3>1, <3>2
  <2>4. QED
    BY <2>1, <2>2, <2>3, Present DEF IsOpen, Leaves
<1>5. ASSUME NEW c \in Consumers, CancelClose(c)
      PROVE  NoForgottenConsumer'
  <2>1. UNCHANGED <<pc, reg, cons>>
    BY <1>5 DEF CancelClose, registry
  <2>2. /\ \A d \in Consumers : fate'[d] = "none" => fate[d] = "none"
        /\ \A d \in Consumers : d # c => clo'[d] = clo[d]
    BY <1>0, <1>5 DEF CancelClose, End, local
  <2>3. fate'[c] # "none" \/ Leaves(c)'
    BY <1>0, <1>5 DEF CancelClose, End, Leaves
  <2>4. QED
    BY <2>1, <2>2, <2>3, Present DEF IsOpen, Leaves
<1>6. CASE \/ AllCall \/ AllAsks \/ AllCancelled
           \/ BrokerAccepts \/ BrokerRefuses \/ TimesOut \/ Lose
           \/ Reconnect \/ RestoreRuns \/ RestoreCancelled
  <2>1. UNCHANGED <<pc, reg, clo, cons, fate>>
    BY <1>6 DEF AllCall, AllAsks, AllCancelled, BrokerAccepts, BrokerRefuses, TimesOut, Lose,
       Reconnect, RestoreRuns, RestoreCancelled, registry, local
  <2>2. QED
    BY <2>1, Present DEF IsOpen, Leaves
<1>7. CASE AllResumes \/ Terminate
  <2>1. UNCHANGED <<pc, reg, clo>>
    BY <1>7 DEF AllResumes, Terminate
  <2>2. CASE UNCHANGED <<cons, fate>>
    BY <2>1, <2>2, Present DEF IsOpen, Leaves
  <2>3. CASE Clear
    <3>1. /\ \A d \in Consumers : fate'[d] = "none" => fate[d] = "none"
          /\ \A d \in Members : fate'[d] # "none"
      BY <1>0, <2>3 DEF Clear, End, Members
    <3>2. \A d \in Consumers, r \in Registrations : d \in cons[r] => d \in Members
      BY DEF Members
    <3>3. QED
      BY <2>1, <3>1, <3>2, Present DEF IsOpen, Leaves
  <2>4. QED
    BY <1>7, <2>2, <2>3 DEF AllResumes, Terminate, local
<1>8. CASE Publish
  <2>1. UNCHANGED <<pc, reg>>
    BY <1>8 DEF Publish
  <2>2. PICK p \in live : PublishEarly(p[1]) \/ PublishTo(p[1])
    BY <1>8 DEF Publish
  <2>3. CASE PublishEarly(p[1])
    BY <2>1, <2>3, Present DEF PublishEarly, IsOpen, Leaves
  <2>4. CASE PublishTo(p[1])
    <3>1. \A d \in Consumers : Leaves(d)' <=> Leaves(d)
      BY <2>4 DEF PublishTo, Leaves
    <3>2. \A d \in Consumers : fate'[d] = "none" => fate[d] = "none"
      BY <1>0, <2>4 DEF PublishTo, Deliver
    <3>3. \A d \in Consumers, r \in Registrations :
              d \in cons[r] /\ fate'[d] = "none" => d \in cons'[r]
      BY <1>0, <2>4 DEF PublishTo
    <3>4. QED
      BY <2>1, <3>1, <3>2, <3>3, Present DEF IsOpen
  <2>5. QED
    BY <2>2, <2>3, <2>4
<1>9. CASE RestoreResumes
  <2>1. UNCHANGED <<pc, reg, clo>>
    BY <1>9 DEF RestoreResumes
  <2>2. \A d \in Consumers : fate'[d] = "none" => fate[d] = "none"
    BY <1>0, <1>9 DEF RestoreResumes, Flush, Deliver, FailRegistration, End
  <2>3. \A d \in Consumers, r \in Registrations :
            d \in cons[r] /\ fate'[d] = "none" => d \in cons'[r]
    BY <1>0, <1>9 DEF RestoreResumes, FailRegistration, Unregister, End
  <2>4. QED
    BY <2>1, <2>2, <2>3, Present DEF IsOpen, Leaves
<1>10. QED
  BY <1>1, <1>2, <1>3, <1>4, <1>5, <1>6, <1>7, <1>8, <1>9 DEF Next

------------------------------------------------------------------------------
(* What is kept, and for whom. *)

\* Nobody leaves the closed mode.
LEMMA ClosedForGood ==
    ASSUME Next, mode' # "closed"
    PROVE  mode # "closed"
<1>1. ASSUME NEW c \in Consumers,
             \/ SubscribeCall(c) \/ SubscribeJoins(c) \/ SubscribeAsks(c)
             \/ SubscribeResumes(c) \/ DrainResumes(c) \/ UndoResumes(c)
             \/ CancelSubscribe(c)
      PROVE  mode' = mode
  BY <1>1 DEF SubscribeCall, SubscribeJoins, SubscribeAsks, SubscribeResumes, DrainResumes,
     UndoResumes, CancelSubscribe, session
<1>2. ASSUME NEW c \in Consumers,
             \/ CloseCall(c) \/ CleanupRuns(c) \/ CloseLocally(c) \/ CloseLast(c)
             \/ CloseResumes(c) \/ CancelClose(c) \/ Take(c)
      PROVE  mode' = mode
  BY <1>2 DEF CloseCall, CleanupRuns, CloseLocally, CloseLast, CloseResumes, CancelClose,
     Take, session
<1>3. CASE \/ AllCall \/ AllAsks \/ AllResumes \/ AllCancelled \/ BrokerAccepts
           \/ BrokerRefuses \/ TimesOut \/ Publish
  BY <1>3 DEF AllCall, AllAsks, AllResumes, AllCancelled, BrokerAccepts, BrokerRefuses,
     TimesOut, Publish, session
<1>4. CASE \/ Lose \/ Reconnect \/ Terminate \/ RestoreRuns \/ RestoreResumes
           \/ RestoreCancelled
  BY <1>4 DEF Lose, Reconnect, Terminate, RestoreRuns, RestoreResumes, RestoreCancelled,
     session, Online, RestoreNext
<1>5. QED
  BY <1>1, <1>2, <1>3, <1>4 DEF Next

LEMMA StillNothingKept ==
    ASSUME NothingKept, UNCHANGED early,
           \A r \in Registrations : cons'[r] # {} => cons[r] # {} /\ wire'[r] = wire[r]
    PROVE  NothingKept'
  BY DEF NothingKept

LEMMA NothingKeptStep ==
    ASSUME TypeOK, Locked, Stages, FreshIds, Indexes, NothingKept, mode # "closed",
           Next, mode' # "closed"
    PROVE  NothingKept'
<1>0. /\ cons \in [Registrations -> SUBSET Consumers]
      /\ wire \in [Registrations -> 0..MaxId]
      /\ early \in [Ids -> Seq(1..MaxItems)]
      /\ \A r \in Registrations : cons[r] # {} => wire[r] \in Ids
      /\ RegistryTyped
  BY Bounds DEF TypeOK, RegistryTyped, BuffersTyped, Stages, Ids
<1>1. ASSUME NEW c \in Consumers,
             \/ SubscribeCall(c) \/ SubscribeAsks(c) \/ DrainResumes(c) \/ CloseCall(c)
             \/ CleanupRuns(c) \/ CancelClose(c) \/ Take(c)
      PROVE  NothingKept'
  <2>1. UNCHANGED <<early, cons, wire>>
    BY <1>1 DEF SubscribeCall, SubscribeAsks, DrainResumes, CloseCall, CleanupRuns, CancelClose,
       Take, registry
  <2>2. QED
    BY <2>1, StillNothingKept
<1>2. CASE \/ AllCall \/ AllAsks \/ AllCancelled
           \/ BrokerAccepts \/ BrokerRefuses \/ TimesOut \/ Lose
           \/ Reconnect \/ RestoreRuns \/ RestoreCancelled
  <2>1. UNCHANGED <<early, cons, wire>>
    BY <1>2 DEF AllCall, AllAsks, AllCancelled, BrokerAccepts, BrokerRefuses, TimesOut, Lose,
       Reconnect, RestoreRuns, RestoreCancelled, registry
  <2>2. QED
    BY <2>1, StillNothingKept
<1>3. ASSUME NEW c \in Consumers, CloseLocally(c) \/ CloseLast(c) \/ CloseResumes(c)
      PROVE  NothingKept'
  <2>1. /\ UNCHANGED early
        /\ \A r \in Registrations : cons'[r] # {} => cons[r] # {} /\ wire'[r] = wire[r]
    BY <1>0, <1>3 DEF CloseLocally, CloseLast, CloseResumes, Unregister
  <2>2. QED
    BY <2>1, StillNothingKept
<1>4. ASSUME NEW c \in Consumers, UndoResumes(c) \/ CancelSubscribe(c)
      PROVE  NothingKept'
  <2>1. UNCHANGED <<early, cons>>
        /\ \/ wire' = wire
           \/ pc[c] = "undoing" /\ wire' = [wire EXCEPT ![reg[c]] = req.id]
    BY <1>4 DEF UndoResumes, CancelSubscribe, Register
  <2>2. pc[c] = "undoing" => reg[c] \in Registrations /\ wire[reg[c]] = 0
    BY DEF Indexes, Asks, Stages
  <2>3. \A r \in Registrations : cons'[r] # {} => cons[r] # {} /\ wire'[r] = wire[r]
    BY <1>0, <2>1, <2>2 DEF Stages
  <2>4. QED
    BY <2>1, <2>3, StillNothingKept
<1>5. ASSUME NEW c \in Consumers, SubscribeJoins(c) \/ SubscribeResumes(c)
      PROVE  NothingKept'
  <2>1. reg[c] \in Registrations
    BY <1>5 DEF Stages, SubscribeJoins, SubscribeResumes
  <2>2. CASE UNCHANGED registry
    BY <2>2, StillNothingKept DEF registry
  <2>3. CASE SubscribeJoins(c)
    <3>1. /\ UNCHANGED wire /\ wire[reg[c]] \in Ids
          /\ cons' = [cons EXCEPT ![reg[c]] = @ \cup {c}]
          /\ early' = [early EXCEPT ![wire[reg[c]]] = <<>>]
      BY <1>0, <2>1, <2>3, Bounds DEF SubscribeJoins, Flush, Ids
    <3>2. QED
      BY <1>0, <2>1, <3>1 DEF NothingKept
  <2>4. CASE SubscribeResumes(c) /\ req.st = "ok"
    <3>1. /\ wire' = [wire EXCEPT ![reg[c]] = req.id] /\ req.id \in Ids
          /\ cons' = [cons EXCEPT ![reg[c]] = @ \cup {c}]
          /\ early' = [early EXCEPT ![req.id] = <<>>]
      <4>1. req.kind = "sub"
        BY <2>4, SubscriberHolds DEF SubscribeResumes, Asks
      <4>2. QED
        BY <1>0, <2>4, <4>1, OkIsGiven DEF SubscribeResumes, Flush, Register
    <3>2. QED
      BY <1>0, <2>1, <3>1 DEF NothingKept
  <2>5. QED
    BY <1>5, <2>2, <2>3, <2>4 DEF SubscribeResumes
<1>6. CASE AllResumes
  <2>1. UNCHANGED early
        /\ (UNCHANGED <<cons, wire>> \/ \A r \in Registrations : cons'[r] = {})
    BY <1>6 DEF AllResumes, Clear
  <2>2. QED
    BY <2>1, StillNothingKept
<1>7. CASE Publish
  <2>1. UNCHANGED wire
    BY <1>7 DEF Publish
  <2>2. PICK p \in live : PublishEarly(p[1]) \/ PublishTo(p[1])
    BY <1>7 DEF Publish
  <2>3. CASE PublishEarly(p[1])
    <3>1. UNCHANGED cons /\ byId[p[1]] = Nobody /\ p[1] \in Ids
      BY <1>0, <2>3 DEF PublishEarly, RegistryTyped
    <3>2. \A i \in Ids : i # p[1] /\ early[i] = <<>> => early'[i] = <<>>
      BY <1>0, <2>3, <3>1 DEF PublishEarly, Oldest
    <3>3. \A r \in Registrations : cons[r] # {} => wire[r] # p[1]
      BY <1>0, <3>1, SubscriptionsAssumption DEF Stages, Indexes
    <3>4. QED
      BY <1>0, <2>1, <3>1, <3>2, <3>3 DEF NothingKept
  <2>4. CASE PublishTo(p[1])
    <3>1. UNCHANGED early /\ \A r \in Registrations : cons'[r] \subseteq cons[r]
      BY <1>0, <2>4 DEF PublishTo
    <3>2. QED
      BY <2>1, <3>1, StillNothingKept
  <2>5. QED
    BY <2>2, <2>3, <2>4
<1>8. CASE RestoreResumes
  <2>1. req.reg \in Registrations /\ req.kind = "sub"
    BY <1>8, RestoreHolds DEF RestoreResumes
  <2>2. CASE req.st = "ok"
    <3>1. /\ wire' = [wire EXCEPT ![req.reg] = IF @ = 0 THEN 0 ELSE req.id]
          /\ early' = [early EXCEPT ![req.id] = <<>>]
          /\ UNCHANGED cons /\ req.id \in Ids
      BY <1>0, <1>8, <2>1, <2>2, OkIsGiven DEF RestoreResumes, Rekey, Flush
    <3>2. QED
      BY <1>0, <2>1, <3>1 DEF NothingKept, Stages
  <2>3. CASE req.st # "ok"
    <3>1. /\ UNCHANGED early
          /\ \A r \in Registrations : cons'[r] # {} => cons[r] # {} /\ wire'[r] = wire[r]
      BY <1>0, <1>8, <2>1, <2>3 DEF RestoreResumes, FailRegistration, Unregister
    <3>2. QED
      BY <3>1, StillNothingKept
  <2>4. QED
    BY <2>2, <2>3
<1>9. CASE Terminate
  BY <1>9 DEF Terminate
<1>10. QED
  BY <1>1, <1>2, <1>3, <1>4, <1>5, <1>6, <1>7, <1>8, <1>9 DEF Next

LEMMA NothingDueStep ==
    ASSUME TypeOK, Locked, Stages, NothingDue, Next
    PROVE  NothingDue'
<1>0. /\ pc \in [Consumers -> {"idle", "locking", "asking", "draining", "undoing", "open",
                               "failed"}]
      /\ due \in [Consumers -> Seq(1..MaxItems)] /\ req \in Requests
      /\ clo \in [Consumers -> {"none", "scheduled", "locking", "leaving", "draining", "done",
                                "abandoned"}]
  BY DEF TypeOK, TasksTyped, RegistryTyped, BuffersTyped
<1>1. ASSUME NEW c \in Consumers,
             \/ SubscribeCall(c) \/ SubscribeJoins(c) \/ SubscribeResumes(c) \/ DrainResumes(c)
             \/ UndoResumes(c)
      PROVE  NothingDue'
  <2>1. /\ \A d \in Consumers : d # c => due'[d] = due[d] /\ pc'[d] = pc[d]
        /\ pc'[c] # "asking"
    BY <1>0, <1>1 DEF SubscribeCall, SubscribeJoins, SubscribeResumes, DrainResumes, UndoResumes,
       local
  <2>2. req' = req \/ \A d \in Consumers : d # c => pc[d] # "asking"
    BY <1>1, SubscriberHolds
       DEF SubscribeCall, SubscribeJoins, SubscribeResumes, DrainResumes, UndoResumes, Asks
  <2>3. QED
    BY <2>1, <2>2 DEF NothingDue
<1>2. ASSUME NEW c \in Consumers, SubscribeAsks(c)
      PROVE  NothingDue'
  <2>1. /\ UNCHANGED due /\ pc[c] = "locking" /\ pc' = [pc EXCEPT ![c] = "asking"]
        /\ Free
    BY <1>2 DEF SubscribeAsks, local
  <2>2. \A d \in Consumers : pc'[d] = "asking" => d = c
    BY <1>0, <2>1 DEF Free
  <2>3. QED
    BY <2>1, <2>2 DEF NothingDue, Stages
<1>3. ASSUME NEW c \in Consumers, CancelSubscribe(c)
      PROVE  NothingDue'
  <2>1. /\ due' = [due EXCEPT ![c] = <<>>]
        /\ \E v \in {"failed", "draining"} : pc' = [pc EXCEPT ![c] = v]
        /\ req' = req \/ Asks(c)
    BY <1>3 DEF CancelSubscribe, Asks
  <2>2. req' = req \/ \A d \in Consumers : d # c => pc[d] # "asking"
    BY <2>1, SubscriberHolds DEF Asks
  <2>3. QED
    BY <1>0, <2>1, <2>2 DEF NothingDue
<1>4. ASSUME NEW c \in Consumers,
             \/ CloseCall(c) \/ CleanupRuns(c) \/ CloseLocally(c) \/ CloseLast(c)
             \/ CloseResumes(c) \/ CancelClose(c) \/ Take(c)
      PROVE  NothingDue'
  <2>1. /\ UNCHANGED pc /\ pc[c] = "open"
        /\ \A d \in Consumers : d # c => due'[d] = due[d]
    BY <1>0, <1>4 DEF CloseCall, CleanupRuns, CloseLocally, CloseLast, CloseResumes, CancelClose,
       Take, local, End, Stages
  <2>2. req' = req \/ \A d \in Consumers : pc[d] # "asking"
    <3>1. CASE Leaves(c)
      BY <3>1, CloserHolds DEF Asks
    <3>2. CASE ~Leaves(c)
      BY <1>4, <3>2 DEF CloseCall, CleanupRuns, CloseLocally, CloseLast, CloseResumes,
         CancelClose, Take, Leaves, Free
    <3>3. QED
      BY <3>1, <3>2
  <2>3. QED
    BY <2>1, <2>2 DEF NothingDue
<1>5. CASE \/ AllCall \/ AllAsks \/ AllResumes \/ AllCancelled \/ Reconnect \/ Terminate
           \/ RestoreRuns \/ RestoreResumes \/ RestoreCancelled
  <2>1. UNCHANGED pc /\ \A d \in Consumers : pc[d] # "open" => due'[d] = due[d]
    <3>1. UNCHANGED due \/ Clear \/ End(cons[req.reg], "failed")
      BY <1>5 DEF AllCall, AllAsks, AllResumes, AllCancelled, Reconnect, Terminate, RestoreRuns,
         RestoreResumes, RestoreCancelled, FailRegistration, local
    <3>2. \A d \in Consumers : pc[d] # "open" => d \notin Members
      BY DEF Members, Stages
    <3>3. rst = "asking" => \A d \in Consumers : pc[d] # "open" => d \notin cons[req.reg]
      BY RestoreHolds DEF Stages
    <3>4. RestoreResumes => rst = "asking"
      BY DEF RestoreResumes
    <3>5. End(cons[req.reg], "failed") /\ RestoreResumes =>
              \A d \in Consumers : pc[d] # "open" => due'[d] = due[d]
      BY <3>3, <3>4 DEF End
    <3>6. Clear => \A d \in Consumers : pc[d] # "open" => due'[d] = due[d]
      BY <3>2 DEF Clear, End
    <3>7. RestoreResumes \/ UNCHANGED due \/ Clear
      BY <1>5 DEF AllCall, AllAsks, AllResumes, AllCancelled, Reconnect, Terminate, RestoreRuns,
         RestoreCancelled, local
    <3>8. RestoreResumes => UNCHANGED due \/ End(cons[req.reg], "failed")
      BY DEF RestoreResumes, FailRegistration
    <3>9. UNCHANGED pc
      BY <1>5 DEF AllCall, AllAsks, AllResumes, AllCancelled, Reconnect, Terminate, RestoreRuns,
         RestoreResumes, RestoreCancelled
    <3>10. QED
      BY <3>5, <3>6, <3>7, <3>8, <3>9
  <2>2. req.st = "ok" => req'.st = "ok" \/ \A d \in Consumers : pc[d] # "asking"
    <3>1. rst = "asking" \/ all = "asking" \/ Free => \A d \in Consumers : pc[d] # "asking"
      BY RestoreHolds, AllHolds DEF Asks, Free
    <3>2. QED
      BY <1>0, <1>5, <3>1 DEF AllCall, AllAsks, AllResumes, AllCancelled, Reconnect, Terminate,
         SessionEnds, RestoreRuns, RestoreResumes, RestoreCancelled, Requests
  <2>3. QED
    BY <2>1, <2>2 DEF NothingDue
<1>6. CASE BrokerAccepts \/ BrokerRefuses \/ TimesOut \/ Lose
  <2>1. UNCHANGED <<pc, due>> /\ (req.st = "ok" => req'.st = "ok")
    BY <1>0, <1>6 DEF BrokerAccepts, BrokerRefuses, TimesOut, Lose, SessionEnds, Requests, local
  <2>2. QED
    BY <2>1 DEF NothingDue
<1>7. CASE Publish
  <2>1. UNCHANGED <<pc, req>>
    BY <1>7 DEF Publish
  <2>2. PICK p \in live : PublishEarly(p[1]) \/ PublishTo(p[1])
    BY <1>7 DEF Publish
  <2>3. CASE PublishEarly(p[1])
    <3>1. ~(req.st = "ok") => due' = due
      BY <1>0, <2>3 DEF PublishEarly, Awaiting
    <3>2. QED
      BY <2>1, <3>1 DEF NothingDue
  <2>4. CASE PublishTo(p[1])
    <3>1. \A d \in Consumers : d \notin cons[byId[p[1]]] => due'[d] = due[d]
      BY <2>4 DEF PublishTo
    <3>2. byId[p[1]] \in Registrations
      BY <2>4 DEF PublishTo, TypeOK, RegistryTyped
    <3>3. \A d \in Consumers : pc[d] = "asking" => due'[d] = due[d]
      BY <3>1, <3>2 DEF Stages
    <3>4. QED
      BY <2>1, <3>3 DEF NothingDue
  <2>5. QED
    BY <2>2, <2>3, <2>4
<1>8. QED
  BY <1>1, <1>2, <1>3, <1>4, <1>5, <1>6, <1>7 DEF Next

(* Only the holder and its request matter to what restore() made. *)
LEMMA RestoredOnceStep ==
    ASSUME TypeOK, Locked, RestoredOnce, Locked', Next
    PROVE  RestoredOnce'
<1>0. req \in Requests /\ live \subseteq Ids \X Registrations
  BY DEF TypeOK, RegistryTyped
<1>1. ASSUME NEW c \in Consumers,
             \/ SubscribeCall(c) \/ SubscribeJoins(c) \/ CloseCall(c) \/ CleanupRuns(c)
             \/ CloseLocally(c) \/ Take(c)
      PROVE  RestoredOnce'
  BY <1>1 DEF SubscribeCall, SubscribeJoins, CloseCall, CleanupRuns, CloseLocally, Take,
     RestoredOnce, session, history
<1>2. ASSUME NEW c \in Consumers,
             \/ SubscribeAsks(c) \/ SubscribeResumes(c) \/ DrainResumes(c) \/ UndoResumes(c)
             \/ CloseLast(c) \/ CloseResumes(c)
      PROVE  RestoredOnce'
  <2>1. UNCHANGED rst /\ (Free \/ Asks(c) \/ Leaves(c))
    BY <1>2 DEF SubscribeAsks, SubscribeResumes, DrainResumes, UndoResumes, CloseLast,
       CloseResumes, Asks, Leaves
  <2>2. rst' # "asking"
    BY <2>1, SubscriberHolds, CloserHolds DEF Free
  <2>3. QED
    BY <2>2 DEF RestoredOnce
<1>3. ASSUME NEW c \in Consumers, CancelSubscribe(c) \/ CancelClose(c)
      PROVE  RestoredOnce'
  <2>1. UNCHANGED <<rst, twice>> /\ (UNCHANGED <<live, req>> \/ Asks(c) \/ Leaves(c))
    BY <1>3 DEF CancelSubscribe, CancelClose, Asks, Leaves
  <2>2. Asks(c) \/ Leaves(c) => rst' # "asking"
    BY <2>1, SubscriberHolds, CloserHolds
  <2>3. QED
    BY <2>1, <2>2 DEF RestoredOnce
<1>4. CASE AllCall \/ AllAsks \/ AllResumes \/ AllCancelled \/ RestoreCancelled \/ Reconnect
  <2>1. \/ UNCHANGED <<rst, twice, live, req>>
        \/ rst' # "asking"
        \/ rst' = rst /\ (Free \/ all = "asking")
    BY <1>4 DEF AllCall, AllAsks, AllResumes, AllCancelled, RestoreCancelled, Reconnect, session,
       history
  <2>2. Free \/ all = "asking" => rst # "asking"
    BY AllHolds DEF Free
  <2>3. QED
    BY <2>1, <2>2 DEF RestoredOnce
<1>5. CASE Publish \/ Terminate \/ Lose \/ BrokerRefuses
  <2>1. /\ UNCHANGED <<rst, twice>> /\ live' \subseteq live
        /\ req'.reg = req.reg /\ req'.id = req.id /\ req'.st \in {req.st, "error"}
    BY <1>0, <1>5 DEF Publish, Terminate, Lose, SessionEnds, BrokerRefuses, session, history,
       Requests
  <2>2. QED
    BY <2>1 DEF RestoredOnce
<1>6. CASE TimesOut
  BY <1>0, <1>6 DEF TimesOut, RestoredOnce, Requests
<1>7. CASE BrokerAccepts
  <2>1. CASE rst = "asking"
    <3>1. req.kind = "sub" /\ req.st = "sent" /\ UNCHANGED <<rst, twice>>
      BY <1>7, <2>1, RestoreHolds DEF BrokerAccepts, history
    <3>2. /\ live' = live \cup {<<nextId, req.reg>>}
          /\ req'.reg = req.reg /\ req'.id = nextId /\ req'.st = "ok"
      BY <1>0, <1>7, <3>1 DEF BrokerAccepts, Handled, Requests
    <3>3. QED
      BY <3>1, <3>2 DEF RestoredOnce
  <2>2. CASE rst # "asking"
    BY <1>7, <2>2 DEF BrokerAccepts, RestoredOnce
  <2>3. QED
    BY <2>1, <2>2
<1>8. CASE RestoreRuns \/ RestoreResumes
  <2>1. UNCHANGED live /\ \E s \in SUBSET Registrations : RestoreNext(s)
    BY <1>8 DEF RestoreRuns, RestoreResumes, TypeOK, TasksTyped
  <2>2. QED
    BY <2>1 DEF RestoreNext, Request, RestoredOnce
<1>9. QED
  BY <1>1, <1>2, <1>3, <1>4, <1>5, <1>6, <1>7, <1>8 DEF Next

LEMMA OwedStep ==
    ASSUME TypeOK, Locked, Stages, FreshIds, Indexes, Owed, Locked', Next
    PROVE  Owed'
  BY ClosedForGood, NothingKeptStep, NothingDueStep, RestoredOnceStep DEF Owed

------------------------------------------------------------------------------
(* What each consumer will be given. *)

(* Something may be kept for c until the holder is through. *)
Waits(c) ==
    /\ req.st = "ok" /\ req.kind = "sub"
    /\ pc[c] = "asking" \/ (rst = "asking" /\ c \in cons[req.reg] /\ fate[c] = "none")

Claims(c) == (IsOpen(c) \/ pc[c] = "asking") /\ c \notin gapped /\ reg[c] \notin twice

Served(c) == Claims(c) => queue[c] \o (IF Waits(c) THEN early[req.id] ELSE <<>>) = due[c]

LEMMA LostIsServed ==
    /\ NothingLost <=> (mode # "closed" => \A c \in Consumers : Served(c))
    /\ NothingLost' <=> (mode' # "closed" => \A c \in Consumers : Served(c)')
<1>1. /\ \A c \in Consumers : c \in Awaiting(req.id) <=> Waits(c)
      /\ \A c \in Consumers : (c \in Awaiting(req.id))' <=> Waits(c)'
  BY DEF Awaiting, Waits
<1>2. QED
  BY <1>1 DEF NothingLost, InStore, Served, Claims

LEMMA ServedStays ==
    ASSUME NEW c \in Consumers, Served(c), Claims(c)' => Claims(c),
           queue'[c] = queue[c], due'[c] = due[c], Waits(c)' <=> Waits(c),
           Waits(c) => early'[req'.id] = early[req.id]
    PROVE  Served(c)'
  BY DEF Served

(* Nothing is kept for c before or after: only its buffer counts. *)
LEMMA ServedFromBuffer ==
    ASSUME NEW c \in Consumers, BuffersTyped, Served(c), Claims(c)' => Claims(c),
           queue'[c] = queue[c], due'[c] = due[c],
           Waits(c) => early[req.id] = <<>>, Waits(c)' => early'[req'.id] = <<>>
    PROVE  Served(c)'
  BY DEF Served

LEMMA NobodyWaits ==
    ASSUME Locked, Free \/ all = "asking" \/ \E d \in Consumers : Leaves(d) \/ pc[d] = "undoing"
    PROVE  \A c \in Consumers : ~Waits(c)
<1>1. CASE Free \/ all = "asking" \/ \E d \in Consumers : Leaves(d)
  BY <1>1, AllHolds, CloserHolds DEF Waits, Free, Asks, Locked, HolderWaits, NoRequest
<1>2. CASE \E d \in Consumers : pc[d] = "undoing"
  BY <1>2, SubscriberHolds DEF Waits, Asks
<1>3. QED
  BY <1>1, <1>2

LEMMA StoreGrows ==
    ASSUME NEW S, NEW s \in Seq(S), NEW t \in Seq(S), NEW e \in S
    PROVE  s \o Append(t, e) = Append(s \o t, e)
<1>1. <<e>> \in Seq(S) /\ s \o t \in Seq(S)
  BY ConcatProperties
<1>2. \A u \in Seq(S) : s \o (t \o u) = (s \o t) \o u
  BY ConcatAssociative, SMTT(30)
<1>3. Append(t, e) = t \o <<e>> /\ Append(s \o t, e) = (s \o t) \o <<e>>
  BY <1>1, AppendIsConcat
<1>4. QED
  BY <1>1, <1>2, <1>3

LEMMA StoreShrinks ==
    ASSUME NEW S, NEW s \in Seq(S), NEW t \in Seq(S), s # <<>>
    PROVE  s \o t # <<>> /\ Tail(s \o t) = Tail(s) \o t
<1>1. PICK e \in S, r \in Seq(S) : s = <<e>> \o r /\ Tail(s) = r
  <2>1. Head(s) \in S /\ Tail(s) \in Seq(S) /\ s = <<Head(s)>> \o Tail(s)
    OBVIOUS
  <2>2. QED
    BY <2>1
<1> DEFINE u == r \o t
<1>2. s \o t = <<e>> \o u /\ u \in Seq(S)
  BY <1>1, ConcatAssociative, ConcatProperties
<1>3. u = Tail(s) \o t
  BY <1>1
<1> HIDE DEF u
<1>4. <<e>> \o u # <<>> /\ Tail(<<e>> \o u) = u
  BY <1>2
<1>5. \A x : x = <<e>> \o u => x # <<>> /\ Tail(x) = u
  BY <1>4, Zenon
<1>6. s \o t # <<>> /\ Tail(s \o t) = u
  BY <1>2, <1>5, Zenon
<1>7. QED
  BY <1>3, <1>6, Zenon

LEMMA SubscribeServed ==
    ASSUME TypeOK, Locked, Stages, FreshIds, Indexes, Owed, Locked', mode # "closed",
           NEW d \in Consumers, Served(d), NEW c \in Consumers,
           \/ SubscribeCall(c) \/ SubscribeJoins(c) \/ SubscribeAsks(c) \/ SubscribeResumes(c)
           \/ DrainResumes(c) \/ UndoResumes(c) \/ CancelSubscribe(c)
    PROVE  Served(d)'
<1>0. /\ BuffersTyped /\ RegistryTyped
      /\ early \in [Ids -> Seq(1..MaxItems)] /\ queue \in [Consumers -> Seq(1..MaxItems)]
      /\ due \in [Consumers -> Seq(1..MaxItems)]
      /\ reg \in [Consumers -> Registrations \cup {Nobody}]
      /\ wire \in [Registrations -> 0..MaxId] /\ cons \in [Registrations -> SUBSET Consumers]
      /\ pc \in [Consumers -> {"idle", "locking", "asking", "draining", "undoing", "open",
                               "failed"}]
  BY DEF TypeOK, TasksTyped, RegistryTyped, BuffersTyped
<1>1. CASE SubscribeCall(c)
  <2>1. /\ UNCHANGED <<req, rst, cons, fate, queue, due, early, gapped, twice>>
        /\ pc' = [pc EXCEPT ![c] = "locking"] /\ pc[c] = "idle"
        /\ \E r \in Registrations : reg' = [reg EXCEPT ![c] = r]
    BY <1>1 DEF SubscribeCall, local, registry, history
  <2>2. /\ pc'[d] \in {"open", "asking"} => pc[d] = pc'[d] /\ reg'[d] = reg[d]
        /\ pc'[d] = "asking" <=> pc[d] = "asking"
    BY <1>0, <2>1
  <2>3. QED
    BY <2>1, <2>2, ServedStays DEF Claims, IsOpen, Waits
<1>2. CASE SubscribeJoins(c)
  <2> DEFINE r == reg[c]
  <2>1. /\ Free /\ wire[r] # 0 /\ r \in Registrations /\ wire[r] \in Ids /\ pc[c] = "locking"
        /\ UNCHANGED <<req, reg, rst, all, gapped, twice>>
        /\ pc' = [pc EXCEPT ![c] = "open"]
        /\ due' = [due EXCEPT ![c] = early[wire[r]]]
        /\ Deliver(cons[r] \cup {c}, early[wire[r]])
    <3>1. /\ r \in Registrations /\ wire[r] # 0 /\ cons' = [cons EXCEPT ![r] = @ \cup {c}]
          /\ Flush(wire[r], cons'[r])
      BY <1>2 DEF SubscribeJoins, Stages
    <3>2. cons'[r] = cons[r] \cup {c} /\ wire[r] \in Ids
      BY <1>0, <3>1, Bounds DEF Ids
    <3>3. QED
      BY <1>2, <3>1, <3>2 DEF SubscribeJoins, history, Flush
  <2>2. ~Waits(d) /\ ~Waits(d)'
    BY <2>1, NobodyWaits DEF Waits, Free, Locked, HolderWaits, NoRequest
  <2>3. CASE d # c
    <3>1. queue'[d] = queue[d] /\ fate'[d] = fate[d]
      <4>1. d \in cons[r] => early[wire[r]] = <<>>
        BY <2>1 DEF Owed, NothingKept
      <4>2. QED
        BY <2>1, <2>3, <4>1 DEF Deliver, Pushed
    <3>2. due'[d] = due[d] /\ pc'[d] = pc[d]
      BY <1>0, <2>1, <2>3
    <3>3. QED
      BY <2>1, <2>2, <3>1, <3>2, ServedStays DEF Claims, IsOpen
  <2>4. CASE d = c
    <3>1. fate[c] = "none" /\ queue[c] = <<>> /\ due'[c] = early[wire[r]]
      BY <1>0, <2>1 DEF Stages
    <3>2. fate'[c] = "none" => queue'[c] = early[wire[r]]
      <4>1. queue[c] \o early[wire[r]] = early[wire[r]]
        BY <1>0, <2>1, <3>1
      <4>2. QED
        BY <2>1, <3>1, <4>1 DEF Deliver, Pushed
    <3>3. fate'[c] = "none" => queue'[c] \o <<>> = due'[c]
      BY <1>0, <2>1, <3>1, <3>2
    <3>4. pc'[c] = "open"
      BY <1>0, <2>1
    <3>5. QED
      BY <2>2, <2>4, <3>3, <3>4 DEF Served, Claims, IsOpen
  <2>5. QED
    BY <2>3, <2>4
<1>3. CASE SubscribeAsks(c)
  <2>1. /\ Free /\ pc[c] = "locking" /\ pc' = [pc EXCEPT ![c] = "asking"]
        /\ req'.st # "ok"
        /\ UNCHANGED <<queue, due, fate, gapped, twice, reg>>
    BY <1>3 DEF SubscribeAsks, Request, local, history
  <2>2. ~Waits(d) /\ ~Waits(d)'
    BY <2>1, NobodyWaits DEF Waits
  <2>3. CASE d # c
    BY <1>0, <2>1, <2>2, <2>3, ServedStays DEF Claims, IsOpen
  <2>4. CASE d = c
    BY <2>1, <2>2, <2>4 DEF Served, Stages
  <2>5. QED
    BY <2>3, <2>4
<1>4. CASE SubscribeResumes(c)
  <2> DEFINE r == reg[c]
  <2>1. /\ pc[c] = "asking" /\ r \in Registrations /\ cons[r] = {}
        /\ req.kind = "sub" /\ rst # "asking" /\ \A e \in Consumers : Asks(e) => e = c
        /\ \E v \in {"open", "failed"} : pc' = [pc EXCEPT ![c] = v]
        /\ UNCHANGED <<due, reg, gapped, twice>> /\ req' = NoRequest
    <3>1. pc[c] = "asking" /\ Asks(c)
      BY <1>4 DEF SubscribeResumes, Asks
    <3>2. r \in Registrations /\ wire[r] = 0
      BY <3>1 DEF Stages, Indexes
    <3>3. QED
      BY <1>4, <3>1, <3>2, SubscriberHolds DEF SubscribeResumes, history, Stages
  <2>2. ~Waits(d)'
    BY <2>1 DEF Waits, NoRequest
  <2>3. CASE d # c
    <3>1. queue'[d] = queue[d] /\ fate'[d] = fate[d] /\ pc'[d] = pc[d]
      <4>1. \/ UNCHANGED <<queue, fate>>
            \/ Deliver((cons[r] \cup {c}), early[req.id])
        BY <1>0, <1>4, <2>1 DEF SubscribeResumes, Flush
      <4>2. QED
        BY <1>0, <2>1, <2>3, <4>1 DEF Deliver
    <3>2. ~Waits(d)
      BY <2>1, <2>3 DEF Waits, Asks
    <3>3. QED
      BY <2>1, <2>2, <3>1, <3>2, ServedStays DEF Claims, IsOpen
  <2>4. CASE d = c
    <3>1. CASE pc'[c] # "open"
      BY <1>0, <2>1, <2>4, <3>1 DEF Served, Claims, IsOpen
    <3>2. CASE pc'[c] = "open"
      <4>1. req.st = "ok" /\ Deliver(cons[r] \cup {c}, early[req.id])
        BY <1>0, <1>4, <2>1, <3>2 DEF SubscribeResumes, Flush
      <4>2. Waits(c) /\ req.id \in Ids /\ queue[c] = <<>> /\ fate[c] = "none"
        BY <1>0, <2>1, <4>1, OkIsGiven DEF Waits, Stages
      <4>3. queue[c] \o early[req.id] = early[req.id] /\ early[req.id] \in Seq(1..MaxItems)
        BY <1>0, <4>2
      <4>4. fate'[c] = "none" => queue'[c] = early[req.id]
        BY <4>1, <4>2, <4>3 DEF Deliver, Pushed
      <4>5. Claims(c)' => Claims(c)
        BY <2>1 DEF Claims
      <4>6. Claims(c)' => early[req.id] = due'[c]
        BY <2>1, <2>4, <4>2, <4>3, <4>5 DEF Served
      <4>7. Claims(c)' => fate'[c] = "none"
        BY <3>2 DEF Claims, IsOpen
      <4>8. QED
        BY <2>2, <2>4, <4>3, <4>4, <4>6, <4>7 DEF Served
    <3>3. QED
      BY <3>1, <3>2
  <2>5. QED
    BY <2>3, <2>4
<1>5. CASE DrainResumes(c) \/ UndoResumes(c)
  <2>1. /\ \E v \in {"failed", "undoing"} : pc' = [pc EXCEPT ![c] = v]
        /\ pc[c] \in {"draining", "undoing"} /\ req'.kind # "sub"
        /\ UNCHANGED <<queue, due, fate, gapped, twice, reg>>
    BY <1>5 DEF DrainResumes, UndoResumes, Request, NoRequest, local, history
  <2>2. ~Waits(d) /\ ~Waits(d)'
    BY <2>1, SubscriberHolds DEF Waits, Asks
  <2>3. Claims(d)' => Claims(d)
    BY <1>0, <2>1 DEF Claims, IsOpen
  <2>4. QED
    BY <2>1, <2>2, <2>3, ServedStays
<1>6. CASE CancelSubscribe(c)
  <2>1. /\ \E v \in {"failed", "draining"} : pc' = [pc EXCEPT ![c] = v]
        /\ pc[c] \in {"locking", "asking", "draining", "undoing"}
        /\ UNCHANGED <<rst, cons, early, queue, fate, gapped, twice, reg>>
        /\ due' = [due EXCEPT ![c] = <<>>]
        /\ req' = req \/ (Asks(c) /\ req' = NoRequest)
    BY <1>6 DEF CancelSubscribe, AbandonRequest, Asks
  <2>2. CASE d = c
    BY <1>0, <2>1, <2>2 DEF Served, Claims, IsOpen
  <2>3. CASE d # c
    <3>1. pc'[d] = pc[d] /\ due'[d] = due[d]
      BY <1>0, <2>1, <2>3
    <3>2. Waits(d)' <=> Waits(d)
      <4>1. Asks(c) => ~Waits(d)
        BY <2>3, SubscriberHolds DEF Waits, Asks
      <4>2. QED
        BY <2>1, <3>1, <4>1 DEF Waits, NoRequest
    <3>3. Waits(d) => req' = req
      BY <2>1, <2>3, SubscriberHolds DEF Waits, Asks
    <3>4. QED
      BY <2>1, <3>1, <3>2, <3>3, ServedStays DEF Claims, IsOpen
  <2>4. QED
    BY <2>2, <2>3
<1>7. QED
  BY <1>1, <1>2, <1>3, <1>4, <1>5, <1>6

LEMMA CloseServed ==
    ASSUME TypeOK, Locked, Stages, FreshIds, Locked',
           NEW d \in Consumers, Served(d), NEW c \in Consumers,
           \/ CloseCall(c) \/ CleanupRuns(c) \/ CloseLocally(c) \/ CloseLast(c)
           \/ CloseResumes(c) \/ CancelClose(c) \/ Take(c)
    PROVE  Served(d)'
<1>0. /\ BuffersTyped /\ RegistryTyped /\ req \in Requests
      /\ early \in [Ids -> Seq(1..MaxItems)] /\ queue \in [Consumers -> Seq(1..MaxItems)]
      /\ due \in [Consumers -> Seq(1..MaxItems)]
      /\ cons \in [Registrations -> SUBSET Consumers]
  BY DEF TypeOK, TasksTyped, RegistryTyped, BuffersTyped
<1>1. CASE CloseCall(c) \/ CleanupRuns(c)
  BY <1>1, ServedStays DEF CloseCall, CleanupRuns, local, registry, history, Claims, IsOpen, Waits
<1>2. CASE CloseLast(c)
  <2>1. UNCHANGED <<pc, reg, fate, queue, due, gapped, twice>> /\ Free /\ req'.kind = "unsub"
    BY <1>2 DEF CloseLast, Request, local, history
  <2>2. ~Waits(d) /\ ~Waits(d)'
    BY <2>1, NobodyWaits DEF Waits
  <2>3. QED
    BY <2>1, <2>2, ServedStays DEF Claims, IsOpen
<1>3. CASE CloseLocally(c) \/ CloseResumes(c) \/ CancelClose(c)
  <2>1. /\ UNCHANGED <<pc, reg, rst, early, gapped, twice>> /\ pc[c] = "open"
        /\ End({c}, "ended") \/ UNCHANGED local
        /\ req' = req \/ (req' = NoRequest /\ Leaves(c))
        /\ cons' = cons \/ Free \/ Leaves(c)
    BY <1>3 DEF CloseLocally, CloseResumes, CancelClose, AbandonRequest, Stages, Leaves, history,
       registry
  <2>2. Free \/ Leaves(c) => ~Waits(d) /\ ~Waits(d)'
    <3>1. Free \/ Leaves(c) => ~Waits(d)
      BY NobodyWaits
    <3>2. Free => ~Waits(d)'
      BY <2>1 DEF Waits, Free, Locked, HolderWaits, NoRequest
    <3>3. Leaves(c) => ~Waits(d)'
      BY <2>1, CloserHolds DEF Waits, NoRequest
    <3>4. QED
      BY <3>1, <3>2, <3>3
  <2>3. /\ fate'[d] = "none" => fate[d] = "none" /\ queue'[d] = queue[d] /\ due'[d] = due[d]
        /\ fate[d] = "none" /\ d # c
              => fate'[d] = "none" /\ queue'[d] = queue[d] /\ due'[d] = due[d]
    BY <2>1 DEF End, local
  <2>4. CASE UNCHANGED local \/ d # c
    <3>1. /\ queue'[d] = queue[d] /\ due'[d] = due[d] /\ fate'[d] = fate[d]
      BY <2>1, <2>4, EndElsewhere, <1>0 DEF local, BuffersTyped
    <3>2. QED
      BY <2>1, <2>2, <3>1, ServedStays DEF Claims, IsOpen, Waits
  <2>5. CASE ~UNCHANGED local /\ d = c
    <3>1. fate'[d] # "none" /\ pc'[d] = "open"
      BY <1>0, <2>1, <2>5 DEF End, BuffersTyped
    <3>2. QED
      BY <3>1 DEF Served, Claims, IsOpen
  <2>6. QED
    BY <2>4, <2>5
<1>4. CASE Take(c)
  <2>1. /\ UNCHANGED <<pc, reg, rst, early, gapped, twice, req, fate, cons>>
        /\ queue[c] # <<>> /\ queue' = [queue EXCEPT ![c] = Tail(@)]
        /\ due' = [due EXCEPT ![c] = IF @ = <<>> THEN @ ELSE Tail(@)]
    BY <1>4 DEF Take, registry, history
  <2>2. (Claims(d)' <=> Claims(d)) /\ (Waits(d)' <=> Waits(d))
    BY <2>1 DEF Claims, IsOpen, Waits
  <2>3. CASE d # c
    BY <1>0, <2>1, <2>2, <2>3, ServedStays
  <2>4. CASE d = c
    <3> DEFINE t == IF Waits(d) THEN early[req.id] ELSE <<>>
    <3>1. t \in Seq(1..MaxItems)
      <4>1. Waits(d) => req.id \in Ids
        BY <1>0, OkIsGiven DEF Waits
      <4>2. <<>> \in Seq(1..MaxItems)
        OBVIOUS
      <4>3. QED
        BY <1>0, <4>1, <4>2
    <3> HIDE DEF t
    <3>2. queue[d] \o t # <<>> /\ Tail(queue[d] \o t) = Tail(queue[d]) \o t
      BY <1>0, <2>1, <2>4, <3>1, StoreShrinks
    <3>3. Claims(d) => queue[d] \o t = due[d]
      BY DEF Served, t
    <3>4. Claims(d) => queue'[d] \o t = due'[d]
      BY <1>0, <2>1, <2>4, <3>2, <3>3
    <3>5. t = IF Waits(d)' THEN early'[req'.id] ELSE <<>>
      BY <2>1, <2>2 DEF t
    <3>6. QED
      BY <2>2, <3>4, <3>5 DEF Served
  <2>5. QED
    BY <2>3, <2>4
<1>5. QED
  BY <1>1, <1>2, <1>3, <1>4

LEMMA PublishServed ==
    ASSUME TypeOK, Locked, Stages, FreshIds, Indexes, Owed, mode # "closed",
           NEW d \in Consumers, Served(d), Publish
    PROVE  Served(d)'
<1>0. /\ BuffersTyped /\ RegistryTyped
      /\ early \in [Ids -> Seq(1..MaxItems)] /\ queue \in [Consumers -> Seq(1..MaxItems)]
      /\ due \in [Consumers -> Seq(1..MaxItems)]
      /\ cons \in [Registrations -> SUBSET Consumers]
  BY DEF TypeOK, RegistryTyped, BuffersTyped
<1>1. UNCHANGED <<live, byId, req, pc, reg, rst, twice>> /\ items' \in 1..MaxItems
  <2>1. items \in 0..MaxItems /\ items < MaxItems /\ items' = items + 1
    BY DEF Publish, TypeOK, TasksTyped
  <2>2. QED
    BY <2>1, Bounds DEF Publish, session
<1>2. PICK p \in live : PublishEarly(p[1]) \/ PublishTo(p[1])
  BY DEF Publish
<1> DEFINE id == p[1]
<1>3. id \in Ids /\ p[2] \in Registrations
  BY <1>0 DEF RegistryTyped
<1>4. Waits(d) => /\ req.id \in Ids /\ byId[req.id] = Nobody /\ early[req.id] \in Seq(1..MaxItems)
                  /\ \A i \in Ids : d \in Awaiting(i) <=> i = req.id
  BY <1>0, OkIsGiven DEF Waits, Indexes, Awaiting
<1>5. ~Waits(d) => \A i \in Ids : d \notin Awaiting(i)
  BY DEF Waits, Awaiting
<1>6. CASE PublishEarly(id)
  <2>1. UNCHANGED <<cons, fate, queue>> /\ gapped \subseteq gapped'
        /\ due'[d] = IF d \in Awaiting(id) THEN Append(due[d], items') ELSE due[d]
    BY <1>6 DEF PublishEarly
  <2>2. (Waits(d)' <=> Waits(d)) /\ (Claims(d)' => Claims(d))
    BY <1>1, <2>1 DEF Waits, Claims, IsOpen
  <2>3. CASE ~Waits(d)
    BY <1>3, <1>5, <2>1, <2>2, <2>3, ServedStays
  <2>4. CASE Waits(d) /\ Claims(d)'
    <3>1. early'[req.id] = IF req.id = id THEN Append(early[id], items') ELSE early[req.id]
      <4>1. CASE early' = [early EXCEPT ![id] = Append(@, items')]
        BY <1>0, <1>1, <1>3, <1>4, <2>4, <4>1
      <4>2. CASE ~(early' = [early EXCEPT ![id] = Append(@, items')])
        <5>1. PICK old \in Ids :
                 /\ early' = [[early EXCEPT ![old] = Tail(@)] EXCEPT ![id] = Append(@, items')]
                 /\ gapped' = gapped \cup Awaiting(old)
          BY <1>6, <4>2 DEF PublishEarly
        <5>2. old # req.id
          BY <1>4, <2>4, <5>1 DEF Claims
        <5>3. QED
          BY <1>0, <1>1, <1>3, <1>4, <2>4, <5>1, <5>2
      <4>3. QED
        BY <4>1, <4>2
    <3>2. CASE req.id # id
      BY <1>1, <1>3, <1>4, <2>1, <2>2, <2>4, <3>1, <3>2, ServedStays
    <3>3. CASE req.id = id
      <4>1. /\ early'[req.id] = Append(early[req.id], items')
            /\ due'[d] = Append(due[d], items')
        BY <1>3, <1>4, <2>1, <2>4, <3>1, <3>3
      <4>2. queue[d] \o Append(early[req.id], items') = Append(queue[d] \o early[req.id], items')
        <5>1. /\ queue[d] \in Seq(1..MaxItems) /\ early[req.id] \in Seq(1..MaxItems)
              /\ items' \in 1..MaxItems
          BY <1>0, <1>1, <1>4, <2>4
        <5>2. \A s, t \in Seq(1..MaxItems), e \in 1..MaxItems :
                  s \o Append(t, e) = Append(s \o t, e)
          BY StoreGrows
        <5>3. QED
          BY <5>1, <5>2, Zenon
      <4>3. queue[d] \o early[req.id] = due[d]
        BY <2>2, <2>4 DEF Served
      <4>4. QED
        BY <1>1, <2>1, <2>2, <2>4, <4>1, <4>2, <4>3 DEF Served
    <3>4. QED
      BY <3>2, <3>3
  <2>5. QED
    BY <2>3, <2>4 DEF Served
<1>7. CASE PublishTo(id)
  <2> DEFINE r == byId[id]
  <2>1. /\ r \in Registrations /\ byId[id] # Nobody
        /\ UNCHANGED <<early, gapped>>
        /\ Deliver(cons[r], <<items'>>)
        /\ due'[d] = IF d \in cons[r] /\ fate'[d] # "none" THEN <<>>
                     ELSE IF d \in cons[r] THEN Append(due[d], items') ELSE due[d]
        /\ \A q \in Registrations : /\ cons'[q] \subseteq cons[q]
                                    /\ d \in cons[q] /\ fate'[d] = "none" => d \in cons'[q]
    BY <1>0, <1>3, <1>7 DEF PublishTo, RegistryTyped
  <2>2. CASE d \notin cons[r]
    <3>1. queue'[d] = queue[d] /\ fate'[d] = fate[d] /\ due'[d] = due[d]
      BY <2>1, <2>2 DEF Deliver
    <3>2. Waits(d)' <=> Waits(d)
      <4>1. rst = "asking" => req.reg \in Registrations
        BY RestoreHolds
      <4>2. QED
        BY <1>1, <2>1, <3>1, <4>1 DEF Waits
    <3>3. QED
      BY <1>1, <2>1, <3>1, <3>2, ServedStays DEF Claims, IsOpen
  <2>3. CASE d \in cons[r] /\ Claims(d)'
    <3>1. pc[d] = "open" /\ reg[d] = r
      BY <2>1, <2>3 DEF Stages
    <3>2. fate'[d] = "none" /\ r \notin twice
      BY <1>1, <2>3, <3>1 DEF Claims, IsOpen
    <3>3. fate[d] = "none"
      BY <2>1, <3>2 DEF Deliver
    <3>4. ~Waits(d)
      <4>1. SUFFICES ASSUME Waits(d)
                     PROVE  FALSE
        OBVIOUS
      <4>2. rst = "asking" /\ d \in cons[req.reg] /\ req.reg \in Registrations /\ req.st = "ok"
        BY <3>1, <4>1, RestoreHolds DEF Waits
      <4>3. req.reg = r
        BY <3>1, <4>2 DEF Stages
      <4>4. p[2] = r
        BY <2>1 DEF Indexes
      <4>5. p[1] = req.id
        BY <3>2, <4>2, <4>3, <4>4 DEF Owed, RestoredOnce
      <4>6. QED
        BY <1>4, <2>1, <4>1, <4>5
    <3>5. ~Waits(d)'
      BY <1>1, <2>1, <3>1, <3>3, <3>4, RestoreHolds DEF Waits
    <3>6. Claims(d)
      BY <1>1, <2>1, <2>3, <3>1, <3>3 DEF Claims, IsOpen
    <3>7. queue'[d] = queue[d] \o <<items'>> /\ due'[d] = Append(due[d], items')
      BY <2>1, <2>3, <3>2, <3>3 DEF Deliver, Pushed
    <3>8. queue[d] \o <<>> = due[d] /\ queue[d] \o <<>> = queue[d]
      BY <1>0, <3>4, <3>6 DEF Served
    <3>9. queue'[d] \o <<>> = due'[d]
      BY <1>0, <1>1, <3>7, <3>8
    <3>10. QED
      BY <3>5, <3>9 DEF Served
  <2>4. QED
    BY <2>2, <2>3 DEF Served
<1>8. QED
  BY <1>2, <1>6, <1>7

LEMMA RestoreServed ==
    ASSUME TypeOK, Locked, Stages, FreshIds,
           NEW d \in Consumers, Served(d), RestoreRuns \/ RestoreResumes
    PROVE  Served(d)'
<1>0. /\ BuffersTyped /\ RegistryTyped
      /\ early \in [Ids -> Seq(1..MaxItems)] /\ queue \in [Consumers -> Seq(1..MaxItems)]
  BY DEF TypeOK, RegistryTyped, BuffersTyped
<1>1. ~Waits(d)' /\ twice \subseteq twice' /\ UNCHANGED <<pc, reg, gapped>>
  <2>1. req'.st # "ok" /\ twice \subseteq twice'
    BY DEF RestoreRuns, RestoreResumes, RestoreNext, Request, NoRequest
  <2>2. QED
    BY <2>1 DEF Waits, RestoreRuns, RestoreResumes
<1>2. CASE RestoreRuns
  <2>1. UNCHANGED <<fate, queue, due>> /\ ~Waits(d)
    BY <1>2, NobodyWaits DEF RestoreRuns, local
  <2>2. QED
    BY <1>1, <2>1, ServedStays DEF Claims, IsOpen
<1>3. CASE RestoreResumes
  <2> DEFINE r == req.reg
  <2>1. /\ rst = "asking" /\ r \in Registrations /\ req.kind = "sub"
        /\ \A e \in Consumers : pc[e] # "asking"
    BY <1>3, RestoreHolds DEF RestoreResumes, Asks
  <2>2. CASE req.st = "ok"
    <3>1. Deliver(cons[r], early[req.id]) /\ due' = due
      BY <1>3, <2>2 DEF RestoreResumes, Flush
    <3>2. req.id \in Ids
      BY <1>0, <2>1, <2>2, OkIsGiven
    <3>3. CASE d \notin cons[r]
      <4>1. queue'[d] = queue[d] /\ fate'[d] = fate[d] /\ ~Waits(d)
        BY <2>1, <3>1, <3>3 DEF Deliver, Waits
      <4>2. QED
        BY <1>1, <3>1, <4>1, ServedStays DEF Claims, IsOpen
    <3>4. CASE d \in cons[r] /\ Claims(d)'
      <4>1. fate'[d] = "none" /\ fate[d] = "none"
        BY <1>1, <2>1, <3>1, <3>4 DEF Claims, IsOpen, Deliver
      <4>2. Waits(d) /\ Claims(d)
        BY <1>1, <2>1, <2>2, <3>4, <4>1 DEF Waits, Claims, IsOpen
      <4>3. queue'[d] = queue[d] \o early[req.id]
        <5>1. CASE early[req.id] = <<>>
          BY <1>0, <3>1, <3>4, <5>1 DEF Deliver, Pushed
        <5>2. CASE early[req.id] # <<>>
          BY <3>1, <3>4, <4>1, <5>2 DEF Deliver, Pushed
        <5>3. QED
          BY <5>1, <5>2
      <4>4. queue'[d] = due'[d] /\ queue'[d] \in Seq(1..MaxItems)
        BY <1>0, <3>1, <3>2, <4>2, <4>3 DEF Served
      <4>5. QED
        BY <1>1, <4>4 DEF Served
    <3>5. QED
      BY <3>3, <3>4 DEF Served
  <2>3. CASE req.st # "ok"
    <3>1. End(cons[r], "failed") /\ ~Waits(d)
      BY <1>3, <2>3 DEF RestoreResumes, FailRegistration, Waits
    <3>2. CASE d \in cons[r]
      <4>1. fate'[d] # "none" /\ pc'[d] # "asking"
        BY <1>0, <1>1, <2>1, <3>1, <3>2 DEF End, BuffersTyped
      <4>2. QED
        BY <4>1 DEF Served, Claims, IsOpen
    <3>3. CASE d \notin cons[r]
      <4>1. queue'[d] = queue[d] /\ fate'[d] = fate[d] /\ due'[d] = due[d]
        BY <3>1, <3>3 DEF End
      <4>2. QED
        BY <1>1, <3>1, <4>1, ServedStays DEF Claims, IsOpen
    <3>4. QED
      BY <3>2, <3>3
  <2>4. QED
    BY <2>2, <2>3
<1>4. QED
  BY <1>2, <1>3

LEMMA OtherServed ==
    ASSUME TypeOK, Locked, Stages, FreshIds, NEW d \in Consumers, Served(d),
           \/ AllCall \/ AllAsks \/ AllResumes \/ AllCancelled
           \/ BrokerAccepts \/ BrokerRefuses \/ TimesOut \/ Lose \/ Reconnect
    PROVE  Served(d)'
<1>0. /\ BuffersTyped /\ RegistryTyped /\ req \in Requests /\ nextId \in Nat
      /\ early \in [Ids -> Seq(1..MaxItems)]
  BY DEF TypeOK, RegistryTyped, BuffersTyped
<1>1. CASE AllCall \/ Reconnect
  BY <1>1, ServedStays DEF AllCall, Reconnect, registry, local, history, Claims, IsOpen, Waits
<1>2. CASE AllAsks
  <2>1. UNCHANGED <<pc, reg, fate, queue, due, gapped, twice>> /\ Free /\ req'.kind = "all"
    BY <1>2 DEF AllAsks, Request, local, history
  <2>2. ~Waits(d) /\ ~Waits(d)'
    BY <2>1, NobodyWaits DEF Waits
  <2>3. QED
    BY <2>1, <2>2, ServedStays DEF Claims, IsOpen
<1>3. CASE AllCancelled
  <2>1. UNCHANGED <<pc, reg, cons, early, rst, fate, queue, due, gapped, twice>>
    BY <1>3 DEF AllCancelled, registry, local
  <2>2. req' = req \/ (all = "asking" /\ req' = NoRequest)
    BY <1>3 DEF AllCancelled, AbandonRequest
  <2>3. all = "asking" => ~Waits(d)
    BY NobodyWaits
  <2>4. (Waits(d)' <=> Waits(d)) /\ (Waits(d) => req' = req)
    BY <2>1, <2>2, <2>3 DEF Waits, NoRequest
  <2>5. QED
    BY <2>1, <2>4, ServedStays DEF Claims, IsOpen
<1>4. CASE AllResumes
  <2>1. UNCHANGED <<pc, reg, gapped, twice>> /\ all = "asking" /\ req' = NoRequest
    BY <1>4 DEF AllResumes, history
  <2>2. ~Waits(d) /\ ~Waits(d)'
    BY <2>1, NobodyWaits DEF Waits, NoRequest
  <2>3. CASE UNCHANGED local \/ d \notin Members
    <3>1. queue'[d] = queue[d] /\ fate'[d] = fate[d] /\ due'[d] = due[d]
      BY <1>4, <2>3 DEF AllResumes, Clear, End, local
    <3>2. QED
      BY <2>1, <2>2, <3>1, ServedStays DEF Claims, IsOpen
  <2>4. CASE Clear /\ d \in Members
    <3>1. fate'[d] # "none" /\ pc'[d] = "open"
      BY <1>0, <2>1, <2>4 DEF Clear, End, Members, Stages, BuffersTyped
    <3>2. QED
      BY <3>1 DEF Served, Claims, IsOpen
  <2>5. QED
    BY <1>4, <2>3, <2>4 DEF AllResumes
<1>5. CASE BrokerAccepts
  <2>1. /\ UNCHANGED <<pc, reg, early, fate, queue, due, gapped, twice>> /\ req.st = "sent"
        /\ Handled /\ req' = [req EXCEPT !.st = "ok", !.id = IF req.kind = "sub" THEN nextId ELSE @]
    BY <1>5 DEF BrokerAccepts, registry, local, history
  <2>2. ~Waits(d)
    BY <2>1 DEF Waits
  <2>3. Waits(d)' => early'[req'.id] = <<>>
    <3>1. req.kind = "sub" => nextId \in Ids /\ early[nextId] = <<>>
      BY <1>0, <2>1 DEF Handled, FreshIds
    <3>2. QED
      BY <1>0, <2>1, <3>1 DEF Waits, Requests
  <2>4. QED
    BY <1>0, <2>1, <2>2, <2>3, ServedFromBuffer DEF Claims, IsOpen
<1>6. CASE BrokerRefuses \/ TimesOut \/ Lose
  <2>1. /\ UNCHANGED <<pc, reg, cons, early, rst, fate, queue, due, gapped, twice>>
        /\ req' = req \/ (req.st # "ok" /\ req' = [req EXCEPT !.st = "error"])
    BY <1>0, <1>6 DEF BrokerRefuses, TimesOut, Lose, SessionEnds, registry, local, history, Requests
  <2>2. (Waits(d)' <=> Waits(d)) /\ (Waits(d) => req' = req)
    BY <1>0, <2>1 DEF Waits, Requests
  <2>3. QED
    BY <2>1, <2>2, ServedStays DEF Claims, IsOpen
<1>7. QED
  BY <1>1, <1>2, <1>3, <1>4, <1>5, <1>6

LEMMA NothingLostStep ==
    ASSUME TypeOK, Locked, Stages, FreshIds, Indexes, Owed, NothingLost, Locked', Next
    PROVE  NothingLost'
<1>1. SUFFICES ASSUME mode' # "closed", NEW d \in Consumers
               PROVE  Served(d)'
  BY LostIsServed
<1>2. mode # "closed" /\ Served(d)
  BY <1>1, ClosedForGood, LostIsServed
<1>3. ~Terminate /\ ~RestoreCancelled
  BY <1>1, <1>2 DEF Terminate, RestoreCancelled
<1>4. QED
  BY <1>2, <1>3, SubscribeServed, CloseServed, PublishServed, RestoreServed, OtherServed DEF Next

------------------------------------------------------------------------------
(* What the broker knows. *)

LEMMA SessionsStep ==
    ASSUME TypeOK, Locked, Sessions, Next
    PROVE  Sessions'
<1>0. req \in Requests
  BY DEF TypeOK, RegistryTyped
<1>1. ASSUME NEW c \in Consumers,
             \/ SubscribeCall(c) \/ SubscribeJoins(c) \/ SubscribeAsks(c) \/ SubscribeResumes(c)
             \/ DrainResumes(c) \/ UndoResumes(c) \/ CancelSubscribe(c)
      PROVE  Sessions'
  <2>1. UNCHANGED <<mode, rst>>
    BY <1>1 DEF SubscribeCall, SubscribeJoins, SubscribeAsks, SubscribeResumes, DrainResumes,
       UndoResumes, CancelSubscribe, session
  <2>2. live' = live \/ req.st = "sent"
    BY <1>1 DEF SubscribeCall, SubscribeJoins, SubscribeAsks, SubscribeResumes, DrainResumes,
       UndoResumes, CancelSubscribe, AbandonRequest, session
  <2>3. req' \in {req, NoRequest} \/ (~Online => req'.st = "error")
    BY <1>1 DEF SubscribeCall, SubscribeJoins, SubscribeAsks, SubscribeResumes, DrainResumes,
       UndoResumes, CancelSubscribe, AbandonRequest, Request
  <2>4. QED
    BY <2>1, <2>2, <2>3 DEF Sessions, Online, NoRequest
<1>2. ASSUME NEW c \in Consumers,
             \/ CloseCall(c) \/ CleanupRuns(c) \/ CloseLocally(c) \/ CloseLast(c)
             \/ CloseResumes(c) \/ CancelClose(c) \/ Take(c)
      PROVE  Sessions'
  <2>1. UNCHANGED <<mode, rst>>
    BY <1>2 DEF CloseCall, CleanupRuns, CloseLocally, CloseLast, CloseResumes, CancelClose, Take,
       session
  <2>2. live' = live \/ req.st = "sent"
    BY <1>2 DEF CloseCall, CleanupRuns, CloseLocally, CloseLast, CloseResumes, CancelClose, Take,
       AbandonRequest, session
  <2>3. req' \in {req, NoRequest} \/ (~Online => req'.st = "error")
    BY <1>2 DEF CloseCall, CleanupRuns, CloseLocally, CloseLast, CloseResumes, CancelClose, Take,
       AbandonRequest, Request
  <2>4. QED
    BY <2>1, <2>2, <2>3 DEF Sessions, Online, NoRequest
<1>3. CASE \/ AllCall \/ AllAsks \/ AllResumes \/ AllCancelled \/ Publish
           \/ BrokerAccepts \/ BrokerRefuses \/ TimesOut
  <2>1. UNCHANGED <<mode, rst>>
    BY <1>3 DEF AllCall, AllAsks, AllResumes, AllCancelled, Publish, BrokerAccepts, BrokerRefuses,
       TimesOut, session
  <2>2. live' = live \/ req.st = "sent"
    BY <1>3 DEF AllCall, AllAsks, AllResumes, AllCancelled, AbandonRequest, Publish, BrokerAccepts,
       BrokerRefuses, TimesOut, session
  <2>3. req' \in {req, NoRequest} \/ (~Online => req'.st = "error") \/ req.st = "sent"
    BY <1>3 DEF AllCall, AllAsks, AllResumes, AllCancelled, AbandonRequest, Request, Publish,
       BrokerAccepts, BrokerRefuses, TimesOut
  <2>4. QED
    BY <2>1, <2>2, <2>3 DEF Sessions, Online, NoRequest
<1>4. CASE Lose \/ Terminate \/ Reconnect \/ RestoreCancelled
  BY <1>0, <1>4 DEF Lose, Terminate, Reconnect, RestoreCancelled, SessionEnds, session, Online,
     NoRequest, Sessions, Requests
<1>5. CASE RestoreRuns \/ RestoreResumes
  <2>1. UNCHANGED live /\ rst # "none" /\ \E s \in SUBSET Registrations : RestoreNext(s)
    BY <1>5 DEF RestoreRuns, RestoreResumes, TypeOK, TasksTyped
  <2>2. QED
    BY <2>1 DEF RestoreNext, Request, NoRequest, Online, Sessions, TypeOK, TasksTyped
<1>6. QED
  BY <1>1, <1>2, <1>3, <1>4, <1>5 DEF Next

LEMMA AgreesStays ==
    ASSUME NEW r \in Registrations, Agrees(r), Current(r)' => Current(r),
           \A i \in Ids : <<i, r>> \in live' <=> <<i, r>> \in live, Wanted(r)' = Wanted(r)
    PROVE  Agrees(r)'
  BY DEF Agrees, Has, HasAtMost

(* The request that the broker handles is about one registration. *)
LEMMA HandledElsewhere ==
    ASSUME RegistryTyped, Locked, Stages, FreshIds, Indexes, mode # "closed", Handled,
           req.kind # "all", NEW r \in Registrations, req.reg # r, Agrees(r)
    PROVE  \A i \in Ids : <<i, r>> \in live' <=> <<i, r>> \in live
<1>1. CASE req.kind = "sub"
  BY <1>1 DEF Handled
<1>2. CASE req.kind = "unsub"
  <2>1. live' = {p \in live : IF flavour = "notice" THEN p[1] # req.id ELSE p[2] # req.reg}
    BY <1>2 DEF Handled
  <2>2. \A i \in Ids : <<i, r>> \in live => i = wire[r]
    BY <1>2 DEF Agrees, Has, HasAtMost, Wanted
  <2>3. req.id \in Ids => wire[r] # req.id
    <3>1. PICK c \in Consumers : Leaves(c) \/ pc[c] = "undoing"
      BY <1>2 DEF Locked, HolderWaits, NoRequest, Free, Leaves
    <3>2. CASE Leaves(c)
      BY <3>2, RegTyped, CloserHolds DEF Indexes, Leaves, Ids
    <3>3. CASE pc[c] = "undoing"
      <4>1. Given(req.id)
        BY <3>3 DEF Given
      <4>2. req.id \in Ids => byId[req.id] = Nobody
        BY <4>1 DEF Indexes
      <4>3. QED
        BY <4>2, SubscriptionsAssumption DEF Indexes, Ids
    <3>4. QED
      BY <3>1, <3>2, <3>3
  <2>4. QED
    BY <2>1, <2>2, <2>3
<1>3. QED
  BY <1>1, <1>2 DEF Handled

(* A request that nobody waits for any more changes nothing for the others. *)
LEMMA AbandonElsewhere ==
    ASSUME RegistryTyped, Locked, Stages, FreshIds, Indexes, mode # "closed", AbandonRequest,
           NEW r \in Registrations, r \notin doubtful', Agrees(r)
    PROVE  /\ \A i \in Ids : <<i, r>> \in live' <=> <<i, r>> \in live
           /\ req.st = "error" \/ (req.kind # "all" /\ req.reg # r)
           /\ req' = NoRequest
<1>1. req.st = "error" \/ (req.kind # "all" /\ req.reg # r)
  BY DEF AbandonRequest, Unsure
<1>2. live' = live \/ (req.st = "sent" /\ Handled)
  BY DEF AbandonRequest
<1>3. QED
  BY <1>1, <1>2, HandledElsewhere DEF AbandonRequest

LEMMA SubscribeAgrees ==
    ASSUME TypeOK, Locked, Stages, FreshIds, Indexes, mode # "closed",
           NEW r \in Registrations, r \notin doubtful', Agrees(r), NEW c \in Consumers,
           \/ SubscribeCall(c) \/ SubscribeJoins(c) \/ SubscribeAsks(c) \/ SubscribeResumes(c)
           \/ DrainResumes(c) \/ UndoResumes(c) \/ CancelSubscribe(c)
    PROVE  Agrees(r)'
<1>0. /\ RegistryTyped /\ wire \in [Registrations -> 0..MaxId] /\ req \in Requests
      /\ Nobody \notin Registrations
  BY SubscriptionsAssumption DEF TypeOK, RegistryTyped
<1>1. Current(r)' <=> Current(r)
  BY DEF SubscribeCall, SubscribeJoins, SubscribeAsks, SubscribeResumes, DrainResumes,
     UndoResumes, CancelSubscribe, session, Current
<1>2. CASE SubscribeCall(c) \/ SubscribeJoins(c)
  <2>1. UNCHANGED <<live, wire, req>>
    BY <1>2 DEF SubscribeCall, SubscribeJoins, session, registry
  <2>2. QED
    BY <1>1, <2>1, AgreesStays DEF Wanted
<1>3. CASE SubscribeAsks(c)
  <2>1. /\ UNCHANGED <<live, wire>> /\ wire[reg[c]] = 0 /\ req = NoRequest
        /\ req'.kind = "sub" /\ req'.reg = reg[c] /\ req'.st # "ok"
    BY <1>3 DEF SubscribeAsks, Request, session, registry, Locked, HolderWaits
  <2>2. QED
    BY <1>1, <2>1, AgreesStays DEF Wanted, NoRequest
<1>4. CASE SubscribeResumes(c)
  <2>1. /\ Asks(c) /\ pc[c] = "asking" /\ req' = NoRequest /\ live' = live
        /\ IF req.st = "ok" THEN wire' = [wire EXCEPT ![reg[c]] = req.id] ELSE wire' = wire
    BY <1>4 DEF SubscribeResumes, Asks, Register, session, registry
  <2>2. req.kind = "sub" /\ req.reg = reg[c] /\ wire[reg[c]] = 0
    BY <2>1, SubscriberHolds DEF Indexes
  <2>3. Wanted(r)' = Wanted(r)
    BY <1>0, <2>1, <2>2 DEF Wanted, NoRequest
  <2>4. QED
    BY <1>1, <2>1, <2>3, AgreesStays
<1>5. CASE DrainResumes(c)
  <2>1. /\ Asks(c) /\ pc[c] = "draining" /\ live' = live /\ wire' = wire
        /\ IF req.st = "ok" THEN Request("unsub", reg[c], req.id) ELSE req' = NoRequest
    BY <1>5 DEF DrainResumes, Asks, session, registry
  <2>2. req.kind = "sub" /\ req.reg = reg[c] /\ wire[reg[c]] = 0
    BY <2>1, SubscriberHolds DEF Indexes
  <2>3. Wanted(r)' = Wanted(r)
    BY <2>1, <2>2 DEF Wanted, NoRequest, Request
  <2>4. QED
    BY <1>1, <2>1, <2>3, AgreesStays
<1>6. CASE UndoResumes(c)
  <2>1. /\ Asks(c) /\ pc[c] = "undoing" /\ req' = NoRequest /\ live' = live
        /\ IF req.st = "ok" THEN wire' = wire ELSE wire' = [wire EXCEPT ![reg[c]] = req.id]
    BY <1>6 DEF UndoResumes, Asks, Register, session
  <2>2. req.kind = "unsub" /\ req.reg = reg[c] /\ wire[reg[c]] = 0
    BY <2>1, SubscriberHolds DEF Indexes
  <2>3. Wanted(r)' = Wanted(r)
    BY <1>0, <2>1, <2>2 DEF Wanted, NoRequest
  <2>4. QED
    BY <1>1, <2>1, <2>3, AgreesStays
<1>7. CASE CancelSubscribe(c)
  <2>1. CASE UNCHANGED <<live, wire, req>>
    BY <1>1, <2>1, AgreesStays DEF Wanted
  <2>2. CASE AbandonRequest /\ Asks(c)
    <3>1. /\ \A i \in Ids : <<i, r>> \in live' <=> <<i, r>> \in live
          /\ req.st = "error" \/ (req.kind # "all" /\ req.reg # r)
          /\ req' = NoRequest
      BY <1>0, <2>2, AbandonElsewhere
    <3>2. /\ req.kind = IF pc[c] = "undoing" THEN "unsub" ELSE "sub"
          /\ req.reg = reg[c] /\ wire[reg[c]] = 0
      BY <2>2, SubscriberHolds DEF Indexes
    <3>3. IF pc[c] = "undoing" THEN wire' = [wire EXCEPT ![reg[c]] = req.id] ELSE wire' = wire
      BY <1>7, <2>2 DEF CancelSubscribe, Register, Asks
    <3>4. Wanted(r)' = Wanted(r)
      BY <1>0, <3>1, <3>2, <3>3 DEF Wanted, NoRequest
    <3>5. QED
      BY <1>1, <3>1, <3>4, AgreesStays
  <2>3. QED
    BY <1>7, <2>1, <2>2 DEF CancelSubscribe, Asks
<1>8. QED
  BY <1>2, <1>3, <1>4, <1>5, <1>6, <1>7

LEMMA CloseAgrees ==
    ASSUME TypeOK, Locked, Stages, FreshIds, Indexes, mode # "closed",
           NEW r \in Registrations, r \notin doubtful', Agrees(r), NEW c \in Consumers,
           \/ CloseCall(c) \/ CleanupRuns(c) \/ CloseLocally(c) \/ CloseLast(c)
           \/ CloseResumes(c) \/ CancelClose(c) \/ Take(c)
    PROVE  Agrees(r)'
<1>0. /\ RegistryTyped /\ wire \in [Registrations -> 0..MaxId] /\ req \in Requests
      /\ Nobody \notin Registrations
  BY SubscriptionsAssumption DEF TypeOK, RegistryTyped
<1>1. Current(r)' <=> Current(r)
  BY DEF CloseCall, CleanupRuns, CloseLocally, CloseLast, CloseResumes, CancelClose, Take,
     session, Current
<1>2. CASE CloseCall(c) \/ CleanupRuns(c) \/ CloseLocally(c) \/ Take(c)
  <2>1. UNCHANGED <<live, wire, req>>
    BY <1>2 DEF CloseCall, CleanupRuns, CloseLocally, Take, session, registry
  <2>2. QED
    BY <1>1, <2>1, AgreesStays DEF Wanted
<1>3. CASE CloseLast(c)
  <2>1. /\ UNCHANGED <<live, wire>> /\ req = NoRequest
        /\ req'.kind = "unsub" /\ req'.reg = reg[c] /\ req'.st # "ok" /\ req'.id = wire[reg[c]]
    BY <1>3 DEF CloseLast, Request, session, Locked, HolderWaits
  <2>2. QED
    BY <1>1, <2>1, AgreesStays DEF Wanted, NoRequest
<1>4. CASE CloseResumes(c) \/ CancelClose(c)
  <2>1. Leaves(c) => req.kind = "unsub" /\ req.reg = reg[c] /\ wire[reg[c]] = req.id
    BY CloserHolds DEF Indexes
  <2>2. CASE UNCHANGED <<live, wire, req>>
    BY <1>1, <2>2, AgreesStays DEF Wanted
  <2>3. CASE AbandonRequest /\ Leaves(c) /\ wire' = wire
    <3>1. /\ \A i \in Ids : <<i, r>> \in live' <=> <<i, r>> \in live
          /\ req.st = "error" \/ (req.kind # "all" /\ req.reg # r)
          /\ req' = NoRequest
      BY <1>0, <2>3, AbandonElsewhere
    <3>2. Wanted(r)' = Wanted(r)
      BY <2>1, <2>3, <3>1 DEF Wanted, NoRequest
    <3>3. QED
      BY <1>1, <3>1, <3>2, AgreesStays
  <2>4. CASE CloseResumes(c)
    <3>1. /\ live' = live /\ req' = NoRequest /\ Leaves(c)
          /\ IF req.st = "ok" THEN wire' = [wire EXCEPT ![reg[c]] = 0] ELSE wire' = wire
      BY <2>4 DEF CloseResumes, Unregister, session, Leaves
    <3>2. Wanted(r)' = Wanted(r)
      BY <1>0, <2>1, <3>1 DEF Wanted, NoRequest
    <3>3. QED
      BY <1>1, <3>1, <3>2, AgreesStays
  <2>5. QED
    BY <1>4, <2>2, <2>3, <2>4 DEF CancelClose, Leaves, registry
<1>5. QED
  BY <1>2, <1>3, <1>4

LEMMA AllAgrees ==
    ASSUME TypeOK, Locked, Stages, FreshIds, Indexes, mode # "closed",
           NEW r \in Registrations, r \notin doubtful', Agrees(r),
           AllCall \/ AllAsks \/ AllResumes \/ AllCancelled
    PROVE  Agrees(r)'
<1>0. RegistryTyped /\ wire \in [Registrations -> 0..MaxId]
  BY DEF TypeOK, RegistryTyped
<1>1. Current(r)' <=> Current(r)
  BY DEF AllCall, AllAsks, AllResumes, AllCancelled, session, Current
<1>2. CASE AllCall
  BY <1>1, <1>2, AgreesStays DEF AllCall, session, registry, Wanted
<1>3. CASE AllAsks
  <2>1. /\ UNCHANGED <<live, wire>> /\ req = NoRequest
        /\ req'.kind = "all" /\ req'.st # "ok"
    BY <1>3 DEF AllAsks, Request, session, registry, Locked, HolderWaits
  <2>2. QED
    BY <1>1, <2>1, AgreesStays DEF Wanted, NoRequest
<1>4. CASE AllResumes
  <2>1. req.kind = "all" /\ req' = NoRequest /\ live' = live
    BY <1>4, AllHolds DEF AllResumes, session
  <2>2. IF req.st = "ok" THEN wire'[r] = 0 ELSE wire' = wire
    BY <1>4 DEF AllResumes, Clear
  <2>3. Wanted(r)' = Wanted(r)
    BY <2>1, <2>2 DEF Wanted, NoRequest
  <2>4. QED
    BY <1>1, <2>1, <2>3, AgreesStays
<1>5. CASE AllCancelled
  <2>1. CASE UNCHANGED <<live, wire, req>>
    BY <1>1, <2>1, AgreesStays DEF Wanted
  <2>2. CASE AbandonRequest /\ all = "asking"
    <3>1. /\ \A i \in Ids : <<i, r>> \in live' <=> <<i, r>> \in live
          /\ req.st = "error" \/ (req.kind # "all" /\ req.reg # r)
          /\ req' = NoRequest
      BY <1>0, <2>2, AbandonElsewhere
    <3>2. req.kind = "all" /\ wire' = wire
      BY <1>5, <2>2, AllHolds DEF AllCancelled, registry
    <3>3. Wanted(r)' = Wanted(r)
      BY <3>1, <3>2 DEF Wanted, NoRequest
    <3>4. QED
      BY <1>1, <3>1, <3>3, AgreesStays
  <2>3. QED
    BY <1>5, <2>1, <2>2 DEF AllCancelled, registry
<1>6. QED
  BY <1>2, <1>3, <1>4, <1>5

LEMMA BrokerAgreesToo ==
    ASSUME TypeOK, Locked, Stages, FreshIds, Indexes, mode # "closed",
           NEW r \in Registrations, r \notin doubtful', Agrees(r),
           BrokerAccepts \/ BrokerRefuses \/ TimesOut
    PROVE  Agrees(r)'
<1>0. /\ RegistryTyped /\ wire \in [Registrations -> 0..MaxId] /\ req \in Requests
      /\ live \subseteq Ids \X Registrations
      /\ Nobody \notin Registrations
  BY SubscriptionsAssumption DEF TypeOK, RegistryTyped
<1>1. /\ Current(r)' <=> Current(r)
      /\ wire' = wire /\ req.st = "sent" /\ req'.reg = req.reg /\ req'.kind = req.kind
  BY <1>0 DEF BrokerAccepts, BrokerRefuses, TimesOut, session, registry, Requests, Current
<1>2. CASE BrokerRefuses \/ TimesOut
  <2>1. req'.st = "error" /\ req'.id = req.id
    BY <1>0, <1>2 DEF BrokerRefuses, TimesOut, Requests
  <2>2. \A i \in Ids : <<i, r>> \in live' <=> <<i, r>> \in live
    <3>1. CASE live' = live
      BY <3>1
    <3>2. CASE TimesOut /\ Handled
      <4>1. req.kind # "all" /\ req.reg # r
        BY <3>2 DEF TimesOut, Unsure
      <4>2. QED
        BY <1>0, <3>2, <4>1, HandledElsewhere
    <3>3. QED
      BY <1>2, <3>1, <3>2 DEF BrokerRefuses, TimesOut, session
  <2>3. Wanted(r)' = Wanted(r)
    BY <1>1, <2>1 DEF Wanted
  <2>4. QED
    BY <1>1, <2>2, <2>3, AgreesStays
<1>3. CASE BrokerAccepts
  <2>1. /\ Handled /\ req'.st = "ok" /\ req'.id = IF req.kind = "sub" THEN nextId ELSE req.id
    BY <1>0, <1>3 DEF BrokerAccepts, Requests
  <2>2. CASE req.kind # "all" /\ req.reg # r
    <3>1. Wanted(r)' = Wanted(r)
      BY <1>1, <2>2 DEF Wanted
    <3>2. QED
      BY <1>0, <1>1, <2>1, <2>2, <3>1, HandledElsewhere, AgreesStays
  <2>3. CASE req.kind = "all"
    <3>1. live' = {} /\ Wanted(r)' = 0
      BY <1>1, <2>1, <2>3 DEF Handled, Wanted
    <3>2. QED
      BY <3>1, IdsAreNumbers DEF Agrees, Has, HasAtMost
  <2>4. CASE req.kind = "sub" /\ req.reg = r
    <3>1. Wanted(r) = 0 /\ Wanted(r)' = nextId
      BY <1>1, <2>1, <2>4 DEF Wanted
    <3>2. live' = live \cup {<<nextId, r>>} /\ nextId \in Ids
      BY <2>1, <2>4 DEF Handled
    <3>3. \A i \in Ids : <<i, r>> \notin live
      BY <3>1, IdsAreNumbers DEF Agrees, Has, HasAtMost
    <3>4. QED
      BY <3>1, <3>2, <3>3 DEF Agrees, Has, HasAtMost
  <2>5. CASE req.kind = "unsub" /\ req.reg = r
    <3>1. Wanted(r) = req.id /\ Wanted(r)' = 0
      BY <1>1, <2>1, <2>5 DEF Wanted
    <3>2. live' = {p \in live : IF flavour = "notice" THEN p[1] # req.id ELSE p[2] # req.reg}
      BY <2>1, <2>5 DEF Handled
    <3>3. \A i \in Ids : <<i, r>> \in live => i = req.id
      BY <3>1 DEF Agrees, Has, HasAtMost
    <3>4. \A i \in Ids : <<i, r>> \notin live'
      BY <2>5, <3>2, <3>3
    <3>5. QED
      BY <3>1, <3>4, IdsAreNumbers DEF Agrees, Has, HasAtMost
  <2>6. QED
    BY <2>1, <2>2, <2>3, <2>4, <2>5 DEF Handled
<1>4. QED
  BY <1>2, <1>3

(* The loop of restore() asks for the next registration, or it is done. *)
LEMMA NextAgrees ==
    ASSUME NEW s \in SUBSET Registrations, RestoreNext(s), mode = "restoring", Sessions,
           NEW r \in Registrations, r \notin twice', live' = live,
           live \subseteq Ids \X Registrations,
           r \in s => HasAtMost(r, wire'[r]) /\ wire'[r] # 0,
           r \notin s => Has(r, wire'[r])
    PROVE  Agrees(r)'
<1>1. CASE rst' = "none"
  <2>1. s = {} /\ mode' = "up" /\ req' = NoRequest
    BY <1>1 DEF RestoreNext
  <2>2. Wanted(r)' = wire'[r] /\ Current(r)'
    BY <2>1 DEF Wanted, NoRequest, Current
  <2>3. QED
    BY <2>1, <2>2 DEF Agrees, Has
<1>2. CASE rst' # "none"
  <2>1. PICK q \in s : /\ rst' = "asking" /\ todo' = s \ {q} /\ Request("sub", q, 0)
                       /\ twice' = IF \E p \in live : p[2] = q THEN twice \cup {q} ELSE twice
                       /\ mode' = mode
    BY <1>2 DEF RestoreNext
  <2>2. req'.kind = "sub" /\ req'.reg = q /\ req'.st # "ok"
    BY <2>1 DEF Request
  <2>3. CASE r = q
    <3>1. Wanted(r)' = 0 /\ Current(r)'
      BY <2>1, <2>2, <2>3 DEF Wanted, Current
    <3>2. \A i \in Ids : <<i, r>> \notin live
      BY <2>1, <2>3
    <3>3. QED
      BY <3>1, <3>2, IdsAreNumbers DEF Agrees, Has
  <2>4. CASE r # q
    <3>1. Wanted(r)' = wire'[r]
      BY <2>2, <2>4 DEF Wanted
    <3>2. Current(r)' <=> r \notin s
      BY <2>1, <2>4 DEF Current
    <3>3. QED
      BY <3>1, <3>2 DEF Agrees, Has, HasAtMost
  <2>5. QED
    BY <2>3, <2>4
<1>3. QED
  BY <1>1, <1>2

LEMMA RestoreAgrees ==
    ASSUME TypeOK, Locked, Stages, FreshIds, Indexes, Sessions, mode = "restoring",
           NEW r \in Registrations, r \notin twice', Agrees(r), RestoreRuns \/ RestoreResumes
    PROVE  Agrees(r)'
<1>0. /\ RegistryTyped /\ wire \in [Registrations -> 0..MaxId] /\ req \in Requests
      /\ live \subseteq Ids \X Registrations /\ todo \in SUBSET Registrations
  BY DEF TypeOK, TasksTyped, RegistryTyped
<1>1. CASE RestoreRuns
  <2>1. /\ req = NoRequest /\ rst = "locking" /\ UNCHANGED <<live, wire>>
        /\ RestoreNext({q \in Registrations : wire[q] # 0})
    BY <1>1 DEF RestoreRuns, Locked, HolderWaits, registry
  <2>2. Wanted(r) = wire[r] /\ ~Current(r)
    BY <2>1 DEF Wanted, NoRequest, Current
  <2>3. HasAtMost(r, wire'[r])
    BY <2>1, <2>2 DEF Agrees
  <2>4. wire'[r] = 0 => Has(r, wire'[r])
    BY <2>3, IdsAreNumbers DEF Has, HasAtMost
  <2>5. QED
    BY <1>0, <2>1, <2>3, <2>4, NextAgrees
<1>2. CASE RestoreResumes
  <2> DEFINE q == req.reg
  <2>1. /\ rst = "asking" /\ req.kind = "sub" /\ q \in Registrations \ todo
        /\ RestoreNext(todo) /\ live' = live /\ wire[q] # 0
    BY <1>2, RestoreHolds DEF RestoreResumes, Indexes
  <2>2. IF req.st = "ok"
        THEN wire' = [wire EXCEPT ![q] = req.id]
        ELSE wire' = [wire EXCEPT ![q] = 0]
    BY <1>0, <1>2, <2>1 DEF RestoreResumes, Rekey, FailRegistration, Unregister
  <2>3. Current(r) <=> r \notin todo
    BY <2>1 DEF Current
  <2>4. wire'[r] = Wanted(r)
    BY <1>0, <2>1, <2>2 DEF Wanted
  <2>5. r \in todo => wire'[r] # 0
    BY <1>0, <2>1, <2>2 DEF Indexes
  <2>6. QED
    BY <1>0, <2>1, <2>3, <2>4, <2>5, NextAgrees DEF Agrees
<1>3. QED
  BY <1>1, <1>2

LEMMA KnownStep ==
    ASSUME TypeOK, Locked, Stages, FreshIds, Indexes, Sessions, Known, Next
    PROVE  Known'
<1>1. SUFFICES ASSUME Online', NEW r \in Registrations, r \notin doubtful', r \notin twice'
               PROVE  Agrees(r)'
  BY DEF Known
<1>2. ~Lose /\ ~Terminate /\ ~RestoreCancelled
  BY <1>1 DEF Lose, Terminate, RestoreCancelled, session, Online
<1>3. CASE Reconnect
  <2>1. live' = {} /\ ~Current(r)'
    BY <1>3 DEF Reconnect, Sessions, Current
  <2>2. QED
    BY <2>1 DEF Agrees, HasAtMost
<1>4. CASE ~Reconnect
  <2>1. Online /\ r \notin doubtful /\ r \notin twice
    <3>1. ASSUME NEW c \in Consumers,
                 \/ SubscribeCall(c) \/ SubscribeJoins(c) \/ SubscribeAsks(c)
                 \/ SubscribeResumes(c) \/ DrainResumes(c) \/ UndoResumes(c) \/ CancelSubscribe(c)
                 \/ CloseCall(c) \/ CleanupRuns(c) \/ CloseLocally(c) \/ CloseLast(c)
                 \/ CloseResumes(c) \/ CancelClose(c) \/ Take(c)
          PROVE  mode' = mode /\ doubtful \subseteq doubtful' /\ twice' = twice
      BY <3>1 DEF SubscribeCall, SubscribeJoins, SubscribeAsks, SubscribeResumes, DrainResumes,
         UndoResumes, CancelSubscribe, CloseCall, CleanupRuns, CloseLocally, CloseLast,
         CloseResumes, CancelClose, Take, AbandonRequest, session, history
    <3>2. CASE AllCall \/ AllAsks \/ AllResumes \/ AllCancelled \/ Publish
      BY <1>1, <3>2 DEF AllCall, AllAsks, AllResumes, AllCancelled, Publish, AbandonRequest,
         session, history, Online
    <3>3. CASE BrokerAccepts \/ BrokerRefuses \/ TimesOut \/ RestoreRuns \/ RestoreResumes
      BY <1>1, <3>3 DEF BrokerAccepts, BrokerRefuses, TimesOut, RestoreRuns, RestoreResumes,
         RestoreNext, session, history, Online
    <3>4. QED
      BY <1>1, <1>2, <1>4, <3>1, <3>2, <3>3 DEF Next, Online
  <2>2. Agrees(r) /\ mode # "closed"
    BY <2>1 DEF Known, Online
  <2>3. CASE Publish
    BY <2>2, <2>3, AgreesStays DEF Publish, session, Current, Wanted
  <2>4. CASE RestoreRuns \/ RestoreResumes
    <3>1. mode = "restoring"
      BY <2>1, <2>4 DEF RestoreRuns, RestoreResumes, Sessions, Online
    <3>2. QED
      BY <1>1, <2>2, <2>4, <3>1, RestoreAgrees
  <2>5. QED
    BY <1>1, <1>2, <1>4, <2>2, <2>3, <2>4, SubscribeAgrees, CloseAgrees, AllAgrees,
       BrokerAgreesToo DEF Next
<1>5. QED
  BY <1>3, <1>4

\* The broker has, for a registration nobody is busy with, what the registry knows.
LEMMA KnownAgrees ==
    ASSUME TypeOK, Locked, Known
    PROVE  BrokerAgrees
<1>1. SUFFICES ASSUME mode = "up", NEW r \in Registrations, Settled(r),
                      r \notin doubtful \cup twice
               PROVE  {p[1] : p \in {x \in live : x[2] = r}} = IF wire[r] = 0 THEN {} ELSE {wire[r]}
  BY DEF BrokerAgrees
<1>2. Wanted(r) = wire[r]
  BY <1>1 DEF Settled, Wanted, Locked, HolderWaits, NoRequest
<1>3. Has(r, wire[r])
  BY <1>1, <1>2 DEF Known, Online, Agrees, Current
<1>4. live \subseteq Ids \X Registrations /\ (wire[r] # 0 => wire[r] \in Ids)
  BY Bounds DEF TypeOK, RegistryTyped, Ids
<1>5. \A i \in Ids : <<i, r>> \in live <=> wire[r] # 0 /\ i = wire[r]
  BY <1>3, IdsAreNumbers DEF Has
<1>6. \A x \in live : x[2] = r <=> (wire[r] # 0 /\ x = <<wire[r], r>>)
  BY <1>4, <1>5
<1>7. QED
  BY <1>4, <1>5, <1>6

------------------------------------------------------------------------------
(* Who keeps a registration in use. *)

\* c keeps r in use.
Uses(c, r) ==
    /\ reg[c] = r
    /\ \/ c \in cons[r] /\ clo[c] # "abandoned"
       \/ clo[c] \in {"scheduled", "locking", "leaving", "draining"}

\* A close of r failed, or was cancelled.
Excused(r) ==
    \/ req.kind = "unsub" /\ req.reg = r /\ req.st = "error"
    \/ \E c \in Consumers :
          /\ reg[c] = r
          /\ \/ clo[c] = "draining" /\ req'.st = "idle" /\ faults' # faults
             \/ clo'[c] = "abandoned"

LEMMA UsesStays ==
    ASSUME NEW c \in Consumers, NEW r \in Registrations, Uses(c, r), reg'[c] = reg[c],
           clo'[c] = clo[c], c \in cons[r] => c \in cons'[r]
    PROVE  Uses(c, r)'
  BY DEF Uses

LEMMA UsesStep ==
    ASSUME TypeOK, Locked, Stages, NEW r \in Registrations, wire[r] # 0, wire'[r] # 0,
           NEW c \in Consumers, Uses(c, r), Next
    PROVE  Excused(r) \/ \E d \in Consumers : Uses(d, r)'
<1>0. /\ cons \in [Registrations -> SUBSET Consumers]
      /\ clo \in [Consumers -> {"none", "scheduled", "locking", "leaving", "draining", "done",
                                "abandoned"}]
      /\ reg \in [Consumers -> Registrations \cup {Nobody}] /\ faults \in Nat
  BY Bounds DEF TypeOK, TasksTyped, RegistryTyped
<1>1. reg[c] = r /\ pc[c] = "open"
  BY DEF Uses, Stages
<1>2. ASSUME NEW d \in Consumers,
             \/ SubscribeCall(d) \/ SubscribeJoins(d) \/ SubscribeAsks(d) \/ SubscribeResumes(d)
             \/ DrainResumes(d) \/ UndoResumes(d) \/ CancelSubscribe(d) \/ Take(d)
      PROVE  Uses(c, r)'
  <2>1. /\ clo' = clo
        /\ (reg' = reg
            \/ (pc[d] = "idle" /\ \E q \in Registrations : reg' = [reg EXCEPT ![d] = q]))
        /\ cons' = cons \/ cons' = [cons EXCEPT ![reg[d]] = @ \cup {d}]
    BY <1>2 DEF SubscribeCall, SubscribeJoins, SubscribeAsks, SubscribeResumes, DrainResumes,
       UndoResumes, CancelSubscribe, Take, registry
  <2>2. reg'[c] = reg[c] /\ (c \in cons[r] => c \in cons'[r])
    BY <1>0, <1>1, <2>1
  <2>3. QED
    BY <2>1, <2>2, UsesStays
<1>3. ASSUME NEW d \in Consumers, CloseCall(d) \/ CleanupRuns(d) \/ CloseLast(d)
      PROVE  Uses(c, r)'
  <2>1. /\ reg' = reg /\ \E v \in {"locking", "leaving"} : clo' = [clo EXCEPT ![d] = v]
        /\ \/ cons' = cons
           \/ cons[reg[d]] \subseteq {d} /\ cons' = [cons EXCEPT ![reg[d]] = {}]
    BY <1>3 DEF CloseCall, CleanupRuns, CloseLast, registry
  <2>2. CASE d = c
    BY <1>0, <1>1, <2>1, <2>2 DEF Uses
  <2>3. CASE d # c
    BY <1>0, <2>1, <2>3, UsesStays
  <2>4. QED
    BY <2>2, <2>3
<1>4. ASSUME NEW d \in Consumers, CloseLocally(d)
      PROVE  Excused(r) \/ \E e \in Consumers : Uses(e, r)'
  <2>1. /\ reg' = reg /\ clo' = [clo EXCEPT ![d] = "done"]
        /\ cons' = [cons EXCEPT ![reg[d]] = @ \ {d}]
        /\ wire[reg[d]] # 0 => cons[reg[d]] \ {d} # {}
    BY <1>4 DEF CloseLocally
  <2>2. CASE d # c
    <3>1. Uses(c, r)'
      BY <1>0, <2>1, <2>2, UsesStays
    <3>2. QED
      BY <3>1
  <2>3. CASE d = c
    <3>1. PICK e \in cons[r] : e # d
      BY <1>1, <2>1, <2>3
    <3>2. e \in Consumers /\ e \in cons'[r] /\ reg'[e] = r /\ clo'[e] = clo[e]
      BY <1>0, <1>1, <2>1, <2>3, <3>1 DEF Stages
    <3>3. clo'[e] = "abandoned" => Excused(r)
      BY <2>1, <3>2 DEF Excused
    <3>4. clo'[e] # "abandoned" => Uses(e, r)'
      BY <3>2 DEF Uses
    <3>5. QED
      BY <3>2, <3>3, <3>4
  <2>4. QED
    BY <2>2, <2>3
<1>5. ASSUME NEW d \in Consumers, CloseResumes(d)
      PROVE  Excused(r) \/ Uses(c, r)'
  <2>1. /\ reg' = reg /\ Leaves(d) /\ clo' = [clo EXCEPT ![d] = "done"]
        /\ Answered
        /\ IF req.st = "ok"
           THEN wire' = [wire EXCEPT ![reg[d]] = 0] /\ cons' = [cons EXCEPT ![reg[d]] = {}]
           ELSE cons' = cons
    BY <1>5 DEF CloseResumes, Unregister, Leaves
  <2>2. req.kind = "unsub" /\ req.reg = reg[d]
    BY <2>1, CloserHolds
  <2>3. req.st = "ok" => reg[d] # r
    BY <2>1 DEF TypeOK, RegistryTyped
  <2>4. CASE reg[d] = r
    BY <2>1, <2>2, <2>3, <2>4 DEF Answered, Excused
  <2>5. CASE reg[d] # r
    BY <1>0, <1>1, <2>1, <2>5, UsesStays
  <2>6. QED
    BY <2>4, <2>5
<1>6. ASSUME NEW d \in Consumers, CancelClose(d)
      PROVE  Excused(r) \/ Uses(c, r)'
  <2>1. /\ reg' = reg /\ cons' = cons /\ faults' = faults + 1
        /\ \/ clo' = [clo EXCEPT ![d] = "abandoned"]
           \/ clo[d] = "leaving" /\ clo' = [clo EXCEPT ![d] = "draining"]
           \/ clo[d] = "draining" /\ req' = NoRequest /\ clo' = [clo EXCEPT ![d] = "done"]
    BY <1>6 DEF CancelClose, Fault, AbandonRequest, registry
  <2>2. CASE d = c
    BY <1>0, <1>1, <2>1, <2>2 DEF Excused, Uses, NoRequest
  <2>3. CASE d # c
    BY <1>0, <2>1, <2>3, UsesStays
  <2>4. QED
    BY <2>2, <2>3
<1>7. CASE \/ AllCall \/ AllAsks \/ AllResumes \/ AllCancelled
           \/ BrokerAccepts \/ BrokerRefuses \/ TimesOut \/ Lose
           \/ Reconnect \/ Terminate \/ RestoreRuns \/ RestoreCancelled
  <2>1. UNCHANGED <<reg, clo>> /\ (cons' = cons \/ Clear)
    BY <1>7 DEF AllCall, AllAsks, AllResumes, AllCancelled, BrokerAccepts, BrokerRefuses, TimesOut,
       Lose, Reconnect, Terminate, RestoreRuns, RestoreCancelled, registry
  <2>2. ~Clear
    BY DEF Clear
  <2>3. Uses(c, r)'
    BY <2>1, <2>2, UsesStays
  <2>4. QED
    BY <2>3
<1>8. CASE RestoreResumes
  <2>1. /\ UNCHANGED <<reg, clo>> /\ req.reg \in Registrations
        /\ \/ cons' = cons
           \/ wire' = [wire EXCEPT ![req.reg] = 0] /\ cons' = [cons EXCEPT ![req.reg] = {}]
    BY <1>8, RestoreHolds DEF RestoreResumes, FailRegistration, Unregister
  <2>2. c \in cons[r] => c \in cons'[r]
    BY <1>0, <2>1 DEF TypeOK, RegistryTyped
  <2>3. Uses(c, r)'
    BY <2>1, <2>2, UsesStays
  <2>4. QED
    BY <2>3
<1>9. CASE Publish
  <2>1. UNCHANGED reg
    BY <1>9 DEF Publish
  <2>2. PICK p \in live : PublishEarly(p[1]) \/ PublishTo(p[1])
    BY <1>9 DEF Publish
  <2>3. CASE PublishEarly(p[1])
    BY <2>1, <2>3, UsesStays DEF PublishEarly
  <2>4. CASE PublishTo(p[1])
    <3>1. \/ clo'[c] = clo[c]
          \/ clo[c] = "none" /\ clo'[c] = "scheduled"
      BY <2>4 DEF PublishTo
    <3>2. c \in cons[r] => c \in cons'[r] \/ clo'[c] # "none"
      BY <1>0, <2>4 DEF PublishTo
    <3>3. c \in cons[r] => clo[c] \in {"none", "scheduled", "locking", "abandoned"}
      BY DEF Stages
    <3>4. QED
      BY <2>1, <3>1, <3>2, <3>3 DEF Uses
  <2>5. QED
    BY <2>2, <2>3, <2>4
<1>10. QED
  BY <1>2, <1>3, <1>4, <1>5, <1>6, <1>7, <1>8, <1>9 DEF Next

------------------------------------------------------------------------------
(* The theorems. *)

LEMMA InvInit == Init => SubscriptionsInv
<1> SUFFICES ASSUME Init
             PROVE  SubscriptionsInv
  OBVIOUS
<1>1. \A i \in Ids : early[i] = <<>>
  BY DEF Init
<1>2. Kept = {}
  <2>1. \A i \in Ids : {early[i][k] : k \in 1..Len(early[i])} = {}
    BY <1>1
  <2>2. QED
    BY <2>1 DEF Kept
<1>3. TypeOK
  <2>1. TasksTyped
    BY SubscriptionsAssumption DEF Init, TasksTyped
  <2>2. RegistryTyped
    BY SubscriptionsAssumption, NoRequestTyped DEF Init, RegistryTyped
  <2>3. BuffersTyped
    BY SubscriptionsAssumption DEF Init, BuffersTyped
  <2>4. Cardinality(Kept) <= Capacity
    BY <1>2, FS_EmptySet, SubscriptionsAssumption
  <2>5. QED
    BY <2>1, <2>2, <2>3, <2>4 DEF TypeOK
<1>4. OneHolder /\ HolderWaits
  BY DEF Init, OneHolder, HolderWaits, Asks, Leaves, Free
<1>5. Stages
  BY DEF Init, Stages, Leaves
<1>6. \A i \in 0..MaxId : ~Given(i)
  BY DEF Init, Given, NoRequest
<1>7. FreshIds
  BY <1>1, <1>6 DEF Init, FreshIds
<1>8. Indexes
  BY SubscriptionsAssumption, <1>6, IdsAreNumbers DEF Init, Indexes, Asks, Leaves
<1>9. KeptOnce
  BY <1>1 DEF KeptOnce
<1>10. Owed
  BY <1>1 DEF Init, Owed, NothingKept, NothingDue, RestoredOnce
<1>11. NothingLost
  <2>1. \A c \in Consumers : Served(c)
    BY DEF Init, Served, Claims, IsOpen
  <2>2. QED
    BY <2>1, LostIsServed
<1>12. NoForgottenConsumer
  BY DEF Init, NoForgottenConsumer, IsOpen
<1>13. Sessions
  BY DEF Init, Sessions
<1>14. Known
  <2>1. \A r \in Registrations : Wanted(r) = 0 /\ Current(r)
    BY DEF Init, Wanted, Current, NoRequest
  <2>2. \A r \in Registrations : Has(r, 0)
    BY IdsAreNumbers DEF Init, Has
  <2>3. QED
    BY <2>1, <2>2 DEF Known, Agrees
<1>15. QED
  BY <1>3, <1>4, <1>5, <1>7, <1>8, <1>9, <1>10, <1>11, <1>12, <1>13, <1>14 DEF SubscriptionsInv

LEMMA InvStep == SubscriptionsInv /\ [Next]_vars => SubscriptionsInv'
<1>1. ASSUME SubscriptionsInv, Next
      PROVE  SubscriptionsInv'
  <2>1. Locked /\ TasksTyped /\ RegistryTyped /\ BuffersTyped
    BY <1>1 DEF SubscriptionsInv, Locked, TypeOK
  <2>2. Locked'
    BY <1>1, <2>1, LockStep DEF SubscriptionsInv
  <2>3. TasksTyped' /\ RegistryTyped' /\ BuffersTyped'
    BY <1>1, <2>1, TasksTypedStep, RegistryTypedStep, BuffersTypedStep DEF SubscriptionsInv
  <2>4. Cardinality(Kept)' <= Capacity /\ KeptOnce'
    BY <1>1, <2>1, KeptStep DEF SubscriptionsInv
  <2>5. TypeOK'
    BY <2>3, <2>4 DEF TypeOK
  <2>6. Stages'
    BY <1>1, <2>1, StagesStep DEF SubscriptionsInv
  <2>7. FreshIds'
    BY <1>1, <2>1, <2>2, FreshIdsStep DEF SubscriptionsInv
  <2>8. Indexes'
    BY <1>1, <2>1, <2>2, <2>3, IndexesStep DEF SubscriptionsInv
  <2>9. Owed'
    BY <1>1, <2>1, <2>2, OwedStep DEF SubscriptionsInv
  <2>10. NothingLost'
    BY <1>1, <2>1, <2>2, NothingLostStep DEF SubscriptionsInv
  <2>11. NoForgottenConsumer'
    BY <1>1, <2>1, <2>6, PresentStep DEF SubscriptionsInv
  <2>12. Sessions'
    BY <1>1, <2>1, SessionsStep DEF SubscriptionsInv
  <2>13. Known'
    BY <1>1, <2>1, KnownStep DEF SubscriptionsInv
  <2>14. QED
    BY <2>2, <2>4, <2>5, <2>6, <2>7, <2>8, <2>9, <2>10, <2>11, <2>12, <2>13
       DEF SubscriptionsInv, Locked
<1>2. ASSUME SubscriptionsInv, UNCHANGED vars
      PROVE  SubscriptionsInv'
  <2>1. /\ UNCHANGED <<flavour, mode, live, nextId, wire, cons, byId, early, req, pc, reg>>
        /\ UNCHANGED <<fate, queue, due, clo, auto, rst, todo, all>>
        /\ UNCHANGED <<items, faults, gapped, doubtful, twice>>
    BY <1>2 DEF vars, session, registry, local, counters, history
  <2>2. TypeOK'
    BY <1>2, <2>1 DEF SubscriptionsInv, TypeOK, TasksTyped, RegistryTyped, BuffersTyped, Kept
  <2>3. OneHolder' /\ HolderWaits' /\ Stages'
    BY <1>2, <2>1 DEF SubscriptionsInv, OneHolder, HolderWaits, Stages, Asks, Leaves, Free
  <2>4. FreshIds' /\ Indexes' /\ KeptOnce'
    BY <1>2, <2>1 DEF SubscriptionsInv, FreshIds, Indexes, KeptOnce, Given, Asks, Leaves
  <2>5. Owed' /\ NothingLost' /\ NoForgottenConsumer'
    BY <1>2, <2>1 DEF SubscriptionsInv, Owed, NothingKept, NothingDue, RestoredOnce, NothingLost,
       InStore, Awaiting, IsOpen, NoForgottenConsumer
  <2>6. Sessions' /\ Known'
    BY <1>2, <2>1 DEF SubscriptionsInv, Sessions, Known, Agrees, Has, HasAtMost, Wanted, Current,
       Online
  <2>7. QED
    BY <2>2, <2>3, <2>4, <2>5, <2>6 DEF SubscriptionsInv
<1>3. QED
  BY <1>1, <1>2

LEMMA Invariance == Spec => []SubscriptionsInv
  BY InvInit, InvStep, PTL DEF Spec

(* The registry, its copy in the notice client and the consumers never leave    *)
(* their types, and the deque of early notifications never holds more than      *)
(* subscription_buffer_size of them (_subscriptions.py:110-120).                *)
THEOREM TypeCorrect == Spec => []TypeOK
<1>1. SubscriptionsInv => TypeOK
  BY DEF SubscriptionsInv
<1>2. QED
  BY <1>1, Invariance, PTL

(* _by_registration and _by_id stay inverse to each other until the connection  *)
(* is closed for good, whatever fails and whoever is cancelled on the way       *)
(* (_subscriptions.py:96-98, 139-142, 148).                                     *)
THEOREM IndexesAgree == Spec => []IndexConsistent
<1>1. SubscriptionsInv => IndexConsistent
  BY DEF SubscriptionsInv, Indexes, IndexConsistent
<1>2. QED
  BY <1>1, Invariance, PTL

(* In a session that is up the broker has exactly the id that the registry      *)
(* knows of a registration that nobody is busy with, unless the answer to a     *)
(* request about it was lost or it was asked for twice.                         *)
THEOREM BrokerHasWhatIsKnown == Spec => []BrokerAgrees
<1>1. SubscriptionsInv => BrokerAgrees
  BY KnownAgrees DEF SubscriptionsInv, Locked
<1>2. QED
  BY <1>1, Invariance, PTL

(* No consumer loses, repeats or reorders a notification without being told:    *)
(* neither one that came before the answer to its subscribe(), nor one that     *)
(* came while restore() moved the registration to a new id                      *)
(* (_subscriptions.py:110-120, 172-182).                                        *)
THEOREM EveryNotificationServed == Spec => []NothingLost
<1>1. SubscriptionsInv => NothingLost
  BY DEF SubscriptionsInv
<1>2. QED
  BY <1>1, Invariance, PTL

(* A consumer that was not told of its end is in the set of its registration,   *)
(* where publish(), restore() and terminate() find it                           *)
(* (_subscriptions.py:70-101, 121-124, 144-163).                                *)
THEOREM ConsumersFound == Spec => []NoForgottenConsumer
<1>1. SubscriptionsInv => NoForgottenConsumer
  BY DEF SubscriptionsInv
<1>2. QED
  BY <1>1, Invariance, PTL

(* A registration outlives its last consumer only when an unsubscribe failed or *)
(* a close was cancelled: not because of an overflow, a restoration or the      *)
(* order in which the consumers leave (_subscriptions.py:70-101, 121-124).      *)
THEOREM ReleasedWithLastConsumer == Spec => ReleasedUnlessFailed
<1> DEFINE Step ==
      \A r \in Registrations :
          wire[r] # 0 /\ wire'[r] # 0 /\ InUse(r) /\ ~InUse(r)' =>
              \/ req.kind = "unsub" /\ req.reg = r /\ req.st = "error"
              \/ \E c \in Consumers :
                    /\ reg[c] = r
                    /\ \/ clo[c] = "draining" /\ req'.st = "idle" /\ faults' # faults
                       \/ clo'[c] = "abandoned"
<1>1. ASSUME SubscriptionsInv, [Next]_vars
      PROVE  [Step]_vars
  <2>1. SUFFICES ASSUME Next, NEW r \in Registrations, wire[r] # 0, wire'[r] # 0, InUse(r),
                        ~InUse(r)'
                 PROVE  Excused(r)
    BY <1>1 DEF Excused
  <2>2. PICK c \in Consumers : Uses(c, r)
    BY <2>1 DEF InUse, Uses
  <2>3. \A d \in Consumers : ~Uses(d, r)'
    BY <2>1 DEF InUse, Uses
  <2>4. QED
    BY <1>1, <2>1, <2>2, <2>3, UsesStep DEF SubscriptionsInv, Locked
<1>2. QED
  BY <1>1, Invariance, PTL DEF Spec, ReleasedUnlessFailed

==============================================================================
