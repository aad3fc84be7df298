---------------------------- MODULE HandlesProofs -----------------------------
(***************************************************************************)
(* No operation is sent on a session but the one that granted its handle,  *)
(* none after the handle was finished but what the gate held back before,  *)
(* and an exit that raises nothing leaves nothing open: for every number   *)
(* of sessions, requests and faults.                                       *)
(* The first invariant says that there is one grant, whose answer is       *)
(* turned into the handle in the session that gave it; the second, who     *)
(* will still end a grant that is open.                                    *)
(***************************************************************************)
EXTENDS Handles, TLAPS

\* Only a task that has the handle uses it.
UsersHaveIt ==
    /\ \A t \in Tasks :
          /\ task[t].pc \in {"in", "locking", "asking", "backoff"} => handle.made
          /\ task[t].pc = "closing" /\ kind # "kv" => handle.made
          /\ task[t].pc = "locking" => task[t].op \in Operations
    /\ ctx.has => handle.made

\* There is one begin, and the handle is of the session it was granted in.
OneGrant ==
    /\ \A r \in wire : r.op = "begin" =>
          /\ resource.st = "none"
          /\ \A s \in wire : s.op = "begin" => s = r
    /\ handle.made => resource.st # "none" /\ handle.at = resource.at

Begun(t) == task[t].pc = "beginning" /\ task[t].reply = "ok"

\* The answer to the begin is turned into the handle once, and in time.
GrantIsFresh ==
    \A t \in Tasks : Begun(t) =>
        /\ resource.st # "none" /\ resource.at = generation
        /\ ~handle.made
        /\ \A u \in Tasks : Begun(u) => u = t

\* What is on its way is of this session, and nobody takes the answer to
\* another request for the answer to the begin.
WireOfHandle ==
    /\ ~Online => wire = {}
    /\ \A r \in wire :
          /\ r.id <= ops
          /\ r.op # "begin" => handle.made /\ handle.at = generation
          /\ r.op # "begin" /\ task[r.by].req = r.id => task[r.by].pc # "beginning"

FinishedIsClosed == handle.finished => handle.made /\ handle.closed

HandlesInv ==
    /\ SessionTypeOK
    /\ HandlesTypeOK
    /\ UsersHaveIt
    /\ OneGrant
    /\ GrantIsFresh
    /\ WireOfHandle
    /\ FinishedIsClosed

\* What every step does: once the handle is finished, what is new on the wire
\* was held back by the gate.
Kept ==
    /\ HandlesInv'
    /\ handle.finished => \A r \in wire' \ wire : \E s \in Held : r = [s EXCEPT !.sent = TRUE]

------------------------------------------------------------------------------
(* The initial state, and what a step may do to the tasks and the handle.     *)

LEMMA InvInit == Init => HandlesInv
BY SessionAssumption, HandleBaseAssumption
   DEF Init, SessionInit, HandlesInit, HandlesInv, SessionTypeOK, HandlesTypeOK, TaskType,
       ContextType, HandleType, GrantType, UsersHaveIt, OneGrant, GrantIsFresh, Begun,
       WireOfHandle, FinishedIsClosed

\* A step that sends nothing: a task moves on, but to no begin.
LEMMA LocalStep ==
    ASSUME HandlesInv, UNCHANGED <<session, kind, resource, ops>>, wire' \subseteq wire,
           task' \in [Tasks -> TaskType], ctx' \in ContextType, handle' \in HandleType,
           UsersHaveIt',
           handle'.made = handle.made, handle'.at = handle.at,
           handle'.finished => handle'.closed /\ (handle.finished \/ handle.made),
           \A u \in Tasks : task'[u].pc = "beginning" => task'[u] = task[u]
    PROVE  Kept
<1>1. SessionTypeOK' /\ HandlesTypeOK'
  BY DEF HandlesInv, SessionTypeOK, HandlesTypeOK, session
<1>2. OneGrant'
  BY DEF HandlesInv, OneGrant
<1>3. GrantIsFresh'
  BY DEF HandlesInv, GrantIsFresh, Begun, session
<1>4. WireOfHandle'
  <2>1. \A r \in wire : r.by \in Tasks
    BY DEF HandlesInv, HandlesTypeOK, Frame
  <2>2. QED
    BY <2>1 DEF HandlesInv, WireOfHandle, Online, session
<1>5. FinishedIsClosed'
  BY DEF HandlesInv, FinishedIsClosed
<1>6. QED
  BY <1>1, <1>2, <1>3, <1>4, <1>5 DEF HandlesInv, Kept

\* Types of what the helpers make of a task.
LEMMA TaskTypes ==
    ASSUME NEW k \in TaskType
    PROVE  /\ Back(k) \in TaskType /\ Back(k).pc = "in"
           /\ \A quiet \in BOOLEAN : Out(k, quiet) \in TaskType /\ Out(k, quiet).pc = "left"
<1>0. 0 \in 0..MaxOps
  BY HandleBaseAssumption
<1>1. Rested(k) \in TaskType
  BY <1>0 DEF TaskType, Rested
<1> DEFINE j == Rested(k)
<1> HIDE DEF j
<1>2. [j EXCEPT !.pc = "in"] \in TaskType /\ [j EXCEPT !.pc = "in"].pc = "in"
  BY <1>1 DEF TaskType, j
<1>3. \A quiet \in BOOLEAN : /\ [j EXCEPT !.pc = "left", !.quiet = quiet] \in TaskType
                             /\ [j EXCEPT !.pc = "left", !.quiet = quiet].pc = "left"
  BY <1>1 DEF TaskType, j
<1>4. QED
  BY <1>2, <1>3 DEF Back, Out, j

LEMMA AskedType ==
    ASSUME NEW k \in TaskType, NEW op \in Operations \cup {"begin"},
           NEW then \in {"in", "exit", "raise"}, ops + 1 \in 1..MaxOps, NEW fate \in Fates
    PROVE  /\ Asked(k, op, then, fate) \in TaskType
           /\ Asked(k, op, then, fate).pc = IF op = "begin" THEN "beginning" ELSE "asking"
           /\ Asked(k, op, then, fate).reply \in {"none", "lost", "retryable"}
           /\ Asked(k, op, then, fate).req = IF fate \in Asking THEN ops + 1 ELSE 0
<1> DEFINE pc == IF op = "begin" THEN "beginning" ELSE "asking"
           req == IF fate \in Asking THEN ops + 1 ELSE 0
           reply == IF fate \in Asking THEN "none"
                    ELSE IF fate = "full" THEN "retryable" ELSE "lost"
<1>1. /\ pc \in {"beginning", "asking"} /\ req \in 0..MaxOps
      /\ reply \in {"none", "lost", "retryable"}
  BY HandleBaseAssumption
<1> HIDE DEF pc, req, reply
<1>2. Asked(k, op, then, fate) = [k EXCEPT !.pc = pc, !.op = op, !.then = then, !.req = req,
                                          !.reply = reply]
  BY DEF Asked, pc, req, reply
<1> DEFINE u == [k EXCEPT !.pc = pc, !.op = op, !.then = then, !.req = req, !.reply = reply]
<1>3. /\ u \in TaskType /\ Asked(k, op, then, fate) = u
      /\ u.pc = pc /\ u.reply = reply /\ u.req = req
  <2>1. u \in TaskType
    BY <1>1, ZenonT(30) DEF TaskType
  <2>2. u.pc = pc /\ u.reply = reply /\ u.req = req
    BY DEF TaskType
  <2>3. QED
    BY <1>2, <2>1, <2>2
<1> HIDE DEF u
<1>4. QED
  BY <1>1, <1>3 DEF pc, req

\* What a request does to the wire.
LEMMA AskedWire ==
    ASSUME HandlesInv, NEW t \in Tasks, NEW h, NEW op, NEW then, Request(t, h, op, then)
    PROVE  \E fate \in Fates :
              /\ task' = [task EXCEPT ![t] = Asked(@, op, then, fate)]
              /\ fate \notin Asking => wire' = wire
              /\ fate \in Asking =>
                    /\ Online
                    /\ \E f : /\ wire' = wire \cup {f}
                             /\ f = [id |-> ops + 1, by |-> t, op |-> op, token |-> h.token,
                                     sent |-> fate = "sent"]
<1>1. PICK fate \in Fates :
          /\ task' = [task EXCEPT ![t] = Asked(@, op, then, fate)]
          /\ wire' = wire \cup {f \in {[id |-> ops + 1, by |-> t, op |-> op, token |-> h.token,
                                       sent |-> fate = "sent"]} : fate \in Asking}
  BY DEF Request
<1>2. fate \in Asking => Online
  BY DEF Fates, Asking
<1>3. QED
  BY <1>1, <1>2

\* A request: the begin, or one on the handle of this session.
LEMMA RequestStep ==
    ASSUME HandlesInv, NEW t \in Tasks, NEW h \in HandleType,
           NEW op \in Operations \cup {"begin"}, NEW then \in {"in", "exit", "raise"},
           Request(t, h, op, then), ops' <= MaxOps,
           UNCHANGED <<session, kind, resource>>, ctx' \in ContextType,
           ctx'.has => h.made, handle.made => h.made,
           h.finished => h.closed,
           \/ op = "begin" /\ h = handle /\ MayBegin
           \/ /\ op # "begin" /\ h.made /\ h.at = generation /\ ~handle.finished
              /\ resource.st # "none" /\ h.at = resource.at
              /\ \A u \in Tasks : Begun(u) => u = t
    PROVE  Kept
<1>0. /\ ops \in Nat /\ ops + 1 \in 1..MaxOps /\ MaxOps \in Nat
      /\ task \in [Tasks -> TaskType] /\ handle \in HandleType /\ wire \subseteq Frame
      /\ handle' = h /\ ops' = ops + 1
  BY HandleBaseAssumption DEF HandlesInv, HandlesTypeOK, Request
<1>a. PICK fate \in Fates :
          /\ task' = [task EXCEPT ![t] = Asked(@, op, then, fate)]
          /\ fate \notin Asking => wire' = wire
          /\ fate \in Asking =>
                /\ Online
                /\ \E f : /\ wire' = wire \cup {f}
                         /\ f = [id |-> ops + 1, by |-> t, op |-> op, token |-> h.token,
                                 sent |-> fate = "sent"]
  BY AskedWire
<1>b. /\ \A u \in Tasks : u # t => task'[u] = task[u]
      /\ task' \in [Tasks -> TaskType]
      /\ task'[t].pc = IF op = "begin" THEN "beginning" ELSE "asking"
      /\ task'[t].reply \in {"none", "lost", "retryable"}
      /\ task'[t].req = IF fate \in Asking THEN ops + 1 ELSE 0
  BY <1>0, <1>a, AskedType
<1>c. \/ wire' = wire
      \/ Online /\ \E f \in Frame : /\ wire' = wire \cup {f} /\ f.id = ops + 1 /\ f.by = t
                                    /\ f.op = op
  <2> DEFINE b == fate = "sent"
             f == [id |-> ops + 1, by |-> t, op |-> op, token |-> h.token, sent |-> b]
  <2>1. b \in BOOLEAN /\ h.token \in 0..MaxOps
    BY DEF HandleType
  <2> HIDE DEF b
  <2>2. f \in Frame /\ f.id = ops + 1 /\ f.by = t /\ f.op = op
    BY <1>0, <2>1 DEF Frame
  <2>3. \/ wire' = wire
        \/ Online /\ wire' = wire \cup {f}
    BY <1>a DEF b
  <2> HIDE DEF f
  <2>4. QED
    BY <2>2, <2>3
<1>1. SessionTypeOK' /\ HandlesTypeOK'
  BY <1>0, <1>b, <1>c DEF HandlesInv, SessionTypeOK, HandlesTypeOK, session
<1>2. UsersHaveIt'
  BY <1>0, <1>b DEF HandlesInv, UsersHaveIt, TaskType, MayBegin
<1>3. OneGrant'
  BY <1>0, <1>c DEF HandlesInv, OneGrant, MayBegin
<1>4. GrantIsFresh'
  BY <1>0, <1>b DEF HandlesInv, GrantIsFresh, Begun, TaskType, session
<1>5. WireOfHandle'
  <2>1. ~Online' => wire' = {}
    BY <1>c DEF HandlesInv, WireOfHandle, Online, session
  <2>2. ASSUME NEW r \in wire'
        PROVE  /\ r.id <= ops'
               /\ r.op # "begin" => handle'.made /\ handle'.at = generation'
               /\ r.op # "begin" /\ task'[r.by].req = r.id => task'[r.by].pc # "beginning"
    <3>1. CASE r \in wire
      <4>1. /\ r.id <= ops /\ r.id \in 1..MaxOps /\ r.by \in Tasks
            /\ r.op # "begin" => handle.made /\ handle.at = generation
            /\ r.op # "begin" /\ task[r.by].req = r.id => task[r.by].pc # "beginning"
        BY <1>0, <3>1 DEF HandlesInv, WireOfHandle, Frame
      <4>2. r.op # "begin" => handle'.made /\ handle'.at = generation'
        BY <1>0, <4>1 DEF HandlesInv, OneGrant, session
      <4>3. r.by = t => task'[r.by].req # r.id
        BY <1>0, <1>b, <4>1
      <4>4. QED
        BY <1>0, <1>b, <4>1, <4>2, <4>3
    <3>2. CASE r \notin wire
      BY <1>0, <1>b, <1>c, <3>2 DEF session
    <3>3. QED
      BY <3>1, <3>2
  <2>3. QED
    BY <2>1, <2>2 DEF WireOfHandle
<1>6. FinishedIsClosed'
  BY <1>0 DEF HandlesInv, FinishedIsClosed
<1>7. ~handle.finished
  BY DEF HandlesInv, FinishedIsClosed, OneGrant, MayBegin
<1>8. QED
  BY <1>1, <1>2, <1>3, <1>4, <1>5, <1>6, <1>7 DEF HandlesInv, Kept

\* A task ends its operation, or leaves.
LEMMA EndsStep ==
    ASSUME HandlesInv, NEW t \in Tasks, UNCHANGED <<session, kind, resource, ops>>,
           wire' \subseteq wire, task[t].pc \in {"beginning", "locking", "asking", "backoff"},
           \E ok \in BOOLEAN : Ended(t, ok),
           ctx' \in ContextType, ctx'.has => handle.made,
           handle' \in HandleType, handle'.made = handle.made, handle'.at = handle.at,
           handle'.finished => handle'.closed /\ (handle.finished \/ handle.made)
    PROVE  Kept
<1>1. task \in [Tasks -> TaskType]
  BY DEF HandlesInv, HandlesTypeOK
<1>2. PICK ok \in BOOLEAN : Ended(t, ok)
  OBVIOUS
<1> DEFINE k == IF task[t].then = "in" /\ task[t].pc # "beginning" THEN Back(task[t])
                ELSE Out(task[t], ok /\ task[t].then = "exit")
<1>3. /\ k \in TaskType /\ k.pc \in {"in", "left"}
      /\ k.pc = "in" => task[t].pc # "beginning"
  BY <1>1, TaskTypes
<1>4. task' = [task EXCEPT ![t] = k]
  BY <1>1, <1>2 DEF Ended
<1> HIDE DEF k
<1>5. task' \in [Tasks -> TaskType]
  BY <1>1, <1>3, <1>4
<1>6. UsersHaveIt'
  BY <1>1, <1>3, <1>4 DEF HandlesInv, UsersHaveIt
<1>7. \A u \in Tasks : task'[u].pc = "beginning" => task'[u] = task[u]
  BY <1>1, <1>3, <1>4
<1>8. QED
  BY <1>5, <1>6, <1>7, LocalStep

\* A task's program counter moves on to where it sends nothing.
LEMMA MovesStep ==
    ASSUME HandlesInv, NEW t \in Tasks, UNCHANGED <<session, kind, resource, wire, ops, handle>>,
           NEW k \in TaskType, task' = [task EXCEPT ![t] = k], k.pc # "beginning",
           k.pc \in {"in", "locking", "asking", "backoff"} => handle.made,
           k.pc = "closing" /\ kind # "kv" => handle.made,
           k.pc = "locking" => k.op \in Operations,
           ctx' \in ContextType, ctx'.has => handle.made
    PROVE  Kept
<1>1. task \in [Tasks -> TaskType] /\ handle \in HandleType
  BY DEF HandlesInv, HandlesTypeOK
<1>2. UsersHaveIt' /\ task' \in [Tasks -> TaskType]
  BY <1>1 DEF HandlesInv, UsersHaveIt
<1>3. handle'.finished => handle'.closed /\ handle.finished
  BY DEF HandlesInv, FinishedIsClosed
<1>4. \A u \in Tasks : task'[u].pc = "beginning" => task'[u] = task[u]
  BY <1>1
<1>5. QED
  BY <1>1, <1>2, <1>3, <1>4, LocalStep

\* The answer to the begin is turned into the handle.
LEMMA MadeStep ==
    ASSUME HandlesInv, NEW t \in Tasks, Begun(t),
           UNCHANGED <<session, kind, resource, wire, ops>>,
           task' \in [Tasks -> TaskType], ctx' \in ContextType, handle' = NewHandle,
           \A u \in Tasks :
              /\ task'[u].pc = "beginning" => task'[u] = task[u] /\ u # t
              /\ task'[u].pc = "locking" => task'[u].op \in Operations
    PROVE  Kept
<1>0. /\ resource.st # "none" /\ resource.at = generation /\ ~handle.made
      /\ handle \in HandleType /\ generation \in 1..MaxGeneration
      /\ ~handle.finished /\ \A u \in Tasks : Begun(u) => u = t
  BY DEF HandlesInv, GrantIsFresh, HandlesTypeOK, SessionTypeOK, FinishedIsClosed
<1>1. /\ handle' \in HandleType /\ handle'.made /\ handle'.at = generation
      /\ handle'.finished = FALSE
  BY <1>0 DEF NewHandle, HandleType
<1>2. SessionTypeOK' /\ HandlesTypeOK'
  BY <1>1 DEF HandlesInv, SessionTypeOK, HandlesTypeOK, session
<1>3. UsersHaveIt'
  BY <1>1 DEF UsersHaveIt
<1>4. OneGrant'
  BY <1>0, <1>1 DEF HandlesInv, OneGrant
<1>5. GrantIsFresh'
  BY <1>0 DEF GrantIsFresh, Begun
<1>6. WireOfHandle'
  <2>1. \A r \in wire : r.by \in Tasks
    BY DEF HandlesInv, HandlesTypeOK, Frame
  <2>2. QED
    BY <2>1, <1>0, <1>1 DEF HandlesInv, WireOfHandle, Online, session
<1>7. QED
  BY <1>1, <1>2, <1>3, <1>4, <1>5, <1>6 DEF HandlesInv, Kept, FinishedIsClosed

------------------------------------------------------------------------------
(* The transaction.                                                           *)

\* The handle as an operation finds it.
LEMMA UserSees ==
    ASSUME HandlesInv, handle.made
    PROVE  /\ resource.st # "none" /\ handle.at = resource.at
           /\ \A u \in Tasks : ~Begun(u)
           /\ Valid => ~handle.finished /\ handle.at = generation
BY DEF HandlesInv, OneGrant, GrantIsFresh, Valid, FinishedIsClosed

\* A request on a valid handle.
LEMMA OperationStep ==
    ASSUME HandlesInv, NEW t \in Tasks, NEW op \in Operations, NEW then \in {"in", "exit", "raise"},
           handle.made, Valid, NEW h \in HandleType, h.made, h.at = handle.at,
           h.finished => h.closed,
           Request(t, h, op, then), ops' <= MaxOps,
           UNCHANGED <<session, kind, resource>>, ctx' \in ContextType
    PROVE  Kept
<1>1. op # "begin"
  BY DEF Operations, Finishing
<1>2. QED
  BY <1>1, UserSees, RequestStep

LEMMA FinishType ==
    ASSUME NEW h \in HandleType, NEW op, NEW t \in Tasks, h.finished => h.closed
    PROVE  LET g == [Finish(h, op) EXCEPT !.lock = t]
           IN  /\ g \in HandleType /\ g.made = h.made /\ g.at = h.at
               /\ g.finished => g.closed
BY DEF HandleType, Finish

LEMMA ContextTypes ==
    ASSUME NEW c \in ContextType, NEW t \in Tasks
    PROVE  /\ Unlocked(c, t) \in ContextType /\ Unlocked(c, t).has = c.has
           /\ [c EXCEPT !.lock = t] \in ContextType /\ [c EXCEPT !.lock = t].has = c.has
           /\ [c EXCEPT !.closed = TRUE, !.has = FALSE] \in ContextType
           /\ [c EXCEPT !.closed = TRUE] \in ContextType
           /\ [c EXCEPT !.closed = TRUE].has = c.has
           /\ [c EXCEPT !.has = TRUE, !.lock = Nobody] \in ContextType
           /\ [closed |-> TRUE, has |-> FALSE, lock |-> t] \in ContextType
BY DEF ContextType, Unlocked

\* The typed parts of the invariant, for the lemmas below.
LEMMA Parts ==
    ASSUME HandlesInv
    PROVE  /\ task \in [Tasks -> TaskType] /\ ctx \in ContextType /\ handle \in HandleType
           /\ \A t \in Tasks : task[t] \in TaskType
           /\ handle.finished => handle.closed /\ handle.made
           /\ ctx.has => handle.made
           /\ \A t \in Tasks :
                 /\ task[t].pc \in {"in", "locking", "asking", "backoff"} => handle.made
                 /\ task[t].pc = "closing" /\ kind # "kv" => handle.made
                 /\ task[t].pc = "locking" => task[t].op \in Operations
BY DEF HandlesInv, HandlesTypeOK, UsersHaveIt, FinishedIsClosed

LEMMA ProceedStep ==
    ASSUME HandlesInv, NEW t \in Tasks, NEW op \in Operations, NEW then \in {"in", "exit", "raise"},
           handle.made, Proceed(t, op, then), KvKeep, ops' <= MaxOps
    PROVE  Kept
<1>1. CASE Valid
  <2> DEFINE h == [Finish(handle, op) EXCEPT !.lock = t]
  <2>1. /\ h \in HandleType /\ h.made /\ h.at = handle.at
        /\ h.finished => h.closed
    BY Parts, FinishType
  <2>2. Request(t, h, op, then) /\ UNCHANGED ctx
    BY <1>1 DEF Proceed
  <2> HIDE DEF h
  <2>3. ctx' \in ContextType /\ UNCHANGED <<session, kind, resource>>
    BY <2>2, Parts DEF KvKeep
  <2>4. QED
    BY <1>1, <2>1, <2>2, <2>3, OperationStep
<1>2. CASE ~Valid
  <2> DEFINE k == IF then = "in" THEN Back(task[t]) ELSE Out(task[t], FALSE)
  <2>1. k \in TaskType /\ k.pc \in {"in", "left"}
    BY Parts, TaskTypes
  <2>2. task' = [task EXCEPT ![t] = k]
    BY <1>2, Parts DEF Proceed
  <2>3. ctx' \in ContextType
    <3>1. ctx' = Unlocked(ctx, t)
      BY <1>2 DEF Proceed
    <3>2. ctx \in ContextType
      BY Parts
    <3>3. QED
      BY <3>1, <3>2, ContextTypes
  <2> HIDE DEF k
  <2>4. QED
    BY <1>2, <2>1, <2>2, <2>3, MovesStep DEF Proceed, KvKeep
<1>3. QED
  BY <1>1, <1>2

LEMMA OperateStep ==
    ASSUME HandlesInv, NEW t \in Tasks, NEW op \in Operations, task[t].pc = "in",
           Operate(t, op, "in"), KvKeep, ops' <= MaxOps
    PROVE  Kept
<1>1. CASE handle.lock = Nobody
  BY <1>1, Parts, ProceedStep DEF Operate
<1>2. CASE handle.lock # Nobody
  <2> DEFINE k == [task[t] EXCEPT !.pc = "locking", !.op = op, !.then = "in"]
  <2>1. k \in TaskType /\ k.pc = "locking" /\ k.op = op
    BY Parts, ZenonT(30) DEF TaskType
  <2>2. task' = [task EXCEPT ![t] = k]
    BY <1>2, Parts DEF Operate
  <2>3. UNCHANGED <<session, kind, resource, wire, ops, handle, ctx>>
    BY <1>2 DEF Operate, KvKeep
  <2>4. ctx' \in ContextType /\ handle.made
    BY <2>3, Parts
  <2> HIDE DEF k
  <2>5. QED
    BY <2>1, <2>2, <2>3, <2>4, MovesStep
<1>3. QED
  BY <1>1, <1>2

LEMMA LockAcquiredStep ==
    ASSUME HandlesInv, NEW t \in Tasks, LockAcquired(t), ops' <= MaxOps
    PROVE  Kept
<1>1. task[t].op \in Operations /\ handle.made
  BY Parts DEF LockAcquired
<1>2. task[t].then \in {"in", "exit", "raise"}
  BY Parts DEF TaskType
<1>3. QED
  BY <1>1, <1>2, ProceedStep DEF LockAcquired

LEMMA OperationsStep ==
    ASSUME HandlesInv, NEW t \in Tasks, ops' <= MaxOps,
           Read(t) \/ Write(t) \/ Commit(t) \/ Rollback(t)
    PROVE  Kept
<1>1. {"read", "write", "commit", "rollback"} \subseteq Operations
  BY DEF Operations, Finishing
<1>2. QED
  BY <1>1, OperateStep DEF Read, Write, Commit, Rollback

LEMMA ReturnStep ==
    ASSUME HandlesInv, NEW t \in Tasks, Return(t)
    PROVE  Kept
<1>1. \E ok \in BOOLEAN : Ended(t, ok)
  BY DEF Return
<1>2. /\ handle' \in HandleType /\ handle'.made = handle.made /\ handle'.at = handle.at
      /\ handle'.finished = handle.finished /\ handle'.closed = handle.closed
  BY Parts DEF Return, HandleType
<1>3. ctx' \in ContextType /\ ctx'.has = ctx.has
  BY Parts, ContextTypes DEF Return
<1>4. QED
  BY <1>1, <1>2, <1>3, Parts, EndsStep DEF Return, KvKeep

LEMMA RetryLaterStep ==
    ASSUME HandlesInv, NEW t \in Tasks, RetryLater(t)
    PROVE  Kept
<1> DEFINE k == [task[t] EXCEPT !.pc = "backoff", !.reply = "none"]
<1>1. k \in TaskType /\ k.pc = "backoff"
  BY Parts, ZenonT(30) DEF TaskType
<1>2. task' = [task EXCEPT ![t] = k]
  BY Parts DEF RetryLater
<1> HIDE DEF k
<1>3. QED
  BY <1>1, <1>2, Parts, MovesStep DEF RetryLater, KvKeep

LEMMA RetryStep ==
    ASSUME HandlesInv, NEW t \in Tasks, Retry(t), ops' <= MaxOps
    PROVE  Kept
<1>0. handle.made
  BY Parts DEF Retry
<1>1. CASE Valid
  <2>1. "read" \in Operations
    BY DEF Operations
  <2>2. Request(t, handle, "read", "in") /\ UNCHANGED <<ctx, session, kind, resource>>
    BY <1>1 DEF Retry, KvKeep
  <2>3. QED
    BY <1>0, <1>1, <2>1, <2>2, Parts, OperationStep
<1>2. CASE ~Valid
  <2>1. \E ok \in BOOLEAN : Ended(t, ok)
    BY <1>2 DEF Retry, Raised
  <2>2. /\ handle' \in HandleType /\ handle'.made = handle.made /\ handle'.at = handle.at
        /\ handle'.finished = handle.finished /\ handle'.closed = handle.closed
    BY <1>2, Parts DEF Retry, HandleType
  <2>3. QED
    BY <1>2, <2>1, <2>2, Parts, EndsStep DEF Retry, KvKeep
<1>3. QED
  BY <1>1, <1>2

\* The begin is sent.
LEMMA BeginStep ==
    ASSUME HandlesInv, NEW t \in Tasks, MayBegin, Request(t, handle, "begin", "in"),
           UNCHANGED <<session, kind, resource>>, ops' <= MaxOps,
           ctx' \in ContextType, ctx'.has => handle.made
    PROVE  Kept
BY Parts, RequestStep

LEMMA LeftStep ==
    ASSUME HandlesInv, NEW t \in Tasks, NEW quiet \in BOOLEAN, Left(t, quiet),
           UNCHANGED <<session, kind, resource, handle, wire, ops>>,
           ctx' \in ContextType, ctx'.has => handle.made
    PROVE  Kept
<1> DEFINE k == Out(task[t], quiet)
<1>1. k \in TaskType /\ k.pc = "left"
  BY Parts, TaskTypes
<1>2. task' = [task EXCEPT ![t] = k]
  BY Parts DEF Left
<1> HIDE DEF k
<1>3. QED
  BY <1>1, <1>2, MovesStep

LEMMA StartingStep ==
    ASSUME HandlesInv, NEW t \in Tasks, Starting(t), KvKeep, ops' <= MaxOps
    PROVE  Kept
<1>1. CASE Left(t, FALSE) /\ UNCHANGED <<ctx, handle, wire, ops>>
  BY <1>1, Parts, LeftStep DEF KvKeep
<1>2. CASE /\ ctx.has /\ task' = [task EXCEPT ![t].pc = "in"]
           /\ UNCHANGED <<ctx, handle, wire, ops>>
  <2> DEFINE k == [task[t] EXCEPT !.pc = "in"]
  <2>1. k \in TaskType /\ k.pc = "in" /\ task' = [task EXCEPT ![t] = k]
    BY <1>2, Parts DEF TaskType
  <2> HIDE DEF k
  <2>2. QED
    BY <1>2, <2>1, Parts, MovesStep DEF KvKeep
<1>3. CASE MayBegin /\ Request(t, handle, "begin", "in") /\ ctx' = [ctx EXCEPT !.lock = t]
  <2>1. ctx' \in ContextType /\ ctx'.has = ctx.has
    BY <1>3, Parts, ContextTypes
  <2>2. UNCHANGED <<session, kind, resource>>
    BY DEF KvKeep
  <2>3. QED
    BY <1>3, <2>1, <2>2, Parts, BeginStep
<1>4. QED
  BY <1>1, <1>2, <1>3 DEF Starting

LEMMA EnterStep ==
    ASSUME HandlesInv, NEW t \in Tasks, Enter(t) \/ StartLocked(t), ops' <= MaxOps
    PROVE  Kept
<1>1. CASE Starting(t) /\ KvKeep
  BY <1>1, StartingStep
<1>2. CASE /\ task' = [task EXCEPT ![t].pc = "starting"]
           /\ UNCHANGED <<ctx, handle, wire, ops>> /\ KvKeep
  <2> DEFINE k == [task[t] EXCEPT !.pc = "starting"]
  <2>1. k \in TaskType /\ k.pc = "starting" /\ task' = [task EXCEPT ![t] = k]
    BY <1>2, Parts DEF TaskType
  <2> HIDE DEF k
  <2>2. QED
    BY <1>2, <2>1, Parts, MovesStep DEF KvKeep
<1>3. QED
  BY <1>1, <1>2 DEF Enter, StartLocked

LEMMA BeginReturnsStep ==
    ASSUME HandlesInv, NEW t \in Tasks, BeginReturns(t), ops' <= MaxOps
    PROVE  Kept
<1>0. task[t].pc = "beginning" /\ KvKeep
  BY DEF BeginReturns
<1>1. CASE /\ Raised(t) /\ ctx' = Unlocked(ctx, t)
           /\ UNCHANGED <<handle, wire, ops>>
  <2>1. \E ok \in BOOLEAN : Ended(t, ok)
    BY <1>1 DEF Raised
  <2>2. QED
    BY <1>0, <1>1, <2>1, Parts, ContextTypes, EndsStep DEF KvKeep
<1>2. CASE /\ task[t].reply = "ok" /\ task' = [task EXCEPT ![t] = Back(@)]
           /\ handle' = NewHandle /\ ctx' = [ctx EXCEPT !.has = TRUE, !.lock = Nobody]
           /\ UNCHANGED <<wire, ops>>
  <2> DEFINE k == Back(task[t])
  <2>1. k \in TaskType /\ k.pc = "in" /\ task' = [task EXCEPT ![t] = k]
    BY <1>2, Parts, TaskTypes
  <2> HIDE DEF k
  <2>2. /\ task' \in [Tasks -> TaskType]
        /\ \A u \in Tasks :
              /\ task'[u].pc = "beginning" => task'[u] = task[u] /\ u # t
              /\ task'[u].pc = "locking" => task'[u].op \in Operations
    BY <2>1, Parts
  <2>3. ctx' \in ContextType
    BY <1>2, Parts, ContextTypes
  <2>4. QED
    BY <1>0, <1>2, <2>2, <2>3, MadeStep DEF Begun, KvKeep
<1>3. CASE /\ task[t].reply = "ok" /\ UNCHANGED ctx
           /\ Request(t, [Finish(NewHandle, "rollback") EXCEPT !.lock = t], "rollback", "raise")
  <2> DEFINE h == [Finish(NewHandle, "rollback") EXCEPT !.lock = t]
  <2>1. /\ resource.st # "none" /\ resource.at = generation /\ ~handle.made
        /\ \A u \in Tasks : Begun(u) => u = t
    BY <1>0, <1>3 DEF HandlesInv, GrantIsFresh, Begun
  <2>2. generation \in 1..MaxGeneration /\ ~handle.finished
    BY <2>1, Parts DEF HandlesInv, SessionTypeOK
  <2>3. /\ NewHandle \in HandleType /\ NewHandle.made /\ NewHandle.at = generation
        /\ NewHandle.finished = FALSE
    BY <2>2, Parts DEF NewHandle, HandleType
  <2>4. /\ h \in HandleType /\ h.made /\ h.at = generation
        /\ h.finished => h.closed
    BY <2>3, FinishType
  <2> HIDE DEF h
  <2>5. "rollback" \in Operations \cup {"begin"} /\ "rollback" # "begin"
    BY DEF Operations, Finishing
  <2>6. Request(t, h, "rollback", "raise") /\ UNCHANGED <<session, kind, resource>>
    BY <1>0, <1>3 DEF h, KvKeep
  <2>7. QED
    BY <1>3, <2>1, <2>2, <2>4, <2>5, <2>6, Parts, RequestStep
<1>4. QED
  BY <1>1, <1>2, <1>3 DEF BeginReturns

LEMMA ClosingStep ==
    ASSUME HandlesInv, NEW t \in Tasks, Closing(t), KvKeep, ops' <= MaxOps
    PROVE  Kept
<1>0. UNCHANGED <<session, kind, resource>>
  BY DEF KvKeep
<1>1. CASE \E quiet \in BOOLEAN :
              /\ Left(t, quiet) /\ ctx' = [ctx EXCEPT !.closed = TRUE, !.has = FALSE]
              /\ UNCHANGED <<handle, wire, ops>>
  <2> DEFINE c == [ctx EXCEPT !.closed = TRUE, !.has = FALSE]
  <2>0. ctx \in ContextType /\ ctx' = c
    BY <1>1, Parts
  <2>a. c \in ContextType
    BY <2>0, ContextTypes
  <2>b. ~c.has
    BY <2>0 DEF ContextType
  <2>1. ctx' \in ContextType /\ ~ctx'.has
    BY <2>0, <2>a, <2>b
  <2>2. QED
    BY <1>0, <1>1, <2>1, LeftStep
<1>2. CASE /\ ctx.has /\ Valid
           /\ Request(t, [Finish(handle, "rollback") EXCEPT !.lock = t], "rollback", "exit")
           /\ ctx' = [closed |-> TRUE, has |-> FALSE, lock |-> t]
  <2> DEFINE h == [Finish(handle, "rollback") EXCEPT !.lock = t]
  <2>1. /\ h \in HandleType /\ h.made = handle.made /\ h.at = handle.at
        /\ h.finished => h.closed
    BY Parts, FinishType
  <2>2. Request(t, h, "rollback", "exit")
    BY <1>2
  <2>3. "rollback" \in Operations
    BY DEF Operations, Finishing
  <2>4. ctx' \in ContextType /\ handle.made
    BY <1>2, Parts, ContextTypes
  <2> HIDE DEF h
  <2>5. QED
    BY <1>0, <1>2, <2>1, <2>2, <2>3, <2>4, OperationStep
<1>3. CASE /\ ctx.has
           /\ task' = [task EXCEPT ![t].pc = "locking", ![t].op = "rollback", ![t].then = "exit"]
           /\ ctx' = [closed |-> TRUE, has |-> FALSE, lock |-> t]
           /\ UNCHANGED <<handle, wire, ops>>
  <2> DEFINE k == [task[t] EXCEPT !.pc = "locking", !.op = "rollback", !.then = "exit"]
  <2>1. "rollback" \in Operations
    BY DEF Operations, Finishing
  <2>2. k \in TaskType /\ k.pc = "locking" /\ k.op = "rollback"
    BY <2>1, Parts, ZenonT(30) DEF TaskType
  <2>3. task' = [task EXCEPT ![t] = k]
    BY <1>3, Parts
  <2>4. ctx' \in ContextType /\ ~ctx'.has
    BY <1>3 DEF ContextType
  <2>5. UNCHANGED <<session, kind, resource, wire, ops, handle>>
    BY <1>0, <1>3
  <2> HIDE DEF k
  <2>6. /\ k.pc # "beginning" /\ k.pc # "closing"
        /\ k.pc \in {"in", "locking", "asking", "backoff"} => handle.made
        /\ k.pc = "locking" => k.op \in Operations
    BY <1>3, <2>1, <2>2, Parts
  <2>7. QED
    BY <2>2, <2>3, <2>4, <2>5, <2>6, MovesStep
<1>4. QED
  BY <1>1, <1>2, <1>3 DEF Closing

LEMMA CloseStep ==
    ASSUME HandlesInv, NEW t \in Tasks, kind = "kv", CloseContext(t) \/ CloseLocked(t),
           ops' <= MaxOps
    PROVE  Kept
<1>1. CASE Closing(t) /\ KvKeep
  BY <1>1, ClosingStep
<1>2. CASE /\ task' = [task EXCEPT ![t].pc = "closing"] /\ ctx' = [ctx EXCEPT !.closed = TRUE]
           /\ UNCHANGED <<handle, wire, ops>> /\ KvKeep
  <2> DEFINE k == [task[t] EXCEPT !.pc = "closing"]
  <2>1. k \in TaskType /\ k.pc = "closing" /\ task' = [task EXCEPT ![t] = k]
    BY <1>2, Parts DEF TaskType
  <2>2. ctx' \in ContextType /\ ctx'.has = ctx.has
    BY <1>2, Parts, ContextTypes
  <2> HIDE DEF k
  <2>3. QED
    BY <1>2, <2>1, <2>2, Parts, MovesStep DEF KvKeep
<1>3. QED
  BY <1>1, <1>2 DEF CloseContext, CloseLocked

LEMMA CancelledStep ==
    ASSUME HandlesInv, NEW t \in Tasks, Cancelled(t)
    PROVE  Kept
<1>0. UNCHANGED <<session, kind, resource, ops>> /\ wire' \subseteq wire
  BY DEF Cancelled, KvKeep, Withdrawn
<1>1. ctx' \in ContextType /\ ctx'.has = ctx.has
  BY Parts, ContextTypes DEF Cancelled
<1>2. /\ handle' \in HandleType /\ handle'.made = handle.made /\ handle'.at = handle.at
      /\ handle'.finished = handle.finished /\ handle'.closed = handle.closed
  BY Parts DEF Cancelled, HandleType
<1>3. CASE task[t].pc \in {"starting", "closing"}
  <2> DEFINE k == Out(task[t], FALSE)
  <2>1. k \in TaskType /\ k.pc = "left"
    BY Parts, TaskTypes
  <2>2. task' = [task EXCEPT ![t] = k]
    BY <1>3, Parts DEF Cancelled, Left
  <2> HIDE DEF k
  <2>3. task' \in [Tasks -> TaskType] /\ UsersHaveIt'
    BY <1>0, <1>1, <1>2, <2>1, <2>2, Parts DEF UsersHaveIt
  <2>4. \A u \in Tasks : task'[u].pc = "beginning" => task'[u] = task[u]
    BY <2>1, <2>2, Parts
  <2>5. QED
    BY <1>0, <1>1, <1>2, <2>3, <2>4, Parts, LocalStep
<1>4. CASE task[t].pc \in {"beginning", "locking", "asking", "backoff"}
  <2>1. \E ok \in BOOLEAN : Ended(t, ok)
    BY <1>4 DEF Cancelled, Raised
  <2>2. QED
    BY <1>0, <1>1, <1>2, <1>4, <2>1, Parts, EndsStep
<1>5. QED
  BY <1>3, <1>4 DEF Cancelled

LEMMA KvStep ==
    ASSUME HandlesInv, NEW t \in Tasks, KvSteps(t) \/ KvFaults(t), ops' <= MaxOps
    PROVE  Kept
BY EnterStep, BeginReturnsStep, OperationsStep, LockAcquiredStep, ReturnStep, RetryLaterStep,
   RetryStep, CloseStep, CancelledStep DEF KvSteps, KvFaults

------------------------------------------------------------------------------
(* The other handles.                                                         *)

LEMMA ObtainStep ==
    ASSUME HandlesInv, Obtain, ops' <= MaxOps
    PROVE  Kept
<1>1. Owner \in Tasks
  BY DEF Tasks
<1>2. UNCHANGED <<session, kind, ctx, resource>>
  BY DEF Obtain, Keep
<1>3. QED
  BY <1>1, <1>2, Parts, BeginStep DEF Obtain

LEMMA ObtainedStep ==
    ASSUME HandlesInv, Obtained
    PROVE  Kept
<1>0. /\ Owner \in Tasks /\ task[Owner].pc = "beginning"
      /\ UNCHANGED <<session, kind, resource, wire, ops>> /\ UNCHANGED ctx
  BY DEF Tasks, Obtained, Keep
<1>1. CASE task[Owner].reply # "ok"
  <2>1. (\E ok \in BOOLEAN : Ended(Owner, ok)) /\ UNCHANGED handle
    BY <1>1 DEF Obtained, Raised
  <2>2. QED
    BY <1>0, <2>1, Parts, EndsStep
<1>2. CASE task[Owner].reply = "ok"
  <2>1. handle' = NewHandle
    BY <1>2 DEF Obtained
  <2>2. \A u \in Tasks :
           task'[u] = IF u = Owner \/ kind = "lease" THEN Back(task[u]) ELSE task[u]
    BY <1>2 DEF Obtained
  <2>3. \A u \in Tasks : Back(task[u]) \in TaskType /\ Back(task[u]).pc = "in"
    BY Parts, TaskTypes
  <2>4. task' = [u \in Tasks |-> IF u = Owner \/ kind = "lease" THEN Back(task[u]) ELSE task[u]]
    BY <1>2 DEF Obtained
  <2>5. task' \in [Tasks -> TaskType]
    BY <2>3, <2>4, Parts
  <2>6. \A u \in Tasks :
           /\ task'[u].pc = "beginning" => task'[u] = task[u] /\ u # Owner
           /\ task'[u].pc = "locking" => task'[u].op \in Operations
    BY <2>2, <2>3, Parts
  <2>7. QED
    BY <1>0, <1>2, <2>1, <2>5, <2>6, Parts, MadeStep DEF Begun
<1>3. QED
  BY <1>1, <1>2

LEMMA ShareStep ==
    ASSUME HandlesInv, Share
    PROVE  Kept
<1> DEFINE k == [task[Other] EXCEPT !.pc = "in"]
<1>1. /\ Other \in Tasks /\ handle.made /\ UNCHANGED <<session, kind, ctx, resource>>
      /\ UNCHANGED <<handle, wire, ops>>
  BY DEF Tasks, Share, Keep
<1>2. k \in TaskType /\ k.pc = "in" /\ task' = [task EXCEPT ![Other] = k]
  BY <1>1, Parts DEF Share, TaskType
<1> HIDE DEF k
<1>3. QED
  BY <1>1, <1>2, Parts, MovesStep

LEMMA CallStep ==
    ASSUME HandlesInv, NEW t \in Tasks, NEW k, NEW op \in Operations, Call(t, k, op),
           ops' <= MaxOps
    PROVE  Kept
<1>1. handle.made /\ Valid /\ Request(t, handle, op, "in")
  BY Parts DEF Call
<1>2. UNCHANGED <<session, kind, resource>> /\ UNCHANGED ctx
  BY DEF Call, Keep
<1>3. QED
  BY <1>1, <1>2, Parts, OperationStep

LEMMA ReturnedStep ==
    ASSUME HandlesInv, NEW t \in Tasks, NEW k, NEW op, NEW h \in HandleType,
           h.made = handle.made, h.at = handle.at,
           h.finished => h.closed /\ (handle.finished \/ handle.made),
           Returned(t, k, op, h)
    PROVE  Kept
<1>1. /\ task[t].pc = "asking" /\ \E ok \in BOOLEAN : Ended(t, ok)
      /\ handle' \in {h, handle}
  BY DEF Returned
<1>2. UNCHANGED <<session, kind, resource, wire, ops>> /\ UNCHANGED ctx
  BY DEF Returned, Keep
<1>3. /\ handle' \in HandleType /\ handle'.made = handle.made /\ handle'.at = handle.at
      /\ handle'.finished => handle'.closed /\ (handle.finished \/ handle.made)
  BY <1>1, Parts
<1>4. QED
  BY <1>1, <1>2, <1>3, Parts, EndsStep

\* The handles that the operations leave.
LEMMA ReturnedHandles ==
    ASSUME HandlesInv, NEW t \in Tasks
    PROVE  /\ Closed \in HandleType /\ Closed.made = handle.made /\ Closed.at = handle.at
           /\ Closed.closed
           /\ LET g == [handle EXCEPT !.token = task[t].token]
              IN  /\ g \in HandleType /\ g.made = handle.made /\ g.at = handle.at
                  /\ g.finished = handle.finished /\ g.closed = handle.closed
BY Parts DEF Closed, HandleType, TaskType

\* After an answer the user of the handle has it.
LEMMA ReturnedMade ==
    ASSUME HandlesInv, NEW t \in Tasks, NEW k, NEW op, NEW h, Returned(t, k, op, h)
    PROVE  handle.made
BY Parts DEF Returned

LEMMA UsesStep ==
    ASSUME HandlesInv, NEW t \in Tasks, ops' <= MaxOps,
           \/ StreamAppend(t) \/ StreamCommit(t) \/ StreamRollback(t)
           \/ ItemExtend(t) \/ Complete(t) \/ Nack(t)
    PROVE  Kept
<1>0. {"write", "extend", "commit", "rollback"} \subseteq Operations
  BY DEF Operations, Finishing
<1>1. CASE \E k \in Kinds : \E op \in {"write", "extend", "commit", "rollback"} : Call(t, k, op)
  BY <1>0, <1>1, CallStep
<1>2. CASE \E k \in Kinds : \E op \in Operations : Returned(t, k, op, handle)
  BY <1>2, Parts, ReturnedStep
<1>3. CASE \E k \in Kinds : \E op \in Operations : Returned(t, k, op, Closed)
  BY <1>3, ReturnedHandles, ReturnedMade, ReturnedStep
<1>4. {"stream", "item"} \subseteq Kinds
  BY DEF Kinds
<1>5. QED
  BY <1>0, <1>1, <1>2, <1>3, <1>4
     DEF StreamAppend, StreamCommit, StreamRollback, ItemExtend, Complete, Nack

LEMMA LeaseStep ==
    ASSUME HandlesInv, ops' <= MaxOps, LeaseExtend \/ Release
    PROVE  Kept
<1> DEFINE g == [handle EXCEPT !.token = task[Owner].token]
<1>0. {"extend", "commit"} \subseteq Operations /\ Owner \in Tasks
  BY DEF Operations, Finishing, Tasks
<1>1. CASE \E op \in {"extend", "commit"} : Call(Owner, "lease", op)
  BY <1>0, <1>1, CallStep
<1>2. CASE Returned(Owner, "lease", "extend", g)
  <2>1. /\ g \in HandleType /\ g.made = handle.made /\ g.at = handle.at
        /\ g.finished => g.closed /\ (handle.finished \/ handle.made)
    BY <1>0, Parts, ReturnedHandles
  <2> HIDE DEF g
  <2>2. QED
    BY <1>0, <1>2, <2>1, ReturnedStep
<1>3. CASE Returned(Owner, "lease", "commit", Closed)
  BY <1>0, <1>3, ReturnedHandles, ReturnedMade, ReturnedStep
<1>4. QED
  BY <1>1, <1>2, <1>3 DEF LeaseExtend, Release

LEMMA RenewalStep ==
    ASSUME HandlesInv, ops' <= MaxOps, Renewal
    PROVE  Kept
<1> DEFINE g == [handle EXCEPT !.token = task[Other].token]
<1>0. "extend" \in Operations /\ Other \in Tasks
  BY DEF Operations, Tasks
<1>1. CASE Call(Other, "lease", "extend")
  BY <1>0, <1>1, CallStep
<1>2. CASE Left(Other, FALSE) /\ UNCHANGED <<handle, wire, ops>> /\ Keep
  BY <1>0, <1>2, Parts, LeftStep DEF Keep
<1>3. CASE /\ task[Other].pc = "asking" /\ Ended(Other, TRUE) /\ handle' = g
           /\ UNCHANGED <<wire, ops>> /\ Keep
  <2>1. /\ handle' \in HandleType /\ handle'.made = handle.made /\ handle'.at = handle.at
        /\ handle'.finished => handle'.closed /\ (handle.finished \/ handle.made)
    BY <1>0, <1>3, Parts, ReturnedHandles
  <2>2. UNCHANGED <<session, kind, resource, wire, ops>> /\ UNCHANGED ctx
    BY <1>3 DEF Keep
  <2>3. QED
    BY <1>0, <1>3, <2>1, <2>2, Parts, EndsStep
<1>4. QED
  BY <1>1, <1>2, <1>3 DEF Renewal

\* An exit, without a request or with one on the valid handle.
LEMMA ExitStep ==
    ASSUME HandlesInv, NEW t \in Tasks, ops' <= MaxOps, handle.made, Keep,
           \/ (\E quiet \in BOOLEAN : Left(t, quiet)) /\ UNCHANGED <<handle, wire, ops>>
           \/ /\ Valid
              /\ \E op \in Finishing : \E then \in {"exit", "raise"} :
                    Request(t, handle, op, then)
    PROVE  Kept
<1>0. UNCHANGED <<session, kind, resource>> /\ UNCHANGED ctx
  BY DEF Keep
<1>1. CASE (\E quiet \in BOOLEAN : Left(t, quiet)) /\ UNCHANGED <<handle, wire, ops>>
  BY <1>0, <1>1, Parts, LeftStep
<1>2. CASE Valid /\ \E op \in Finishing : \E then \in {"exit", "raise"} :
                       Request(t, handle, op, then)
  <2>1. Finishing \subseteq Operations
    BY DEF Operations
  <2>2. QED
    BY <1>0, <1>2, <2>1, Parts, OperationStep
<1>3. QED
  BY <1>1, <1>2

LEMMA StreamExitStep ==
    ASSUME HandlesInv, ops' <= MaxOps, StreamExit
    PROVE  Kept
<1>1. Owner \in Tasks /\ "rollback" \in Finishing
  BY DEF Tasks, Finishing
<1>2. handle.made
  BY <1>1, Parts DEF StreamExit
<1>3. QED
  BY <1>1, <1>2, ExitStep DEF StreamExit

LEMMA LeaseExitStep ==
    ASSUME HandlesInv, LeaseExit
    PROVE  Kept
<1>0. /\ {Owner, Other} \subseteq Tasks /\ Owner # Other /\ handle.made
      /\ UNCHANGED <<session, kind, resource, handle, ops>> /\ UNCHANGED ctx
      /\ wire' \subseteq wire
  BY HandleBaseAssumption, Parts DEF Tasks, LeaseExit, Keep, Withdrawn
<1> DEFINE quiet == task[Other].pc # "left"
           k == [task[Owner] EXCEPT !.pc = "closing"]
           j == Out(task[Other], quiet)
<1>1. /\ k \in TaskType /\ k.pc = "closing"
      /\ j \in TaskType /\ j.pc = "left"
  <2>1. quiet \in BOOLEAN
    OBVIOUS
  <2>2. j \in TaskType /\ j.pc = "left"
    BY <1>0, <2>1, Parts, TaskTypes
  <2>3. k \in TaskType /\ k.pc = "closing"
    BY <1>0, Parts DEF TaskType
  <2>4. QED
    BY <2>2, <2>3
<1>2. task' = [task EXCEPT ![Owner] = k, ![Other] = j]
  BY <1>0, Parts DEF LeaseExit
<1> HIDE DEF k, j
<1>3. task' \in [Tasks -> TaskType]
  BY <1>0, <1>1, <1>2, Parts
<1>4. \A u \in Tasks : task'[u] \in {k, j} \/ task'[u] = task[u]
  BY <1>2, Parts
<1>5. UsersHaveIt'
  BY <1>0, <1>1, <1>4, Parts DEF UsersHaveIt
<1>6. \A u \in Tasks : task'[u].pc = "beginning" => task'[u] = task[u]
  BY <1>1, <1>4
<1>7. QED
  BY <1>0, <1>3, <1>5, <1>6, Parts, LocalStep

LEMMA LeaseExitReleasesStep ==
    ASSUME HandlesInv, ops' <= MaxOps, LeaseExitReleases
    PROVE  Kept
<1>1. Owner \in Tasks /\ "commit" \in Finishing
  BY DEF Tasks, Finishing
<1>2. handle.made
  BY <1>1, Parts DEF LeaseExitReleases
<1>3. task[Other].quiet \in BOOLEAN
  BY Parts DEF Tasks, TaskType
<1>4. QED
  BY <1>1, <1>2, <1>3, ExitStep DEF LeaseExitReleases

LEMMA TaskCancelledStep ==
    ASSUME HandlesInv, NEW t \in Tasks, TaskCancelled(t)
    PROVE  Kept
<1>1. /\ task[t].pc \in {"beginning", "asking"} /\ \E ok \in BOOLEAN : Ended(t, ok)
      /\ UNCHANGED <<session, kind, resource, ops>> /\ UNCHANGED <<ctx, handle>>
      /\ wire' \subseteq wire
  BY DEF TaskCancelled, Raised, Keep, Withdrawn
<1>2. QED
  BY <1>1, Parts, EndsStep

LEMMA OtherStep ==
    ASSUME HandlesInv, OtherSteps, ops' <= MaxOps
    PROVE  Kept
BY ObtainStep, ObtainedStep, ShareStep, UsesStep, LeaseStep, RenewalStep, StreamExitStep,
   LeaseExitStep, LeaseExitReleasesStep DEF OtherSteps

------------------------------------------------------------------------------
(* The broker.                                                                *)

\* An answer leaves the tasks as they were but for one reply.
LEMMA ReplyTypes ==
    ASSUME HandlesInv, NEW r \in wire,
           NEW reply \in {"ok", "refused", "retryable"}, NEW token \in 0..MaxOps,
           Reply(r, reply, token)
    PROVE  /\ task' \in [Tasks -> TaskType] /\ wire' = wire \ {r}
           /\ UNCHANGED <<kind, ctx, handle, ops>>
           /\ \A u \in Tasks : /\ task'[u].pc = task[u].pc /\ task'[u].op = task[u].op
                               /\ task'[u].req \in {task[u].req, 0}
                               /\ task'[u].reply \in {task[u].reply, reply}
                               /\ task'[u] = task[u] \/ (u = r.by /\ task[u].req = r.id)
<1>0. r.by \in Tasks /\ r \in Frame
  BY DEF HandlesInv, HandlesTypeOK, Frame
<1>a. 0 \in 0..MaxOps
  BY HandleBaseAssumption
<1> DEFINE k == [task[r.by] EXCEPT !.req = 0, !.reply = reply, !.token = token]
<1>1. /\ k \in TaskType /\ k.pc = task[r.by].pc /\ k.op = task[r.by].op
      /\ k.req = 0 /\ k.reply = reply
  BY <1>0, <1>a, Parts, ZenonT(30) DEF TaskType
<1>2. task' = IF task[r.by].req # r.id THEN task ELSE [task EXCEPT ![r.by] = k]
  BY <1>0, Parts DEF Reply
<1> HIDE DEF k
<1>3. QED
  BY <1>0, <1>1, <1>2, Parts DEF Reply

\* An answer to another request than the begin.
LEMMA AnswerStep ==
    ASSUME HandlesInv, NEW r \in wire, UNCHANGED session,
           NEW reply \in {"ok", "refused", "retryable"}, NEW token \in 0..MaxOps,
           Reply(r, reply, token), reply = "ok" => r.op # "begin",
           resource' \in GrantType, resource'.at = resource.at,
           resource'.st # resource.st => r.op # "begin" /\ resource'.st = "over"
    PROVE  Kept
<1>0. /\ task' \in [Tasks -> TaskType] /\ wire' = wire \ {r}
      /\ UNCHANGED <<kind, ctx, handle, ops>>
      /\ \A u \in Tasks : /\ task'[u].pc = task[u].pc /\ task'[u].op = task[u].op
                          /\ task'[u].req \in {task[u].req, 0}
                          /\ task'[u].reply \in {task[u].reply, reply}
                          /\ task'[u] = task[u] \/ (u = r.by /\ task[u].req = r.id)
  BY ReplyTypes
<1>1. SessionTypeOK' /\ HandlesTypeOK'
  BY <1>0 DEF HandlesInv, SessionTypeOK, HandlesTypeOK, session
<1>2. UsersHaveIt'
  BY <1>0 DEF HandlesInv, UsersHaveIt
<1>3. resource'.st # resource.st => handle.made /\ resource.st # "none"
  BY DEF HandlesInv, WireOfHandle, OneGrant
<1>4. OneGrant'
  BY <1>0, <1>3 DEF HandlesInv, OneGrant
<1>5. GrantIsFresh'
  <2>1. ASSUME NEW u \in Tasks, Begun(u)' PROVE Begun(u)
    BY <1>0, <2>1 DEF Begun, HandlesInv, WireOfHandle
  <2>2. QED
    BY <1>0, <1>3, <2>1 DEF HandlesInv, GrantIsFresh, session
<1>6. WireOfHandle'
  <2>1. \A f \in wire : f.by \in Tasks /\ f.id # 0
    BY DEF HandlesInv, HandlesTypeOK, Frame
  <2>2. QED
    BY <1>0, <2>1 DEF HandlesInv, WireOfHandle, Online, session
<1>7. FinishedIsClosed'
  BY <1>0 DEF HandlesInv, FinishedIsClosed
<1>8. QED
  BY <1>0, <1>1, <1>2, <1>4, <1>5, <1>6, <1>7 DEF HandlesInv, Kept

LEMMA GrantsStep ==
    ASSUME HandlesInv, NEW r \in wire, Grants(r), UNCHANGED session
    PROVE  Kept
<1>a. 0 \in 0..MaxOps
  BY HandleBaseAssumption
<1>0. /\ task' \in [Tasks -> TaskType] /\ wire' = wire \ {r}
      /\ UNCHANGED <<kind, ctx, handle, ops>>
      /\ \A u \in Tasks : /\ task'[u].pc = task[u].pc /\ task'[u].op = task[u].op
                          /\ task'[u].req \in {task[u].req, 0}
                          /\ task'[u].reply \in {task[u].reply, "ok"}
                          /\ task'[u] = task[u] \/ (u = r.by /\ task[u].req = r.id)
  BY <1>a, ReplyTypes DEF Grants
<1>1. /\ r.op = "begin" /\ resource.st = "none" /\ ~handle.made
      /\ \A u \in Tasks : ~Begun(u)
  BY DEF Grants, HandlesInv, OneGrant, GrantIsFresh
<1>2. resource' \in GrantType /\ resource'.st = "open" /\ resource'.at = generation
  BY DEF Grants, HandlesInv, HandlesTypeOK, SessionTypeOK, GrantType
<1>3. SessionTypeOK' /\ HandlesTypeOK'
  BY <1>0, <1>2 DEF HandlesInv, SessionTypeOK, HandlesTypeOK, session
<1>4. UsersHaveIt'
  BY <1>0 DEF HandlesInv, UsersHaveIt
<1>5. OneGrant'
  BY <1>0, <1>1, <1>2 DEF HandlesInv, OneGrant
<1>6. GrantIsFresh'
  <2>1. ASSUME NEW u \in Tasks, Begun(u)' PROVE u = r.by
    BY <1>0, <1>1, <2>1 DEF Begun
  <2>2. QED
    BY <1>0, <1>1, <1>2, <2>1 DEF GrantIsFresh, session
<1>7. WireOfHandle'
  <2>1. \A f \in wire : f.by \in Tasks /\ f.id # 0
    BY DEF HandlesInv, HandlesTypeOK, Frame
  <2>2. QED
    BY <1>0, <2>1 DEF HandlesInv, WireOfHandle, Online, session
<1>8. QED
  BY <1>0, <1>3, <1>4, <1>5, <1>6, <1>7 DEF HandlesInv, Kept, FinishedIsClosed

LEMMA BrokerStep ==
    ASSUME HandlesInv, Broker \/ BrokerFaults
    PROVE  Kept
<1>0. /\ resource \in GrantType /\ 0 \in 0..MaxOps
      /\ \A r \in wire : r.id \in 0..MaxOps
  BY HandleBaseAssumption DEF HandlesInv, HandlesTypeOK, Frame
<1>1. ASSUME NEW r \in wire, Does(r), UNCHANGED session PROVE Kept
  <2> DEFINE next == IF kind = "lease" /\ r.op = "extend" THEN r.id ELSE resource.token
  <2>1. next \in 0..MaxOps
    BY <1>0 DEF GrantType
  <2>2. /\ Reply(r, "ok", next) /\ r.op # "begin"
        /\ resource' = [resource EXCEPT !.st = IF r.op \in Finishing THEN "over" ELSE @,
                                        !.token = next]
    BY <1>1 DEF Does
  <2> HIDE DEF next
  <2>3. /\ resource' \in GrantType /\ resource'.at = resource.at
        /\ resource'.st \in {resource.st, "over"}
    BY <1>0, <2>1, <2>2 DEF GrantType
  <2>4. QED
    BY <1>1, <2>1, <2>2, <2>3, AnswerStep
<1>2. ASSUME NEW r \in wire, Rejects(r), UNCHANGED session PROVE Kept
  BY <1>0, <1>2, AnswerStep DEF Rejects
<1>3. ASSUME NEW r \in wire, Fails(r), UNCHANGED session PROVE Kept
  <2>1. PICK e \in {"refused", "retryable"} : Reply(r, e, 0)
    BY <1>3 DEF Fails
  <2>2. /\ resource' \in GrantType /\ resource'.at = resource.at
        /\ resource'.st # resource.st => r.op # "begin" /\ resource'.st = "over"
    BY <1>0, <1>3 DEF Fails, GrantType, Finishing
  <2>3. QED
    BY <1>0, <1>3, <2>1, <2>2, AnswerStep
<1>4. QED
  BY <1>1, <1>2, <1>3, GrantsStep DEF Broker, BrokerFaults

------------------------------------------------------------------------------
(* The session.                                                               *)

LEMMA LostStep ==
    ASSUME HandlesInv, Lose \/ Close, HandlesLost
    PROVE  Kept
<1>0. /\ wire' = {} /\ UNCHANGED <<kind, ctx, handle, ops>> /\ UNCHANGED generation
      /\ mode' \in {"lost", "closing"}
  BY DEF HandlesLost, Lose, Close
<1>1. PICK e \in [Tasks -> {"lost", "retryable"}] :
          task' = [t \in Tasks |-> IF task[t].req = 0 THEN task[t]
                                   ELSE [task[t] EXCEPT !.req = 0, !.reply = e[t]]]
  BY DEF HandlesLost
<1>2. /\ task' \in [Tasks -> TaskType]
      /\ \A u \in Tasks : /\ task'[u].pc = task[u].pc /\ task'[u].op = task[u].op
                          /\ task'[u].reply \in {task[u].reply, "lost", "retryable"}
  <2>1. 0 \in 0..MaxOps
    BY HandleBaseAssumption
  <2>2. ASSUME NEW u \in Tasks
        PROVE  LET k == [task[u] EXCEPT !.req = 0, !.reply = e[u]]
               IN  /\ k \in TaskType /\ k.pc = task[u].pc /\ k.op = task[u].op
                   /\ k.reply \in {"lost", "retryable"}
    BY <2>1, Parts, ZenonT(30) DEF TaskType
  <2>3. QED
    BY <1>1, <2>2, Parts
<1>3. /\ resource' \in GrantType /\ resource'.at = resource.at
      /\ resource.st # "none" => resource'.st # "none"
  BY DEF HandlesLost, HandlesInv, HandlesTypeOK, GrantType
<1>4. SessionTypeOK' /\ HandlesTypeOK'
  BY <1>0, <1>2, <1>3 DEF HandlesInv, SessionTypeOK, HandlesTypeOK
<1>5. UsersHaveIt'
  BY <1>0, <1>2 DEF HandlesInv, UsersHaveIt
<1>6. OneGrant'
  BY <1>0, <1>3 DEF HandlesInv, OneGrant
<1>7. GrantIsFresh'
  BY <1>0, <1>2, <1>3 DEF HandlesInv, GrantIsFresh, Begun
<1>8. QED
  BY <1>0, <1>4, <1>5, <1>6, <1>7 DEF HandlesInv, Kept, WireOfHandle, FinishedIsClosed

LEMMA DisconnectedStep ==
    ASSUME HandlesInv, Disconnected
    PROVE  Kept
<1>0. /\ UNCHANGED <<kind, task, ctx, resource, wire, ops>> /\ UNCHANGED generation
      /\ mode' \in {"down", "closed"} /\ mode \in {"lost", "closing"}
  BY DEF Disconnected, Notified, HandlesDisconnected
<1>1. /\ handle' \in HandleType /\ handle'.made = handle.made /\ handle'.at = handle.at
      /\ handle'.finished = handle.finished
      /\ handle.closed => handle'.closed
  BY Parts DEF Disconnected, HandlesDisconnected, HandleType
<1>2. SessionTypeOK' /\ HandlesTypeOK'
  BY <1>0, <1>1 DEF HandlesInv, SessionTypeOK, HandlesTypeOK
<1>3. UsersHaveIt' /\ OneGrant' /\ GrantIsFresh'
  BY <1>0, <1>1 DEF HandlesInv, UsersHaveIt, OneGrant, GrantIsFresh, Begun
<1>4. wire = {}
  BY <1>0 DEF HandlesInv, WireOfHandle, Online
<1>5. WireOfHandle' /\ FinishedIsClosed'
  BY <1>0, <1>1, <1>4 DEF HandlesInv, WireOfHandle, FinishedIsClosed
<1>6. QED
  BY <1>0, <1>2, <1>3, <1>5 DEF HandlesInv, Kept

LEMMA ReconnectedStep ==
    ASSUME HandlesInv, Reconnected
    PROVE  Kept
<1>0. /\ UNCHANGED <<kind, task, ctx, handle, resource, wire, ops>>
      /\ mode = "down" /\ mode' = "restoring" /\ generation' = generation + 1
      /\ generation < MaxGeneration /\ ~Resumable
  BY DEF Reconnected, Reconnect, handleVars
<1>1. SessionTypeOK' /\ HandlesTypeOK'
  BY <1>0, SessionAssumption DEF HandlesInv, SessionTypeOK, HandlesTypeOK
<1>2. UsersHaveIt' /\ OneGrant'
  BY <1>0 DEF HandlesInv, UsersHaveIt, OneGrant
<1>3. GrantIsFresh'
  BY <1>0 DEF GrantIsFresh, Begun, Resumable, Answered
<1>4. wire = {}
  BY <1>0 DEF HandlesInv, WireOfHandle, Online
<1>5. WireOfHandle' /\ FinishedIsClosed'
  BY <1>0, <1>4 DEF HandlesInv, WireOfHandle, FinishedIsClosed
<1>6. QED
  BY <1>0, <1>1, <1>2, <1>3, <1>5 DEF HandlesInv, Kept

LEMMA RestoredStep ==
    ASSUME HandlesInv, Restored
    PROVE  Kept
<1>0. /\ UNCHANGED <<kind, task, ctx, handle, resource, wire, ops>>
      /\ mode = "restoring" /\ mode' = "up" /\ UNCHANGED generation
  BY DEF Restored, handleVars
<1>1. SessionTypeOK' /\ HandlesTypeOK'
  BY <1>0 DEF HandlesInv, SessionTypeOK, HandlesTypeOK
<1>2. UsersHaveIt' /\ OneGrant' /\ GrantIsFresh'
  BY <1>0 DEF HandlesInv, UsersHaveIt, OneGrant, GrantIsFresh, Begun
<1>3. WireOfHandle' /\ FinishedIsClosed'
  BY <1>0 DEF HandlesInv, WireOfHandle, FinishedIsClosed, Online
<1>4. QED
  BY <1>0, <1>1, <1>2, <1>3 DEF HandlesInv, Kept

\* What the gate held goes out.
LEMMA AdmittedFrame ==
    ASSUME HandlesInv, NEW r \in Held, NEW f, f = [r EXCEPT !.sent = TRUE]
    PROVE  r \in wire /\ f \in Frame /\ f.id = r.id /\ f.by = r.by /\ f.op = r.op /\ f.sent
BY DEF HandlesInv, HandlesTypeOK, Frame, Held

LEMMA AdmittedStep ==
    ASSUME HandlesInv, Admitted
    PROVE  Kept
<1>0. UNCHANGED <<kind, task, ctx, handle, resource, ops>> /\ UNCHANGED session
  BY DEF Admitted
<1>1. PICK r \in Held : wire' = (wire \ {r}) \cup {[r EXCEPT !.sent = TRUE]}
  BY DEF Admitted
<1> DEFINE f == [r EXCEPT !.sent = TRUE]
<1>2. r \in wire /\ f \in Frame /\ f.id = r.id /\ f.by = r.by /\ f.op = r.op
  BY AdmittedFrame
<1>3. wire' = (wire \ {r}) \cup {f} /\ \A g \in wire' : g \in wire \/ g = f
  BY <1>1
<1>a. \A g \in wire' \ wire : \E s \in Held : g = [s EXCEPT !.sent = TRUE]
  BY <1>1
<1> HIDE DEF f
<1>4. SessionTypeOK' /\ HandlesTypeOK'
  BY <1>0, <1>2, <1>3 DEF HandlesInv, SessionTypeOK, HandlesTypeOK, session
<1>5. UsersHaveIt' /\ GrantIsFresh' /\ FinishedIsClosed'
  BY <1>0 DEF HandlesInv, UsersHaveIt, GrantIsFresh, Begun, FinishedIsClosed, session
<1>6. OneGrant'
  BY <1>0, <1>2, <1>3 DEF HandlesInv, OneGrant
<1>7. WireOfHandle'
  BY <1>0, <1>2, <1>3 DEF HandlesInv, WireOfHandle, Online, session
<1>8. QED
  BY <1>a, <1>4, <1>5, <1>6, <1>7 DEF HandlesInv, Kept

LEMMA NextKeeps ==
    ASSUME HandlesInv, Next
    PROVE  Kept
<1>1. ops' <= MaxOps
  BY DEF Next
<1>2. CASE Step
  BY <1>1, <1>2, KvStep, OtherStep, AdmittedStep, BrokerStep, DisconnectedStep, ReconnectedStep,
     RestoredStep DEF Step
<1>3. CASE Fault
  BY <1>1, <1>3, KvStep, TaskCancelledStep, BrokerStep, LostStep DEF Fault
<1>4. QED
  BY <1>2, <1>3 DEF Next

LEMMA StutterKeeps ==
    ASSUME HandlesInv, UNCHANGED vars
    PROVE  Kept
<1>1. UNCHANGED <<session, kind, resource, wire, ops>> /\ UNCHANGED <<task, ctx, handle>>
  BY DEF vars, handleVars
<1>2. UsersHaveIt'
  BY <1>1 DEF HandlesInv, UsersHaveIt
<1>3. QED
  BY <1>1, <1>2, Parts, LocalStep

LEMMA Invariance == Spec => []HandlesInv
<1>1. HandlesInv /\ [Next]_vars => HandlesInv'
  BY NextKeeps, StutterKeeps DEF Kept
<1>2. QED
  BY <1>1, InvInit, PTL DEF Spec

------------------------------------------------------------------------------
(* What an exit leaves behind.  The grant that is open is one of this         *)
(* session; whatever the exits rely on to have ended it has ended it, or an   *)
(* operation of a task that is still at work will.                            *)

OpenIsCurrent == resource.st = "open" => Online /\ resource.at = generation

ClosedIsMade == handle.closed => handle.made

\* Only a request that may still be answered is awaited.
AsksInTime ==
    \A t \in Tasks :
        task[t].req # 0 => task[t].pc \in {"beginning", "asking"} /\ task[t].reply = "none"

RequestsNamed ==
    \A r \in wire :
        /\ task[r.by].req = r.id => task[r.by].op = r.op
        /\ \A s \in wire : s.id = r.id => s = r

\* The gate holds what a task awaits; what was cancelled it has let go of.
HeldIsAwaited == \A r \in Held : task[r.by].req = r.id

Asks(t) == task[t].pc = "asking" /\ task[t].op \in Finishing

\* A finishing request that succeeded has ended the grant.
OkIsOver == \A t \in Tasks : Asks(t) /\ task[t].reply = "ok" => resource.st = "over"

QuietIsLeft == \A t \in Tasks : task[t].quiet => task[t].pc = "left"

ExitFinishes ==
    \A t \in Tasks :
        task[t].pc \in {"locking", "asking"} /\ task[t].then # "in" => task[t].op \in Finishing

\* A handle that is not a transaction is closed by what ends its grant, and
\* only its owner obtains it.
OthersExit ==
    kind # "kv" =>
        /\ handle.closed => resource.st # "open"
        /\ task[Other].pc # "beginning"
        /\ task[Owner].pc = "beginning" => ~handle.made
        /\ kind = "lease" /\ ~handle.made => ~task[Other].quiet
        /\ \A t \in Tasks : task[t].quiet /\ ~(kind = "lease" /\ t = Other) =>
              handle.made /\ resource.st = "over"

\* Nothing more is to be done about the transaction.
Settled == handle.finished \/ handle.failed \/ resource.st # "open"

\* t closes the context, and waits for the lock of the transaction it took out.
TookOut(t) == task[t].pc = "locking" /\ task[t].then = "exit"

\* The start lock is held while the transaction is begun or taken out, the
\* transaction's own by the one who asks.
KvLocks ==
    kind = "kv" => \A t \in Tasks :
        /\ task[t].pc = "beginning" => ctx.lock = t
        /\ task[t].pc \in {"locking", "asking"} /\ task[t].then # "in" =>
              ctx.lock = t /\ ctx.closed
        /\ task[t].pc \in {"asking", "backoff"} => handle.lock = t
        /\ Asks(t) => handle.finished

KvFinished ==
    kind = "kv" /\ handle.finished =>
        handle.failed \/ resource.st # "open" \/ \E t \in Tasks : Asks(t)

\* Of a finished transaction the gate holds the request that finishes it at most.
KvHeld == kind = "kv" /\ handle.finished => \A r \in Held : r.op \in Finishing

KvClosed == kind = "kv" /\ handle.closed => handle.finished \/ resource.st # "open"

KvTakenOut == kind = "kv" /\ handle.made /\ ~ctx.has => Settled \/ \E t \in Tasks : TookOut(t)

KvQuiet ==
    kind = "kv" => \A t \in Tasks : task[t].quiet =>
        /\ ctx.closed
        /\ \A u \in Tasks : task[u].pc # "beginning"
        /\ handle.made => Settled

ExitInv ==
    /\ OpenIsCurrent /\ ClosedIsMade /\ AsksInTime /\ RequestsNamed /\ HeldIsAwaited
    /\ OkIsOver /\ QuietIsLeft /\ ExitFinishes
    /\ OthersExit
    /\ KvLocks /\ KvFinished /\ KvHeld /\ KvClosed /\ KvTakenOut /\ KvQuiet

LEMMA ExitInit == Init => ExitInv
BY HandleBaseAssumption
   DEF Init, SessionInit, HandlesInit, ExitInv, OpenIsCurrent, ClosedIsMade, AsksInTime,
       RequestsNamed, HeldIsAwaited, Held, OkIsOver, Asks, QuietIsLeft, ExitFinishes, OthersExit,
       Settled, KvLocks, KvFinished, KvHeld, KvClosed, KvTakenOut, TookOut, KvQuiet, Tasks

\* A step after which the gate holds nothing of t.
Rests(t) == wire' \subseteq wire /\ \A r \in wire' : r.by = t => r.sent

\* A step of t alone: what it leaves asked is the request it makes, if any.
Moves(t) ==
    /\ \A u \in Tasks \ {t} : task'[u] = task[u]
    /\ \A r \in wire' : r.by = t /\ ~r.sent => r.id = task'[t].req
    /\ \/ wire' \subseteq wire
       \/ \E f : wire' = wire \cup {f} /\ f.id = ops + 1 /\ f.by = t /\ f.op = task'[t].op
    /\ task'[t].req # 0 =>
          /\ task'[t].req = ops + 1 /\ task'[t].reply = "none"
          /\ task'[t].pc \in {"beginning", "asking"}
    /\ task'[t].pc = "asking" => task'[t].reply # "ok"
    /\ task'[t].quiet => task'[t].pc = "left"
    /\ task'[t].pc \in {"locking", "asking"} /\ task'[t].then # "in" => task'[t].op \in Finishing

LEMMA BackFields ==
    ASSUME NEW k \in TaskType
    PROVE  /\ Back(k).pc = "in" /\ Back(k).req = 0 /\ Back(k).reply = "none"
           /\ Back(k).quiet = k.quiet
BY DEF Back, Rested, TaskType

LEMMA OutFields ==
    ASSUME NEW k \in TaskType, NEW quiet
    PROVE  /\ Out(k, quiet).pc = "left" /\ Out(k, quiet).req = 0 /\ Out(k, quiet).reply = "none"
           /\ Out(k, quiet).quiet = quiet
BY DEF Out, Rested, TaskType

LEMMA AskedFields ==
    ASSUME NEW k \in TaskType, NEW op, NEW then, NEW fate
    PROVE  /\ Asked(k, op, then, fate).pc = IF op = "begin" THEN "beginning" ELSE "asking"
           /\ Asked(k, op, then, fate).req = IF fate \in Asking THEN ops + 1 ELSE 0
           /\ Asked(k, op, then, fate).reply # "ok"
           /\ fate \in Asking => Asked(k, op, then, fate).reply = "none"
           /\ Asked(k, op, then, fate).op = op /\ Asked(k, op, then, fate).then = then
           /\ Asked(k, op, then, fate).quiet = k.quiet
<1> DEFINE pc == IF op = "begin" THEN "beginning" ELSE "asking"
           req == IF fate \in Asking THEN ops + 1 ELSE 0
           reply == IF fate \in Asking THEN "none"
                    ELSE IF fate = "full" THEN "retryable" ELSE "lost"
           u == [k EXCEPT !.pc = pc, !.op = op, !.then = then, !.req = req, !.reply = reply]
<1>0. reply # "ok" /\ (fate \in Asking => reply = "none")
  OBVIOUS
<1> HIDE DEF pc, req, reply
<1>1. /\ u.pc = pc /\ u.req = req /\ u.reply = reply /\ u.op = op /\ u.then = then
      /\ u.quiet = k.quiet
  BY DEF TaskType
<1>2. Asked(k, op, then, fate) = u
  BY DEF Asked, pc, req, reply
<1> HIDE DEF u
<1>3. QED
  BY <1>0, <1>1, <1>2 DEF pc, req

\* The quiet have left.
LEMMA NotQuiet ==
    ASSUME ExitInv, NEW t \in Tasks, task[t].pc # "left"
    PROVE  ~task[t].quiet
BY DEF ExitInv, QuietIsLeft

\* A task that awaits nothing, or is cancelled, has nothing in the gate.
LEMMA IdleRests ==
    ASSUME HandlesInv, ExitInv, NEW t \in Tasks, task[t].req = 0, wire' = wire
    PROVE  Rests(t)
<1>1. \A r \in wire : r.id # 0
  BY DEF HandlesInv, HandlesTypeOK, Frame
<1>2. QED
  BY <1>1 DEF Rests, ExitInv, HeldIsAwaited, Held

LEMMA WithdrawnRests ==
    ASSUME NEW t, Withdrawn(t)
    PROVE  Rests(t)
BY DEF Withdrawn, Rests

LEMMA MovesBack ==
    ASSUME HandlesInv, ExitInv, NEW t \in Tasks, task[t].pc # "left", Rests(t),
           task' = [task EXCEPT ![t] = Back(@)]
    PROVE  Moves(t) /\ task'[t].pc = "in" /\ ~task'[t].quiet
<1>1. task'[t] = Back(task[t]) /\ \A u \in Tasks \ {t} : task'[u] = task[u]
  BY Parts
<1>2. QED
  BY <1>1, Parts, BackFields, NotQuiet DEF Moves, Rests

LEMMA MovesOut ==
    ASSUME HandlesInv, NEW t \in Tasks, Rests(t),
           NEW quiet, task' = [task EXCEPT ![t] = Out(@, quiet)]
    PROVE  Moves(t) /\ task'[t].pc = "left" /\ task'[t].quiet = quiet
<1>1. task'[t] = Out(task[t], quiet) /\ \A u \in Tasks \ {t} : task'[u] = task[u]
  BY Parts
<1>2. QED
  BY <1>1, Parts, OutFields DEF Moves, Rests

LEMMA MovesEnded ==
    ASSUME HandlesInv, ExitInv, NEW t \in Tasks, Rests(t), task[t].pc # "left",
           NEW ok \in BOOLEAN, Ended(t, ok)
    PROVE  /\ Moves(t) /\ task'[t].pc \in {"in", "left"}
           /\ task'[t].quiet => ok /\ task[t].then = "exit"
<1>1. CASE task[t].then = "in" /\ task[t].pc # "beginning"
  <2>1. task' = [task EXCEPT ![t] = Back(@)]
    BY <1>1, Parts DEF Ended
  <2>2. QED
    BY <2>1, MovesBack
<1>2. CASE ~(task[t].then = "in" /\ task[t].pc # "beginning")
  <2>1. task' = [task EXCEPT ![t] = Out(@, ok /\ task[t].then = "exit")]
    BY <1>2, Parts DEF Ended
  <2>2. QED
    BY <2>1, MovesOut
<1>3. QED
  BY <1>1, <1>2

LEMMA MovesAsked ==
    ASSUME HandlesInv, ExitInv, NEW t \in Tasks, task[t].pc # "left", task[t].req = 0,
           NEW h, NEW op, NEW then, Request(t, h, op, then),
           then = "in" \/ op \in Finishing
    PROVE  /\ Moves(t) /\ task'[t].op = op /\ task'[t].then = then /\ ~task'[t].quiet
           /\ task'[t].pc = IF op = "begin" THEN "beginning" ELSE "asking"
           /\ handle' = h
<1>0. PICK fate \in Fates :
          /\ task' = [task EXCEPT ![t] = Asked(@, op, then, fate)]
          /\ fate \notin Asking => wire' = wire
          /\ fate \in Asking =>
                /\ Online
                /\ \E f : /\ wire' = wire \cup {f}
                         /\ f = [id |-> ops + 1, by |-> t, op |-> op, token |-> h.token,
                                 sent |-> fate = "sent"]
  BY AskedWire
<1>1. /\ task'[t] = Asked(task[t], op, then, fate) /\ \A u \in Tasks \ {t} : task'[u] = task[u]
      /\ task[t] \in TaskType /\ ~task[t].quiet
  BY <1>0, Parts, NotQuiet
<1> DEFINE k == Asked(task[t], op, then, fate)
<1>2. /\ k.pc = IF op = "begin" THEN "beginning" ELSE "asking"
      /\ k.req = IF fate \in Asking THEN ops + 1 ELSE 0
      /\ k.reply # "ok" /\ (fate \in Asking => k.reply = "none")
      /\ k.op = op /\ k.then = then /\ ~k.quiet
  BY <1>1, AskedFields
<1>3. \/ fate \notin Asking /\ wire' = wire
      \/ /\ fate \in Asking
         /\ \E f : wire' = wire \cup {f} /\ f.id = ops + 1 /\ f.by = t /\ f.op = op
  BY <1>0
<1> HIDE DEF k
<1>4. task'[t] = k
  BY <1>1 DEF k
<1>5. \A u \in Tasks \ {t} : task'[u] = task[u]
  BY <1>1
<1>6. handle' = h
  BY DEF Request
<1>7. \A r \in wire : r.by = t => r.sent
  <2>1. \A r \in wire : r.id # 0
    BY DEF HandlesInv, HandlesTypeOK, Frame
  <2>2. QED
    BY <2>1 DEF ExitInv, HeldIsAwaited, Held
<1>8. Moves(t)
  <2>1. CASE fate \notin Asking
    BY <1>2, <1>3, <1>4, <1>5, <1>7, <2>1 DEF Moves
  <2>2. CASE fate \in Asking
    <3>1. PICK f : wire' = wire \cup {f} /\ f.id = ops + 1 /\ f.by = t /\ f.op = op
      BY <1>3, <2>2
    <3>2. \A r \in wire' : r.by = t /\ ~r.sent => r.id = k.req
      BY <1>2, <1>7, <2>2, <3>1
    <3>3. QED
      BY <1>2, <1>4, <1>5, <2>2, <3>1, <3>2 DEF Moves
  <2>3. QED
    BY <2>1, <2>2
<1>9. QED
  BY <1>2, <1>4, <1>6, <1>8

\* t goes on to where it awaits nothing.
LEMMA MovesOn ==
    ASSUME HandlesInv, ExitInv, NEW t \in Tasks, Rests(t), NEW j,
           task' = [task EXCEPT ![t] = j], j.req = 0, j.quiet = FALSE, j.pc # "asking",
           j.pc = "locking" /\ j.then # "in" => j.op \in Finishing
    PROVE  Moves(t)
BY Parts DEF Moves, Rests

LEMMA WireTyped ==
    ASSUME HandlesInv
    PROVE  \A r \in wire : r.by \in Tasks /\ r.id \in Nat /\ r.id # 0 /\ r.id <= ops /\ ops \in Nat
BY HandleBaseAssumption DEF HandlesInv, HandlesTypeOK, WireOfHandle, Frame

LEMMA CommonKept ==
    ASSUME HandlesInv, ExitInv, NEW t \in Tasks, Moves(t), UNCHANGED <<session, resource>>,
           handle'.closed => handle'.made
    PROVE  /\ OpenIsCurrent' /\ ClosedIsMade' /\ AsksInTime' /\ RequestsNamed'
           /\ HeldIsAwaited' /\ OkIsOver' /\ QuietIsLeft' /\ ExitFinishes'
<1>1. OpenIsCurrent' /\ ClosedIsMade'
  BY DEF ExitInv, OpenIsCurrent, ClosedIsMade, session, Online
<1>2. AsksInTime'
  BY DEF ExitInv, AsksInTime, Moves
<1>3. RequestsNamed'
  <2>1. ASSUME NEW r \in wire', task'[r.by].req = r.id
        PROVE  task'[r.by].op = r.op
    <3>1. CASE r \in wire
      <4>1. r.by # t
        BY <2>1, <3>1, WireTyped DEF Moves
      <4>2. QED
        BY <2>1, <3>1, <4>1, WireTyped DEF ExitInv, RequestsNamed, Moves
    <3>2. CASE r \notin wire
      BY <2>1, <3>2 DEF Moves
    <3>3. QED
      BY <3>1, <3>2
  <2>2. \A r, s \in wire' : s.id = r.id => s = r
    <3>1. \A r, s \in wire : s.id = r.id => s = r
      BY DEF ExitInv, RequestsNamed
    <3>2. \A r \in wire : r.id # ops + 1
      BY WireTyped
    <3>3. QED
      BY <3>1, <3>2 DEF Moves
  <2>3. QED
    BY <2>1, <2>2 DEF RequestsNamed
<1>a. HeldIsAwaited'
  <2>1. ASSUME NEW r \in wire', ~r.sent
        PROVE  task'[r.by].req = r.id
    <3>1. CASE r.by = t
      BY <2>1, <3>1 DEF Moves
    <3>2. CASE r.by # t
      <4>1. r \in wire
        BY <2>1, <3>2 DEF Moves
      <4>2. task[r.by].req = r.id /\ r.by \in Tasks \ {t}
        BY <2>1, <3>2, <4>1, WireTyped DEF ExitInv, HeldIsAwaited, Held
      <4>3. QED
        BY <4>2 DEF Moves
    <3>3. QED
      BY <3>1, <3>2
  <2>2. QED
    BY <2>1 DEF HeldIsAwaited, Held
<1>4. OkIsOver'
  BY DEF ExitInv, OkIsOver, Asks, Moves
<1>5. QuietIsLeft'
  BY DEF ExitInv, QuietIsLeft, Moves
<1>6. ExitFinishes'
  BY DEF ExitInv, ExitFinishes, Moves
<1>7. QED
  BY <1>1, <1>2, <1>3, <1>a, <1>4, <1>5, <1>6

\* A step of t that uses the transaction and its context as it may.
KvMoves(t) ==
    \* the locks
    /\ \A u \in Tasks \ {t} :
          /\ handle.lock = u /\ task[u].pc \in {"asking", "backoff"} => handle'.lock = u
          /\ ctx.lock = u => ctx'.lock = u
    /\ ctx.closed => ctx'.closed
    /\ task'[t].pc = "beginning" => ctx'.lock = t /\ ~ctx.closed
    /\ task'[t].pc \in {"locking", "asking"} /\ task'[t].then # "in" => ctx'.lock = t /\ ctx'.closed
    /\ task'[t].pc \in {"asking", "backoff"} => handle'.lock = t
    \* the handle
    /\ handle.made => handle'.made
    /\ handle'.made => handle.made \/ task[t].pc = "beginning"
    /\ handle.finished => handle'.finished
    /\ handle.failed => handle'.failed
    /\ handle'.finished => handle.finished \/ Asks(t)'
    /\ handle'.closed => handle.closed \/ handle'.finished
    /\ handle'.closed => handle'.made
    \* its end
    /\ Asks(t)' => handle'.finished
    /\ Asks(t) => Asks(t)' \/ handle'.failed \/ resource.st # "open"
    /\ TookOut(t) => TookOut(t)' \/ Settled'
    /\ handle'.made /\ ~ctx'.has => (handle.made /\ ~ctx.has) \/ Settled' \/ TookOut(t)'
    /\ task'[t].quiet =>
          /\ ctx'.closed
          /\ \A u \in Tasks \ {t} : task[u].pc # "beginning"
          /\ handle'.made => Settled'

LEMMA KvKept ==
    ASSUME HandlesInv, ExitInv, Kept, kind = "kv", NEW t \in Tasks, Moves(t), KvMoves(t),
           KvKeep
    PROVE  ExitInv'
<1>0. (\A u \in Tasks \ {t} : task'[u] = task[u]) /\ kind' = "kv" /\ resource' = resource
  BY DEF Moves, KvKeep
<1>1. /\ OpenIsCurrent' /\ ClosedIsMade' /\ AsksInTime' /\ RequestsNamed' /\ HeldIsAwaited'
      /\ OkIsOver' /\ QuietIsLeft' /\ ExitFinishes'
  BY CommonKept DEF KvMoves, KvKeep
<1>2. OthersExit'
  BY <1>0 DEF OthersExit
<1>3. KvLocks'
  BY <1>0 DEF ExitInv, KvLocks, KvMoves, Asks
<1>a. Settled => Settled'
  BY <1>0 DEF KvMoves, Settled
<1>4. KvFinished'
  BY <1>0 DEF ExitInv, KvFinished, KvMoves, Asks
<1>b. KvHeld'
  <2>1. ASSUME handle.finished, NEW r \in Held' PROVE r.op \in Finishing
    <3>1. r \in wire
      <4>1. SUFFICES ASSUME r \notin wire PROVE FALSE
        OBVIOUS
      <4>2. PICK s \in Held : r = [s EXCEPT !.sent = TRUE]
        BY <2>1, <4>1 DEF Kept, Held
      <4>3. r.sent
        BY <4>2, AdmittedFrame
      <4>4. QED
        BY <2>1, <4>3 DEF Held
    <3>2. QED
      BY <2>1, <3>1 DEF ExitInv, KvHeld, Held
  <2>2. ASSUME ~handle.finished, handle'.finished, NEW r \in Held' PROVE r.op \in Finishing
    <3>1. Asks(t)' /\ handle'.lock = t
      BY <2>2 DEF KvMoves, Asks
    <3>2. CASE r.by = t
      <4>1. r.id = task'[t].req
        BY <2>2, <3>2 DEF Moves, Held
      <4>2. task'[t].op = r.op
        BY <1>1, <2>2, <3>2, <4>1 DEF RequestsNamed, Held
      <4>3. QED
        BY <3>1, <4>2 DEF Asks
    <3>3. CASE r.by # t
      <4>1. r \in Held
        BY <2>2, <3>3 DEF Moves, Held
      <4>2. /\ r.by \in Tasks \ {t} /\ task[r.by].req = r.id /\ r.id # 0 /\ r \in wire
        BY <3>3, <4>1, WireTyped DEF ExitInv, HeldIsAwaited, Held
      <4>3. task[r.by].pc \in {"beginning", "asking"}
        BY <4>2 DEF ExitInv, AsksInTime
      <4>4. task[r.by].pc # "asking"
        BY <3>1, <4>2 DEF ExitInv, KvLocks, KvMoves
      <4>5. r.op = "begin"
        BY <4>2, <4>3, <4>4 DEF HandlesInv, WireOfHandle
      <4>6. resource'.st = "none" /\ resource'.st # "none"
        BY <2>2, <4>5 DEF Kept, HandlesInv, OneGrant, FinishedIsClosed, Held
      <4>7. QED
        BY <4>6
    <3>4. QED
      BY <3>2, <3>3
  <2>3. QED
    BY <2>1, <2>2 DEF KvHeld
<1>5. KvClosed'
  BY <1>0 DEF ExitInv, KvClosed, KvMoves
<1>6. KvTakenOut'
  BY <1>0, <1>a DEF ExitInv, KvTakenOut, KvMoves, TookOut
<1>7. KvQuiet'
  <2>1. ASSUME NEW u \in Tasks \ {t}, task'[u].quiet
        PROVE  /\ ctx'.closed
               /\ \A v \in Tasks : task'[v].pc # "beginning"
               /\ handle'.made => Settled'
    BY <1>0, <1>a, <2>1 DEF ExitInv, KvQuiet, KvMoves
  <2>2. ASSUME task'[t].quiet
        PROVE  /\ ctx'.closed
               /\ \A v \in Tasks : task'[v].pc # "beginning"
               /\ handle'.made => Settled'
    BY <1>0, <2>2 DEF Moves, KvMoves
  <2>3. QED
    BY <2>1, <2>2 DEF KvQuiet
<1>8. QED
  BY <1>1, <1>2, <1>3, <1>4, <1>b, <1>5, <1>6, <1>7 DEF ExitInv

------------------------------------------------------------------------------
(* The steps of the transaction.                                              *)

\* A transaction that its tasks may not use is settled.
LEMMA InvalidIsSettled ==
    ASSUME HandlesInv, ExitInv, kind = "kv", handle.made, ~Valid
    PROVE  Settled
BY DEF HandlesInv, OneGrant, ExitInv, OpenIsCurrent, KvClosed, Valid, Settled

\* What t does not hold it leaves alone.
LEMMA Unlocks ==
    ASSUME HandlesInv, NEW t \in Tasks
    PROVE  /\ \A u \in Tasks \ {t} : ctx.lock = u => Unlocked(ctx, t).lock = u
           /\ Unlocked(ctx, t).closed = ctx.closed /\ Unlocked(ctx, t).has = ctx.has
BY Parts DEF Unlocked, ContextType

\* The handle as a request leaves it.
LEMMA FinishFields ==
    ASSUME NEW h \in HandleType, NEW op, NEW t \in Tasks
    PROVE  LET g == [Finish(h, op) EXCEPT !.lock = t]
           IN  /\ g.lock = t /\ g.made = h.made /\ g.failed = h.failed
               /\ g.finished = (h.finished \/ op \in Finishing)
               /\ g.closed = (h.closed \/ op \in Finishing)
BY DEF HandleType, Finish

LEMMA ProceedMoves ==
    ASSUME HandlesInv, ExitInv, kind = "kv", NEW t \in Tasks, NEW op \in Operations, NEW then,
           task[t].pc \in {"in", "locking"}, handle.lock = Nobody,
           then # "in" => ctx.lock = t /\ ctx.closed /\ op \in Finishing,
           TookOut(t) => then = "exit",
           Proceed(t, op, then), KvKeep
    PROVE  Moves(t) /\ KvMoves(t)
<1>0. /\ handle.made /\ ~Asks(t) /\ \A u \in Tasks : Nobody # u
      /\ handle \in HandleType /\ op # "begin" /\ (then = "in" \/ op \in Finishing)
      /\ resource' = resource /\ task[t].req = 0
  BY HandleBaseAssumption, Parts
     DEF Asks, Tasks, Operations, Finishing, KvKeep, ExitInv, AsksInTime
<1>1. CASE Valid
  <2> DEFINE h == [Finish(handle, op) EXCEPT !.lock = t]
  <2>1. Request(t, h, op, then) /\ UNCHANGED ctx
    BY <1>1 DEF Proceed
  <2>2. /\ h.lock = t /\ h.made = handle.made /\ h.failed = handle.failed
        /\ h.finished = (handle.finished \/ op \in Finishing)
        /\ h.closed = (handle.closed \/ op \in Finishing)
    BY <1>0, FinishFields, ZenonT(30)
  <2> HIDE DEF h
  <2>3. /\ Moves(t) /\ task'[t].op = op /\ task'[t].then = then /\ ~task'[t].quiet
        /\ task'[t].pc = "asking" /\ handle' = h
    BY <1>0, <2>1, MovesAsked
  <2>4. QED
    BY <1>0, <2>1, <2>2, <2>3 DEF KvMoves, Asks, Settled, TookOut
<1>2. CASE ~Valid
  <2>1. Settled
    BY <1>0, <1>2, InvalidIsSettled
  <2>2. ctx' = Unlocked(ctx, t) /\ handle' = handle /\ Rests(t)
    BY <1>0, <1>2, IdleRests DEF Proceed
  <2>3. Moves(t) /\ task'[t].pc \in {"in", "left"} /\ ~task'[t].quiet
    <3>1. CASE then = "in"
      <4>1. task' = [task EXCEPT ![t] = Back(@)]
        BY <1>2, <3>1, Parts DEF Proceed
      <4>2. QED
        BY <2>2, <4>1, MovesBack
    <3>2. CASE then # "in"
      <4>1. task' = [task EXCEPT ![t] = Out(@, FALSE)]
        BY <1>2, <3>2, Parts DEF Proceed
      <4>2. QED
        BY <2>2, <4>1, MovesOut
    <3>3. QED
      BY <3>1, <3>2
  <2>4. QED
    BY <1>0, <2>1, <2>2, <2>3, Unlocks, Parts DEF KvMoves, Asks, Settled, ExitInv,
                                                  ClosedIsMade
<1>3. QED
  BY <1>1, <1>2

\* t asks nothing more, and has not taken the transaction out.
LEMMA OnMoves ==
    ASSUME HandlesInv, ExitInv, kind = "kv", NEW t \in Tasks, KvKeep, wire' = wire,
           task[t].req = 0, handle' = handle, NEW j, task' = [task EXCEPT ![t] = j],
           j.req = 0, j.quiet = FALSE,
           j.pc \in {"starting", "in", "closing"} \/ (j.pc = "locking" /\ j.then = "in"),
           ~Asks(t), ~TookOut(t),
           ctx'.lock = ctx.lock, ctx'.has = ctx.has, ctx.closed => ctx'.closed
    PROVE  Moves(t) /\ KvMoves(t)
<1>1. Moves(t) /\ task'[t] = j
  BY Parts, IdleRests, MovesOn
<1>2. QED
  BY <1>1 DEF KvMoves, Asks, Settled, TookOut, ExitInv, ClosedIsMade

LEMMA OperateMoves ==
    ASSUME HandlesInv, ExitInv, kind = "kv", NEW t \in Tasks, NEW op \in Operations,
           task[t].pc = "in", Operate(t, op, "in"), KvKeep
    PROVE  Moves(t) /\ KvMoves(t)
<1>0. ~Asks(t) /\ ~TookOut(t) /\ task[t].req = 0 /\ ~task[t].quiet /\ task[t] \in TaskType
  BY Parts DEF Asks, TookOut, ExitInv, AsksInTime, QuietIsLeft
<1>1. CASE handle.lock = Nobody
  BY <1>0, <1>1, ProceedMoves DEF Operate
<1>2. CASE handle.lock # Nobody
  <2> DEFINE j == [task[t] EXCEPT !.pc = "locking", !.op = op, !.then = "in"]
  <2>1. j.pc = "locking" /\ j.then = "in" /\ j.req = 0 /\ j.quiet = FALSE
    BY <1>0 DEF TaskType
  <2>2. task' = [task EXCEPT ![t] = j] /\ wire' = wire /\ handle' = handle /\ ctx' = ctx
    BY <1>2, Parts DEF Operate
  <2> HIDE DEF j
  <2>3. QED
    BY <1>0, <2>1, <2>2, OnMoves
<1>3. QED
  BY <1>1, <1>2

LEMMA LockAcquiredMoves ==
    ASSUME HandlesInv, ExitInv, kind = "kv", NEW t \in Tasks, LockAcquired(t)
    PROVE  Moves(t) /\ KvMoves(t)
<1>1. /\ task[t].op \in Operations /\ task[t].pc = "locking" /\ handle.lock = Nobody
      /\ TookOut(t) => task[t].then = "exit"
      /\ Proceed(t, task[t].op, task[t].then) /\ KvKeep
  BY Parts DEF LockAcquired, TookOut
<1>2. task[t].then # "in" => ctx.lock = t /\ ctx.closed /\ task[t].op \in Finishing
  BY <1>1 DEF ExitInv, KvLocks, ExitFinishes
<1>3. QED
  BY <1>1, <1>2, ProceedMoves

\* Only the holder of the start lock begins or takes out.
LEMMA OthersWait ==
    ASSUME ExitInv, kind = "kv", NEW t \in Tasks, ctx.lock \in {t, Nobody}
    PROVE  \A u \in Tasks \ {t} : task[u].pc # "beginning" /\ ~TookOut(u)
BY HandleBaseAssumption DEF ExitInv, KvLocks, TookOut, Tasks

LEMMA ReturnMoves ==
    ASSUME HandlesInv, ExitInv, kind = "kv", NEW t \in Tasks, Return(t)
    PROVE  Moves(t) /\ KvMoves(t)
<1> DEFINE ok == task[t].reply = "ok"
<1>a. Rests(t)
  BY IdleRests DEF Return, Answered, ExitInv, AsksInTime
<1>0. /\ task[t].pc = "asking" /\ Ended(t, ok) /\ Rests(t) /\ KvKeep /\ ok \in BOOLEAN
      /\ handle.lock = t /\ ~TookOut(t)
      /\ task[t].then # "in" => ctx.lock = t /\ ctx.closed /\ task[t].op \in Finishing
      /\ Asks(t) /\ ok => resource.st = "over"
  BY <1>a DEF Return, ExitInv, KvLocks, ExitFinishes, OkIsOver, TookOut, Asks
<1>1. /\ handle'.lock = Nobody
      /\ handle'.failed = (handle.failed \/ (task[t].op \in Finishing /\ ~ok))
      /\ handle'.made = handle.made /\ handle'.finished = handle.finished
      /\ handle'.closed = handle.closed
  BY Parts DEF Return, HandleType
<1>2. /\ \A u \in Tasks \ {t} : ctx.lock = u => ctx'.lock = u
      /\ ctx'.closed = ctx.closed /\ ctx'.has = ctx.has
  BY Unlocks DEF Return
<1> HIDE DEF ok
<1>3. /\ Moves(t) /\ task'[t].pc \in {"in", "left"}
      /\ task'[t].quiet => ok /\ task[t].then = "exit"
  BY <1>0, MovesEnded
<1>4. task[t].then # "in" => \A u \in Tasks \ {t} : task[u].pc # "beginning"
  BY <1>0, OthersWait
<1>5. task'[t].quiet => resource.st = "over"
  BY <1>0, <1>3 DEF Asks
<1>6. resource' = resource
  BY <1>0 DEF KvKeep
<1>7. QED
  BY <1>0, <1>1, <1>2, <1>3, <1>4, <1>5, <1>6 DEF KvMoves, Asks, Settled, TookOut, ExitInv,
     ClosedIsMade

LEMMA RetryLaterMoves ==
    ASSUME HandlesInv, ExitInv, kind = "kv", NEW t \in Tasks, RetryLater(t)
    PROVE  Moves(t) /\ KvMoves(t)
<1> DEFINE j == [task[t] EXCEPT !.pc = "backoff", !.reply = "none"]
<1>0. /\ task[t].pc = "asking" /\ task[t].op = "read" /\ task[t].req = 0 /\ ~task[t].quiet
      /\ handle.lock = t /\ handle' = handle /\ ctx' = ctx /\ wire' = wire
      /\ ~Asks(t) /\ ~TookOut(t) /\ task[t] \in TaskType
  BY Parts, NotQuiet DEF RetryLater, ExitInv, AsksInTime, KvLocks, Asks, Finishing, TookOut
<1>1. j.pc = "backoff" /\ j.req = 0 /\ j.quiet = FALSE
  BY <1>0 DEF TaskType
<1>2. task' = [task EXCEPT ![t] = j]
  BY Parts DEF RetryLater
<1> HIDE DEF j
<1>3. Moves(t) /\ task'[t] = j
  BY <1>0, <1>1, <1>2, Parts, IdleRests, MovesOn
<1>4. QED
  BY <1>0, <1>1, <1>3 DEF KvMoves, Asks, Settled, TookOut, ExitInv, ClosedIsMade

LEMMA RetryMoves ==
    ASSUME HandlesInv, ExitInv, kind = "kv", NEW t \in Tasks, Retry(t)
    PROVE  Moves(t) /\ KvMoves(t)
<1>0. task[t].pc = "backoff" /\ handle.lock = t /\ ~Asks(t) /\ ~TookOut(t) /\ t # Nobody
      /\ task[t].req = 0
  BY HandleBaseAssumption DEF Retry, ExitInv, KvLocks, AsksInTime, Asks, TookOut, Tasks
<1>1. CASE Valid
  <2>1. Request(t, handle, "read", "in") /\ ctx' = ctx
    BY <1>1 DEF Retry
  <2>2. /\ Moves(t) /\ task'[t].op = "read" /\ task'[t].then = "in" /\ ~task'[t].quiet
        /\ task'[t].pc = "asking" /\ handle' = handle
    BY <1>0, <2>1, MovesAsked
  <2>3. QED
    BY <1>0, <2>1, <2>2 DEF KvMoves, Asks, Finishing, Settled, TookOut, ExitInv,
                            ClosedIsMade
<1>2. CASE ~Valid
  <2>1. Ended(t, FALSE) /\ Rests(t) /\ ctx' = ctx
    BY <1>0, <1>2, IdleRests DEF Retry, Raised
  <2>2. Moves(t) /\ task'[t].pc \in {"in", "left"} /\ ~task'[t].quiet
    BY <1>0, <2>1, MovesEnded
  <2>3. /\ handle'.made = handle.made /\ handle'.finished = handle.finished
        /\ handle'.closed = handle.closed /\ handle'.failed = handle.failed
    BY <1>2, Parts DEF Retry, HandleType
  <2>4. QED
    BY <1>0, <2>1, <2>2, <2>3 DEF KvMoves, Asks, Settled, TookOut, ExitInv, ClosedIsMade
<1>3. QED
  BY <1>1, <1>2

LEMMA StartingMoves ==
    ASSUME HandlesInv, ExitInv, kind = "kv", NEW t \in Tasks, task[t].pc \in {"out", "starting"},
           ctx.lock = Nobody, Starting(t), KvKeep
    PROVE  Moves(t) /\ KvMoves(t)
<1>0. /\ task[t].req = 0 /\ ~task[t].quiet /\ ~Asks(t) /\ ~TookOut(t) /\ task[t] \in TaskType
      /\ \A u \in Tasks : Nobody # u
  BY HandleBaseAssumption, Parts, NotQuiet DEF ExitInv, AsksInTime, Asks, TookOut, Tasks
<1>1. CASE Left(t, FALSE) /\ UNCHANGED <<ctx, handle, wire, ops>>
  <2>1. Moves(t) /\ task'[t].pc = "left" /\ ~task'[t].quiet
    BY <1>0, <1>1, IdleRests, MovesOut DEF Left
  <2>2. QED
    BY <1>0, <1>1, <2>1 DEF KvMoves, Asks, Settled, TookOut, ExitInv, ClosedIsMade
<1>2. CASE task' = [task EXCEPT ![t].pc = "in"] /\ UNCHANGED <<ctx, handle, wire, ops>>
  <2> DEFINE j == [task[t] EXCEPT !.pc = "in"]
  <2>1. j.pc = "in" /\ j.req = 0 /\ j.quiet = FALSE
    BY <1>0 DEF TaskType
  <2>2. task' = [task EXCEPT ![t] = j] /\ wire' = wire /\ handle' = handle /\ ctx' = ctx
    BY <1>2, Parts
  <2> HIDE DEF j
  <2>3. QED
    BY <1>0, <2>1, <2>2, OnMoves
<1>3. CASE /\ ~ctx.closed /\ ctx' = [ctx EXCEPT !.lock = t]
           /\ Request(t, handle, "begin", "in")
  <2>1. ctx'.lock = t /\ ctx'.closed = ctx.closed /\ ctx'.has = ctx.has
    BY <1>3, Parts DEF ContextType
  <2>2. /\ Moves(t) /\ task'[t].op = "begin" /\ task'[t].then = "in" /\ ~task'[t].quiet
        /\ task'[t].pc = "beginning" /\ handle' = handle
    BY <1>0, <1>3, MovesAsked
  <2>3. QED
    BY <1>0, <1>3, <2>1, <2>2 DEF KvMoves, Asks, Settled, TookOut, ExitInv, ClosedIsMade
<1>4. QED
  BY <1>1, <1>2, <1>3 DEF Starting

LEMMA EnterMoves ==
    ASSUME HandlesInv, ExitInv, kind = "kv", NEW t \in Tasks, Enter(t) \/ StartLocked(t)
    PROVE  Moves(t) /\ KvMoves(t)
<1>0. /\ task[t].req = 0 /\ ~task[t].quiet /\ ~Asks(t) /\ ~TookOut(t) /\ task[t] \in TaskType
      /\ task[t].pc \in {"out", "starting"} /\ KvKeep
  BY Parts, NotQuiet DEF Enter, StartLocked, ExitInv, AsksInTime, Asks, TookOut
<1>1. CASE ctx.lock = Nobody /\ Starting(t)
  BY <1>0, <1>1, StartingMoves
<1>2. CASE task' = [task EXCEPT ![t].pc = "starting"] /\ UNCHANGED <<ctx, handle, wire, ops>>
  <2> DEFINE j == [task[t] EXCEPT !.pc = "starting"]
  <2>1. j.pc = "starting" /\ j.req = 0 /\ j.quiet = FALSE
    BY <1>0 DEF TaskType
  <2>2. task' = [task EXCEPT ![t] = j] /\ wire' = wire /\ handle' = handle /\ ctx' = ctx
    BY <1>2, Parts
  <2> HIDE DEF j
  <2>3. QED
    BY <1>0, <2>1, <2>2, OnMoves
<1>3. QED
  BY <1>1, <1>2 DEF Enter, StartLocked

LEMMA BeginReturnsMoves ==
    ASSUME HandlesInv, ExitInv, kind = "kv", NEW t \in Tasks, BeginReturns(t)
    PROVE  Moves(t) /\ KvMoves(t)
<1>0. /\ task[t].pc = "beginning" /\ ~task[t].quiet /\ ~Asks(t) /\ ~TookOut(t)
      /\ ctx.lock = t /\ handle \in HandleType /\ ctx \in ContextType /\ task[t].req = 0
  BY Parts, NotQuiet DEF BeginReturns, Answered, Asks, TookOut, ExitInv, KvLocks, AsksInTime
<1>1. CASE Raised(t) /\ ctx' = Unlocked(ctx, t) /\ UNCHANGED <<handle, wire, ops>>
  <2>1. Moves(t) /\ task'[t].pc \in {"in", "left"} /\ ~task'[t].quiet
    BY <1>0, <1>1, IdleRests, MovesEnded DEF Raised
  <2>2. QED
    BY <1>0, <1>1, <2>1, Unlocks DEF KvMoves, Asks, Settled, TookOut, ExitInv, ClosedIsMade
<1>2. CASE /\ task' = [task EXCEPT ![t] = Back(@)] /\ handle' = NewHandle
           /\ ctx' = [ctx EXCEPT !.has = TRUE, !.lock = Nobody]
           /\ UNCHANGED <<wire, ops>>
  <2>1. /\ handle'.made /\ handle'.closed = handle.closed /\ handle'.lock = handle.lock
        /\ handle'.finished = handle.finished /\ handle'.failed = handle.failed
    BY <1>0, <1>2 DEF NewHandle, HandleType
  <2>2. ctx'.has /\ ctx'.closed = ctx.closed
    BY <1>0, <1>2 DEF ContextType
  <2>3. Moves(t) /\ task'[t].pc = "in" /\ ~task'[t].quiet
    BY <1>0, <1>2, IdleRests, MovesBack
  <2>4. QED
    BY <1>0, <2>1, <2>2, <2>3 DEF KvMoves, Asks, Settled, TookOut
<1>3. CASE /\ task[t].reply = "ok" /\ ctx.closed /\ UNCHANGED ctx
           /\ Request(t, [Finish(NewHandle, "rollback") EXCEPT !.lock = t], "rollback", "raise")
  <2> DEFINE h == [Finish(NewHandle, "rollback") EXCEPT !.lock = t]
  <2>1. ~handle.made /\ generation \in 1..MaxGeneration
    BY <1>0, <1>3 DEF HandlesInv, GrantIsFresh, Begun, SessionTypeOK
  <2>2. NewHandle \in HandleType /\ NewHandle.made /\ NewHandle.failed = handle.failed
    BY <1>0, <2>1 DEF NewHandle, HandleType
  <2>3. "rollback" \in Finishing /\ "rollback" # "begin"
    BY DEF Finishing
  <2>4. h.lock = t /\ h.made /\ h.failed = handle.failed /\ h.finished /\ h.closed
    <3>1. /\ h.lock = t /\ h.made = NewHandle.made /\ h.failed = NewHandle.failed
          /\ h.finished = (NewHandle.finished \/ "rollback" \in Finishing)
          /\ h.closed = (NewHandle.closed \/ "rollback" \in Finishing)
      BY <2>2, FinishFields
    <3> HIDE DEF h
    <3>2. QED
      BY <2>2, <2>3, <3>1
  <2>5. Request(t, h, "rollback", "raise") /\ ctx' = ctx
    BY <1>3
  <2> HIDE DEF h
  <2>6. /\ Moves(t) /\ task'[t].op = "rollback" /\ task'[t].then = "raise" /\ ~task'[t].quiet
        /\ task'[t].pc = "asking" /\ handle' = h
    BY <1>0, <2>3, <2>5, MovesAsked
  <2>7. \A u \in Tasks : task[u].pc \notin {"asking", "backoff"}
    BY <2>1, Parts
  <2>8. QED
    BY <1>0, <1>3, <2>3, <2>4, <2>5, <2>6, <2>7 DEF KvMoves, Asks, Settled, TookOut
<1>4. QED
  BY <1>1, <1>2, <1>3 DEF BeginReturns

\* aclose() under the start lock: the transaction that t leaves is settled, or
\* t is about to roll it back.
LEMMA ClosingMoves ==
    ASSUME HandlesInv, ExitInv, kind = "kv", NEW t \in Tasks,
           task[t].pc \in {"out", "in", "closing"}, ctx.lock = Nobody, Closing(t), KvKeep
    PROVE  Moves(t) /\ KvMoves(t)
<1>0. /\ task[t].req = 0 /\ ~task[t].quiet /\ ~Asks(t) /\ ~TookOut(t) /\ task[t] \in TaskType
      /\ \A u \in Tasks : Nobody # u
      /\ handle \in HandleType /\ ctx \in ContextType
      /\ "rollback" \in Finishing /\ "rollback" # "begin"
  BY HandleBaseAssumption, Parts, NotQuiet
     DEF ExitInv, AsksInTime, Asks, TookOut, Tasks, Finishing
<1>1. \A u \in Tasks \ {t} : task[u].pc # "beginning" /\ ~TookOut(u)
  BY OthersWait
<1>2. ASSUME NEW quiet \in BOOLEAN, Left(t, quiet), handle.made => Settled,
             ctx' = [ctx EXCEPT !.closed = TRUE, !.has = FALSE], UNCHANGED <<handle, wire, ops>>
      PROVE  Moves(t) /\ KvMoves(t)
  <2>1. Moves(t) /\ task'[t].pc = "left" /\ task'[t].quiet = quiet
    BY <1>0, <1>2, IdleRests, MovesOut DEF Left
  <2>2. ctx'.closed /\ ctx'.lock = ctx.lock
    BY <1>0, <1>2 DEF ContextType
  <2>3. (Settled => Settled') /\ handle' = handle
    BY <1>2 DEF Settled, KvKeep
  <2>4. QED
    BY <1>0, <1>1, <1>2, <2>1, <2>2, <2>3 DEF KvMoves, Asks, TookOut, ExitInv, ClosedIsMade
<1>3. CASE /\ ~ctx.has \/ handle.closed
           /\ Left(t, TRUE) /\ ctx' = [ctx EXCEPT !.closed = TRUE, !.has = FALSE]
           /\ UNCHANGED <<handle, wire, ops>>
  <2>1. handle.made => Settled
    BY <1>0, <1>1, <1>3 DEF ExitInv, KvClosed, KvTakenOut, Settled
  <2>2. QED
    BY <1>2, <1>3, <2>1
<1>4. CASE /\ ctx.has /\ handle.lock = Nobody /\ Valid
           /\ Request(t, [Finish(handle, "rollback") EXCEPT !.lock = t], "rollback", "exit")
           /\ ctx' = [closed |-> TRUE, has |-> FALSE, lock |-> t]
  <2> DEFINE h == [Finish(handle, "rollback") EXCEPT !.lock = t]
  <2>1. /\ h.lock = t /\ h.made = handle.made /\ h.failed = handle.failed
        /\ h.finished = (handle.finished \/ "rollback" \in Finishing)
        /\ h.closed = (handle.closed \/ "rollback" \in Finishing)
    BY <1>0, FinishFields
  <2>2. Request(t, h, "rollback", "exit") /\ handle.made
    BY <1>4, Parts
  <2>3. ctx'.closed /\ ~ctx'.has /\ ctx'.lock = t
    BY <1>4
  <2> HIDE DEF h
  <2>4. /\ Moves(t) /\ task'[t].op = "rollback" /\ task'[t].then = "exit" /\ ~task'[t].quiet
        /\ task'[t].pc = "asking" /\ handle' = h
    BY <1>0, <2>2, MovesAsked
  <2>5. QED
    BY <1>0, <1>4, <2>1, <2>2, <2>3, <2>4 DEF KvMoves, Asks, Settled, TookOut
<1>5. CASE /\ ctx.has /\ ~Valid
           /\ Left(t, FALSE) /\ ctx' = [ctx EXCEPT !.closed = TRUE, !.has = FALSE]
           /\ UNCHANGED <<handle, wire, ops>>
  BY <1>2, <1>5, InvalidIsSettled
<1>6. CASE /\ task' = [task EXCEPT ![t].pc = "locking", ![t].op = "rollback", ![t].then = "exit"]
           /\ ctx' = [closed |-> TRUE, has |-> FALSE, lock |-> t]
           /\ UNCHANGED <<handle, wire, ops>>
  <2> DEFINE j == [task[t] EXCEPT !.pc = "locking", !.op = "rollback", !.then = "exit"]
  <2>1. /\ j.pc = "locking" /\ j.then = "exit" /\ j.op = "rollback" /\ j.req = 0
        /\ j.quiet = FALSE
    BY <1>0 DEF TaskType
  <2>2. task' = [task EXCEPT ![t] = j]
    BY <1>6, Parts
  <2>3. ctx'.closed /\ ~ctx'.has /\ ctx'.lock = t /\ handle' = handle /\ wire' = wire
    BY <1>6
  <2> HIDE DEF j
  <2>4. Moves(t) /\ task'[t] = j
    BY <1>0, <2>1, <2>2, <2>3, Parts, IdleRests, MovesOn
  <2>5. QED
    BY <1>0, <2>1, <2>3, <2>4 DEF KvMoves, Asks, Settled, TookOut, ExitInv, ClosedIsMade
<1>7. QED
  BY <1>3, <1>4, <1>5, <1>6 DEF Closing

LEMMA CloseMoves ==
    ASSUME HandlesInv, ExitInv, kind = "kv", NEW t \in Tasks, CloseContext(t) \/ CloseLocked(t)
    PROVE  Moves(t) /\ KvMoves(t)
<1>0. /\ task[t].req = 0 /\ ~task[t].quiet /\ ~Asks(t) /\ ~TookOut(t) /\ task[t] \in TaskType
      /\ task[t].pc \in {"out", "in", "closing"} /\ KvKeep
  BY Parts, NotQuiet DEF CloseContext, CloseLocked, ExitInv, AsksInTime, Asks, TookOut
<1>1. CASE ctx.lock = Nobody /\ Closing(t)
  BY <1>0, <1>1, ClosingMoves
<1>2. CASE /\ task' = [task EXCEPT ![t].pc = "closing"] /\ ctx' = [ctx EXCEPT !.closed = TRUE]
           /\ UNCHANGED <<handle, wire, ops>>
  <2> DEFINE j == [task[t] EXCEPT !.pc = "closing"]
  <2>1. j.pc = "closing" /\ j.req = 0 /\ j.quiet = FALSE
    BY <1>0 DEF TaskType
  <2>2. task' = [task EXCEPT ![t] = j] /\ wire' = wire /\ handle' = handle
    BY <1>2, Parts
  <2>3. ctx'.closed /\ ctx'.lock = ctx.lock /\ ctx'.has = ctx.has
    BY <1>2, Parts DEF ContextType
  <2> HIDE DEF j
  <2>4. QED
    BY <1>0, <2>1, <2>2, <2>3, OnMoves
<1>3. QED
  BY <1>1, <1>2 DEF CloseContext, CloseLocked

LEMMA CancelledMoves ==
    ASSUME HandlesInv, ExitInv, kind = "kv", NEW t \in Tasks, Cancelled(t)
    PROVE  Moves(t) /\ KvMoves(t)
<1> DEFINE cut == task[t].op \in Finishing /\ (handle.lock = t \/ task[t].then # "in")
<1>0. /\ task[t].pc \in {"starting", "beginning", "locking", "asking", "backoff", "closing"}
      /\ handle \in HandleType /\ Rests(t) /\ ctx' = Unlocked(ctx, t) /\ KvKeep
      /\ Asks(t) => handle.lock = t /\ task[t].op \in Finishing
      /\ TookOut(t) => task[t].then # "in" /\ task[t].op \in Finishing
  BY Parts, WithdrawnRests DEF Cancelled, ExitInv, KvLocks, ExitFinishes, Asks, TookOut
<1>1. /\ handle'.made = handle.made /\ handle'.finished = handle.finished
      /\ handle'.closed = handle.closed /\ handle'.failed = (handle.failed \/ cut)
      /\ handle.lock # t => handle'.lock = handle.lock
  BY <1>0 DEF Cancelled, HandleType
<1>2. /\ \A u \in Tasks \ {t} : ctx.lock = u => ctx'.lock = u
      /\ ctx'.closed = ctx.closed /\ ctx'.has = ctx.has
  BY <1>0, Unlocks
<1>3. Moves(t) /\ task'[t].pc \in {"in", "left"} /\ ~task'[t].quiet
  <2>1. CASE task[t].pc \in {"starting", "closing"}
    <3>1. task' = [task EXCEPT ![t] = Out(@, FALSE)]
      BY <2>1 DEF Cancelled, Left
    <3>2. QED
      BY <1>0, <3>1, MovesOut
  <2>2. CASE task[t].pc \notin {"starting", "closing"}
    <3>1. Ended(t, FALSE)
      BY <2>2 DEF Cancelled, Raised
    <3>2. QED
      BY <1>0, <3>1, MovesEnded
  <2>3. QED
    BY <2>1, <2>2
<1> HIDE DEF cut
<1>4. (Asks(t) \/ TookOut(t)) => cut
  BY <1>0 DEF cut
<1>5. QED
  BY <1>0, <1>1, <1>2, <1>3, <1>4 DEF KvMoves, Asks, Settled, TookOut, ExitInv, ClosedIsMade

LEMMA KvExits ==
    ASSUME HandlesInv, ExitInv, Kept, NEW t \in Tasks, KvSteps(t) \/ KvFaults(t)
    PROVE  ExitInv'
<1>1. kind = "kv" /\ {"read", "write", "commit", "rollback"} \subseteq Operations
  BY DEF KvSteps, KvFaults, Operations, Finishing
<1>2. CASE Read(t) \/ Write(t) \/ Commit(t) \/ Rollback(t)
  BY <1>1, <1>2, OperateMoves, KvKept DEF Read, Write, Commit, Rollback
<1>3. CASE Enter(t) \/ StartLocked(t) \/ BeginReturns(t)
  <2>1. KvKeep
    BY <1>3 DEF Enter, StartLocked, BeginReturns
  <2>2. QED
    BY <1>1, <1>3, <2>1, EnterMoves, BeginReturnsMoves, KvKept
<1>4. CASE LockAcquired(t) \/ Return(t) \/ RetryLater(t) \/ Retry(t)
  <2>1. KvKeep
    BY <1>4 DEF LockAcquired, Return, RetryLater, Retry
  <2>2. QED
    BY <1>1, <1>4, <2>1, LockAcquiredMoves, ReturnMoves, RetryLaterMoves, RetryMoves, KvKept
<1>5. CASE CloseContext(t) \/ CloseLocked(t) \/ Cancelled(t)
  <2>1. KvKeep
    BY <1>5 DEF CloseContext, CloseLocked, Cancelled
  <2>2. QED
    BY <1>1, <1>5, <2>1, CloseMoves, CancelledMoves, KvKept
<1>6. QED
  BY <1>2, <1>3, <1>4, <1>5 DEF KvSteps, KvFaults

------------------------------------------------------------------------------
(* The steps of the other handles.                                            *)

\* A step of t that closes its handle only with the grant.
OthersMoves(t) ==
    /\ handle'.closed => handle'.made /\ resource.st # "open"
    /\ handle.made => handle'.made
    /\ handle'.made => handle.made \/ t = Owner
    /\ task'[t].pc = "beginning" => t = Owner /\ ~handle'.made
    /\ task'[t].quiet =>
          /\ handle'.made
          /\ ~(kind = "lease" /\ t = Other) => resource.st = "over"

LEMMA OthersKept ==
    ASSUME HandlesInv, ExitInv, kind # "kv", NEW t \in Tasks, Moves(t), OthersMoves(t), Keep
    PROVE  ExitInv'
<1>0. /\ \A u \in Tasks \ {t} : task'[u] = task[u]
      /\ kind' = kind /\ resource' = resource /\ Owner # Other /\ Tasks = {Owner, Other}
  BY HandleBaseAssumption DEF Moves, Keep, Tasks
<1>1. /\ OpenIsCurrent' /\ ClosedIsMade' /\ AsksInTime' /\ RequestsNamed' /\ HeldIsAwaited'
      /\ OkIsOver' /\ QuietIsLeft' /\ ExitFinishes'
  BY CommonKept DEF OthersMoves, Keep
<1>2. OthersExit'
  BY <1>0 DEF ExitInv, OthersExit, OthersMoves
<1>3. QED
  BY <1>0, <1>1, <1>2 DEF ExitInv, KvLocks, KvFinished, KvHeld, KvClosed, KvTakenOut,
     KvQuiet

\* Tasks come to rest, with nothing in the gate.
LEMMA RestKept ==
    ASSUME HandlesInv, ExitInv, kind # "kv", Keep, handle'.closed => handle'.made,
           wire' \subseteq wire, \A r \in Held' : task'[r.by] = task[r.by],
           \A u \in Tasks :
              \/ task'[u] = task[u]
              \/ /\ task'[u].req = 0 /\ task'[u].pc \in {"in", "closing", "left"}
                 /\ task'[u].quiet => task'[u].pc = "left",
           OthersExit'
    PROVE  ExitInv'
<1>1. OpenIsCurrent' /\ ClosedIsMade' /\ AsksInTime' /\ OkIsOver' /\ QuietIsLeft' /\ ExitFinishes'
  BY DEF ExitInv, Keep, OpenIsCurrent, ClosedIsMade, AsksInTime, OkIsOver, QuietIsLeft,
     ExitFinishes, Asks, session, Online
<1>2. RequestsNamed' /\ HeldIsAwaited'
  BY WireTyped DEF ExitInv, RequestsNamed, HeldIsAwaited, Held
<1>3. QED
  BY <1>1, <1>2 DEF Keep, ExitInv, KvLocks, KvFinished, KvHeld, KvClosed, KvTakenOut,
                    KvQuiet

\* The parts that the steps below use.
LEMMA OthersParts ==
    ASSUME HandlesInv, ExitInv, kind # "kv"
    PROVE  /\ handle.closed => handle.made /\ resource.st = "over"
           /\ Owner \in Tasks /\ Other \in Tasks /\ Owner # Other
           /\ \A t \in Tasks : Asks(t) /\ task[t].reply = "ok" => resource.st = "over"
BY HandleBaseAssumption
   DEF HandlesInv, OneGrant, HandlesTypeOK, GrantType, ExitInv, ClosedIsMade, OthersExit, OkIsOver,
       Tasks

\* A request of t, which goes on after it or leaves.
LEMMA OthersAsk ==
    ASSUME HandlesInv, ExitInv, kind # "kv", NEW t \in Tasks, task[t].pc \in {"in", "closing"},
           Keep, NEW op, op # "begin", NEW then, then = "in" \/ op \in Finishing,
           Request(t, handle, op, then)
    PROVE  ExitInv'
<1>0. task[t].req = 0
  BY DEF ExitInv, AsksInTime
<1>1. /\ Moves(t) /\ ~task'[t].quiet /\ task'[t].pc = "asking" /\ handle' = handle
  BY <1>0, MovesAsked
<1>2. OthersMoves(t)
  BY <1>1, OthersParts DEF OthersMoves
<1>3. QED
  BY <1>1, <1>2, OthersKept

\* t ends an operation, which may have closed the handle.
LEMMA OthersEnd ==
    ASSUME HandlesInv, ExitInv, kind # "kv", NEW t \in Tasks, Keep,
           (Answered(t) /\ wire' = wire) \/ Withdrawn(t),
           task[t].pc \in {"beginning", "asking"}, NEW ok \in BOOLEAN, Ended(t, ok),
           ok => task[t].pc = "asking" /\ task[t].reply = "ok",
           handle'.made = handle.made,
           handle'.closed => handle.closed \/ (ok /\ Asks(t))
    PROVE  ExitInv'
<1>0. Rests(t)
  BY IdleRests, WithdrawnRests DEF Answered, ExitInv, AsksInTime
<1>1. /\ Moves(t) /\ task'[t].pc \in {"in", "left"}
      /\ task'[t].quiet => ok /\ task[t].then = "exit"
  BY <1>0, MovesEnded
<1>2. ok => handle.made
  BY Parts
<1>3. task'[t].quiet => handle.made /\ resource.st = "over"
  <2>1. ok /\ task[t].then = "exit" => Asks(t)
    BY DEF ExitInv, ExitFinishes, Asks
  <2>2. QED
    BY <1>1, <1>2, <2>1, OthersParts
<1>4. OthersMoves(t)
  BY <1>1, <1>2, <1>3, OthersParts DEF OthersMoves
<1>5. QED
  BY <1>1, <1>4, OthersKept

\* t leaves without a request.
LEMMA OthersLeave ==
    ASSUME HandlesInv, ExitInv, kind # "kv", NEW t \in Tasks, Keep, UNCHANGED <<handle, wire>>,
           task[t].req = 0, NEW quiet \in BOOLEAN, Left(t, quiet), quiet => handle.closed
    PROVE  ExitInv'
<1>1. Moves(t) /\ task'[t].pc = "left" /\ task'[t].quiet = quiet
  BY IdleRests, MovesOut DEF Left
<1>2. OthersMoves(t)
  BY <1>1, OthersParts DEF OthersMoves
<1>3. QED
  BY <1>1, <1>2, OthersKept

LEMMA ObtainExits ==
    ASSUME HandlesInv, ExitInv, kind # "kv", Obtain
    PROVE  ExitInv'
<1>0. /\ task[Owner].pc = "out" /\ Owner \in Tasks /\ ~handle.made /\ Keep
      /\ Request(Owner, handle, "begin", "in") /\ task[Owner].req = 0
  BY OthersParts DEF Obtain, MayBegin, HandlesInv, OneGrant, ExitInv, AsksInTime
<1>1. Moves(Owner) /\ ~task'[Owner].quiet /\ handle' = handle
  BY <1>0, MovesAsked
<1>2. OthersMoves(Owner)
  BY <1>0, <1>1, OthersParts DEF OthersMoves
<1>3. QED
  BY <1>0, <1>1, <1>2, OthersKept

LEMMA ObtainedExits ==
    ASSUME HandlesInv, ExitInv, kind # "kv", Obtained
    PROVE  ExitInv'
<1>0. /\ Owner \in Tasks /\ task[Owner].pc = "beginning" /\ Keep /\ wire' = wire
      /\ Answered(Owner)
  BY OthersParts DEF Obtained
<1>1. CASE task[Owner].reply # "ok"
  BY <1>0, <1>1, OthersEnd DEF Obtained, Raised
<1>2. CASE task[Owner].reply = "ok"
  <2>1. ~handle.made /\ ~handle.closed
    BY <1>0, <1>2, OthersParts DEF HandlesInv, GrantIsFresh, Begun
  <2>2. handle'.made /\ ~handle'.closed
    BY <1>2, <2>1, Parts DEF Obtained, NewHandle, HandleType
  <2>3. /\ task'[Owner] = Back(task[Owner])
        /\ task'[Other] = IF kind = "lease" THEN Back(task[Other]) ELSE task[Other]
    BY <1>2, OthersParts DEF Obtained
  <2>4. \A u \in Tasks :
           /\ Back(task[u]).pc = "in" /\ Back(task[u]).req = 0
           /\ Back(task[u]).quiet = task[u].quiet
    BY Parts, BackFields
  <2>5. ~task[Owner].quiet /\ (kind = "lease" => ~task[Other].quiet)
    BY <1>0, <2>1, NotQuiet DEF ExitInv, OthersExit
  <2>6. Tasks = {Owner, Other}
    BY DEF Tasks
  <2>7. OthersExit'
    BY <2>2, <2>3, <2>4, <2>5, <2>6, <1>0, OthersParts DEF ExitInv, OthersExit, Keep
  <2>8. \A r \in Held' : task'[r.by] = task[r.by]
    <3>1. task[Owner].req = 0 /\ (kind = "lease" => task[Other].req = 0)
      BY <1>0, <2>1, OthersParts, Parts DEF Answered, ExitInv, AsksInTime, OthersExit
    <3>2. \A r \in Held : task[r.by].req # 0 /\ r.by \in Tasks
      BY WireTyped DEF ExitInv, HeldIsAwaited, Held
    <3>3. QED
      BY <1>0, <2>3, <2>6, <3>1, <3>2 DEF Held
  <2>9. QED
    BY <1>0, <2>2, <2>3, <2>4, <2>5, <2>6, <2>7, <2>8, RestKept
<1>3. QED
  BY <1>1, <1>2

LEMMA ShareExits ==
    ASSUME HandlesInv, ExitInv, kind # "kv", Share
    PROVE  ExitInv'
<1> DEFINE j == [task[Other] EXCEPT !.pc = "in"]
<1>0. /\ Other \in Tasks /\ task[Other].pc = "out" /\ Keep /\ handle' = handle /\ wire' = wire
      /\ task[Other].req = 0 /\ ~task[Other].quiet /\ task[Other] \in TaskType
  BY OthersParts, Parts, NotQuiet DEF Share, ExitInv, AsksInTime
<1>1. j.pc = "in" /\ j.req = 0 /\ j.quiet = FALSE
  BY <1>0 DEF TaskType
<1>2. task' = [task EXCEPT ![Other] = j]
  BY Parts DEF Share
<1> HIDE DEF j
<1>3. Moves(Other) /\ task'[Other] = j
  BY <1>0, <1>1, <1>2, Parts, IdleRests, MovesOn
<1>4. OthersMoves(Other)
  BY <1>0, <1>1, <1>3, OthersParts DEF OthersMoves
<1>5. QED
  BY <1>0, <1>3, <1>4, OthersKept

LEMMA CallExits ==
    ASSUME HandlesInv, ExitInv, kind # "kv", NEW t \in Tasks, NEW k, NEW op, op # "begin",
           Call(t, k, op)
    PROVE  ExitInv'
BY OthersAsk DEF Call

\* An operation returns: what closes the handle is a finishing one.
LEMMA ReturnedExits ==
    ASSUME HandlesInv, ExitInv, kind # "kv", NEW t \in Tasks, NEW k, NEW op, NEW h,
           h.made = handle.made, h.closed => handle.closed \/ op \in Finishing,
           Returned(t, k, op, h)
    PROVE  ExitInv'
<1> DEFINE ok == task[t].reply = "ok"
<1>1. /\ task[t].pc = "asking" /\ task[t].op = op /\ Ended(t, ok) /\ ok \in BOOLEAN
      /\ wire' = wire /\ Keep /\ Answered(t)
  BY DEF Returned
<1>2. handle'.made = handle.made
  BY DEF Returned
<1>3. handle'.closed => handle.closed \/ (ok /\ Asks(t))
  BY <1>1 DEF Returned, Asks
<1>4. ok => task[t].reply = "ok"
  OBVIOUS
<1> HIDE DEF ok
<1>5. QED
  BY <1>1, <1>2, <1>3, <1>4, OthersEnd

LEMMA UsesExits ==
    ASSUME HandlesInv, ExitInv, kind # "kv", NEW t \in Tasks,
           \/ StreamAppend(t) \/ StreamCommit(t) \/ StreamRollback(t)
           \/ ItemExtend(t) \/ Complete(t) \/ Nack(t)
    PROVE  ExitInv'
<1>1. Closed.made = handle.made
  BY Parts DEF Closed, HandleType
<1>2. {"commit", "rollback"} \subseteq Finishing
  BY DEF Finishing
<1>3. CASE StreamAppend(t) \/ ItemExtend(t)
  BY <1>3, CallExits, ReturnedExits DEF StreamAppend, ItemExtend
<1>4. CASE StreamCommit(t) \/ Complete(t)
  BY <1>1, <1>2, <1>4, CallExits, ReturnedExits DEF StreamCommit, Complete
<1>5. CASE StreamRollback(t) \/ Nack(t)
  BY <1>1, <1>2, <1>5, CallExits, ReturnedExits DEF StreamRollback, Nack
<1>6. QED
  BY <1>3, <1>4, <1>5

LEMMA LeaseExits ==
    ASSUME HandlesInv, ExitInv, kind # "kv", LeaseExtend \/ Release
    PROVE  ExitInv'
<1> DEFINE g == [handle EXCEPT !.token = task[Owner].token]
<1>0. Owner \in Tasks /\ "commit" \in Finishing
  BY OthersParts DEF Finishing
<1>1. Closed.made = handle.made /\ g.made = handle.made /\ g.closed = handle.closed
  BY Parts DEF Closed, HandleType
<1>2. CASE \E op \in {"extend", "commit"} : Call(Owner, "lease", op)
  BY <1>0, <1>2, CallExits
<1>3. CASE Returned(Owner, "lease", "extend", g)
  <2> HIDE DEF g
  <2>1. QED
    BY <1>0, <1>1, <1>3, ReturnedExits
<1>4. CASE Returned(Owner, "lease", "commit", Closed)
  BY <1>0, <1>1, <1>4, ReturnedExits
<1>5. QED
  BY <1>2, <1>3, <1>4 DEF LeaseExtend, Release

LEMMA RenewalExits ==
    ASSUME HandlesInv, ExitInv, kind # "kv", Renewal
    PROVE  ExitInv'
<1>0. Other \in Tasks
  BY OthersParts
<1>1. CASE Call(Other, "lease", "extend")
  BY <1>0, <1>1, CallExits
<1>2. CASE /\ task[Other].pc \in {"in", "asking"} /\ task[Other].req = 0
           /\ Left(Other, FALSE) /\ UNCHANGED <<handle, wire, ops>> /\ Keep
  BY <1>0, <1>2, OthersLeave
<1>3. CASE /\ task[Other].pc = "asking" /\ task[Other].reply = "ok" /\ Ended(Other, TRUE)
           /\ handle' = [handle EXCEPT !.token = task[Other].token]
           /\ UNCHANGED <<wire, ops>> /\ Keep
  <2>1. handle'.made = handle.made /\ handle'.closed = handle.closed
    BY <1>3, Parts DEF HandleType
  <2>2. QED
    BY <1>0, <1>3, <2>1, OthersEnd DEF Answered
<1>4. task[Other].pc = "in" \/ Answered(Other) => task[Other].req = 0
  BY <1>0 DEF Answered, ExitInv, AsksInTime
<1>5. CASE /\ task[Other].pc = "asking" /\ Answered(Other)
           /\ IF task[Other].reply = "ok"
              THEN Ended(Other, TRUE) /\ handle' = [handle EXCEPT !.token = task[Other].token]
              ELSE Left(Other, FALSE) /\ UNCHANGED handle
           /\ UNCHANGED <<wire, ops>> /\ Keep
  <2>1. CASE task[Other].reply = "ok"
    BY <1>3, <1>5, <2>1
  <2>2. CASE task[Other].reply # "ok"
    BY <1>2, <1>4, <1>5, <2>2
  <2>3. QED
    BY <2>1, <2>2
<1>6. QED
  BY <1>1, <1>2, <1>4, <1>5 DEF Renewal

LEMMA StreamExitExits ==
    ASSUME HandlesInv, ExitInv, kind # "kv", StreamExit
    PROVE  ExitInv'
<1>0. Owner \in Tasks /\ task[Owner].pc = "in" /\ Keep /\ "rollback" \in Finishing
      /\ "rollback" # "begin" /\ task[Owner].req = 0
  BY OthersParts DEF StreamExit, Finishing, ExitInv, AsksInTime
<1>1. CASE Request(Owner, handle, "rollback", "exit")
  BY <1>0, <1>1, OthersAsk
<1>2. CASE \E quiet \in BOOLEAN : /\ Left(Owner, quiet) /\ (quiet => handle.closed)
                                  /\ UNCHANGED <<handle, wire, ops>>
  BY <1>0, <1>2, OthersLeave
<1>3. QED
  BY <1>1, <1>2 DEF StreamExit

LEMMA LeaseExitExits ==
    ASSUME HandlesInv, ExitInv, kind # "kv", LeaseExit
    PROVE  ExitInv'
<1> DEFINE quiet == task[Other].pc # "left"
           j == [task[Owner] EXCEPT !.pc = "closing"]
<1>0. /\ Owner \in Tasks /\ Other \in Tasks /\ Owner # Other /\ task[Owner].pc = "in"
      /\ kind = "lease" /\ Keep /\ Withdrawn(Other) /\ handle' = handle /\ handle.made
      /\ task[Owner].req = 0 /\ ~task[Owner].quiet /\ task[Owner] \in TaskType
  BY OthersParts, Parts, NotQuiet DEF LeaseExit, ExitInv, AsksInTime
<1>1. j.pc = "closing" /\ j.req = 0 /\ j.quiet = FALSE
  BY <1>0 DEF TaskType
<1>2. task'[Owner] = j /\ task'[Other] = Out(task[Other], quiet)
  BY <1>0, Parts DEF LeaseExit
<1> HIDE DEF j, quiet
<1>3. /\ task'[Other].pc = "left" /\ task'[Other].req = 0
  BY <1>0, <1>2, Parts, OutFields
<1>4. Tasks = {Owner, Other}
  BY DEF Tasks
<1>5. OthersExit'
  BY <1>0, <1>1, <1>2, <1>3, <1>4, OthersParts DEF OthersExit, Keep
<1>6. handle'.closed => handle'.made
  BY <1>0
<1>7. wire' \subseteq wire /\ \A r \in Held' : task'[r.by] = task[r.by]
  <2>1. wire' \subseteq wire /\ \A r \in Held' : r.by # Other
    BY <1>0 DEF Withdrawn, Held
  <2>2. \A r \in Held' : task[r.by].req # 0 /\ r.by \in Tasks
    BY <2>1, WireTyped DEF ExitInv, HeldIsAwaited, Held
  <2>3. QED
    BY <1>0, <1>4, <2>1, <2>2
<1>8. QED
  BY <1>0, <1>1, <1>2, <1>3, <1>4, <1>5, <1>6, <1>7, RestKept

LEMMA LeaseExitReleasesExits ==
    ASSUME HandlesInv, ExitInv, kind # "kv", LeaseExitReleases
    PROVE  ExitInv'
<1> DEFINE fine == task[Other].quiet
<1>0. /\ Owner \in Tasks /\ task[Owner].pc = "closing" /\ Keep /\ "commit" \in Finishing
      /\ "commit" # "begin" /\ fine \in BOOLEAN /\ task[Owner].req = 0
  BY OthersParts, Parts DEF LeaseExitReleases, Finishing, TaskType, ExitInv, AsksInTime
<1>1. CASE Request(Owner, handle, "commit", IF fine THEN "exit" ELSE "raise")
  BY <1>0, <1>1, OthersAsk
<1>2. CASE \E quiet \in BOOLEAN : /\ Left(Owner, quiet) /\ (quiet => handle.closed)
                                  /\ UNCHANGED <<handle, wire, ops>>
  BY <1>0, <1>2, OthersLeave
<1>3. QED
  BY <1>0, <1>1, <1>2 DEF LeaseExitReleases

LEMMA TaskCancelledExits ==
    ASSUME HandlesInv, ExitInv, kind # "kv", NEW t \in Tasks, TaskCancelled(t)
    PROVE  ExitInv'
BY OthersEnd DEF TaskCancelled, Raised

LEMMA OthersExits ==
    ASSUME HandlesInv, ExitInv, OtherSteps \/ \E t \in Tasks : TaskCancelled(t)
    PROVE  ExitInv'
<1>1. kind # "kv"
  BY DEF OtherSteps, TaskCancelled, StreamAppend, StreamCommit, StreamRollback, ItemExtend,
     Complete, Nack, LeaseExtend, Release, Renewal, Call, Returned, StreamExit, LeaseExit,
     LeaseExitReleases
<1>2. QED
  BY <1>1, ObtainExits, ObtainedExits, ShareExits, UsesExits, LeaseExits, RenewalExits,
     StreamExitExits, LeaseExitExits, LeaseExitReleasesExits,
     TaskCancelledExits DEF OtherSteps

------------------------------------------------------------------------------
(* The broker and the session.                                                *)

\* An answer touches one task, which awaited it.
LEMMA ReplyFields ==
    ASSUME HandlesInv, NEW r \in wire, NEW reply, NEW token, Reply(r, reply, token)
    PROVE  /\ wire' = wire \ {r} /\ UNCHANGED <<kind, ctx, handle>>
           /\ \A u \in Tasks :
                 /\ task'[u].pc = task[u].pc /\ task'[u].op = task[u].op
                 /\ task'[u].then = task[u].then /\ task'[u].quiet = task[u].quiet
                 /\ \/ task'[u] = task[u]
                    \/ /\ u = r.by /\ task[u].req = r.id
                       /\ task'[u].req = 0 /\ task'[u].reply = reply
<1> DEFINE k == [task[r.by] EXCEPT !.req = 0, !.reply = reply, !.token = token]
<1>0. r.by \in Tasks
  BY WireTyped
<1>1. /\ k.pc = task[r.by].pc /\ k.op = task[r.by].op /\ k.then = task[r.by].then
      /\ k.quiet = task[r.by].quiet /\ k.req = 0 /\ k.reply = reply
  BY <1>0, Parts DEF TaskType
<1>2. task' = IF task[r.by].req # r.id THEN task ELSE [task EXCEPT ![r.by] = k]
  BY <1>0, Parts DEF Reply
<1> HIDE DEF k
<1>3. QED
  BY <1>0, <1>1, <1>2, Parts DEF Reply

\* Answers, and what they do to the grant: it is ended, or opened by the one
\* begin.
LEMMA ReplyKept ==
    ASSUME HandlesInv, ExitInv, NEW r \in wire, r.sent, UNCHANGED session,
           NEW reply \in {"ok", "refused", "retryable"}, NEW token, Reply(r, reply, token),
           resource'.at = resource.at \/ resource'.at = generation,
           resource'.st = "open" =>
              \/ UNCHANGED resource
              \/ resource.st = "open" /\ resource'.at = resource.at
              \/ resource.st = "none" /\ resource'.at = generation,
           resource.st = "over" => resource'.st = "over",
           reply = "ok" /\ r.op \in Finishing => resource'.st = "over"
    PROVE  ExitInv'
<1>0. /\ wire' = wire \ {r} /\ UNCHANGED <<kind, ctx, handle>>
      /\ \A u \in Tasks :
            /\ task'[u].pc = task[u].pc /\ task'[u].op = task[u].op
            /\ task'[u].then = task[u].then /\ task'[u].quiet = task[u].quiet
            /\ \/ task'[u] = task[u]
               \/ /\ u = r.by /\ task[u].req = r.id
                  /\ task'[u].req = 0 /\ task'[u].reply = reply
  BY ReplyFields
<1>1. Online /\ (handle.made => resource.st # "none")
  BY DEF HandlesInv, WireOfHandle, OneGrant
<1>2. OpenIsCurrent'
  BY <1>1 DEF ExitInv, OpenIsCurrent, session, Online
<1>3. ClosedIsMade' /\ AsksInTime' /\ QuietIsLeft' /\ ExitFinishes'
  BY <1>0 DEF ExitInv, ClosedIsMade, AsksInTime, QuietIsLeft, ExitFinishes
<1>4. RequestsNamed' /\ HeldIsAwaited'
  <2>1. RequestsNamed'
    BY <1>0, WireTyped DEF ExitInv, RequestsNamed
  <2>2. ASSUME NEW s \in Held' PROVE task'[s.by].req = s.id
    <3>1. s \in Held /\ s \in wire /\ s # r /\ s.by \in Tasks /\ task[s.by].req = s.id
      BY <1>0, WireTyped DEF ExitInv, HeldIsAwaited, Held
    <3>2. s.id # r.id
      BY <3>1 DEF ExitInv, RequestsNamed
    <3>3. QED
      BY <1>0, <3>1, <3>2
  <2>3. QED
    BY <2>1, <2>2 DEF HeldIsAwaited
<1>5. OkIsOver'
  BY <1>0 DEF ExitInv, OkIsOver, RequestsNamed, Asks
<1>a. handle.made /\ resource.st # "open" => resource'.st # "open"
  BY <1>1
<1>b. /\ Settled /\ handle.made => Settled'
      /\ \A u \in Tasks : (Asks(u) <=> Asks(u)') /\ (TookOut(u) <=> TookOut(u)')
  BY <1>0, <1>a DEF Settled, Asks, TookOut
<1>6. OthersExit'
  BY <1>0, <1>a, OthersParts DEF ExitInv, OthersExit
<1>7. KvLocks'
  BY <1>0, <1>b DEF ExitInv, KvLocks
<1>8. KvFinished' /\ KvHeld' /\ KvClosed'
  BY <1>0, <1>a, <1>b DEF ExitInv, KvFinished, KvHeld, Held, KvClosed, ClosedIsMade,
                          HandlesInv, FinishedIsClosed
<1>9. KvTakenOut' /\ KvQuiet'
  BY <1>0, <1>b DEF ExitInv, KvTakenOut, KvQuiet
<1>10. QED
  BY <1>2, <1>3, <1>4, <1>5, <1>6, <1>7, <1>8, <1>9 DEF ExitInv

LEMMA BrokerExits ==
    ASSUME HandlesInv, ExitInv, Broker \/ BrokerFaults
    PROVE  ExitInv'
<1>0. resource \in GrantType
  BY DEF HandlesInv, HandlesTypeOK
<1>1. ASSUME NEW r \in wire, r.sent, Grants(r), UNCHANGED session PROVE ExitInv'
  <2>1. resource.st = "none" /\ r.op \notin Finishing
    BY <1>1 DEF Grants, HandlesInv, OneGrant, Finishing
  <2>2. resource'.st = "open" /\ resource'.at = generation
    BY <1>0, <1>1 DEF Grants, GrantType
  <2>3. QED
    BY <1>1, <2>1, <2>2, ReplyKept DEF Grants
<1>2. ASSUME NEW r \in wire, r.sent, Does(r), UNCHANGED session PROVE ExitInv'
  <2> DEFINE next == IF kind = "lease" /\ r.op = "extend" THEN r.id ELSE resource.token
  <2>1. /\ Reply(r, "ok", next) /\ resource.st = "open"
        /\ resource' = [resource EXCEPT !.st = IF r.op \in Finishing THEN "over" ELSE @,
                                        !.token = next]
    BY <1>2 DEF Does, Good
  <2> HIDE DEF next
  <2>2. /\ resource'.at = resource.at
        /\ resource'.st = IF r.op \in Finishing THEN "over" ELSE "open"
    BY <1>0, <2>1 DEF GrantType
  <2>3. QED
    BY <1>2, <2>1, <2>2, ReplyKept
<1>3. ASSUME NEW r \in wire, r.sent, Rejects(r), UNCHANGED session PROVE ExitInv'
  BY <1>3, ReplyKept DEF Rejects
<1>4. ASSUME NEW r \in wire, r.sent, Fails(r), UNCHANGED session PROVE ExitInv'
  <2>1. PICK e \in {"refused", "retryable"} : Reply(r, e, 0)
    BY <1>4 DEF Fails
  <2>2. resource' = resource \/ (resource'.at = resource.at /\ resource'.st = "over")
    BY <1>0, <1>4 DEF Fails, GrantType
  <2>3. QED
    BY <1>4, <2>1, <2>2, ReplyKept
<1>5. QED
  BY <1>1, <1>2, <1>3, <1>4 DEF Broker, BrokerFaults

\* The gate lets one go.
LEMMA AdmittedExits ==
    ASSUME HandlesInv, ExitInv, Admitted
    PROVE  ExitInv'
<1>0. UNCHANGED <<kind, task, ctx, handle, resource>> /\ UNCHANGED session
  BY DEF Admitted
<1>1. PICK r \in Held : wire' = (wire \ {r}) \cup {[r EXCEPT !.sent = TRUE]}
  BY DEF Admitted
<1> DEFINE f == [r EXCEPT !.sent = TRUE]
<1>2. r \in wire /\ f.id = r.id /\ f.by = r.by /\ f.op = r.op /\ f.sent
  BY AdmittedFrame
<1>3. \A g \in wire' : (g \in wire /\ g # r) \/ g = f
  BY <1>1
<1> HIDE DEF f
<1>4. RequestsNamed'
  BY <1>0, <1>2, <1>3 DEF ExitInv, RequestsNamed
<1>5. Held' \subseteq Held
  BY <1>2, <1>3 DEF Held
<1>6. HeldIsAwaited' /\ KvHeld'
  BY <1>0, <1>5 DEF ExitInv, HeldIsAwaited, KvHeld
<1>7. /\ OpenIsCurrent' /\ ClosedIsMade' /\ AsksInTime' /\ OkIsOver' /\ QuietIsLeft'
      /\ ExitFinishes' /\ OthersExit'
  BY <1>0 DEF ExitInv, OpenIsCurrent, ClosedIsMade, AsksInTime, OkIsOver, Asks, QuietIsLeft,
     ExitFinishes, OthersExit, Online, session
<1>8. KvLocks' /\ KvFinished' /\ KvClosed' /\ KvTakenOut' /\ KvQuiet'
  BY <1>0 DEF ExitInv, KvLocks, Asks, KvFinished, KvClosed, KvTakenOut, TookOut, KvQuiet,
              Settled
<1>9. QED
  BY <1>4, <1>6, <1>7, <1>8 DEF ExitInv

\* A loss ends the grant and fails the requests.
LEMMA LostExits ==
    ASSUME HandlesInv, ExitInv, HandlesLost
    PROVE  ExitInv'
<1>1. /\ wire' = {} /\ UNCHANGED <<kind, ctx, handle>>
  BY DEF HandlesLost
<1>2. \A u \in Tasks :
         /\ task'[u].pc = task[u].pc /\ task'[u].op = task[u].op
         /\ task'[u].then = task[u].then /\ task'[u].quiet = task[u].quiet
         /\ task'[u].req = 0 /\ (task'[u].reply = "ok" => task[u].reply = "ok")
  <2>1. PICK e \in [Tasks -> {"lost", "retryable"}] :
            task' = [t \in Tasks |-> IF task[t].req = 0 THEN task[t]
                                     ELSE [task[t] EXCEPT !.req = 0, !.reply = e[t]]]
    BY DEF HandlesLost
  <2>2. ASSUME NEW u \in Tasks
        PROVE  LET k == [task[u] EXCEPT !.req = 0, !.reply = e[u]]
               IN  /\ k.pc = task[u].pc /\ k.op = task[u].op /\ k.then = task[u].then
                   /\ k.quiet = task[u].quiet /\ k.req = 0 /\ k.reply \in {"lost", "retryable"}
    BY Parts DEF TaskType
  <2>3. \A u \in Tasks : task'[u] = IF task[u].req = 0 THEN task[u]
                                   ELSE [task[u] EXCEPT !.req = 0, !.reply = e[u]]
    BY <2>1
  <2>4. ASSUME NEW u \in Tasks
        PROVE  /\ task'[u].pc = task[u].pc /\ task'[u].op = task[u].op
               /\ task'[u].then = task[u].then /\ task'[u].quiet = task[u].quiet
               /\ task'[u].req = 0 /\ (task'[u].reply = "ok" => task[u].reply = "ok")
    <3>1. CASE task[u].req = 0
      BY <2>3, <3>1
    <3>2. CASE task[u].req # 0
      <4>1. task'[u] = [task[u] EXCEPT !.req = 0, !.reply = e[u]]
        BY <2>3, <3>2
      <4>2. QED
        BY <2>2, <4>1
    <3>3. QED
      BY <3>1, <3>2
  <2>5. QED
    BY <2>4, SMTT(30)
<1>3. /\ resource'.st # "open" /\ (resource.st = "over" => resource'.st = "over")
  BY DEF HandlesLost, HandlesInv, HandlesTypeOK, GrantType
<1>4. /\ OpenIsCurrent' /\ ClosedIsMade' /\ AsksInTime' /\ RequestsNamed' /\ HeldIsAwaited'
      /\ OkIsOver' /\ QuietIsLeft' /\ ExitFinishes'
  BY <1>1, <1>2, <1>3 DEF ExitInv, OpenIsCurrent, ClosedIsMade, AsksInTime, RequestsNamed,
     HeldIsAwaited, Held, OkIsOver, Asks, QuietIsLeft, ExitFinishes
<1>5. OthersExit'
  BY <1>1, <1>2, <1>3, OthersParts DEF ExitInv, OthersExit
<1>6. KvLocks' /\ KvFinished' /\ KvHeld' /\ KvClosed' /\ KvTakenOut' /\ KvQuiet'
  BY <1>1, <1>2, <1>3 DEF ExitInv, KvLocks, Asks, KvFinished, KvHeld, Held, KvClosed,
                          KvTakenOut,
     KvQuiet, Settled
<1>7. QED
  BY <1>4, <1>5, <1>6 DEF ExitInv

\* While there is no session the grant is not open, and closing the handle
\* makes no difference to it.
LEMMA SessionExits ==
    ASSUME HandlesInv, ExitInv, Disconnected \/ Reconnected \/ Restored
    PROVE  ExitInv'
<1>1. /\ UNCHANGED <<kind, task, ctx, resource, wire>>
      /\ handle'.made = handle.made /\ handle'.lock = handle.lock
      /\ handle'.finished = handle.finished /\ handle'.failed = handle.failed
      /\ handle'.closed => handle.closed \/ (Disconnected /\ handle.made)
  BY Parts DEF Disconnected, HandlesDisconnected, Reconnected, Restored, handleVars,
               HandleType
<1>2. Disconnected => resource.st # "open"
  BY DEF Disconnected, Notified, ExitInv, OpenIsCurrent, Online
<1>3. OpenIsCurrent'
  BY <1>1 DEF ExitInv, OpenIsCurrent, Online, Disconnected, Notified, Reconnected,
              Reconnect,
     Restored
<1>4. /\ ClosedIsMade' /\ AsksInTime' /\ RequestsNamed' /\ HeldIsAwaited' /\ OkIsOver'
      /\ QuietIsLeft' /\ ExitFinishes'
  BY <1>1 DEF ExitInv, ClosedIsMade, AsksInTime, RequestsNamed, HeldIsAwaited, Held,
              OkIsOver, Asks, QuietIsLeft,
     ExitFinishes
<1>5. OthersExit'
  BY <1>1, <1>2 DEF ExitInv, OthersExit
<1>6. KvLocks' /\ KvFinished' /\ KvHeld' /\ KvClosed' /\ KvTakenOut' /\ KvQuiet'
  BY <1>1, <1>2 DEF ExitInv, KvLocks, Asks, KvFinished, KvHeld, Held, KvClosed,
                    KvTakenOut, TookOut, KvQuiet,
     Settled
<1>7. QED
  BY <1>3, <1>4, <1>5, <1>6 DEF ExitInv

LEMMA ExitStutters ==
    ASSUME HandlesInv, ExitInv, UNCHANGED vars
    PROVE  ExitInv'
<1>1. UNCHANGED <<session, kind, task, ctx, handle, resource, wire>>
  BY DEF vars, handleVars
<1>2. /\ OpenIsCurrent' /\ ClosedIsMade' /\ AsksInTime' /\ RequestsNamed' /\ HeldIsAwaited'
      /\ OkIsOver' /\ QuietIsLeft' /\ ExitFinishes' /\ OthersExit'
  BY <1>1 DEF ExitInv, OpenIsCurrent, ClosedIsMade, AsksInTime, RequestsNamed,
     HeldIsAwaited, Held, OkIsOver, Asks, QuietIsLeft, ExitFinishes, OthersExit, Online, session
<1>3. KvLocks' /\ KvFinished' /\ KvHeld' /\ KvClosed' /\ KvTakenOut' /\ KvQuiet'
  BY <1>1 DEF ExitInv, KvLocks, Asks, KvFinished, KvHeld, Held, KvClosed, KvTakenOut,
              TookOut, KvQuiet, Settled
<1>4. QED
  BY <1>2, <1>3 DEF ExitInv

LEMMA NextExits ==
    ASSUME HandlesInv, ExitInv, [Next]_vars
    PROVE  ExitInv'
<1>0. Kept
  BY NextKeeps, StutterKeeps
<1>1. CASE Step
  BY <1>0, <1>1, KvExits, OthersExits, AdmittedExits, BrokerExits, SessionExits DEF Step
<1>2. CASE Fault
  BY <1>0, <1>2, KvExits, OthersExits, BrokerExits, LostExits DEF Fault
<1>3. QED
  BY <1>1, <1>2, ExitStutters DEF Next

------------------------------------------------------------------------------
(* The theorems.                                                              *)

\* The variables keep their types, the counts of requests, of sessions and of
\* faults their bounds (_runtime.py:24-58; kv.py:63-83).
THEOREM TypeCorrect == Spec => []TypeOK
<1>1. Init => faults \in 0..MaxFaults
  BY HandlesAssumption DEF Init
<1>2. faults \in 0..MaxFaults /\ [Next]_vars => (faults \in 0..MaxFaults)'
  BY HandlesAssumption DEF Next, vars
<1>3. Spec => [](faults \in 0..MaxFaults)
  BY <1>1, <1>2, PTL DEF Spec
<1>4. HandlesInv /\ faults \in 0..MaxFaults => TypeOK
  BY DEF HandlesInv, TypeOK
<1>5. QED
  BY <1>3, <1>4, Invariance, PTL

\* No operation is on its way on a session that did not grant its handle,
\* however often the session is replaced while a task waits for the lock, for
\* a retry or for an answer (kv.py:77-92, 206-215; stream.py:265-270).
THEOREM SessionsFence == Spec => []Fenced
<1>1. HandlesInv => Fenced
  BY DEF HandlesInv, WireOfHandle, OneGrant, Fenced
<1>2. QED
  BY <1>1, Invariance, PTL

\* What every reachable state satisfies.
LEMMA ExitInvariance == Spec => []ExitInv
BY ExitInit, NextExits, Invariance, PTL DEF Spec

\* Once a handle is finished, only what the gate held back already goes out for
\* it, of a transaction only the COMMIT or ROLLBACK that finished it
\* (kv.py:299-310; stream.py:227-245; queue.py:61-68; lease.py:96-99;
\* connection.py:202).
THEOREM FinishIsFinal == Spec => NothingAfterFinish
<1> DEFINE Final == handle.finished =>
                        \A r \in wire' \ wire : \E s \in Held :
                            /\ r = [s EXCEPT !.sent = TRUE]
                            /\ kind = "kv" => s.op \in Finishing
<1>1. HandlesInv /\ ExitInv /\ [Next]_vars => Final
  BY NextKeeps, StutterKeeps DEF Kept, ExitInv, KvHeld
<1>2. HandlesInv /\ ExitInv /\ [Next]_vars => [Final]_vars
  BY <1>1
<1>3. Spec => [][Final]_vars
  <2> HIDE DEF Final
  <2>1. QED
    BY <1>2, Invariance, ExitInvariance, PTL DEF Spec
<1>4. QED
  BY <1>3 DEF NothingAfterFinish

\* A task that left without an error left nothing behind: nobody is obtaining
\* the handle, and the broker holds no grant open, unless the handle was never
\* made of it, or its COMMIT or ROLLBACK is on its way or was cut short.  For
\* every number of sessions, requests, cancellations and losses
\* (_runtime.py:34-58; kv.py:279-282; stream.py:178-180; lease.py:129-145).
THEOREM ExitIsClean == Spec => []ExitLeavesNothing
<1>1. Spec => []ExitInv
  BY ExitInvariance
<1>2. HandlesInv /\ ExitInv => ExitLeavesNothing
  <2> SUFFICES ASSUME HandlesInv, ExitInv, NEW t \in Tasks, task[t].quiet,
                      ~(kind = "lease" /\ t = Other)
               PROVE  /\ \A u \in Tasks : task[u].pc # "beginning"
                      /\ resource.st = "open" =>
                            \/ ~handle.made \/ handle.failed
                            \/ \E u \in Tasks : task[u].pc = "asking" /\ task[u].op \in Finishing
    BY DEF ExitLeavesNothing
  <2>1. CASE kind = "kv"
    BY <2>1 DEF ExitInv, KvQuiet, KvFinished, Settled, Asks
  <2>2. CASE kind # "kv"
    BY <2>2 DEF ExitInv, OthersExit, Tasks
  <2>3. QED
    BY <2>1, <2>2
<1>3. QED
  BY <1>1, <1>2, Invariance, PTL
===============================================================================
