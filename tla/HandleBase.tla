------------------------------ MODULE HandleBase ------------------------------
(***************************************************************************)
(* What the handles of the domains have in common: a KVTransaction, a      *)
(* StreamSession, a QueueItem and a Lease stand for something the broker   *)
(* granted to one session.  A handle keeps that session's generation and a *)
(* closed flag, and its operations are requests that several tasks make.   *)
(*                                                                         *)
(* Operations are told apart by what they do to the grant: "read" and      *)
(* "write" use it, "extend" may give it a new fencing token, and "commit"  *)
(* and "rollback" (COMMIT, COMPLETE, RELEASE; ROLLBACK, NACK) finish it.   *)
(***************************************************************************)
EXTENDS Session

CONSTANTS Owner, Other,   \* the tasks: who obtains the handle, and a second user
          Nobody,
          MaxOps          \* bound: requests

ASSUME HandleBaseAssumption ==
    /\ Owner # Other /\ Nobody \notin {Owner, Other}
    /\ MaxOps \in Nat

VARIABLES kind,       \* what the handle is
          task,
          ctx,        \* LazyAsyncContext
          handle,
          resource,   \* the broker's view of the grant
          wire,       \* requests the broker has not handled: sent, or held back
                      \* by the connection's gate
          ops         \* counter for the bound

handleVars == <<kind, task, ctx, handle, resource, wire, ops>>

Tasks == {Owner, Other}
Kinds == {"kv", "stream", "item", "lease"}
Finishing == {"commit", "rollback"}
Operations == {"read", "write", "extend"} \cup Finishing

TaskType == [
    pc    : {"out", "starting", "beginning", "in", "locking", "asking", "backoff",
             "closing", "left"},
    op    : Operations \cup {"none", "begin"},
    then  : {"in", "exit", "raise"},   \* what follows the operation
    req   : 0..MaxOps,                 \* the request it awaits, or 0
    reply : {"none", "ok", "refused", "retryable", "lost"},
    token : 0..MaxOps,                 \* the token in the reply
    quiet : BOOLEAN]                   \* it has left and nothing was raised

HandleType == [
    made     : BOOLEAN,
    at       : 1..MaxGeneration,       \* _generation
    closed   : BOOLEAN,                \* _closed, _released
    lock     : Tasks \cup {Nobody},    \* KVTransaction._lock
    token    : 0..MaxOps,
    finished : BOOLEAN,                \* history: a finishing request was sent (kv),
                                       \* or returned (the others)
    failed   : BOOLEAN]                \* history: one was cut short (kv)

ContextType == [closed : BOOLEAN, lock : Tasks \cup {Nobody}, has : BOOLEAN]

GrantType == [st : {"none", "open", "over"}, at : 1..MaxGeneration, token : 0..MaxOps]

Frame == [id : 1..MaxOps, by : Tasks, op : Operations \cup {"begin"}, token : 0..MaxOps,
          sent : BOOLEAN]              \* it has passed the gate

HandlesTypeOK ==
    /\ kind \in Kinds
    /\ task \in [Tasks -> TaskType]
    /\ ctx \in ContextType
    /\ handle \in HandleType
    /\ resource \in GrantType
    /\ wire \subseteq Frame
    /\ ops \in 0..MaxOps

HandlesInit ==
    /\ kind \in Kinds
    /\ task = [t \in Tasks |-> [pc |-> "out", op |-> "none", then |-> "in", req |-> 0,
                                reply |-> "none", token |-> 0, quiet |-> FALSE]]
    /\ ctx = [closed |-> FALSE, lock |-> Nobody, has |-> FALSE]
    /\ handle = [made |-> FALSE, at |-> 1, closed |-> FALSE, lock |-> Nobody, token |-> 0,
                 finished |-> FALSE, failed |-> FALSE]
    /\ resource = [st |-> "none", at |-> 1, token |-> 0]
    /\ wire = {} /\ ops = 0

------------------------------------------------------------------------------
(* Requests. *)

\* The handle's own check: _ensure_open, _ensure_valid, _valid.
Valid == ~handle.closed /\ handle.at = generation

\* What becomes of a request: offline it raises at once; online it passes the
\* gate, is held in its queue, or finds the queue full, which may be retried.
\* (RequestGate says which of these, and whose turn it is; here any may happen.)
Fates == IF Online THEN {"sent", "held", "full"} ELSE {"lost"}
Asking == {"sent", "held"}

\* k after it made a request.
Asked(k, op, then, fate) ==
    [k EXCEPT !.pc = IF op = "begin" THEN "beginning" ELSE "asking",
              !.op = op, !.then = then,
              !.req = IF fate \in Asking THEN ops + 1 ELSE 0,
              !.reply = IF fate \in Asking THEN "none"
                        ELSE IF fate = "full" THEN "retryable" ELSE "lost"]

\* t makes a request, which leaves the handle as h.  What it says, the token
\* included, is settled now, also if it has to wait for the gate.
Request(t, h, op, then) ==
    /\ \E fate \in Fates :
          /\ task' = [task EXCEPT ![t] = Asked(@, op, then, fate)]
          /\ wire' = wire \cup {f \in {[id |-> ops + 1, by |-> t, op |-> op, token |-> h.token,
                                       sent |-> fate = "sent"]} : fate \in Asking}
    /\ handle' = h
    /\ ops' = ops + 1

\* What the gate holds back.
Held == {r \in wire : ~r.sent}

\* The gate hands a slot to a request that it held, which goes out.  Nobody
\* looks at the handle again.
Admitted ==
    /\ \E r \in Held : wire' = (wire \ {r}) \cup {[r EXCEPT !.sent = TRUE]}
    /\ UNCHANGED <<session, kind, task, ctx, handle, resource, ops>>

\* t is cancelled: what the gate held of it is not sent any more.
Withdrawn(t) == wire' = {r \in wire : r.by # t \/ r.sent}

\* k after its operation: in the handle's block, or out of it.
Rested(k) == [k EXCEPT !.op = "none", !.req = 0, !.reply = "none"]
Back(k) == [Rested(k) EXCEPT !.pc = "in"]
Out(k, quiet) == [Rested(k) EXCEPT !.pc = "left", !.quiet = quiet]

\* t is done with an operation, and with the handle if that was its exit.  What
\* it sent and did not hear of stays sent.
Ended(t, ok) ==
    task' = [task EXCEPT ![t] =
                 IF @.then = "in" /\ @.pc # "beginning" THEN Back(@)
                 ELSE Out(@, ok /\ @.then = "exit")]

Left(t, quiet) == task' = [task EXCEPT ![t] = Out(@, quiet)]

Raised(t) == Ended(t, FALSE)

\* The handle that the answer to a begin makes.
NewHandle == [handle EXCEPT !.made = TRUE, !.at = generation]

Answered(t) == task[t].reply # "none"

\* Bound: one grant.
MayBegin == resource.st = "none" /\ \A r \in wire : r.op # "begin"

------------------------------------------------------------------------------
(* The broker.  It handles the requests in any order. *)

\* r is handled; whoever still awaits it is told.
Reply(r, reply, token) ==
    /\ wire' = wire \ {r}
    /\ task' = IF task[r.by].req # r.id THEN task
               ELSE [task EXCEPT ![r.by].req = 0, ![r.by].reply = reply, ![r.by].token = token]
    /\ UNCHANGED <<kind, ctx, handle, ops>>

Grants(r) ==
    /\ r.op = "begin"
    /\ resource' = [resource EXCEPT !.st = "open", !.at = generation]
    /\ Reply(r, "ok", 0)

\* The request names an open grant by its latest token.
Good(r) == resource.st = "open" /\ r.token = resource.token

Does(r) ==
    LET next == IF kind = "lease" /\ r.op = "extend" THEN r.id ELSE resource.token
    IN  /\ r.op # "begin" /\ Good(r)
        /\ resource' = [resource EXCEPT !.st = IF r.op \in Finishing THEN "over" ELSE @,
                                        !.token = next]
        /\ Reply(r, "ok", next)

Rejects(r) ==
    /\ r.op # "begin" /\ ~Good(r)
    /\ Reply(r, "refused", 0)
    /\ UNCHANGED resource

\* An error, which may have had its effect.
Fails(r) ==
    /\ \E e \in {"refused", "retryable"} : Reply(r, e, 0)
    /\ \/ UNCHANGED resource
       \/ r.op \in Finishing /\ resource' = [resource EXCEPT !.st = "over"]

Broker == \E r \in wire : r.sent /\ (Grants(r) \/ Does(r) \/ Rejects(r)) /\ UNCHANGED session
BrokerFaults == \E r \in wire : r.sent /\ Fails(r) /\ UNCHANGED session

------------------------------------------------------------------------------
(* The session. *)

\* The requests on their way fail; one that failed to send, or timed out and so
\* ended the session, may be retried.  The gate is closed, and what it held is
\* refused.  The grant ends with its session.
HandlesLost ==
    /\ wire' = {}
    /\ \E e \in [Tasks -> {"lost", "retryable"}] :
          /\ \A r \in Held : e[r.by] = "lost"
          /\ task' = [t \in Tasks |-> IF task[t].req = 0 THEN task[t]
                                      ELSE [task[t] EXCEPT !.req = 0, !.reply = e[t]]]
    /\ resource' = IF resource.st = "open" THEN [resource EXCEPT !.st = "over"] ELSE resource
    /\ UNCHANGED <<kind, ctx, handle, ops>>

\* _invalidate, the disconnect listener of a transaction or a stream session.
HandlesDisconnected ==
    /\ handle' = IF kind \in {"kv", "stream"} /\ handle.made
                 THEN [handle EXCEPT !.closed = TRUE] ELSE handle
    /\ UNCHANGED <<kind, task, ctx, resource, wire, ops>>

\* A new session takes many turns of the event loop: no task is still on its
\* way from the answer to its begin.
Resumable == \E t \in Tasks : task[t].pc = "beginning" /\ Answered(t)
===============================================================================
