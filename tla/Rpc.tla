--------------------------------- MODULE Rpc ---------------------------------
(***************************************************************************)
(* The RPC client: RpcCalls and RpcWorkers over one connection.  They meet *)
(* in the session, whose loss and recovery concern both, and in the calls  *)
(* a handler makes for its request (call_from_request), which end when the *)
(* request is cancelled.                                                   *)
(***************************************************************************)
EXTENDS RpcCalls, RpcWorkers

CONSTANTS MaxActivities,   \* bound: calls, requests and registrations together
          MaxFaults,       \* bound: sessions lost, errors, cancellations and deadlines
          MaxEvents        \* bound: activities and faults together

ASSUME RpcAssumption ==
    /\ {MaxActivities, MaxFaults, MaxEvents} \subseteq Nat
    /\ Requests \subseteq Nat /\ Parents = Requests /\ Workers \subseteq Nat

VARIABLE faults   \* counter for the bound

vars == <<session, call, workerVars, faults>>

TypeOK == SessionTypeOK /\ CallsTypeOK /\ WorkersTypeOK /\ faults \in 0..MaxFaults

Init == SessionInit /\ CallsInit /\ WorkersInit /\ faults = 0

(***************************************************************************)
(* Bounds.  A call outside a handler shares nothing but the session with   *)
(* what the client serves, so the two are not explored side by side, nor   *)
(* are a call of a handler and a registration that is on its way.  Three   *)
(* activities meet one fault, two meet two; requests and registrations     *)
(* come in a fixed order.                                                  *)
(***************************************************************************)
Linked == {c \in Calls : call[c].parent # NoParent}
Alone == {c \in Calls : call[c].pc # "idle"} \ Linked
Delivered == {i \in Requests : inv[i].stage # "none"}
Registering == {w \in Workers : handle[w] # "idle"}

Activities == Cardinality(Linked) + Cardinality(Alone) + Cardinality(Delivered)
              + Cardinality(Registering)

Bounded ==
    /\ Activities <= MaxActivities /\ faults <= MaxFaults
    /\ Activities + faults <= MaxEvents
    /\ Alone # {} => Delivered = {} /\ Registering = {}
    /\ Linked # {} => wire.st = "idle" \/ rst = "asking"
    /\ \A i \in Delivered : 1..i \subseteq Delivered
    /\ \A w \in Registering : 1..w \subseteq Registering

\* call_from_request refuses a request that is cancelled or out of time.
MayLink(i) == inv[i].stage = "running" /\ ~inv[i].cancelled /\ ~inv[i].late

CallStep(c) ==
    \/ \E p \in {NoParent} \cup {i \in Requests : MayLink(i)} : OpenCall(c, p)
    \/ CallSteps(c)
    \/ \E i \in Requests : call[c].parent = i /\ ParentCancelled(c, inv[i].cancelled)

LoseSession == (Lose \/ Close) /\ WorkersLost /\ UNCHANGED call

\* RPCClient._disconnect
Disconnected == Notified /\ CallsDisconnected /\ WorkersDisconnected

Reconnected == rst = "none" /\ Reconnect /\ WorkersReconnected /\ UNCHANGED call

\* The reconnect listeners are done.
Restored ==
    /\ mode = "restoring" /\ rst = "none"
    /\ mode' = "up"
    /\ UNCHANGED <<generation, call, workerVars>>

Step ==
    \/ (\E c \in Calls : CallStep(c)) /\ UNCHANGED workerVars
    \/ ((\E i \in Requests : RequestSteps(i)) \/ RegistrationSteps) /\ UNCHANGED call
    \/ Disconnected \/ Reconnected \/ Restored

Fault ==
    \/ (\E c \in Calls : CallFaults(c)) /\ UNCHANGED workerVars
    \/ ((\E i \in Requests : RequestFaults(i)) \/ WireCancelled) /\ UNCHANGED call
    \/ LoseSession

Next ==
    /\ \/ Step /\ UNCHANGED faults
       \/ Fault /\ faults' = faults + 1
    /\ Bounded'

(***************************************************************************)
(* Timers fire, tasks that can run do run, and the dispatcher's timeout    *)
(* ends a handler.  Nothing is assumed of the broker, of the handlers and  *)
(* of the connection.                                                      *)
(***************************************************************************)
TaskStep(i) ==
    /\ \/ Begin(i) \/ Admit(i) \/ SendReturns(i) \/ Completed(i) \/ Refuse(i)
       \/ CleanupAck(i) \/ HandlerTimeout(i) \/ Doomed(i)
    /\ UNCHANGED <<call, faults>>

Fairness ==
    /\ \A c \in Calls : WF_vars(GraceEnds(c) /\ UNCHANGED <<workerVars, faults>>)
    /\ \A i \in Requests : WF_vars(TaskStep(i))

Spec == Init /\ [][Next]_vars /\ Fairness

------------------------------------------------------------------------------
(* What the broker sees of the requests. *)

Held == {"queued", "ready", "waiting", "expiring", "saturated", "refusing"}
Working == {"running", "ending", "failing"}

Phase(stage) ==
    CASE stage = "none" -> "new"
      [] stage \in Held -> "held"
      [] stage \in Working -> "running"
      [] OTHER -> "done"

View(v) == [phase |-> Phase(v.stage), home |-> v.at, answers |-> v.ends, cut |-> v.broken,
            asked |-> v.asked, acks |-> v.acks]

Contract == INSTANCE ServeContract WITH
    online <- Online,
    number <- generation,
    req <- [i \in Requests |-> View(inv[i])]

\* The worker's side keeps the promises of ServeContract: whatever deadline, timeout,
\* cancellation, refusal or loss meets a request, no handler gets it twice or after the
\* broker cancelled it, no answer leaves its session or follows an acknowledgement, and
\* none of both is said twice without a reason (rpc.py:79-104, 527-535, 617-692).
ServesByContract == Contract!ServeSpec
==============================================================================
