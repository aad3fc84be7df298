----------------------------- MODULE Multiplexer -----------------------------
(***************************************************************************)
(* Request/reply correlation (multiplexer.py) over successive connections. *)
(*                                                                         *)
(* A request registers its correlation id, starts a send task, waits for   *)
(* it shielded from cancellation, then waits for its future with a timer.  *)
(* The receive loop completes futures; a lost connection fails them.  The  *)
(* broker is external: it answers a request it received once, at any time  *)
(* and in any order, or never.                                             *)
(***************************************************************************)
EXTENDS Integers, FiniteSets

CONSTANTS Requests,     \* the calls of _issue_request; each happens once
          MaxId,        \* the last correlation id, 0xFFFFFFFFFFFFFFFF in the code
          MaxGen,       \* bound of the model: how many connections are opened
          MaxCancels,   \* bound of the model: how often the caller cancels one call
          NoRequest     \* not a request

ASSUME MuxAssumption ==
    /\ MaxId \in Nat /\ MaxGen \in Nat /\ MaxCancels \in Nat
    /\ NoRequest \notin Requests

VARIABLES online,      \* a HELLO was received and the connection is not lost
          gen,         \* Connection._generation: which transport is in use
          nextId,      \* self._next_correlation_id
          correlated,  \* self._correlated: id -> request, on a subset of the ids
          pc,          \* where the coroutine _issue_request of each call is
          id,          \* pending.correlation_id
          born,        \* the generation the call was issued in
          fut,         \* pending.future
          val,         \* the call whose reply was stored in the future
          snd,         \* the state of the call's send task
          cancels,     \* how often the caller cancelled the call
          wire         \* requests the broker has and has not answered

vars == <<online, gen, nextId, correlated, pc, id, born, fut, val, snd, cancels, wire>>
callVars == <<pc, id, born, fut, val, snd, cancels>>

(***************************************************************************)
(* sending       - in the first shield(send_future)                        *)
(* cancelSending - in the second one, after a cancellation                 *)
(* awaiting      - pending.sent is set; in `await future` with the timer   *)
(***************************************************************************)
Running == {"sending", "cancelSending", "awaiting"}
Ended == {"returned", "raised", "cancelled", "timedOut"}

Ids == 1..MaxId
Frames == [gen : 1..MaxGen, id : Ids, req : Requests]

TypeOK ==
    /\ online \in BOOLEAN
    /\ gen \in 0..MaxGen
    /\ nextId \in 1..(MaxId + 1)
    /\ correlated \in [Ids -> Requests \cup {NoRequest}]
    /\ pc \in [Requests -> {"idle"} \cup Running \cup Ended]
    /\ id \in [Requests -> 0..MaxId]
    /\ born \in [Requests -> 0..MaxGen]
    /\ fut \in [Requests -> {"none", "pending", "value", "error", "dropped"}]
    /\ val \in [Requests -> Requests \cup {NoRequest}]
    /\ snd \in [Requests -> {"none", "inFlight", "ok", "transportError", "otherError"}]
    /\ cancels \in [Requests -> 0..MaxCancels]
    /\ wire \subseteq Frames

Empty == [i \in Ids |-> NoRequest]

Init ==
    /\ online = FALSE
    /\ gen = 0
    /\ nextId = 1
    /\ correlated = Empty
    /\ pc = [r \in Requests |-> "idle"]
    /\ id = [r \in Requests |-> 0]
    /\ born = [r \in Requests |-> 0]
    /\ fut = [r \in Requests |-> "none"]
    /\ val = [r \in Requests |-> NoRequest]
    /\ snd = [r \in Requests |-> "none"]
    /\ cancels = [r \in Requests |-> 0]
    /\ wire = {}

------------------------------------------------------------------------------
(* Correlation ids. *)

\* next_correlation_id raises when the ids of this connection are used up.
IdAvailable == nextId <= MaxId

(* A one-way RPC frame (Connection.send) takes an id and registers nothing.  *)
OneWay ==
    /\ online /\ IdAvailable
    /\ nextId' = nextId + 1
    /\ UNCHANGED <<online, gen, correlated, callVars, wire>>

------------------------------------------------------------------------------
(* _issue_request. *)

Issue(r) ==
    /\ pc[r] = "idle"
    /\ online /\ IdAvailable
    /\ nextId' = nextId + 1
    /\ correlated' = [correlated EXCEPT ![nextId] = r]
    /\ id' = [id EXCEPT ![r] = nextId]
    /\ born' = [born EXCEPT ![r] = gen]
    /\ fut' = [fut EXCEPT ![r] = "pending"]
    /\ snd' = [snd EXCEPT ![r] = "inFlight"]
    /\ pc' = [pc EXCEPT ![r] = "sending"]
    /\ UNCHANGED <<online, gen, val, cancels, wire>>

(* No HELLO yet, or no id left: FitzConnectionError. *)
IssueRefused(r) ==
    /\ pc[r] = "idle"
    /\ ~(online /\ IdAvailable)
    /\ pc' = [pc EXCEPT ![r] = "raised"]
    /\ UNCHANGED <<online, gen, nextId, correlated, id, born, fut, val, snd, cancels, wire>>

OnWire(r) == [gen |-> born[r], id |-> id[r], req |-> r]

(* The send task ends, whether or not the call still waits for it.  A failed *)
(* send may have reached the broker all the same; a send that outlives its   *)
(* transport does not.                                                       *)
SendEnds(r) ==
    /\ snd[r] = "inFlight"
    /\ \E result \in {"ok", "transportError", "otherError"} :
          /\ snd' = [snd EXCEPT ![r] = result]
          /\ \/ /\ online /\ born[r] = gen
                /\ wire' = wire \cup {OnWire(r)}
             \/ /\ result # "ok" \/ ~(online /\ born[r] = gen)
                /\ UNCHANGED wire
    /\ UNCHANGED <<online, gen, nextId, correlated, pc, id, born, fut, val, cancels>>

\* Mutant: cancelling a transmitted request forgets its id.
AbandonAndForget(r) ==
    /\ fut' = [fut EXCEPT ![r] = "dropped"]
    /\ correlated' = [correlated EXCEPT ![id[r]] = NoRequest]

\* _abandon of a request that was sent: its entry becomes a tombstone.
Abandon(r) == fut' = [fut EXCEPT ![r] = "dropped"] /\ UNCHANGED correlated

\* _remove: the entry under this id goes away, whichever request owns it.
Remove(r) == correlated' = [correlated EXCEPT ![id[r]] = NoRequest] /\ UNCHANGED fut

(* The call runs again after its send ended. *)
ResumeSent(r) ==
    /\ pc[r] = "sending" /\ snd[r] # "inFlight"
    /\ \/ /\ snd[r] = "ok"
          /\ pc' = [pc EXCEPT ![r] = "awaiting"]
          /\ UNCHANGED <<correlated, fut>>
       \/ /\ snd[r] = "otherError"
          /\ pc' = [pc EXCEPT ![r] = "raised"]
          /\ Abandon(r)
       \/ /\ snd[r] = "transportError"
          /\ pc' = [pc EXCEPT ![r] = "raised"]
          /\ Remove(r)
    /\ UNCHANGED <<online, gen, nextId, id, born, val, snd, cancels, wire>>

ResumeCancelled(r) ==
    /\ pc[r] = "cancelSending" /\ snd[r] # "inFlight"
    /\ pc' = [pc EXCEPT ![r] = "cancelled"]
    /\ IF snd[r] = "ok" THEN Abandon(r) ELSE Remove(r)
    /\ UNCHANGED <<online, gen, nextId, id, born, val, snd, cancels, wire>>

(* The caller cancels the task.  In the second shield nothing catches the    *)
(* cancellation: the entry is removed although the send task goes on.        *)
Cancel(r) ==
    /\ cancels[r] < MaxCancels
    /\ cancels' = [cancels EXCEPT ![r] = @ + 1]
    /\ \/ /\ pc[r] = "sending"
          /\ pc' = [pc EXCEPT ![r] = "cancelSending"]
          /\ UNCHANGED <<correlated, fut>>
       \/ /\ pc[r] = "cancelSending"
          /\ pc' = [pc EXCEPT ![r] = "cancelled"]
          /\ Remove(r)
       \/ /\ pc[r] = "awaiting"
          /\ pc' = [pc EXCEPT ![r] = "cancelled"]
          /\ Abandon(r)
    /\ UNCHANGED <<online, gen, nextId, id, born, val, snd, wire>>

(* The timer fires, even when the future is done and the task not yet awake. *)
Timeout(r) ==
    /\ pc[r] = "awaiting"
    /\ pc' = [pc EXCEPT ![r] = "timedOut"]
    /\ Abandon(r)
    /\ UNCHANGED <<online, gen, nextId, id, born, val, snd, cancels, wire>>

(* The task runs again with the outcome of its future. *)
Complete(r) ==
    /\ pc[r] = "awaiting"
    /\ \/ /\ fut[r] = "value"
          /\ pc' = [pc EXCEPT ![r] = "returned"]
          /\ UNCHANGED <<fut, correlated>>
       \/ /\ fut[r] = "error"
          /\ pc' = [pc EXCEPT ![r] = "raised"]
          /\ Abandon(r)
    /\ UNCHANGED <<online, gen, nextId, id, born, val, snd, cancels, wire>>

------------------------------------------------------------------------------
(* The connection. *)

\* Mutant: the futures of the lost connection are left pending.
DisconnectedSilently ==
    /\ online' = FALSE
    /\ correlated' = Empty
    /\ UNCHANGED <<fut, nextId>>

\* set_disconnected and cancel_all: every registered future that is not done fails.
Disconnected ==
    /\ online' = FALSE
    /\ fut' = [r \in Requests |->
                 IF fut[r] = "pending" /\ \E i \in Ids : correlated[i] = r
                 THEN "error" ELSE fut[r]]
    /\ correlated' = Empty
    /\ UNCHANGED nextId

\* The connection is lost or closed for a reason outside this module.
Lose ==
    /\ online
    /\ Disconnected
    /\ UNCHANGED <<gen, pc, id, born, val, snd, cancels, wire>>

(* set_capabilities at HELLO and set_connected.  CONNECT is sent under the   *)
(* write lock that every earlier send holds or waits for (connection.py:433),*)
(* and HELLO takes a round trip more, so the calls of the previous           *)
(* connection have seen their sends end.                                     *)
Connect ==
    /\ ~online /\ gen < MaxGen
    /\ \A r \in Requests : snd[r] # "inFlight" /\ pc[r] \notin {"sending", "cancelSending"}
    /\ gen' = gen + 1
    /\ online' = TRUE
    /\ nextId' = 1
    /\ UNCHANGED <<correlated, callVars, wire>>

\* Mutant: the receive loop does not ask which transport a frame came from.
AnyTransport(f) == online

\* The frames the receive loop hands to dispatch_correlated: those read from the
\* transport in use (connection.py:439-443).
CurrentTransport(f) == online /\ f.gen = gen

(* A final reply to f.  An unknown id is a ProtocolError, which ends the     *)
(* receive loop and the connection.                                          *)
Reply(f) ==
    /\ CurrentTransport(f)
    /\ wire' = wire \ {f}
    /\ LET r == correlated[f.id] IN
       \/ /\ r # NoRequest
          /\ correlated' = [correlated EXCEPT ![f.id] = NoRequest]
          /\ \/ /\ fut[r] = "pending"
                /\ fut' = [fut EXCEPT ![r] = "value"]
                /\ val' = [val EXCEPT ![r] = f.req]
             \/ /\ fut[r] # "pending"
                /\ UNCHANGED <<fut, val>>
          /\ UNCHANGED <<online, nextId>>
       \/ /\ r = NoRequest
          /\ Disconnected
          /\ UNCHANGED val
    /\ UNCHANGED <<gen, pc, id, born, snd, cancels>>

Next ==
    \/ \E r \in Requests :
          \/ Issue(r)
          \/ IssueRefused(r)
          \/ SendEnds(r)
          \/ ResumeSent(r)
          \/ ResumeCancelled(r)
          \/ Cancel(r)
          \/ Timeout(r)
          \/ Complete(r)
    \/ OneWay
    \/ Lose
    \/ Connect
    \/ \E f \in wire : Reply(f)

Spec == Init /\ [][Next]_vars

\* The event loop runs every ready task and sends are bounded by the transport's
\* own timeout.
Scheduling ==
    \A r \in Requests : /\ WF_vars(SendEnds(r))
                        /\ WF_vars(ResumeSent(r) \/ ResumeCancelled(r))
                        /\ WF_vars(Complete(r))

FairSpec == Spec /\ Scheduling /\ \A r \in Requests : WF_vars(Timeout(r))

------------------------------------------------------------------------------
(* Properties. *)

\* The calls whose outcome the current connection still decides.
Live(r) == pc[r] \in Running /\ online /\ born[r] = gen

\* A reply, however late and in whatever order, is only ever given to the call it
\* answers, on the connection it was asked on (multiplexer.py:190-206,
\* connection.py:439-443).
ReplyMatchesRequest == \A r \in Requests : val[r] \in {r, NoRequest}

\* No stranded waiter: a call whose future is still pending can be reached through
\* its id, so that a reply or the loss of the connection ends it
\* (multiplexer.py:113-114, 220-230).
PendingIsRegistered ==
    \A r \in Requests :
        pc[r] \in Running /\ fut[r] = "pending" => Live(r) /\ correlated[id[r]] = r

\* The entry of a request that reached the broker stays until the answer comes, as a
\* tombstone if need be, because an answer without an entry costs the connection.
\* Two cases lose it: the send failed after the broker got the frame, and the caller
\* cancelled twice during one send (multiplexer.py:118-128, 144-154).
LateReplyIsExpected ==
    \A f \in wire :
        \/ ~(online /\ f.gen = gen)
        \/ correlated[f.id] = f.req
        \/ snd[f.req] \in {"transportError", "otherError"}
        \/ cancels[f.req] >= 2

\* The multiplexer keeps the promises of CallContract.
Contract == INSTANCE CallContract WITH
    phase <- [r \in Requests |->
                IF pc[r] \in Running THEN "open"
                ELSE IF pc[r] \in {"idle", "returned"} THEN pc[r] ELSE "failed"],
    answered <- {val[r] : r \in Requests} \ {NoRequest}

\* A call returns only what the broker answered to it, ends once, and does end.
KeepsContract == Contract!CallSpec
==============================================================================
