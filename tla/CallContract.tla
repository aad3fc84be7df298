---------------------------- MODULE CallContract ----------------------------
(***************************************************************************)
(* What Multiplexer.request promises its callers, without wire, futures or *)
(* correlation ids: a call returns a reply only after the broker answered  *)
(* this very call, it ends at most once, and it does end.                  *)
(***************************************************************************)
CONSTANT Requests

VARIABLES phase,     \* where each call is
          answered   \* the calls whose reply has reached the client

callVars == <<phase, answered>>

CallInit ==
    /\ phase = [r \in Requests |-> "idle"]
    /\ answered = {}

Open(r) ==
    /\ phase[r] = "idle"
    /\ phase' = [phase EXCEPT ![r] = "open"]
    /\ UNCHANGED answered

Answer(r) ==
    /\ phase[r] = "open"
    /\ answered' = answered \cup {r}
    /\ UNCHANGED phase

Return(r) ==
    /\ phase[r] = "open" /\ r \in answered
    /\ phase' = [phase EXCEPT ![r] = "returned"]
    /\ UNCHANGED answered

\* The call ends with an exception: refused, timed out, cancelled, disconnected.
Fail(r) ==
    /\ phase[r] \in {"idle", "open"}
    /\ phase' = [phase EXCEPT ![r] = "failed"]
    /\ UNCHANGED answered

CallNext == \E r \in Requests : Open(r) \/ Answer(r) \/ Return(r) \/ Fail(r)

CallSafety == CallInit /\ [][CallNext]_callVars

\* A call that was opened does not stay open.
CallEnds(r) == phase[r] = "open" /\ (Return(r) \/ Fail(r))
CallSpec == CallSafety /\ \A r \in Requests : WF_callVars(CallEnds(r))
==============================================================================
