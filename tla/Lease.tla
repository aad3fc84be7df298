-------------------------------- MODULE Lease --------------------------------
(***************************************************************************)
(* The lease client: LeaseAcquire and LeaseObserver over one connection,   *)
(* whose loss, disconnect listeners and recovery concern both.  (The       *)
(* renewal of a granted lease is in Handles.)                              *)
(***************************************************************************)
EXTENDS LeaseAcquire, LeaseObserver

CONSTANT MaxFaults   \* bound: sessions lost, errors and cancellations

ASSUME LeaseAssumption == MaxFaults \in Nat /\ Acquirers \subseteq Nat

VARIABLE faults   \* counter for the bound

vars == <<session, acquireVars, observerVars, faults>>

TypeOK == SessionTypeOK /\ AcquireTypeOK /\ ObserverTypeOK /\ faults \in 0..MaxFaults

Init == SessionInit /\ AcquireInit /\ ObserverInit /\ faults = 0

(***************************************************************************)
(* Bounds.  Acquisitions and the observer share nothing but the session,   *)
(* so they are not explored side by side; the acquisitions come in a fixed *)
(* order.                                                                  *)
(***************************************************************************)
Called == {a \in Acquirers : acq[a].pc # "idle"}

Bounded ==
    /\ faults <= MaxFaults
    /\ Called # {} => obs.life = "off" /\ inventory = 0
    /\ \A a \in Called : \A b \in Acquirers : b < a => b \in Called

\* The loss, and the listeners of the connection.
LoseSession == (Lose \/ Close) /\ AcquireLost /\ ObserverLost

Disconnected == Notified /\ AcquireDisconnected /\ ObserverDisconnected

Reconnected ==
    /\ ~AcquireRunnable /\ restore = "none"
    /\ Reconnect /\ ObserverReconnected
    /\ UNCHANGED acquireVars

\* The reconnect listeners are done.
Restored ==
    /\ mode = "restoring" /\ restore = "none"
    /\ mode' = "up"
    /\ UNCHANGED <<generation, acquireVars, observerVars>>

Step ==
    \/ (\E a \in Acquirers : AcquireSteps(a)) /\ UNCHANGED observerVars
    \/ ObserverSteps /\ UNCHANGED acquireVars
    \/ Disconnected \/ Reconnected \/ Restored

Fault ==
    \/ (\E a \in Acquirers : AcquireFaults(a)) /\ UNCHANGED observerVars
    \/ ObserverFaults /\ UNCHANGED acquireVars
    \/ LoseSession

Next ==
    /\ \/ Step /\ UNCHANGED faults
       \/ Fault /\ faults' = faults + 1
    /\ Bounded'

(***************************************************************************)
(* Tasks that can run do run, and the listeners of a loss are called.  The *)
(* broker answers the observer and delivers its notifications; it owes an  *)
(* acquisition nothing, and no session has to be lost or to come back.     *)
(***************************************************************************)
Fairness ==
    /\ \A a \in Acquirers : WF_vars(AcquireTask(a) /\ UNCHANGED <<observerVars, faults>>)
    /\ WF_vars(Disconnected /\ UNCHANGED faults)
    /\ WF_vars(BootTask /\ UNCHANGED <<acquireVars, faults>>)
    /\ WF_vars(ConsumerTask /\ UNCHANGED <<acquireVars, faults>>)
    /\ WF_vars(Notify /\ UNCHANGED <<acquireVars, faults>>)
    /\ WF_vars(SubscribeAccepted /\ UNCHANGED <<acquireVars, faults>>)
    /\ WF_vars(ListAnswered /\ UNCHANGED <<acquireVars, faults>>)

Spec == Init /\ [][Next]_vars /\ Fairness
==============================================================================
