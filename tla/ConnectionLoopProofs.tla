------------------------- MODULE ConnectionLoopProofs -------------------------
(***************************************************************************)
(* Who drives the connection: the connect task, the reconnect loop, the    *)
(* clean-up after a loss and close().  For any number of attempts: close() *)
(* leaves nothing it refers to running, one attempt runs at a time if      *)
(* connect() by hand keeps away from the loop, and a loop that does not    *)
(* give up leaves it to close() to release every consumer.                 *)
(***************************************************************************)
EXTENDS ConnectionProofs, FiniteSetTheorems

(***************************************************************************)
(* The shutdown.                                                           *)
(***************************************************************************)

\* close() sets _closed and CLOSED before its first await.
ShutFirst == closer \in {"notifying", "done"} => closed /\ state = "CLOSED"

ShutInv == ShutFirst /\ CloseStopsEverything

(***************************************************************************)
(* The reconnect loop, whatever the policy.                                *)
(***************************************************************************)

Active == {"created", "backoff", "opening"}

\* The connect task's attempt was begun.
HandBegun == connectTask <= opened

\* An attempt that nobody made by hand is the reconnect loop's, which awaits it.
LoopOwns ==
    \A a \in Attempts : att[a] \in InProgress /\ a # connectTask => rtask = "opening"

\* The loop awaits one attempt.
LoopAlone ==
    \A a, b \in Attempts :
        att[a] \in InProgress /\ att[b] \in InProgress
            /\ a # connectTask /\ b # connectTask => a = b

\* The loop and the heartbeat begin after the first success.
LoopAfterSuccess == rtask # "none" => everAuth /\ Reconnects
HeartbeatAfterSuccess == hb # "none" => everAuth
SuccessBegun == everAuth => opened >= 1

\* The loop tries no more often than attempts were begun.
TriesBehind ==
    /\ rtask \in {"created", "opening"} => tries < opened
    /\ rtask = "backoff" => tries <= opened

\* A rejected attempt closes the client before it awaits the dispatcher.
DrainedIsClosed == \A a \in Attempts : att[a] = "draining" => closed

\* An attempt that gathers an old heartbeat has succeeded, where there are heartbeats.
SwapsHeartbeats == \A a \in Attempts : att[a] = "swapping" => Heartbeats /\ everAuth

LoopInv ==
    /\ HandBegun
    /\ LoopOwns
    /\ LoopAlone
    /\ LoopAfterSuccess
    /\ HeartbeatAfterSuccess
    /\ SuccessBegun
    /\ TriesBehind
    /\ DrainedIsClosed
    /\ SwapsHeartbeats

(***************************************************************************)
(* One attempt at a time.                                                  *)
(***************************************************************************)

\* A loop that only a rejection or its policy ends, and that has no heartbeat to gather.
Steady == ~Heartbeats /\ "version" \notin Failures

\* One that gives up no sooner than with the last attempt there is.
Untiring == Steady /\ MaxTries + 1 >= MaxAttempts

\* The applications and policies under which a connect() by hand does not meet the
\* reconnect loop: there is no loop; the application connects once; or it waits for a
\* clean-up, and the loop leaves it no attempt when it gives up.
Coalescing ==
    \/ ~Reconnects
    \/ ConnectAgain = "never"
    \/ ConnectAgain = "afterCleanup" /\ Untiring

\* No attempt fails, or is told to fail, this way.
NoneFails(kind) == \A a \in Attempts : why[a] # kind /\ auth[a] # kind

Losing == "losing" \in {hb, lossTask} \cup {rcv[a] : a \in Attempts}

\* The client is closed or connected, or something is about to repair the connection.
Repairing == closed \/ state = "AUTHENTICATED" \/ Losing \/ rtask \in Active

\* The loop has made the attempts its policy allows and told the close listeners.
GaveUp == closeNotified /\ opened > MaxTries

\* After the first success the reconnect loop alone connects ...
HandsOff ==
    everAuth /\ Reconnects =>
        \A a \in Attempts : a = connectTask => att[a] \notin InProgress

\* ... for the application has connected, and does so no more, or has to wait.
HandsTied ==
    everAuth /\ Reconnects =>
        /\ connectTask # 0
        /\ Steady => Repairing \/ GaveUp

CoalesceInv ==
    /\ "version" \notin Failures => NoneFails("version")
    /\ HandsOff
    /\ HandsTied

(***************************************************************************)
(* The consumers.                                                          *)
(***************************************************************************)

\* A policy that gives up on nothing: the default one, of a broker that refuses no
\* credentials and speaks the client's protocol.
Persistent ==
    /\ "rejected" \notin Failures /\ "version" \notin Failures
    /\ MaxTries >= MaxAttempts

\* Only close() closes, and only it tells the listeners.
CloseAlone ==
    /\ closed => closer \in {"notifying", "done"}
    /\ closer # "skipped"
    /\ closeNotified => closer = "done"

ReleaseInv ==
    /\ NoneFails("rejected") /\ NoneFails("version")
    /\ CloseAlone
    /\ ConsumersReleased

------------------------------------------------------------------------------
(* close() stops everything. *)

LEMMA ShutInit == Init => ShutInv
  BY DEF Init, ShutInv, ShutFirst, CloseStopsEverything

\* No attempt runs on after close(), and none begins: an attempt's step needs the
\* attempt, a new one needs an open client.
LEMMA ShutAttempts ==
    ASSUME TypeOK, ShutInv, NEW a \in Attempts, AttemptStep(a)
    PROVE  ShutInv'
<1> USE DEF connVars, authVars, attemptVars, loopVars, genVars, taskVars, InProgress,
            SetState, Unwind, Authenticated, LoopAgain
<1>1. closer' = closer /\ att[a] \in InProgress
  BY DEF AttemptStep, ConnectStarts, Dialed, SendConnect, AttemptFails, AuthSettled, Restored,
         HeartbeatSwapped, Unwound, Drained
<1>2. closed => closed' /\ state' \in {state, "CLOSED"}
  <2>1. CASE ConnectStarts(a) \/ Dialed(a) \/ SendConnect(a) \/ AttemptFails(a)
    BY <2>1 DEF ConnectStarts, Dialed, SendConnect, AttemptFails
  <2>2. CASE AuthSettled(a)
    BY <2>2 DEF AuthSettled
  <2>3. CASE Restored(a) \/ HeartbeatSwapped(a) \/ Drained(a)
    BY <2>3 DEF Restored, HeartbeatSwapped, Drained
  <2>4. CASE Unwound(a)
    BY <2>4 DEF Unwound, AfterFailure
  <2> QED
    BY <2>1, <2>2, <2>3, <2>4 DEF AttemptStep
<1>3. closer # "done"
  BY <1>1 DEF ShutInv, CloseStopsEverything
<1> QED
  BY <1>1, <1>2, <1>3 DEF ShutInv, ShutFirst, CloseStopsEverything

\* A clean-up that ends after close() starts no reconnect loop (connection.py:566-569).
LEMMA ShutLosses ==
    ASSUME TypeOK, ShutInv,
           \/ LossTaskRuns \/ LossTaskEnds \/ HeartbeatFails \/ HeartbeatStops
           \/ HeartbeatLossEnds \/ \E a \in Attempts : ReceiverLossEnds(a)
    PROVE  ShutInv'
<1> USE DEF connVars, authVars, attemptVars, loopVars, genVars, taskVars, SetState, Settled
<1>1. closer' = closer /\ closed' = closed /\ att' = att /\ receiver' = receiver
  BY DEF LossTaskRuns, LossTaskEnds, HeartbeatFails, HeartbeatStops, HeartbeatLossEnds,
         ReceiverLossEnds, Lost
<1>2. closed => state' = state
  BY DEF LossTaskRuns, LossTaskEnds, HeartbeatFails, HeartbeatStops, HeartbeatLossEnds,
         ReceiverLossEnds, Lost
<1>3. ASSUME closer = "done" PROVE CloseStopsEverything'
  <2>1. closed /\ state = "CLOSED" /\ lossTask # "losing" /\ hb # "losing"
    BY <1>3 DEF ShutInv, ShutFirst, CloseStopsEverything
  <2>2. rtask' = rtask
    BY <2>1 DEF LossTaskRuns, LossTaskEnds, HeartbeatFails, HeartbeatStops,
                HeartbeatLossEnds, ReceiverLossEnds, StartReconnect
  <2>3. lossTask' \in {lossTask, "done"} /\ hb' \in {hb, "done"}
    BY <2>1 DEF LossTaskRuns, LossTaskEnds, HeartbeatFails, HeartbeatStops,
                HeartbeatLossEnds, ReceiverLossEnds, Lost
  <2>4. ASSUME NEW b \in Attempts PROVE rcv'[b] \in {rcv[b], "done"}
    <3>1. CASE LossTaskRuns \/ LossTaskEnds \/ HeartbeatFails \/ HeartbeatStops
      BY <2>1, <3>1 DEF LossTaskRuns, LossTaskEnds, HeartbeatFails, HeartbeatStops, Lost
    <3>2. CASE HeartbeatLossEnds
      BY <3>2 DEF HeartbeatLossEnds
    <3>3. ASSUME NEW a \in Attempts, ReceiverLossEnds(a) PROVE rcv'[b] \in {rcv[b], "done"}
      BY <3>3 DEF TypeOK, ReceiverLossEnds
    <3> QED
      BY <3>1, <3>2, <3>3
  <2> QED
    BY <1>1, <1>3, <2>2, <2>3, <2>4 DEF ShutInv, CloseStopsEverything
<1> QED
  BY <1>1, <1>2, <1>3 DEF ShutInv, ShutFirst, CloseStopsEverything

\* The loop wakes up in a closed client, and the application and the network act.
LEMMA ShutOthers ==
    ASSUME TypeOK, ShutInv,
           \/ LoopStep \/ CallConnect \/ CallClose \/ CloseEnds \/ Subscribe
           \/ RequestBegins \/ \E a \in Attempts : ReceiverStep(a) \/ RequestEnds(a)
    PROVE  ShutInv'
<1> USE DEF connVars, authVars, attemptVars, loopVars, genVars, taskVars, SetState
<1>1. CASE LoopStep
  <2>1. closer # "done" /\ closer' = closer
    BY <1>1 DEF LoopStep, ReconnectStarts, BackoffEnds, ShutInv, CloseStopsEverything
  <2>2. closed => closed' /\ state' = state
    BY <1>1 DEF LoopStep, ReconnectStarts, BackoffEnds, LoopAgain
  <2> QED
    BY <2>1, <2>2 DEF ShutInv, ShutFirst, CloseStopsEverything
<1>2. CASE CallConnect
  <2>1. closer' = closer /\ closed' = closed /\ state' = state /\ ~closed
    BY <1>2 DEF CallConnect
  <2> QED
    BY <2>1 DEF ShutInv, ShutFirst, CloseStopsEverything
<1>3. CASE CallClose
  BY <1>3 DEF CallClose, ShutInv, ShutFirst, CloseStopsEverything
<1>4. CASE CloseEnds
  <2>1. closed' /\ state' = "CLOSED"
    BY <1>4 DEF CloseEnds, ShutInv, ShutFirst
  <2>2. /\ rtask' \in {"none", "done"} /\ lossTask' \in {"none", "done"}
        /\ hb' \in {"none", "done"}
    BY <1>4 DEF CloseEnds, Cancelled
  <2>3. ASSUME NEW b \in Attempts PROVE att'[b] \notin InProgress
    BY <1>4, <2>3 DEF CloseEnds, InProgress
  <2>4. ASSUME NEW b \in Attempts, b = receiver' PROVE rcv'[b] \in {"none", "done"}
    BY <1>4, <2>4 DEF CloseEnds, Cancelled
  <2> QED
    BY <2>1, <2>2, <2>3, <2>4 DEF ShutInv, ShutFirst, CloseStopsEverything
<1>5. CASE Subscribe \/ RequestBegins
  BY <1>5 DEF Subscribe, RequestBegins, ShutInv, ShutFirst, CloseStopsEverything
<1>6. ASSUME NEW a \in Attempts, RequestEnds(a) PROVE ShutInv'
  BY <1>6 DEF RequestEnds, ShutInv, ShutFirst, CloseStopsEverything
<1>7. ASSUME NEW a \in Attempts, ReceiverStep(a) PROVE ShutInv'
  <2>1. UNCHANGED <<closer, closed, att, rtask, hb, lossTask, receiver>>
    BY <1>7 DEF ReceiverStep, ReceiveHello, ReceiveRaises, ReceiverRetires, Lost
  <2>2. closed => state' = state
    BY <1>7 DEF ReceiverStep, ReceiveHello, ReceiveRaises, ReceiverRetires, Lost
  <2>3. ASSUME closed, NEW b \in Attempts PROVE rcv'[b] \in {rcv[b], "done"}
    BY <1>7, <2>3 DEF TypeOK, ReceiverStep, ReceiveHello, ReceiveRaises, ReceiverRetires
  <2> QED
    BY <2>1, <2>2, <2>3 DEF ShutInv, ShutFirst, CloseStopsEverything
<1> QED
  BY <1>1, <1>2, <1>3, <1>4, <1>5, <1>6, <1>7

LEMMA ShutStep == ConnInv /\ ShutInv /\ [Next]_vars => ShutInv'
<1> SUFFICES ASSUME ConnInv, ShutInv, [Next]_vars PROVE ShutInv'
  OBVIOUS
<1>0. TypeOK
  BY DEF ConnInv
<1>1. CASE UNCHANGED vars
  BY <1>1 DEF vars, connVars, authVars, attemptVars, loopVars, taskVars, ShutInv, ShutFirst,
              CloseStopsEverything
<1>2. CASE Next
  BY <1>0, <1>2, ShutAttempts, ShutLosses, ShutOthers DEF Next
<1> QED
  BY <1>1, <1>2

\* Whatever the connection still refers to when close() is called - an attempt, a back-off,
\* a clean-up after a loss, a heartbeat, its receive task - none of it runs on, nor starts
\* anything, once close() has returned (connection.py:162-198, 566-569).  A receive task
\* that a later attempt has superseded (connection.py:353) is not among them: that is the
\* exception CloseStopsEverything names.
THEOREM CloseIsThorough == Spec => []CloseStopsEverything
<1>1. ShutInv => CloseStopsEverything
  BY DEF ShutInv
<1>2. Spec => []ShutInv
  BY ShutInit, ShutStep, ConnInvariant, PTL DEF Spec
<1> QED
  BY <1>1, <1>2, PTL

------------------------------------------------------------------------------
(* The reconnect loop: which steps touch it, and what they leave behind. *)

LEMMA LoopInit == Init => LoopInv
<1> SUFFICES ASSUME Init PROVE LoopInv
  OBVIOUS
<1> USE ConnectionAssumption DEF ConnectionAssumption, Attempts, InProgress
<1>1. HandBegun /\ LoopOwns /\ LoopAlone
  BY DEF Init, HandBegun, LoopOwns, LoopAlone
<1>2. LoopAfterSuccess /\ HeartbeatAfterSuccess /\ SuccessBegun /\ TriesBehind
  BY DEF Init, LoopAfterSuccess, HeartbeatAfterSuccess, SuccessBegun, TriesBehind
<1>3. DrainedIsClosed /\ SwapsHeartbeats
  BY DEF Init, DrainedIsClosed, SwapsHeartbeats
<1> QED
  BY <1>1, <1>2, <1>3 DEF LoopInv

\* A step that touches neither the attempts nor the loop.
LEMMA LoopUntouched ==
    ASSUME LoopInv,
           UNCHANGED <<connectTask, opened, att, rtask, tries, everAuth>>,
           hb' = "none" => hb = "none",
           hb' # "none" => hb # "none",
           closed => closed'
    PROVE  LoopInv'
<1>1. /\ connectTask' = connectTask /\ opened' = opened /\ att' = att
      /\ rtask' = rtask /\ tries' = tries /\ everAuth' = everAuth
  OBVIOUS
<1>2. HandBegun' /\ LoopOwns' /\ LoopAlone'
  BY <1>1 DEF LoopInv, HandBegun, LoopOwns, LoopAlone
<1>3. LoopAfterSuccess' /\ HeartbeatAfterSuccess' /\ SuccessBegun' /\ TriesBehind'
  BY <1>1 DEF LoopInv, LoopAfterSuccess, HeartbeatAfterSuccess, SuccessBegun, TriesBehind
<1>4. DrainedIsClosed' /\ SwapsHeartbeats'
  BY <1>1 DEF LoopInv, DrainedIsClosed, SwapsHeartbeats
<1> QED
  BY <1>2, <1>3, <1>4 DEF LoopInv

\* The end of a clean-up, which may begin the loop.
LEMMA LoopBegun ==
    ASSUME TypeOK, LoopInv, StartReconnect,
           UNCHANGED <<connectTask, opened, att, everAuth, closed>>,
           hb' # "none" => hb # "none"
    PROVE  LoopInv'
<1> USE ConnectionAssumption DEF ConnectionAssumption
<1>1. /\ connectTask' = connectTask /\ opened' = opened /\ att' = att
      /\ everAuth' = everAuth /\ closed' = closed
  OBVIOUS
<1>2. \/ rtask' = rtask /\ tries' = tries
      \/ /\ rtask' = "created" /\ tries' = 0
         /\ rtask \in {"none", "done"} /\ everAuth /\ Reconnects
  BY DEF StartReconnect
<1>3. HandBegun' /\ LoopAlone' /\ SuccessBegun' /\ DrainedIsClosed' /\ SwapsHeartbeats'
  BY <1>1 DEF LoopInv, HandBegun, LoopAlone, SuccessBegun, DrainedIsClosed, SwapsHeartbeats
<1>4. LoopOwns'
  BY <1>1, <1>2 DEF LoopInv, LoopOwns
<1>5. LoopAfterSuccess' /\ HeartbeatAfterSuccess'
  BY <1>1, <1>2 DEF LoopInv, LoopAfterSuccess, HeartbeatAfterSuccess
<1>6. TriesBehind'
  <2>1. CASE rtask' = rtask /\ tries' = tries
    BY <1>1, <2>1 DEF LoopInv, TriesBehind
  <2>2. CASE rtask' = "created" /\ tries' = 0 /\ everAuth
    BY <1>1, <2>2 DEF LoopInv, TriesBehind, SuccessBegun, TypeOK
  <2> QED
    BY <1>2, <2>1, <2>2
<1> QED
  BY <1>3, <1>4, <1>5, <1>6 DEF LoopInv

\* An attempt goes on.
LEMMA LoopGoesOn ==
    ASSUME TypeOK, LoopInv, NEW a \in Attempts, att[a] \in InProgress,
           NEW stage, att' = [att EXCEPT ![a] = stage],
           stage = "draining" => closed', stage # "swapping",
           UNCHANGED <<connectTask, opened, rtask, tries, everAuth, hb>>,
           closed => closed'
    PROVE  LoopInv'
<1>1. /\ connectTask' = connectTask /\ opened' = opened /\ everAuth' = everAuth
      /\ rtask' = rtask /\ tries' = tries /\ hb' = hb
  OBVIOUS
<1>2. /\ \A b \in Attempts : att'[b] \in InProgress => att[b] \in InProgress
      /\ \A b \in Attempts : b # a => att'[b] = att[b]
      /\ att'[a] = stage
  BY DEF TypeOK
<1>3. HandBegun' /\ LoopOwns' /\ LoopAlone'
  BY <1>1, <1>2 DEF LoopInv, HandBegun, LoopOwns, LoopAlone
<1>4. LoopAfterSuccess' /\ HeartbeatAfterSuccess' /\ SuccessBegun' /\ TriesBehind'
  BY <1>1 DEF LoopInv, LoopAfterSuccess, HeartbeatAfterSuccess, SuccessBegun, TriesBehind
<1>5. DrainedIsClosed' /\ SwapsHeartbeats'
  BY <1>1, <1>2 DEF LoopInv, DrainedIsClosed, SwapsHeartbeats
<1> QED
  BY <1>3, <1>4, <1>5 DEF LoopInv

\* An attempt ends; the loop, if the attempt was its own, ends with it or tries again.
LEMMA LoopAttemptEnds ==
    ASSUME TypeOK, LoopInv, NEW a \in Attempts, att[a] \in InProgress,
           NEW stage \in {"done", "failed"}, att' = [att EXCEPT ![a] = stage],
           a = connectTask => rtask' = rtask /\ tries' = tries,
           a # connectTask =>
               \/ rtask' = "done"
               \/ rtask' = "backoff" /\ tries' = tries + 1,
           connectTask' = connectTask, opened' = opened,
           everAuth => everAuth', everAuth' => opened >= 1,
           hb' # "none" => everAuth',
           closed => closed'
    PROVE  LoopInv'
<1> USE ConnectionAssumption DEF ConnectionAssumption
<1>1. /\ \A b \in Attempts : b # a => att'[b] = att[b]
      /\ att'[a] = stage /\ stage \notin InProgress
  BY DEF TypeOK, InProgress
<1>2. HandBegun' /\ HeartbeatAfterSuccess' /\ SuccessBegun'
  BY DEF LoopInv, HandBegun, HeartbeatAfterSuccess, SuccessBegun
<1>3. DrainedIsClosed' /\ SwapsHeartbeats'
  BY <1>1 DEF LoopInv, DrainedIsClosed, SwapsHeartbeats
<1>4. LoopAlone'
  BY <1>1 DEF LoopInv, LoopAlone
<1>5. CASE a = connectTask
  <2>1. LoopOwns'
    BY <1>1, <1>5 DEF LoopInv, LoopOwns
  <2>2. LoopAfterSuccess' /\ TriesBehind'
    BY <1>5 DEF LoopInv, LoopAfterSuccess, TriesBehind
  <2> QED
    BY <1>2, <1>3, <1>4, <2>1, <2>2 DEF LoopInv
<1>6. CASE a # connectTask
  <2>1. rtask = "opening" /\ rtask' # "none"
    BY <1>6 DEF LoopInv, LoopOwns
  <2>2. everAuth /\ Reconnects
    BY <2>1 DEF LoopInv, LoopAfterSuccess
  <2>3. LoopOwns'
    <3> SUFFICES ASSUME NEW b \in Attempts, att'[b] \in InProgress, b # connectTask
                 PROVE  FALSE
      BY DEF LoopOwns
    <3>1. b # a /\ att[b] \in InProgress
      BY <1>1
    <3> QED
      BY <1>6, <3>1 DEF LoopInv, LoopAlone
  <2>4. LoopAfterSuccess'
    BY <2>2 DEF LoopAfterSuccess
  <2>5. TriesBehind'
    <3>1. tries < opened
      BY <2>1 DEF LoopInv, TriesBehind
    <3> QED
      BY <1>6, <3>1 DEF TriesBehind, TypeOK
  <2> QED
    BY <1>2, <1>3, <1>4, <2>3, <2>4, <2>5 DEF LoopInv
<1> QED
  BY <1>5, <1>6

\* The client is authenticated: an attempt ends, or waits for the old heartbeat.
LEMMA LoopAuthenticated ==
    ASSUME ConnInv, LoopInv, NEW a \in Attempts, att[a] \in InProgress, Authenticated(a),
           UNCHANGED <<connectTask, opened, tries, closed>>
    PROVE  LoopInv'
<1> USE ConnectionAssumption DEF ConnectionAssumption
<1>0. TypeOK /\ opened >= 1
  <2>1. TypeOK /\ ~(a > opened)
    BY DEF ConnInv, NotBegun, InProgress
  <2> QED
    BY <2>1 DEF Attempts, TypeOK
<1>1. /\ connectTask' = connectTask /\ opened' = opened /\ tries' = tries
      /\ closed' = closed /\ everAuth'
  BY DEF Authenticated
<1>2. CASE Heartbeats /\ hb # "none"
  <2>1. att' = [att EXCEPT ![a] = "swapping"] /\ rtask' = rtask /\ hb' = "done"
    BY <1>2 DEF Authenticated
  <2>2. /\ \A b \in Attempts : att'[b] \in InProgress => att[b] \in InProgress
        /\ \A b \in Attempts : b # a => att'[b] = att[b]
        /\ att'[a] = "swapping"
    BY <1>0, <2>1 DEF TypeOK
  <2>3. HandBegun' /\ LoopOwns' /\ LoopAlone'
    BY <1>1, <2>1, <2>2 DEF LoopInv, HandBegun, LoopOwns, LoopAlone
  <2>4. LoopAfterSuccess' /\ HeartbeatAfterSuccess' /\ SuccessBegun' /\ TriesBehind'
    BY <1>0, <1>1, <2>1
       DEF LoopInv, LoopAfterSuccess, HeartbeatAfterSuccess, SuccessBegun, TriesBehind
  <2>5. DrainedIsClosed' /\ SwapsHeartbeats'
    BY <1>1, <1>2, <2>2 DEF LoopInv, DrainedIsClosed, SwapsHeartbeats
  <2> QED
    BY <2>3, <2>4, <2>5 DEF LoopInv
<1>3. CASE ~(Heartbeats /\ hb # "none")
  <2>1. /\ att' = [att EXCEPT ![a] = "done"]
        /\ rtask' = IF a = connectTask THEN rtask ELSE "done"
    BY <1>3 DEF Authenticated, LoopEnds
  <2>2. /\ a = connectTask => rtask' = rtask /\ tries' = tries
        /\ a # connectTask => \/ rtask' = "done"
                              \/ rtask' = "backoff" /\ tries' = tries + 1
    BY <1>1, <2>1
  <2>3. /\ everAuth => everAuth'
        /\ everAuth' => opened >= 1
        /\ hb' # "none" => everAuth'
        /\ closed => closed'
    BY <1>0, <1>1
  <2>4. "done" \in {"done", "failed"}
    OBVIOUS
  <2> HIDE DEF Attempts
  <2> QED
    BY <1>0, <1>1, <2>1, <2>2, <2>3, <2>4, LoopAttemptEnds
<1> QED
  BY <1>2, <1>3

\* The head of the loop after an attempt or before the first.
LEMMA LoopHead ==
    ASSUME LoopAgain
    PROVE  \/ rtask' = "done"
           \/ rtask' = "backoff" /\ tries' = tries + 1
  BY DEF LoopAgain

LEMMA LoopByAttempts ==
    ASSUME ConnInv, LoopInv, NEW a \in Attempts,
           ConnectStarts(a) \/ Dialed(a) \/ SendConnect(a) \/ AttemptFails(a)
    PROVE  LoopInv'
<1> USE DEF connVars, authVars, attemptVars, loopVars, genVars, taskVars
<1>0. TypeOK
  BY DEF ConnInv
<1>1. /\ att[a] \in InProgress
      /\ UNCHANGED <<connectTask, opened, rtask, tries, everAuth, hb, closed>>
  BY DEF ConnectStarts, Dialed, SendConnect, AttemptFails, InProgress, Unwind, SetState
<1>2. PICK stage \in {"failed", "dialing", "sending", "hello", "unwinding"} :
          att' = [att EXCEPT ![a] = stage]
  BY DEF ConnectStarts, Dialed, SendConnect, AttemptFails, Unwind
<1>3. stage # "draining" /\ stage # "swapping"
  OBVIOUS
<1> QED
  BY <1>0, <1>1, <1>2, <1>3, LoopGoesOn

\* An answer to CONNECT, and the end of the restoration.
LEMMA LoopByAnswers ==
    ASSUME ConnInv, LoopInv, NEW a \in Attempts, AuthSettled(a) \/ Restored(a)
    PROVE  LoopInv'
<1> USE DEF connVars, authVars, attemptVars, loopVars, genVars, taskVars
<1>0. TypeOK
  BY DEF ConnInv
<1>1. /\ att[a] \in InProgress
      /\ UNCHANGED <<connectTask, opened, tries, closed>>
  BY DEF AuthSettled, Restored, InProgress, Unwind, SetState
<1>2. \/ Authenticated(a)
      \/ /\ UNCHANGED <<rtask, everAuth, hb>>
         /\ \E stage \in {"restoring", "unwinding"} : att' = [att EXCEPT ![a] = stage]
  BY DEF AuthSettled, Restored, Unwind
<1>3. CASE Authenticated(a)
  BY <1>1, <1>3, LoopAuthenticated
<1>4. ASSUME UNCHANGED <<rtask, everAuth, hb>>,
             NEW stage \in {"restoring", "unwinding"}, att' = [att EXCEPT ![a] = stage]
      PROVE  LoopInv'
  <2>1. stage # "draining" /\ stage # "swapping"
    OBVIOUS
  <2> QED
    BY <1>0, <1>1, <1>4, <2>1, LoopGoesOn
<1> QED
  BY <1>2, <1>3, <1>4

\* The old heartbeat was gathered, or the dispatcher closed.
LEMMA LoopByEnds ==
    ASSUME ConnInv, LoopInv, NEW a \in Attempts, HeartbeatSwapped(a) \/ Drained(a)
    PROVE  LoopInv'
<1> USE DEF connVars, authVars, attemptVars, loopVars, genVars, taskVars
<1>0. TypeOK
  BY DEF ConnInv
<1>1. /\ att[a] \in InProgress
      /\ connectTask' = connectTask /\ opened' = opened /\ tries' = tries
      /\ everAuth' = everAuth /\ closed' = closed
      /\ rtask' = IF a = connectTask THEN rtask ELSE "done"
  BY DEF HeartbeatSwapped, Drained, InProgress, LoopEnds
<1>2. PICK stage \in {"done", "failed"} : att' = [att EXCEPT ![a] = stage]
  BY DEF HeartbeatSwapped, Drained
<1>3. /\ a = connectTask => rtask' = rtask /\ tries' = tries
      /\ a # connectTask => \/ rtask' = "done"
                            \/ rtask' = "backoff" /\ tries' = tries + 1
  BY <1>1
<1>4. /\ everAuth => everAuth'
      /\ everAuth' => opened >= 1
      /\ closed => closed'
  BY <1>1 DEF LoopInv, SuccessBegun
<1>5. hb' # "none" => everAuth'
  <2>1. CASE HeartbeatSwapped(a)
    <3>1. CASE a = connectTask
      BY <1>1, <2>1 DEF HeartbeatSwapped, LoopInv, SwapsHeartbeats
    <3>2. CASE a # connectTask
      BY <1>1, <3>2 DEF LoopInv, LoopOwns, LoopAfterSuccess
    <3> QED
      BY <3>1, <3>2
  <2>2. CASE Drained(a)
    BY <1>1, <2>2 DEF Drained, LoopInv, HeartbeatAfterSuccess
  <2> QED
    BY <2>1, <2>2
<1> HIDE DEF Attempts
<1> QED
  BY <1>0, <1>1, <1>2, <1>3, <1>4, <1>5, LoopAttemptEnds

\* A failed attempt has closed its transport: the client closes, or the attempt ends.
LEMMA LoopByUnwinding ==
    ASSUME ConnInv, LoopInv, NEW a \in Attempts, Unwound(a)
    PROVE  LoopInv'
<1> USE DEF connVars, authVars, attemptVars, loopVars, genVars, taskVars
<1>0. TypeOK
  BY DEF ConnInv
<1>1. /\ att[a] \in InProgress
      /\ connectTask' = connectTask /\ opened' = opened /\ everAuth' = everAuth /\ hb' = hb
  BY DEF Unwound, InProgress
<1>2. CASE why[a] = "rejected"
  <2>1. closed' /\ att' = [att EXCEPT ![a] = "draining"] /\ UNCHANGED <<rtask, tries>>
    BY <1>2 DEF Unwound
  <2> QED
    BY <1>0, <1>1, <2>1, LoopGoesOn
<1>3. CASE why[a] # "rejected"
  <2>1. att' = [att EXCEPT ![a] = "failed"] /\ AfterFailure(a) /\ closed' = closed
    BY <1>3 DEF Unwound
  <2>2. /\ a = connectTask => rtask' = rtask /\ tries' = tries
        /\ a # connectTask => \/ rtask' = "done"
                              \/ rtask' = "backoff" /\ tries' = tries + 1
    BY <2>1, LoopHead DEF AfterFailure
  <2>3. /\ everAuth => everAuth'
        /\ everAuth' => opened >= 1
        /\ hb' # "none" => everAuth'
        /\ closed => closed'
    BY <1>1, <2>1 DEF LoopInv, SuccessBegun, HeartbeatAfterSuccess
  <2>4. "failed" \in {"done", "failed"}
    OBVIOUS
  <2> HIDE DEF Attempts
  <2> QED
    BY <1>0, <1>1, <2>1, <2>2, <2>3, <2>4, LoopAttemptEnds
<1> QED
  BY <1>2, <1>3

\* connect() begins an attempt by hand; it makes the last one's number free for nobody.
LEMMA LoopByConnect ==
    ASSUME ConnInv, LoopInv, CallConnect
    PROVE  LoopInv'
<1> USE ConnectionAssumption
    DEF ConnectionAssumption, connVars, authVars, attemptVars, loopVars, genVars, taskVars
<1>0. TypeOK
  BY DEF ConnInv
<1>1. /\ NobodyConnecting /\ opened < MaxAttempts
      /\ opened' = opened + 1 /\ connectTask' = opened + 1
      /\ att' = [att EXCEPT ![opened + 1] = "created"]
      /\ rtask' = rtask /\ tries' = tries /\ everAuth' = everAuth /\ hb' = hb
      /\ closed' = closed
  BY DEF CallConnect
<1>2. opened \in Nat /\ opened + 1 \in Attempts
  BY <1>0, <1>1 DEF TypeOK, Attempts
<1>3. \A b \in Attempts : att[b] \notin InProgress
  BY <1>1 DEF NobodyConnecting, LoopInv, LoopOwns
<1>4. /\ \A b \in Attempts : b # opened + 1 => att'[b] \notin InProgress
      /\ att'[opened + 1] = "created"
  BY <1>0, <1>1, <1>2, <1>3 DEF TypeOK
<1>5. HandBegun' /\ LoopOwns' /\ LoopAlone'
  BY <1>1, <1>2, <1>4 DEF HandBegun, LoopOwns, LoopAlone
<1>6. LoopAfterSuccess' /\ HeartbeatAfterSuccess' /\ SuccessBegun'
  BY <1>1, <1>2 DEF LoopInv, LoopAfterSuccess, HeartbeatAfterSuccess, SuccessBegun
<1>7. TriesBehind'
  BY <1>0, <1>1, <1>2 DEF LoopInv, TriesBehind, TypeOK
<1>8. DrainedIsClosed' /\ SwapsHeartbeats'
  BY <1>1, <1>4 DEF DrainedIsClosed, SwapsHeartbeats, InProgress
<1> QED
  BY <1>5, <1>6, <1>7, <1>8 DEF LoopInv

\* The loop goes around, or begins an attempt.
LEMMA LoopByLoop ==
    ASSUME ConnInv, LoopInv, LoopStep
    PROVE  LoopInv'
<1> USE ConnectionAssumption
    DEF ConnectionAssumption, connVars, authVars, attemptVars, loopVars, genVars, taskVars
<1>0. TypeOK /\ opened \in Nat /\ tries \in Nat
  BY DEF ConnInv, TypeOK
<1>1. /\ rtask \in {"created", "backoff"} /\ rtask' # "none"
      /\ connectTask' = connectTask /\ everAuth' = everAuth /\ hb' = hb /\ closed' = closed
  BY DEF LoopStep, ReconnectStarts, BackoffEnds, LoopAgain
<1>2. \A b \in Attempts : b # connectTask => att[b] \notin InProgress
  BY <1>1 DEF LoopInv, LoopOwns
<1>3. LoopAfterSuccess' /\ HeartbeatAfterSuccess'
  BY <1>1 DEF LoopInv, LoopAfterSuccess, HeartbeatAfterSuccess
<1>4. CASE att' = att /\ opened' = opened /\ LoopAgain
  <2>1. HandBegun' /\ LoopOwns' /\ LoopAlone'
    BY <1>1, <1>2, <1>4 DEF LoopInv, HandBegun, LoopOwns, LoopAlone
  <2>2. SuccessBegun' /\ DrainedIsClosed' /\ SwapsHeartbeats'
    BY <1>1, <1>4 DEF LoopInv, SuccessBegun, DrainedIsClosed, SwapsHeartbeats
  <2>3. TriesBehind'
    <3>1. rtask = "created" \/ rtask' = "done"
      BY <1>1, <1>4 DEF LoopStep, ReconnectStarts, BackoffEnds, LoopAgain
    <3> QED
      BY <1>0, <1>4, <3>1, LoopHead DEF LoopInv, TriesBehind
  <2> QED
    BY <1>3, <2>1, <2>2, <2>3 DEF LoopInv
<1>5. CASE /\ opened < MaxAttempts /\ opened' = opened + 1 /\ rtask = "backoff"
           /\ att' = [att EXCEPT ![opened + 1] = "dialing"]
           /\ rtask' = "opening" /\ tries' = tries
  <2>1. opened + 1 \in Attempts
    BY <1>0, <1>5 DEF Attempts
  <2>2. /\ \A b \in Attempts : b # opened + 1 => att'[b] = att[b]
        /\ att'[opened + 1] = "dialing"
    BY <1>0, <1>5, <2>1 DEF TypeOK
  <2>3. HandBegun' /\ SuccessBegun'
    BY <1>0, <1>1, <1>5 DEF LoopInv, HandBegun, SuccessBegun, TypeOK
  <2>4. LoopOwns' /\ LoopAlone'
    BY <1>1, <1>2, <1>5, <2>2 DEF LoopOwns, LoopAlone
  <2>5. DrainedIsClosed' /\ SwapsHeartbeats'
    BY <1>1, <2>2 DEF LoopInv, DrainedIsClosed, SwapsHeartbeats
  <2>6. TriesBehind'
    BY <1>0, <1>5 DEF LoopInv, TriesBehind
  <2> QED
    BY <1>3, <2>3, <2>4, <2>5, <2>6 DEF LoopInv
<1> QED
  BY <1>4, <1>5 DEF LoopStep, ReconnectStarts, BackoffEnds

\* close() ends: every attempt has failed and the loop is cancelled.
LEMMA LoopByClose ==
    ASSUME ConnInv, LoopInv, CloseEnds
    PROVE  LoopInv'
<1> USE DEF connVars, authVars, attemptVars, loopVars, genVars, taskVars
<1>1. /\ connectTask' = connectTask /\ opened' = opened /\ everAuth' = everAuth
      /\ rtask' = IF rtask = "none" THEN rtask ELSE "done"
      /\ hb' = IF hb = "none" THEN hb ELSE "done"
  BY DEF CloseEnds, Cancelled
<1>2. \A b \in Attempts : att'[b] \notin InProgress
  BY DEF CloseEnds, InProgress
<1>3. HandBegun' /\ LoopOwns' /\ LoopAlone'
  BY <1>1, <1>2 DEF LoopInv, HandBegun, LoopOwns, LoopAlone
<1>4. LoopAfterSuccess' /\ HeartbeatAfterSuccess' /\ SuccessBegun' /\ TriesBehind'
  BY <1>1 DEF LoopInv, LoopAfterSuccess, HeartbeatAfterSuccess, SuccessBegun, TriesBehind
<1>5. DrainedIsClosed' /\ SwapsHeartbeats'
  BY <1>2 DEF DrainedIsClosed, SwapsHeartbeats, InProgress
<1> QED
  BY <1>3, <1>4, <1>5 DEF LoopInv

\* The end of a clean-up.
LEMMA LoopByCleanUps ==
    ASSUME ConnInv, LoopInv,
           LossTaskEnds \/ HeartbeatLossEnds \/ \E a \in Attempts : ReceiverLossEnds(a)
    PROVE  LoopInv'
<1> USE DEF connVars, authVars, attemptVars, loopVars, genVars, taskVars
<1>1. /\ StartReconnect
      /\ UNCHANGED <<connectTask, opened, att, everAuth, closed>>
      /\ hb' # "none" => hb # "none"
  BY DEF LossTaskEnds, HeartbeatLossEnds, ReceiverLossEnds
<1> QED
  BY <1>1, LoopBegun DEF ConnInv

\* The rest.
LEMMA LoopByOthers ==
    ASSUME LoopInv,
           \/ CallClose \/ Subscribe \/ RequestBegins \/ LossTaskRuns
           \/ HeartbeatFails \/ HeartbeatStops
           \/ \E a \in Attempts : ReceiverStep(a) \/ RequestEnds(a)
    PROVE  LoopInv'
<1> USE DEF connVars, authVars, attemptVars, loopVars, genVars, taskVars
<1>1. UNCHANGED <<connectTask, opened, att, rtask, tries, everAuth>>
  BY DEF CallClose, Subscribe, RequestBegins, LossTaskRuns, HeartbeatFails, HeartbeatStops,
         ReceiverStep, ReceiveHello, ReceiveRaises, ReceiverRetires, RequestEnds
<1>2. /\ hb' = "none" => hb = "none"
      /\ hb' # "none" => hb # "none"
  BY DEF CallClose, Subscribe, RequestBegins, LossTaskRuns, HeartbeatFails, HeartbeatStops,
         ReceiverStep, ReceiveHello, ReceiveRaises, ReceiverRetires, RequestEnds
<1>3. closed => closed'
  BY DEF CallClose, Subscribe, RequestBegins, LossTaskRuns, HeartbeatFails, HeartbeatStops,
         ReceiverStep, ReceiveHello, ReceiveRaises, ReceiverRetires, RequestEnds, Lost
<1> QED
  BY <1>1, <1>2, <1>3, LoopUntouched

LEMMA LoopInvStep == ConnInv /\ LoopInv /\ [Next]_vars => LoopInv'
<1> SUFFICES ASSUME ConnInv, LoopInv, [Next]_vars PROVE LoopInv'
  OBVIOUS
<1>1. CASE UNCHANGED vars
  BY <1>1, LoopUntouched
     DEF vars, connVars, attemptVars, loopVars, genVars, taskVars
<1>2. CASE \E a \in Attempts : AttemptStep(a)
  BY <1>2, LoopByAttempts, LoopByAnswers, LoopByEnds, LoopByUnwinding DEF AttemptStep
<1>3. CASE CallConnect \/ LoopStep \/ CloseEnds
  BY <1>3, LoopByConnect, LoopByLoop, LoopByClose
<1>4. CASE LossTaskEnds \/ HeartbeatLossEnds \/ \E a \in Attempts : ReceiverLossEnds(a)
  BY <1>4, LoopByCleanUps
<1>5. CASE \/ CallClose \/ Subscribe \/ RequestBegins \/ LossTaskRuns
           \/ HeartbeatFails \/ HeartbeatStops
           \/ \E a \in Attempts : ReceiverStep(a) \/ RequestEnds(a)
  BY <1>5, LoopByOthers
<1> QED
  BY <1>1, <1>2, <1>3, <1>4, <1>5 DEF Next

LEMMA LoopInvariant == Spec => []LoopInv
  BY LoopInit, LoopInvStep, ConnInvariant, PTL DEF Spec

------------------------------------------------------------------------------
(* One attempt at a time. *)

\* An exception reaches an attempt only from a failure that can happen.
LEMMA NoneFailsStep ==
    ASSUME ConnInv, NEW kind \in {"rejected", "version"}, kind \notin Failures,
           NoneFails(kind), [Next]_vars
    PROVE  NoneFails(kind)'
<1> USE DEF connVars, authVars, attemptVars, loopVars, genVars, taskVars, NoneFails
<1>0. TypeOK
  BY DEF ConnInv
<1>1. CASE UNCHANGED vars
  BY <1>1 DEF vars
<1>2. ASSUME NEW a \in Attempts, AttemptStep(a) PROVE NoneFails(kind)'
  <2>1. CASE Dialed(a)
    BY <1>0, <2>1 DEF Dialed, TypeOK
  <2>2. CASE SendConnect(a) \/ AttemptFails(a) \/ Restored(a)
    BY <1>0, <2>2 DEF SendConnect, AttemptFails, Restored, Unwind, TypeOK
  <2>3. CASE AuthSettled(a)
    <3>1. waitsOn[a] \in Attempts
      BY <2>3 DEF AuthSettled, ConnInv, FuturesExist
    <3>2. authOf # 0 => authOf \in Attempts
      BY <1>0 DEF TypeOK, Attempts
    <3>3. /\ auth' = auth
          /\ why' = why \/ \E k : k # kind /\ why' = [why EXCEPT ![a] = k]
      BY <2>3, <3>1, <3>2 DEF AuthSettled, Unwind
    <3> QED
      BY <1>0, <3>3 DEF TypeOK
  <2>4. CASE ConnectStarts(a) \/ HeartbeatSwapped(a) \/ Unwound(a) \/ Drained(a)
    BY <2>4 DEF ConnectStarts, HeartbeatSwapped, Unwound, Drained
  <2> QED
    BY <1>2, <2>1, <2>2, <2>3, <2>4 DEF AttemptStep
<1>3. ASSUME NEW a \in Attempts, ReceiverStep(a) PROVE NoneFails(kind)'
  <2>1. why' = why
    BY <1>3 DEF ReceiverStep, ReceiveHello, ReceiveRaises, ReceiverRetires
  <2>2. \A b \in Attempts : auth'[b] = auth[b] \/ auth'[b] \in Failures \cup {"hello"}
    <3>1. CASE ReceiveHello(a) \/ ReceiverRetires(a)
      BY <1>0, <3>1 DEF ReceiveHello, ReceiverRetires, TypeOK
    <3>2. ASSUME NEW k \in Failures, ReceiveRaises(a, k)
          PROVE  \A b \in Attempts : auth'[b] = auth[b] \/ auth'[b] \in Failures
      BY <1>0, <3>2 DEF ReceiveRaises, TypeOK
    <3> QED
      BY <1>3, <3>1, <3>2 DEF ReceiverStep
  <2> QED
    BY <2>1, <2>2
<1>4. CASE \/ CallConnect \/ CallClose \/ CloseEnds \/ Subscribe \/ RequestBegins
           \/ LoopStep \/ LossTaskRuns \/ LossTaskEnds
           \/ HeartbeatFails \/ HeartbeatStops \/ HeartbeatLossEnds
           \/ \E a \in Attempts : ReceiverLossEnds(a) \/ RequestEnds(a)
  <2>1. why' = why /\ auth' = auth
    BY <1>4 DEF CallConnect, CallClose, CloseEnds, Subscribe, RequestBegins, LoopStep,
           ReconnectStarts, BackoffEnds, LossTaskRuns, LossTaskEnds, HeartbeatFails,
           HeartbeatStops, HeartbeatLossEnds, ReceiverLossEnds, RequestEnds
  <2> QED
    BY <2>1
<1> QED
  BY <1>1, <1>2, <1>3, <1>4 DEF Next

\* A loop that may try as often as there are attempts never gives up.
LEMMA NeverGivesUp ==
    ASSUME TypeOK, LoopInv, LoopAgain, rtask \in {"created", "opening"} \/ closed,
           MaxTries >= MaxAttempts
    PROVE  closed \/ rtask' = "backoff"
<1> USE ConnectionAssumption DEF ConnectionAssumption
<1>1. CASE ~closed
  <2>1. tries < opened
    BY <1>1 DEF LoopInv, TriesBehind
  <2>2. tries \in Nat /\ opened \in Nat /\ opened <= MaxAttempts
    BY DEF TypeOK
  <2> QED
    BY <1>1, <2>1, <2>2 DEF LoopAgain, TriesLeft
<1> QED
  BY <1>1

\* A loop that stops in an open client has made its attempts and tells the listeners.
LEMMA LoopGivesUp ==
    ASSUME TypeOK, LoopInv, LoopAgain, rtask \in {"created", "opening"} \/ closed,
           opened' = opened
    PROVE  closed \/ rtask' = "backoff" \/ GaveUp'
<1> USE ConnectionAssumption DEF ConnectionAssumption
<1>1. CASE ~closed /\ ~TriesLeft
  <2>1. tries < opened /\ ~(tries < MaxTries)
    BY <1>1 DEF LoopInv, TriesBehind, TriesLeft
  <2>2. tries \in Nat /\ opened \in Nat
    BY DEF TypeOK
  <2>3. closeNotified'
    BY <1>1 DEF LoopAgain, NotifyClose
  <2> QED
    BY <2>1, <2>2, <2>3 DEF GaveUp
<1> QED
  BY <1>1 DEF LoopAgain

\* It stays so.
LEMMA GaveUpForGood ==
    ASSUME TypeOK, GaveUp, [Next]_vars
    PROVE  GaveUp'
<1> USE ConnectionAssumption
    DEF ConnectionAssumption, connVars, authVars, attemptVars, loopVars, genVars, taskVars
<1>0. opened \in Nat /\ MaxTries \in Nat /\ closeNotified = TRUE
  BY DEF TypeOK, GaveUp
<1>1. CASE UNCHANGED vars
  BY <1>1 DEF vars, GaveUp
<1>2. ASSUME NEW a \in Attempts, AttemptStep(a) PROVE GaveUp'
  <2>1. CASE ConnectStarts(a) \/ Dialed(a) \/ SendConnect(a) \/ AttemptFails(a)
    BY <2>1 DEF ConnectStarts, Dialed, SendConnect, AttemptFails, GaveUp
  <2>2. CASE AuthSettled(a)
    BY <2>2 DEF AuthSettled, GaveUp
  <2>3. CASE Restored(a) \/ HeartbeatSwapped(a) \/ Drained(a)
    BY <2>3 DEF Restored, HeartbeatSwapped, Drained, GaveUp
  <2>4. CASE Unwound(a)
    BY <1>0, <2>4 DEF Unwound, AfterFailure, LoopAgain, NotifyClose, GaveUp
  <2> QED
    BY <1>2, <2>1, <2>2, <2>3, <2>4 DEF AttemptStep
<1>3. CASE LoopStep
  <2>1. closeNotified' = TRUE
    BY <1>0, <1>3 DEF LoopStep, ReconnectStarts, BackoffEnds, LoopAgain, NotifyClose
  <2>2. opened' = opened \/ opened' = opened + 1
    BY <1>3 DEF LoopStep, ReconnectStarts, BackoffEnds
  <2> QED
    BY <1>0, <2>1, <2>2 DEF GaveUp
<1>4. CASE CallConnect
  <2>1. closeNotified' = closeNotified /\ opened' = opened + 1
    BY <1>4 DEF CallConnect
  <2> QED
    BY <1>0, <2>1 DEF GaveUp
<1>5. CASE CallClose \/ Subscribe \/ RequestBegins
  BY <1>5 DEF CallClose, Subscribe, RequestBegins, GaveUp
<1>6. CASE CloseEnds
  BY <1>0, <1>6 DEF CloseEnds, NotifyClose, GaveUp
<1>7. CASE LossTaskRuns \/ LossTaskEnds \/ HeartbeatFails \/ HeartbeatStops \/ HeartbeatLossEnds
  BY <1>7 DEF LossTaskRuns, LossTaskEnds, HeartbeatFails, HeartbeatStops, HeartbeatLossEnds,
              GaveUp
<1>8. ASSUME NEW a \in Attempts, ReceiverLossEnds(a) \/ RequestEnds(a) PROVE GaveUp'
  BY <1>8 DEF ReceiverLossEnds, RequestEnds, GaveUp
<1>9. ASSUME NEW a \in Attempts, ReceiverStep(a) PROVE GaveUp'
  BY <1>9 DEF ReceiverStep, ReceiveHello, ReceiveRaises, ReceiverRetires, GaveUp
<1> QED
  BY <1>1, <1>2, <1>3, <1>4, <1>5, <1>6, <1>7, <1>8, <1>9 DEF Next

\* The first success: the connect task's attempt has ended, and the client is connected.
LEMMA FirstSuccess ==
    ASSUME ConnInv, LoopInv, [Next]_vars, ~everAuth, everAuth', Reconnects
    PROVE  HandsOff' /\ HandsTied'
<1> USE DEF connVars, authVars, attemptVars, loopVars, genVars, taskVars
<1>0. TypeOK
  BY DEF ConnInv
<1>1. PICK a \in Attempts : AuthSettled(a) \/ Restored(a)
  <2>1. CASE UNCHANGED vars
    BY <2>1 DEF vars
  <2>2. ASSUME NEW b \in Attempts, AttemptStep(b) PROVE AuthSettled(b) \/ Restored(b)
    BY <2>2 DEF AttemptStep, ConnectStarts, Dialed, SendConnect, AttemptFails,
                HeartbeatSwapped, Unwound, Drained
  <2>3. ~(\/ CallConnect \/ CallClose \/ CloseEnds \/ Subscribe \/ RequestBegins
          \/ LoopStep \/ LossTaskRuns \/ LossTaskEnds
          \/ HeartbeatFails \/ HeartbeatStops \/ HeartbeatLossEnds
          \/ \E b \in Attempts : ReceiverLossEnds(b) \/ RequestEnds(b) \/ ReceiverStep(b))
    BY DEF CallConnect, CallClose, CloseEnds, Subscribe, RequestBegins, LoopStep,
           ReconnectStarts, BackoffEnds, LossTaskRuns, LossTaskEnds, HeartbeatFails,
           HeartbeatStops, HeartbeatLossEnds, ReceiverLossEnds, RequestEnds, ReceiverStep,
           ReceiveHello, ReceiveRaises, ReceiverRetires
  <2> QED
    BY <2>1, <2>2, <2>3 DEF Next
<1>2. /\ Authenticated(a) /\ ~closed
      /\ att[a] \in InProgress /\ connectTask' = connectTask
  BY <1>1 DEF AuthSettled, Restored, InProgress, OwnsTransport
<1>3. a = connectTask
  BY <1>2 DEF LoopInv, LoopOwns, LoopAfterSuccess
<1>4. hb = "none"
  BY DEF LoopInv, HeartbeatAfterSuccess
<1>5. att' = [att EXCEPT ![a] = "done"] /\ state' = "AUTHENTICATED"
  BY <1>2, <1>4 DEF Authenticated, SetState
<1>6. att'[a] = "done"
  BY <1>0, <1>5 DEF TypeOK
<1>7. HandsOff'
  BY <1>2, <1>3, <1>6 DEF HandsOff, InProgress
<1>8. HandsTied'
  BY <1>2, <1>3, <1>5 DEF HandsTied, Repairing, Attempts
<1> QED
  BY <1>7, <1>8

\* After the first success no connect() finds the way free.
LEMMA NoMoreHands ==
    ASSUME TypeOK, Coalescing, HandsTied, everAuth, Reconnects
    PROVE  ~CallConnect
<1> SUFFICES ASSUME CallConnect PROVE FALSE
  OBVIOUS
<1>1. connectTask # 0 /\ Repeatable
  BY DEF CallConnect, HandsTied
<1>2. ConnectAgain = "afterCleanup"
  BY <1>1 DEF Repeatable, Coalescing
<1>3. Untiring
  BY <1>1, <1>2 DEF Coalescing, Repeatable
<1>4. ~GaveUp
  <2>1. MaxTries + 1 >= MaxAttempts /\ opened < MaxAttempts
    BY <1>3 DEF Untiring, CallConnect
  <2>2. opened \in Nat /\ MaxTries \in Nat /\ MaxAttempts \in Nat
    BY ConnectionAssumption DEF TypeOK, ConnectionAssumption
  <2> QED
    BY <2>1, <2>2 DEF GaveUp
<1>5. Repairing /\ ~Losing
  BY <1>1, <1>2, <1>3, <1>4 DEF HandsTied, Untiring, Repeatable, Losing
<1> QED
  BY <1>5 DEF Repairing, CallConnect, NobodyConnecting, Active

\* The connect task's attempt stays over.
LEMMA HandsStayOff ==
    ASSUME ConnInv, LoopInv, HandsOff, HandsTied, [Next]_vars, ~CallConnect,
           everAuth, Reconnects
    PROVE  /\ HandsOff'
           /\ connectTask' = connectTask
           /\ everAuth'
<1> USE DEF connVars, authVars, attemptVars, loopVars, genVars, taskVars
<1>0. TypeOK /\ att \in [Attempts -> InProgress \cup {"unused", "done", "failed"}]
  BY DEF ConnInv, TypeOK
<1>1. connectTask' = connectTask /\ everAuth'
  <2>1. CASE UNCHANGED vars
    BY <2>1 DEF vars
  <2>2. CASE \E a \in Attempts : AttemptStep(a)
    BY <2>2, ZenonT(30)
       DEF AttemptStep, ConnectStarts, Dialed, SendConnect, AttemptFails, AuthSettled,
           Restored, Authenticated, HeartbeatSwapped, Unwound, Drained
  <2>3. CASE \/ CallClose \/ CloseEnds \/ Subscribe \/ RequestBegins
             \/ LoopStep \/ LossTaskRuns \/ LossTaskEnds
             \/ HeartbeatFails \/ HeartbeatStops \/ HeartbeatLossEnds
             \/ \E b \in Attempts : ReceiverLossEnds(b) \/ RequestEnds(b) \/ ReceiverStep(b)
    BY <2>3 DEF CallClose, CloseEnds, Subscribe, RequestBegins, LoopStep,
           ReconnectStarts, BackoffEnds, LossTaskRuns, LossTaskEnds, HeartbeatFails,
           HeartbeatStops, HeartbeatLossEnds, ReceiverLossEnds, RequestEnds, ReceiverStep,
           ReceiveHello, ReceiveRaises, ReceiverRetires
  <2> QED
    BY <2>1, <2>2, <2>3 DEF Next
<1>2. ASSUME NEW b \in Attempts, b = connectTask, att'[b] \in InProgress PROVE FALSE
  <2>0. att[b] \notin InProgress
    BY <1>2 DEF HandsOff
  <2>1. CASE att' = att
    BY <1>2, <2>0, <2>1
  <2>2. ASSUME NEW a \in Attempts, AttemptStep(a) PROVE FALSE
    <3>1. att[a] \in InProgress
      BY <2>2 DEF AttemptStep, ConnectStarts, Dialed, SendConnect, AttemptFails, AuthSettled,
             Restored, HeartbeatSwapped, Unwound, Drained, InProgress
    <3>2. \E stage : att' = [att EXCEPT ![a] = stage]
      BY <2>2 DEF AttemptStep, ConnectStarts, Dialed, SendConnect, AttemptFails, AuthSettled,
             Restored, Authenticated, Unwind, HeartbeatSwapped, Unwound, Drained
    <3> QED
      BY <1>0, <1>2, <2>0, <3>1, <3>2
  <2>3. CASE BackoffEnds
    <3>1. CASE att' = att
      BY <1>2, <2>0, <3>1
    <3>2. CASE att' = [att EXCEPT ![opened + 1] = "dialing"]
      BY <1>0, <1>2, <2>0, <3>2 DEF LoopInv, HandBegun, TypeOK
    <3> QED
      BY <2>3, <3>1, <3>2 DEF BackoffEnds
  <2>4. CASE CloseEnds
    BY <1>2, <2>0, <2>4 DEF CloseEnds, InProgress
  <2>5. CASE \/ CallClose \/ Subscribe \/ RequestBegins
             \/ ReconnectStarts \/ LossTaskRuns \/ LossTaskEnds
             \/ HeartbeatFails \/ HeartbeatStops \/ HeartbeatLossEnds
             \/ \E a \in Attempts : ReceiverLossEnds(a) \/ RequestEnds(a) \/ ReceiverStep(a)
    <3>1. att' = att
      BY <2>5 DEF CallClose, Subscribe, RequestBegins, ReconnectStarts, LossTaskRuns,
             LossTaskEnds, HeartbeatFails, HeartbeatStops, HeartbeatLossEnds,
             ReceiverLossEnds, RequestEnds, ReceiverStep, ReceiveHello, ReceiveRaises,
             ReceiverRetires
    <3> QED
      BY <2>1, <3>1
  <2>6. CASE UNCHANGED vars
    BY <2>1, <2>6 DEF vars
  <2> QED
    BY <2>2, <2>3, <2>4, <2>5, <2>6 DEF Next, LoopStep
<1>3. HandsOff'
  BY <1>1, <1>2 DEF HandsOff
<1> QED
  BY <1>1, <1>3

\* Somebody is still losing the connection.
LEMMA StillLosing ==
    ASSUME Losing,
           hb = "losing" => hb' = "losing",
           lossTask = "losing" => lossTask' = "losing",
           \A a \in Attempts : rcv[a] = "losing" => rcv'[a] = "losing"
    PROVE  Losing'
  BY DEF Losing

\* Until the client closes it is connected, or somebody repairs it: every loss begins a
\* clean-up, every clean-up ends with a loop, and the loop ends with a success or tells
\* the close listeners.
LEMMA RepairGoesOn ==
    ASSUME ConnInv, LoopInv, HandsOff, Repairing, [Next]_vars, ~CallConnect,
           everAuth, Reconnects,
           ~Heartbeats, NoneFails("version")
    PROVE  Repairing' \/ GaveUp'
<1> USE DEF connVars, authVars, attemptVars, loopVars, genVars, taskVars
<1>0. TypeOK
  BY DEF ConnInv
<1>1. ASSUME NEW a \in Attempts, AttemptStep(a) PROVE Repairing' \/ GaveUp'
  <2>1. att[a] \in InProgress
    BY <1>1 DEF AttemptStep, ConnectStarts, Dialed, SendConnect, AttemptFails, AuthSettled,
           Restored, HeartbeatSwapped, Unwound, Drained, InProgress
  <2>2. a # connectTask /\ rtask = "opening"
    BY <2>1 DEF HandsOff, LoopInv, LoopOwns
  <2>3. CASE ConnectStarts(a) \/ Dialed(a) \/ SendConnect(a) \/ AttemptFails(a)
    BY <2>2, <2>3 DEF ConnectStarts, Dialed, SendConnect, AttemptFails, Repairing, Active
  <2>4. CASE AuthSettled(a) \/ Restored(a)
    <3>1. CASE Authenticated(a)
      BY <2>4, <3>1 DEF Authenticated, SetState, Repairing, AuthSettled, Restored, OwnsTransport
    <3>2. CASE rtask' = rtask
      BY <2>2, <3>2 DEF Repairing, Active
    <3> QED
      BY <2>4, <3>1, <3>2 DEF AuthSettled, Restored
  <2>5. CASE HeartbeatSwapped(a)
    BY <2>5 DEF HeartbeatSwapped, LoopInv, SwapsHeartbeats
  <2>6. CASE Drained(a)
    BY <2>6 DEF Drained, LoopInv, DrainedIsClosed, Repairing
  <2>7. CASE Unwound(a)
    <3>1. CASE why[a] = "rejected"
      BY <2>7, <3>1 DEF Unwound, Repairing
    <3>2. CASE why[a] # "rejected"
      <4>1. LoopAgain /\ closed' = closed
        BY <2>2, <2>7, <3>2 DEF Unwound, AfterFailure, NoneFails
      <4>2. closed \/ rtask' = "backoff" \/ GaveUp'
        BY <1>0, <2>2, <2>7, <4>1, LoopGivesUp DEF Unwound
      <4> QED
        BY <4>1, <4>2 DEF Repairing, Active
    <3> QED
      BY <3>1, <3>2
  <2> QED
    BY <1>1, <2>3, <2>4, <2>5, <2>6, <2>7 DEF AttemptStep
<1>2. CASE LoopStep
  <2>1. closed' = closed
    BY <1>2 DEF LoopStep, ReconnectStarts, BackoffEnds, LoopAgain
  <2>2. \/ rtask' = "opening"
        \/ LoopAgain /\ (rtask = "created" \/ closed) /\ opened' = opened
    BY <1>2 DEF LoopStep, ReconnectStarts, BackoffEnds
  <2>3. rtask' = "opening" \/ closed \/ rtask' = "backoff" \/ GaveUp'
    BY <1>0, <2>2, LoopGivesUp
  <2> QED
    BY <2>1, <2>3 DEF Repairing, Active
<1>3. CASE LossTaskEnds \/ HeartbeatLossEnds \/ \E a \in Attempts : ReceiverLossEnds(a)
  <2>1. StartReconnect /\ closed' = closed
    BY <1>3 DEF LossTaskEnds, HeartbeatLossEnds, ReceiverLossEnds
  <2>2. closed \/ rtask' \in Active
    BY <1>0, <2>1 DEF StartReconnect, Active, TypeOK
  <2> QED
    BY <2>1, <2>2 DEF Repairing
<1>4. CASE CallClose \/ CloseEnds
  BY <1>4 DEF CallClose, CloseEnds, ConnInv, CloseClosed, Repairing
<1>5. CASE LossTaskRuns \/ HeartbeatFails
  <2>1. CASE lossTask' = "losing" \/ hb' = "losing"
    BY <2>1 DEF Repairing, Losing
  <2>2. CASE /\ state' = state /\ closed' = closed /\ rtask' = rtask /\ rcv' = rcv
             /\ lossTask = "losing" => lossTask' = "losing"
             /\ hb = "losing" => hb' = "losing"
    BY <2>2, StillLosing DEF Repairing
  <2> QED
    BY <1>5, <2>1, <2>2 DEF LossTaskRuns, HeartbeatFails
<1>6. ASSUME NEW a \in Attempts, ReceiverStep(a) PROVE Repairing'
  <2>1. closed' = closed /\ rtask' = rtask /\ hb' = hb /\ lossTask' = lossTask
    BY <1>6 DEF ReceiverStep, ReceiveHello, ReceiveRaises, ReceiverRetires, Lost
  <2>2. CASE /\ state' = state
             /\ rcv' = rcv \/ (rcv[a] = "running" /\ rcv' = [rcv EXCEPT ![a] = "done"])
    <3>1. \A b \in Attempts : rcv[b] = "losing" => rcv'[b] = "losing"
      BY <1>0, <2>2 DEF TypeOK
    <3> QED
      BY <2>1, <2>2, <3>1, StillLosing DEF Repairing
  <2>3. CASE rcv' = ReceiversAfter(a)
    <3>1. rcv'[a] = "losing"
      BY <2>3 DEF ReceiversAfter
    <3> QED
      BY <3>1 DEF Repairing, Losing
  <2> QED
    BY <1>6, <2>2, <2>3 DEF ReceiverStep, ReceiveHello, ReceiveRaises, ReceiverRetires
<1>7. CASE HeartbeatStops \/ Subscribe \/ RequestBegins \/ \E a \in Attempts : RequestEnds(a)
  <2>1. /\ state' = state /\ closed' = closed /\ rtask' = rtask /\ rcv' = rcv
        /\ lossTask = "losing" => lossTask' = "losing"
        /\ hb = "losing" => hb' = "losing"
    BY <1>7 DEF HeartbeatStops, Subscribe, RequestBegins, RequestEnds
  <2> QED
    BY <2>1, StillLosing DEF Repairing
<1>8. CASE UNCHANGED vars
  BY <1>8 DEF vars, Repairing, Losing
<1> QED
  BY <1>1, <1>2, <1>3, <1>4, <1>5, <1>6, <1>7, <1>8 DEF Next

LEMMA CoalesceInit == Init => CoalesceInv
  BY DEF Init, CoalesceInv, NoneFails, HandsOff, HandsTied

LEMMA CoalesceStep ==
    ASSUME Coalescing, ConnInv, LoopInv, CoalesceInv, [Next]_vars
    PROVE  CoalesceInv'
<1>1. ASSUME "version" \notin Failures PROVE NoneFails("version")'
  BY <1>1, NoneFailsStep DEF CoalesceInv
<1>2. CASE everAuth /\ Reconnects
  <2>1. HandsOff /\ HandsTied /\ ~CallConnect
    BY <1>2, NoMoreHands DEF CoalesceInv, ConnInv
  <2>2. HandsOff' /\ connectTask' = connectTask /\ everAuth'
    BY <1>2, <2>1, HandsStayOff
  <2>3. ASSUME Steady PROVE Repairing' \/ GaveUp'
    <3>1. ~Heartbeats /\ NoneFails("version") /\ (Repairing \/ GaveUp)
      BY <1>2, <2>1, <2>3 DEF CoalesceInv, HandsTied, Steady
    <3>2. CASE GaveUp
      BY <3>2, GaveUpForGood DEF ConnInv
    <3> QED
      BY <1>2, <2>1, <3>1, <3>2, RepairGoesOn
  <2>4. HandsTied'
    BY <1>2, <2>1, <2>2, <2>3 DEF HandsTied, Steady
  <2> QED
    BY <1>1, <2>2, <2>4 DEF CoalesceInv
<1>3. CASE ~(everAuth' /\ Reconnects)
  BY <1>1, <1>3 DEF CoalesceInv, HandsOff, HandsTied
<1>4. CASE ~everAuth /\ everAuth' /\ Reconnects
  BY <1>1, <1>4, FirstSuccess DEF CoalesceInv
<1> QED
  BY <1>2, <1>3, <1>4

\* Where the loop runs an attempt, the connect task does not.
LEMMA OneInProgress ==
    ASSUME TypeOK, LoopInv, CoalesceInv
    PROVE  AttemptsCoalesce
<1> DEFINE S == {a \in Attempts : att[a] \in InProgress}
<1>1. ASSUME NEW a \in S, NEW b \in S PROVE a = b
  <2>1. CASE a # connectTask /\ b # connectTask
    BY <2>1 DEF LoopInv, LoopAlone
  <2>2. CASE a = connectTask /\ b = connectTask
    BY <2>2
  <2>3. ASSUME NEW c \in S, NEW d \in S, c = connectTask, d # connectTask PROVE FALSE
    <3>1. everAuth /\ Reconnects
      BY <2>3 DEF LoopInv, LoopOwns, LoopAfterSuccess
    <3> QED
      BY <2>3, <3>1 DEF CoalesceInv, HandsOff
  <2> QED
    BY <2>1, <2>2, <2>3
<1>2. Cardinality(S) <= 1
  <2>1. CASE S = {}
    BY <2>1, FS_EmptySet
  <2>2. ASSUME NEW a \in S PROVE Cardinality(S) <= 1
    <3>1. S = {a}
      BY <1>1, <2>2
    <3> QED
      BY <3>1, FS_Singleton
  <2> QED
    BY <2>1, <2>2
<1> QED
  BY <1>2 DEF AttemptsCoalesce

LEMMA CoalesceInvariant ==
    ASSUME Coalescing
    PROVE  Spec => []CoalesceInv
<1>1. ConnInv /\ LoopInv /\ CoalesceInv /\ [Next]_vars => CoalesceInv'
  BY CoalesceStep
<1> QED
  BY <1>1, CoalesceInit, ConnInvariant, LoopInvariant, PTL DEF Spec

\* One attempt to connect runs at a time, however many losses, failed attempts and calls of
\* close() there are, if the client reconnects not at all, the application connects by hand
\* only once, or it waits for a clean-up of a client whose loop gives up with the last
\* attempt there is, if at all
\* (connection.py:142-160, 566-569, 575-602).
THEOREM ConnectsCoalesce ==
    ASSUME Coalescing
    PROVE  Spec => []AttemptsCoalesce
<1>1. ConnInv /\ LoopInv /\ CoalesceInv => AttemptsCoalesce
  BY OneInProgress DEF ConnInv
<1> QED
  BY <1>1, CoalesceInvariant, ConnInvariant, LoopInvariant, PTL

\* The safety half of LossIsRepaired.  A client that has been connected is at any moment
\* closed, connected, about to be repaired by somebody, or its close listeners were told:
\* each loss begins a clean-up (connection.py:547-566), the last clean-up starts the loop
\* (567-570), and the loop ends with a success or by giving up (575-602).  With heartbeats
\* a loop about to end is taken for one that goes on (371-372, 568).
THEOREM LossIsUnderRepair ==
    ASSUME Coalescing, Reconnects, Steady
    PROVE  Spec => [](everAuth => Repairing \/ closeNotified)
<1>1. CoalesceInv => (everAuth => Repairing \/ closeNotified)
  BY DEF CoalesceInv, HandsTied, GaveUp
<1> QED
  BY <1>1, CoalesceInvariant, PTL

------------------------------------------------------------------------------
(* The consumers of a closed client. *)

LEMMA ReleaseInit == Init => ReleaseInv
  BY DEF Init, ReleaseInv, NoneFails, CloseAlone, ConsumersReleased

\* Nobody but close() tells the listeners: the loop has nothing to give up for.
LEMMA ListenersWait ==
    ASSUME Persistent, ConnInv, LoopInv, ReleaseInv, [Next]_vars, ~CloseEnds
    PROVE  /\ closeNotified' = closeNotified
           /\ consumer' = consumer \/ (Subscribe /\ ~closed)
           /\ closed' = closed \/ CallClose
<1> USE DEF connVars, authVars, attemptVars, loopVars, genVars, taskVars, Persistent
<1>0. TypeOK
  BY DEF ConnInv
<1>1. ASSUME NEW a \in Attempts, Unwound(a)
      PROVE  UNCHANGED <<closeNotified, consumer, closed>>
  <2>1. why[a] # "rejected" /\ why[a] # "version"
    BY DEF ReleaseInv, NoneFails
  <2>2. closed' = closed /\ AfterFailure(a)
    BY <1>1, <2>1 DEF Unwound
  <2>3. CASE a = connectTask
    BY <2>2, <2>3 DEF AfterFailure
  <2>4. CASE a # connectTask
    <3>1. att[a] \in InProgress
      BY <1>1 DEF Unwound, InProgress
    <3>2. rtask = "opening" /\ LoopAgain
      BY <2>1, <2>2, <2>4, <3>1 DEF LoopInv, LoopOwns, AfterFailure
    <3>3. closed \/ rtask' = "backoff"
      BY <1>0, <3>2, NeverGivesUp
    <3> QED
      BY <2>2, <3>2, <3>3 DEF LoopAgain
  <2> QED
    BY <2>3, <2>4
<1>2. ASSUME LoopStep PROVE UNCHANGED <<closeNotified, consumer, closed>>
  <2>1. closed' = closed
    BY <1>2 DEF LoopStep, ReconnectStarts, BackoffEnds
  <2>2. CASE LoopAgain /\ (rtask = "created" \/ closed)
    <3>1. closed \/ rtask' = "backoff"
      BY <1>0, <2>2, NeverGivesUp
    <3> QED
      BY <2>1, <2>2, <3>1 DEF LoopAgain
  <2>3. CASE UNCHANGED <<closeNotified, consumer>>
    BY <2>1, <2>3
  <2> QED
    BY <1>2, <2>2, <2>3 DEF LoopStep, ReconnectStarts, BackoffEnds
<1>3. ASSUME NEW a \in Attempts, AttemptStep(a), ~Unwound(a)
      PROVE  UNCHANGED <<closeNotified, consumer, closed>>
  <2>1. CASE AuthSettled(a)
    BY <2>1 DEF AuthSettled
  <2>2. CASE ConnectStarts(a) \/ Dialed(a) \/ SendConnect(a) \/ AttemptFails(a)
    BY <2>2 DEF ConnectStarts, Dialed, SendConnect, AttemptFails
  <2>3. CASE Restored(a) \/ HeartbeatSwapped(a) \/ Drained(a)
    BY <2>3 DEF Restored, HeartbeatSwapped, Drained
  <2> QED
    BY <1>3, <2>1, <2>2, <2>3 DEF AttemptStep
<1>4. ASSUME \/ CallConnect \/ RequestBegins \/ LossTaskRuns \/ LossTaskEnds
             \/ HeartbeatFails \/ HeartbeatStops \/ HeartbeatLossEnds
             \/ \E b \in Attempts : ReceiverLossEnds(b) \/ RequestEnds(b)
      PROVE  UNCHANGED <<closeNotified, consumer, closed>>
  BY <1>4 DEF CallConnect, RequestBegins, LossTaskRuns, LossTaskEnds, HeartbeatFails,
         HeartbeatStops, HeartbeatLossEnds, ReceiverLossEnds, RequestEnds, Lost
<1>5. ASSUME NEW b \in Attempts, ReceiverStep(b)
      PROVE  UNCHANGED <<closeNotified, consumer, closed>>
  BY <1>5 DEF ReceiverStep, ReceiveHello, ReceiveRaises, ReceiverRetires, Lost
<1>6. ASSUME CallClose PROVE closeNotified' = closeNotified /\ consumer' = consumer
  BY <1>6 DEF CallClose
<1>7. ASSUME Subscribe PROVE closeNotified' = closeNotified /\ closed' = closed /\ ~closed
  BY <1>7 DEF Subscribe
<1>8. CASE UNCHANGED vars
  BY <1>8 DEF vars
<1> QED
  BY <1>1, <1>2, <1>3, <1>4, <1>5, <1>6, <1>7, <1>8 DEF Next

LEMMA ReleaseStep ==
    ASSUME Persistent, ConnInv, ShutInv, LoopInv, ReleaseInv, [Next]_vars
    PROVE  ReleaseInv'
<1> USE DEF connVars, authVars, attemptVars, loopVars, genVars, taskVars
<1>1. NoneFails("rejected")' /\ NoneFails("version")'
  BY NoneFailsStep DEF ReleaseInv, Persistent
<1>2. CASE CloseEnds
  <2>1. closed /\ closer = "notifying" /\ ~closeNotified
    BY <1>2 DEF CloseEnds, ConnInv, CloseClosed, ReleaseInv, CloseAlone
  <2>2. closed' = closed /\ closer' = "done" /\ consumer' # "waiting"
    BY <1>2, <2>1 DEF CloseEnds, NotifyClose
  <2> QED
    BY <1>1, <2>2 DEF ReleaseInv, CloseAlone, ConsumersReleased
<1>3. CASE CallClose
  <2>1. closer = "none" /\ ~closed /\ ~closeNotified
    BY <1>3 DEF CallClose, ReleaseInv, CloseAlone
  <2>2. closer' = "notifying" /\ closeNotified' = closeNotified
    BY <1>3, <2>1 DEF CallClose
  <2> QED
    BY <1>1, <2>1, <2>2 DEF ReleaseInv, CloseAlone, ConsumersReleased
<1>4. CASE ~CloseEnds /\ ~CallClose
  <2>1. /\ closeNotified' = closeNotified /\ closed' = closed
        /\ consumer' = consumer \/ ~closed
    BY <1>4, ListenersWait
  <2>2. closer' = closer
    <3>1. CASE \E a \in Attempts : AttemptStep(a)
      BY <3>1 DEF AttemptStep, ConnectStarts, Dialed, SendConnect, AttemptFails,
             AuthSettled, Restored, HeartbeatSwapped, Unwound, Drained
    <3>2. CASE \/ CallConnect \/ Subscribe \/ RequestBegins
               \/ LoopStep \/ LossTaskRuns \/ LossTaskEnds
               \/ HeartbeatFails \/ HeartbeatStops \/ HeartbeatLossEnds
               \/ \E a \in Attempts : \/ ReceiverLossEnds(a) \/ RequestEnds(a)
                                      \/ ReceiverStep(a)
      BY <3>2 DEF CallConnect, Subscribe, RequestBegins, LoopStep,
             ReconnectStarts, BackoffEnds, LossTaskRuns, LossTaskEnds, HeartbeatFails,
             HeartbeatStops, HeartbeatLossEnds, ReceiverLossEnds, RequestEnds, ReceiverStep,
             ReceiveHello, ReceiveRaises, ReceiverRetires
    <3>3. CASE UNCHANGED vars
      BY <3>3 DEF vars
    <3> QED
      BY <1>4, <3>1, <3>2, <3>3 DEF Next
  <2>3. CloseAlone'
    BY <2>1, <2>2 DEF ReleaseInv, CloseAlone
  <2>4. ConsumersReleased'
    <3> SUFFICES ASSUME closer' \in {"done", "skipped"} PROVE consumer' # "waiting"
      BY DEF ConsumersReleased
    <3>1. consumer # "waiting" /\ closer = "done"
      BY <2>2 DEF ReleaseInv, CloseAlone, ConsumersReleased
    <3>2. closed
      BY <3>1 DEF ShutInv, ShutFirst
    <3> QED
      BY <2>1, <3>1, <3>2
  <2> QED
    BY <1>1, <2>3, <2>4 DEF ReleaseInv
<1> QED
  BY <1>2, <1>3, <1>4

\* A client whose reconnect policy gives up on nothing, and whom the broker neither rejects
\* nor mistakes, leaves no task iterating over a subscription once close() has returned,
\* wherever the losses and attempts were (connection.py:162-198, 575-602, 631-637).
THEOREM CloseReleases ==
    ASSUME Persistent
    PROVE  Spec => []ConsumersReleased
<1>1. ConnInv /\ ShutInv /\ LoopInv /\ ReleaseInv /\ [Next]_vars => ReleaseInv'
  BY ReleaseStep
<1>2. ReleaseInv => ConsumersReleased
  BY DEF ReleaseInv
<1>3. Spec => []ShutInv
  BY ShutInit, ShutStep, ConnInvariant, PTL DEF Spec
<1>4. Spec => []ReleaseInv
  BY <1>1, <1>3, ReleaseInit, ConnInvariant, LoopInvariant, PTL DEF Spec
<1> QED
  BY <1>2, <1>4, PTL
==============================================================================
