--------------------------- MODULE ConnectionProofs ---------------------------
(***************************************************************************)
(* For any number of attempts, losses, heartbeats and calls of connect():  *)
(* a closed client stays closed, a generation names one transport, and a   *)
(* client that says it is authenticated owns the session it speaks of.     *)
(***************************************************************************)
EXTENDS Connection, TLAPS

\* Attempts are numbered as they are begun.
NotBegun == \A a \in Attempts : a > opened => att[a] = "unused"

\* The receive task of an attempt is created after transport.connect().
ReceiverAfterDial ==
    /\ \A a \in Attempts : att[a] \in {"unused", "created", "dialing"} => rcv[a] = "none"
    /\ receiver # 0 => rcv[receiver] # "none"

\* A receive task that cleans up after a loss has given its transport away.
LosingIsDetached == \A a \in Attempts : rcv[a] = "losing" => transport # a

\* An attempt awaits a future that was created.
FuturesExist ==
    /\ authOf # 0 => auth[authOf] # "none"
    /\ \A a \in Attempts :
          att[a] = "hello" => waitsOn[a] \in Attempts /\ auth[waitsOn[a]] # "none"

\* The generations given out so far.
GenerationsPast == \A a \in Attempts : genOf[a] <= gen

\* The transport in use, once it was answered, is the last one that was.
InUseIsLatest ==
    \A a \in Attempts :
        transport = a /\ att[a] \in {"restoring", "swapping", "done"} => genOf[a] = gen

\* close() has set _closed before its first await.
CloseClosed == closer = "notifying" => closed

\* The session of an authenticated client.
SessionKept ==
    state = "AUTHENTICATED" /\ ~closed =>
        /\ transport \in Attempts /\ receiver = transport
        /\ rcv[transport] = "running"
        /\ att[transport] \in {"swapping", "done"}

ConnInv ==
    /\ TypeOK
    /\ NotBegun
    /\ ReceiverAfterDial
    /\ LosingIsDetached
    /\ FuturesExist
    /\ GenerationsPast
    /\ GenerationNamesSession
    /\ InUseIsLatest
    /\ CloseClosed
    /\ SessionKept

------------------------------------------------------------------------------
(* Every step keeps ConnInv: one lemma per action, one step per conjunct.    *)

\* Nothing has begun.
LEMMA ConnInvInit == Init => ConnInv
<1> SUFFICES ASSUME Init PROVE ConnInv
  OBVIOUS
<1> USE ConnectionAssumption DEF ConnectionAssumption, Attempts
<1>1. TypeOK
  <2>1. /\ transport \in 0..MaxAttempts /\ receiver \in 0..MaxAttempts
        /\ authOf \in 0..MaxAttempts /\ connectTask \in 0..MaxAttempts
        /\ opened \in 0..MaxAttempts
    BY DEF Init
  <2>2. /\ att \in [Attempts -> InProgress \cup {"unused", "done", "failed"}]
        /\ why \in [Attempts -> {"none", "error", "rejected", "version"}]
    BY DEF Init
  <2>3. /\ waitsOn \in [Attempts -> 0..MaxAttempts]
        /\ genOf \in [Attempts -> Nat] /\ gen \in Nat
    BY DEF Init
  <2>4. tries \in 0..MaxTries
    BY DEF Init
  <2>5. asked \subseteq Attempts /\ inflight \subseteq Attempts
    BY DEF Init
  <2>6. /\ closed \in BOOLEAN /\ everAuth \in BOOLEAN
        /\ negotiated \in BOOLEAN /\ closeNotified \in BOOLEAN
    BY Zenon DEF Init
  <2>7. /\ auth \in [Attempts -> {"none", "pending", "hello", "error", "rejected",
                                  "version"}]
        /\ rcv \in [Attempts -> {"none", "running", "losing", "done"}]
    BY DEF Init
  <2>8. /\ state \in Settled
        /\ rtask = "none" /\ hb = "none" /\ lossTask = "none" /\ closer = "none"
        /\ consumer = "none"
    BY DEF Init, Settled
  <2> QED
    BY <2>1, <2>2, <2>3, <2>4, <2>5, <2>6, <2>7, <2>8 DEF TypeOK
<1>2. NotBegun /\ ReceiverAfterDial /\ LosingIsDetached /\ FuturesExist
  BY DEF Init, NotBegun, ReceiverAfterDial, LosingIsDetached, FuturesExist
<1>3. GenerationsPast /\ GenerationNamesSession /\ InUseIsLatest
  BY DEF Init, GenerationsPast, GenerationNamesSession, InUseIsLatest
<1>4. CloseClosed /\ SessionKept
  BY DEF Init, CloseClosed, SessionKept
<1> QED
  BY <1>1, <1>2, <1>3, <1>4 DEF ConnInv

\* connect() takes the next number (connection.py:142-160).
LEMMA InvCallConnect ==
    ASSUME ConnInv, CallConnect
    PROVE  ConnInv'
<1> USE ConnectionAssumption DEF ConnectionAssumption, Attempts, InProgress, Settled,
        connVars, authVars, attemptVars, loopVars, genVars, taskVars
<1>1. TypeOK'
  BY SMTT(30) DEF ConnInv, TypeOK, CallConnect, NobodyConnecting
<1>2. NotBegun'
  BY DEF ConnInv, TypeOK, NotBegun, CallConnect, NobodyConnecting
<1>3. ReceiverAfterDial'
  BY DEF ConnInv, TypeOK, ReceiverAfterDial, CallConnect, NobodyConnecting, NotBegun
<1>4. LosingIsDetached'
  BY DEF ConnInv, TypeOK, LosingIsDetached, CallConnect, NobodyConnecting,
         ReceiverAfterDial, NotBegun
<1>5. FuturesExist'
  BY DEF ConnInv, TypeOK, FuturesExist, CallConnect, NobodyConnecting
<1>6. GenerationsPast'
  BY DEF ConnInv, TypeOK, GenerationsPast, CallConnect, NobodyConnecting
<1>7. GenerationNamesSession'
  <2>1. genOf' = genOf
    BY DEF CallConnect
  <2> QED
    BY <2>1 DEF ConnInv, GenerationNamesSession
<1>8. InUseIsLatest'
  BY DEF ConnInv, TypeOK, InUseIsLatest, CallConnect, NobodyConnecting, NotBegun,
         ReceiverAfterDial, GenerationsPast
<1>9. CloseClosed'
  BY DEF ConnInv, TypeOK, CloseClosed, CallConnect, NobodyConnecting
<1>10. SessionKept'
  BY DEF ConnInv, TypeOK, SessionKept, CallConnect, NobodyConnecting, NotBegun,
         LosingIsDetached
<1> QED
  BY <1>1, <1>2, <1>3, <1>4, <1>5, <1>6, <1>7, <1>8, <1>9, <1>10 DEF ConnInv

\* An attempt by hand begins (connection.py:333-344).
LEMMA InvConnectStarts ==
    ASSUME ConnInv, NEW a \in Attempts, ConnectStarts(a)
    PROVE  ConnInv'
<1> USE ConnectionAssumption DEF ConnectionAssumption, Attempts, InProgress, Settled,
        connVars, authVars, attemptVars, loopVars, genVars, taskVars
<1>1. TypeOK'
  <2>1. UNCHANGED <<closed, receiver, authOf, gen, everAuth, negotiated, closeNotified,
                    opened, why, auth, waitsOn, asked, rcv, genOf, connectTask,
                    rtask, tries, hb, lossTask, closer, inflight, consumer>>
    BY DEF ConnectStarts, SetState
  <2>2. att' \in [Attempts -> InProgress \cup {"unused", "done", "failed"}]
    BY DEF ConnInv, TypeOK, ConnectStarts, SetState
  <2>3. transport' \in 0..MaxAttempts
    BY DEF ConnInv, TypeOK, ConnectStarts, SetState
  <2>4. state' \in {"DISCONNECTED", "RECONNECTING", "CLOSED", "CONNECTING",
                      "AUTHENTICATING", "AUTHENTICATED"}
    BY DEF ConnInv, TypeOK, ConnectStarts, SetState
  <2> QED
    BY <2>1, <2>2, <2>3, <2>4 DEF ConnInv, TypeOK
<1>2. NotBegun'
  BY DEF ConnInv, TypeOK, NotBegun, ConnectStarts, SetState
<1>3. ReceiverAfterDial'
  BY DEF ConnInv, TypeOK, ReceiverAfterDial, ConnectStarts, SetState, NotBegun
<1>4. LosingIsDetached'
  BY DEF ConnInv, TypeOK, LosingIsDetached, ConnectStarts, SetState,
         ReceiverAfterDial, NotBegun
<1>5. FuturesExist'
  BY DEF ConnInv, TypeOK, FuturesExist, ConnectStarts, SetState
<1>6. GenerationsPast'
  BY DEF ConnInv, TypeOK, GenerationsPast, ConnectStarts, SetState
<1>7. GenerationNamesSession'
  BY DEF ConnInv, TypeOK, GenerationNamesSession, ConnectStarts, SetState,
         GenerationsPast
<1>8. InUseIsLatest'
  BY DEF ConnInv, TypeOK, InUseIsLatest, ConnectStarts, SetState, NotBegun,
         ReceiverAfterDial, GenerationsPast
<1>9. CloseClosed'
  BY DEF ConnInv, TypeOK, CloseClosed, ConnectStarts, SetState
<1>10. SessionKept'
  BY DEF ConnInv, TypeOK, SessionKept, ConnectStarts, SetState, NotBegun,
         LosingIsDetached
<1> QED
  BY <1>1, <1>2, <1>3, <1>4, <1>5, <1>6, <1>7, <1>8, <1>9, <1>10 DEF ConnInv

\* The transport is connected (connection.py:345-352).
LEMMA InvDialed ==
    ASSUME ConnInv, NEW a \in Attempts, Dialed(a)
    PROVE  ConnInv'
<1> USE ConnectionAssumption DEF ConnectionAssumption, Attempts, InProgress, Settled,
        connVars, authVars, attemptVars, loopVars, genVars, taskVars
<1>1. TypeOK'
  BY DEF ConnInv, TypeOK, Dialed, SetState
<1>2. NotBegun'
  BY DEF ConnInv, TypeOK, NotBegun, Dialed, SetState
<1>3. ReceiverAfterDial'
  BY DEF ConnInv, TypeOK, ReceiverAfterDial, Dialed, SetState, NotBegun
<1>4. LosingIsDetached'
  BY DEF ConnInv, TypeOK, LosingIsDetached, Dialed, SetState, ReceiverAfterDial,
         NotBegun
<1>5. FuturesExist'
  BY DEF ConnInv, TypeOK, FuturesExist, Dialed, SetState
<1>6. GenerationsPast'
  BY DEF ConnInv, TypeOK, GenerationsPast, Dialed, SetState
<1>7. GenerationNamesSession'
  BY DEF ConnInv, TypeOK, GenerationNamesSession, Dialed, SetState, GenerationsPast
<1>8. InUseIsLatest'
  BY DEF ConnInv, TypeOK, InUseIsLatest, Dialed, SetState, NotBegun,
         ReceiverAfterDial, GenerationsPast
<1>9. CloseClosed'
  BY DEF ConnInv, TypeOK, CloseClosed, Dialed, SetState
<1>10. SessionKept'
  BY DEF ConnInv, TypeOK, SessionKept, Dialed, SetState, NotBegun, LosingIsDetached
<1> QED
  BY <1>1, <1>2, <1>3, <1>4, <1>5, <1>6, <1>7, <1>8, <1>9, <1>10 DEF ConnInv

\* CONNECT is sent and a future awaited (connection.py:354-355, 391-410).
LEMMA InvSendConnect ==
    ASSUME ConnInv, NEW a \in Attempts, SendConnect(a)
    PROVE  ConnInv'
<1> USE ConnectionAssumption DEF ConnectionAssumption, Attempts, InProgress, Settled,
        connVars, authVars, attemptVars, loopVars, genVars, taskVars
<1>1. TypeOK'
  <2>1. UNCHANGED <<state, closed, receiver, authOf, gen, everAuth, closeNotified, opened,
                    auth, rcv, genOf, connectTask, rtask, tries, hb, lossTask,
                    closer, inflight, consumer>>
    BY DEF SendConnect, Unwind
  <2>2. asked' \subseteq Attempts /\ inflight' \subseteq Attempts
    <3>1. asked' \subseteq Attempts
      BY DEF ConnInv, TypeOK, SendConnect
    <3>2. inflight' \subseteq Attempts
      BY <2>1 DEF ConnInv, TypeOK
    <3> QED
      BY <3>1, <3>2
  <2>3. waitsOn' \in [Attempts -> 0..MaxAttempts]
    <3>1. waitsOn' = waitsOn \/ waitsOn' = [waitsOn EXCEPT ![a] = authOf]
      BY DEF SendConnect
    <3> QED
      BY <3>1 DEF ConnInv, TypeOK
  <2>4. att' \in [Attempts -> InProgress \cup {"unused", "done", "failed"}]
    BY DEF ConnInv, TypeOK, SendConnect, Unwind
  <2>5. transport' \in 0..MaxAttempts
    BY DEF ConnInv, TypeOK, SendConnect, Unwind
  <2>6. negotiated' \in BOOLEAN
    BY DEF ConnInv, TypeOK, SendConnect, Unwind
  <2>7. why' \in [Attempts -> {"none", "error", "rejected", "version"}]
    BY DEF ConnInv, TypeOK, SendConnect, Unwind
  <2>8. /\ state' \in Settled \cup {"CONNECTING", "AUTHENTICATING", "AUTHENTICATED"}
        /\ closed' \in BOOLEAN /\ everAuth' \in BOOLEAN /\ closeNotified' \in BOOLEAN
        /\ receiver' \in 0..MaxAttempts /\ authOf' \in 0..MaxAttempts
        /\ connectTask' \in 0..MaxAttempts /\ opened' \in 0..MaxAttempts /\ gen' \in Nat
        /\ rtask' \in {"none", "created", "backoff", "opening", "done"}
        /\ tries' \in 0..MaxTries
        /\ hb' \in {"none", "beating", "losing", "done"}
        /\ lossTask' \in {"none", "created", "losing", "done"}
        /\ closer' \in {"none", "notifying", "done", "skipped"}
        /\ consumer' \in {"none", "waiting", "ended"}
    BY <2>1 DEF ConnInv, TypeOK
  <2>9. /\ auth' \in [Attempts -> {"none", "pending", "hello", "error", "rejected", "version"}]
        /\ rcv' \in [Attempts -> {"none", "running", "losing", "done"}]
        /\ genOf' \in [Attempts -> Nat]
    BY <2>1 DEF ConnInv, TypeOK
  <2> QED
    BY <2>2, <2>3, <2>4, <2>5, <2>6, <2>7, <2>8, <2>9 DEF TypeOK
<1>2. NotBegun'
  BY DEF ConnInv, TypeOK, NotBegun, SendConnect, Unwind
<1>3. ReceiverAfterDial'
  <2>1. rcv' = rcv /\ receiver' = receiver
    BY DEF SendConnect
  <2>2. \A b \in Attempts : att'[b] \in {att[b], "hello", "unwinding"}
    BY DEF ConnInv, TypeOK, SendConnect, Unwind
  <2> QED
    BY <2>1, <2>2 DEF ConnInv, TypeOK, ReceiverAfterDial
<1>4. LosingIsDetached'
  BY DEF ConnInv, TypeOK, LosingIsDetached, SendConnect, Unwind
<1>5. FuturesExist'
  <2>1. auth' = auth /\ authOf' = authOf
    BY DEF SendConnect
  <2>2. CASE /\ authOf # 0 /\ waitsOn' = [waitsOn EXCEPT ![a] = authOf]
             /\ att' = [att EXCEPT ![a] = "hello"]
    BY <2>1, <2>2 DEF ConnInv, TypeOK, FuturesExist
  <2>3. CASE Unwind(a, "error") /\ UNCHANGED waitsOn
    BY <2>1, <2>3 DEF ConnInv, TypeOK, FuturesExist, Unwind
  <2> QED
    BY <2>2, <2>3 DEF SendConnect
<1>6. GenerationsPast'
  BY DEF ConnInv, TypeOK, GenerationsPast, SendConnect, Unwind
<1>7. GenerationNamesSession'
  BY DEF ConnInv, TypeOK, GenerationNamesSession, SendConnect, Unwind, GenerationsPast
<1>8. InUseIsLatest'
  BY DEF ConnInv, TypeOK, InUseIsLatest, SendConnect, Unwind, NotBegun,
         ReceiverAfterDial, GenerationsPast
<1>9. CloseClosed'
  BY DEF ConnInv, TypeOK, CloseClosed, SendConnect, Unwind
<1>10. SessionKept'
  BY SMTT(30) DEF ConnInv, TypeOK, SessionKept, SendConnect, Unwind, NotBegun, LosingIsDetached
<1> QED
  BY <1>1, <1>2, <1>3, <1>4, <1>5, <1>6, <1>7, <1>8, <1>9, <1>10 DEF ConnInv

\* An attempt raises (connection.py:345, 353, 373-376).
LEMMA InvAttemptFails ==
    ASSUME ConnInv, NEW a \in Attempts, AttemptFails(a)
    PROVE  ConnInv'
<1> USE ConnectionAssumption DEF ConnectionAssumption, Attempts, InProgress, Settled,
        connVars, authVars, attemptVars, loopVars, genVars, taskVars
<1>1. TypeOK'
  <2>1. UNCHANGED <<state, closed, receiver, authOf, gen, everAuth, closeNotified, opened,
                    auth, waitsOn, asked, rcv, genOf, connectTask, rtask, tries,
                    hb, lossTask, closer, inflight, consumer>>
    BY DEF AttemptFails, Unwind
  <2>2. att' \in [Attempts -> InProgress \cup {"unused", "done", "failed"}]
    BY DEF ConnInv, TypeOK, AttemptFails, Unwind
  <2>3. why' \in [Attempts -> {"none", "error", "rejected", "version"}]
    BY DEF ConnInv, TypeOK, AttemptFails, Unwind
  <2>4. negotiated' \in BOOLEAN
    BY DEF ConnInv, TypeOK, AttemptFails, Unwind
  <2>5. transport' \in 0..MaxAttempts
    BY DEF ConnInv, TypeOK, AttemptFails, Unwind
  <2> QED
    BY <2>1, <2>2, <2>3, <2>4, <2>5 DEF ConnInv, TypeOK
<1>2. NotBegun'
  BY DEF ConnInv, TypeOK, NotBegun, AttemptFails, Unwind
<1>3. ReceiverAfterDial'
  BY DEF ConnInv, TypeOK, ReceiverAfterDial, AttemptFails, Unwind, NotBegun
<1>4. LosingIsDetached'
  BY DEF ConnInv, TypeOK, LosingIsDetached, AttemptFails, Unwind, ReceiverAfterDial,
         NotBegun
<1>5. FuturesExist'
  BY DEF ConnInv, TypeOK, FuturesExist, AttemptFails, Unwind
<1>6. GenerationsPast'
  BY DEF ConnInv, TypeOK, GenerationsPast, AttemptFails, Unwind
<1>7. GenerationNamesSession'
  BY DEF ConnInv, TypeOK, GenerationNamesSession, AttemptFails, Unwind,
         GenerationsPast
<1>8. InUseIsLatest'
  BY DEF ConnInv, TypeOK, InUseIsLatest, AttemptFails, Unwind, NotBegun,
         ReceiverAfterDial, GenerationsPast
<1>9. CloseClosed'
  BY DEF ConnInv, TypeOK, CloseClosed, AttemptFails, Unwind
<1>10. SessionKept'
  BY DEF ConnInv, TypeOK, SessionKept, AttemptFails, Unwind, NotBegun,
         LosingIsDetached
<1> QED
  BY <1>1, <1>2, <1>3, <1>4, <1>5, <1>6, <1>7, <1>8, <1>9, <1>10 DEF ConnInv

\* What no outcome of an awaited future touches (connection.py:356-372).
AuthRest == UNCHANGED <<closed, receiver, auth, waitsOn, asked, opened, connectTask, tries,
                        closeNotified, consumer, lossTask, closer, inflight, rcv>>

\* The attempt is refused, or no longer owns the transport (connection.py:356-358, 373-376).
LEMMA AuthFails ==
    ASSUME ConnInv, NEW a \in Attempts, att[a] = "hello",
           NEW kind \in {"error", "rejected", "version"}, Unwind(a, kind), AuthRest,
           authOf' \in {authOf, 0}, UNCHANGED <<state, genVars, hb, rtask>>
    PROVE  ConnInv'
<1> USE ConnectionAssumption DEF ConnectionAssumption, Attempts, InProgress, Settled,
        genVars
<1>0. /\ att' = [att EXCEPT ![a] = "unwinding"] /\ why' = [why EXCEPT ![a] = kind]
      /\ negotiated' = FALSE /\ transport' = IF transport = a THEN 0 ELSE transport
      /\ authOf' \in {authOf, 0}
      /\ UNCHANGED <<state, gen, genOf, everAuth, hb, rtask, closed, receiver, auth, waitsOn,
                     asked, opened, connectTask, tries, closeNotified, consumer, lossTask,
                     closer, inflight, rcv>>
  BY DEF Unwind, AuthRest
<1>1. TypeOK'
  <2>1. why' \in [Attempts -> {"none", "error", "rejected", "version"}]
    BY <1>0 DEF ConnInv, TypeOK
  <2>2. att' \in [Attempts -> InProgress \cup {"unused", "done", "failed"}]
    BY <1>0 DEF ConnInv, TypeOK
  <2>3. transport' \in 0..MaxAttempts /\ authOf' \in 0..MaxAttempts
    BY <1>0 DEF ConnInv, TypeOK
  <2>4. negotiated' \in BOOLEAN
    BY <1>0
  <2> QED
    BY <1>0, <2>1, <2>2, <2>3, <2>4, SMTT(30) DEF ConnInv, TypeOK
<1>2. NotBegun'
  BY <1>0 DEF ConnInv, TypeOK, NotBegun
<1>3. ReceiverAfterDial'
  BY <1>0 DEF ConnInv, TypeOK, ReceiverAfterDial, NotBegun
<1>4. LosingIsDetached'
  BY <1>0 DEF ConnInv, TypeOK, LosingIsDetached, ReceiverAfterDial, NotBegun
<1>5. FuturesExist'
  BY <1>0 DEF ConnInv, TypeOK, FuturesExist
<1>6. GenerationsPast'
  BY <1>0 DEF ConnInv, TypeOK, GenerationsPast
<1>7. GenerationNamesSession'
  BY <1>0 DEF ConnInv, TypeOK, GenerationNamesSession, GenerationsPast
<1>8. InUseIsLatest'
  BY <1>0 DEF ConnInv, TypeOK, InUseIsLatest, NotBegun, ReceiverAfterDial, GenerationsPast
<1>9. CloseClosed'
  BY <1>0 DEF ConnInv, TypeOK, CloseClosed
<1>10. SessionKept'
  BY <1>0 DEF ConnInv, TypeOK, SessionKept, NotBegun, LosingIsDetached
<1> QED
  BY <1>1, <1>2, <1>3, <1>4, <1>5, <1>6, <1>7, <1>8, <1>9, <1>10 DEF ConnInv

\* The attempt begins a generation (connection.py:359-372).
LEMMA AuthSucceeds ==
    ASSUME ConnInv, NEW a \in Attempts, att[a] = "hello",
           OwnsTransport(a), NewGeneration(a), AuthRest, authOf' = 0,
           UNCHANGED <<transport, negotiated, why>>,
           \/ Authenticated(a)
           \/ /\ att' = [att EXCEPT ![a] = "restoring"]
              /\ UNCHANGED <<state, everAuth, hb, rtask>>
    PROVE  ConnInv'
<1> USE ConnectionAssumption DEF ConnectionAssumption, Attempts, InProgress, Settled,
        genVars
<1>0. /\ gen' = gen + 1 /\ genOf' = [genOf EXCEPT ![a] = gen + 1]
      /\ ~closed /\ transport = a /\ receiver = a /\ rcv[a] # "done" /\ authOf' = 0
      /\ UNCHANGED <<closed, receiver, auth, waitsOn, asked, opened, connectTask, tries,
                     closeNotified, consumer, lossTask, closer, inflight, rcv, transport,
                     negotiated, why>>
      /\ \/ /\ state' = "AUTHENTICATED" /\ everAuth' = TRUE
            /\ \/ att' = [att EXCEPT ![a] = "swapping"]
               \/ att' = [att EXCEPT ![a] = "done"]
            /\ hb' \in {"done", "beating", hb} /\ rtask' \in {rtask, "done"}
         \/ /\ att' = [att EXCEPT ![a] = "restoring"]
            /\ UNCHANGED <<state, everAuth, hb, rtask>>
  BY DEF OwnsTransport, NewGeneration, AuthRest, Authenticated, LoopEnds, SetState
<1>a. rcv[a] = "running"
  BY <1>0 DEF ConnInv, TypeOK, ReceiverAfterDial, LosingIsDetached
<1>1. TypeOK'
  <2>1. gen' \in Nat /\ genOf' \in [Attempts -> Nat]
    BY <1>0 DEF ConnInv, TypeOK
  <2>2. att' \in [Attempts -> InProgress \cup {"unused", "done", "failed"}]
    BY <1>0 DEF ConnInv, TypeOK
  <2>3. /\ state' \in Settled \cup {"CONNECTING", "AUTHENTICATING", "AUTHENTICATED"}
        /\ hb' \in {"none", "beating", "losing", "done"}
        /\ rtask' \in {"none", "created", "backoff", "opening", "done"}
    BY <1>0 DEF ConnInv, TypeOK
  <2>4. everAuth' \in BOOLEAN
    BY <1>0 DEF ConnInv, TypeOK
  <2>5. authOf' \in 0..MaxAttempts
    BY <1>0
  <2> QED
    BY <1>0, <2>1, <2>2, <2>3, <2>4, <2>5 DEF ConnInv, TypeOK
<1>2. NotBegun'
  BY <1>0 DEF ConnInv, TypeOK, NotBegun
<1>3. ReceiverAfterDial'
  BY <1>0 DEF ConnInv, TypeOK, ReceiverAfterDial, NotBegun
<1>4. LosingIsDetached'
  BY <1>0 DEF ConnInv, TypeOK, LosingIsDetached, ReceiverAfterDial, NotBegun
<1>5. FuturesExist'
  BY <1>0, SMTT(30) DEF ConnInv, TypeOK, FuturesExist
<1>6. GenerationsPast'
  BY <1>0 DEF ConnInv, TypeOK, GenerationsPast
<1>7. GenerationNamesSession'
  <2> SUFFICES ASSUME NEW b \in Attempts, NEW c \in Attempts,
                      genOf'[b] # 0, genOf'[b] = genOf'[c]
               PROVE  b = c
    BY DEF GenerationNamesSession
  <2>1. \A d \in Attempts : /\ genOf[d] \in Nat /\ genOf[d] <= gen /\ gen \in Nat
                            /\ genOf'[d] = IF d = a THEN gen + 1 ELSE genOf[d]
    BY <1>0 DEF ConnInv, TypeOK, GenerationsPast
  <2>2. CASE b = a \/ c = a
    BY <2>1, <2>2
  <2>3. CASE b # a /\ c # a
    BY <2>1, <2>3 DEF ConnInv, GenerationNamesSession
  <2> QED
    BY <2>2, <2>3
<1>8. InUseIsLatest'
  BY <1>0 DEF ConnInv, TypeOK, InUseIsLatest, NotBegun, ReceiverAfterDial, GenerationsPast
<1>9. CloseClosed'
  BY <1>0 DEF ConnInv, TypeOK, CloseClosed
<1>10. SessionKept'
  BY <1>0, <1>a DEF ConnInv, TypeOK, SessionKept
<1> QED
  BY <1>1, <1>2, <1>3, <1>4, <1>5, <1>6, <1>7, <1>8, <1>9, <1>10 DEF ConnInv

\* The awaited future is done (connection.py:356-372).
LEMMA InvAuthSettled ==
    ASSUME ConnInv, NEW a \in Attempts, AuthSettled(a)
    PROVE  ConnInv'
<1> DEFINE kinds == {"error", "rejected", "version"}
<1>1. att[a] = "hello" /\ AuthRest
  BY DEF AuthSettled, AuthRest
<1>2. auth[waitsOn[a]] \in kinds \cup {"pending", "hello"}
  BY <1>1 DEF ConnInv, TypeOK, FuturesExist, Attempts
<1>3. authOf # 0 => auth[authOf] \in kinds \cup {"pending", "hello"}
  BY ConnectionAssumption DEF ConnectionAssumption, ConnInv, TypeOK, FuturesExist, Attempts
<1>4. \/ \E kind \in kinds : /\ Unwind(a, kind) /\ authOf' \in {authOf, 0}
                             /\ UNCHANGED <<state, genVars, hb, rtask>>
      \/ /\ OwnsTransport(a) /\ NewGeneration(a) /\ authOf' = 0
         /\ UNCHANGED <<transport, negotiated, why>>
         /\ \/ Authenticated(a)
            \/ /\ att' = [att EXCEPT ![a] = "restoring"]
               /\ UNCHANGED <<state, everAuth, hb, rtask>>
  BY <1>2, <1>3 DEF AuthSettled
<1>5. CASE \E kind \in kinds : /\ Unwind(a, kind) /\ authOf' \in {authOf, 0}
                              /\ UNCHANGED <<state, genVars, hb, rtask>>
  BY <1>1, <1>5, AuthFails
<1> QED
  BY <1>1, <1>4, <1>5, AuthSucceeds

\* The old heartbeat was gathered (connection.py:645-652).
LEMMA InvHeartbeatSwapped ==
    ASSUME ConnInv, NEW a \in Attempts, HeartbeatSwapped(a)
    PROVE  ConnInv'
<1> USE ConnectionAssumption DEF ConnectionAssumption, Attempts, InProgress, Settled,
        connVars, authVars, attemptVars, loopVars, genVars, taskVars
<1>1. TypeOK'
  BY DEF ConnInv, TypeOK, HeartbeatSwapped, LoopEnds
<1>2. NotBegun'
  BY DEF ConnInv, TypeOK, NotBegun, HeartbeatSwapped, LoopEnds
<1>3. ReceiverAfterDial'
  BY DEF ConnInv, TypeOK, ReceiverAfterDial, HeartbeatSwapped, LoopEnds, NotBegun
<1>4. LosingIsDetached'
  BY DEF ConnInv, TypeOK, LosingIsDetached, HeartbeatSwapped, LoopEnds,
         ReceiverAfterDial, NotBegun
<1>5. FuturesExist'
  BY DEF ConnInv, TypeOK, FuturesExist, HeartbeatSwapped, LoopEnds
<1>6. GenerationsPast'
  BY DEF ConnInv, TypeOK, GenerationsPast, HeartbeatSwapped, LoopEnds
<1>7. GenerationNamesSession'
  BY DEF ConnInv, TypeOK, GenerationNamesSession, HeartbeatSwapped, LoopEnds,
         GenerationsPast
<1>8. InUseIsLatest'
  BY DEF ConnInv, TypeOK, InUseIsLatest, HeartbeatSwapped, LoopEnds, NotBegun,
         ReceiverAfterDial, GenerationsPast
<1>9. CloseClosed'
  BY DEF ConnInv, TypeOK, CloseClosed, HeartbeatSwapped, LoopEnds
<1>10. SessionKept'
  BY DEF ConnInv, TypeOK, SessionKept, HeartbeatSwapped, LoopEnds, NotBegun,
         LosingIsDetached
<1> QED
  BY <1>1, <1>2, <1>3, <1>4, <1>5, <1>6, <1>7, <1>8, <1>9, <1>10 DEF ConnInv

\* The registrations were restored (connection.py:361-372).
LEMMA InvRestored ==
    ASSUME ConnInv, NEW a \in Attempts, Restored(a)
    PROVE  ConnInv'
<1> USE ConnectionAssumption DEF ConnectionAssumption, Attempts, InProgress, Settled,
        connVars, authVars, attemptVars, loopVars, genVars, taskVars
<1>1. TypeOK'
  <2>1. UNCHANGED <<closed, receiver, authOf, gen, closeNotified, opened, auth, waitsOn,
                    asked, rcv, genOf, connectTask, tries, lossTask, closer,
                    inflight, consumer>>
    BY DEF Restored, Unwind, Authenticated, LoopEnds, SetState
  <2>2. att' \in [Attempts -> InProgress \cup {"unused", "done", "failed"}]
    BY DEF ConnInv, TypeOK, Restored, Unwind, Authenticated, LoopEnds, SetState
  <2>3. why' \in [Attempts -> {"none", "error", "rejected", "version"}]
    BY DEF ConnInv, TypeOK, Restored, Unwind, Authenticated, LoopEnds, SetState
  <2>4. negotiated' \in BOOLEAN
    BY DEF ConnInv, TypeOK, Restored, Unwind, Authenticated, LoopEnds, SetState
  <2>5. transport' \in 0..MaxAttempts
    BY DEF ConnInv, TypeOK, Restored, Unwind, Authenticated, LoopEnds, SetState
  <2>6. state' \in {"DISCONNECTED", "RECONNECTING", "CLOSED", "CONNECTING",
                      "AUTHENTICATING", "AUTHENTICATED"}
    BY DEF ConnInv, TypeOK, Restored, Unwind, Authenticated, LoopEnds, SetState
  <2>7. everAuth' \in BOOLEAN
    BY DEF ConnInv, TypeOK, Restored, Unwind, Authenticated, LoopEnds, SetState
  <2>8. hb' \in {"none", "beating", "losing", "done"}
    BY DEF ConnInv, TypeOK, Restored, Unwind, Authenticated, LoopEnds, SetState
  <2>9. rtask' \in {"none", "created", "backoff", "opening", "done"}
    BY DEF ConnInv, TypeOK, Restored, Unwind, Authenticated, LoopEnds, SetState
  <2> QED
    BY <2>1, <2>2, <2>3, <2>4, <2>5, <2>6, <2>7, <2>8, <2>9 DEF ConnInv, TypeOK
<1>2. NotBegun'
  BY DEF ConnInv, TypeOK, NotBegun, Restored, Unwind, OwnsTransport, Authenticated,
         LoopEnds, SetState
<1>3. ReceiverAfterDial'
  BY DEF ConnInv, TypeOK, ReceiverAfterDial, Restored, Unwind, OwnsTransport,
         Authenticated, LoopEnds, SetState, NotBegun
<1>4. LosingIsDetached'
  BY DEF ConnInv, TypeOK, LosingIsDetached, Restored, Unwind, OwnsTransport,
         Authenticated, LoopEnds, SetState, ReceiverAfterDial, NotBegun
<1>5. FuturesExist'
  BY DEF ConnInv, TypeOK, FuturesExist, Restored, Unwind, OwnsTransport,
         Authenticated, LoopEnds, SetState
<1>6. GenerationsPast'
  BY DEF ConnInv, TypeOK, GenerationsPast, Restored, Unwind, OwnsTransport,
         Authenticated, LoopEnds, SetState
<1>7. GenerationNamesSession'
  BY DEF ConnInv, TypeOK, GenerationNamesSession, Restored, Unwind, OwnsTransport,
         Authenticated, LoopEnds, SetState, GenerationsPast
<1>8. InUseIsLatest'
  BY DEF ConnInv, TypeOK, InUseIsLatest, Restored, Unwind, OwnsTransport,
         Authenticated, LoopEnds, SetState, NotBegun, ReceiverAfterDial,
         GenerationsPast
<1>9. CloseClosed'
  BY DEF ConnInv, TypeOK, CloseClosed, Restored, Unwind, OwnsTransport,
         Authenticated, LoopEnds, SetState
<1>10. SessionKept'
  <2>1. CASE OwnsTransport(a) /\ Authenticated(a)
    <3>1. /\ transport = a /\ receiver = a /\ rcv[a] = "running"
          /\ UNCHANGED <<transport, receiver, rcv>>
      BY <2>1 DEF ConnInv, TypeOK, OwnsTransport, Restored, ReceiverAfterDial,
                  LosingIsDetached
    <3>2. att'[a] \in {"swapping", "done"}
      BY <2>1 DEF Authenticated, ConnInv, TypeOK
    <3> QED
      BY <3>1, <3>2 DEF SessionKept
  <2>2. CASE ~OwnsTransport(a) /\ Unwind(a, "error") /\ UNCHANGED state
    BY <2>2 DEF ConnInv, TypeOK, SessionKept, Restored, Unwind
  <2> QED
    BY <2>1, <2>2 DEF Restored
<1> QED
  BY <1>1, <1>2, <1>3, <1>4, <1>5, <1>6, <1>7, <1>8, <1>9, <1>10 DEF ConnInv

\* The reconnect task runs for the first time (connection.py:575-581).
LEMMA InvReconnectStarts ==
    ASSUME ConnInv, ReconnectStarts
    PROVE  ConnInv'
<1> USE ConnectionAssumption DEF ConnectionAssumption, Attempts, InProgress, Settled,
        connVars, authVars, attemptVars, loopVars, genVars, taskVars
<1>1. TypeOK'
  <2>1. UNCHANGED <<closed, transport, receiver, authOf, gen, everAuth, negotiated, opened,
                    att, why, auth, waitsOn, asked, rcv, genOf, connectTask, hb,
                    lossTask, closer, inflight>>
    BY DEF ReconnectStarts, LoopAgain, TriesLeft, NotifyClose, SetState
  <2>2. state' \in {"DISCONNECTED", "RECONNECTING", "CLOSED", "CONNECTING",
                      "AUTHENTICATING", "AUTHENTICATED"}
    BY DEF ConnInv, TypeOK, ReconnectStarts, LoopAgain, TriesLeft, NotifyClose, SetState
  <2>3. rtask' \in {"none", "created", "backoff", "opening", "done"}
    BY DEF ConnInv, TypeOK, ReconnectStarts, LoopAgain, TriesLeft, NotifyClose, SetState
  <2>4. tries' \in 0..MaxTries
    BY DEF ConnInv, TypeOK, ReconnectStarts, LoopAgain, TriesLeft, NotifyClose, SetState
  <2>5. closeNotified' \in BOOLEAN
    BY DEF ConnInv, TypeOK, ReconnectStarts, LoopAgain, TriesLeft, NotifyClose, SetState
  <2>6. consumer' \in {"none", "waiting", "ended"}
    BY DEF ConnInv, TypeOK, ReconnectStarts, LoopAgain, TriesLeft, NotifyClose, SetState
  <2> QED
    BY <2>1, <2>2, <2>3, <2>4, <2>5, <2>6 DEF ConnInv, TypeOK
<1>2. NotBegun'
  BY DEF ConnInv, TypeOK, NotBegun, ReconnectStarts, LoopAgain, TriesLeft,
         NotifyClose, SetState
<1>3. ReceiverAfterDial'
  BY DEF ConnInv, TypeOK, ReceiverAfterDial, ReconnectStarts, LoopAgain, TriesLeft,
         NotifyClose, SetState, NotBegun
<1>4. LosingIsDetached'
  BY DEF ConnInv, TypeOK, LosingIsDetached, ReconnectStarts, LoopAgain, TriesLeft,
         NotifyClose, SetState, ReceiverAfterDial, NotBegun
<1>5. FuturesExist'
  BY DEF ConnInv, TypeOK, FuturesExist, ReconnectStarts, LoopAgain, TriesLeft,
         NotifyClose, SetState
<1>6. GenerationsPast'
  BY DEF ConnInv, TypeOK, GenerationsPast, ReconnectStarts, LoopAgain, TriesLeft,
         NotifyClose, SetState
<1>7. GenerationNamesSession'
  BY DEF ConnInv, TypeOK, GenerationNamesSession, ReconnectStarts, LoopAgain,
         TriesLeft, NotifyClose, SetState, GenerationsPast
<1>8. InUseIsLatest'
  BY DEF ConnInv, TypeOK, InUseIsLatest, ReconnectStarts, LoopAgain, TriesLeft,
         NotifyClose, SetState, NotBegun, ReceiverAfterDial, GenerationsPast
<1>9. CloseClosed'
  BY DEF ConnInv, TypeOK, CloseClosed, ReconnectStarts, LoopAgain, TriesLeft,
         NotifyClose, SetState
<1>10. SessionKept'
  BY DEF ConnInv, TypeOK, SessionKept, ReconnectStarts, LoopAgain, TriesLeft,
         NotifyClose, SetState, NotBegun, LosingIsDetached
<1> QED
  BY <1>1, <1>2, <1>3, <1>4, <1>5, <1>6, <1>7, <1>8, <1>9, <1>10 DEF ConnInv

\* The back-off is over (connection.py:582-584, 333-344).
LEMMA InvBackoffEnds ==
    ASSUME ConnInv, BackoffEnds
    PROVE  ConnInv'
<1> USE ConnectionAssumption DEF ConnectionAssumption, Attempts, InProgress, Settled,
        connVars, authVars, attemptVars, loopVars, genVars, taskVars
<1>1. TypeOK'
  <2>1. UNCHANGED <<closed, receiver, authOf, gen, everAuth, negotiated, why, auth,
                    waitsOn, asked, rcv, genOf, connectTask, hb, lossTask, closer,
                    inflight>>
    BY DEF BackoffEnds, LoopAgain, TriesLeft, NotifyClose, SetState
  <2>2. state' \in {"DISCONNECTED", "RECONNECTING", "CLOSED", "CONNECTING",
                      "AUTHENTICATING", "AUTHENTICATED"}
    BY DEF ConnInv, TypeOK, BackoffEnds, LoopAgain, TriesLeft, NotifyClose, SetState
  <2>3. rtask' \in {"none", "created", "backoff", "opening", "done"}
    BY DEF ConnInv, TypeOK, BackoffEnds, LoopAgain, TriesLeft, NotifyClose, SetState
  <2>4. tries' \in 0..MaxTries
    BY DEF ConnInv, TypeOK, BackoffEnds, LoopAgain, TriesLeft, NotifyClose, SetState
  <2>5. closeNotified' \in BOOLEAN
    BY DEF ConnInv, TypeOK, BackoffEnds, LoopAgain, TriesLeft, NotifyClose, SetState
  <2>6. consumer' \in {"none", "waiting", "ended"}
    BY DEF ConnInv, TypeOK, BackoffEnds, LoopAgain, TriesLeft, NotifyClose, SetState
  <2>7. opened' \in 0..MaxAttempts
    BY DEF ConnInv, TypeOK, BackoffEnds, LoopAgain, TriesLeft, NotifyClose, SetState
  <2>8. att' \in [Attempts -> InProgress \cup {"unused", "done", "failed"}]
    BY DEF ConnInv, TypeOK, BackoffEnds, LoopAgain, TriesLeft, NotifyClose, SetState
  <2>9. transport' \in 0..MaxAttempts
    BY DEF ConnInv, TypeOK, BackoffEnds, LoopAgain, TriesLeft, NotifyClose, SetState
  <2> QED
    BY <2>1, <2>2, <2>3, <2>4, <2>5, <2>6, <2>7, <2>8, <2>9 DEF ConnInv, TypeOK
<1>2. NotBegun'
  BY DEF ConnInv, TypeOK, NotBegun, BackoffEnds, LoopAgain, TriesLeft, NotifyClose,
         SetState
<1>3. ReceiverAfterDial'
  <2>1. rcv' = rcv /\ receiver' = receiver
    BY DEF BackoffEnds
  <2>2. \A b \in Attempts : att'[b] = att[b] \/ att[b] = "unused"
    BY DEF ConnInv, TypeOK, NotBegun, BackoffEnds
  <2> QED
    BY <2>1, <2>2 DEF ConnInv, TypeOK, ReceiverAfterDial
<1>4. LosingIsDetached'
  BY DEF ConnInv, TypeOK, LosingIsDetached, BackoffEnds, LoopAgain, TriesLeft,
         NotifyClose, SetState, ReceiverAfterDial, NotBegun
<1>5. FuturesExist'
  BY DEF ConnInv, TypeOK, FuturesExist, BackoffEnds, LoopAgain, TriesLeft,
         NotifyClose, SetState
<1>6. GenerationsPast'
  BY DEF ConnInv, TypeOK, GenerationsPast, BackoffEnds, LoopAgain, TriesLeft,
         NotifyClose, SetState
<1>7. GenerationNamesSession'
  BY DEF ConnInv, TypeOK, GenerationNamesSession, BackoffEnds, LoopAgain, TriesLeft,
         NotifyClose, SetState, GenerationsPast
<1>8. InUseIsLatest'
  <2> SUFFICES ASSUME NEW b \in Attempts, transport' = b,
                      att'[b] \in {"restoring", "swapping", "done"}
               PROVE  genOf'[b] = gen'
    BY DEF InUseIsLatest
  <2>1. genOf' = genOf /\ gen' = gen
    BY DEF BackoffEnds
  <2>2. CASE UNCHANGED <<att, transport>>
    BY <2>1, <2>2 DEF ConnInv, InUseIsLatest
  <2>3. CASE /\ opened < MaxAttempts /\ transport' = opened + 1
             /\ att' = [att EXCEPT ![opened + 1] = "dialing"]
    BY <2>3 DEF ConnInv, TypeOK
  <2> QED
    BY <2>2, <2>3 DEF BackoffEnds
<1>9. CloseClosed'
  BY DEF ConnInv, TypeOK, CloseClosed, BackoffEnds, LoopAgain, TriesLeft,
         NotifyClose, SetState
<1>10. SessionKept'
  BY DEF ConnInv, TypeOK, SessionKept, BackoffEnds, LoopAgain, TriesLeft,
         NotifyClose, SetState, NotBegun, LosingIsDetached
<1> QED
  BY <1>1, <1>2, <1>3, <1>4, <1>5, <1>6, <1>7, <1>8, <1>9, <1>10 DEF ConnInv

\* A failed attempt has cleaned up (connection.py:377-389, 585-601).
LEMMA InvUnwound ==
    ASSUME ConnInv, NEW a \in Attempts, Unwound(a)
    PROVE  ConnInv'
<1> USE ConnectionAssumption DEF ConnectionAssumption, Attempts, InProgress, Settled,
        connVars, authVars, attemptVars, loopVars, genVars, taskVars
<1>1. TypeOK'
  <2>1. UNCHANGED <<transport, receiver, authOf, gen, everAuth, negotiated, opened, why,
                    auth, waitsOn, asked, genOf, connectTask, hb, lossTask, closer,
                    inflight>>
    BY DEF Unwound, AfterFailure, LoopAgain, TriesLeft, NotifyClose, SetState
  <2>2. state' \in {"DISCONNECTED", "RECONNECTING", "CLOSED", "CONNECTING",
                      "AUTHENTICATING", "AUTHENTICATED"}
    BY DEF ConnInv, TypeOK, Unwound, AfterFailure, LoopAgain, TriesLeft, NotifyClose, SetState
  <2>3. closed' \in BOOLEAN
    BY DEF ConnInv, TypeOK, Unwound, AfterFailure, LoopAgain, TriesLeft, NotifyClose, SetState
  <2>4. rtask' \in {"none", "created", "backoff", "opening", "done"}
    BY DEF ConnInv, TypeOK, Unwound, AfterFailure, LoopAgain, TriesLeft, NotifyClose, SetState
  <2>5. tries' \in 0..MaxTries
    BY DEF ConnInv, TypeOK, Unwound, AfterFailure, LoopAgain, TriesLeft, NotifyClose, SetState
  <2>6. closeNotified' \in BOOLEAN
    BY DEF ConnInv, TypeOK, Unwound, AfterFailure, LoopAgain, TriesLeft, NotifyClose, SetState
  <2>7. consumer' \in {"none", "waiting", "ended"}
    BY DEF ConnInv, TypeOK, Unwound, AfterFailure, LoopAgain, TriesLeft, NotifyClose, SetState
  <2>8. att' \in [Attempts -> InProgress \cup {"unused", "done", "failed"}]
    BY DEF ConnInv, TypeOK, Unwound, AfterFailure, LoopAgain, TriesLeft, NotifyClose, SetState
  <2>9. rcv' \in [Attempts -> {"none", "running", "losing", "done"}]
    BY DEF ConnInv, TypeOK, Unwound, AfterFailure, LoopAgain, TriesLeft, NotifyClose, SetState
  <2> QED
    BY <2>1, <2>2, <2>3, <2>4, <2>5, <2>6, <2>7, <2>8, <2>9, SMTT(30) DEF ConnInv, TypeOK
<1>2. NotBegun'
  BY DEF ConnInv, TypeOK, NotBegun, Unwound, AfterFailure, LoopAgain, TriesLeft,
         NotifyClose, SetState
<1>3. ReceiverAfterDial'
  BY DEF ConnInv, TypeOK, ReceiverAfterDial, Unwound, AfterFailure, LoopAgain,
         TriesLeft, NotifyClose, SetState, NotBegun
<1>4. LosingIsDetached'
  BY DEF ConnInv, TypeOK, LosingIsDetached, Unwound, AfterFailure, LoopAgain,
         TriesLeft, NotifyClose, SetState, ReceiverAfterDial, NotBegun
<1>5. FuturesExist'
  BY DEF ConnInv, TypeOK, FuturesExist, Unwound, AfterFailure, LoopAgain, TriesLeft,
         NotifyClose, SetState
<1>6. GenerationsPast'
  BY DEF ConnInv, TypeOK, GenerationsPast, Unwound, AfterFailure, LoopAgain,
         TriesLeft, NotifyClose, SetState
<1>7. GenerationNamesSession'
  BY DEF ConnInv, TypeOK, GenerationNamesSession, Unwound, AfterFailure, LoopAgain,
         TriesLeft, NotifyClose, SetState, GenerationsPast
<1>8. InUseIsLatest'
  BY DEF ConnInv, TypeOK, InUseIsLatest, Unwound, AfterFailure, LoopAgain, TriesLeft,
         NotifyClose, SetState, NotBegun, ReceiverAfterDial, GenerationsPast
<1>9. CloseClosed'
  BY DEF ConnInv, TypeOK, CloseClosed, Unwound, AfterFailure, LoopAgain, TriesLeft,
         NotifyClose, SetState
<1>10. SessionKept'
  BY DEF ConnInv, TypeOK, SessionKept, Unwound, AfterFailure, LoopAgain, TriesLeft,
         NotifyClose, SetState, NotBegun, LosingIsDetached
<1> QED
  BY <1>1, <1>2, <1>3, <1>4, <1>5, <1>6, <1>7, <1>8, <1>9, <1>10 DEF ConnInv

\* A rejected attempt has closed the dispatcher (connection.py:382-386).
LEMMA InvDrained ==
    ASSUME ConnInv, NEW a \in Attempts, Drained(a)
    PROVE  ConnInv'
<1> USE ConnectionAssumption DEF ConnectionAssumption, Attempts, InProgress, Settled,
        connVars, authVars, attemptVars, loopVars, genVars, taskVars
<1>1. TypeOK'
  BY DEF ConnInv, TypeOK, Drained, LoopEnds
<1>2. NotBegun'
  BY DEF ConnInv, TypeOK, NotBegun, Drained, LoopEnds
<1>3. ReceiverAfterDial'
  BY DEF ConnInv, TypeOK, ReceiverAfterDial, Drained, LoopEnds, NotBegun
<1>4. LosingIsDetached'
  BY DEF ConnInv, TypeOK, LosingIsDetached, Drained, LoopEnds, ReceiverAfterDial,
         NotBegun
<1>5. FuturesExist'
  BY DEF ConnInv, TypeOK, FuturesExist, Drained, LoopEnds
<1>6. GenerationsPast'
  BY DEF ConnInv, TypeOK, GenerationsPast, Drained, LoopEnds
<1>7. GenerationNamesSession'
  BY DEF ConnInv, TypeOK, GenerationNamesSession, Drained, LoopEnds, GenerationsPast
<1>8. InUseIsLatest'
  BY DEF ConnInv, TypeOK, InUseIsLatest, Drained, LoopEnds, NotBegun,
         ReceiverAfterDial, GenerationsPast
<1>9. CloseClosed'
  BY DEF ConnInv, TypeOK, CloseClosed, Drained, LoopEnds
<1>10. SessionKept'
  BY DEF ConnInv, TypeOK, SessionKept, Drained, LoopEnds, NotBegun, LosingIsDetached
<1> QED
  BY <1>1, <1>2, <1>3, <1>4, <1>5, <1>6, <1>7, <1>8, <1>9, <1>10 DEF ConnInv

\* HELLO (connection.py:470-506).
LEMMA InvReceiveHello ==
    ASSUME ConnInv, NEW a \in Attempts, ReceiveHello(a)
    PROVE  ConnInv'
<1> USE ConnectionAssumption DEF ConnectionAssumption, Attempts, InProgress, Settled,
        connVars, authVars, attemptVars, loopVars, genVars, taskVars
<1>1. TypeOK'
  BY DEF ConnInv, TypeOK, ReceiveHello
<1>2. NotBegun'
  BY DEF ConnInv, TypeOK, NotBegun, ReceiveHello
<1>3. ReceiverAfterDial'
  BY DEF ConnInv, TypeOK, ReceiverAfterDial, ReceiveHello, NotBegun
<1>4. LosingIsDetached'
  BY DEF ConnInv, TypeOK, LosingIsDetached, ReceiveHello, ReceiverAfterDial, NotBegun
<1>5. FuturesExist'
  BY DEF ConnInv, TypeOK, FuturesExist, ReceiveHello
<1>6. GenerationsPast'
  BY DEF ConnInv, TypeOK, GenerationsPast, ReceiveHello
<1>7. GenerationNamesSession'
  BY DEF ConnInv, TypeOK, GenerationNamesSession, ReceiveHello, GenerationsPast
<1>8. InUseIsLatest'
  BY DEF ConnInv, TypeOK, InUseIsLatest, ReceiveHello, NotBegun, ReceiverAfterDial,
         GenerationsPast
<1>9. CloseClosed'
  BY DEF ConnInv, TypeOK, CloseClosed, ReceiveHello
<1>10. SessionKept'
  BY DEF ConnInv, TypeOK, SessionKept, ReceiveHello, NotBegun, LosingIsDetached
<1> QED
  BY <1>1, <1>2, <1>3, <1>4, <1>5, <1>6, <1>7, <1>8, <1>9, <1>10 DEF ConnInv

\* The receive loop raises (connection.py:445-453, 547-560).
LEMMA InvReceiveRaises ==
    ASSUME ConnInv, NEW a \in Attempts, NEW kind \in Failures, ReceiveRaises(a, kind)
    PROVE  ConnInv'
<1> USE ConnectionAssumption DEF ConnectionAssumption, Attempts, InProgress, Settled,
        connVars, authVars, attemptVars, loopVars, genVars, taskVars
<1>1. TypeOK'
  <2>1. UNCHANGED <<closed, receiver, authOf, gen, everAuth, closeNotified, opened, att,
                    why, waitsOn, asked, genOf, connectTask, rtask, tries, hb,
                    lossTask, closer, inflight, consumer>>
    BY DEF ReceiveRaises, Lost, ReceiversAfter, SetState
  <2>2. state' \in {"DISCONNECTED", "RECONNECTING", "CLOSED", "CONNECTING",
                      "AUTHENTICATING", "AUTHENTICATED"}
    BY DEF ConnInv, TypeOK, ReceiveRaises, Lost, ReceiversAfter, SetState
  <2>3. negotiated' \in BOOLEAN
    BY DEF ConnInv, TypeOK, ReceiveRaises, Lost, ReceiversAfter, SetState
  <2>4. transport' \in 0..MaxAttempts
    BY DEF ConnInv, TypeOK, ReceiveRaises, Lost, ReceiversAfter, SetState
  <2>5. auth' \in [Attempts -> {"none", "pending", "hello", "error", "rejected", "version"}]
    <3>1. \/ auth' = auth
          \/ auth' = [auth EXCEPT ![authOf] = IF @ = "pending" THEN kind ELSE @]
      BY DEF ReceiveRaises
    <3>2. kind \in {"error", "rejected", "version"}
      BY DEF ConnectionAssumption
    <3>3. auth \in [Attempts -> {"none", "pending", "hello", "error", "rejected", "version"}]
      BY DEF ConnInv, TypeOK
    <3> QED
      BY <3>1, <3>2, <3>3
  <2>6. rcv' \in [Attempts -> {"none", "running", "losing", "done"}]
    BY DEF ConnInv, TypeOK, ReceiveRaises, Lost, ReceiversAfter, SetState
  <2> QED
    BY <2>1, <2>2, <2>3, <2>4, <2>5, <2>6, SMTT(30) DEF ConnInv, TypeOK
<1>2. NotBegun'
  BY DEF ConnInv, TypeOK, NotBegun, ReceiveRaises, Lost, ReceiversAfter, SetState
<1>3. ReceiverAfterDial'
  <2>1. att' = att /\ receiver' = receiver
    BY DEF ReceiveRaises
  <2>2. \A b \in Attempts : rcv'[b] = "none" <=> rcv[b] = "none"
    BY SMTT(30) DEF ConnInv, TypeOK, ReceiverAfterDial, ReceiveRaises, ReceiversAfter
  <2> QED
    BY <2>1, <2>2 DEF ConnInv, TypeOK, ReceiverAfterDial
<1>4. LosingIsDetached'
  BY DEF ConnInv, TypeOK, LosingIsDetached, ReceiveRaises, Lost, ReceiversAfter
<1>5. FuturesExist'
  <2>1. att' = att /\ waitsOn' = waitsOn /\ authOf' = authOf
    BY DEF ReceiveRaises
  <2>2. CASE auth' = auth
    BY <2>1, <2>2 DEF ConnInv, FuturesExist
  <2>3. CASE /\ authOf # 0
             /\ auth' = [auth EXCEPT ![authOf] = IF @ = "pending" THEN kind ELSE @]
    <3>1. \A b \in Attempts : auth[b] # "none" => auth'[b] # "none"
      BY <2>3 DEF ConnInv, TypeOK
    <3>2. authOf \in Attempts
      BY <2>3 DEF ConnInv, TypeOK
    <3> QED
      BY <2>1, <3>1, <3>2 DEF ConnInv, FuturesExist
  <2> QED
    BY <2>2, <2>3 DEF ReceiveRaises
<1>6. GenerationsPast'
  BY DEF ConnInv, TypeOK, GenerationsPast, ReceiveRaises, Lost, ReceiversAfter,
         SetState
<1>7. GenerationNamesSession'
  BY DEF ConnInv, TypeOK, GenerationNamesSession, ReceiveRaises, Lost,
         ReceiversAfter, SetState, GenerationsPast
<1>8. InUseIsLatest'
  BY DEF ConnInv, TypeOK, InUseIsLatest, ReceiveRaises, Lost, ReceiversAfter,
         SetState, NotBegun, ReceiverAfterDial, GenerationsPast
<1>9. CloseClosed'
  <2>1. closed' = closed /\ closer' = closer
    BY DEF ReceiveRaises, Lost
  <2> QED
    BY <2>1 DEF ConnInv, CloseClosed
<1>10. SessionKept'
  BY DEF ConnInv, TypeOK, SessionKept, ReceiveRaises, Lost, ReceiversAfter, SetState,
         NotBegun, LosingIsDetached
<1> QED
  BY <1>1, <1>2, <1>3, <1>4, <1>5, <1>6, <1>7, <1>8, <1>9, <1>10 DEF ConnInv

\* The receive loop of a transport no longer in use ends (connection.py:438-441).
LEMMA InvReceiverRetires ==
    ASSUME ConnInv, NEW a \in Attempts, ReceiverRetires(a)
    PROVE  ConnInv'
<1> USE ConnectionAssumption DEF ConnectionAssumption, Attempts, InProgress, Settled,
        connVars, authVars, attemptVars, loopVars, genVars, taskVars
<1>1. TypeOK'
  BY DEF ConnInv, TypeOK, ReceiverRetires
<1>2. NotBegun'
  BY DEF ConnInv, TypeOK, NotBegun, ReceiverRetires
<1>3. ReceiverAfterDial'
  BY DEF ConnInv, TypeOK, ReceiverAfterDial, ReceiverRetires, NotBegun
<1>4. LosingIsDetached'
  BY DEF ConnInv, TypeOK, LosingIsDetached, ReceiverRetires, ReceiverAfterDial,
         NotBegun
<1>5. FuturesExist'
  BY DEF ConnInv, TypeOK, FuturesExist, ReceiverRetires
<1>6. GenerationsPast'
  BY DEF ConnInv, TypeOK, GenerationsPast, ReceiverRetires
<1>7. GenerationNamesSession'
  BY DEF ConnInv, TypeOK, GenerationNamesSession, ReceiverRetires, GenerationsPast
<1>8. InUseIsLatest'
  BY DEF ConnInv, TypeOK, InUseIsLatest, ReceiverRetires, NotBegun,
         ReceiverAfterDial, GenerationsPast
<1>9. CloseClosed'
  BY DEF ConnInv, TypeOK, CloseClosed, ReceiverRetires
<1>10. SessionKept'
  BY DEF ConnInv, TypeOK, SessionKept, ReceiverRetires, NotBegun, LosingIsDetached
<1> QED
  BY <1>1, <1>2, <1>3, <1>4, <1>5, <1>6, <1>7, <1>8, <1>9, <1>10 DEF ConnInv

\* The clean-up of the receive task ends (connection.py:566-569).
LEMMA InvReceiverLossEnds ==
    ASSUME ConnInv, NEW a \in Attempts, ReceiverLossEnds(a)
    PROVE  ConnInv'
<1> USE ConnectionAssumption DEF ConnectionAssumption, Attempts, InProgress, Settled,
        connVars, authVars, attemptVars, loopVars, genVars, taskVars
<1>1. TypeOK'
  <2>1. /\ rtask' \in {"none", "created", "backoff", "opening", "done"}
        /\ tries' \in 0..MaxTries
    BY DEF ConnInv, TypeOK, ReceiverLossEnds, StartReconnect
  <2>2. rcv' \in [Attempts -> {"none", "running", "losing", "done"}]
    BY DEF ConnInv, TypeOK, ReceiverLossEnds
  <2>3. UNCHANGED <<connVars, authVars, attemptVars, closeNotified, consumer, genVars,
                    closer, inflight, hb, lossTask>>
    BY DEF ReceiverLossEnds
  <2> QED
    BY <2>1, <2>2, <2>3, SMTT(30) DEF ConnInv, TypeOK
<1>2. NotBegun'
  BY DEF ConnInv, TypeOK, NotBegun, ReceiverLossEnds, StartReconnect
<1>3. ReceiverAfterDial'
  BY DEF ConnInv, TypeOK, ReceiverAfterDial, ReceiverLossEnds, StartReconnect,
         NotBegun
<1>4. LosingIsDetached'
  BY DEF ConnInv, TypeOK, LosingIsDetached, ReceiverLossEnds, StartReconnect,
         ReceiverAfterDial, NotBegun
<1>5. FuturesExist'
  BY DEF ConnInv, TypeOK, FuturesExist, ReceiverLossEnds, StartReconnect
<1>6. GenerationsPast'
  BY DEF ConnInv, TypeOK, GenerationsPast, ReceiverLossEnds, StartReconnect
<1>7. GenerationNamesSession'
  BY DEF ConnInv, TypeOK, GenerationNamesSession, ReceiverLossEnds, StartReconnect,
         GenerationsPast
<1>8. InUseIsLatest'
  BY DEF ConnInv, TypeOK, InUseIsLatest, ReceiverLossEnds, StartReconnect, NotBegun,
         ReceiverAfterDial, GenerationsPast
<1>9. CloseClosed'
  BY DEF ConnInv, TypeOK, CloseClosed, ReceiverLossEnds, StartReconnect
<1>10. SessionKept'
  BY DEF ConnInv, TypeOK, SessionKept, ReceiverLossEnds, StartReconnect, NotBegun,
         LosingIsDetached
<1> QED
  BY <1>1, <1>2, <1>3, <1>4, <1>5, <1>6, <1>7, <1>8, <1>9, <1>10 DEF ConnInv

\* A request is admitted (connection.py:200-208, 675-682).
LEMMA InvRequestBegins ==
    ASSUME ConnInv, RequestBegins
    PROVE  ConnInv'
<1> USE ConnectionAssumption DEF ConnectionAssumption, Attempts, InProgress, Settled,
        connVars, authVars, attemptVars, loopVars, genVars, taskVars
<1>1. TypeOK'
  BY DEF ConnInv, TypeOK, RequestBegins
<1>2. NotBegun'
  BY DEF ConnInv, TypeOK, NotBegun, RequestBegins
<1>3. ReceiverAfterDial'
  BY DEF ConnInv, TypeOK, ReceiverAfterDial, RequestBegins, NotBegun
<1>4. LosingIsDetached'
  BY DEF ConnInv, TypeOK, LosingIsDetached, RequestBegins, ReceiverAfterDial, NotBegun
<1>5. FuturesExist'
  BY DEF ConnInv, TypeOK, FuturesExist, RequestBegins
<1>6. GenerationsPast'
  BY DEF ConnInv, TypeOK, GenerationsPast, RequestBegins
<1>7. GenerationNamesSession'
  BY DEF ConnInv, TypeOK, GenerationNamesSession, RequestBegins, GenerationsPast
<1>8. InUseIsLatest'
  BY DEF ConnInv, TypeOK, InUseIsLatest, RequestBegins, NotBegun, ReceiverAfterDial,
         GenerationsPast
<1>9. CloseClosed'
  BY DEF ConnInv, TypeOK, CloseClosed, RequestBegins
<1>10. SessionKept'
  BY DEF ConnInv, TypeOK, SessionKept, RequestBegins, NotBegun, LosingIsDetached
<1> QED
  BY <1>1, <1>2, <1>3, <1>4, <1>5, <1>6, <1>7, <1>8, <1>9, <1>10 DEF ConnInv

\* A request ends (connection.py:412-422, 571-573).
LEMMA InvRequestEnds ==
    ASSUME ConnInv, NEW a \in Attempts, RequestEnds(a)
    PROVE  ConnInv'
<1> USE ConnectionAssumption DEF ConnectionAssumption, Attempts, InProgress, Settled,
        connVars, authVars, attemptVars, loopVars, genVars, taskVars
<1>1. TypeOK'
  BY SMTT(30) DEF ConnInv, TypeOK, RequestEnds
<1>2. NotBegun'
  BY DEF ConnInv, TypeOK, NotBegun, RequestEnds
<1>3. ReceiverAfterDial'
  BY DEF ConnInv, TypeOK, ReceiverAfterDial, RequestEnds, NotBegun
<1>4. LosingIsDetached'
  BY DEF ConnInv, TypeOK, LosingIsDetached, RequestEnds, ReceiverAfterDial, NotBegun
<1>5. FuturesExist'
  BY DEF ConnInv, TypeOK, FuturesExist, RequestEnds
<1>6. GenerationsPast'
  BY DEF ConnInv, TypeOK, GenerationsPast, RequestEnds
<1>7. GenerationNamesSession'
  BY DEF ConnInv, TypeOK, GenerationNamesSession, RequestEnds, GenerationsPast
<1>8. InUseIsLatest'
  BY DEF ConnInv, TypeOK, InUseIsLatest, RequestEnds, NotBegun, ReceiverAfterDial,
         GenerationsPast
<1>9. CloseClosed'
  BY DEF ConnInv, TypeOK, CloseClosed, RequestEnds
<1>10. SessionKept'
  BY DEF ConnInv, TypeOK, SessionKept, RequestEnds, NotBegun, LosingIsDetached
<1> QED
  BY <1>1, <1>2, <1>3, <1>4, <1>5, <1>6, <1>7, <1>8, <1>9, <1>10 DEF ConnInv

\* The loss task meets the loss, or finds it known (connection.py:547-560).
LEMMA InvLossTaskRuns ==
    ASSUME ConnInv, LossTaskRuns
    PROVE  ConnInv'
<1> USE ConnectionAssumption DEF ConnectionAssumption, Attempts, InProgress, Settled,
        connVars, authVars, attemptVars, loopVars, genVars, taskVars
<1>1. TypeOK'
  <2>1. UNCHANGED <<closed, receiver, authOf, gen, everAuth, closeNotified, opened, att,
                    why, auth, waitsOn, asked, genOf, connectTask, rtask, tries,
                    hb, closer, inflight, consumer>>
    BY DEF LossTaskRuns, Lost, ReceiversAfter, SetState
  <2>2. state' \in {"DISCONNECTED", "RECONNECTING", "CLOSED", "CONNECTING",
                      "AUTHENTICATING", "AUTHENTICATED"}
    BY DEF ConnInv, TypeOK, LossTaskRuns, Lost, ReceiversAfter, SetState
  <2>3. negotiated' \in BOOLEAN
    BY DEF ConnInv, TypeOK, LossTaskRuns, Lost, ReceiversAfter, SetState
  <2>4. transport' \in 0..MaxAttempts
    BY DEF ConnInv, TypeOK, LossTaskRuns, Lost, ReceiversAfter, SetState
  <2>5. lossTask' \in {"none", "created", "losing", "done"}
    BY DEF ConnInv, TypeOK, LossTaskRuns, Lost, ReceiversAfter, SetState
  <2>6. rcv' \in [Attempts -> {"none", "running", "losing", "done"}]
    BY DEF ConnInv, TypeOK, LossTaskRuns, Lost, ReceiversAfter, SetState
  <2> QED
    BY <2>1, <2>2, <2>3, <2>4, <2>5, <2>6 DEF ConnInv, TypeOK
<1>2. NotBegun'
  BY DEF ConnInv, TypeOK, NotBegun, LossTaskRuns, Lost, ReceiversAfter, SetState
<1>3. ReceiverAfterDial'
  BY DEF ConnInv, TypeOK, ReceiverAfterDial, LossTaskRuns, Lost, ReceiversAfter,
         SetState, NotBegun
<1>4. LosingIsDetached'
  BY DEF ConnInv, TypeOK, LosingIsDetached, LossTaskRuns, Lost, ReceiversAfter,
         SetState, ReceiverAfterDial, NotBegun
<1>5. FuturesExist'
  BY DEF ConnInv, TypeOK, FuturesExist, LossTaskRuns, Lost, ReceiversAfter, SetState
<1>6. GenerationsPast'
  BY DEF ConnInv, TypeOK, GenerationsPast, LossTaskRuns, Lost, ReceiversAfter,
         SetState
<1>7. GenerationNamesSession'
  BY DEF ConnInv, TypeOK, GenerationNamesSession, LossTaskRuns, Lost, ReceiversAfter,
         SetState, GenerationsPast
<1>8. InUseIsLatest'
  BY DEF ConnInv, TypeOK, InUseIsLatest, LossTaskRuns, Lost, ReceiversAfter,
         SetState, NotBegun, ReceiverAfterDial, GenerationsPast
<1>9. CloseClosed'
  BY DEF ConnInv, TypeOK, CloseClosed, LossTaskRuns, Lost, ReceiversAfter, SetState
<1>10. SessionKept'
  BY DEF ConnInv, TypeOK, SessionKept, LossTaskRuns, Lost, ReceiversAfter, SetState,
         NotBegun, LosingIsDetached
<1> QED
  BY <1>1, <1>2, <1>3, <1>4, <1>5, <1>6, <1>7, <1>8, <1>9, <1>10 DEF ConnInv

\* The clean-up of the loss task ends (connection.py:566-569).
LEMMA InvLossTaskEnds ==
    ASSUME ConnInv, LossTaskEnds
    PROVE  ConnInv'
<1> USE ConnectionAssumption DEF ConnectionAssumption, Attempts, InProgress, Settled,
        connVars, authVars, attemptVars, loopVars, genVars, taskVars
<1>1. TypeOK'
  <2>1. /\ rtask' \in {"none", "created", "backoff", "opening", "done"}
        /\ tries' \in 0..MaxTries
    BY DEF ConnInv, TypeOK, LossTaskEnds, StartReconnect
  <2>2. lossTask' \in {"none", "created", "losing", "done"}
    BY DEF ConnInv, TypeOK, LossTaskEnds
  <2>3. UNCHANGED <<connVars, authVars, attemptVars, closeNotified, consumer, genVars,
                    closer, inflight, hb, rcv>>
    BY DEF LossTaskEnds
  <2> QED
    BY <2>1, <2>2, <2>3 DEF ConnInv, TypeOK
<1>2. NotBegun'
  BY DEF ConnInv, TypeOK, NotBegun, LossTaskEnds, StartReconnect
<1>3. ReceiverAfterDial'
  BY DEF ConnInv, TypeOK, ReceiverAfterDial, LossTaskEnds, StartReconnect, NotBegun
<1>4. LosingIsDetached'
  BY DEF ConnInv, TypeOK, LosingIsDetached, LossTaskEnds, StartReconnect,
         ReceiverAfterDial, NotBegun
<1>5. FuturesExist'
  BY DEF ConnInv, TypeOK, FuturesExist, LossTaskEnds, StartReconnect
<1>6. GenerationsPast'
  BY DEF ConnInv, TypeOK, GenerationsPast, LossTaskEnds, StartReconnect
<1>7. GenerationNamesSession'
  BY DEF ConnInv, TypeOK, GenerationNamesSession, LossTaskEnds, StartReconnect,
         GenerationsPast
<1>8. InUseIsLatest'
  BY DEF ConnInv, TypeOK, InUseIsLatest, LossTaskEnds, StartReconnect, NotBegun,
         ReceiverAfterDial, GenerationsPast
<1>9. CloseClosed'
  BY DEF ConnInv, TypeOK, CloseClosed, LossTaskEnds, StartReconnect
<1>10. SessionKept'
  BY DEF ConnInv, TypeOK, SessionKept, LossTaskEnds, StartReconnect, NotBegun,
         LosingIsDetached
<1> QED
  BY <1>1, <1>2, <1>3, <1>4, <1>5, <1>6, <1>7, <1>8, <1>9, <1>10 DEF ConnInv

\* The heartbeat raises (connection.py:654-669).
LEMMA InvHeartbeatFails ==
    ASSUME ConnInv, HeartbeatFails
    PROVE  ConnInv'
<1> USE ConnectionAssumption DEF ConnectionAssumption, Attempts, InProgress, Settled,
        connVars, authVars, attemptVars, loopVars, genVars, taskVars
<1>1. TypeOK'
  <2>1. UNCHANGED <<closed, receiver, authOf, gen, everAuth, closeNotified, opened, att,
                    why, auth, waitsOn, asked, genOf, connectTask, rtask, tries,
                    lossTask, closer, inflight, consumer>>
    BY DEF HeartbeatFails, Lost, ReceiversAfter, SetState
  <2>2. state' \in {"DISCONNECTED", "RECONNECTING", "CLOSED", "CONNECTING",
                      "AUTHENTICATING", "AUTHENTICATED"}
    BY DEF ConnInv, TypeOK, HeartbeatFails, Lost, ReceiversAfter, SetState
  <2>3. negotiated' \in BOOLEAN
    BY DEF ConnInv, TypeOK, HeartbeatFails, Lost, ReceiversAfter, SetState
  <2>4. transport' \in 0..MaxAttempts
    BY DEF ConnInv, TypeOK, HeartbeatFails, Lost, ReceiversAfter, SetState
  <2>5. hb' \in {"none", "beating", "losing", "done"}
    BY DEF ConnInv, TypeOK, HeartbeatFails, Lost, ReceiversAfter, SetState
  <2>6. rcv' \in [Attempts -> {"none", "running", "losing", "done"}]
    BY DEF ConnInv, TypeOK, HeartbeatFails, Lost, ReceiversAfter, SetState
  <2> QED
    BY <2>1, <2>2, <2>3, <2>4, <2>5, <2>6 DEF ConnInv, TypeOK
<1>2. NotBegun'
  BY DEF ConnInv, TypeOK, NotBegun, HeartbeatFails, Lost, ReceiversAfter, SetState
<1>3. ReceiverAfterDial'
  BY DEF ConnInv, TypeOK, ReceiverAfterDial, HeartbeatFails, Lost, ReceiversAfter,
         SetState, NotBegun
<1>4. LosingIsDetached'
  BY DEF ConnInv, TypeOK, LosingIsDetached, HeartbeatFails, Lost, ReceiversAfter,
         SetState, ReceiverAfterDial, NotBegun
<1>5. FuturesExist'
  BY DEF ConnInv, TypeOK, FuturesExist, HeartbeatFails, Lost, ReceiversAfter, SetState
<1>6. GenerationsPast'
  BY DEF ConnInv, TypeOK, GenerationsPast, HeartbeatFails, Lost, ReceiversAfter,
         SetState
<1>7. GenerationNamesSession'
  BY DEF ConnInv, TypeOK, GenerationNamesSession, HeartbeatFails, Lost,
         ReceiversAfter, SetState, GenerationsPast
<1>8. InUseIsLatest'
  BY DEF ConnInv, TypeOK, InUseIsLatest, HeartbeatFails, Lost, ReceiversAfter,
         SetState, NotBegun, ReceiverAfterDial, GenerationsPast
<1>9. CloseClosed'
  BY DEF ConnInv, TypeOK, CloseClosed, HeartbeatFails, Lost, ReceiversAfter, SetState
<1>10. SessionKept'
  BY DEF ConnInv, TypeOK, SessionKept, HeartbeatFails, Lost, ReceiversAfter,
         SetState, NotBegun, LosingIsDetached
<1> QED
  BY <1>1, <1>2, <1>3, <1>4, <1>5, <1>6, <1>7, <1>8, <1>9, <1>10 DEF ConnInv

\* The heartbeat loop ends (connection.py:657-664).
LEMMA InvHeartbeatStops ==
    ASSUME ConnInv, HeartbeatStops
    PROVE  ConnInv'
<1> USE ConnectionAssumption DEF ConnectionAssumption, Attempts, InProgress, Settled,
        connVars, authVars, attemptVars, loopVars, genVars, taskVars
<1>1. TypeOK'
  BY DEF ConnInv, TypeOK, HeartbeatStops
<1>2. NotBegun'
  BY DEF ConnInv, TypeOK, NotBegun, HeartbeatStops
<1>3. ReceiverAfterDial'
  BY DEF ConnInv, TypeOK, ReceiverAfterDial, HeartbeatStops, NotBegun
<1>4. LosingIsDetached'
  BY DEF ConnInv, TypeOK, LosingIsDetached, HeartbeatStops, ReceiverAfterDial,
         NotBegun
<1>5. FuturesExist'
  BY DEF ConnInv, TypeOK, FuturesExist, HeartbeatStops
<1>6. GenerationsPast'
  BY DEF ConnInv, TypeOK, GenerationsPast, HeartbeatStops
<1>7. GenerationNamesSession'
  BY DEF ConnInv, TypeOK, GenerationNamesSession, HeartbeatStops, GenerationsPast
<1>8. InUseIsLatest'
  BY DEF ConnInv, TypeOK, InUseIsLatest, HeartbeatStops, NotBegun, ReceiverAfterDial,
         GenerationsPast
<1>9. CloseClosed'
  BY DEF ConnInv, TypeOK, CloseClosed, HeartbeatStops
<1>10. SessionKept'
  BY DEF ConnInv, TypeOK, SessionKept, HeartbeatStops, NotBegun, LosingIsDetached
<1> QED
  BY <1>1, <1>2, <1>3, <1>4, <1>5, <1>6, <1>7, <1>8, <1>9, <1>10 DEF ConnInv

\* The clean-up of the heartbeat ends (connection.py:566-569).
LEMMA InvHeartbeatLossEnds ==
    ASSUME ConnInv, HeartbeatLossEnds
    PROVE  ConnInv'
<1> USE ConnectionAssumption DEF ConnectionAssumption, Attempts, InProgress, Settled,
        connVars, authVars, attemptVars, loopVars, genVars, taskVars
<1>1. TypeOK'
  <2>1. /\ rtask' \in {"none", "created", "backoff", "opening", "done"}
        /\ tries' \in 0..MaxTries
    BY DEF ConnInv, TypeOK, HeartbeatLossEnds, StartReconnect
  <2>2. hb' \in {"none", "beating", "losing", "done"}
    BY DEF ConnInv, TypeOK, HeartbeatLossEnds
  <2>3. UNCHANGED <<connVars, authVars, attemptVars, closeNotified, consumer, genVars,
                    closer, inflight, lossTask, rcv>>
    BY DEF HeartbeatLossEnds
  <2> QED
    BY <2>1, <2>2, <2>3 DEF ConnInv, TypeOK
<1>2. NotBegun'
  BY DEF ConnInv, TypeOK, NotBegun, HeartbeatLossEnds, StartReconnect
<1>3. ReceiverAfterDial'
  BY DEF ConnInv, TypeOK, ReceiverAfterDial, HeartbeatLossEnds, StartReconnect,
         NotBegun
<1>4. LosingIsDetached'
  BY DEF ConnInv, TypeOK, LosingIsDetached, HeartbeatLossEnds, StartReconnect,
         ReceiverAfterDial, NotBegun
<1>5. FuturesExist'
  BY DEF ConnInv, TypeOK, FuturesExist, HeartbeatLossEnds, StartReconnect
<1>6. GenerationsPast'
  BY DEF ConnInv, TypeOK, GenerationsPast, HeartbeatLossEnds, StartReconnect
<1>7. GenerationNamesSession'
  BY DEF ConnInv, TypeOK, GenerationNamesSession, HeartbeatLossEnds, StartReconnect,
         GenerationsPast
<1>8. InUseIsLatest'
  BY DEF ConnInv, TypeOK, InUseIsLatest, HeartbeatLossEnds, StartReconnect, NotBegun,
         ReceiverAfterDial, GenerationsPast
<1>9. CloseClosed'
  BY DEF ConnInv, TypeOK, CloseClosed, HeartbeatLossEnds, StartReconnect
<1>10. SessionKept'
  BY DEF ConnInv, TypeOK, SessionKept, HeartbeatLossEnds, StartReconnect, NotBegun,
         LosingIsDetached
<1> QED
  BY <1>1, <1>2, <1>3, <1>4, <1>5, <1>6, <1>7, <1>8, <1>9, <1>10 DEF ConnInv

\* A subscription begins (domains/_subscriptions.py:41-105).
LEMMA InvSubscribe ==
    ASSUME ConnInv, Subscribe
    PROVE  ConnInv'
<1> USE ConnectionAssumption DEF ConnectionAssumption, Attempts, InProgress, Settled,
        connVars, authVars, attemptVars, loopVars, genVars, taskVars
<1>1. TypeOK'
  BY DEF ConnInv, TypeOK, Subscribe
<1>2. NotBegun'
  BY DEF ConnInv, TypeOK, NotBegun, Subscribe
<1>3. ReceiverAfterDial'
  BY DEF ConnInv, TypeOK, ReceiverAfterDial, Subscribe, NotBegun
<1>4. LosingIsDetached'
  BY DEF ConnInv, TypeOK, LosingIsDetached, Subscribe, ReceiverAfterDial, NotBegun
<1>5. FuturesExist'
  BY DEF ConnInv, TypeOK, FuturesExist, Subscribe
<1>6. GenerationsPast'
  BY DEF ConnInv, TypeOK, GenerationsPast, Subscribe
<1>7. GenerationNamesSession'
  BY DEF ConnInv, TypeOK, GenerationNamesSession, Subscribe, GenerationsPast
<1>8. InUseIsLatest'
  BY DEF ConnInv, TypeOK, InUseIsLatest, Subscribe, NotBegun, ReceiverAfterDial,
         GenerationsPast
<1>9. CloseClosed'
  BY DEF ConnInv, TypeOK, CloseClosed, Subscribe
<1>10. SessionKept'
  BY DEF ConnInv, TypeOK, SessionKept, Subscribe, NotBegun, LosingIsDetached
<1> QED
  BY <1>1, <1>2, <1>3, <1>4, <1>5, <1>6, <1>7, <1>8, <1>9, <1>10 DEF ConnInv

\* close() shuts the client (connection.py:162-173).
LEMMA InvCallClose ==
    ASSUME ConnInv, CallClose
    PROVE  ConnInv'
<1> USE ConnectionAssumption DEF ConnectionAssumption, Attempts, InProgress, Settled,
        connVars, authVars, attemptVars, loopVars, genVars, taskVars
<1>1. TypeOK'
  <2>1. UNCHANGED <<transport, receiver, authOf, gen, everAuth, closeNotified, opened, att,
                    why, auth, waitsOn, asked, rcv, genOf, connectTask, rtask,
                    tries, hb, lossTask, inflight, consumer>>
    BY DEF CallClose
  <2>2. state' \in {"DISCONNECTED", "RECONNECTING", "CLOSED", "CONNECTING",
                      "AUTHENTICATING", "AUTHENTICATED"}
    BY DEF ConnInv, TypeOK, CallClose
  <2>3. closed' \in BOOLEAN
    BY DEF ConnInv, TypeOK, CallClose
  <2>4. negotiated' \in BOOLEAN
    BY DEF ConnInv, TypeOK, CallClose
  <2>5. closer' \in {"none", "notifying", "done", "skipped"}
    BY DEF ConnInv, TypeOK, CallClose
  <2> QED
    BY <2>1, <2>2, <2>3, <2>4, <2>5 DEF ConnInv, TypeOK
<1>2. NotBegun'
  BY DEF ConnInv, TypeOK, NotBegun, CallClose
<1>3. ReceiverAfterDial'
  BY DEF ConnInv, TypeOK, ReceiverAfterDial, CallClose, NotBegun
<1>4. LosingIsDetached'
  BY DEF ConnInv, TypeOK, LosingIsDetached, CallClose, ReceiverAfterDial, NotBegun
<1>5. FuturesExist'
  BY DEF ConnInv, TypeOK, FuturesExist, CallClose
<1>6. GenerationsPast'
  BY DEF ConnInv, TypeOK, GenerationsPast, CallClose
<1>7. GenerationNamesSession'
  BY DEF ConnInv, TypeOK, GenerationNamesSession, CallClose, GenerationsPast
<1>8. InUseIsLatest'
  BY DEF ConnInv, TypeOK, InUseIsLatest, CallClose, NotBegun, ReceiverAfterDial,
         GenerationsPast
<1>9. CloseClosed'
  BY DEF ConnInv, TypeOK, CloseClosed, CallClose
<1>10. SessionKept'
  BY DEF ConnInv, TypeOK, SessionKept, CallClose, NotBegun, LosingIsDetached
<1> QED
  BY <1>1, <1>2, <1>3, <1>4, <1>5, <1>6, <1>7, <1>8, <1>9, <1>10 DEF ConnInv

\* close() cancels what it owns (connection.py:174-198).
LEMMA InvCloseEnds ==
    ASSUME ConnInv, CloseEnds
    PROVE  ConnInv'
<1> USE ConnectionAssumption DEF ConnectionAssumption, Attempts, InProgress, Settled,
        connVars, authVars, attemptVars, loopVars, genVars, taskVars
<1>1. TypeOK'
  <2>1. UNCHANGED <<state, closed, receiver, authOf, gen, everAuth, negotiated, opened,
                    why, auth, waitsOn, asked, genOf, connectTask, tries, inflight>>
    BY DEF CloseEnds, NotifyClose, Cancelled
  <2>2. closer' \in {"none", "notifying", "done", "skipped"}
    BY DEF ConnInv, TypeOK, CloseEnds, NotifyClose, Cancelled
  <2>3. closeNotified' \in BOOLEAN
    BY DEF ConnInv, TypeOK, CloseEnds, NotifyClose, Cancelled
  <2>4. consumer' \in {"none", "waiting", "ended"}
    BY DEF ConnInv, TypeOK, CloseEnds, NotifyClose, Cancelled
  <2>5. transport' \in 0..MaxAttempts
    BY DEF ConnInv, TypeOK, CloseEnds, NotifyClose, Cancelled
  <2>6. rtask' \in {"none", "created", "backoff", "opening", "done"}
    BY DEF ConnInv, TypeOK, CloseEnds, NotifyClose, Cancelled
  <2>7. hb' \in {"none", "beating", "losing", "done"}
    BY DEF ConnInv, TypeOK, CloseEnds, NotifyClose, Cancelled
  <2>8. lossTask' \in {"none", "created", "losing", "done"}
    BY DEF ConnInv, TypeOK, CloseEnds, NotifyClose, Cancelled
  <2>9. rcv' \in [Attempts -> {"none", "running", "losing", "done"}]
    BY DEF ConnInv, TypeOK, CloseEnds, NotifyClose, Cancelled
  <2>10. att' \in [Attempts -> InProgress \cup {"unused", "done", "failed"}]
    BY DEF ConnInv, TypeOK, CloseEnds, NotifyClose, Cancelled
  <2> QED
    BY <2>1, <2>2, <2>3, <2>4, <2>5, <2>6, <2>7, <2>8, <2>9, <2>10 DEF ConnInv, TypeOK
<1>2. NotBegun'
  BY DEF ConnInv, TypeOK, NotBegun, CloseEnds, NotifyClose, Cancelled
<1>3. ReceiverAfterDial'
  BY DEF ConnInv, TypeOK, ReceiverAfterDial, CloseEnds, NotifyClose, Cancelled,
         NotBegun
<1>4. LosingIsDetached'
  BY DEF ConnInv, TypeOK, LosingIsDetached, CloseEnds, NotifyClose, Cancelled,
         ReceiverAfterDial, NotBegun
<1>5. FuturesExist'
  BY DEF ConnInv, TypeOK, FuturesExist, CloseEnds, NotifyClose, Cancelled
<1>6. GenerationsPast'
  BY DEF ConnInv, TypeOK, GenerationsPast, CloseEnds, NotifyClose, Cancelled
<1>7. GenerationNamesSession'
  BY DEF ConnInv, TypeOK, GenerationNamesSession, CloseEnds, NotifyClose, Cancelled,
         GenerationsPast
<1>8. InUseIsLatest'
  BY DEF ConnInv, TypeOK, InUseIsLatest, CloseEnds, NotifyClose, Cancelled, NotBegun,
         ReceiverAfterDial, GenerationsPast
<1>9. CloseClosed'
  BY DEF ConnInv, TypeOK, CloseClosed, CloseEnds, NotifyClose, Cancelled
<1>10. SessionKept'
  <2>1. closed'
    BY DEF ConnInv, CloseClosed, CloseEnds
  <2> QED
    BY <2>1 DEF SessionKept
<1> QED
  BY <1>1, <1>2, <1>3, <1>4, <1>5, <1>6, <1>7, <1>8, <1>9, <1>10 DEF ConnInv

\* A step that changes nothing keeps every part of ConnInv.
LEMMA InvStutter == ConnInv /\ UNCHANGED vars => ConnInv'
<1> SUFFICES ASSUME ConnInv, UNCHANGED vars PROVE ConnInv'
  OBVIOUS
<1> USE DEF vars, connVars, authVars, attemptVars, loopVars, genVars, taskVars
<1>1. TypeOK'
  BY DEF ConnInv, TypeOK
<1>2. NotBegun' /\ ReceiverAfterDial' /\ LosingIsDetached' /\ FuturesExist'
  BY DEF ConnInv, NotBegun, ReceiverAfterDial, LosingIsDetached, FuturesExist
<1>3. GenerationsPast' /\ GenerationNamesSession' /\ InUseIsLatest'
  BY DEF ConnInv, GenerationsPast, GenerationNamesSession, InUseIsLatest
<1>4. CloseClosed' /\ SessionKept'
  BY DEF ConnInv, CloseClosed, SessionKept
<1> QED
  BY <1>1, <1>2, <1>3, <1>4 DEF ConnInv

\* ConnInv is inductive.
LEMMA InvStep == ConnInv /\ [Next]_vars => ConnInv'
<1> SUFFICES ASSUME ConnInv, Next
             PROVE  ConnInv'
  BY InvStutter
<1>1. ASSUME NEW a \in Attempts, AttemptStep(a) PROVE ConnInv'
  BY <1>1, InvConnectStarts, InvDialed, InvSendConnect, InvAttemptFails, InvAuthSettled,
     InvRestored, InvHeartbeatSwapped, InvUnwound, InvDrained DEF AttemptStep
<1>2. ASSUME NEW a \in Attempts, ReceiverStep(a) PROVE ConnInv'
  BY <1>2, InvReceiveHello, InvReceiveRaises, InvReceiverRetires DEF ReceiverStep
<1>3. ASSUME NEW a \in Attempts, ReceiverLossEnds(a) \/ RequestEnds(a) PROVE ConnInv'
  BY <1>3, InvReceiverLossEnds, InvRequestEnds
<1>4. CASE LoopStep
  BY <1>4, InvReconnectStarts, InvBackoffEnds DEF LoopStep
<1>5. CASE CallConnect \/ CallClose \/ CloseEnds \/ Subscribe \/ RequestBegins
  BY <1>5, InvCallConnect, InvCallClose, InvCloseEnds, InvSubscribe, InvRequestBegins
<1>6. CASE LossTaskRuns \/ LossTaskEnds
  BY <1>6, InvLossTaskRuns, InvLossTaskEnds
<1>7. CASE HeartbeatFails \/ HeartbeatStops \/ HeartbeatLossEnds
  BY <1>7, InvHeartbeatFails, InvHeartbeatStops, InvHeartbeatLossEnds
<1> QED
  BY <1>1, <1>2, <1>3, <1>4, <1>5, <1>6, <1>7 DEF Next

\* ConnInv holds in every reachable state.
LEMMA ConnInvariant == Spec => []ConnInv
  BY ConnInvInit, InvStep, PTL DEF Spec

\* The connection's fields hold only what the code puts there.
THEOREM TypeCorrect == Spec => []TypeOK
<1>1. ConnInv => TypeOK
  BY DEF ConnInv
<1> QED
  BY <1>1, ConnInvariant, PTL

\* Whatever attempts, losses and calls of close() interleave, requests are admitted only
\* in the session that the current transport began (connection.py:357-371, 547-569).
THEOREM SessionIsOwned == Spec => []AuthenticatedOwnsSession
<1>1. ConnInv => AuthenticatedOwnsSession
  BY DEF ConnInv, AuthenticatedOwnsSession, SessionKept, InUseIsLatest, Attempts, TypeOK
<1> QED
  BY <1>1, ConnInvariant, PTL

\* No generation is given to two transports (connection.py:359).
THEOREM GenerationsAreDistinct == Spec => []GenerationNamesSession
<1>1. ConnInv => GenerationNamesSession
  BY DEF ConnInv
<1> QED
  BY <1>1, ConnInvariant, PTL

\* A closed client never changes its state again, but to CLOSED (connection.py:684-695).
THEOREM ClosedStaysClosed == Spec => ClosedIsFinal
<1> USE DEF Lost, SetState, Unwind, Authenticated, LoopAgain, connVars, NotifyClose
<1>1. [Next]_vars => [closed => closed' /\ state' \in {state, "CLOSED"}]_vars
  <2> SUFFICES ASSUME Next, closed
               PROVE  closed' /\ state' \in {state, "CLOSED"}
    OBVIOUS
  <2>1. ASSUME NEW a \in Attempts, AttemptStep(a)
        PROVE  closed' /\ state' \in {state, "CLOSED"}
    <3>1. CASE AuthSettled(a)
      BY <3>1 DEF AuthSettled
    <3>2. CASE Restored(a)
      BY <3>2 DEF Restored
    <3>3. CASE Unwound(a)
      BY <3>3 DEF Unwound, AfterFailure
    <3>4. CASE ConnectStarts(a) \/ Dialed(a) \/ SendConnect(a) \/ AttemptFails(a)
      BY <3>4 DEF ConnectStarts, Dialed, SendConnect, AttemptFails
    <3>5. CASE HeartbeatSwapped(a) \/ Drained(a)
      BY <3>5 DEF HeartbeatSwapped, Drained
    <3> QED
      BY <2>1, <3>1, <3>2, <3>3, <3>4, <3>5 DEF AttemptStep
  <2>2. ASSUME NEW a \in Attempts,
               ReceiverStep(a) \/ ReceiverLossEnds(a) \/ RequestEnds(a)
        PROVE  closed' /\ state' \in {state, "CLOSED"}
    BY <2>2 DEF ReceiverStep, ReceiveHello, ReceiveRaises, ReceiverRetires, ReceiverLossEnds,
                RequestEnds
  <2>3. CASE LoopStep
    BY <2>3 DEF LoopStep, ReconnectStarts, BackoffEnds
  <2>4. CASE CallConnect \/ CallClose \/ CloseEnds \/ Subscribe \/ RequestBegins
    BY <2>4 DEF CallConnect, CallClose, CloseEnds, Subscribe, RequestBegins
  <2>5. CASE LossTaskRuns \/ LossTaskEnds \/ HeartbeatFails \/ HeartbeatStops
             \/ HeartbeatLossEnds
    BY <2>5 DEF LossTaskRuns, LossTaskEnds, HeartbeatFails, HeartbeatStops, HeartbeatLossEnds
  <2> QED
    BY <2>1, <2>2, <2>3, <2>4, <2>5 DEF Next
<1> QED
  BY <1>1, PTL DEF Spec, ClosedIsFinal
==============================================================================
