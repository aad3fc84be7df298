-------------------------- MODULE MultiplexerProofs --------------------------
(***************************************************************************)
(* A reply reaches only the call it answers, no waiting call is out of     *)
(* reach, and a late reply finds its entry: for every set of calls, every  *)
(* number of connections, ids and cancellations.  The invariant ties an id *)
(* to one call per connection, on the wire as in the table.                *)
(***************************************************************************)
EXTENDS Multiplexer, TLAPS

\* A call that has not run yet owns nothing.
IdleIsFresh ==
    \A r \in Requests :
        pc[r] = "idle" => /\ id[r] = 0 /\ fut[r] = "none" /\ snd[r] = "none"
                          /\ val[r] = NoRequest /\ cancels[r] = 0

\* Ids are given out in order, once per connection.
IdsDistinct ==
    /\ gen = 0 => ~online
    /\ \A r \in Requests : born[r] <= gen
    /\ \A r \in Requests : id[r] # 0 /\ born[r] = gen => id[r] < nextId
    /\ \A r, s \in Requests :
          id[r] # 0 /\ born[r] = born[s] /\ id[r] = id[s] => r = s

\* What the table says of a call of the current connection.
EntriesOwned ==
    \A i \in Ids :
        correlated[i] # NoRequest =>
            /\ online
            /\ id[correlated[i]] = i /\ born[correlated[i]] = gen
            /\ fut[correlated[i]] = "pending" => pc[correlated[i]] \in Running

\* What the broker has says of the call it came from.
WireOwned ==
    \A f \in wire :
        /\ f.id = id[f.req] /\ f.gen = born[f.req]
        /\ snd[f.req] \notin {"none", "inFlight"}

\* Sends do not outlive the opening of the next connection, and a request being sent
\* is in the table unless it was cancelled twice.
SendingOK ==
    \A r \in Requests :
        /\ pc[r] \in {"sending", "cancelSending"} \/ snd[r] = "inFlight" => born[r] = gen
        /\ pc[r] = "sending" => cancels[r] = 0
        /\ pc[r] = "cancelSending" => cancels[r] = 1
        /\ pc[r] \in Running => id[r] # 0
        /\ snd[r] # "none" => id[r] # 0
        /\ snd[r] = "inFlight" /\ online /\ cancels[r] < 2 => correlated[id[r]] = r

\* What a call returns is its own reply.
ValueIsOwn == \A r \in Requests : fut[r] = "value" => val[r] = r

MuxInv ==
    /\ TypeOK
    /\ IdleIsFresh
    /\ IdsDistinct
    /\ EntriesOwned
    /\ WireOwned
    /\ SendingOK
    /\ ValueIsOwn
    /\ ReplyMatchesRequest
    /\ PendingIsRegistered
    /\ LateReplyIsExpected



------------------------------------------------------------------------------
(* Every step keeps MuxInv: one lemma per action, one step per conjunct.     *)

\* In the first state nothing is issued.
LEMMA InvInit == Init => MuxInv
<1> SUFFICES ASSUME Init PROVE MuxInv
  OBVIOUS
<1> USE MuxAssumption DEF MuxAssumption, Ids, Running
<1>1. TypeOK
  <2>1. correlated \in [Ids -> Requests \cup {NoRequest}]
    BY DEF Init, Empty
  <2>2. nextId \in 1..(MaxId + 1)
    BY DEF Init
  <2>4. gen \in 0..MaxGen
    BY DEF Init
  <2>5. online \in BOOLEAN
    BY DEF Init
  <2>3. /\ id \in [Requests -> 0..MaxId] /\ born \in [Requests -> 0..MaxGen]
        /\ cancels \in [Requests -> 0..MaxCancels]
    BY DEF Init
  <2> QED
    BY <2>1, <2>2, <2>3, <2>4, <2>5 DEF Init, TypeOK, Frames
<1>2. IdleIsFresh /\ IdsDistinct /\ WireOwned /\ SendingOK
  BY DEF Init, IdleIsFresh, IdsDistinct, WireOwned, SendingOK
<1>3. EntriesOwned
  BY DEF Init, Empty, EntriesOwned
<1>4. ValueIsOwn /\ ReplyMatchesRequest /\ PendingIsRegistered /\ LateReplyIsExpected
  BY DEF Init, ValueIsOwn, ReplyMatchesRequest, PendingIsRegistered, LateReplyIsExpected
<1> QED
  BY <1>1, <1>2, <1>3, <1>4 DEF MuxInv

\* A new call takes a fresh id (multiplexer.py:106-114).
LEMMA InvIssue ==
    ASSUME MuxInv, NEW r \in Requests, Issue(r)
    PROVE  MuxInv'
<1> USE MuxAssumption DEF MuxAssumption, Ids, Frames, Running, Ended, callVars
<1>1. TypeOK'
  BY DEF MuxInv, TypeOK, Issue, IdAvailable
<1>2. IdleIsFresh'
  BY DEF MuxInv, IdleIsFresh, TypeOK, Issue, IdAvailable
<1>3. IdsDistinct'
  BY DEF MuxInv, IdsDistinct, TypeOK, Issue, IdAvailable, IdleIsFresh
<1>4. EntriesOwned'
  BY DEF MuxInv, EntriesOwned, TypeOK, Issue, IdAvailable, IdsDistinct,
         IdleIsFresh, SendingOK
<1>5. WireOwned'
  BY DEF MuxInv, WireOwned, TypeOK, Issue, IdAvailable, IdleIsFresh
<1>6. SendingOK'
  <2>1. /\ id' = [id EXCEPT ![r] = nextId] /\ nextId # 0 /\ nextId \in Ids
        /\ born' = [born EXCEPT ![r] = gen]
        /\ snd' = [snd EXCEPT ![r] = "inFlight"]
        /\ pc' = [pc EXCEPT ![r] = "sending"]
        /\ correlated' = [correlated EXCEPT ![nextId] = r]
        /\ gen' = gen /\ online' = online /\ cancels' = cancels /\ pc[r] = "idle"
    BY DEF MuxInv, TypeOK, Issue, IdAvailable
  <2>2. cancels[r] = 0
    BY <2>1 DEF MuxInv, IdleIsFresh
  <2>3. ASSUME NEW s \in Requests, s # r, snd[s] = "inFlight", online, cancels[s] < 2
        PROVE  correlated'[id[s]] = s
    <3>1. correlated[id[s]] = s /\ id[s] # 0 /\ born[s] = gen
      BY <2>3 DEF MuxInv, SendingOK
    <3>2. id[s] \in Ids /\ id[s] # nextId
      BY <3>1 DEF MuxInv, IdsDistinct, TypeOK
    <3> QED
      BY <2>1, <3>1, <3>2 DEF MuxInv, TypeOK
  <2> QED
    BY <2>1, <2>2, <2>3 DEF MuxInv, SendingOK, TypeOK
<1>7. ValueIsOwn'
  BY DEF MuxInv, ValueIsOwn, TypeOK, Issue, IdAvailable
<1>8. ReplyMatchesRequest'
  BY DEF MuxInv, ReplyMatchesRequest, TypeOK, Issue, IdAvailable
<1>9. PendingIsRegistered'
  BY DEF MuxInv, PendingIsRegistered, TypeOK, Issue, IdAvailable, SendingOK,
         EntriesOwned, IdsDistinct, Live, IdleIsFresh
<1>10. LateReplyIsExpected'
  BY DEF MuxInv, LateReplyIsExpected, TypeOK, Issue, IdAvailable, WireOwned,
         SendingOK, IdsDistinct, EntriesOwned, IdleIsFresh
<1> QED
  BY <1>1, <1>2, <1>3, <1>4, <1>5, <1>6, <1>7, <1>8, <1>9, <1>10 DEF MuxInv

\* A refused call registers nothing (multiplexer.py:104-106, 65-72).
LEMMA InvIssueRefused ==
    ASSUME MuxInv, NEW r \in Requests, IssueRefused(r)
    PROVE  MuxInv'
<1> USE MuxAssumption DEF MuxAssumption, Ids, Frames, Running, Ended, callVars
<1>1. TypeOK'
  BY DEF MuxInv, TypeOK, IssueRefused, IdAvailable
<1>2. IdleIsFresh'
  BY DEF MuxInv, IdleIsFresh, TypeOK, IssueRefused, IdAvailable
<1>3. IdsDistinct'
  BY DEF MuxInv, IdsDistinct, TypeOK, IssueRefused, IdAvailable, IdleIsFresh
<1>4. EntriesOwned'
  BY DEF MuxInv, EntriesOwned, TypeOK, IssueRefused, IdAvailable, IdsDistinct,
         IdleIsFresh, SendingOK
<1>5. WireOwned'
  BY DEF MuxInv, WireOwned, TypeOK, IssueRefused, IdAvailable, IdleIsFresh
<1>6. SendingOK'
  BY DEF MuxInv, SendingOK, TypeOK, IssueRefused, IdAvailable, EntriesOwned,
         IdsDistinct, IdleIsFresh, WireOwned
<1>7. ValueIsOwn'
  BY DEF MuxInv, ValueIsOwn, TypeOK, IssueRefused, IdAvailable
<1>8. ReplyMatchesRequest'
  BY DEF MuxInv, ReplyMatchesRequest, TypeOK, IssueRefused, IdAvailable
<1>9. PendingIsRegistered'
  BY DEF MuxInv, PendingIsRegistered, TypeOK, IssueRefused, IdAvailable, SendingOK,
         EntriesOwned, IdsDistinct, Live, IdleIsFresh
<1>10. LateReplyIsExpected'
  BY DEF MuxInv, LateReplyIsExpected, TypeOK, IssueRefused, IdAvailable, WireOwned,
         SendingOK, IdsDistinct, EntriesOwned, IdleIsFresh
<1> QED
  BY <1>1, <1>2, <1>3, <1>4, <1>5, <1>6, <1>7, <1>8, <1>9, <1>10 DEF MuxInv

\* A send that ends puts at most its own frame on the wire (connection.py:424-435).
LEMMA InvSendEnds ==
    ASSUME MuxInv, NEW r \in Requests, SendEnds(r)
    PROVE  MuxInv'
<1> USE MuxAssumption DEF MuxAssumption, Ids, Frames, Running, Ended, callVars
<1>1. TypeOK'
  <2>1. PICK result \in {"ok", "transportError", "otherError"} :
            snd' = [snd EXCEPT ![r] = result]
    BY DEF SendEnds
  <2>2. (online /\ born[r] = gen /\ wire' = wire \cup {OnWire(r)}) \/ wire' = wire
    BY Zenon DEF SendEnds
  <2>3. wire' \subseteq Frames
    <3>1. CASE wire' = wire
      BY <3>1 DEF MuxInv, TypeOK
    <3>2. CASE online /\ born[r] = gen /\ wire' = wire \cup {OnWire(r)}
      <4>1. snd[r] = "inFlight"
        BY DEF SendEnds
      <4>2. id[r] # 0
        BY <4>1 DEF MuxInv, SendingOK
      <4>3. id[r] \in 1..MaxId
        BY <4>2 DEF MuxInv, TypeOK
      <4>4. gen # 0
        BY <3>2 DEF MuxInv, IdsDistinct
      <4>5. born[r] \in 1..MaxGen
        BY <4>4, <3>2 DEF MuxInv, TypeOK
      <4> QED
        BY <3>2, <4>3, <4>5 DEF MuxInv, TypeOK, OnWire
    <3> QED
      BY <2>2, <3>1, <3>2
  <2> QED
    BY <2>1, <2>3 DEF MuxInv, TypeOK, SendEnds
<1>2. IdleIsFresh'
  BY DEF MuxInv, IdleIsFresh, TypeOK, SendEnds, OnWire
<1>3. IdsDistinct'
  BY DEF MuxInv, IdsDistinct, TypeOK, SendEnds, OnWire, IdleIsFresh
<1>4. EntriesOwned'
  BY DEF MuxInv, EntriesOwned, TypeOK, SendEnds, OnWire, IdsDistinct, IdleIsFresh,
         SendingOK
<1>5. WireOwned'
  BY DEF MuxInv, WireOwned, TypeOK, SendEnds, OnWire, IdleIsFresh
<1>6. SendingOK'
  BY DEF MuxInv, SendingOK, TypeOK, SendEnds, OnWire, EntriesOwned, IdsDistinct,
         IdleIsFresh, WireOwned
<1>7. ValueIsOwn'
  BY DEF MuxInv, ValueIsOwn, TypeOK, SendEnds, OnWire
<1>8. ReplyMatchesRequest'
  BY DEF MuxInv, ReplyMatchesRequest, TypeOK, SendEnds, OnWire
<1>9. PendingIsRegistered'
  BY DEF MuxInv, PendingIsRegistered, TypeOK, SendEnds, OnWire, SendingOK,
         EntriesOwned, IdsDistinct, Live, IdleIsFresh
<1>10. LateReplyIsExpected'
  BY DEF MuxInv, LateReplyIsExpected, TypeOK, SendEnds, OnWire, WireOwned,
         SendingOK, IdsDistinct, EntriesOwned, IdleIsFresh
<1> QED
  BY <1>1, <1>2, <1>3, <1>4, <1>5, <1>6, <1>7, <1>8, <1>9, <1>10 DEF MuxInv

\* The call sees its send end (multiplexer.py:127, 138-142).
LEMMA InvResumeSent ==
    ASSUME MuxInv, NEW r \in Requests, ResumeSent(r)
    PROVE  MuxInv'
<1> USE MuxAssumption DEF MuxAssumption, Ids, Frames, Running, Ended, callVars
<1>1. TypeOK'
  BY DEF MuxInv, TypeOK, ResumeSent, Abandon, Remove
<1>2. IdleIsFresh'
  BY DEF MuxInv, IdleIsFresh, TypeOK, ResumeSent, Abandon, Remove
<1>3. IdsDistinct'
  BY DEF MuxInv, IdsDistinct, TypeOK, ResumeSent, Abandon, Remove, IdleIsFresh
<1>4. EntriesOwned'
  <2> SUFFICES ASSUME NEW i \in Ids, correlated'[i] # NoRequest
               PROVE  /\ online'
                      /\ id'[correlated'[i]] = i /\ born'[correlated'[i]] = gen'
                      /\ fut'[correlated'[i]] = "pending" => pc'[correlated'[i]] \in Running
    BY DEF EntriesOwned
  <2>1. correlated'[i] = correlated[i] /\ correlated[i] \in Requests
    BY DEF MuxInv, TypeOK, ResumeSent, Abandon, Remove
  <2>2. /\ online /\ id[correlated[i]] = i /\ born[correlated[i]] = gen
        /\ fut[correlated[i]] = "pending" => pc[correlated[i]] \in Running
    BY <2>1 DEF MuxInv, EntriesOwned
  <2>3. online' = online /\ id' = id /\ born' = born /\ gen' = gen
    BY DEF ResumeSent
  <2>4. fut'[correlated[i]] = "pending" => pc'[correlated[i]] \in Running
    <3>1. CASE correlated[i] # r
      <4>1. /\ pc'[correlated[i]] = pc[correlated[i]]
            /\ fut'[correlated[i]] = fut[correlated[i]]
        BY <2>1, <3>1 DEF MuxInv, TypeOK, ResumeSent, Abandon, Remove
      <4> QED
        BY <4>1, <2>2
    <3>2. CASE correlated[i] = r
      <4>1. i = id[r] /\ correlated'[id[r]] # NoRequest
        BY <2>1, <2>2, <3>2
      <4>2. CASE snd[r] = "ok" /\ pc' = [pc EXCEPT ![r] = "awaiting"]
        BY <3>2, <4>2 DEF MuxInv, TypeOK
      <4>3. CASE Abandon(r)
        BY <3>2, <4>3 DEF MuxInv, TypeOK, Abandon
      <4>4. CASE Remove(r)
        BY <4>1, <4>4 DEF MuxInv, TypeOK, Remove
      <4> QED
        BY <4>2, <4>3, <4>4 DEF ResumeSent
    <3> QED
      BY <3>1, <3>2
  <2> QED
    BY <2>1, <2>2, <2>3, <2>4
<1>5. WireOwned'
  BY DEF MuxInv, WireOwned, TypeOK, ResumeSent, Abandon, Remove, IdleIsFresh
<1>6. SendingOK'
  BY DEF MuxInv, SendingOK, TypeOK, ResumeSent, Abandon, Remove, EntriesOwned,
         IdsDistinct, IdleIsFresh, WireOwned
<1>7. ValueIsOwn'
  BY DEF MuxInv, ValueIsOwn, TypeOK, ResumeSent, Abandon, Remove
<1>8. ReplyMatchesRequest'
  BY DEF MuxInv, ReplyMatchesRequest, TypeOK, ResumeSent, Abandon, Remove
<1>9. PendingIsRegistered'
  BY DEF MuxInv, PendingIsRegistered, TypeOK, ResumeSent, Abandon, Remove,
         SendingOK, EntriesOwned, IdsDistinct, Live, IdleIsFresh
<1>10. LateReplyIsExpected'
  BY DEF MuxInv, LateReplyIsExpected, TypeOK, ResumeSent, Abandon, Remove,
         WireOwned, SendingOK, IdsDistinct, EntriesOwned, IdleIsFresh
<1> QED
  BY <1>1, <1>2, <1>3, <1>4, <1>5, <1>6, <1>7, <1>8, <1>9, <1>10 DEF MuxInv

\* A call cancelled during its send sees it end (multiplexer.py:119-126).
LEMMA InvResumeCancelled ==
    ASSUME MuxInv, NEW r \in Requests, ResumeCancelled(r)
    PROVE  MuxInv'
<1> USE MuxAssumption DEF MuxAssumption, Ids, Frames, Running, Ended, callVars
<1>1. TypeOK'
  BY DEF MuxInv, TypeOK, ResumeCancelled, Abandon, Remove
<1>2. IdleIsFresh'
  BY DEF MuxInv, IdleIsFresh, TypeOK, ResumeCancelled, Abandon, Remove
<1>3. IdsDistinct'
  BY DEF MuxInv, IdsDistinct, TypeOK, ResumeCancelled, Abandon, Remove, IdleIsFresh
<1>4. EntriesOwned'
  BY DEF MuxInv, EntriesOwned, TypeOK, ResumeCancelled, Abandon, Remove,
         IdsDistinct, IdleIsFresh, SendingOK
<1>5. WireOwned'
  BY DEF MuxInv, WireOwned, TypeOK, ResumeCancelled, Abandon, Remove, IdleIsFresh
<1>6. SendingOK'
  BY DEF MuxInv, SendingOK, TypeOK, ResumeCancelled, Abandon, Remove, EntriesOwned,
         IdsDistinct, IdleIsFresh, WireOwned
<1>7. ValueIsOwn'
  BY DEF MuxInv, ValueIsOwn, TypeOK, ResumeCancelled, Abandon, Remove
<1>8. ReplyMatchesRequest'
  BY DEF MuxInv, ReplyMatchesRequest, TypeOK, ResumeCancelled, Abandon, Remove
<1>9. PendingIsRegistered'
  BY DEF MuxInv, PendingIsRegistered, TypeOK, ResumeCancelled, Abandon, Remove,
         SendingOK, EntriesOwned, IdsDistinct, Live, IdleIsFresh
<1>10. LateReplyIsExpected'
  BY DEF MuxInv, LateReplyIsExpected, TypeOK, ResumeCancelled, Abandon, Remove,
         WireOwned, SendingOK, IdsDistinct, EntriesOwned, IdleIsFresh
<1> QED
  BY <1>1, <1>2, <1>3, <1>4, <1>5, <1>6, <1>7, <1>8, <1>9, <1>10 DEF MuxInv

\* A cancellation in any of the three awaits (multiplexer.py:118-137).
LEMMA InvCancel ==
    ASSUME MuxInv, NEW r \in Requests, Cancel(r)
    PROVE  MuxInv'
<1> USE MuxAssumption DEF MuxAssumption, Ids, Frames, Running, Ended, callVars
<1>1. TypeOK'
  <2>1. cancels' \in [Requests -> 0..MaxCancels]
    BY DEF MuxInv, TypeOK, Cancel
  <2>2. pc' \in [Requests -> {"idle"} \cup Running \cup Ended]
    BY DEF MuxInv, TypeOK, Cancel
  <2>3. /\ correlated' \in [Ids -> Requests \cup {NoRequest}]
        /\ fut' \in [Requests -> {"none", "pending", "value", "error", "dropped"}]
    BY DEF MuxInv, TypeOK, Cancel, Abandon, Remove
  <2> QED
    BY <2>1, <2>2, <2>3 DEF MuxInv, TypeOK, Cancel
<1>2. IdleIsFresh'
  BY DEF MuxInv, IdleIsFresh, TypeOK, Cancel, Abandon, Remove
<1>3. IdsDistinct'
  BY DEF MuxInv, IdsDistinct, TypeOK, Cancel, Abandon, Remove, IdleIsFresh
<1>4. EntriesOwned'
  <2> SUFFICES ASSUME NEW i \in Ids, correlated'[i] # NoRequest
               PROVE  /\ online'
                      /\ id'[correlated'[i]] = i /\ born'[correlated'[i]] = gen'
                      /\ fut'[correlated'[i]] = "pending" => pc'[correlated'[i]] \in Running
    BY DEF EntriesOwned
  <2>1. correlated'[i] = correlated[i] /\ correlated[i] \in Requests
    BY DEF MuxInv, TypeOK, Cancel, Abandon, Remove
  <2>2. /\ online /\ id[correlated[i]] = i /\ born[correlated[i]] = gen
        /\ fut[correlated[i]] = "pending" => pc[correlated[i]] \in Running
    BY <2>1 DEF MuxInv, EntriesOwned
  <2>3. online' = online /\ id' = id /\ born' = born /\ gen' = gen
    BY DEF Cancel
  <2>4. fut'[correlated[i]] = "pending" => pc'[correlated[i]] \in Running
    <3>1. CASE correlated[i] # r
      <4>1. /\ pc'[correlated[i]] = pc[correlated[i]]
            /\ fut'[correlated[i]] = fut[correlated[i]]
        BY <2>1, <3>1 DEF MuxInv, TypeOK, Cancel, Abandon, Remove
      <4> QED
        BY <4>1, <2>2
    <3>2. CASE correlated[i] = r
      <4>1. i = id[r] /\ correlated'[id[r]] # NoRequest
        BY <2>1, <2>2, <3>2
      <4>2. CASE pc' = [pc EXCEPT ![r] = "cancelSending"]
        BY <3>2, <4>2 DEF MuxInv, TypeOK
      <4>3. CASE Abandon(r)
        BY <3>2, <4>3 DEF MuxInv, TypeOK, Abandon
      <4>4. CASE Remove(r)
        BY <4>1, <4>4 DEF MuxInv, TypeOK, Remove
      <4> QED
        BY <4>2, <4>3, <4>4 DEF Cancel
    <3> QED
      BY <3>1, <3>2
  <2> QED
    BY <2>1, <2>2, <2>3, <2>4
<1>5. WireOwned'
  BY DEF MuxInv, WireOwned, TypeOK, Cancel, Abandon, Remove, IdleIsFresh
<1>6. SendingOK'
  BY SMTT(30) DEF MuxInv, SendingOK, TypeOK, Cancel, Abandon, Remove, EntriesOwned,
         IdsDistinct, IdleIsFresh, WireOwned
<1>7. ValueIsOwn'
  BY DEF MuxInv, ValueIsOwn, TypeOK, Cancel, Abandon, Remove
<1>8. ReplyMatchesRequest'
  BY DEF MuxInv, ReplyMatchesRequest, TypeOK, Cancel, Abandon, Remove
<1>9. PendingIsRegistered'
  BY SMTT(30) DEF MuxInv, PendingIsRegistered, TypeOK, Cancel, Abandon, Remove, SendingOK,
         EntriesOwned, IdsDistinct, Live, IdleIsFresh
<1>10. LateReplyIsExpected'
  BY DEF MuxInv, LateReplyIsExpected, TypeOK, Cancel, Abandon, Remove, WireOwned,
         SendingOK, IdsDistinct, EntriesOwned, IdleIsFresh
<1> QED
  BY <1>1, <1>2, <1>3, <1>4, <1>5, <1>6, <1>7, <1>8, <1>9, <1>10 DEF MuxInv

\* The timer of an awaited reply (multiplexer.py:130-134).
LEMMA InvTimeout ==
    ASSUME MuxInv, NEW r \in Requests, Timeout(r)
    PROVE  MuxInv'
<1> USE MuxAssumption DEF MuxAssumption, Ids, Frames, Running, Ended, callVars
<1>1. TypeOK'
  BY DEF MuxInv, TypeOK, Timeout, Abandon
<1>2. IdleIsFresh'
  BY DEF MuxInv, IdleIsFresh, TypeOK, Timeout, Abandon
<1>3. IdsDistinct'
  BY DEF MuxInv, IdsDistinct, TypeOK, Timeout, Abandon, IdleIsFresh
<1>4. EntriesOwned'
  BY DEF MuxInv, EntriesOwned, TypeOK, Timeout, Abandon, IdsDistinct, IdleIsFresh,
         SendingOK
<1>5. WireOwned'
  BY DEF MuxInv, WireOwned, TypeOK, Timeout, Abandon, IdleIsFresh
<1>6. SendingOK'
  BY DEF MuxInv, SendingOK, TypeOK, Timeout, Abandon, EntriesOwned, IdsDistinct,
         IdleIsFresh, WireOwned
<1>7. ValueIsOwn'
  BY DEF MuxInv, ValueIsOwn, TypeOK, Timeout, Abandon
<1>8. ReplyMatchesRequest'
  BY DEF MuxInv, ReplyMatchesRequest, TypeOK, Timeout, Abandon
<1>9. PendingIsRegistered'
  BY DEF MuxInv, PendingIsRegistered, TypeOK, Timeout, Abandon, SendingOK,
         EntriesOwned, IdsDistinct, Live, IdleIsFresh
<1>10. LateReplyIsExpected'
  BY DEF MuxInv, LateReplyIsExpected, TypeOK, Timeout, Abandon, WireOwned,
         SendingOK, IdsDistinct, EntriesOwned, IdleIsFresh
<1> QED
  BY <1>1, <1>2, <1>3, <1>4, <1>5, <1>6, <1>7, <1>8, <1>9, <1>10 DEF MuxInv

\* The call takes the outcome of its future (multiplexer.py:129, 138-142).
LEMMA InvComplete ==
    ASSUME MuxInv, NEW r \in Requests, Complete(r)
    PROVE  MuxInv'
<1> USE MuxAssumption DEF MuxAssumption, Ids, Frames, Running, Ended, callVars
<1>1. TypeOK'
  BY DEF MuxInv, TypeOK, Complete, Abandon
<1>2. IdleIsFresh'
  BY DEF MuxInv, IdleIsFresh, TypeOK, Complete, Abandon
<1>3. IdsDistinct'
  BY DEF MuxInv, IdsDistinct, TypeOK, Complete, Abandon, IdleIsFresh
<1>4. EntriesOwned'
  <2> SUFFICES ASSUME NEW i \in Ids, correlated'[i] # NoRequest
               PROVE  /\ online'
                      /\ id'[correlated'[i]] = i /\ born'[correlated'[i]] = gen'
                      /\ fut'[correlated'[i]] = "pending" => pc'[correlated'[i]] \in Running
    BY DEF EntriesOwned
  <2>1. correlated'[i] = correlated[i] /\ correlated[i] \in Requests
    BY DEF MuxInv, TypeOK, Complete, Abandon
  <2>2. /\ online /\ id[correlated[i]] = i /\ born[correlated[i]] = gen
        /\ fut[correlated[i]] = "pending" => pc[correlated[i]] \in Running
    BY <2>1 DEF MuxInv, EntriesOwned
  <2>3. online' = online /\ id' = id /\ born' = born /\ gen' = gen
    BY DEF Complete
  <2>4. fut'[correlated[i]] = "pending" => pc'[correlated[i]] \in Running
    <3>1. CASE correlated[i] # r
      <4>1. /\ pc'[correlated[i]] = pc[correlated[i]]
            /\ fut'[correlated[i]] = fut[correlated[i]]
        BY <2>1, <3>1 DEF MuxInv, TypeOK, Complete, Abandon
      <4> QED
        BY <4>1, <2>2
    <3>2. CASE correlated[i] = r
      <4>1. CASE fut[r] = "value" /\ UNCHANGED fut
        BY <3>2, <4>1
      <4>2. CASE Abandon(r)
        BY <3>2, <4>2 DEF MuxInv, TypeOK, Abandon
      <4> QED
        BY <4>1, <4>2 DEF Complete
    <3> QED
      BY <3>1, <3>2
  <2> QED
    BY <2>1, <2>2, <2>3, <2>4
<1>5. WireOwned'
  BY DEF MuxInv, WireOwned, TypeOK, Complete, Abandon, IdleIsFresh
<1>6. SendingOK'
  BY DEF MuxInv, SendingOK, TypeOK, Complete, Abandon, EntriesOwned, IdsDistinct,
         IdleIsFresh, WireOwned
<1>7. ValueIsOwn'
  BY DEF MuxInv, ValueIsOwn, TypeOK, Complete, Abandon
<1>8. ReplyMatchesRequest'
  BY DEF MuxInv, ReplyMatchesRequest, TypeOK, Complete, Abandon
<1>9. PendingIsRegistered'
  BY DEF MuxInv, PendingIsRegistered, TypeOK, Complete, Abandon, SendingOK,
         EntriesOwned, IdsDistinct, Live, IdleIsFresh
<1>10. LateReplyIsExpected'
  BY DEF MuxInv, LateReplyIsExpected, TypeOK, Complete, Abandon, WireOwned,
         SendingOK, IdsDistinct, EntriesOwned, IdleIsFresh
<1> QED
  BY <1>1, <1>2, <1>3, <1>4, <1>5, <1>6, <1>7, <1>8, <1>9, <1>10 DEF MuxInv

\* A one-way frame only consumes an id (connection.py:210-225).
LEMMA InvOneWay ==
    ASSUME MuxInv, OneWay
    PROVE  MuxInv'
<1> USE MuxAssumption DEF MuxAssumption, Ids, Frames, Running, Ended, callVars
<1>1. TypeOK'
  BY DEF MuxInv, TypeOK, OneWay, IdAvailable
<1>2. IdleIsFresh'
  BY DEF MuxInv, IdleIsFresh, TypeOK, OneWay, IdAvailable
<1>3. IdsDistinct'
  BY DEF MuxInv, IdsDistinct, TypeOK, OneWay, IdAvailable, IdleIsFresh
<1>4. EntriesOwned'
  BY DEF MuxInv, EntriesOwned, TypeOK, OneWay, IdAvailable, IdsDistinct,
         IdleIsFresh, SendingOK
<1>5. WireOwned'
  BY DEF MuxInv, WireOwned, TypeOK, OneWay, IdAvailable, IdleIsFresh
<1>6. SendingOK'
  BY DEF MuxInv, SendingOK, TypeOK, OneWay, IdAvailable, EntriesOwned, IdsDistinct,
         IdleIsFresh, WireOwned
<1>7. ValueIsOwn'
  BY DEF MuxInv, ValueIsOwn, TypeOK, OneWay, IdAvailable
<1>8. ReplyMatchesRequest'
  BY DEF MuxInv, ReplyMatchesRequest, TypeOK, OneWay, IdAvailable
<1>9. PendingIsRegistered'
  BY DEF MuxInv, PendingIsRegistered, TypeOK, OneWay, IdAvailable, SendingOK,
         EntriesOwned, IdsDistinct, Live, IdleIsFresh
<1>10. LateReplyIsExpected'
  BY DEF MuxInv, LateReplyIsExpected, TypeOK, OneWay, IdAvailable, WireOwned,
         SendingOK, IdsDistinct, EntriesOwned, IdleIsFresh
<1> QED
  BY <1>1, <1>2, <1>3, <1>4, <1>5, <1>6, <1>7, <1>8, <1>9, <1>10 DEF MuxInv

\* The loss of the connection clears the table (multiplexer.py:41-47, 220-230).
LEMMA InvLose ==
    ASSUME MuxInv, Lose
    PROVE  MuxInv'
<1> USE MuxAssumption DEF MuxAssumption, Ids, Frames, Running, Ended, callVars
<1>1. TypeOK'
  BY DEF MuxInv, TypeOK, Lose, Disconnected, Empty
<1>2. IdleIsFresh'
  BY DEF MuxInv, IdleIsFresh, TypeOK, Lose, Disconnected, Empty
<1>3. IdsDistinct'
  BY DEF MuxInv, IdsDistinct, TypeOK, Lose, Disconnected, Empty, IdleIsFresh
<1>4. EntriesOwned'
  BY DEF MuxInv, EntriesOwned, TypeOK, Lose, Disconnected, Empty, IdsDistinct,
         IdleIsFresh, SendingOK
<1>5. WireOwned'
  BY DEF MuxInv, WireOwned, TypeOK, Lose, Disconnected, Empty, IdleIsFresh
<1>6. SendingOK'
  BY DEF MuxInv, SendingOK, TypeOK, Lose, Disconnected, Empty, EntriesOwned,
         IdsDistinct, IdleIsFresh, WireOwned
<1>7. ValueIsOwn'
  BY DEF MuxInv, ValueIsOwn, TypeOK, Lose, Disconnected, Empty
<1>8. ReplyMatchesRequest'
  BY DEF MuxInv, ReplyMatchesRequest, TypeOK, Lose, Disconnected, Empty
<1>9. PendingIsRegistered'
  BY DEF MuxInv, PendingIsRegistered, TypeOK, Lose, Disconnected, Empty, SendingOK,
         EntriesOwned, IdsDistinct, Live, IdleIsFresh
<1>10. LateReplyIsExpected'
  BY DEF MuxInv, LateReplyIsExpected, TypeOK, Lose, Disconnected, Empty, WireOwned,
         SendingOK, IdsDistinct, EntriesOwned, IdleIsFresh
<1> QED
  BY <1>1, <1>2, <1>3, <1>4, <1>5, <1>6, <1>7, <1>8, <1>9, <1>10 DEF MuxInv

\* A new connection starts counting again (multiplexer.py:37-39).
LEMMA InvConnect ==
    ASSUME MuxInv, Connect
    PROVE  MuxInv'
<1> USE MuxAssumption DEF MuxAssumption, Ids, Frames, Running, Ended, callVars
<1>1. TypeOK'
  BY DEF MuxInv, TypeOK, Connect
<1>2. IdleIsFresh'
  BY DEF MuxInv, IdleIsFresh, TypeOK, Connect
<1>3. IdsDistinct'
  BY DEF MuxInv, IdsDistinct, TypeOK, Connect, IdleIsFresh
<1>4. EntriesOwned'
  BY DEF MuxInv, EntriesOwned, TypeOK, Connect, IdsDistinct, IdleIsFresh, SendingOK
<1>5. WireOwned'
  BY DEF MuxInv, WireOwned, TypeOK, Connect, IdleIsFresh
<1>6. SendingOK'
  BY DEF MuxInv, SendingOK, TypeOK, Connect, EntriesOwned, IdsDistinct,
         IdleIsFresh, WireOwned
<1>7. ValueIsOwn'
  BY DEF MuxInv, ValueIsOwn, TypeOK, Connect
<1>8. ReplyMatchesRequest'
  BY DEF MuxInv, ReplyMatchesRequest, TypeOK, Connect
<1>9. PendingIsRegistered'
  BY DEF MuxInv, PendingIsRegistered, TypeOK, Connect, SendingOK, EntriesOwned,
         IdsDistinct, Live, IdleIsFresh
<1>10. LateReplyIsExpected'
  BY DEF MuxInv, LateReplyIsExpected, TypeOK, Connect, WireOwned, SendingOK,
         IdsDistinct, EntriesOwned, IdleIsFresh
<1> QED
  BY <1>1, <1>2, <1>3, <1>4, <1>5, <1>6, <1>7, <1>8, <1>9, <1>10 DEF MuxInv

\* A frame of the connection in use that names a known id names its own call.
LEMMA ReplyFindsItsCall ==
    ASSUME MuxInv, NEW f \in wire, CurrentTransport(f), correlated[f.id] # NoRequest
    PROVE  /\ correlated[f.id] = f.req
           /\ snd[f.req] \notin {"none", "inFlight"}
<1>1. f.id \in Ids /\ f.req \in Requests /\ correlated[f.id] \in Requests
  BY DEF MuxInv, TypeOK, Frames
<1>2. f.id = id[f.req] /\ f.gen = born[f.req] /\ snd[f.req] \notin {"none", "inFlight"}
  BY DEF MuxInv, WireOwned
<1>3. id[correlated[f.id]] = f.id /\ born[correlated[f.id]] = gen
  BY <1>1 DEF MuxInv, EntriesOwned
<1>4. f.id # 0
  BY <1>1, MuxAssumption DEF MuxAssumption, Ids
<1> QED
  BY <1>1, <1>2, <1>3, <1>4 DEF MuxInv, IdsDistinct, CurrentTransport

\* A reply to a known id resolves the future of its call, or finds it done
\* (multiplexer.py:190-206).
LEMMA InvReplyKnown ==
    ASSUME MuxInv, NEW f \in wire, Reply(f), correlated[f.id] # NoRequest
    PROVE  MuxInv'
<1> USE MuxAssumption DEF MuxAssumption, Ids, Frames, Running, Ended
<1> DEFINE r == f.req
<1>0. /\ r \in Requests /\ f.id \in Ids /\ f.gen \in 1..MaxGen
      /\ correlated[f.id] = r /\ snd[r] \notin {"none", "inFlight"}
      /\ id[r] = f.id /\ born[r] = gen /\ online
  BY ReplyFindsItsCall DEF Reply, MuxInv, TypeOK, WireOwned, CurrentTransport
<1>a. /\ wire' = wire \ {f}
      /\ correlated' = [correlated EXCEPT ![f.id] = NoRequest]
      /\ UNCHANGED <<online, nextId, gen, pc, id, born, snd, cancels>>
      /\ \/ /\ fut[r] = "pending"
            /\ fut' = [fut EXCEPT ![r] = "value"] /\ val' = [val EXCEPT ![r] = r]
         \/ fut[r] # "pending" /\ fut' = fut /\ val' = val
  BY <1>0 DEF Reply
<1> HIDE DEF r
<1>1. TypeOK'
  <2>1. /\ fut' \in [Requests -> {"none", "pending", "value", "error", "dropped"}]
        /\ val' \in [Requests -> Requests \cup {NoRequest}]
    <3>1. CASE fut' = fut /\ val' = val
      BY <3>1 DEF MuxInv, TypeOK
    <3>2. CASE fut' = [fut EXCEPT ![r] = "value"] /\ val' = [val EXCEPT ![r] = r]
      BY <1>0, <3>2 DEF MuxInv, TypeOK
    <3> QED
      BY <1>a, <3>1, <3>2
  <2>2. correlated' \in [Ids -> Requests \cup {NoRequest}] /\ wire' \subseteq Frames
    BY <1>0, <1>a DEF MuxInv, TypeOK
  <2> QED
    BY <1>a, <2>1, <2>2 DEF MuxInv, TypeOK
<1>2. IdleIsFresh'
  BY <1>0, <1>a DEF MuxInv, IdleIsFresh, TypeOK
<1>3. IdsDistinct'
  BY <1>a DEF MuxInv, IdsDistinct
<1>4. EntriesOwned'
  <2> SUFFICES ASSUME NEW i \in Ids, correlated'[i] # NoRequest
               PROVE  /\ online'
                      /\ id'[correlated'[i]] = i /\ born'[correlated'[i]] = gen'
                      /\ fut'[correlated'[i]] = "pending" => pc'[correlated'[i]] \in Running
    BY DEF EntriesOwned
  <2>1. i # f.id /\ correlated'[i] = correlated[i] /\ correlated[i] \in Requests
    BY <1>0, <1>a DEF MuxInv, TypeOK
  <2>2. fut'[correlated[i]] = "pending" => fut[correlated[i]] = "pending"
    BY <1>0, <1>a, <2>1 DEF MuxInv, TypeOK
  <2> QED
    BY <1>a, <2>1, <2>2 DEF MuxInv, EntriesOwned
<1>5. WireOwned'
  BY <1>a DEF MuxInv, WireOwned
<1>6. SendingOK'
  <2>1. ASSUME NEW s \in Requests, snd[s] = "inFlight", online, cancels[s] < 2
        PROVE  correlated'[id[s]] = s
    <3>1. s # r /\ correlated[id[s]] = s
      BY <1>0, <2>1 DEF MuxInv, SendingOK
    <3>2. id[s] \in Ids
      BY <2>1 DEF MuxInv, SendingOK, TypeOK
    <3> QED
      BY <1>0, <1>a, <3>1, <3>2 DEF MuxInv, TypeOK
  <2> QED
    BY <1>a, <2>1 DEF MuxInv, SendingOK
<1>7. ValueIsOwn'
  BY <1>0, <1>a DEF MuxInv, ValueIsOwn, TypeOK
<1>8. ReplyMatchesRequest'
  BY <1>0, <1>a DEF MuxInv, ReplyMatchesRequest, TypeOK
<1>9. PendingIsRegistered'
  <2> SUFFICES ASSUME NEW s \in Requests, pc'[s] \in Running, fut'[s] = "pending"
               PROVE  online' /\ born'[s] = gen' /\ correlated'[id'[s]] = s
    BY DEF PendingIsRegistered, Live
  <2>1. s # r /\ fut[s] = "pending"
    BY <1>0, <1>a DEF MuxInv, TypeOK
  <2>2. online /\ born[s] = gen /\ correlated[id[s]] = s
    BY <1>a, <2>1 DEF MuxInv, PendingIsRegistered, Live
  <2>3. id[s] \in Ids
    BY <1>a DEF MuxInv, SendingOK, TypeOK
  <2> QED
    BY <1>0, <1>a, <2>1, <2>2, <2>3 DEF MuxInv, TypeOK
<1>10. LateReplyIsExpected'
  <2> SUFFICES ASSUME NEW g \in wire, g # f, online, g.gen = gen,
                      correlated[g.id] = g.req
               PROVE  correlated'[g.id] = g.req
    BY <1>a DEF MuxInv, LateReplyIsExpected
  <2>1. g.id \in Ids /\ g \in Frames
    BY DEF MuxInv, TypeOK
  <2>2. g.id # f.id
    <3>1. ASSUME g.id = f.id PROVE FALSE
      <4>1. g.req = f.req /\ g.gen = f.gen
        BY <1>0, <3>1 DEF MuxInv, WireOwned, r
      <4>2. f \in Frames
        BY DEF MuxInv, TypeOK
      <4> QED
        BY <2>1, <3>1, <4>1, <4>2
    <3> QED
      BY <3>1
  <2> QED
    BY <1>0, <1>a, <2>1, <2>2 DEF MuxInv, TypeOK
<1> QED
  BY <1>1, <1>2, <1>3, <1>4, <1>5, <1>6, <1>7, <1>8, <1>9, <1>10 DEF MuxInv

\* A reply to an unknown id ends the connection (multiplexer.py:196-197,
\* connection.py:445-453).
LEMMA InvReplyUnknown ==
    ASSUME MuxInv, NEW f \in wire, Reply(f), correlated[f.id] = NoRequest
    PROVE  MuxInv'
<1> USE MuxAssumption DEF MuxAssumption, Ids, Frames, Running, Ended
<1>b. Disconnected /\ val' = val
  BY Zenon DEF Reply
<1>a. /\ wire' \subseteq wire
      /\ online' = FALSE /\ correlated' = [i \in Ids |-> NoRequest]
      /\ fut' = [r \in Requests |->
                   IF fut[r] = "pending" /\ \E i \in Ids : correlated[i] = r
                   THEN "error" ELSE fut[r]]
      /\ UNCHANGED <<nextId, gen, pc, id, born, val, snd, cancels>>
  BY <1>b DEF Reply, Disconnected, Empty
<1>1. TypeOK'
  <2>1. /\ fut' \in [Requests -> {"none", "pending", "value", "error", "dropped"}]
        /\ correlated' \in [Ids -> Requests \cup {NoRequest}]
    BY <1>a DEF MuxInv, TypeOK
  <2> QED
    BY <1>a, <2>1 DEF MuxInv, TypeOK
<1>2. IdleIsFresh'
  BY <1>a DEF MuxInv, IdleIsFresh
<1>3. IdsDistinct'
  BY <1>a DEF MuxInv, IdsDistinct
<1>4. EntriesOwned'
  BY <1>a DEF EntriesOwned
<1>5. WireOwned'
  BY <1>a DEF MuxInv, WireOwned
<1>6. SendingOK'
  BY <1>a DEF MuxInv, SendingOK
<1>7. ValueIsOwn'
  BY <1>a DEF MuxInv, ValueIsOwn
<1>8. ReplyMatchesRequest'
  BY <1>a DEF MuxInv, ReplyMatchesRequest
<1>9. PendingIsRegistered'
  <2> SUFFICES ASSUME NEW s \in Requests, pc[s] \in Running, fut'[s] = "pending"
               PROVE  FALSE
    BY <1>a DEF PendingIsRegistered
  <2>1. fut[s] = "pending" /\ ~(\E i \in Ids : correlated[i] = s)
    BY <1>a
  <2>2. correlated[id[s]] = s /\ id[s] \in Ids
    BY <2>1 DEF MuxInv, PendingIsRegistered, SendingOK, TypeOK
  <2> QED
    BY <2>1, <2>2
<1>10. LateReplyIsExpected'
  BY <1>a DEF LateReplyIsExpected
<1> QED
  BY <1>1, <1>2, <1>3, <1>4, <1>5, <1>6, <1>7, <1>8, <1>9, <1>10 DEF MuxInv

\* A step that changes nothing keeps every part of MuxInv.
LEMMA InvStutter == MuxInv /\ UNCHANGED vars => MuxInv'
  BY DEF vars, MuxInv, TypeOK, IdleIsFresh, IdsDistinct, EntriesOwned, WireOwned,
         SendingOK, ValueIsOwn, ReplyMatchesRequest, PendingIsRegistered, Live,
         LateReplyIsExpected

\* MuxInv is inductive.
LEMMA InvStep == MuxInv /\ [Next]_vars => MuxInv'
<1> SUFFICES ASSUME MuxInv, Next
             PROVE  MuxInv'
  BY InvStutter
<1>1. ASSUME NEW r \in Requests, Issue(r) PROVE MuxInv'
  BY <1>1, InvIssue
<1>2. ASSUME NEW r \in Requests, IssueRefused(r) PROVE MuxInv'
  BY <1>2, InvIssueRefused
<1>3. ASSUME NEW r \in Requests, SendEnds(r) PROVE MuxInv'
  BY <1>3, InvSendEnds
<1>4. ASSUME NEW r \in Requests, ResumeSent(r) \/ ResumeCancelled(r) PROVE MuxInv'
  BY <1>4, InvResumeSent, InvResumeCancelled
<1>5. ASSUME NEW r \in Requests, Cancel(r) \/ Timeout(r) PROVE MuxInv'
  BY <1>5, InvCancel, InvTimeout
<1>6. ASSUME NEW r \in Requests, Complete(r) PROVE MuxInv'
  BY <1>6, InvComplete
<1>7. ASSUME NEW f \in wire, Reply(f) PROVE MuxInv'
  BY <1>7, InvReplyKnown, InvReplyUnknown
<1>8. ASSUME OneWay \/ Lose \/ Connect PROVE MuxInv'
  BY <1>8, InvOneWay, InvLose, InvConnect
<1> QED
  BY <1>1, <1>2, <1>3, <1>4, <1>5, <1>6, <1>7, <1>8 DEF Next

\* MuxInv holds in every reachable state.
LEMMA MuxInvariant == Spec => []MuxInv
  BY InvInit, InvStep, PTL DEF Spec

\* The table, the calls and the wire hold only what the code puts there.
THEOREM TypeCorrect == Spec => []TypeOK
<1>1. MuxInv => TypeOK
  BY DEF MuxInv
<1> QED
  BY <1>1, MuxInvariant, PTL

\* For any number of calls, connections and cancellations, a reply is given only to
\* the call it answers (multiplexer.py:190-206).
THEOREM RepliesMatch == Spec => []ReplyMatchesRequest
<1>1. MuxInv => ReplyMatchesRequest
  BY DEF MuxInv
<1> QED
  BY <1>1, MuxInvariant, PTL

\* No call waits for a future that neither a reply nor a lost connection can reach
\* (multiplexer.py:113-114, 220-230).
THEOREM NoStrandedCall == Spec => []PendingIsRegistered
<1>1. MuxInv => PendingIsRegistered
  BY DEF MuxInv
<1> QED
  BY <1>1, MuxInvariant, PTL

\* A late reply finds an entry or a tombstone, but for a failed send and a second
\* cancellation (multiplexer.py:118-128, 144-154).
THEOREM LateRepliesExpected == Spec => []LateReplyIsExpected
<1>1. MuxInv => LateReplyIsExpected
  BY DEF MuxInv
<1> QED
  BY <1>1, MuxInvariant, PTL

------------------------------------------------------------------------------
(* Every step is a step of CallContract, or changes nothing it can see.      *)

phaseBar == [r \in Requests |->
               IF pc[r] \in Running THEN "open"
               ELSE IF pc[r] \in {"idle", "returned"} THEN pc[r] ELSE "failed"]
answeredBar == {val[r] : r \in Requests} \ {NoRequest}

\* A call that changes its program counter changes its own phase and no other.
LEMMA PhaseMoves ==
    ASSUME TypeOK, NEW r \in Requests, NEW c, pc' = [pc EXCEPT ![r] = c]
    PROVE  phaseBar' = [phaseBar EXCEPT ![r] =
                          IF c \in Running THEN "open"
                          ELSE IF c \in {"idle", "returned"} THEN c ELSE "failed"]
  BY DEF TypeOK, phaseBar, Running

\* A call ends with an exception from any await (multiplexer.py:118-142).
LEMMA FailMoves ==
    ASSUME TypeOK, NEW r \in Requests, NEW c \in {"raised", "cancelled", "timedOut"},
           pc[r] \in {"idle"} \cup Running, pc' = [pc EXCEPT ![r] = c], val' = val
    PROVE  Contract!Fail(r)
<1>1. phaseBar[r] \in {"idle", "open"}
  BY DEF phaseBar, Running
<1>2. phaseBar' = [phaseBar EXCEPT ![r] = "failed"]
  BY PhaseMoves DEF Running
<1>3. answeredBar' = answeredBar
  BY DEF answeredBar
<1> QED
  BY <1>1, <1>2, <1>3 DEF Contract!Fail, phaseBar, answeredBar

\* A call whose future has a value has been answered.
LEMMA ValueIsAnswered ==
    ASSUME MuxInv, NEW r \in Requests, fut[r] = "value"
    PROVE  r \in answeredBar
  BY MuxAssumption DEF MuxAssumption, MuxInv, ValueIsOwn, answeredBar

\* A final reply answers an open call, or is dropped with its tombstone.
LEMMA ReplyRefines ==
    ASSUME MuxInv, NEW f \in wire, Reply(f)
    PROVE  [Contract!CallNext]_(Contract!callVars)
<1>1. pc' = pc
  BY DEF Reply
<1>2. phaseBar' = phaseBar
  BY <1>1 DEF phaseBar
<1>3. CASE val' = val
  <2>1. answeredBar' = answeredBar
    BY <1>3 DEF answeredBar
  <2> QED
    BY <1>2, <2>1 DEF Contract!callVars, phaseBar, answeredBar
<1>4. CASE val' # val
  <2> DEFINE r == f.req
  <2>1. /\ correlated[f.id] # NoRequest /\ fut[correlated[f.id]] = "pending"
        /\ val' = [val EXCEPT ![correlated[f.id]] = f.req]
    BY <1>4, Zenon DEF Reply
  <2>2. correlated[f.id] = r /\ r \in Requests /\ f.id \in Ids
    BY <2>1, ReplyFindsItsCall DEF Reply, MuxInv, TypeOK, Frames
  <2>3. val' = [val EXCEPT ![r] = r] /\ val[r] \in {r, NoRequest}
    BY <2>1, <2>2 DEF MuxInv, ReplyMatchesRequest
  <2> HIDE DEF r
  <2>4. answeredBar' = answeredBar \cup {r}
    <3>1. val' \in [Requests -> Requests \cup {NoRequest}] /\ val'[r] = r
          /\ \A s \in Requests : s # r => val'[s] = val[s]
      BY <2>2, <2>3 DEF MuxInv, TypeOK
    <3>2. r # NoRequest
      BY <2>2, MuxAssumption DEF MuxAssumption
    <3> QED
      BY <2>2, <2>3, <3>1, <3>2 DEF answeredBar
  <2>5. phaseBar[r] = "open"
    BY <2>1, <2>2 DEF MuxInv, EntriesOwned, phaseBar
  <2>6. Contract!Answer(r)
    BY <1>2, <2>4, <2>5 DEF Contract!Answer, phaseBar, answeredBar
  <2> QED
    BY <2>2, <2>6 DEF Contract!CallNext
<1> QED
  BY <1>3, <1>4

\* Every step of the multiplexer is a step of the contract or a stutter.
LEMMA StepRefines ==
    MuxInv /\ [Next]_vars => [Contract!CallNext]_(Contract!callVars)
<1> SUFFICES ASSUME MuxInv, [Next]_vars
             PROVE  [Contract!CallNext]_(Contract!callVars)
  OBVIOUS
<1>0. TypeOK
  BY DEF MuxInv
<1>1. CASE pc' = pc /\ val' = val
  <2>1. phaseBar' = phaseBar /\ answeredBar' = answeredBar
    BY <1>1 DEF phaseBar, answeredBar
  <2> QED
    BY <2>1 DEF Contract!callVars, phaseBar, answeredBar
<1>2. ASSUME NEW r \in Requests, Contract!Open(r) \/ Contract!Return(r) \/ Contract!Fail(r)
      PROVE  Contract!CallNext
  BY <1>2 DEF Contract!CallNext
<1>3. ASSUME NEW r \in Requests, Issue(r) PROVE Contract!Open(r)
  <2>1. phaseBar[r] = "idle"
    BY <1>3 DEF Issue, phaseBar, Running
  <2>2. phaseBar' = [phaseBar EXCEPT ![r] = "open"]
    BY <1>0, <1>3, PhaseMoves DEF Issue, Running
  <2>3. answeredBar' = answeredBar
    BY <1>3 DEF Issue, answeredBar
  <2> QED
    BY <2>1, <2>2, <2>3 DEF Contract!Open, phaseBar, answeredBar
<1>4. ASSUME NEW r \in Requests, IssueRefused(r) \/ ResumeCancelled(r) \/ Timeout(r)
      PROVE  Contract!Fail(r)
  BY <1>0, <1>4, FailMoves DEF IssueRefused, ResumeCancelled, Timeout, Running
<1>5. ASSUME NEW r \in Requests, ResumeSent(r), pc' # pc
      PROVE  \/ Contract!Fail(r)
             \/ Contract!callVars' = Contract!callVars
  <2>1. pc[r] \in Running /\ val' = val
    BY <1>5 DEF ResumeSent, Running
  <2>2. CASE pc' = [pc EXCEPT ![r] = "awaiting"]
    <3>1. phaseBar' = phaseBar /\ answeredBar' = answeredBar
      BY <1>0, <2>1, <2>2 DEF TypeOK, phaseBar, Running, answeredBar
    <3> QED
      BY <3>1 DEF Contract!callVars, phaseBar, answeredBar
  <2>3. CASE pc' = [pc EXCEPT ![r] = "raised"]
    BY <1>0, <2>1, <2>3, FailMoves
  <2> QED
    BY <1>5, <2>2, <2>3 DEF ResumeSent
<1>6. ASSUME NEW r \in Requests, Cancel(r)
      PROVE  \/ Contract!Fail(r)
             \/ Contract!callVars' = Contract!callVars
  <2>1. pc[r] \in Running /\ val' = val
    BY <1>6 DEF Cancel, Running
  <2>2. CASE pc' = [pc EXCEPT ![r] = "cancelSending"]
    <3>1. phaseBar' = phaseBar /\ answeredBar' = answeredBar
      BY <1>0, <2>1, <2>2 DEF TypeOK, phaseBar, Running, answeredBar
    <3> QED
      BY <3>1 DEF Contract!callVars, phaseBar, answeredBar
  <2>3. CASE pc' = [pc EXCEPT ![r] = "cancelled"]
    BY <1>0, <2>1, <2>3, FailMoves
  <2> QED
    BY <1>6, <2>2, <2>3 DEF Cancel
<1>7. ASSUME NEW r \in Requests, Complete(r)
      PROVE  Contract!Fail(r) \/ Contract!Return(r)
  <2>1. pc[r] = "awaiting" /\ val' = val
    BY <1>7 DEF Complete
  <2>2. CASE fut[r] = "value" /\ pc' = [pc EXCEPT ![r] = "returned"]
    <3>1. phaseBar[r] = "open" /\ r \in answeredBar
      BY <2>1, <2>2, ValueIsAnswered DEF phaseBar, Running
    <3>2. phaseBar' = [phaseBar EXCEPT ![r] = "returned"]
      BY <1>0, <2>2, PhaseMoves DEF Running
    <3>3. answeredBar' = answeredBar
      BY <2>1 DEF answeredBar
    <3> QED
      BY <3>1, <3>2, <3>3 DEF Contract!Return, phaseBar, answeredBar
  <2>3. CASE pc' = [pc EXCEPT ![r] = "raised"]
    BY <1>0, <2>1, <2>3, FailMoves DEF Running
  <2> QED
    BY <1>7, <2>2, <2>3 DEF Complete
<1>8. ASSUME NEW r \in Requests, SendEnds(r) PROVE pc' = pc /\ val' = val
  BY <1>8 DEF SendEnds
<1>9. OneWay \/ Lose \/ Connect => pc' = pc /\ val' = val
  BY DEF OneWay, Lose, Connect, callVars
<1>10. UNCHANGED vars => pc' = pc /\ val' = val
  BY DEF vars
<1>11. CASE \E r \in Requests :
               \/ Issue(r) \/ IssueRefused(r) \/ SendEnds(r) \/ ResumeSent(r)
               \/ ResumeCancelled(r) \/ Cancel(r) \/ Timeout(r) \/ Complete(r)
  <2>1. PICK r \in Requests :
               \/ Issue(r) \/ IssueRefused(r) \/ SendEnds(r) \/ ResumeSent(r)
               \/ ResumeCancelled(r) \/ Cancel(r) \/ Timeout(r) \/ Complete(r)
    BY <1>11
  <2>2. CASE ResumeSent(r) /\ pc' = pc
    <3>1. val' = val
      BY <2>2 DEF ResumeSent
    <3> QED
      BY <2>2, <3>1, <1>1
  <2>3. CASE ~(ResumeSent(r) /\ pc' = pc)
    <3>1. \/ Contract!Open(r) \/ Contract!Return(r) \/ Contract!Fail(r)
          \/ Contract!callVars' = Contract!callVars
          \/ pc' = pc /\ val' = val
      BY <2>1, <2>3, <1>3, <1>4, <1>5, <1>6, <1>7, <1>8, Zenon
    <3> QED
      BY <3>1, <1>1, <1>2
  <2> QED
    BY <2>2, <2>3
<1>12. CASE OneWay \/ Lose \/ Connect \/ UNCHANGED vars
  BY <1>1, <1>9, <1>10, <1>12
<1>13. CASE \E f \in wire : Reply(f)
  BY <1>13, ReplyRefines
<1> QED
  BY <1>11, <1>12, <1>13 DEF Next

\* What a caller of Multiplexer.request may rely on: a call returns only after the
\* broker answered this very call, and it ends at most once.
THEOREM ImplementsContract == Spec => Contract!CallSafety
<1>1. Init => Contract!CallInit
  <2> SUFFICES ASSUME Init PROVE Contract!CallInit
    OBVIOUS
  <2>1. phaseBar = [r \in Requests |-> "idle"]
    BY DEF Init, phaseBar, Running
  <2>2. answeredBar = {}
    BY DEF Init, answeredBar
  <2> QED
    BY <2>1, <2>2 DEF Contract!CallInit, phaseBar, answeredBar
<1> QED
  BY <1>1, StepRefines, MuxInvariant, PTL DEF Spec, Contract!CallSafety
==============================================================================
