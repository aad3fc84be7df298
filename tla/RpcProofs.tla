------------------------------- MODULE RpcProofs -------------------------------
(***************************************************************************)
(* The RPC client, for any number of calls, requests, workers and sessions *)
(* and for every limit of the dispatcher: types, answers and               *)
(* acknowledgements of the requests it serves, the dispatcher's counts,    *)
(* the way an iteration ends, and that what the broker can tell of the     *)
(* requests is a behaviour of ServeContract.                               *)
(***************************************************************************)
EXTENDS Rpc, FiniteSetTheorems, TLAPS

------------------------------------------------------------------------------
(* One request: what is true of its record.                                  *)

Early == {"none", "dropped", "queued", "ready", "waiting", "saturated"}
Done == {"acking", "leaving", "over", "yielding"}
Sends == {"ending", "expiring", "failing", "refusing"}  \* a terminal response

\* ... at every stage; a cancellation that is acknowledged has been noted.
Sound(v) ==
    /\ v \in InvocationType
    /\ v.ack # "none" => v.asked /\ v.request /\ v.cancelled
    /\ v.ends <= IF v.broken THEN 2 ELSE 1

\* An acknowledgement was sent by the clean-up task, or by the task that served
\* the request once that was over.
AckBound(v) ==
    v.acks <= (IF v.ack \in {"sending", "over"} THEN 1 ELSE 0)
              + (IF v.stage \in Done THEN 1 ELSE 0)

\* No terminal response was sent that the writer does not know of.
Clear(v) == ~v.broken /\ ~v.ended => v.ends = 0

InvocationOK(v) ==
    /\ Sound(v) /\ AckBound(v)
    /\ Clear(v) \/ v.stage \in Sends
    /\ v.stage \in {"running", "ending", "failing"} =>
           v.started /\ ~v.finished /\ v.ack = "none"
    /\ v.stage \in {"running", "ending"} => ~v.broken
    /\ v.finished => v.stage \in {"acking", "leaving", "over"}
    /\ v.stage \in Early => v.ends = 0 /\ ~v.ended /\ ~v.broken /\ ~v.started

------------------------------------------------------------------------------
(* What the methods do to it.                                                *)

LEMMA FinallyOK ==
    ASSUME NEW v, Sound(v), AckBound(v), Clear(v), v.stage \notin Done
    PROVE  InvocationOK(Finally(v)) /\ Finally(v).stage \in {"acking", "leaving"}
<1>1. v.acks \in 0..1 /\ v.acks <= IF v.ack \in {"sending", "over"} THEN 1 ELSE 0
  BY DEF AckBound, Sound, InvocationType
<1>2. Finally(v) \in InvocationType
  <2>1. v.acks + 1 \in 0..2 /\ {"acking", "leaving"} \subseteq Stages /\ v \in InvocationType
    BY <1>1 DEF Stages, Busy, Sound
  <2>2. QED
    BY <2>1, ZenonT(60) DEF Finally, InvocationType
<1>3. /\ Finally(v).stage \in {"acking", "leaving"}
      /\ Finally(v).ack = v.ack /\ Finally(v).asked = v.asked /\ Finally(v).request = v.request
      /\ Finally(v).cancelled = v.cancelled /\ Finally(v).ends = v.ends
      /\ Finally(v).broken = v.broken /\ Finally(v).ended = v.ended
      /\ Finally(v).acks <= v.acks + 1
  BY <1>1 DEF Finally, Sound, InvocationType
<1>4. QED
  BY <1>1, <1>2, <1>3 DEF InvocationOK, Sound, AckBound, Clear, Done, Early, InvocationType

LEMMA SendErrorOK ==
    ASSUME NEW v, NEW stage \in {"expiring", "failing"},
           Sound(v), AckBound(v), Clear(v), v.stage \notin Done, ~v.finished,
           ~v.ended => v.ends <= IF v.broken THEN 1 ELSE 0,
           stage = "failing" => v.started /\ v.ack = "none"
    PROVE  /\ InvocationOK(SendError(v, stage))
           /\ SendError(v, stage).stage \in {stage, "acking", "leaving"}
<1>1. CASE ~CanAnswer(v)
  BY <1>1, FinallyOK DEF SendError
<1>2. CASE CanAnswer(v)
  <2> DEFINE u == [v EXCEPT !.ends = @ + 1, !.stage = stage]
  <2>1. v.ends \in 0..1 /\ (~v.broken => v.ends = 0) /\ ~v.ended
    BY <1>2 DEF CanAnswer, Sound, InvocationType
  <2>2. u \in InvocationType
    <3>1. v.ends + 1 \in 0..3 /\ stage \in Stages /\ v \in InvocationType
      BY <2>1 DEF Stages, Busy, Sound
    <3>2. QED
      BY <3>1 DEF InvocationType
  <2>3. /\ u.stage = stage /\ u.ends = v.ends + 1 /\ u.ack = v.ack /\ u.asked = v.asked
        /\ u.request = v.request /\ u.cancelled = v.cancelled /\ u.broken = v.broken
        /\ u.ended = v.ended /\ u.acks = v.acks /\ u.started = v.started
        /\ u.finished = v.finished
    BY DEF Sound, InvocationType
  <2>4. SendError(v, stage) = u
    BY <1>2 DEF SendError
  <2> HIDE DEF u
  <2>5. InvocationOK(u)
    BY <2>1, <2>2, <2>3 DEF InvocationOK, Sound, AckBound, Done, Early, Sends, InvocationType
  <2>6. QED
    BY <2>3, <2>4, <2>5
<1>3. QED
  BY <1>1, <1>2

LEMMA EnterOK ==
    ASSUME NEW v, InvocationOK(v), v.stage \in {"ready", "waiting"}
    PROVE  /\ InvocationOK(Enter(v))
           /\ Enter(v).stage \in {"acking", "leaving", "expiring", "running"}
<1>1. /\ Sound(v) /\ AckBound(v) /\ Clear(v) /\ v.stage \notin Done /\ ~v.finished
      /\ v.ends = 0 /\ ~v.ended /\ ~v.broken /\ v \in InvocationType
  BY DEF InvocationOK, Sound, Sends, Done, Early
<1> DEFINE c == [v EXCEPT !.cancelled = TRUE]
<1>2. /\ Sound(c) /\ AckBound(c) /\ Clear(c) /\ c.stage \notin Done /\ ~c.finished
      /\ c.ends = 0
  BY <1>1, ZenonT(60) DEF Sound, AckBound, Clear, InvocationType
<1>3. CASE ~v.active
  BY <1>1, <1>3, FinallyOK DEF Enter
<1>4. CASE v.active /\ v.late /\ v.request
  <2>1. Enter(v) = Finally(c)
    BY <1>4 DEF Enter
  <2> HIDE DEF c
  <2>2. QED
    BY <1>2, <2>1, FinallyOK
<1>5. CASE v.active /\ v.late /\ ~v.request
  <2>1. Enter(v) = SendError(c, "expiring")
    BY <1>5 DEF Enter
  <2> HIDE DEF c
  <2>2. QED
    BY <1>2, <2>1, SendErrorOK
<1>6. CASE v.active /\ ~v.late /\ v.cancelled
  BY <1>1, <1>6, FinallyOK DEF Enter
<1>7. CASE v.active /\ ~v.late /\ ~v.cancelled
  <2> DEFINE u == [v EXCEPT !.started = TRUE, !.stage = "running"]
  <2>1. Enter(v) = u
    BY <1>7 DEF Enter
  <2>2. u \in InvocationType
    <3>1. [v EXCEPT !.started = TRUE] \in InvocationType
      BY <1>1, ZenonT(60) DEF InvocationType
    <3>2. \A w \in InvocationType : [w EXCEPT !.stage = "running"] \in InvocationType
      BY DEF InvocationType, Stages, Busy
    <3>3. u = [[v EXCEPT !.started = TRUE] EXCEPT !.stage = "running"]
      BY <1>1 DEF InvocationType
    <3>4. QED
      BY <3>1, <3>2, <3>3
  <2>3. /\ u.stage = "running" /\ u.started /\ u.ends = v.ends /\ u.ack = v.ack
        /\ u.asked = v.asked /\ u.request = v.request /\ u.cancelled = v.cancelled
        /\ u.broken = v.broken /\ u.ended = v.ended /\ u.acks = v.acks
        /\ u.finished = v.finished
    BY <1>1 DEF InvocationType
  <2>4. v.ack = "none"
    BY <1>1, <1>7 DEF Sound
  <2> HIDE DEF u
  <2>5. InvocationOK(u)
    BY <1>1, <2>2, <2>3, <2>4 DEF InvocationOK, Sound, AckBound, Clear, Done, Early, InvocationType
  <2>6. QED
    BY <2>1, <2>3, <2>5
<1>8. QED
  BY <1>1, <1>3, <1>4, <1>5, <1>6, <1>7 DEF InvocationType

LEMMA HandlerFailedOK ==
    ASSUME NEW v, Sound(v), AckBound(v), Clear(v), v.stage \in {"running", "ending"},
           v.started, ~v.finished, v.ack = "none",
           ~v.ended => v.ends <= IF v.broken THEN 1 ELSE 0
    PROVE  /\ InvocationOK(HandlerFailed(v))
           /\ HandlerFailed(v).stage \in {"acking", "leaving", "failing"}
BY FinallyOK, SendErrorOK DEF HandlerFailed, Done

\* v after the send of a terminal response raised or was cut short.
LEMMA BrokenOK ==
    ASSUME NEW v, InvocationOK(v), v.stage \in Sends,
           NEW b, b = [v EXCEPT !.broken = TRUE]
    PROVE  /\ Sound(b) /\ AckBound(b) /\ Clear(b) /\ b.stage = v.stage
           /\ b.finished = v.finished /\ b.started = v.started /\ b.ack = v.ack
           /\ b.broken /\ b.ends = v.ends
           /\ v.stage = "ending" => b.ends <= 1
<1>1. Sound(v) /\ AckBound(v) /\ v \in InvocationType
  BY DEF InvocationOK, Sound
<1>2. b \in InvocationType
  BY <1>1 DEF InvocationType
<1>3. /\ b.stage = v.stage /\ b.ends = v.ends /\ b.ack = v.ack /\ b.acks = v.acks
      /\ b.asked = v.asked /\ b.request = v.request /\ b.cancelled = v.cancelled
      /\ b.finished = v.finished /\ b.started = v.started /\ b.broken
  BY <1>1 DEF InvocationType
<1>4. v.ends \in 0..2
  BY <1>1 DEF Sound, InvocationType
<1>5. v.stage = "ending" => v.ends <= 1
  BY <1>1 DEF InvocationOK, Sound
<1>6. QED
  BY <1>1, <1>2, <1>3, <1>4, <1>5 DEF Sound, AckBound, Clear

LEMMA InterruptedOK ==
    ASSUME NEW v, InvocationOK(v), v.stage \in Busy \ {"leaving"}
    PROVE  InvocationOK(Interrupted(v)) /\ Interrupted(v).stage \in {"acking", "leaving", "failing"}
<1>1. Sound(v) /\ AckBound(v) /\ v \in InvocationType
  BY DEF InvocationOK, Sound
<1>2. CASE v.stage \in {"ready", "acking"}
  <2> DEFINE u == [v EXCEPT !.stage = "leaving"]
  <2>1. u \in InvocationType
    BY <1>1 DEF InvocationType, Stages, Busy
  <2>2. /\ u.stage = "leaving" /\ u.started = v.started /\ u.ends = v.ends /\ u.ack = v.ack
        /\ u.asked = v.asked /\ u.request = v.request /\ u.cancelled = v.cancelled
        /\ u.broken = v.broken /\ u.ended = v.ended /\ u.acks = v.acks
        /\ u.finished = v.finished
    BY <1>1 DEF InvocationType
  <2>3. Interrupted(v) = u
    BY <1>2 DEF Interrupted
  <2> HIDE DEF u
  <2>4. InvocationOK(u)
    BY <1>1, <1>2, <2>1, <2>2 DEF InvocationOK, Sound, AckBound, Clear, Done, Early, Sends, InvocationType
  <2>5. QED
    BY <2>2, <2>3, <2>4
<1>3. CASE v.stage = "waiting"
  <2>1. Clear(v) /\ v.stage \notin Done
    BY <1>3 DEF InvocationOK, Done, Sends
  <2>2. Interrupted(v) = Finally(v)
    BY <1>3 DEF Interrupted
  <2>3. QED
    BY <1>1, <2>1, <2>2, FinallyOK
<1> DEFINE b == [v EXCEPT !.broken = TRUE]
<1>4. CASE v.stage \in {"expiring", "failing"}
  <2>1. Sound(b) /\ AckBound(b) /\ Clear(b) /\ b.stage \notin Done
    BY <1>4, BrokenOK DEF Sends, Done
  <2>2. Interrupted(v) = Finally(b)
    BY <1>4 DEF Interrupted
  <2> HIDE DEF b
  <2>3. QED
    BY <2>1, <2>2, FinallyOK
<1>5. CASE v.stage = "running"
  <2>1. /\ Clear(v) /\ v.started /\ ~v.finished /\ v.ack = "none" /\ ~v.broken
        /\ ~v.ended => v.ends <= 0
    BY <1>1, <1>5 DEF InvocationOK, Sends, Clear
  <2>2. Interrupted(v) = HandlerFailed(v)
    BY <1>5 DEF Interrupted
  <2>3. QED
    BY <1>1, <1>5, <2>1, <2>2, HandlerFailedOK
<1>6. CASE v.stage = "ending"
  <2>1. /\ Sound(b) /\ AckBound(b) /\ Clear(b) /\ b.stage = "ending" /\ b.started /\ ~b.finished
        /\ b.ack = "none" /\ b.broken /\ b.ends <= 1
    BY <1>6, BrokenOK DEF Sends, InvocationOK
  <2>2. Interrupted(v) = HandlerFailed(b)
    BY <1>6 DEF Interrupted
  <2> HIDE DEF b
  <2>3. QED
    BY <2>1, <2>2, HandlerFailedOK
<1>7. QED
  BY <1>2, <1>3, <1>4, <1>5, <1>6 DEF Busy

\* u is v at another stage, or with a change that InvocationOK does not mention.
Alike(u, v) ==
    /\ u \in InvocationType
    /\ u.ends = v.ends /\ u.acks = v.acks /\ u.ack = v.ack /\ u.asked = v.asked
    /\ u.request = v.request /\ u.broken = v.broken /\ u.ended = v.ended
    /\ u.started = v.started
    /\ v.cancelled => u.cancelled

LEMMA AlikeOK ==
    ASSUME NEW v, InvocationOK(v), NEW u, Alike(u, v), u.finished = v.finished,
           \/ u.stage = v.stage
           \/ v.stage \in Early /\ u.stage \in Early \cup {"leaving"}
           \/ v.stage \in {"acking", "leaving", "yielding"} /\ u.stage \in Done
              /\ (v.finished => u.stage # "yielding")
    PROVE  InvocationOK(u)
<1>1. v \in InvocationType /\ u \in InvocationType
  BY DEF InvocationOK, Sound, Alike
<1>2. Sound(u)
  BY <1>1 DEF InvocationOK, Sound, Alike
<1>3. AckBound(u)
  BY <1>1 DEF InvocationOK, AckBound, Alike, Done, Early, InvocationType
<1>4. Clear(u) \/ u.stage \in Sends
  BY DEF InvocationOK, Clear, Alike, Done, Early, Sends
<1>5. QED
  BY <1>2, <1>3, <1>4 DEF InvocationOK, Alike, Done, Early

------------------------------------------------------------------------------
(* The invariant of the worker's side.                                       *)

WaitersQueued ==
    /\ waiting \in Seq(Requests)
    /\ \A j \in 1..Len(waiting) : inv[waiting[j]].stage = "queued"
    /\ \A j, k \in 1..Len(waiting) : waiting[j] = waiting[k] => j = k

RegistrationTypeOK ==
    /\ worker \in Workers \cup {Nobody}
    /\ handle \in [Workers -> {"idle", "entering", "registered", "leaving", "over"}]
    /\ wire \in WireType
    /\ known \in BOOLEAN
    /\ rst \in {"none", "todo", "asking"}

WorkersInv ==
    /\ inv \in [Requests -> InvocationType]
    /\ \A i \in Requests : InvocationOK(inv[i])
    /\ WaitersQueued
    /\ stopped \in BOOLEAN /\ (stopped => waiting = <<>>)
    /\ DispatcherExact

LEMMA ActiveFinite ==
    ASSUME NEW S \in SUBSET Requests
    PROVE  IsFiniteSet(S) /\ Cardinality(S) \in Nat
BY RpcWorkersAssumption, FS_Subset, FS_CardinalityType

\* A request's record changes, and neither the deque nor the number of handlers.
LEMMA ServeKeeps ==
    ASSUME WorkersInv, NEW i \in Requests, NEW v, InvocationOK(v), Serve(i, v),
           v.stage \in Busy <=> inv[i].stage \in Busy,
           inv[i].stage = "queued" => v.stage = "queued"
    PROVE  WorkersInv'
<1>1. /\ inv \in [Requests -> InvocationType] /\ inv' = [inv EXCEPT ![i] = v]
      /\ v \in InvocationType /\ UNCHANGED <<waiting, stopped>>
  BY DEF WorkersInv, Serve, Rest, InvocationOK, Sound
<1>2. \A j \in Requests : inv'[j] = IF j = i THEN v ELSE inv[j]
  BY <1>1
<1>3. inv' \in [Requests -> InvocationType]
  BY <1>1
<1>4. \A j \in Requests : InvocationOK(inv'[j])
  BY <1>2 DEF WorkersInv
<1>5. WaitersQueued'
  <2>1. \A j \in 1..Len(waiting) : waiting[j] \in Requests
    BY DEF WorkersInv, WaitersQueued
  <2>2. QED
    BY <1>1, <1>2, <2>1 DEF WorkersInv, WaitersQueued
<1>6. Active' = Active
  BY <1>2 DEF Active, In
<1>7. DispatcherExact'
  BY <1>1, <1>6 DEF WorkersInv, DispatcherExact
<1>8. QED
  BY <1>1, <1>3, <1>4, <1>5, <1>7 DEF WorkersInv

LEMMA DeliverKeeps ==
    ASSUME WorkersInv, SessionTypeOK, RegistrationTypeOK, NEW i \in Requests, Deliver(i)
    PROVE  WorkersInv'
<1> DEFINE v == [inv[i] EXCEPT !.at = generation, !.by = worker, !.active = TRUE]
           At(stage) == [v EXCEPT !.stage = stage]
<1>1. /\ inv[i] \in InvocationType /\ InvocationOK(inv[i]) /\ inv[i].stage = "none"
      /\ inv \in [Requests -> InvocationType] /\ generation \in 0..MaxGeneration
  BY SessionAssumption DEF WorkersInv, Deliver, SessionTypeOK
<1>2. v \in InvocationType /\ Alike(v, inv[i]) /\ v.finished = inv[i].finished
  BY <1>1 DEF RegistrationTypeOK, InvocationType, Alike
<1> HIDE DEF v
<1>3. ASSUME NEW stage \in {"ready", "queued"}
      PROVE  InvocationOK(At(stage)) /\ At(stage).stage = stage
  <2>1. stage \in Stages
    BY DEF Stages, Busy
  <2>2. Alike(At(stage), inv[i]) /\ At(stage).stage = stage /\ At(stage).finished = inv[i].finished
    BY <1>2, <2>1 DEF InvocationType, Alike
  <2> HIDE DEF At
  <2>3. QED
    BY <1>1, <2>2, AlikeOK DEF Early
<1>4. CASE worker = Nobody
  <2> DEFINE u == [inv[i] EXCEPT !.stage = "dropped", !.at = generation]
  <2>1. Alike(u, inv[i]) /\ u.stage = "dropped" /\ u.finished = inv[i].finished
    BY <1>1 DEF InvocationType, Alike, Stages, Busy
  <2>2. Serve(i, u)
    BY <1>4 DEF Deliver
  <2> HIDE DEF u
  <2>3. InvocationOK(u)
    BY <1>1, <2>1, AlikeOK DEF Early
  <2>4. QED
    BY <1>1, <2>1, <2>2, <2>3, ServeKeeps DEF Busy
<1>5. CASE worker # Nobody /\ ~stopped /\ Cardinality(Active) < MaxHandlers
  <2>1. InvocationOK(At("ready")) /\ At("ready").stage = "ready"
    BY <1>3
  <2>2. /\ inv' = [inv EXCEPT ![i] = At("ready")] /\ UNCHANGED <<waiting, stopped>>
    BY <1>5 DEF Deliver, Serve, Rest, v
  <2> HIDE DEF At
  <2>3. \A j \in Requests : inv'[j] = IF j = i THEN At("ready") ELSE inv[j]
    BY <1>1, <2>2
  <2>4. waiting = <<>>
    BY <1>5, ActiveFinite, RpcWorkersAssumption DEF WorkersInv, DispatcherExact
  <2>5. i \notin Active /\ Active' = Active \cup {i}
    BY <1>1, <2>1, <2>3 DEF Active, In, Busy
  <2>6. Cardinality(Active') = Cardinality(Active) + 1
    BY <2>5, ActiveFinite, FS_AddElement DEF Active, In
  <2>7. Cardinality(Active)' <= MaxHandlers
    BY <1>5, <2>6, ActiveFinite, RpcWorkersAssumption DEF Active, In
  <2>8. DispatcherExact'
    BY <2>2, <2>4, <2>7 DEF WorkersInv, DispatcherExact
  <2>9. WaitersQueued'
    BY <2>2, <2>4 DEF WorkersInv, WaitersQueued
  <2>10. inv' \in [Requests -> InvocationType] /\ \A j \in Requests : InvocationOK(inv'[j])
    BY <1>1, <2>1, <2>2, <2>3 DEF WorkersInv, InvocationOK, Sound
  <2>11. QED
    BY <2>2, <2>8, <2>9, <2>10 DEF WorkersInv
<1>6. CASE worker # Nobody /\ ~(~stopped /\ Cardinality(Active) < MaxHandlers)
           /\ ~stopped /\ QueueHasRoom
  <2>1. InvocationOK(At("queued")) /\ At("queued").stage = "queued"
    BY <1>3
  <2>2. /\ inv' = [inv EXCEPT ![i] = At("queued")] /\ waiting' = Append(waiting, i)
        /\ UNCHANGED stopped
    BY <1>6 DEF Deliver, Rest, v
  <2> HIDE DEF At
  <2>3. \A j \in Requests : inv'[j] = IF j = i THEN At("queued") ELSE inv[j]
    BY <1>1, <2>2
  <2>4. waiting \in Seq(Requests) /\ Len(waiting) \in Nat /\ Len(waiting) < HandlerQueue
    BY <1>6, RpcWorkersAssumption DEF WorkersInv, WaitersQueued, QueueHasRoom
  <2>5. Active' = Active
    BY <1>1, <2>1, <2>3 DEF Active, In, Busy
  <2>6. \A j \in 1..Len(waiting) : waiting[j] \in Requests /\ waiting[j] # i
    BY <1>1, <2>4 DEF WorkersInv, WaitersQueued
  <2>7. WaitersQueued'
    <3>1. waiting' \in Seq(Requests) /\ Len(waiting') = Len(waiting) + 1
      BY <2>2, <2>4
    <3>2. \A j \in 1..Len(waiting') : waiting'[j] = IF j <= Len(waiting) THEN waiting[j] ELSE i
      BY <2>2, <2>4
    <3>3. QED
      BY <2>1, <2>3, <2>4, <2>6, <3>1, <3>2 DEF WorkersInv, WaitersQueued
  <2>8. Cardinality(Active) = MaxHandlers
    BY <1>6, ActiveFinite, RpcWorkersAssumption DEF WorkersInv, DispatcherExact, Active, In
  <2>9. DispatcherExact'
    BY <2>2, <2>4, <2>5, <2>8, RpcWorkersAssumption DEF WorkersInv, DispatcherExact
  <2>10. inv' \in [Requests -> InvocationType] /\ \A j \in Requests : InvocationOK(inv'[j])
    BY <1>1, <2>1, <2>2, <2>3 DEF WorkersInv, InvocationOK, Sound
  <2>11. QED
    BY <1>6, <2>2, <2>7, <2>9, <2>10 DEF WorkersInv
<1>7. CASE worker # Nobody /\ ~(~stopped /\ Cardinality(Active) < MaxHandlers)
           /\ ~(~stopped /\ QueueHasRoom)
  <2> DEFINE u == [v EXCEPT !.active = FALSE, !.stage = "saturated"]
  <2>1. Alike(u, inv[i]) /\ u.stage = "saturated" /\ u.finished = inv[i].finished
    BY <1>2 DEF InvocationType, Alike, Stages, Busy
  <2>2. Serve(i, u)
    BY <1>7 DEF Deliver, v
  <2> HIDE DEF u
  <2>3. InvocationOK(u)
    BY <1>1, <2>1, AlikeOK DEF Early
  <2>4. QED
    BY <1>1, <2>1, <2>2, <2>3, ServeKeeps DEF Busy
<1>8. QED
  BY <1>4, <1>5, <1>6, <1>7

LEMMA CompletedKeeps ==
    ASSUME WorkersInv, NEW i \in Requests, Completed(i)
    PROVE  WorkersInv'
<1>1. /\ inv[i] \in InvocationType /\ InvocationOK(inv[i]) /\ inv[i].stage = "leaving"
      /\ inv \in [Requests -> InvocationType] /\ i \in Active
  BY DEF WorkersInv, Completed, Active, In, Busy
<1> DEFINE u == [inv[i] EXCEPT !.stage = "over"]
<1>2. Alike(u, inv[i]) /\ u.stage = "over" /\ u.finished = inv[i].finished
  BY <1>1 DEF InvocationType, Alike, Stages, Busy
<1> HIDE DEF u
<1>3. InvocationOK(u) /\ u \in InvocationType
  BY <1>1, <1>2, AlikeOK DEF Done, Alike
<1>4. Cardinality(Active \ {i}) = Cardinality(Active) - 1 /\ Cardinality(Active) \in Nat
  BY <1>1, ActiveFinite, FS_RemoveElement DEF Active, In
<1>5. CASE stopped \/ waiting = <<>>
  <2>1. inv' = [inv EXCEPT ![i] = u] /\ UNCHANGED <<waiting, stopped>> /\ waiting = <<>>
    BY <1>5 DEF Completed, Serve, Rest, u, WorkersInv
  <2>2. \A j \in Requests : inv'[j] = IF j = i THEN u ELSE inv[j]
    BY <1>1, <2>1
  <2>3. Active' = Active \ {i}
    BY <1>2, <2>2 DEF Active, In, Busy
  <2>4. Cardinality(Active') <= MaxHandlers
    BY <1>4, <2>3, RpcWorkersAssumption DEF WorkersInv, DispatcherExact
  <2>5. DispatcherExact'
    BY <2>1, <2>4 DEF WorkersInv, DispatcherExact
  <2>6. WaitersQueued'
    BY <2>1 DEF WorkersInv, WaitersQueued
  <2>7. inv' \in [Requests -> InvocationType] /\ \A j \in Requests : InvocationOK(inv'[j])
    BY <1>1, <1>3, <2>1, <2>2 DEF WorkersInv
  <2>8. QED
    BY <2>1, <2>5, <2>6, <2>7 DEF WorkersInv
<1>6. CASE ~(stopped \/ waiting = <<>>)
  <2> DEFINE h == Head(waiting)
             w == [inv[h] EXCEPT !.stage = "ready"]
  <2>1. /\ waiting \in Seq(Requests) /\ waiting # <<>> /\ Len(waiting) \in Nat \ {0}
        /\ h = waiting[1] /\ h \in Requests
    BY <1>6 DEF WorkersInv, WaitersQueued
  <2>2. inv[h] \in InvocationType /\ InvocationOK(inv[h]) /\ inv[h].stage = "queued"
    BY <1>6, <2>1 DEF WorkersInv, WaitersQueued
  <2>3. h # i
    BY <1>1, <2>2
  <2>4. Alike(w, inv[h]) /\ w.stage = "ready" /\ w.finished = inv[h].finished
    BY <2>2 DEF InvocationType, Alike, Stages, Busy
  <2>5. /\ inv' = [inv EXCEPT ![i].stage = "over", ![h].stage = "ready"]
        /\ waiting' = Tail(waiting) /\ UNCHANGED stopped
    BY <1>6 DEF Completed, Rest
  <2> HIDE DEF h
  <2>6. inv' = [inv EXCEPT ![i] = u, ![h] = w]
    BY <1>1, <2>1, <2>3, <2>5 DEF u
  <2> HIDE DEF w
  <2>7. InvocationOK(w) /\ w \in InvocationType
    BY <2>2, <2>4, AlikeOK DEF Early, Alike
  <2>8. \A j \in Requests : inv'[j] = IF j = i THEN u ELSE IF j = h THEN w ELSE inv[j]
    BY <1>1, <2>1, <2>3, <2>6
  <2>9. h \notin Active /\ Active' = (Active \ {i}) \cup {h}
    BY <1>2, <2>1, <2>2, <2>3, <2>4, <2>8 DEF Active, In, Busy
  <2>10. Cardinality(Active') = Cardinality(Active)
    <3>1. IsFiniteSet(Active \ {i})
      BY ActiveFinite DEF Active, In
    <3>2. Cardinality((Active \ {i}) \cup {h}) = Cardinality(Active \ {i}) + 1
      BY <2>9, <3>1, FS_AddElement
    <3>3. QED
      BY <1>4, <2>9, <3>2
  <2>11. /\ waiting' \in Seq(Requests) /\ Len(waiting') = Len(waiting) - 1
         /\ \A j \in 1..Len(waiting') : waiting'[j] = waiting[j + 1]
    BY <2>1, <2>5
  <2>12. DispatcherExact'
    <3>1. Cardinality(Active) = MaxHandlers
      BY <2>1 DEF WorkersInv, DispatcherExact
    <3>2. Len(waiting') <= HandlerQueue
      BY <2>1, <2>11, RpcWorkersAssumption DEF WorkersInv, DispatcherExact
    <3>3. QED
      BY <2>10, <3>1, <3>2, RpcWorkersAssumption DEF DispatcherExact
  <2>13. WaitersQueued'
    <3>1. \A j \in 1..Len(waiting') :
              /\ j + 1 \in 1..Len(waiting) /\ waiting[j + 1] \in Requests
              /\ waiting[j + 1] # h
      BY <2>1, <2>11 DEF WorkersInv, WaitersQueued
    <3>2. \A j \in 1..Len(waiting') : inv'[waiting'[j]].stage = "queued"
      <4> SUFFICES ASSUME NEW j \in 1..Len(waiting') PROVE inv'[waiting'[j]].stage = "queued"
        OBVIOUS
      <4>1. inv[waiting[j + 1]].stage = "queued"
        BY <3>1 DEF WorkersInv, WaitersQueued
      <4>2. QED
        BY <1>1, <2>8, <2>11, <3>1, <4>1
    <3>3. \A j, k \in 1..Len(waiting') : waiting'[j] = waiting'[k] => j = k
      <4> SUFFICES ASSUME NEW j \in 1..Len(waiting'), NEW k \in 1..Len(waiting'),
                          waiting'[j] = waiting'[k]
                   PROVE  j = k
        OBVIOUS
      <4>1. j + 1 = k + 1
        BY <2>11, <3>1 DEF WorkersInv, WaitersQueued
      <4>2. QED
        BY <2>1, <2>11, <4>1
    <3>4. QED
      BY <2>11, <3>2, <3>3 DEF WaitersQueued
  <2>14. inv' \in [Requests -> InvocationType]
    BY <1>1, <1>3, <2>6, <2>7
  <2>15. \A j \in Requests : InvocationOK(inv'[j])
    BY <1>3, <2>7, <2>8 DEF WorkersInv
  <2>16. QED
    BY <1>6, <2>5, <2>12, <2>13, <2>14, <2>15 DEF WorkersInv
<1>7. QED
  BY <1>5, <1>6

\* The steps of the task that serves a request, and of those that end it.
LEMMA ServingKeeps ==
    ASSUME WorkersInv, NEW i \in Requests,
           \/ Begin(i) \/ Admit(i) \/ HandlerEnds(i) \/ HandlerReturns(i) \/ HandlerRaises(i)
           \/ SendReturns(i) \/ SendRaises(i) \/ HandlerTimeout(i) \/ Doomed(i)
    PROVE  WorkersInv'
<1> DEFINE v == inv[i]
           Ends == {"acking", "leaving", "failing", "expiring", "running", "ending", "waiting"}
<1>1. v \in InvocationType /\ InvocationOK(v) /\ Sound(v) /\ AckBound(v)
  BY DEF WorkersInv, InvocationOK
<1>2. ASSUME NEW u, InvocationOK(u), u.stage \in Ends, Serve(i, u), v.stage \in Busy
      PROVE  WorkersInv'
  <2>1. u.stage \in Busy /\ v.stage # "queued"
    BY <1>2 DEF Busy
  <2>2. QED
    BY <1>2, <2>1, ServeKeeps
<1>3. /\ v.stage \in {"running", "ending"} => v.started /\ ~v.finished /\ v.ack = "none"
      /\ v.stage \in {"running", "ready", "waiting", "acking", "leaving"} => Clear(v)
      /\ v.stage = "running" => (~v.ended => v.ends = 0) /\ ~v.broken
  BY DEF InvocationOK, Sends, Clear, WorkersInv
<1>4. CASE Begin(i)
  <2>0. v.stage = "ready"
    BY <1>4 DEF Begin, Serving
  <2>1. CASE ~v.active
    <3> DEFINE u == [v EXCEPT !.finished = TRUE, !.stage = "leaving"]
    <3>1. Serve(i, u)
      BY <1>4, <2>1 DEF Begin
    <3>2. /\ u \in InvocationType /\ u.stage = "leaving"
          /\ u.ends = v.ends /\ u.acks = v.acks /\ u.ack = v.ack /\ u.asked = v.asked
          /\ u.request = v.request /\ u.broken = v.broken /\ u.ended = v.ended
          /\ u.cancelled = v.cancelled
      BY <1>1 DEF InvocationType, Stages, Busy
    <3> HIDE DEF u
    <3>3. InvocationOK(u)
      BY <1>1, <1>3, <2>0, <3>2
         DEF InvocationOK, Sound, AckBound, Clear, Done, Early, InvocationType
    <3>4. QED
      BY <1>2, <2>0, <3>1, <3>2, <3>3 DEF Busy
  <2>2. CASE v.active /\ Free(v.by)
    <3>1. Serve(i, Enter(v))
      BY <1>4, <2>2 DEF Begin
    <3>2. QED
      BY <1>1, <1>2, <2>0, <3>1, EnterOK DEF Busy
  <2>3. CASE v.active /\ ~Free(v.by)
    <3> DEFINE u == [v EXCEPT !.stage = "waiting"]
    <3>1. Serve(i, u)
      BY <1>4, <2>3 DEF Begin
    <3>2. Alike(u, v) /\ u.stage = "waiting" /\ u.finished = v.finished
      BY <1>1 DEF InvocationType, Alike, Stages, Busy
    <3> HIDE DEF u
    <3>3. InvocationOK(u)
      BY <1>1, <2>0, <3>2, AlikeOK DEF Early
    <3>4. QED
      BY <1>2, <2>0, <3>1, <3>2, <3>3 DEF Busy
  <2>4. QED
    BY <1>1, <2>1, <2>2, <2>3 DEF InvocationType
<1>5. CASE Admit(i)
  BY <1>1, <1>2, <1>5, EnterOK DEF Admit, Serving, Busy
<1>6. ASSUME v.stage = "running"
      PROVE  InvocationOK(HandlerFailed(v)) /\ HandlerFailed(v).stage \in Ends
  BY <1>1, <1>3, <1>6, HandlerFailedOK
<1>7. CASE HandlerEnds(i)
  <2>0. v.stage = "running"
    BY <1>7 DEF HandlerEnds, Serving
  <2>1. CASE CanAnswer(v)
    <3> DEFINE u == [v EXCEPT !.ends = @ + 1, !.stage = "ending"]
    <3>0. ~v.ended /\ v.ends = 0 /\ ~v.broken
      BY <1>3, <2>0, <2>1 DEF CanAnswer
    <3>1. Serve(i, u)
      BY <1>7, <2>1 DEF HandlerEnds
    <3>2. /\ u \in InvocationType /\ u.stage = "ending"
          /\ u.ends = 1 /\ u.acks = v.acks /\ u.ack = v.ack /\ u.asked = v.asked
          /\ u.request = v.request /\ u.broken = v.broken /\ u.ended = v.ended
          /\ u.cancelled = v.cancelled /\ u.started = v.started /\ u.finished = v.finished
      <4>1. "ending" \in Stages /\ v.ends + 1 = 1 /\ 1 \in 0..3
        BY <3>0 DEF Stages, Busy
      <4>2. QED
        BY <1>1, <4>1 DEF InvocationType
    <3> HIDE DEF u
    <3>3. InvocationOK(u)
      BY <1>1, <1>3, <2>0, <3>0, <3>2
         DEF InvocationOK, Sound, AckBound, Clear, Done, Early, Sends
    <3>4. QED
      BY <1>2, <2>0, <3>1, <3>2, <3>3 DEF Busy
  <2>2. CASE ~CanAnswer(v)
    BY <1>2, <1>6, <1>7, <2>0, <2>2 DEF HandlerEnds, Busy
  <2>3. QED
    BY <2>1, <2>2
<1>8. CASE HandlerReturns(i)
  <2> DEFINE u == [v EXCEPT !.silent = ~v.ended]
  <2>0. v.stage = "running" /\ Serve(i, Finally(u))
    BY <1>8 DEF HandlerReturns, Serving
  <2>1. Alike(u, v) /\ u.stage = v.stage /\ u.finished = v.finished
    BY <1>1 DEF InvocationType, Alike
  <2> HIDE DEF u
  <2>2. Sound(u) /\ AckBound(u) /\ Clear(u) /\ u.stage \notin Done
    BY <1>1, <1>3, <2>0, <2>1 DEF Sound, AckBound, Clear, Done, Alike
  <2>3. InvocationOK(Finally(u)) /\ Finally(u).stage \in Ends
    BY <2>2, FinallyOK
  <2>4. QED
    BY <1>2, <2>0, <2>3 DEF Busy
<1>9. CASE HandlerRaises(i)
  BY <1>2, <1>6, <1>9 DEF HandlerRaises, Serving, Busy
<1>10. CASE SendReturns(i)
  <2> DEFINE e == [v EXCEPT !.ended = TRUE]
  <2>1. /\ e \in InvocationType /\ e.ended /\ e.stage = v.stage
        /\ e.ends = v.ends /\ e.acks = v.acks /\ e.ack = v.ack /\ e.asked = v.asked
        /\ e.request = v.request /\ e.broken = v.broken
        /\ e.cancelled = v.cancelled /\ e.started = v.started /\ e.finished = v.finished
    BY <1>1 DEF InvocationType
  <2> DEFINE r == [e EXCEPT !.stage = "running"]
  <2>2. CASE v.stage = "ending" /\ Serve(i, r)
    <3>1. /\ r \in InvocationType /\ r.stage = "running" /\ r.ended
          /\ r.ends = v.ends /\ r.acks = v.acks /\ r.ack = v.ack /\ r.asked = v.asked
          /\ r.request = v.request /\ r.broken = v.broken
          /\ r.cancelled = v.cancelled /\ r.started = v.started /\ r.finished = v.finished
      <4> HIDE DEF e
      <4>1. "running" \in Stages
        BY DEF Stages, Busy
      <4>2. QED
        BY <2>1, <4>1 DEF InvocationType
    <3>2. ~v.broken
      BY <1>1, <2>2 DEF InvocationOK
    <3> HIDE DEF r
    <3>3. InvocationOK(r)
      BY <1>1, <1>3, <2>2, <3>1, <3>2
         DEF InvocationOK, Sound, AckBound, Clear, Done, Early, Sends
    <3>4. QED
      BY <1>2, <2>2, <3>1, <3>3 DEF Busy
  <2>3. CASE v.stage \in {"expiring", "failing"} /\ Serve(i, Finally(e))
    <3> HIDE DEF e
    <3>1. Sound(e) /\ AckBound(e) /\ Clear(e) /\ e.stage \notin Done
      BY <1>1, <2>1, <2>3 DEF Sound, AckBound, Clear, Done
    <3>2. InvocationOK(Finally(e)) /\ Finally(e).stage \in Ends
      BY <3>1, FinallyOK
    <3>3. QED
      BY <1>2, <2>3, <3>2 DEF Busy
  <2>4. CASE v.stage = "acking" /\ Serve(i, [v EXCEPT !.stage = "leaving"])
    <3> DEFINE u == [v EXCEPT !.stage = "leaving"]
    <3>1. Alike(u, v) /\ u.stage = "leaving" /\ u.finished = v.finished
      BY <1>1 DEF InvocationType, Alike, Stages, Busy
    <3> HIDE DEF u
    <3>2. InvocationOK(u)
      BY <1>1, <2>4, <3>1, AlikeOK DEF Done
    <3>3. Serve(i, u)
      BY <2>4 DEF u
    <3>4. QED
      BY <1>2, <2>4, <3>1, <3>2, <3>3 DEF Busy
  <2>5. QED
    BY <1>10, <2>2, <2>3, <2>4 DEF SendReturns, Serving
<1>11. CASE SendRaises(i)
  <2> DEFINE b == [v EXCEPT !.broken = TRUE]
  <2>1. v.stage \in Sends
    BY <1>11 DEF SendRaises, Serving, Sends
  <2>2. /\ Sound(b) /\ AckBound(b) /\ Clear(b) /\ b.stage = v.stage
        /\ b.finished = v.finished /\ b.started = v.started /\ b.ack = v.ack
        /\ b.broken /\ (v.stage = "ending" => b.ends <= 1)
    BY <1>1, <2>1, BrokenOK
  <2> HIDE DEF b
  <2>3. CASE v.stage = "ending" /\ Serve(i, HandlerFailed(b))
    <3>1. InvocationOK(HandlerFailed(b)) /\ HandlerFailed(b).stage \in Ends
      BY <1>3, <2>2, <2>3, HandlerFailedOK
    <3>2. QED
      BY <1>2, <2>3, <3>1 DEF Busy
  <2>4. CASE v.stage \in {"expiring", "failing"} /\ Serve(i, Finally(b))
    <3>1. InvocationOK(Finally(b)) /\ Finally(b).stage \in Ends
      BY <2>2, <2>4, FinallyOK DEF Done
    <3>2. QED
      BY <1>2, <2>4, <3>1 DEF Busy
  <2>5. QED
    BY <1>11, <2>3, <2>4 DEF SendRaises, Serving, b
<1>12. ASSUME NEW u, Alike(u, v), u.stage = v.stage, u.finished = v.finished,
              v.stage \in Busy \ {"leaving"}, Serve(i, Interrupted(u))
       PROVE  WorkersInv'
  <2>1. InvocationOK(u)
    BY <1>1, <1>12, AlikeOK
  <2>2. InvocationOK(Interrupted(u)) /\ Interrupted(u).stage \in Ends
    BY <1>12, <2>1, InterruptedOK
  <2>3. QED
    BY <1>2, <1>12, <2>2
<1>13. CASE HandlerTimeout(i)
  <2> DEFINE u == [v EXCEPT !.timedOut = TRUE]
  <2>1. Alike(u, v) /\ u.stage = v.stage /\ u.finished = v.finished
    BY <1>1 DEF InvocationType, Alike
  <2>2. v.stage \in Busy \ {"leaving"} /\ Serve(i, Interrupted(u))
    BY <1>13 DEF HandlerTimeout, Serving
  <2> HIDE DEF u
  <2>3. QED
    BY <1>12, <2>1, <2>2
<1>14. CASE Doomed(i)
  <2> DEFINE u == [v EXCEPT !.doomed = FALSE]
  <2>1. Alike(u, v) /\ u.stage = v.stage /\ u.finished = v.finished
    BY <1>1 DEF InvocationType, Alike
  <2>2. v.stage \in Busy \ {"leaving"} /\ Serve(i, Interrupted(u))
    BY <1>14 DEF Doomed
  <2> HIDE DEF u
  <2>3. QED
    BY <1>12, <2>1, <2>2
<1>15. QED
  BY <1>4, <1>5, <1>7, <1>8, <1>9, <1>10, <1>11, <1>13, <1>14

LEMMA RefuseKeeps ==
    ASSUME WorkersInv, NEW i \in Requests, Refuse(i)
    PROVE  WorkersInv'
<1> DEFINE v == inv[i]
           Yield(u) == IF Online THEN [u EXCEPT !.acks = @ + 1, !.stage = "yielding"]
                       ELSE [u EXCEPT !.stage = "over"]
<1>1. /\ v \in InvocationType /\ InvocationOK(v) /\ Sound(v) /\ AckBound(v)
      /\ v.stage \in {"saturated", "refusing", "yielding"} => ~v.finished
  BY DEF WorkersInv, InvocationOK
<1>2. ASSUME NEW u, InvocationOK(u), u.stage \in {"refusing", "yielding", "over"}, Serve(i, u),
             v.stage \in {"saturated", "refusing", "yielding"}
      PROVE  WorkersInv'
  BY <1>2, ServeKeeps DEF Busy
<1>3. ASSUME NEW u, Sound(u), AckBound(u), Clear(u), u.stage \in {"saturated", "refusing"},
             ~u.finished
      PROVE  InvocationOK(Yield(u)) /\ Yield(u).stage \in {"yielding", "over"}
  <2>1. /\ u.acks \in 0..1 /\ u.acks + 1 \in 0..2 /\ u \in InvocationType
        /\ {"yielding", "over"} \subseteq Stages
    BY <1>3 DEF AckBound, Sound, InvocationType, Done, Stages
  <2>2. /\ Yield(u) \in InvocationType /\ Yield(u).stage \in {"yielding", "over"}
        /\ Yield(u).ends = u.ends /\ Yield(u).acks <= u.acks + 1 /\ Yield(u).ack = u.ack
        /\ Yield(u).asked = u.asked /\ Yield(u).finished = u.finished
        /\ Yield(u).request = u.request /\ Yield(u).broken = u.broken
        /\ Yield(u).ended = u.ended /\ Yield(u).cancelled = u.cancelled
    <3>1. CASE Online
      <4> DEFINE y == [u EXCEPT !.acks = @ + 1, !.stage = "yielding"]
      <4>1. Yield(u) = y
        BY <3>1
      <4>2. y \in InvocationType
        BY <2>1 DEF InvocationType
      <4>3. /\ y.stage = "yielding" /\ y.ends = u.ends /\ y.ack = u.ack /\ y.asked = u.asked
            /\ y.finished = u.finished /\ y.request = u.request /\ y.broken = u.broken
            /\ y.ended = u.ended /\ y.cancelled = u.cancelled
        BY <2>1 DEF InvocationType
      <4>4. y.acks = u.acks + 1
        BY <2>1 DEF InvocationType
      <4> HIDE DEF y, Yield
      <4>5. QED
        BY <2>1, <4>1, <4>2, <4>3, <4>4
    <3>2. CASE ~Online
      BY <2>1, <3>2 DEF InvocationType
    <3>3. QED
      BY <3>1, <3>2
  <2> HIDE DEF Yield
  <2>3. QED
    BY <1>3, <2>1, <2>2 DEF InvocationOK, Sound, AckBound, Clear, Done, Early, InvocationType
<1>4. CASE v.stage = "saturated"
  <2>0. Clear(v) /\ v.ends = 0 /\ ~v.broken /\ ~v.ended
    BY <1>4 DEF WorkersInv, InvocationOK, Early, Clear
  <2>1. CASE CanAnswer(v)
    <3> DEFINE u == [v EXCEPT !.ends = @ + 1, !.stage = "refusing"]
    <3>1. Serve(i, u)
      BY <1>4, <2>1 DEF Refuse
    <3>2. /\ u \in InvocationType /\ u.stage = "refusing"
          /\ u.ends = 1 /\ u.acks = v.acks /\ u.ack = v.ack /\ u.asked = v.asked
          /\ u.request = v.request /\ u.broken = v.broken /\ u.ended = v.ended
          /\ u.cancelled = v.cancelled /\ u.finished = v.finished
      <4>1. "refusing" \in Stages /\ v.ends + 1 = 1 /\ 1 \in 0..3
        BY <2>0 DEF Stages
      <4>2. QED
        BY <1>1, <1>4, <4>1 DEF InvocationType
    <3> HIDE DEF u
    <3>3. InvocationOK(u)
      BY <1>1, <1>4, <2>0, <3>2 DEF InvocationOK, Sound, AckBound, Done, Early, Sends
    <3>4. QED
      BY <1>2, <1>4, <3>1, <3>2, <3>3
  <2>2. CASE ~CanAnswer(v)
    <3>1. Serve(i, Yield(v))
      BY <1>4, <2>2 DEF Refuse
    <3> HIDE DEF Yield
    <3>2. QED
      BY <1>1, <1>2, <1>3, <1>4, <2>0, <3>1
  <2>3. QED
    BY <2>1, <2>2
<1>5. CASE v.stage = "refusing"
  <2>1. PICK u \in {[v EXCEPT !.ended = TRUE], [v EXCEPT !.broken = TRUE]} : Serve(i, Yield(u))
    BY <1>5 DEF Refuse
  <2>2. /\ u \in InvocationType /\ u.stage = "refusing"
        /\ u.ended \/ u.broken
        /\ u.ends = v.ends /\ u.acks = v.acks /\ u.ack = v.ack /\ u.asked = v.asked
        /\ u.request = v.request /\ (v.broken => u.broken)
        /\ u.cancelled = v.cancelled /\ u.finished = v.finished
    BY <1>1, <1>5, ZenonT(60) DEF InvocationType
  <2>3. Sound(u) /\ AckBound(u) /\ Clear(u)
    BY <1>1, <1>5, <2>2 DEF Sound, AckBound, Clear, InvocationType
  <2> HIDE DEF Yield
  <2>4. QED
    BY <1>1, <1>2, <1>3, <1>5, <2>1, <2>2, <2>3
<1>6. CASE v.stage = "yielding"
  <2> DEFINE u == [v EXCEPT !.stage = "over"]
  <2>1. Alike(u, v) /\ u.stage = "over" /\ u.finished = v.finished
    BY <1>1, <1>6 DEF InvocationType, Alike, Stages
  <2>2. Serve(i, u)
    BY <1>6 DEF Refuse
  <2> HIDE DEF u
  <2>3. InvocationOK(u)
    BY <1>1, <1>6, <2>1, AlikeOK DEF Done
  <2>4. QED
    BY <1>2, <1>6, <2>1, <2>2, <2>3
<1>7. QED
  BY <1>4, <1>5, <1>6 DEF Refuse

\* The broker's cancellation, the clean-up task and the deadline change flags.
LEMMA CancellationKeeps ==
    ASSUME WorkersInv, NEW i \in Requests,
           CancelRequested(i) \/ CleanupAck(i) \/ BudgetEnds(i)
    PROVE  WorkersInv'
<1> DEFINE v == inv[i]
<1>1. v \in InvocationType /\ InvocationOK(v) /\ Sound(v) /\ AckBound(v)
  BY DEF WorkersInv, InvocationOK, Sound
<1>2. ASSUME NEW u, u \in InvocationType, u.stage = v.stage, u.finished = v.finished,
             u.ends = v.ends, u.broken = v.broken, u.ended = v.ended, u.started = v.started,
             u.ack # "none" => u.asked /\ u.request /\ u.cancelled,
             AckBound(u),
             v.stage \in {"running", "ending", "failing"} => u.ack = "none",
             Serve(i, u)
      PROVE  WorkersInv'
  <2>1. InvocationOK(u)
    BY <1>1, <1>2 DEF InvocationOK, Sound, Clear
  <2>2. QED
    BY <1>2, <2>1, ServeKeeps
<1>3. CASE CancelRequested(i)
  <2> DEFINE c == [v EXCEPT !.asked = TRUE, !.request = TRUE, !.cancelled = TRUE]
             u == IF c.finished \/ ~c.started THEN [c EXCEPT !.ack = "created"] ELSE c
  <2>1. Serve(i, u) /\ ~v.asked
    BY <1>3 DEF CancelRequested
  <2>2. v.ack = "none"
    BY <1>1, <2>1 DEF Sound
  <2>3. /\ c \in InvocationType /\ c.stage = v.stage /\ c.finished = v.finished
        /\ c.ends = v.ends /\ c.broken = v.broken /\ c.ended = v.ended /\ c.started = v.started
        /\ c.ack = v.ack /\ c.asked /\ c.request /\ c.cancelled /\ c.acks = v.acks
    BY <1>1 DEF InvocationType
  <2> HIDE DEF c
  <2>4. /\ u \in InvocationType /\ u.stage = v.stage /\ u.finished = v.finished
        /\ u.ends = v.ends /\ u.broken = v.broken /\ u.ended = v.ended /\ u.started = v.started
        /\ u.asked /\ u.request /\ u.cancelled /\ u.acks = v.acks
        /\ u.ack \in {"none", "created"}
        /\ v.started /\ ~v.finished => u.ack = "none"
    BY <2>2, <2>3 DEF InvocationType
  <2> HIDE DEF u
  <2>5. AckBound(u)
    BY <1>1, <2>2, <2>4 DEF AckBound
  <2>6. v.stage \in {"running", "ending", "failing"} => u.ack = "none"
    BY <1>1, <2>4 DEF InvocationOK
  <2>7. QED
    BY <1>2, <2>1, <2>4, <2>5, <2>6
<1>4. CASE CleanupAck(i)
  <2> DEFINE f == [v EXCEPT !.active = FALSE]
             u == IF v.ack = "created"
                  THEN IF Online THEN [f EXCEPT !.acks = @ + 1, !.ack = "sending"]
                       ELSE [f EXCEPT !.ack = "over"]
                  ELSE [v EXCEPT !.ack = "over"]
  <2>1. Serve(i, u) /\ v.ack \in {"created", "sending"}
    BY <1>4 DEF CleanupAck
  <2>2. v.acks \in 0..2 /\ (v.ack = "created" => v.acks <= 1)
    BY <1>1 DEF AckBound, InvocationType
  <2>3. /\ u \in InvocationType /\ u.stage = v.stage /\ u.finished = v.finished
        /\ u.ends = v.ends /\ u.broken = v.broken /\ u.ended = v.ended /\ u.started = v.started
        /\ u.asked = v.asked /\ u.request = v.request /\ u.cancelled = v.cancelled
        /\ u.ack \in {"sending", "over"}
        /\ u.acks <= v.acks + IF v.ack = "created" THEN 1 ELSE 0
    <3>1. v.ack = "created" => v.acks + 1 \in 0..2
      BY <2>2
    <3>6. /\ f \in InvocationType /\ f.stage = v.stage /\ f.finished = v.finished
          /\ f.ends = v.ends /\ f.broken = v.broken /\ f.ended = v.ended
          /\ f.started = v.started /\ f.asked = v.asked /\ f.request = v.request
          /\ f.cancelled = v.cancelled /\ f.acks = v.acks
      BY <1>1 DEF InvocationType
    <3> HIDE DEF f
    <3>2. CASE v.ack = "created" /\ Online
      <4>1. u = [f EXCEPT !.acks = @ + 1, !.ack = "sending"]
        BY <3>2
      <4> HIDE DEF u
      <4>2. u \in InvocationType
        BY <3>1, <3>2, <3>6, <4>1 DEF InvocationType
      <4>3. u.acks = v.acks + 1
        BY <3>6, <4>1 DEF InvocationType
      <4>4. u.ack = "sending"
        BY <3>6, <4>1 DEF InvocationType
      <4>5. /\ u.stage = v.stage /\ u.finished = v.finished
            /\ u.ends = v.ends /\ u.broken = v.broken /\ u.ended = v.ended
            /\ u.started = v.started /\ u.asked = v.asked /\ u.request = v.request
            /\ u.cancelled = v.cancelled
        BY <3>6, <4>1 DEF InvocationType
      <4>6. QED
        BY <2>2, <3>2, <4>2, <4>3, <4>4, <4>5
    <3>3. CASE v.ack = "created" /\ ~Online
      BY <1>1, <3>3, <3>6 DEF InvocationType
    <3>4. CASE v.ack # "created"
      BY <1>1, <3>4 DEF InvocationType
    <3>5. QED
      BY <3>2, <3>3, <3>4
  <2> HIDE DEF u
  <2>4. AckBound(u)
    BY <1>1, <2>1, <2>2, <2>3 DEF AckBound, InvocationType
  <2>5. v.stage \notin {"running", "ending", "failing"}
    BY <1>1, <2>1 DEF InvocationOK
  <2>6. QED
    BY <1>1, <1>2, <2>1, <2>3, <2>4, <2>5 DEF Sound
<1>5. CASE BudgetEnds(i)
  <2> DEFINE u == [v EXCEPT !.late = TRUE, !.cancelled = @ \/ v.active]
  <2>1. Serve(i, u)
    BY <1>5 DEF BudgetEnds
  <2>2. Alike(u, v) /\ u.stage = v.stage /\ u.finished = v.finished
    BY <1>1 DEF InvocationType, Alike
  <2> HIDE DEF u
  <2>3. InvocationOK(u)
    BY <1>1, <2>2, AlikeOK
  <2>4. QED
    BY <2>1, <2>2, <2>3, ServeKeeps
<1>6. QED
  BY <1>3, <1>4, <1>5

LEMMA DisconnectedKeeps ==
    ASSUME WorkersInv, WorkersDisconnected
    PROVE  WorkersInv'
<1> DEFINE closing == mode = "closing"
           Drop(v) == [v EXCEPT !.active = FALSE, !.cancelled = @ \/ v.active,
                                !.doomed = closing /\ v.stage \in Busy \ {"leaving"}]
<1>1. /\ inv' = [i \in Requests |-> Drop(inv[i])]
      /\ stopped' = closing
      /\ waiting' = IF closing THEN <<>> ELSE waiting
  BY DEF WorkersDisconnected
<1>2. ASSUME NEW i \in Requests
      PROVE  /\ InvocationOK(Drop(inv[i])) /\ Drop(inv[i]) \in InvocationType
             /\ Drop(inv[i]).stage = inv[i].stage
  <2>1. inv[i] \in InvocationType /\ InvocationOK(inv[i])
    BY DEF WorkersInv
  <2>2. /\ Alike(Drop(inv[i]), inv[i]) /\ Drop(inv[i]).stage = inv[i].stage
        /\ Drop(inv[i]).finished = inv[i].finished
    <3> DEFINE v == inv[i]
               a == [v EXCEPT !.active = FALSE]
               d == closing /\ v.stage \in Busy \ {"leaving"}
               x == v.cancelled \/ v.active
               b == [a EXCEPT !.cancelled = x]
    <3>1. a \in InvocationType
      BY <2>1 DEF InvocationType
    <3>2. /\ a.stage = v.stage /\ a.finished = v.finished /\ a.ends = v.ends
          /\ a.acks = v.acks /\ a.ack = v.ack /\ a.asked = v.asked
          /\ a.request = v.request /\ a.broken = v.broken /\ a.ended = v.ended
          /\ a.started = v.started
      BY <2>1 DEF InvocationType
    <3>3. Drop(v) = [b EXCEPT !.doomed = d]
      BY <2>1 DEF InvocationType
    <3>4. d \in BOOLEAN /\ x \in BOOLEAN /\ (v.cancelled => x)
      BY <2>1 DEF InvocationType
    <3> HIDE DEF a, d, x
    <3>5. b \in InvocationType /\ b.cancelled = x
      BY <3>1, <3>4 DEF InvocationType
    <3>6. /\ b.stage = v.stage /\ b.finished = v.finished /\ b.ends = v.ends
          /\ b.acks = v.acks /\ b.ack = v.ack /\ b.asked = v.asked
          /\ b.request = v.request /\ b.broken = v.broken /\ b.ended = v.ended
          /\ b.started = v.started
      BY <3>1, <3>2 DEF InvocationType
    <3> HIDE DEF b, Drop
    <3> DEFINE u == [b EXCEPT !.doomed = d]
    <3>7. u \in InvocationType
      BY <3>4, <3>5 DEF InvocationType
    <3>8. /\ u.stage = v.stage /\ u.finished = v.finished /\ u.ends = v.ends
          /\ u.acks = v.acks /\ u.ack = v.ack /\ u.asked = v.asked
          /\ u.request = v.request /\ u.broken = v.broken /\ u.ended = v.ended
          /\ u.started = v.started /\ u.cancelled = x
      BY <3>5, <3>6 DEF InvocationType
    <3> HIDE DEF u
    <3>9. Alike(u, v)
      BY <3>4, <3>7, <3>8 DEF Alike
    <3>10. Drop(v) = u
      BY <3>3 DEF u
    <3>11. QED
      BY <3>8, <3>9, <3>10
  <2> HIDE DEF Drop
  <2>3. QED
    BY <2>1, <2>2, AlikeOK DEF Alike
<1> HIDE DEF Drop
<1>3. \A i \in Requests : inv'[i] = Drop(inv[i])
  BY <1>1
<1>4. inv' \in [Requests -> InvocationType] /\ \A i \in Requests : InvocationOK(inv'[i])
  BY <1>1, <1>2, <1>3
<1>5. Active' = Active
  BY <1>2, <1>3 DEF Active, In
<1>6. DispatcherExact'
  BY <1>1, <1>5, RpcWorkersAssumption DEF WorkersInv, DispatcherExact
<1>7. WaitersQueued'
  <2>1. CASE closing
    BY <1>1, <2>1 DEF WaitersQueued
  <2>2. CASE ~closing
    <3>1. \A j \in 1..Len(waiting) : waiting[j] \in Requests
      BY DEF WorkersInv, WaitersQueued
    <3>2. QED
      BY <1>1, <1>2, <1>3, <2>2, <3>1 DEF WorkersInv, WaitersQueued
  <2>3. QED
    BY <2>1, <2>2
<1>8. QED
  BY <1>1, <1>4, <1>6, <1>7 DEF WorkersInv

------------------------------------------------------------------------------
(* One call: what is true of its record.                                     *)

Live(k) == k.pc \in {"opening", "open"}
Frames(q) == \A j \in 1..Len(q) : q[j] = "frame"
Wanted(k) == k.cause \in {"owner", "parent"}

\* A call that was closed still has the mark in its queue that says how it ended,
\* or keeps its failure aside.
Marked(k) ==
    \/ /\ k.queue # <<>> /\ k.queue[Len(k.queue)] = "error"
       /\ \A j \in 1..(Len(k.queue) - 1) : k.queue[j] = "frame"
       /\ k.taken + Len(k.queue) <= k.sent + 1
    \/ k.queue = <<"none">> /\ k.taken <= k.sent /\ (Wanted(k) \/ k.failure # "none")
    \/ k.failure # "none" /\ Frames(k.queue) /\ k.taken + Len(k.queue) <= k.sent

CallOK(k) ==
    /\ k \in CallType
    /\ k.pc = "idle" => ~k.closed /\ ~k.terminal /\ k.queue = <<>> /\ k.failure = "none"
                        /\ k.sent = 0 /\ k.taken = 0 /\ k.answer = "none"
    /\ k.listed => Live(k)
    /\ Live(k) => (k.listed <=> ~(k.closed \/ k.terminal))
    /\ k.terminal => ~k.closed /\ k.answer = "ended"
    /\ Live(k) /\ ~k.closed =>
           k.failure = "none" /\ Frames(k.queue) /\ k.taken + Len(k.queue) = k.sent
    /\ Live(k) /\ k.closed /\ k.seen = "nothing" => Marked(k)
    /\ k.seen # "nothing" => k.pc = "open" /\ (k.closed \/ k.terminal) /\ k.user = "idle"
    /\ k.seen = "end" => (k.answer = "ended" /\ k.taken = k.sent) \/ Wanted(k)
    /\ "waiting" \in {k.expiry, k.watch, k.user} => k.pc = "open"

\* u is k but for what CallOK does not mention, and its entry in _pending.
Kin(u, k) ==
    /\ u \in CallType
    /\ u.pc = k.pc /\ u.closed = k.closed /\ u.terminal = k.terminal
    /\ u.failure = k.failure /\ u.queue = k.queue /\ u.user = k.user /\ u.seen = k.seen
    /\ u.cause = k.cause /\ u.answer = k.answer /\ u.sent = k.sent /\ u.taken = k.taken
    /\ u.expiry = "waiting" => k.expiry = "waiting"
    /\ u.watch = "waiting" => k.watch = "waiting"

Outcomes == {"not_requested", "connection_closed", "answered", "unconfirmed"}

LEMMA KinOK ==
    ASSUME NEW k, CallOK(k), NEW u, Kin(u, k), u.listed = k.listed
    PROVE  CallOK(u)
BY DEF CallOK, Kin, Live, Marked, Wanted, Frames

\* The fields change one by one, which is what the provers can follow.
LEMMA FieldTypes ==
    ASSUME NEW k \in CallType
    PROVE  /\ \A b \in BOOLEAN : [k EXCEPT !.closed = b] \in CallType
           /\ \A b \in BOOLEAN : [k EXCEPT !.listed = b] \in CallType
           /\ \A b \in BOOLEAN : [k EXCEPT !.awaiting = b] \in CallType
           /\ \A x \in {"none", "sending", "sent"} : [k EXCEPT !.cancel = x] \in CallType
           /\ \A x \in Outcomes : [k EXCEPT !.outcome = x] \in CallType
           /\ \A x \in {"owner", "parent", "deadline"} : [k EXCEPT !.cause = x] \in CallType
           /\ \A x \in {"idle", "waiting"} : [k EXCEPT !.user = x] \in CallType
           /\ \A x \in {"end", "error", "cancelled"} : [k EXCEPT !.seen = x] \in CallType
           /\ \A q \in Seq({"frame", "none", "error"}) : [k EXCEPT !.queue = q] \in CallType
<1>1. ASSUME NEW b \in BOOLEAN PROVE [k EXCEPT !.closed = b] \in CallType
  BY DEF CallType
<1>2. ASSUME NEW b \in BOOLEAN PROVE [k EXCEPT !.listed = b] \in CallType
  BY DEF CallType
<1>3. ASSUME NEW b \in BOOLEAN PROVE [k EXCEPT !.awaiting = b] \in CallType
  BY DEF CallType
<1>4. ASSUME NEW x \in {"none", "sending", "sent"} PROVE [k EXCEPT !.cancel = x] \in CallType
  BY DEF CallType
<1>5. ASSUME NEW x \in Outcomes PROVE [k EXCEPT !.outcome = x] \in CallType
  BY DEF CallType, Outcomes
<1>6. ASSUME NEW x \in {"owner", "parent", "deadline"} PROVE [k EXCEPT !.cause = x] \in CallType
  BY DEF CallType
<1>7. ASSUME NEW x \in {"idle", "waiting"} PROVE [k EXCEPT !.user = x] \in CallType
  BY DEF CallType
<1>8. ASSUME NEW x \in {"end", "error", "cancelled"} PROVE [k EXCEPT !.seen = x] \in CallType
  BY DEF CallType
<1>9. ASSUME NEW q \in Seq({"frame", "none", "error"}) PROVE [k EXCEPT !.queue = q] \in CallType
  BY DEF CallType
<1>10. QED
  BY <1>1, <1>2, <1>3, <1>4, <1>5, <1>6, <1>7, <1>8, <1>9

LEMMA SettleKin ==
    ASSUME NEW k \in CallType, NEW o \in Outcomes
    PROVE  /\ Kin(Resolve(k, o), k) /\ Resolve(k, o).listed = k.listed
           /\ Kin(Settle(k, o), k) /\ Settle(k, o).listed = k.listed
<1>1. ASSUME NEW j \in CallType
      PROVE  Kin(Resolve(j, o), j) /\ Resolve(j, o).listed = j.listed
  <2> DEFINE r == [j EXCEPT !.outcome = o]
  <2>1. r \in CallType
    BY FieldTypes
  <2>2. Kin(r, j) /\ r.listed = j.listed
    BY <2>1 DEF Kin, CallType
  <2>3. Kin(j, j)
    BY DEF Kin
  <2> HIDE DEF r
  <2>4. QED
    BY <2>2, <2>3 DEF Resolve, r
<1> DEFINE a == [k EXCEPT !.awaiting = FALSE]
<1>0. a \in CallType
  BY FieldTypes
<1>2. a \in CallType /\ Kin(a, k) /\ a.listed = k.listed
  BY <1>0 DEF Kin, CallType
<1> HIDE DEF a
<1>3. Kin(Resolve(a, o), k) /\ Resolve(a, o).listed = k.listed
  BY <1>1, <1>2 DEF Kin
<1>4. Kin(k, k)
  BY DEF Kin
<1>5. QED
  BY <1>1, <1>3, <1>4 DEF Settle, a

LEMMA StopKin ==
    ASSUME NEW k \in CallType
    PROVE  StopWatchers(k) \in CallType /\ Kin(StopWatchers(k), k)
<1> DEFINE Stopped(w) == IF w = "waiting" THEN "over" ELSE w
           u == [k EXCEPT !.expiry = Stopped(k.expiry), !.watch = Stopped(k.watch)]
<1>1. StopWatchers(k) = u
  BY DEF StopWatchers
<1>2. Stopped(k.expiry) \in Watcher \ {"waiting"} /\ Stopped(k.watch) \in Watcher \ {"waiting"}
  BY DEF CallType, Watcher
<1> HIDE DEF Stopped
<1>3. u \in CallType
  BY <1>2 DEF CallType
<1>4. Kin(u, k)
  BY <1>2, <1>3 DEF Kin, CallType
<1>5. QED
  BY <1>1, <1>3, <1>4

LEMMA FinishKin ==
    ASSUME NEW k \in CallType, NEW o \in Outcomes
    PROVE  Kin(FinishCall(StopWatchers(k), o), k) /\ ~FinishCall(StopWatchers(k), o).listed
<1>1. StopWatchers(k) \in CallType /\ Kin(StopWatchers(k), k)
  BY StopKin
<1> DEFINE w == StopWatchers(k)
           l == [w EXCEPT !.listed = FALSE]
<1> HIDE DEF w
<1>0. w \in CallType /\ l \in CallType
  BY <1>1, FieldTypes DEF w
<1>2. l \in CallType /\ Kin(l, w) /\ ~l.listed
  BY <1>0 DEF Kin, CallType
<1>3. FinishCall(w, o) = Resolve(l, o)
  BY DEF FinishCall
<1> HIDE DEF l
<1>4. Kin(Resolve(l, o), l) /\ Resolve(l, o).listed = l.listed
  BY <1>2, SettleKin
<1>5. QED
  BY <1>1, <1>2, <1>3, <1>4 DEF Kin, w

LEMMA AbandonKin ==
    ASSUME NEW k \in CallType
    PROVE  Kin(Abandon(k), k) /\ ~Abandon(k).listed
<1> DEFINE l == [k EXCEPT !.listed = FALSE]
           s == [l EXCEPT !.awaiting = TRUE, !.cancel = "sending"]
<1>0. l \in CallType
  BY FieldTypes
<1>1. l \in CallType /\ Kin(l, k) /\ ~l.listed
  BY <1>0 DEF Kin, CallType
<1>2. Abandon(k) \in {l, s, Resolve(l, "connection_closed")}
  BY DEF Abandon
<1> HIDE DEF l
<1>3. Kin(s, l) /\ ~s.listed
  <2>1. s \in CallType
    <3> DEFINE m == [l EXCEPT !.awaiting = TRUE]
    <3>1. m \in CallType
      BY <1>1, FieldTypes
    <3>2. s = [m EXCEPT !.cancel = "sending"]
      BY <1>1 DEF CallType
    <3> HIDE DEF m
    <3>3. QED
      BY <3>1, <3>2, FieldTypes
  <2>2. QED
    BY <1>1, <2>1 DEF Kin, CallType
<1>4. Kin(Resolve(l, "connection_closed"), l) /\ ~Resolve(l, "connection_closed").listed
  BY <1>1, SettleKin DEF Outcomes
<1> HIDE DEF s
<1>5. QED
  BY <1>1, <1>2, <1>3, <1>4 DEF Kin

\* A call that runs, whatever has become of its entry in _pending.
Running(k) ==
    /\ k \in CallType /\ Live(k) /\ ~k.closed /\ ~k.terminal /\ k.failure = "none"
    /\ Frames(k.queue) /\ k.taken + Len(k.queue) <= k.sent /\ k.seen = "nothing"
    /\ "waiting" \in {k.expiry, k.watch, k.user} => k.pc = "open"

LEMMA QueueType ==
    ASSUME NEW k \in CallType
    PROVE  k.queue \in Seq({"frame", "none", "error"}) /\ Len(k.queue) \in Nat
           /\ k.sent \in 0..MaxFrames /\ k.taken \in 0..MaxFrames
BY DEF CallType

LEMMA FailOK ==
    ASSUME NEW k, Running(k), NEW o \in Outcomes, NEW preserve \in BOOLEAN
    PROVE  CallOK(Fail(k, o, preserve)) /\ ~Fail(k, o, preserve).listed
<1> DEFINE c == [k EXCEPT !.closed = TRUE]
           f == FinishCall(StopWatchers(c), o)
           q == IF preserve THEN f.queue ELSE <<>>
           marked == [f EXCEPT !.queue = Append(q, "error"), !.failure = "none"]
           aside == [f EXCEPT !.queue = q, !.failure = "lost"]
<1>1. /\ c \in CallType /\ c.closed /\ c.pc = k.pc /\ c.terminal = k.terminal
      /\ c.failure = k.failure /\ c.queue = k.queue /\ c.user = k.user /\ c.seen = k.seen
      /\ c.cause = k.cause /\ c.answer = k.answer /\ c.sent = k.sent /\ c.taken = k.taken
      /\ c.expiry = k.expiry /\ c.watch = k.watch
  BY DEF Running, CallType
<1>2. Fail(k, o, preserve) = IF Len(q) < BufferSize THEN marked ELSE aside
  BY DEF Fail, Running
<1> HIDE DEF c
<1>3. Kin(f, c) /\ ~f.listed
  BY <1>1, FinishKin
<1> HIDE DEF f
<1>4. /\ f \in CallType /\ f.closed /\ Live(f) /\ ~f.terminal /\ f.seen = "nothing"
      /\ f.queue = k.queue /\ f.taken = k.taken /\ f.sent = k.sent
      /\ "waiting" \in {f.expiry, f.watch, f.user} => f.pc = "open"
  BY <1>1, <1>3 DEF Kin, Running, Live
<1>5. /\ k.queue \in Seq({"frame", "none", "error"}) /\ Len(k.queue) \in Nat
      /\ k.sent \in Nat /\ k.taken \in Nat
      /\ Frames(k.queue) /\ k.taken + Len(k.queue) <= k.sent
  BY QueueType, RpcCallsAssumption DEF Running
<1>6. /\ q \in Seq({"frame", "none", "error"}) /\ Len(q) \in Nat /\ Frames(q)
      /\ k.taken + Len(q) <= k.sent
  BY <1>4, <1>5 DEF Frames
<1> HIDE DEF q
<1>7. CASE Len(q) < BufferSize
  <2>1. /\ Append(q, "error") \in Seq({"frame", "none", "error"})
        /\ Len(Append(q, "error")) = Len(q) + 1 /\ Append(q, "error")[Len(q) + 1] = "error"
        /\ \A j \in 1..Len(q) : Append(q, "error")[j] = "frame"
        /\ Append(q, "error") # <<>>
    BY <1>6 DEF Frames
  <2>2. /\ marked \in CallType /\ marked.queue = Append(q, "error") /\ marked.closed
        /\ marked.pc = f.pc /\ ~marked.terminal /\ marked.seen = "nothing"
        /\ marked.taken = k.taken /\ marked.sent = k.sent /\ ~marked.listed
        /\ marked.expiry = f.expiry /\ marked.watch = f.watch /\ marked.user = f.user
    BY <1>3, <1>4, <2>1 DEF CallType
  <2> HIDE DEF marked
  <2>3. Marked(marked)
    BY <1>5, <1>6, <2>1, <2>2 DEF Marked
  <2>4. CallOK(marked)
    BY <1>4, <2>2, <2>3 DEF CallOK, Live
  <2>5. QED
    BY <1>2, <1>7, <2>2, <2>4
<1>8. CASE ~(Len(q) < BufferSize)
  <2>1. /\ aside \in CallType /\ aside.queue = q /\ aside.failure = "lost" /\ aside.closed
        /\ aside.pc = f.pc /\ ~aside.terminal /\ aside.seen = "nothing"
        /\ aside.taken = k.taken /\ aside.sent = k.sent /\ ~aside.listed
        /\ aside.expiry = f.expiry /\ aside.watch = f.watch /\ aside.user = f.user
    BY <1>3, <1>4, <1>6 DEF CallType
  <2> HIDE DEF aside
  <2>2. Marked(aside)
    BY <1>6, <2>1 DEF Marked
  <2>3. CallOK(aside)
    BY <1>4, <2>1, <2>2 DEF CallOK, Live
  <2>4. QED
    BY <1>2, <1>8, <2>1, <2>3
<1>9. QED
  BY <1>7, <1>8

LEMMA ClosedType ==
    ASSUME NEW k \in CallType, NEW why \in {"owner", "parent", "deadline"},
           NEW q \in Seq({"frame", "none", "error"})
    PROVE  [k EXCEPT !.closed = TRUE, !.queue = q, !.cause = why] \in CallType
<1> DEFINE a == [k EXCEPT !.cause = why]
           b == [a EXCEPT !.queue = q]
<1>1. a \in CallType
  BY FieldTypes
<1>2. [k EXCEPT !.closed = TRUE, !.queue = q, !.cause = why] = [b EXCEPT !.closed = TRUE]
  BY DEF CallType
<1> HIDE DEF a
<1>3. b \in CallType
  BY <1>1, FieldTypes
<1> HIDE DEF b
<1>4. [b EXCEPT !.closed = TRUE] \in CallType
  BY <1>3, FieldTypes
<1>5. QED
  BY <1>2, <1>4

\* What _close_and_cancel leaves of a call that was running.
LEMMA CloseResult ==
    ASSUME NEW k \in CallType, ~k.closed, ~k.terminal,
           NEW why \in {"owner", "parent", "deadline"}
    PROVE  LET u == CloseAndCancel(k, why)
           IN  /\ u \in CallType /\ u.closed /\ ~u.terminal /\ ~u.listed
               /\ u.queue = <<"none">> /\ u.cause = why
               /\ u.pc = k.pc /\ u.failure = k.failure /\ u.user = k.user /\ u.seen = k.seen
               /\ u.answer = k.answer /\ u.sent = k.sent /\ u.taken = k.taken
               /\ u.expiry = "waiting" => k.expiry = "waiting"
               /\ u.watch = "waiting" => k.watch = "waiting"
<1> DEFINE c == [k EXCEPT !.closed = TRUE, !.queue = <<"none">>, !.cause = why]
           w == StopWatchers(c)
<1>1. /\ c \in CallType /\ c.closed /\ ~c.terminal /\ c.queue = <<"none">> /\ c.cause = why
      /\ c.pc = k.pc /\ c.failure = k.failure /\ c.user = k.user /\ c.seen = k.seen
      /\ c.answer = k.answer /\ c.sent = k.sent /\ c.taken = k.taken
      /\ c.expiry = k.expiry /\ c.watch = k.watch
  <2>1. <<"none">> \in Seq({"frame", "none", "error"})
    OBVIOUS
  <2>2. c \in CallType
    BY <2>1, ClosedType
  <2>3. QED
    BY <2>2 DEF CallType
<1>2. CloseAndCancel(k, why) = Abandon(w)
  BY DEF CloseAndCancel
<1> HIDE DEF c
<1>3. w \in CallType /\ Kin(w, c)
  BY <1>1, StopKin
<1> HIDE DEF w
<1>4. Kin(Abandon(w), w) /\ ~Abandon(w).listed
  BY <1>3, AbandonKin
<1>5. QED
  BY <1>1, <1>2, <1>3, <1>4 DEF Kin

LEMMA CloseOK ==
    ASSUME NEW k \in CallType, Live(k), ~k.closed, ~k.terminal, k.seen = "nothing",
           k.taken <= k.sent, "waiting" \in {k.expiry, k.watch, k.user} => k.pc = "open",
           NEW why \in {"owner", "parent", "deadline"},
           why \in {"owner", "parent"} \/ k.failure # "none"
    PROVE  CallOK(CloseAndCancel(k, why))
<1> DEFINE u == CloseAndCancel(k, why)
<1>1. /\ u \in CallType /\ u.closed /\ ~u.terminal /\ ~u.listed
      /\ u.queue = <<"none">> /\ u.cause = why
      /\ u.pc = k.pc /\ u.failure = k.failure /\ u.user = k.user /\ u.seen = k.seen
      /\ u.answer = k.answer /\ u.sent = k.sent /\ u.taken = k.taken
      /\ u.expiry = "waiting" => k.expiry = "waiting"
      /\ u.watch = "waiting" => k.watch = "waiting"
  BY CloseResult
<1> HIDE DEF u
<1>2. Marked(u)
  BY <1>1 DEF Marked, Wanted
<1>3. QED
  BY <1>1, <1>2 DEF CallOK, Live, u

\* The consumer's iteration ends with an error or a cancellation.
LEMMA EndedType ==
    ASSUME NEW k \in CallType, NEW how \in {"end", "error", "cancelled"}
    PROVE  /\ Ended(k, how) \in CallType
           /\ Ended(k, how).user = "idle" /\ Ended(k, how).seen = how
           /\ Ended(k, how).pc = k.pc /\ Ended(k, how).closed = k.closed
           /\ Ended(k, how).terminal = k.terminal /\ Ended(k, how).listed = k.listed
           /\ Ended(k, how).queue = k.queue /\ Ended(k, how).failure = k.failure
           /\ Ended(k, how).cause = k.cause /\ Ended(k, how).answer = k.answer
           /\ Ended(k, how).sent = k.sent /\ Ended(k, how).taken = k.taken
           /\ Ended(k, how).expiry = k.expiry /\ Ended(k, how).watch = k.watch
<1> DEFINE i == [k EXCEPT !.user = "idle"]
<1>1. i \in CallType
  BY FieldTypes
<1>2. Ended(k, how) = [i EXCEPT !.seen = how]
  BY DEF Ended, CallType
<1>3. /\ i.user = "idle" /\ i.pc = k.pc /\ i.closed = k.closed /\ i.terminal = k.terminal
      /\ i.listed = k.listed /\ i.queue = k.queue /\ i.failure = k.failure
      /\ i.cause = k.cause /\ i.answer = k.answer /\ i.sent = k.sent /\ i.taken = k.taken
      /\ i.expiry = k.expiry /\ i.watch = k.watch
  BY DEF CallType
<1> HIDE DEF i
<1>4. Ended(k, how) \in CallType
  BY <1>1, <1>2, FieldTypes, ZenonT(60)
<1>5. QED
  BY <1>1, <1>2, <1>3, <1>4 DEF CallType

LEMMA EndedOK ==
    ASSUME NEW k, CallOK(k), k.pc = "open", k.seen = "nothing",
           NEW how \in {"error", "cancelled"}, NEW why \in {"owner", "deadline"}
    PROVE  CallOK(Ended(CloseAndCancel(k, why), how))
<1>1. k \in CallType
  BY DEF CallOK
<1>2. CASE k.closed \/ k.terminal
  <2>1. CloseAndCancel(k, why) = k
    BY <1>2 DEF CloseAndCancel
  <2>2. QED
    BY <1>1, <1>2, <2>1, EndedType DEF CallOK, Live, Wanted
<1>3. CASE ~k.closed /\ ~k.terminal
  <2> DEFINE u == CloseAndCancel(k, why)
  <2>1. /\ u \in CallType /\ u.closed /\ ~u.terminal /\ ~u.listed
        /\ u.pc = k.pc
    BY <1>1, <1>3, CloseResult
  <2> HIDE DEF u
  <2>2. CallOK(Ended(u, how))
    BY <2>1, EndedType DEF CallOK, Live, Wanted
  <2>3. QED
    BY <2>2 DEF u
<1>4. QED
  BY <1>2, <1>3 DEF CallOK, CallType

LEMMA TailFrames ==
    ASSUME NEW s, NEW q, Len(s) \in Nat \ {0}, Len(q) = Len(s) - 1,
           \A j \in 1..Len(q) : q[j] = s[j + 1]
    PROVE  /\ Frames(s) => Frames(q)
           /\ s[1] = "frame" /\ s[Len(s)] = "error"
              /\ (\A j \in 1..(Len(s) - 1) : s[j] = "frame") =>
                  Len(q) # 0 /\ q[Len(q)] = "error" /\ \A j \in 1..(Len(q) - 1) : q[j] = "frame"
<1>1. \A j \in 1..Len(q) : j + 1 \in 1..Len(s)
  OBVIOUS
<1>2. \A j \in 1..(Len(q) - 1) : j \in 1..Len(q) /\ j + 1 \in 1..(Len(s) - 1)
  OBVIOUS
<1>3. Frames(s) => Frames(q)
  BY <1>1 DEF Frames
<1>4. ASSUME s[1] = "frame", s[Len(s)] = "error",
             \A j \in 1..(Len(s) - 1) : s[j] = "frame"
      PROVE  Len(q) # 0 /\ q[Len(q)] = "error" /\ \A j \in 1..(Len(q) - 1) : q[j] = "frame"
  <2>1. Len(q) # 0
    BY <1>4
  <2>2. Len(q) \in 1..Len(q) /\ Len(q) + 1 = Len(s)
    BY <2>1
  <2>3. q[Len(q)] = "error"
    BY <1>4, <2>2
  <2>4. QED
    BY <1>2, <1>4, <2>1, <2>3
<1>5. QED
  BY <1>3, <1>4

LEMMA PoppedOK ==
    ASSUME NEW k, CallOK(k), k.pc = "open", k.seen = "nothing", k.queue # <<>>
    PROVE  CallOK(Popped(k))
<1> DEFINE q == Tail(k.queue)
           p == [k EXCEPT !.queue = q, !.user = "idle"]
<1>1. /\ k \in CallType /\ k.queue \in Seq({"frame", "none", "error"}) /\ Len(k.queue) \in Nat \ {0}
      /\ q \in Seq({"frame", "none", "error"}) /\ Len(q) = Len(k.queue) - 1
      /\ \A j \in 1..Len(q) : q[j] = k.queue[j + 1]
      /\ Head(k.queue) = k.queue[1] /\ Head(k.queue) \in {"frame", "none", "error"}
      /\ k.sent \in 0..MaxFrames /\ k.taken \in 0..MaxFrames /\ Live(k)
  BY QueueType DEF CallOK, Live
<1> HIDE DEF q
<1>2. p \in CallType
  BY <1>1 DEF CallType
<1>3. /\ p.queue = q /\ p.user = "idle" /\ p.pc = "open" /\ p.seen = "nothing"
      /\ p.closed = k.closed /\ p.terminal = k.terminal /\ p.listed = k.listed
      /\ p.failure = k.failure /\ p.cause = k.cause /\ p.answer = k.answer
      /\ p.sent = k.sent /\ p.taken = k.taken
      /\ p.expiry = k.expiry /\ p.watch = k.watch
  BY <1>1 DEF CallType
<1> HIDE DEF p
<1>4. CASE Head(k.queue) = "frame"
  <2>1. k.taken + 1 <= k.sent
    BY <1>1, <1>4, RpcCallsAssumption, SMTT(30) DEF CallOK, Marked
  <2>2. k.taken + 1 \in 0..MaxFrames
    BY <1>1, <2>1, RpcCallsAssumption
  <2> DEFINE u == [p EXCEPT !.taken = @ + 1]
  <2>3. u \in CallType
    BY <1>2, <1>3, <2>2 DEF CallType
  <2>4. /\ u.queue = q /\ u.user = "idle" /\ u.pc = "open" /\ u.seen = "nothing"
        /\ u.closed = k.closed /\ u.terminal = k.terminal /\ u.listed = k.listed
        /\ u.failure = k.failure /\ u.cause = k.cause /\ u.answer = k.answer
        /\ u.sent = k.sent /\ u.taken = k.taken + 1
        /\ u.expiry = k.expiry /\ u.watch = k.watch
    BY <1>2, <1>3 DEF CallType
  <2>5. Popped(k) = u
    BY <1>4 DEF Popped, p, q
  <2> HIDE DEF u
  <2>6. CASE ~k.closed
    <3>1. Frames(u.queue) /\ u.taken + Len(u.queue) = u.sent
      <4>1. Frames(k.queue) /\ k.taken + Len(k.queue) = k.sent
        BY <1>1, <2>6 DEF CallOK
      <4>2. Frames(q)
        BY <1>1, <4>1, TailFrames
      <4>3. k.taken + 1 + Len(q) = k.sent
        BY <1>1, <4>1
      <4>4. QED
        BY <2>4, <4>2, <4>3
    <3>2. QED
      BY <2>3, <2>4, <2>5, <2>6, <3>1 DEF CallOK, Live
  <2>7. CASE k.closed
    <3>1. Marked(k)
      BY <1>1, <2>7 DEF CallOK
    <3>2. Marked(u)
      <4>1. CASE /\ k.queue[Len(k.queue)] = "error"
                 /\ \A j \in 1..(Len(k.queue) - 1) : k.queue[j] = "frame"
                 /\ k.taken + Len(k.queue) <= k.sent + 1
        <5>1. Len(q) # 0 /\ q[Len(q)] = "error" /\ \A j \in 1..(Len(q) - 1) : q[j] = "frame"
          <6>1. k.queue[1] = "frame"
            BY <1>1, <1>4
          <6> DEFINE s == k.queue
          <6>2. Len(s) \in Nat \ {0} /\ Len(q) = Len(s) - 1 /\ \A j \in 1..Len(q) : q[j] = s[j + 1]
            BY <1>1
          <6>3. s[1] = "frame" /\ s[Len(s)] = "error" /\ \A j \in 1..(Len(s) - 1) : s[j] = "frame"
            BY <4>1, <6>1
          <6> HIDE DEF s
          <6>4. QED
            BY <6>2, <6>3, TailFrames
        <5>2. q # <<>> /\ q[Len(q)] = "error" /\ \A j \in 1..(Len(q) - 1) : q[j] = "frame"
          BY <5>1
        <5>3. u.taken + Len(q) <= u.sent + 1
          BY <1>1, <2>4, <4>1
        <5>4. QED
          BY <2>4, <5>2, <5>3 DEF Marked
      <4>2. CASE k.failure # "none" /\ Frames(k.queue) /\ k.taken + Len(k.queue) <= k.sent
        <5>1. Frames(q)
          BY <1>1, <4>2, TailFrames
        <5>3. u.taken + Len(q) <= u.sent
          BY <1>1, <2>4, <4>2
        <5>2. QED
          BY <2>4, <4>2, <5>1, <5>3 DEF Marked
      <4>3. k.queue # <<"none">>
        BY <1>4
      <4>4. QED
        BY <3>1, <4>1, <4>2, <4>3 DEF Marked
    <3>3. QED
      BY <2>3, <2>4, <2>5, <2>7, <3>2 DEF CallOK, Live
  <2>8. QED
    BY <2>6, <2>7 DEF CallOK, CallType
\* The mark: only a closed call has one.
<1>5. CASE Head(k.queue) \in {"none", "error"}
  <2> DEFINE m == [p EXCEPT !.closed = TRUE, !.failure = "none"]
             how == IF Head(k.queue) = "none" /\ k.failure = "none" THEN "end" ELSE "error"
  <2>1. k.closed
    BY <1>1, <1>5 DEF CallOK, Frames, CallType
  <2>2. m \in CallType
    BY <1>2 DEF CallType
  <2>3. m.closed /\ m.pc = "open" /\ m.terminal = k.terminal /\ m.listed = k.listed /\ m.cause = k.cause
    BY <1>2, <1>3 DEF CallType
  <2>4. Popped(k) = Ended(m, how)
    BY <1>1, <1>5 DEF Popped, p, q
  <2>5. how = "end" => Wanted(k)
    BY <1>1, <1>5, <2>1 DEF CallOK, Marked, Frames
  <2>6. ~k.terminal /\ ~k.listed
    BY <1>1, <2>1 DEF CallOK
  <2>7. how \in {"end", "error"}
    OBVIOUS
  <2> HIDE DEF m, how
  <2>8. QED
    BY <2>2, <2>3, <2>4, <2>5, <2>6, <2>7, EndedType DEF CallOK, Live, Wanted
<1>6. QED
  BY <1>1, <1>4, <1>5

------------------------------------------------------------------------------
(* The steps of a call.                                                      *)

CallsInv ==
    /\ call \in [Calls -> CallType]
    /\ \A c \in Calls : CallOK(call[c])

LEMMA BecomesKeeps ==
    ASSUME CallsInv, NEW c \in Calls, NEW k, CallOK(k), Becomes(c, k)
    PROVE  CallsInv'
BY DEF CallsInv, Becomes, CallOK

LEMMA RunningCall ==
    ASSUME NEW k, CallOK(k), Live(k), ~k.closed, ~k.terminal
    PROVE  Running(k) /\ k.taken <= k.sent /\ k.listed
<1>1. k.taken + Len(k.queue) = k.sent /\ Len(k.queue) \in Nat /\ k.taken \in Nat /\ k.sent \in Nat
  BY QueueType, RpcCallsAssumption DEF CallOK
<1>2. k.seen = "nothing"
  BY DEF CallOK
<1>3. QED
  BY <1>1, <1>2 DEF Running, CallOK

LEMMA OpeningKeeps ==
    ASSUME CallsInv, SessionTypeOK, NEW c \in Calls,
           \/ \E p \in {NoParent} \cup Parents : OpenCall(c, p)
           \/ CallOpened(c) \/ OpenFailed(c)
    PROVE  CallsInv'
<1> DEFINE k == call[c]
<1>1. k \in CallType /\ CallOK(k)
  BY DEF CallsInv
<1>2. ASSUME NEW p \in {NoParent} \cup Parents, OpenCall(c, p)
      PROVE  CallsInv'
  <2> DEFINE a == [k EXCEPT !.pc = "opening", !.listed = TRUE, !.answer = "streaming"]
             u == [a EXCEPT !.at = generation, !.parent = p]
  <2>0. a \in CallType
    <3>1. \A j \in CallType : [j EXCEPT !.pc = "opening"] \in CallType
      BY DEF CallType
    <3>2. \A j \in CallType : [j EXCEPT !.listed = TRUE] \in CallType
      BY ZenonT(60) DEF CallType
    <3>3. \A j \in CallType : [j EXCEPT !.answer = "streaming"] \in CallType
      BY DEF CallType
    <3>4. a = [[[k EXCEPT !.pc = "opening"] EXCEPT !.listed = TRUE] EXCEPT !.answer = "streaming"]
      BY <1>1 DEF CallType
    <3>5. QED
      BY <1>1, <3>1, <3>2, <3>3, <3>4
  <2>1. /\ a \in CallType /\ a.pc = "opening" /\ a.listed /\ a.answer = "streaming"
        /\ a.closed = k.closed /\ a.terminal = k.terminal /\ a.failure = k.failure
        /\ a.queue = k.queue /\ a.user = k.user /\ a.seen = k.seen /\ a.cause = k.cause
        /\ a.sent = k.sent /\ a.taken = k.taken
        /\ a.expiry = k.expiry /\ a.watch = k.watch
    <3>1. k \in CallType
      BY <1>1
    <3>2. /\ a.pc = "opening" /\ a.listed /\ a.answer = "streaming"
          /\ a.closed = k.closed /\ a.terminal = k.terminal /\ a.failure = k.failure
      BY <3>1 DEF CallType
    <3>3. /\ a.queue = k.queue /\ a.user = k.user /\ a.seen = k.seen /\ a.cause = k.cause
      BY <3>1 DEF CallType
    <3>4. /\ a.sent = k.sent /\ a.taken = k.taken
          /\ a.expiry = k.expiry /\ a.watch = k.watch
      BY <3>1 DEF CallType
    <3>5. QED
      BY <2>0, <3>2, <3>3, <3>4
  <2>2. Becomes(c, u) /\ k.pc = "idle"
    BY <1>1, <1>2 DEF OpenCall, CallType
  <2> HIDE DEF a
  <2>3. u \in CallType
    <3>1. generation \in 0..MaxGeneration
      BY SessionAssumption DEF SessionTypeOK
    <3>2. QED
      BY <2>1, <3>1 DEF CallType
  <2>4. Kin(u, a) /\ u.listed = a.listed
    BY <2>1, <2>3 DEF Kin, CallType
  <2>5. CallOK(a)
    <3>1. Frames(<<>>) /\ 0 + Len(<<>>) = 0
      BY DEF Frames
    <3>2. QED
      BY <1>1, <2>1, <2>2, <3>1 DEF CallOK, Live
  <2> HIDE DEF u
  <2>6. QED
    BY <2>2, <2>4, <2>5, KinOK, BecomesKeeps
<1>3. CASE CallOpened(c)
  <2> DEFINE w == IF k.parent = NoParent THEN "none" ELSE "waiting"
             u == [k EXCEPT !.pc = "open", !.expiry = "waiting", !.watch = w]
  <2>1. w \in Watcher
    BY DEF Watcher
  <2>2. Becomes(c, u) /\ k.pc = "opening"
    BY <1>3 DEF CallOpened
  <2> HIDE DEF w
  <2>3. u \in CallType
    <3>1. \A j \in CallType : [j EXCEPT !.pc = "open"] \in CallType
      BY DEF CallType
    <3>2. \A j \in CallType : [j EXCEPT !.expiry = "waiting"] \in CallType
      BY DEF CallType, Watcher
    <3>3. \A j \in CallType : [j EXCEPT !.watch = w] \in CallType
      BY <2>1 DEF CallType
    <3>4. u = [[[k EXCEPT !.pc = "open"] EXCEPT !.expiry = "waiting"] EXCEPT !.watch = w]
      BY <1>1 DEF CallType
    <3>5. QED
      BY <1>1, <3>1, <3>2, <3>3, <3>4
  <2>4. /\ u.pc = "open" /\ u.listed = k.listed /\ u.answer = k.answer
        /\ u.closed = k.closed /\ u.terminal = k.terminal /\ u.failure = k.failure
        /\ u.queue = k.queue /\ u.user = k.user /\ u.seen = k.seen /\ u.cause = k.cause
        /\ u.sent = k.sent /\ u.taken = k.taken
    BY <1>1 DEF CallType
  <2> HIDE DEF u
  <2>5. CallOK(u)
    BY <1>1, <2>2, <2>3, <2>4 DEF CallOK, Live, Marked, Wanted
  <2>6. QED
    BY <2>2, <2>5, BecomesKeeps
<1>4. CASE OpenFailed(c)
  <2> DEFINE u == [k EXCEPT !.pc = "failed", !.listed = FALSE]
  <2>1. Becomes(c, u) /\ k.pc = "opening"
    BY <1>4 DEF OpenFailed
  <2>2. u \in CallType
    BY <1>1 DEF CallType
  <2>3. /\ u.pc = "failed" /\ ~u.listed /\ u.answer = k.answer
        /\ u.closed = k.closed /\ u.terminal = k.terminal
        /\ u.user = k.user /\ u.seen = k.seen /\ u.expiry = k.expiry /\ u.watch = k.watch
    BY <1>1 DEF CallType
  <2> HIDE DEF u
  <2>4. CallOK(u)
    BY <1>1, <2>1, <2>2, <2>3 DEF CallOK, Live
  <2>5. QED
    BY <2>1, <2>4, BecomesKeeps
<1>5. QED
  BY <1>2, <1>3, <1>4

LEMMA PushOK ==
    ASSUME NEW k, Running(k), k.listed, k.taken + Len(k.queue) + 1 = k.sent,
           NEW end \in BOOLEAN, end => k.answer = "ended"
    PROVE  CallOK(Push(k, end))
<1>1. /\ k \in CallType /\ k.queue \in Seq({"frame", "none", "error"}) /\ Len(k.queue) \in Nat
      /\ k.sent \in Nat /\ k.taken \in Nat /\ Frames(k.queue) /\ Live(k) /\ ~k.closed
      /\ ~k.terminal /\ k.failure = "none" /\ k.seen = "nothing"
      /\ "waiting" \in {k.expiry, k.watch, k.user} => k.pc = "open"
  BY QueueType, RpcCallsAssumption DEF Running
<1>2. CASE Len(k.queue) = BufferSize
  BY <1>1, <1>2, FailOK DEF Push, Outcomes
<1>3. CASE Len(k.queue) # BufferSize
  <2> DEFINE q == Append(k.queue, "frame")
             p == [k EXCEPT !.queue = q]
             t == [p EXCEPT !.terminal = TRUE]
  <2>1. /\ q \in Seq({"frame", "none", "error"}) /\ Len(q) = Len(k.queue) + 1 /\ Frames(q)
    BY <1>1 DEF Frames
  <2>2. Push(k, end) = IF end THEN FinishCall(StopWatchers(t), "not_requested") ELSE p
    BY <1>1, <1>3 DEF Push
  <2> HIDE DEF q
  <2>3. p \in CallType
    BY <1>1, <2>1, FieldTypes
  <2>4. /\ p.queue = q /\ p.pc = k.pc /\ p.listed = k.listed /\ p.closed = k.closed
        /\ p.terminal = k.terminal /\ p.failure = k.failure /\ p.user = k.user
        /\ p.seen = k.seen /\ p.cause = k.cause /\ p.answer = k.answer /\ p.sent = k.sent
        /\ p.taken = k.taken /\ p.expiry = k.expiry /\ p.watch = k.watch
    BY <1>1, <2>1 DEF CallType
  <2> HIDE DEF p
  <2>5. p.taken + Len(p.queue) = p.sent
    <3>1. Len(q) = Len(k.queue) + 1 /\ k.taken + Len(k.queue) + 1 = k.sent
      BY <2>1
    <3>2. p.taken = k.taken /\ Len(p.queue) = Len(q) /\ p.sent = k.sent
      BY <2>4
    <3>3. QED
      BY <1>1, <3>1, <3>2
  <2>6. CASE ~end
    <3>1. CallOK(p)
      BY <1>1, <2>1, <2>3, <2>4, <2>5 DEF CallOK, Live
    <3>2. QED
      BY <2>2, <2>6, <3>1
  <2>7. CASE end
    <3>1. /\ t \in CallType /\ t.terminal /\ t.queue = p.queue /\ t.pc = p.pc
          /\ t.closed = p.closed /\ t.failure = p.failure /\ t.user = p.user
          /\ t.seen = p.seen /\ t.cause = p.cause /\ t.answer = p.answer /\ t.sent = p.sent
          /\ t.taken = p.taken /\ t.expiry = p.expiry /\ t.watch = p.watch
      BY <2>3 DEF CallType
    <3> HIDE DEF t
    <3> DEFINE f == FinishCall(StopWatchers(t), "not_requested")
    <3>2. Kin(f, t) /\ ~f.listed
      BY <3>1, FinishKin DEF Outcomes
    <3> HIDE DEF f
    <3>3. CallOK(f)
      BY <1>1, <2>1, <2>4, <2>5, <2>7, <3>1, <3>2 DEF CallOK, Kin, Live
    <3>4. QED
      BY <2>2, <2>7, <3>3 DEF f
  <2>8. QED
    BY <2>6, <2>7
<1>4. QED
  BY <1>2, <1>3

LEMMA ResponseKeeps ==
    ASSUME CallsInv, NEW c \in Calls, NEW kind \in {"frame", "end", "error"}, Response(c, kind)
    PROVE  CallsInv'
<1> DEFINE k == call[c]
           n == IF kind = "error" THEN k.sent ELSE k.sent + 1
           ans == IF kind = "frame" THEN k.answer ELSE "ended"
           r == [k EXCEPT !.sent = n, !.answer = ans]
<1>1. /\ k \in CallType /\ CallOK(k) /\ k.answer = "streaming" /\ k.sent < MaxFrames
      /\ k.listed \/ ~(k.closed \/ k.terminal)
      /\ k.sent \in Nat /\ k.taken \in Nat /\ Len(k.queue) \in Nat
  BY QueueType, RpcCallsAssumption DEF CallsInv, Response
<1>2. Becomes(c, OnResponse(r, kind))
  BY DEF Response
<1>3. n \in 0..MaxFrames /\ n >= k.sent /\ ans \in {"streaming", "ended"}
      /\ (kind # "error" => n = k.sent + 1)
  BY <1>1, RpcCallsAssumption
<1> HIDE DEF n, ans
<1>4. r \in CallType
  <2>1. [k EXCEPT !.sent = n] \in CallType
    BY <1>1, <1>3 DEF CallType
  <2>2. \A j \in CallType : [j EXCEPT !.answer = ans] \in CallType
    BY <1>3 DEF CallType
  <2>3. r = [[k EXCEPT !.sent = n] EXCEPT !.answer = ans]
    BY <1>1 DEF CallType
  <2>4. QED
    BY <2>1, <2>2, <2>3
<1>5. /\ r.sent = n /\ r.answer = ans /\ r.queue = k.queue /\ r.pc = k.pc
      /\ r.listed = k.listed /\ r.closed = k.closed /\ r.terminal = k.terminal
      /\ r.failure = k.failure /\ r.user = k.user /\ r.seen = k.seen /\ r.cause = k.cause
      /\ r.taken = k.taken /\ r.expiry = k.expiry /\ r.watch = k.watch
  BY <1>1 DEF CallType
<1> HIDE DEF r
<1>6. CASE ~k.listed
  <2>1. OnResponse(r, kind) = r
    BY <1>5, <1>6 DEF OnResponse
  <2>2. ~Live(k) /\ k.pc # "idle" /\ ~k.closed /\ ~k.terminal
    BY <1>1, <1>6 DEF CallOK
  <2>3. CallOK(r)
    BY <1>1, <1>4, <1>5, <1>6, <2>2 DEF CallOK, Live
  <2>4. QED
    BY <1>2, <2>1, <2>3, BecomesKeeps
<1>7. CASE k.listed
  <2>1. Live(k) /\ ~k.closed /\ ~k.terminal
    BY <1>1, <1>7 DEF CallOK, CallType
  <2>2. Running(k) /\ k.taken + Len(k.queue) = k.sent
    BY <1>1, <2>1, RunningCall DEF CallOK
  <2>3. Running(r)
    BY <1>1, <1>3, <1>4, <1>5, <2>2 DEF Running, Live
  <2>4. CASE kind = "error"
    <3> DEFINE f == Fail(r, "not_requested", TRUE)
    <3>1. CallOK(f) /\ ~f.listed
      BY <2>3, FailOK DEF Outcomes
    <3>2. OnResponse(r, kind) = [f EXCEPT !.listed = FALSE]
      BY <1>5, <1>7, <2>4 DEF OnResponse
    <3> HIDE DEF f
    <3>3. [f EXCEPT !.listed = FALSE] = f
      BY <3>1 DEF CallOK, CallType
    <3>4. QED
      BY <1>2, <3>1, <3>2, <3>3, BecomesKeeps
  <2>5. CASE kind # "error"
    <3>1. OnResponse(r, kind) = Push(r, kind = "end")
      BY <1>5, <1>7, <2>5 DEF OnResponse
    <3>2. r.taken + Len(r.queue) + 1 = r.sent
      BY <1>1, <1>3, <1>5, <2>2, <2>5
    <3>3. kind = "end" => r.answer = "ended"
      BY <1>5 DEF ans
    <3>4. CallOK(Push(r, kind = "end"))
      BY <1>5, <1>7, <2>3, <3>2, <3>3, PushOK
    <3>5. QED
      BY <1>2, <3>1, <3>4, BecomesKeeps
  <2>6. QED
    BY <2>4, <2>5
<1>8. QED
  BY <1>6, <1>7

LEMMA WatchersKeep ==
    ASSUME CallsInv, NEW c \in Calls,
           \/ DeadlinePasses(c) \/ Expire(c) \/ OwnerCloses(c)
           \/ \E b \in BOOLEAN : ParentCancelled(c, b)
    PROVE  CallsInv'
<1> DEFINE k == call[c]
<1>1. k \in CallType /\ CallOK(k)
  BY DEF CallsInv
<1>2. CASE DeadlinePasses(c)
  <2> DEFINE u == [k EXCEPT !.late = TRUE]
  <2>1. Becomes(c, u)
    BY <1>2 DEF DeadlinePasses
  <2>2. u \in CallType
    BY <1>1 DEF CallType
  <2>3. Kin(u, k) /\ u.listed = k.listed
    BY <1>1, <2>2 DEF Kin, CallType
  <2> HIDE DEF u
  <2>4. QED
    BY <1>1, <2>1, <2>3, KinOK, BecomesKeeps
<1>3. CASE Expire(c)
  <2> DEFINE e == [k EXCEPT !.expiry = "over"]
             t == [e EXCEPT !.failure = "timeout"]
  <2>1. /\ Becomes(c, IF e.closed \/ e.terminal THEN e ELSE CloseAndCancel(t, "deadline"))
        /\ k.expiry = "waiting"
    BY <1>3 DEF Expire
  <2>2. e \in CallType
    BY <1>1 DEF CallType, Watcher
  <2>3. Kin(e, k) /\ e.listed = k.listed
    BY <1>1, <2>2 DEF Kin, CallType, Watcher
  <2> HIDE DEF e
  <2>4. CallOK(e) /\ e.pc = "open"
    BY <1>1, <2>1, <2>3, KinOK DEF CallOK, Kin
  <2>5. CASE e.closed \/ e.terminal
    BY <2>1, <2>4, <2>5, BecomesKeeps
  <2>6. CASE ~(e.closed \/ e.terminal)
    <3>1. t \in CallType
      BY <2>2 DEF CallType
    <3>2. /\ t.failure = "timeout" /\ t.pc = "open" /\ ~t.closed /\ ~t.terminal
          /\ t.seen = e.seen /\ t.taken = e.taken /\ t.sent = e.sent
      BY <2>2, <2>4, <2>6 DEF CallType
    <3>3. Running(e) /\ e.taken <= e.sent
      BY <2>4, <2>6, RunningCall DEF Live
    <3> HIDE DEF t
    <3>4. CallOK(CloseAndCancel(t, "deadline"))
      BY <3>1, <3>2, <3>3, CloseOK DEF Running, Live
    <3>5. QED
      BY <2>1, <2>6, <3>4, BecomesKeeps
  <2>7. QED
    BY <2>5, <2>6
<1>4. CASE OwnerCloses(c)
  <2>1. Becomes(c, CloseAndCancel(k, "owner")) /\ k.pc = "open" /\ ~k.closed /\ ~k.terminal
    BY <1>4 DEF OwnerCloses
  <2>2. Running(k) /\ k.taken <= k.sent
    BY <1>1, <2>1, RunningCall DEF Live
  <2>3. CallOK(CloseAndCancel(k, "owner"))
    BY <1>1, <2>1, <2>2, CloseOK DEF Running
  <2>4. QED
    BY <2>1, <2>3, BecomesKeeps
<1>5. CASE \E b \in BOOLEAN : ParentCancelled(c, b)
  <2> DEFINE e == [k EXCEPT !.watch = "over"]
  <2>1. Becomes(c, CloseAndCancel(e, "parent")) /\ k.watch = "waiting"
    BY <1>5 DEF ParentCancelled
  <2>2. e \in CallType
    BY <1>1 DEF CallType, Watcher
  <2>3. Kin(e, k) /\ e.listed = k.listed
    BY <1>1, <2>2 DEF Kin, CallType, Watcher
  <2> HIDE DEF e
  <2>4. CallOK(e) /\ e.pc = "open"
    BY <1>1, <2>1, <2>3, KinOK DEF CallOK, Kin
  <2>5. CASE e.closed \/ e.terminal
    <3>1. CloseAndCancel(e, "parent") = e
      BY <2>5 DEF CloseAndCancel
    <3>2. QED
      BY <2>1, <2>4, <3>1, BecomesKeeps
  <2>6. CASE ~(e.closed \/ e.terminal)
    <3>1. Running(e) /\ e.taken <= e.sent
      BY <2>4, <2>6, RunningCall DEF Live
    <3>2. CallOK(CloseAndCancel(e, "parent"))
      BY <2>2, <2>6, <3>1, CloseOK DEF Running
    <3>3. QED
      BY <2>1, <3>2, BecomesKeeps
  <2>7. QED
    BY <2>5, <2>6
<1>6. QED
  BY <1>2, <1>3, <1>4, <1>5

LEMMA IterationKeeps ==
    ASSUME CallsInv, NEW c \in Calls,
           Iterate(c) \/ Receive(c) \/ WaitTimesOut(c) \/ WaitCancelled(c)
    PROVE  CallsInv'
<1> DEFINE k == call[c]
<1>1. k \in CallType /\ CallOK(k)
  BY DEF CallsInv
<1>2. k.user = "waiting" => k.pc = "open" /\ k.seen = "nothing"
  BY <1>1 DEF CallOK
<1>3. CASE Receive(c)
  BY <1>1, <1>2, <1>3, PoppedOK, BecomesKeeps DEF Receive
<1>4. CASE WaitTimesOut(c)
  BY <1>1, <1>2, <1>4, EndedOK, BecomesKeeps DEF WaitTimesOut
<1>5. CASE WaitCancelled(c)
  BY <1>1, <1>2, <1>5, EndedOK, BecomesKeeps DEF WaitCancelled
<1>6. CASE Iterate(c)
  <2>1. k.pc = "open" /\ k.seen = "nothing"
    BY <1>6 DEF Iterate
  <2>2. CASE k.failure # "none" /\ k.queue = <<>>
    <3> DEFINE f == [k EXCEPT !.failure = "none"]
    <3>1. Becomes(c, Ended(f, "error"))
      BY <1>6, <2>2 DEF Iterate
    <3>2. f \in CallType
      BY <1>1 DEF CallType
    <3>3. /\ f.pc = "open" /\ f.closed = k.closed /\ f.terminal = k.terminal
          /\ f.listed = k.listed /\ f.answer = k.answer /\ f.cause = k.cause
      BY <1>1, <2>1 DEF CallType
    <3>4. k.closed
      BY <1>1, <2>1, <2>2 DEF CallOK, Live
    <3> HIDE DEF f
    <3>5. CallOK(Ended(f, "error"))
      BY <1>1, <2>1, <3>2, <3>3, <3>4, EndedType, ZenonT(60) DEF CallOK, Live
    <3>6. QED
      BY <3>1, <3>5, BecomesKeeps
  <2>3. CASE ~(k.failure # "none" /\ k.queue = <<>>) /\ (k.closed \/ k.terminal) /\ k.queue = <<>>
    <3>1. Becomes(c, Ended(k, "end"))
      BY <1>6, <2>3 DEF Iterate
    <3>2. ~k.closed
      BY <1>1, <2>1, <2>3 DEF CallOK, Live, Marked
    <3>3. k.answer = "ended" /\ k.taken + Len(k.queue) = k.sent /\ Len(k.queue) = 0
      BY <1>1, <2>1, <2>3, <3>2 DEF CallOK, Live
    <3>4. k.taken = k.sent
      BY <1>1, <3>3, QueueType, RpcCallsAssumption
    <3>5. CallOK(Ended(k, "end"))
      BY <1>1, <2>1, <2>3, <3>2, <3>3, <3>4, EndedType DEF CallOK, Live
    <3>6. QED
      BY <3>1, <3>5, BecomesKeeps
  <2>4. CASE ~(k.failure # "none" /\ k.queue = <<>>) /\ ~((k.closed \/ k.terminal) /\ k.queue = <<>>)
    <3>1. CASE k.late
      BY <1>1, <1>6, <2>1, <2>4, <3>1, EndedOK, BecomesKeeps DEF Iterate
    <3>2. CASE ~k.late /\ k.queue # <<>>
      BY <1>1, <1>6, <2>1, <2>4, <3>2, PoppedOK, BecomesKeeps DEF Iterate
    <3>3. CASE ~k.late /\ k.queue = <<>>
      <4> DEFINE u == [k EXCEPT !.user = "waiting"]
      <4>1. Becomes(c, u)
        BY <1>6, <2>4, <3>3 DEF Iterate
      <4>2. u \in CallType
        BY <1>1 DEF CallType
      <4>3. /\ u.pc = "open" /\ u.closed = k.closed /\ u.terminal = k.terminal
            /\ u.failure = k.failure /\ u.queue = k.queue /\ u.seen = "nothing"
            /\ u.cause = k.cause /\ u.answer = k.answer /\ u.sent = k.sent
            /\ u.taken = k.taken /\ u.listed = k.listed
        BY <1>1, <2>1 DEF CallType
      <4>4. Marked(k) => Marked(u)
        BY <4>3 DEF Marked, Wanted
      <4> HIDE DEF u
      <4>5. CallOK(u)
        BY <1>1, <2>1, <4>2, <4>3, <4>4 DEF CallOK, Live
      <4>6. QED
        BY <4>1, <4>5, BecomesKeeps
    <3>4. QED
      BY <3>1, <3>2, <3>3
  <2>5. QED
    BY <2>2, <2>3, <2>4
<1>7. QED
  BY <1>3, <1>4, <1>5, <1>6

LEMMA CancelKeeps ==
    ASSUME CallsInv, NEW c \in Calls,
           CancelSent(c) \/ CancelRaised(c) \/ CancelAnswered(c) \/ GraceEnds(c)
    PROVE  CallsInv'
<1> DEFINE k == call[c]
           s == [k EXCEPT !.cancel = "sent"]
<1>1. k \in CallType /\ CallOK(k)
  BY DEF CallsInv
<1>2. s \in CallType
  BY <1>1 DEF CallType
<1>3. Kin(s, k) /\ s.listed = k.listed
  BY <1>1, <1>2 DEF Kin, CallType
<1>4. CancelSent(c) => Becomes(c, s)
  BY DEF CancelSent
<1>5. CancelRaised(c) => \E o \in Outcomes : Becomes(c, Settle(s, o))
  BY DEF CancelRaised, Outcomes
<1>6. CancelAnswered(c) \/ GraceEnds(c) => \E o \in Outcomes : Becomes(c, Settle(k, o))
  BY DEF CancelAnswered, GraceEnds, Outcomes
<1> HIDE DEF s
<1>7. CallOK(s)
  BY <1>1, <1>3, KinOK
<1>8. ASSUME NEW o \in Outcomes
      PROVE  CallOK(Settle(s, o)) /\ CallOK(Settle(k, o))
  BY <1>1, <1>2, <1>7, SettleKin, KinOK
<1>9. QED
  BY <1>4, <1>5, <1>6, <1>7, <1>8, BecomesKeeps

LEMMA CallsDisconnectedKeeps ==
    ASSUME CallsInv, CallsDisconnected
    PROVE  CallsInv'
<1> DEFINE F(k) == IF k.listed THEN Fail(k, "connection_closed", TRUE) ELSE k
           L(k) == [F(k) EXCEPT !.listed = FALSE]
           D(k) == Settle(L(k), "connection_closed")
<1>1. call' = [c \in Calls |-> D(call[c])]
  BY DEF CallsDisconnected
<1>2. ASSUME NEW k, CallOK(k)
      PROVE  CallOK(D(k))
  <2>1. CallOK(F(k)) /\ ~F(k).listed
    <3>1. CASE k.listed
      <4>1. Live(k) /\ ~k.closed /\ ~k.terminal
        BY <1>2, <3>1 DEF CallOK, CallType
      <4>2. Running(k)
        BY <1>2, <4>1, RunningCall
      <4>3. QED
        BY <3>1, <4>2, FailOK DEF Outcomes
    <3>2. CASE ~k.listed
      BY <1>2, <3>2
    <3>3. QED
      BY <3>1, <3>2
  <2> HIDE DEF F
  <2>2. L(k) = F(k)
    BY <2>1 DEF CallOK, CallType
  <2>3. CallOK(L(k)) /\ L(k) \in CallType
    BY <2>1, <2>2 DEF CallOK
  <2> HIDE DEF L
  <2>4. QED
    BY <2>3, SettleKin, KinOK DEF Outcomes
<1> HIDE DEF D
<1>3. \A c \in Calls : call'[c] = D(call[c]) /\ CallOK(D(call[c]))
  BY <1>1, <1>2 DEF CallsInv
<1>4. \A c \in Calls : D(call[c]) \in CallType
  BY <1>3 DEF CallOK
<1>5. QED
  BY <1>1, <1>3, <1>4 DEF CallsInv

------------------------------------------------------------------------------
(* The steps of the composition.                                             *)

RpcInv ==
    /\ SessionTypeOK
    /\ CallsInv
    /\ WorkersInv
    /\ RegistrationTypeOK
    /\ faults \in 0..MaxFaults

LEMMA CallStepKeeps ==
    ASSUME RpcInv, NEW c \in Calls, CallStep(c) \/ CallFaults(c)
    PROVE  CallsInv' /\ UNCHANGED session
<1>1. CallsInv /\ SessionTypeOK
  BY DEF RpcInv
<1>2. CASE \/ \E p \in {NoParent} \cup {i \in Requests : MayLink(i)} : OpenCall(c, p)
           \/ CallOpened(c) \/ OpenFailed(c)
  <2>1. {NoParent} \cup {i \in Requests : MayLink(i)} \subseteq {NoParent} \cup Parents
    BY RpcAssumption
  <2>2. CallsInv'
    BY <1>1, <1>2, <2>1, OpeningKeeps
  <2>3. UNCHANGED session
    BY <1>2 DEF OpenCall, CallOpened, OpenFailed, Becomes
  <2>4. QED
    BY <2>2, <2>3
<1>3. CASE \E kind \in {"frame", "end", "error"} : Response(c, kind)
  BY <1>1, <1>3, ResponseKeeps DEF Response, Becomes
<1>4. CASE \/ DeadlinePasses(c) \/ Expire(c) \/ OwnerCloses(c)
           \/ \E i \in Requests : call[c].parent = i /\ ParentCancelled(c, inv[i].cancelled)
  <2>1. \A i \in Requests : inv[i].cancelled \in BOOLEAN
    BY DEF RpcInv, WorkersInv, InvocationType
  <2>2. CallsInv'
    BY <1>1, <1>4, <2>1, WatchersKeep
  <2>3. UNCHANGED session
    BY <1>4 DEF DeadlinePasses, Expire, OwnerCloses, ParentCancelled, Becomes
  <2>4. QED
    BY <2>2, <2>3
<1>5. CASE Iterate(c) \/ Receive(c) \/ WaitTimesOut(c) \/ WaitCancelled(c)
  <2>1. CallsInv'
    BY <1>1, <1>5, IterationKeeps
  <2>2. UNCHANGED session
    BY <1>5 DEF Iterate, Receive, WaitTimesOut, WaitCancelled, Becomes
  <2>3. QED
    BY <2>1, <2>2
<1>6. CASE CancelSent(c) \/ CancelRaised(c) \/ CancelAnswered(c) \/ GraceEnds(c)
  <2>1. CallsInv'
    BY <1>1, <1>6, CancelKeeps
  <2>2. UNCHANGED session
    BY <1>6 DEF CancelSent, CancelRaised, CancelAnswered, GraceEnds, Becomes
  <2>3. QED
    BY <2>1, <2>2
<1>7. QED
  BY <1>2, <1>3, <1>4, <1>5, <1>6 DEF CallStep, CallSteps, CallFaults

LEMMA RequestStepKeeps ==
    ASSUME RpcInv, NEW i \in Requests, RequestSteps(i) \/ RequestFaults(i)
    PROVE  WorkersInv' /\ UNCHANGED <<session, registration>>
<1>1. WorkersInv /\ SessionTypeOK /\ RegistrationTypeOK
  BY DEF RpcInv
<1>2. CASE Deliver(i)
  <2>1. WorkersInv'
    BY <1>1, <1>2, DeliverKeeps
  <2>2. UNCHANGED <<session, registration>>
    BY <1>2 DEF Deliver, Serve, Rest
  <2>3. QED
    BY <2>1, <2>2
<1>3. CASE \/ Begin(i) \/ Admit(i) \/ HandlerEnds(i) \/ HandlerReturns(i) \/ HandlerRaises(i)
           \/ SendReturns(i) \/ SendRaises(i) \/ HandlerTimeout(i) \/ Doomed(i)
  <2>1. WorkersInv'
    BY <1>1, <1>3, ServingKeeps
  <2>2. \E v : Serve(i, v)
    <3>1. Begin(i) \/ Admit(i) => \E v : Serve(i, v)
      BY DEF Begin, Admit
    <3>2. HandlerEnds(i) \/ HandlerReturns(i) \/ HandlerRaises(i) => \E v : Serve(i, v)
      BY DEF HandlerEnds, HandlerReturns, HandlerRaises
    <3>3. SendReturns(i) \/ SendRaises(i) => \E v : Serve(i, v)
      BY DEF SendReturns, SendRaises
    <3>4. HandlerTimeout(i) \/ Doomed(i) => \E v : Serve(i, v)
      BY DEF HandlerTimeout, Doomed
    <3>5. QED
      BY <1>3, <3>1, <3>2, <3>3, <3>4
  <2>3. UNCHANGED <<session, registration>>
    BY <2>2 DEF Serve, Rest
  <2>4. QED
    BY <2>1, <2>3
<1>4. CASE Completed(i)
  <2>1. WorkersInv'
    BY <1>1, <1>4, CompletedKeeps
  <2>2. UNCHANGED <<session, registration>>
    BY <1>4 DEF Completed, Serve, Rest
  <2>3. QED
    BY <2>1, <2>2
<1>5. CASE Refuse(i)
  <2>1. WorkersInv'
    BY <1>1, <1>5, RefuseKeeps
  <2>2. UNCHANGED <<session, registration>>
    BY <1>5 DEF Refuse, Serve, Rest
  <2>3. QED
    BY <2>1, <2>2
<1>6. CASE CancelRequested(i) \/ CleanupAck(i) \/ BudgetEnds(i)
  <2>1. WorkersInv'
    BY <1>1, <1>6, CancellationKeeps
  <2>2. UNCHANGED <<session, registration>>
    BY <1>6 DEF CancelRequested, CleanupAck, BudgetEnds, Serve, Rest
  <2>3. QED
    BY <2>1, <2>2
<1>7. QED
  BY <1>2, <1>3, <1>4, <1>5, <1>6 DEF RequestSteps, RequestFaults

LEMMA RegistrationKeeps ==
    ASSUME RegistrationTypeOK, RegistrationSteps \/ WireCancelled
    PROVE  RegistrationTypeOK' /\ UNCHANGED <<session, inv, waiting, stopped>>
<1>1. wire.who \in Workers \cup {Nobody} /\ wire \in WireType
  BY DEF RegistrationTypeOK, WireType
<1>2. \A kind \in {"sub", "unsub"}, w \in Workers \cup {Nobody} : Ask(kind, w) => wire' \in WireType
  BY DEF Ask, WireType
<1>3. NoWire \in WireType
  BY DEF NoWire, WireType
<1>4. CASE \E w \in Workers : Register(w) \/ Unregister(w)
  BY <1>2, <1>4 DEF RegistrationTypeOK, Register, Unregister, KeepInv
<1>5. CASE WireAnswered
  <2>1. wire' \in WireType
    BY <1>1, <1>5 DEF WireAnswered, WireType
  <2>2. QED
    BY <1>5, <2>1 DEF RegistrationTypeOK, WireAnswered, KeepInv, WireType
<1>6. CASE WireReturns
  BY <1>1, <1>3, <1>6 DEF RegistrationTypeOK, WireReturns, KeepInv
<1>7. CASE WireCancelled
  <2>1. (wire.kind = "sub") \in BOOLEAN
    OBVIOUS
  <2>2. known' \in BOOLEAN
    BY <1>7 DEF WireCancelled, RegistrationTypeOK
  <2>3. QED
    BY <1>3, <1>7, <2>2 DEF RegistrationTypeOK, WireCancelled, KeepInv
<1>8. CASE Restore
  BY <1>2, <1>8 DEF RegistrationTypeOK, Restore, KeepInv
<1>9. QED
  BY <1>4, <1>5, <1>6, <1>7, <1>8 DEF RegistrationSteps

LEMMA WorkersStutter ==
    ASSUME WorkersInv, UNCHANGED <<inv, waiting, stopped>>
    PROVE  WorkersInv'
<1>1. Active' = Active
  BY DEF Active, In
<1>2. QED
  BY <1>1 DEF WorkersInv, WaitersQueued, DispatcherExact

\* The session's own steps, with what they do to both sides.
LEMMA SessionKeeps ==
    ASSUME RpcInv, LoseSession \/ Disconnected \/ Reconnected \/ Restored
    PROVE  SessionTypeOK' /\ CallsInv' /\ WorkersInv' /\ RegistrationTypeOK'
<1>1. SessionTypeOK /\ CallsInv /\ WorkersInv /\ RegistrationTypeOK
  BY DEF RpcInv
<1>2. UNCHANGED call => CallsInv'
  BY <1>1 DEF CallsInv
<1>3. CASE LoseSession
  <2>1. SessionTypeOK'
    BY <1>1, <1>3 DEF LoseSession, Lose, Close, SessionTypeOK
  <2>2. UNCHANGED <<call, inv, waiting, stopped, worker, handle, rst>> /\ known' = FALSE
    BY <1>3 DEF LoseSession, WorkersLost
  <2>3. wire' \in WireType
    BY <1>1, <1>3 DEF LoseSession, WorkersLost, RegistrationTypeOK, WireType
  <2>4. RegistrationTypeOK'
    BY <1>1, <2>2, <2>3 DEF RegistrationTypeOK
  <2>5. QED
    BY <1>1, <1>2, <2>1, <2>2, <2>4, WorkersStutter
<1>4. CASE Disconnected
  <2>1. SessionTypeOK'
    BY <1>1, <1>4 DEF Disconnected, Notified, SessionTypeOK
  <2>2. CallsInv'
    BY <1>1, <1>4, CallsDisconnectedKeeps DEF Disconnected
  <2>3. WorkersInv'
    BY <1>1, <1>4, DisconnectedKeeps DEF Disconnected
  <2>4. UNCHANGED registration
    BY <1>4 DEF Disconnected, WorkersDisconnected
  <2>5. RegistrationTypeOK'
    BY <1>1, <2>4 DEF RegistrationTypeOK, registration
  <2>6. QED
    BY <2>1, <2>2, <2>3, <2>5
<1>5. CASE Reconnected
  <2>1. SessionTypeOK'
    BY <1>1, <1>5, SessionAssumption DEF Reconnected, Reconnect, SessionTypeOK
  <2>2. UNCHANGED <<call, inv, waiting, stopped, worker, handle, wire, known>> /\ rst' = "todo"
    BY <1>5 DEF Reconnected, WorkersReconnected
  <2>3. RegistrationTypeOK'
    BY <1>1, <2>2 DEF RegistrationTypeOK
  <2>4. QED
    BY <1>1, <1>2, <2>1, <2>2, <2>3, WorkersStutter
<1>6. CASE Restored
  <2>1. SessionTypeOK'
    BY <1>1, <1>6 DEF Restored, SessionTypeOK
  <2>2. UNCHANGED <<call, inv, waiting, stopped, worker, handle, wire, known, rst>>
    BY <1>6 DEF Restored, workerVars
  <2>3. RegistrationTypeOK'
    BY <1>1, <2>2 DEF RegistrationTypeOK
  <2>4. QED
    BY <1>1, <1>2, <2>1, <2>2, <2>3, WorkersStutter
<1>7. QED
  BY <1>3, <1>4, <1>5, <1>6

LEMMA InitRpcInv ==
    ASSUME Init
    PROVE  RpcInv
<1>1. SessionTypeOK
  BY SessionAssumption DEF Init, SessionInit, SessionTypeOK
<1>2. CallsInv
  <2>1. Unopened \in CallType
    <3>1. <<>> \in Seq({"frame", "none", "error"}) /\ 0 \in 0..MaxFrames /\ 0 \in 0..MaxGeneration
      BY RpcCallsAssumption, SessionAssumption
    <3>2. QED
      BY <3>1 DEF Unopened, CallType, Watcher
  <2>2. /\ Unopened.pc = "idle" /\ ~Unopened.closed /\ ~Unopened.terminal /\ ~Unopened.listed
        /\ Unopened.queue = <<>> /\ Unopened.failure = "none" /\ Unopened.sent = 0
        /\ Unopened.taken = 0 /\ Unopened.answer = "none" /\ Unopened.seen = "nothing"
        /\ Unopened.expiry = "none" /\ Unopened.watch = "none" /\ Unopened.user = "idle"
    BY DEF Unopened
  <2>3. CallOK(Unopened)
    BY <2>1, <2>2 DEF CallOK, Live
  <2>4. QED
    BY <2>1, <2>3 DEF Init, CallsInit, CallsInv
<1>3. WorkersInv
  <2>1. Undelivered \in InvocationType
    <3>1. 0 \in 0..MaxGeneration /\ 0 \in 0..3 /\ 0 \in 0..2
      BY SessionAssumption
    <3>2. QED
      BY <3>1 DEF Undelivered, InvocationType, Stages
  <2>2. /\ Undelivered.stage = "none" /\ ~Undelivered.started /\ ~Undelivered.finished
        /\ ~Undelivered.ended /\ ~Undelivered.broken /\ Undelivered.ack = "none"
        /\ Undelivered.ends = 0 /\ Undelivered.acks = 0
    BY DEF Undelivered
  <2>3. InvocationOK(Undelivered)
    BY <2>1, <2>2 DEF InvocationOK, Sound, AckBound, Clear, Early, Done
  <2>4. \A i \in Requests : inv[i] = Undelivered
    BY DEF Init, WorkersInit
  <2>5. Active = {}
    BY <2>2, <2>4 DEF Active, In, Busy
  <2>6. DispatcherExact
    BY <2>5, FS_EmptySet, RpcWorkersAssumption DEF Init, WorkersInit, DispatcherExact
  <2>7. WaitersQueued
    BY DEF Init, WorkersInit, WaitersQueued
  <2>8. QED
    BY <2>1, <2>3, <2>4, <2>6, <2>7 DEF Init, WorkersInit, WorkersInv
<1>4. RegistrationTypeOK
  BY DEF Init, WorkersInit, RegistrationTypeOK, NoWire, WireType
<1>5. faults \in 0..MaxFaults
  BY RpcAssumption DEF Init
<1>6. QED
  BY <1>1, <1>2, <1>3, <1>4, <1>5 DEF RpcInv

LEMMA NextRpcInv ==
    ASSUME RpcInv, [Next]_vars
    PROVE  RpcInv'
<1>1. SessionTypeOK /\ CallsInv /\ WorkersInv /\ RegistrationTypeOK /\ faults \in 0..MaxFaults
  BY DEF RpcInv
<1>2. UNCHANGED call => CallsInv'
  BY <1>1 DEF CallsInv
<1>3. UNCHANGED session => SessionTypeOK'
  BY <1>1 DEF session, SessionTypeOK
<1>4. UNCHANGED registration => RegistrationTypeOK'
  BY <1>1 DEF registration, RegistrationTypeOK
<1>5. CASE UNCHANGED vars
  <2>1. UNCHANGED <<inv, waiting, stopped>> /\ UNCHANGED <<call, session, registration, faults>>
    BY <1>5 DEF vars, workerVars, registration
  <2>2. QED
    BY <1>1, <1>2, <1>3, <1>4, <2>1, WorkersStutter DEF RpcInv
<1>6. CASE Next
  <2>1. faults' \in 0..MaxFaults
    <3>1. faults' \in Nat
      BY <1>1, <1>6, RpcAssumption DEF Next
    <3>2. faults' <= MaxFaults
      BY <1>6 DEF Next, Bounded
    <3>3. QED
      BY <3>1, <3>2, RpcAssumption
  <2>2. SessionTypeOK' /\ CallsInv' /\ WorkersInv' /\ RegistrationTypeOK'
    <3>1. CASE (\E c \in Calls : CallStep(c) \/ CallFaults(c)) /\ UNCHANGED workerVars
      <4>1. CallsInv' /\ UNCHANGED session
        BY <3>1, CallStepKeeps
      <4>2. UNCHANGED <<inv, waiting, stopped>> /\ UNCHANGED registration
        BY <3>1 DEF workerVars, registration
      <4>3. QED
        BY <1>1, <1>3, <1>4, <4>1, <4>2, WorkersStutter
    <3>2. CASE (\E i \in Requests : RequestSteps(i) \/ RequestFaults(i)) /\ UNCHANGED call
      <4>1. WorkersInv' /\ UNCHANGED <<session, registration>>
        BY <3>2, RequestStepKeeps
      <4>2. QED
        BY <1>2, <1>3, <1>4, <3>2, <4>1
    <3>3. CASE (RegistrationSteps \/ WireCancelled) /\ UNCHANGED call
      <4>1. RegistrationTypeOK' /\ UNCHANGED <<session, inv, waiting, stopped>>
        BY <1>1, <3>3, RegistrationKeeps
      <4>2. QED
        BY <1>1, <1>2, <1>3, <3>3, <4>1, WorkersStutter
    <3>4. CASE LoseSession \/ Disconnected \/ Reconnected \/ Restored
      BY <3>4, SessionKeeps
    <3>5. QED
      BY <1>6, <3>1, <3>2, <3>3, <3>4 DEF Next, Step, Fault
  <2>3. QED
    BY <2>1, <2>2 DEF RpcInv
<1>7. QED
  BY <1>5, <1>6

LEMMA Invariance == Spec => []RpcInv
<1>1. Init => RpcInv
  BY InitRpcInv
<1>2. RpcInv /\ [Next]_vars => RpcInv'
  BY NextRpcInv
<1>3. QED
  BY <1>1, <1>2, PTL DEF Spec

------------------------------------------------------------------------------
(* The theorems.                                                             *)

\* Every variable keeps its type: no counter of answers or acknowledgements
\* leaves its range, and no step of the code builds a record of another shape.
THEOREM TypeCorrect == Spec => []TypeOK
<1>1. RpcInv => TypeOK
  BY DEF RpcInv, CallsInv, WorkersInv, WaitersQueued, RegistrationTypeOK, TypeOK, CallsTypeOK,
         WorkersTypeOK
<1>2. QED
  BY <1>1, Invariance, PTL

\* No acknowledgement of a request is sent before its handler has returned, and
\* no handler starts after one (rpc.py:527-535, 656-692): the clean-up task is
\* created only for an invocation that has not started or has finished.
THEOREM AcknowledgedAfterCleanup == Spec => []AckAfterCleanup
<1>1. RpcInv => AckAfterCleanup
  <2> SUFFICES ASSUME RpcInv, NEW i \in Requests, inv[i].acks > 0
               PROVE  inv[i].stage \notin {"running", "ending", "failing"}
    BY DEF AckAfterCleanup
  <2>1. InvocationOK(inv[i]) /\ inv[i].acks \in 0..2
    BY DEF RpcInv, WorkersInv, InvocationType
  <2>2. QED
    BY <2>1 DEF InvocationOK, AckBound, Done
<1>2. QED
  BY <1>1, Invariance, PTL

\* The handler, the error path, the expired deadline and the saturated
\* dispatcher send at most one terminal response between them, unless the send
\* of one was cut short or raised (rpc.py:86-99, 663-685).
THEOREM OneTerminalAnswer == Spec => []AnsweredOnce
<1>1. RpcInv => AnsweredOnce
  <2> SUFFICES ASSUME RpcInv, NEW i \in Requests, inv[i].ends > 1
               PROVE  inv[i].broken
    BY DEF AnsweredOnce
  <2>1. Sound(inv[i]) /\ inv[i].ends \in 0..3
    BY DEF RpcInv, WorkersInv, InvocationOK, InvocationType
  <2>2. QED
    BY <2>1 DEF Sound
<1>2. QED
  BY <1>1, Invariance, PTL

\* The dispatcher never exceeds its limits, and no request waits while a
\* handler could run (_runtime.py:204-240), for every maximum and queue size.
THEOREM DispatcherKeepsItsLimits == Spec => []DispatcherExact
<1>1. RpcInv => DispatcherExact
  BY DEF RpcInv, WorkersInv
<1>2. QED
  BY <1>1, Invariance, PTL

\* An iteration that ends without an error got every frame of a complete
\* answer, or was ended on request (rpc.py:177-211, 238-271): the queue of a
\* closed call still holds the mark of how it ended, or its failure is kept.
THEOREM IterationEndsComplete == Spec => []CleanEndIsComplete
<1>1. RpcInv => CleanEndIsComplete
  BY DEF RpcInv, CallsInv, CallOK, Wanted, CleanEndIsComplete
<1>2. QED
  BY <1>1, Invariance, PTL

------------------------------------------------------------------------------
(* What the broker can tell of the steps: they keep ServeContract.           *)

\* The broker's cancellation is noted at once.  A response that the writer knows of,
\* or that is on its way, was sent.  An invocation that is not listed yet, or never
\* was, hears of no cancellation.
Told(v) ==
    /\ v.asked <=> v.request
    /\ v.request => v.cancelled
    /\ v.ended \/ v.stage \in Sends => v.ends > 0
    /\ v.stage \in {"none", "saturated"} => ~v.active /\ v.ack = "none"

ToldInv == \A i \in Requests : Told(inv[i])

\* The record v of a request becomes w; the broker can tell ...
Same(v, w) == w.ends = v.ends /\ w.broken = v.broken

\* ... nothing.
Quiet(v, w) == Phase(w.stage) = Phase(v.stage) /\ w.acks = v.acks /\ Same(v, w)

\* ... that its handler starts.
Starts(v, w) ==
    /\ v.stage \in Held /\ w.stage \in Working
    /\ ~v.asked /\ v.ends = 0 /\ v.acks = 0 /\ w.acks = 0 /\ Same(v, w)

\* ... that it is answered, or answered again after a response cut short.
Says(v, w) ==
    /\ v.stage \in Held \cup Working /\ Phase(w.stage) = Phase(v.stage)
    /\ Current(v.at) /\ v.acks = 0 /\ w.acks = 0
    /\ \/ v.ends = 0 /\ w.ends = 1 /\ w.broken = v.broken
       \/ v.stage \in Working /\ v.ends = 1 /\ w.ends = 2 /\ ~v.broken /\ w.broken

\* ... that it is done with, and the acknowledgement that goes with this.
Frees(v, w) ==
    /\ v.stage \in Held \cup Working /\ Phase(w.stage) = "done" /\ w.ends = v.ends
    /\ w.broken = v.broken \/ (w.broken /\ v.ends > 0)
    /\ \/ w.acks = v.acks
       \/ /\ Online /\ (v.asked \/ v.ends > 0 \/ v.at # generation)
          /\ v.acks < 2 /\ w.acks = v.acks + 1

\* ... that its cancellation is acknowledged.
Acknowledges(v, w) ==
    /\ v.stage # "none" /\ v.stage \notin Working /\ Phase(w.stage) = Phase(v.stage)
    /\ v.asked /\ Online /\ v.acks < 2 /\ w.acks = v.acks + 1 /\ Same(v, w)

\* ... that its cancellation arrived.
Hears(v, w) ==
    /\ v.stage # "none" /\ Phase(w.stage) = Phase(v.stage)
    /\ ~v.asked /\ w.asked /\ Current(v.at) /\ w.acks = v.acks /\ Same(v, w)

Moves(v, w) ==
    /\ w \in InvocationType /\ w.at = v.at
    /\ \/ Hears(v, w)
       \/ /\ w.asked = v.asked
          /\ \/ Quiet(v, w) \/ Starts(v, w) \/ Says(v, w)
             \/ Frees(v, w) \/ Acknowledges(v, w)

reqBar == [i \in Requests |-> View(inv[i])]

\* A record changes, and with it the broker's view of that request only.
LEMMA ViewMoves ==
    ASSUME NEW i \in Requests, NEW w, inv \in [Requests -> InvocationType],
           inv' = [inv EXCEPT ![i] = w]
    PROVE  reqBar' = [reqBar EXCEPT ![i] = View(w)]
BY DEF reqBar

LEMMA PhaseOf ==
    ASSUME NEW stage
    PROVE  /\ Phase(stage) = "new" <=> stage = "none"
           /\ Phase(stage) = "held" <=> stage \in Held
           /\ Phase(stage) = "running" <=> stage \in Working
           /\ Phase(stage) \in {"new", "held", "running", "done"}
BY DEF Phase, Held, Working

Broker(p, h, n, c, q, k) ==
    [phase |-> p, home |-> h, answers |-> n, cut |-> c, asked |-> q, acks |-> k]

\* Each of these is a step of the contract.
LEMMA MovesRefine ==
    ASSUME inv \in [Requests -> InvocationType], NEW i \in Requests, NEW w,
           Moves(inv[i], w), inv' = [inv EXCEPT ![i] = w], UNCHANGED session
    PROVE  [Contract!ServeNext]_(Contract!serveVars)
<1> DEFINE v == inv[i]
           a == View(v)
           b == View(w)
<1>1. /\ w.at = v.at /\ reqBar[i] = a /\ reqBar' = [reqBar EXCEPT ![i] = b]
      /\ UNCHANGED <<Online, generation>>
      /\ reqBar \in [Requests -> {View(inv[j]) : j \in Requests}]
  BY ViewMoves DEF Moves, reqBar, Online, session
<1>2. /\ v.ends \in 0..3 /\ v.acks \in 0..2 /\ v.asked \in BOOLEAN /\ v.broken \in BOOLEAN
      /\ w.ends \in 0..3 /\ w.acks \in 0..2 /\ w.asked \in BOOLEAN /\ w.broken \in BOOLEAN
  BY DEF Moves, InvocationType
<1>3. /\ a = Broker(Phase(v.stage), v.at, v.ends, v.broken, v.asked, v.acks)
      /\ b = Broker(Phase(w.stage), v.at, w.ends, w.broken, w.asked, w.acks)
  BY <1>1 DEF View, Broker
<1>4. /\ Phase(v.stage) = "new" <=> v.stage = "none"
      /\ Phase(v.stage) = "held" <=> v.stage \in Held
      /\ Phase(v.stage) = "running" <=> v.stage \in Working
      /\ Phase(v.stage) \in {"new", "held", "running", "done"}
      /\ Phase(w.stage) = "running" <=> w.stage \in Working
  BY PhaseOf
<1>5. Contract!Becomes(i, b)
  BY <1>1 DEF Contract!Becomes, reqBar
<1>6. Moves(v, w)
  OBVIOUS
<1> HIDE DEF v
<1>7. /\ a.phase = Phase(v.stage) /\ a.home = v.at /\ a.answers = v.ends /\ a.cut = v.broken
      /\ a.asked = v.asked /\ a.acks = v.acks
  BY <1>3 DEF Broker
<1>8. ASSUME b = a PROVE Contract!serveVars' = Contract!serveVars
  <2>1. reqBar' = reqBar
    BY <1>1, <1>8
  <2>2. QED
    BY <1>1, <2>1 DEF Contract!serveVars, reqBar
<1> HIDE DEF a, b
<1>9. CASE w.asked = v.asked /\ Quiet(v, w)
  BY <1>3, <1>8, <1>9 DEF Quiet, Same
<1>10. CASE Hears(v, w)
  <2>1. /\ b = Broker(Phase(v.stage), v.at, v.ends, v.broken, w.asked, v.acks)
        /\ w.asked = TRUE
    BY <1>2, <1>3, <1>10 DEF Hears, Same
  <2>2. b = [a EXCEPT !.asked = TRUE]
    <3>1. b = [a EXCEPT !.asked = w.asked]
      BY <1>3, <2>1 DEF Broker
    <3>2. QED
      BY <2>1, <3>1
  <2>3. a.phase # "new" /\ ~a.asked /\ Online /\ a.home = generation
    BY <1>4, <1>7, <1>10 DEF Hears, Current
  <2>4. Contract!Cancel(i)
    BY <1>1, <1>5, <2>2, <2>3 DEF Contract!Cancel, Contract!AtHome, reqBar
  <2>5. QED
    BY <2>4 DEF Contract!ServeNext
<1>11. CASE w.asked = v.asked /\ Starts(v, w)
  <2>1. b = Broker("running", v.at, v.ends, v.broken, v.asked, v.acks)
    BY <1>3, <1>4, <1>11 DEF Starts, Same
  <2>2. b = [a EXCEPT !.phase = "running"]
    BY <1>3, <2>1 DEF Broker
  <2>3. a.phase = "held" /\ ~a.asked /\ a.answers = 0 /\ a.acks = 0
    BY <1>4, <1>7, <1>11 DEF Starts
  <2>4. Contract!Start(i)
    BY <1>1, <1>5, <2>2, <2>3 DEF Contract!Start, reqBar
  <2>5. QED
    BY <2>4 DEF Contract!ServeNext
<1>12. CASE w.asked = v.asked /\ Says(v, w)
  <2>1. /\ a.phase \in {"held", "running"} /\ Online /\ a.home = generation /\ a.acks = 0
        /\ v.stage \in Working => a.phase = "running"
    BY <1>4, <1>7, <1>12 DEF Says, Current
  <2>2. CASE v.ends = 0 /\ w.ends = 1 /\ w.broken = v.broken
    <3>1. b = Broker(Phase(v.stage), v.at, 1, v.broken, v.asked, v.acks)
      BY <1>3, <1>12, <2>2 DEF Says
    <3>2. b = [a EXCEPT !.answers = 1]
      BY <1>3, <3>1 DEF Broker
    <3>3. Contract!Answer(i)
      BY <1>1, <1>5, <1>7, <2>1, <2>2, <3>2
         DEF Contract!Answer, Contract!AtHome, reqBar
    <3>4. QED
      BY <3>3 DEF Contract!ServeNext
  <2>3. CASE v.stage \in Working /\ v.ends = 1 /\ w.ends = 2 /\ ~v.broken /\ w.broken
    <3>1. /\ b = Broker(Phase(v.stage), v.at, 2, w.broken, v.asked, v.acks)
          /\ w.broken = TRUE
      BY <1>2, <1>3, <1>12, <2>3 DEF Says
    <3>2. b = [a EXCEPT !.answers = 2, !.cut = TRUE]
      <4> DEFINE m == [a EXCEPT !.answers = 2]
      <4>1. m = Broker(Phase(v.stage), v.at, 2, v.broken, v.asked, v.acks)
        BY <1>3 DEF Broker
      <4>2. [a EXCEPT !.answers = 2, !.cut = w.broken] = [m EXCEPT !.cut = w.broken]
        OBVIOUS
      <4> HIDE DEF m
      <4>3. [m EXCEPT !.cut = w.broken] = b
        BY <3>1, <4>1 DEF Broker
      <4>4. QED
        BY <3>1, <4>2, <4>3
    <3>3. Contract!AnswerAgain(i)
      BY <1>1, <1>5, <1>7, <2>1, <2>3, <3>2
         DEF Contract!AnswerAgain, Contract!AtHome, reqBar
    <3>4. QED
      BY <3>3 DEF Contract!ServeNext
  <2>4. QED
    BY <1>12, <2>2, <2>3 DEF Says
<1>13. CASE w.asked = v.asked /\ Frees(v, w)
  <2>1. /\ a.phase \in {"held", "running"} /\ Phase(w.stage) = "done" /\ w.ends = v.ends
    BY <1>4, <1>7, <1>13 DEF Frees
  <2>2. w.broken \in {a.cut, a.answers > 0}
    BY <1>2, <1>7, <1>13 DEF Frees
  <2> DEFINE m == [a EXCEPT !.phase = "done"]
             n == [m EXCEPT !.cut = w.broken]
  <2>3. n = Broker("done", v.at, v.ends, w.broken, v.asked, v.acks)
    <3>1. m = Broker("done", v.at, v.ends, v.broken, v.asked, v.acks)
      BY <1>3 DEF Broker
    <3> HIDE DEF m
    <3>2. QED
      BY <3>1 DEF Broker
  <2>4. /\ [a EXCEPT !.phase = "done", !.cut = w.broken] = n
        /\ [a EXCEPT !.phase = "done", !.cut = w.broken, !.acks = @ + 1] = [n EXCEPT !.acks = a.acks + 1]
    OBVIOUS
  <2> HIDE DEF m, n
  <2>5. CASE w.acks = v.acks
    <3>1. b = Broker("done", v.at, v.ends, w.broken, v.asked, v.acks)
      BY <1>3, <1>13, <2>1, <2>5
    <3>2. b = [a EXCEPT !.phase = "done", !.cut = w.broken]
      BY <2>3, <2>4, <3>1
    <3>3. Contract!Release(i)
      BY <1>1, <1>5, <2>1, <2>2, <3>2 DEF Contract!Release, reqBar
    <3>4. QED
      BY <3>3 DEF Contract!ServeNext
  <2>6. CASE w.acks # v.acks
    <3>1. b = Broker("done", v.at, v.ends, w.broken, v.asked, v.acks + 1)
      BY <1>3, <1>13, <2>1, <2>6 DEF Frees
    <3>2. b = [a EXCEPT !.phase = "done", !.cut = w.broken, !.acks = @ + 1]
      <4>1. [n EXCEPT !.acks = v.acks + 1] = b
        BY <2>3, <3>1 DEF Broker
      <4>2. QED
        BY <1>7, <2>4, <4>1
    <3>3. Online /\ (a.asked \/ a.answers > 0 \/ a.home # generation) /\ a.acks < 2
      BY <1>7, <1>13, <2>6 DEF Frees
    <3>4. Contract!Release(i)
      BY <1>1, <1>5, <2>1, <2>2, <3>2, <3>3 DEF Contract!Release, Contract!Due, reqBar
    <3>5. QED
      BY <3>4 DEF Contract!ServeNext
  <2>7. QED
    BY <2>5, <2>6
<1>14. CASE w.asked = v.asked /\ Acknowledges(v, w)
  <2>1. b = Broker(Phase(v.stage), v.at, v.ends, v.broken, v.asked, v.acks + 1)
    BY <1>3, <1>14 DEF Acknowledges, Same
  <2>2. b = [a EXCEPT !.acks = @ + 1]
    BY <1>3, <2>1 DEF Broker
  <2>3. a.phase \in {"held", "done"} /\ a.asked /\ Online /\ a.acks < 2
    BY <1>4, <1>7, <1>14 DEF Acknowledges
  <2>4. Contract!Acknowledge(i)
    BY <1>1, <1>5, <2>2, <2>3 DEF Contract!Acknowledge, reqBar
  <2>5. QED
    BY <2>4 DEF Contract!ServeNext
<1>15. QED
  BY <1>6, <1>9, <1>10, <1>11, <1>12, <1>13, <1>14 DEF Moves

\* What is left of v when a method has changed flags that the broker cannot see.
Near(u, v) ==
    /\ u \in InvocationType
    /\ u.at = v.at /\ u.asked = v.asked /\ u.request = v.request
    /\ u.ends = v.ends /\ u.acks = v.acks
    /\ v.cancelled => u.cancelled
    /\ u.broken = v.broken \/ (u.broken /\ v.ends > 0)
    /\ u.ended => v.ends > 0

\* v may move, under the worker's own steps.
Open(v) == InvocationOK(v) /\ Told(v) /\ v.stage \in Held \cup Working

LEMMA OpenFields ==
    ASSUME NEW v, Open(v)
    PROVE  /\ v \in InvocationType /\ v.acks \in 0..1 /\ v.ends \in 0..2
           /\ v.ack = "none" => v.acks = 0
           /\ v.stage \notin Done /\ v.stage # "none"
           /\ v.asked \in BOOLEAN /\ v.request \in BOOLEAN /\ v.cancelled \in BOOLEAN
           /\ v.broken \in BOOLEAN /\ v.ended \in BOOLEAN
<1>1. v \in InvocationType /\ AckBound(v) /\ Sound(v)
  BY DEF Open, InvocationOK, Sound
<1>2. v.stage \notin Done /\ v.stage # "none"
  BY DEF Open, Held, Working, Done
<1>3. v.acks \in 0..2 /\ v.ends \in 0..3
  BY <1>1 DEF InvocationType
<1>4. v.acks \in 0..1 /\ (v.ack = "none" => v.acks = 0)
  BY <1>1, <1>2, <1>3 DEF AckBound
<1>5. v.ends \in 0..2
  BY <1>1, <1>3 DEF Sound
<1>6. QED
  BY <1>1, <1>2, <1>4, <1>5 DEF InvocationType

LEMMA PhaseDone ==
    /\ \A stage \in {"acking", "leaving", "over", "yielding", "dropped"} : Phase(stage) = "done"
    /\ \A stage \in Held : Phase(stage) = "held"
    /\ \A stage \in Working : Phase(stage) = "running"
BY DEF Phase, Held, Working

LEMMA FinallyMoves ==
    ASSUME NEW v, Open(v), NEW u, Near(u, v)
    PROVE  Moves(v, Finally(u)) /\ Told(Finally(u))
<1>1. /\ v \in InvocationType /\ v.acks \in 0..1 /\ v.ends \in 0..2
      /\ v.asked \in BOOLEAN /\ v.request \in BOOLEAN /\ v.broken \in BOOLEAN
      /\ v.stage \in Held \cup Working
  BY OpenFields DEF Open
<1>2. u \in InvocationType /\ u.acks + 1 \in 0..2 /\ {"acking", "leaving"} \subseteq Stages
  BY <1>1 DEF Near, Stages, Busy
<1> DEFINE w == Finally(u)
<1>3. w \in InvocationType
  BY <1>2, ZenonT(60) DEF Finally, InvocationType
<1>4. /\ w.stage \in {"acking", "leaving"} /\ w.at = u.at /\ w.asked = u.asked
      /\ w.request = u.request /\ w.cancelled = u.cancelled /\ w.ended = u.ended
      /\ w.ends = u.ends /\ w.broken = u.broken
      /\ \/ w.acks = u.acks
         \/ Online /\ (u.request \/ u.ended) /\ w.acks = u.acks + 1
  BY <1>2 DEF Finally, InvocationType
<1> HIDE DEF w
<1>5. Phase(w.stage) = "done"
  BY <1>4, PhaseDone
<1>6. Told(w)
  BY <1>4 DEF Told, Near, Open, Sends
<1>7. Frees(v, w)
  BY <1>1, <1>4, <1>5 DEF Frees, Near, Open, Told
<1>8. QED
  BY <1>3, <1>4, <1>6, <1>7 DEF Moves, Near, w

LEMMA SendErrorMoves ==
    ASSUME NEW v, Open(v), v.acks = 0, NEW u, Near(u, v),
           NEW stage \in {"expiring", "failing"}, Phase(stage) = Phase(v.stage),
           ~u.ended => \/ v.ends = 0 /\ u.broken = v.broken
                       \/ v.stage \in Working /\ v.ends = 1 /\ ~v.broken /\ u.broken
    PROVE  Moves(v, SendError(u, stage)) /\ Told(SendError(u, stage))
<1>1. CASE ~CanAnswer(u)
  BY <1>1, FinallyMoves DEF SendError
<1>2. CASE CanAnswer(u)
  <2> DEFINE w == [u EXCEPT !.ends = @ + 1, !.stage = stage]
  <2>1. w = SendError(u, stage)
    BY <1>2 DEF SendError
  <2>2. /\ v.stage \in Held \cup Working /\ v.ends \in 0..2 /\ u.ends = v.ends
        /\ u \in InvocationType /\ stage \in Stages /\ u.ends + 1 \in 0..3
    BY OpenFields DEF Open, Near, Stages, Busy
  <2>3. /\ w.stage = stage /\ w.at = u.at /\ w.asked = u.asked
        /\ w.request = u.request /\ w.cancelled = u.cancelled /\ w.ended = u.ended
        /\ w.ends = u.ends + 1 /\ w.broken = u.broken /\ w.acks = u.acks
        /\ w \in InvocationType
    BY <2>2, ZenonT(60) DEF InvocationType
  <2> HIDE DEF w
  <2>4. Told(w)
    BY <2>2, <2>3 DEF Told, Near, Open
  <2>5. Says(v, w)
    BY <1>2, <2>2, <2>3 DEF Says, Near, CanAnswer
  <2>6. QED
    BY <2>1, <2>3, <2>4, <2>5 DEF Moves, Near
<1>3. QED
  BY <1>1, <1>2

LEMMA HandlerFailedMoves ==
    ASSUME NEW v, Open(v), NEW u, Near(u, v), u.ended = v.ended,
           \/ v.stage = "running" /\ u.broken = v.broken
           \/ v.stage = "ending" /\ u.broken
    PROVE  Moves(v, HandlerFailed(u)) /\ Told(HandlerFailed(u))
<1>1. CASE u.ended
  BY <1>1, FinallyMoves DEF HandlerFailed
<1>2. CASE ~u.ended
  <2>1. /\ v.acks = 0 /\ ~v.broken /\ v.stage \in Working
        /\ v.stage = "running" => v.ends = 0
        /\ v.stage = "ending" => v.ends = 1
    BY <1>2, OpenFields DEF Open, InvocationOK, Sound, Clear, Told, Sends, Working
  <2>2. Phase("failing") = Phase(v.stage)
    BY <2>1, PhaseDone DEF Working
  <2>3. QED
    BY <1>2, <2>1, <2>2, SendErrorMoves DEF HandlerFailed
<1>3. QED
  BY <1>1, <1>2

LEMMA EnterMoves ==
    ASSUME NEW v, InvocationOK(v), Told(v), v.stage \in {"ready", "waiting"}
    PROVE  Moves(v, Enter(v)) /\ Told(Enter(v))
<1>1. /\ Open(v) /\ v \in InvocationType /\ v.stage \in Held /\ v.ends = 0 /\ ~v.ended
      /\ v.ack # "none" => v.request /\ v.cancelled
  BY DEF Open, Held, InvocationOK, Early, Sound
<1>2. /\ v.acks \in 0..1 /\ (v.ack = "none" => v.acks = 0)
      /\ v.asked \in BOOLEAN /\ v.request \in BOOLEAN /\ v.cancelled \in BOOLEAN
  BY <1>1, OpenFields
<1>3. Near(v, v)
  BY <1>1 DEF Near
<1> DEFINE c == [v EXCEPT !.cancelled = TRUE]
<1>4. Near(c, v) /\ c.ended = v.ended /\ c.broken = v.broken
  BY <1>1, ZenonT(60) DEF Near, InvocationType
<1>5. CASE ~v.active
  BY <1>1, <1>3, <1>5, FinallyMoves DEF Enter
<1>6. CASE v.active /\ v.late /\ v.request
  <2>1. Enter(v) = Finally(c)
    BY <1>6 DEF Enter
  <2> HIDE DEF c
  <2>2. QED
    BY <1>1, <1>4, <2>1, FinallyMoves
<1>7. CASE v.active /\ v.late /\ ~v.request
  <2>1. Enter(v) = SendError(c, "expiring")
    BY <1>7 DEF Enter
  <2> HIDE DEF c
  <2>2. v.acks = 0 /\ Phase("expiring") = Phase(v.stage)
    BY <1>1, <1>2, <1>7, PhaseDone DEF Held
  <2>3. QED
    BY <1>1, <1>4, <2>1, <2>2, SendErrorMoves
<1>8. CASE v.active /\ ~v.late /\ v.cancelled
  BY <1>1, <1>3, <1>8, FinallyMoves DEF Enter
<1>9. CASE v.active /\ ~v.late /\ ~v.cancelled
  <2> DEFINE w == [v EXCEPT !.started = TRUE, !.stage = "running"]
  <2>1. Enter(v) = w
    BY <1>9 DEF Enter
  <2>2. /\ w.stage = "running" /\ w.at = v.at /\ w.asked = v.asked
        /\ w.request = v.request /\ w.cancelled = v.cancelled /\ w.ended = v.ended
        /\ w.ends = v.ends /\ w.broken = v.broken /\ w.acks = v.acks
    BY <1>1 DEF InvocationType
  <2>3. w \in InvocationType
    BY <1>1, <2>1, EnterOK DEF InvocationOK, Sound
  <2> HIDE DEF w
  <2>4. ~v.asked /\ v.acks = 0
    BY <1>1, <1>2, <1>9 DEF Told
  <2>5. Told(w)
    BY <1>1, <2>2 DEF Told, Sends
  <2>6. Starts(v, w)
    BY <1>1, <2>2, <2>4 DEF Starts, Same, Working
  <2>7. QED
    BY <2>1, <2>2, <2>3, <2>5, <2>6 DEF Moves
<1>10. QED
  BY <1>1, <1>5, <1>6, <1>7, <1>8, <1>9 DEF InvocationType

\* The cancellation of a task, from the dispatcher's timeout or from close().
LEMMA InterruptedMoves ==
    ASSUME NEW v, InvocationOK(v), Told(v), v.stage \in Busy \ {"leaving"}
    PROVE  Moves(v, Interrupted(v)) /\ Told(Interrupted(v))
<1>1. v \in InvocationType
  BY DEF InvocationOK, Sound
<1> DEFINE b == [v EXCEPT !.broken = TRUE]
<1>2. v.stage \in {"ready", "waiting", "expiring", "running", "ending", "failing"} => Open(v)
  BY DEF Open, Held, Working
<1>3. Near(v, v)
  BY <1>1 DEF Near, Told
<1>10. /\ b \in InvocationType /\ b.at = v.at /\ b.asked = v.asked /\ b.request = v.request
       /\ b.cancelled = v.cancelled /\ b.ends = v.ends /\ b.acks = v.acks /\ b.broken
       /\ b.ended = v.ended
  BY <1>1 DEF InvocationType
<1> HIDE DEF b
<1>11. v.stage \in Sends => Near(b, v)
  BY <1>10 DEF Near, Told
<1>4. CASE v.stage \in {"ready", "acking"}
  <2> DEFINE w == [v EXCEPT !.stage = "leaving"]
  <2>1. Interrupted(v) = w
    BY <1>4 DEF Interrupted
  <2>2. w.stage = "leaving" /\ w.at = v.at /\ w.asked = v.asked
        /\ w.request = v.request /\ w.cancelled = v.cancelled /\ w.ended = v.ended
        /\ w.ends = v.ends /\ w.broken = v.broken /\ w.acks = v.acks
        /\ w \in InvocationType
    BY <1>1 DEF InvocationType, Stages, Busy
  <2> HIDE DEF w
  <2>3. Told(w)
    BY <2>2 DEF Told, Sends
  <2>4. Phase(w.stage) = "done" /\ (v.stage = "acking" => Phase(v.stage) = "done")
    BY <2>2, PhaseDone
  <2>5. v.stage = "acking" => Quiet(v, w)
    BY <2>2, <2>4 DEF Quiet, Same
  <2>7. v.stage = "ready" => Frees(v, w)
    BY <2>2, <2>4 DEF Frees, Held
  <2>6. QED
    BY <1>4, <2>1, <2>2, <2>3, <2>5, <2>7 DEF Moves
<1>5. CASE v.stage = "waiting"
  BY <1>2, <1>3, <1>5, FinallyMoves DEF Interrupted
<1>6. CASE v.stage \in {"expiring", "failing"}
  <2>1. Interrupted(v) = Finally(b)
    BY <1>6 DEF Interrupted, b
  <2>2. Open(v) /\ Near(b, v)
    BY <1>2, <1>6, <1>11 DEF Sends
  <2>3. QED
    BY <2>1, <2>2, FinallyMoves
<1>7. CASE v.stage = "running"
  BY <1>2, <1>3, <1>7, HandlerFailedMoves DEF Interrupted
<1>8. CASE v.stage = "ending"
  <2>1. Interrupted(v) = HandlerFailed(b)
    BY <1>8 DEF Interrupted, b
  <2>2. Open(v) /\ Near(b, v) /\ b.broken /\ b.ended = v.ended
    BY <1>2, <1>8, <1>10, <1>11 DEF Sends
  <2>3. QED
    BY <1>8, <2>1, <2>2, HandlerFailedMoves
<1>9. QED
  BY <1>4, <1>5, <1>6, <1>7, <1>8 DEF Busy

\* Moves looks at no other field of v than these.
LEMMA MovesFrom ==
    ASSUME NEW v, NEW u, u.stage = v.stage, u.at = v.at, u.asked = v.asked, u.ends = v.ends,
           u.acks = v.acks, u.broken = v.broken, NEW w, Moves(u, w)
    PROVE  Moves(v, w)
BY DEF Moves, Hears, Quiet, Starts, Says, Frees, Acknowledges, Same

\* w differs from v in the stage alone, or in flags beside it that nobody sees.
LEMMA QuietMoves ==
    ASSUME NEW v, Told(v), NEW w \in InvocationType,
           w.at = v.at, w.asked = v.asked, w.request = v.request, w.ends = v.ends,
           w.acks = v.acks, w.broken = v.broken, v.cancelled => w.cancelled,
           w.ended => v.ends > 0, Phase(w.stage) = Phase(v.stage),
           w.stage \in Sends => v.ends > 0,
           w.stage \in {"none", "saturated"} => w.stage = v.stage /\ w.active = v.active
                                                /\ w.ack = v.ack
    PROVE  Moves(v, w) /\ Told(w)
<1>1. Told(w)
  BY DEF Told
<1>2. Quiet(v, w)
  BY DEF Quiet, Same
<1>3. QED
  BY <1>1, <1>2 DEF Moves

\* The steps of the task that serves a request, and of those that end it.
LEMMA ServingMoves ==
    ASSUME WorkersInv, ToldInv, NEW i \in Requests,
           \/ Begin(i) \/ Admit(i) \/ HandlerEnds(i) \/ HandlerReturns(i) \/ HandlerRaises(i)
           \/ SendReturns(i) \/ SendRaises(i) \/ HandlerTimeout(i) \/ Doomed(i)
    PROVE  \E w : Serve(i, w) /\ Moves(inv[i], w) /\ Told(w)
<1> DEFINE v == inv[i]
           Tells(w) == Moves(v, w) /\ Told(w)
<1>1. v \in InvocationType /\ InvocationOK(v) /\ Told(v)
  BY DEF WorkersInv, ToldInv
<1> SUFFICES \E w : Serve(i, w) /\ Tells(w)
  OBVIOUS
<1> HIDE DEF v
<1>2. ASSUME NEW w, Serve(i, w), Tells(w)
      PROVE  \E x : Serve(i, x) /\ Tells(x)
  BY <1>2
<1>3. v.stage \in Held \cup Working => Open(v)
  BY <1>1 DEF Open
<1>4. Near(v, v)
  BY <1>1 DEF Near, Told
<1>5. v.stage = "running" => Tells(HandlerFailed(v))
  BY <1>3, <1>4, HandlerFailedMoves DEF Working
<1>6. CASE Begin(i)
  <2>0. v.stage = "ready"
    BY <1>6 DEF Begin, Serving, v
  <2>1. CASE ~v.active
    <3> DEFINE w == [v EXCEPT !.finished = TRUE, !.stage = "leaving"]
    <3>1. Serve(i, w)
      BY <1>6, <2>1 DEF Begin, v
    <3>2. /\ w \in InvocationType /\ w.stage = "leaving" /\ w.at = v.at
          /\ w.ends = v.ends /\ w.acks = v.acks /\ w.asked = v.asked
          /\ w.request = v.request /\ w.broken = v.broken /\ w.ended = v.ended
          /\ w.cancelled = v.cancelled
      BY <1>1 DEF InvocationType, Stages, Busy
    <3> HIDE DEF w
    <3>3. Phase(w.stage) = "done"
      BY <3>2, PhaseDone
    <3>4. Frees(v, w)
      BY <2>0, <3>2, <3>3 DEF Frees, Held
    <3>5. Told(w)
      BY <1>1, <3>2 DEF Told, Sends
    <3>6. Tells(w)
      BY <3>2, <3>4, <3>5 DEF Moves
    <3>7. QED
      BY <1>2, <3>1, <3>6
  <2>2. CASE v.active /\ Free(v.by)
    <3>1. Serve(i, Enter(v))
      BY <1>6, <2>2 DEF Begin, v
    <3>2. Tells(Enter(v))
      BY <1>1, <2>0, EnterMoves
    <3>3. QED
      BY <1>2, <3>1, <3>2
  <2>3. CASE v.active /\ ~Free(v.by)
    <3> DEFINE w == [v EXCEPT !.stage = "waiting"]
    <3>1. Serve(i, w)
      BY <1>6, <2>3 DEF Begin, v
    <3>2. /\ w \in InvocationType /\ w.stage = "waiting" /\ w.at = v.at
          /\ w.ends = v.ends /\ w.acks = v.acks /\ w.asked = v.asked
          /\ w.request = v.request /\ w.broken = v.broken /\ w.ended = v.ended
          /\ w.cancelled = v.cancelled
      BY <1>1 DEF InvocationType, Stages, Busy
    <3> HIDE DEF w
    <3>3. Phase(w.stage) = Phase(v.stage)
      BY <2>0, <3>2, PhaseDone DEF Held
    <3>4. Tells(w)
      BY <1>1, <3>2, <3>3, QuietMoves DEF Told, Sends
    <3>5. QED
      BY <1>2, <3>1, <3>4
  <2>4. QED
    BY <1>1, <2>1, <2>2, <2>3 DEF InvocationType
<1>7. CASE Admit(i)
  <2>1. v.stage = "waiting" /\ Serve(i, Enter(v))
    BY <1>7 DEF Admit, Serving, v
  <2>2. Tells(Enter(v))
    BY <1>1, <2>1, EnterMoves
  <2>3. QED
    BY <1>2, <2>1, <2>2
<1>8. CASE HandlerEnds(i)
  <2>0. v.stage = "running"
    BY <1>8 DEF HandlerEnds, Serving, v
  <2>1. CASE CanAnswer(v)
    <3> DEFINE w == [v EXCEPT !.ends = @ + 1, !.stage = "ending"]
    <3>0. ~v.ended /\ v.ends = 0 /\ ~v.broken /\ v.acks = 0 /\ Current(v.at)
      BY <1>1, <1>3, <2>0, <2>1, OpenFields DEF CanAnswer, InvocationOK, Clear, Sends, Working
    <3>1. Serve(i, w)
      BY <1>8, <2>1 DEF HandlerEnds, v
    <3>2. /\ w \in InvocationType /\ w.stage = "ending" /\ w.at = v.at
          /\ w.ends = 1 /\ w.acks = v.acks /\ w.asked = v.asked
          /\ w.request = v.request /\ w.broken = v.broken /\ w.cancelled = v.cancelled
      <4>1. "ending" \in Stages /\ v.ends + 1 = 1 /\ 1 \in 0..3
        BY <3>0 DEF Stages, Busy
      <4>2. QED
        BY <1>1, <4>1 DEF InvocationType
    <3> HIDE DEF w
    <3>3. Phase(w.stage) = Phase(v.stage)
      BY <2>0, <3>2, PhaseDone DEF Working
    <3>4. Says(v, w)
      BY <2>0, <3>0, <3>2, <3>3 DEF Says, Working
    <3>5. Told(w)
      BY <1>1, <3>2 DEF Told
    <3>6. Tells(w)
      BY <3>2, <3>4, <3>5 DEF Moves
    <3>7. QED
      BY <1>2, <3>1, <3>6
  <2>2. CASE ~CanAnswer(v)
    <3>1. Serve(i, HandlerFailed(v))
      BY <1>8, <2>2 DEF HandlerEnds, v
    <3>2. QED
      BY <1>2, <1>5, <2>0, <3>1
  <2>3. QED
    BY <2>1, <2>2
<1>9. CASE HandlerReturns(i)
  <2> DEFINE u == [v EXCEPT !.silent = ~v.ended]
  <2>1. v.stage = "running" /\ Serve(i, Finally(u))
    BY <1>9 DEF HandlerReturns, Serving, v
  <2>2. /\ u \in InvocationType /\ u.at = v.at /\ u.asked = v.asked /\ u.request = v.request
        /\ u.cancelled = v.cancelled /\ u.ends = v.ends /\ u.acks = v.acks
        /\ u.broken = v.broken /\ u.ended = v.ended
    BY <1>1 DEF InvocationType
  <2> HIDE DEF u
  <2>3. Near(u, v)
    BY <1>1, <2>2 DEF Near, Told
  <2>4. Tells(Finally(u))
    BY <1>3, <2>1, <2>3, FinallyMoves DEF Working
  <2>5. QED
    BY <1>2, <2>1, <2>4
<1>10. CASE HandlerRaises(i)
  <2>1. v.stage = "running" /\ Serve(i, HandlerFailed(v))
    BY <1>10 DEF HandlerRaises, Serving, v
  <2>2. QED
    BY <1>2, <1>5, <2>1
<1> DEFINE e == [v EXCEPT !.ended = TRUE]
           b == [v EXCEPT !.broken = TRUE]
<1>11. v.stage \in Sends => Near(e, v) /\ Near(b, v) /\ b.broken /\ b.ended = v.ended
  <2>1. /\ e \in InvocationType /\ e.at = v.at /\ e.asked = v.asked /\ e.request = v.request
        /\ e.cancelled = v.cancelled /\ e.ends = v.ends /\ e.acks = v.acks
        /\ e.broken = v.broken
    BY <1>1 DEF InvocationType
  <2>2. /\ b \in InvocationType /\ b.at = v.at /\ b.asked = v.asked /\ b.request = v.request
        /\ b.cancelled = v.cancelled /\ b.ends = v.ends /\ b.acks = v.acks
        /\ b.broken /\ b.ended = v.ended
    BY <1>1 DEF InvocationType
  <2> HIDE DEF e, b
  <2>3. QED
    BY <1>1, <2>1, <2>2 DEF Near, Told
<1>12. CASE SendReturns(i)
  <2>1. CASE v.stage = "ending" /\ Serve(i, [e EXCEPT !.stage = "running"])
    <3> DEFINE w == [e EXCEPT !.stage = "running"]
    <3>1. Near(e, v)
      BY <1>11, <2>1 DEF Sends
    <3>2. e.broken = v.broken
      BY <1>1 DEF InvocationType
    <3> HIDE DEF e
    <3>3. /\ w \in InvocationType /\ w.stage = "running" /\ w.at = v.at
          /\ w.ends = v.ends /\ w.acks = v.acks /\ w.asked = v.asked
          /\ w.request = v.request /\ w.broken = v.broken
          /\ v.cancelled => w.cancelled
      BY <3>1, <3>2 DEF Near, InvocationType, Stages, Busy
    <3> HIDE DEF w
    <3>4. Phase(w.stage) = Phase(v.stage) /\ v.ends > 0
      BY <1>1, <2>1, <3>3, PhaseDone DEF Working, Told, Sends
    <3>5. Tells(w)
      BY <1>1, <3>3, <3>4, QuietMoves
    <3>6. QED
      BY <1>2, <2>1, <3>5 DEF w
  <2>2. CASE v.stage \in {"expiring", "failing"} /\ Serve(i, Finally(e))
    <3>1. Tells(Finally(e))
      BY <1>3, <1>11, <2>2, FinallyMoves DEF Held, Working, Sends
    <3>2. QED
      BY <1>2, <2>2, <3>1
  <2>3. CASE v.stage = "acking" /\ Serve(i, [v EXCEPT !.stage = "leaving"])
    <3> DEFINE w == [v EXCEPT !.stage = "leaving"]
    <3>1. /\ w \in InvocationType /\ w.stage = "leaving" /\ w.at = v.at
          /\ w.ends = v.ends /\ w.acks = v.acks /\ w.asked = v.asked
          /\ w.request = v.request /\ w.broken = v.broken /\ w.ended = v.ended
          /\ w.cancelled = v.cancelled
      BY <1>1 DEF InvocationType, Stages, Busy
    <3> HIDE DEF w
    <3>2. Phase(w.stage) = Phase(v.stage)
      BY <2>3, <3>1, PhaseDone
    <3>3. Tells(w)
      BY <1>1, <3>1, <3>2, QuietMoves DEF Told, Sends
    <3>4. QED
      BY <1>2, <2>3, <3>3 DEF w
  <2>4. QED
    BY <1>12, <2>1, <2>2, <2>3 DEF SendReturns, Serving, v
<1>13. CASE SendRaises(i)
  <2>1. CASE v.stage = "ending" /\ Serve(i, HandlerFailed(b))
    <3>1. Tells(HandlerFailed(b))
      BY <1>3, <1>11, <2>1, HandlerFailedMoves DEF Working, Sends
    <3>2. QED
      BY <1>2, <2>1, <3>1
  <2>2. CASE v.stage \in {"expiring", "failing"} /\ Serve(i, Finally(b))
    <3>1. Tells(Finally(b))
      BY <1>3, <1>11, <2>2, FinallyMoves DEF Held, Working, Sends
    <3>2. QED
      BY <1>2, <2>2, <3>1
  <2>3. QED
    BY <1>13, <2>1, <2>2 DEF SendRaises, Serving, v
<1>14. ASSUME NEW u, Alike(u, v), u.at = v.at, u.stage = v.stage, u.finished = v.finished,
              u.active = v.active,
              v.stage \in Busy \ {"leaving"}, Serve(i, Interrupted(u))
       PROVE  \E x : Serve(i, x) /\ Tells(x)
  <2>1. InvocationOK(u)
    BY <1>1, <1>14, AlikeOK
  <2>2. Told(u)
    BY <1>1, <1>14 DEF Alike, Told
  <2>3. Moves(u, Interrupted(u)) /\ Told(Interrupted(u))
    BY <1>14, <2>1, <2>2, InterruptedMoves
  <2>4. Tells(Interrupted(u))
    BY <1>14, <2>3, MovesFrom DEF Alike
  <2>5. QED
    BY <1>2, <1>14, <2>4
<1>15. CASE HandlerTimeout(i)
  <2> DEFINE u == [v EXCEPT !.timedOut = TRUE]
  <2>1. Alike(u, v) /\ u.stage = v.stage /\ u.finished = v.finished
    BY <1>1 DEF InvocationType, Alike
  <2>2. u.at = v.at /\ u.active = v.active
    BY <1>1 DEF InvocationType
  <2>3. v.stage \in Busy \ {"leaving"} /\ Serve(i, Interrupted(u))
    BY <1>15 DEF HandlerTimeout, Serving, v
  <2> HIDE DEF u
  <2>4. QED
    BY <1>14, <2>1, <2>2, <2>3
<1>16. CASE Doomed(i)
  <2> DEFINE u == [v EXCEPT !.doomed = FALSE]
  <2>1. Alike(u, v) /\ u.stage = v.stage /\ u.finished = v.finished
    BY <1>1 DEF InvocationType, Alike
  <2>2. u.at = v.at /\ u.active = v.active
    BY <1>1 DEF InvocationType
  <2>3. v.stage \in Busy \ {"leaving"} /\ Serve(i, Interrupted(u))
    BY <1>16 DEF Doomed, v
  <2> HIDE DEF u
  <2>4. QED
    BY <1>14, <2>1, <2>2, <2>3
<1>17. QED
  BY <1>6, <1>7, <1>8, <1>9, <1>10, <1>12, <1>13, <1>15, <1>16 DEF v

\* The terminate() task of a refused request.
LEMMA RefuseMoves ==
    ASSUME WorkersInv, ToldInv, NEW i \in Requests, Refuse(i)
    PROVE  \E w : Serve(i, w) /\ Moves(inv[i], w) /\ Told(w)
<1> DEFINE v == inv[i]
           Tells(w) == Moves(v, w) /\ Told(w)
           Yield(u) == IF Online THEN [u EXCEPT !.acks = @ + 1, !.stage = "yielding"]
                       ELSE [u EXCEPT !.stage = "over"]
<1>1. v \in InvocationType /\ InvocationOK(v) /\ Told(v)
  BY DEF WorkersInv, ToldInv
<1> SUFFICES \E w : Serve(i, w) /\ Tells(w)
  OBVIOUS
<1>2. Refuse(i) /\ v = inv[i]
  OBVIOUS
<1> HIDE DEF v
<1>3. ASSUME NEW w, Serve(i, w), Tells(w)
      PROVE  \E x : Serve(i, x) /\ Tells(x)
  BY <1>3
<1>4. v.stage \in {"saturated", "refusing"} => Open(v)
  BY <1>1 DEF Open, Held
<1>5. ASSUME NEW u, Near(u, v), Open(v), Online => v.ends > 0 \/ v.at # generation
      PROVE  Tells(Yield(u))
  <2>1. /\ v.acks \in 0..1 /\ u.acks = v.acks /\ u.acks + 1 \in 0..2 /\ u \in InvocationType
        /\ v.stage \in Held \cup Working
    BY <1>5, OpenFields DEF Near, Open
  <2> DEFINE w == Yield(u)
  <2>2. w \in InvocationType
    BY <2>1 DEF InvocationType, Stages
  <2>3. /\ w.stage \in {"yielding", "over"} /\ w.at = u.at /\ w.asked = u.asked
        /\ w.request = u.request /\ w.cancelled = u.cancelled /\ w.ended = u.ended
        /\ w.ends = u.ends /\ w.broken = u.broken
    BY <2>1 DEF InvocationType
  <2>4. w.acks = u.acks \/ (Online /\ w.acks = u.acks + 1)
    BY <2>1 DEF InvocationType
  <2> HIDE DEF w
  <2>5. Phase(w.stage) = "done"
    BY <2>3, PhaseDone
  <2>6. Told(w)
    BY <1>1, <1>5, <2>3 DEF Told, Near, Sends
  <2>7. Frees(v, w)
    BY <1>5, <2>1, <2>3, <2>4, <2>5 DEF Frees, Near
  <2>8. Moves(v, w)
    BY <1>5, <2>2, <2>3, <2>7 DEF Moves, Near
  <2>9. QED
    BY <2>6, <2>8 DEF w
<1>6. CASE v.stage = "saturated"
  <2>1. /\ v.ends = 0 /\ ~v.ended /\ v.acks = 0 /\ Near(v, v) /\ Open(v)
    BY <1>1, <1>4, <1>6, OpenFields DEF InvocationOK, Early, Told, Near
  <2>2. CASE CanAnswer(v)
    <3> DEFINE w == [v EXCEPT !.ends = @ + 1, !.stage = "refusing"]
    <3>1. Serve(i, w)
      BY <1>2, <1>6, <2>2 DEF Refuse
    <3>2. /\ w \in InvocationType /\ w.stage = "refusing" /\ w.at = v.at
          /\ w.ends = 1 /\ w.acks = v.acks /\ w.asked = v.asked
          /\ w.request = v.request /\ w.broken = v.broken /\ w.cancelled = v.cancelled
      <4>1. "refusing" \in Stages /\ v.ends + 1 = 1 /\ 1 \in 0..3
        BY <2>1 DEF Stages
      <4>2. QED
        BY <1>1, <4>1 DEF InvocationType
    <3> HIDE DEF w
    <3>3. Phase(w.stage) = Phase(v.stage)
      BY <1>6, <3>2, PhaseDone DEF Held
    <3>4. Says(v, w)
      BY <1>6, <2>1, <2>2, <3>2, <3>3 DEF Says, Held, CanAnswer
    <3>5. Told(w)
      BY <1>1, <3>2 DEF Told
    <3>6. Tells(w)
      BY <3>2, <3>4, <3>5 DEF Moves
    <3>7. QED
      BY <1>3, <3>1, <3>6
  <2>3. CASE ~CanAnswer(v)
    <3>1. Serve(i, Yield(v))
      BY <1>2, <1>6, <2>3 DEF Refuse
    <3>2. Online => v.at # generation
      BY <2>1, <2>3 DEF CanAnswer, Current
    <3> HIDE DEF Yield
    <3>3. QED
      BY <1>3, <1>5, <2>1, <3>1, <3>2
  <2>4. QED
    BY <2>2, <2>3
<1>7. CASE v.stage = "refusing"
  <2>1. PICK u \in {[v EXCEPT !.ended = TRUE], [v EXCEPT !.broken = TRUE]} : Serve(i, Yield(u))
    BY <1>2, <1>7 DEF Refuse
  <2>2. v.ends > 0
    BY <1>1, <1>7 DEF Told, Sends
  <2>3. /\ u \in InvocationType /\ u.at = v.at /\ u.asked = v.asked /\ u.request = v.request
        /\ u.cancelled = v.cancelled /\ u.ends = v.ends /\ u.acks = v.acks
        /\ u.broken = v.broken \/ u.broken
    BY <1>1, ZenonT(60) DEF InvocationType
  <2> HIDE DEF Yield
  <2>4. Near(u, v)
    BY <2>2, <2>3 DEF Near
  <2>5. QED
    BY <1>3, <1>4, <1>5, <1>7, <2>1, <2>2, <2>4
<1>8. CASE v.stage = "yielding"
  <2> DEFINE w == [v EXCEPT !.stage = "over"]
  <2>1. Serve(i, w)
    BY <1>2, <1>8 DEF Refuse
  <2>2. /\ w \in InvocationType /\ w.stage = "over" /\ w.at = v.at
        /\ w.ends = v.ends /\ w.acks = v.acks /\ w.asked = v.asked
        /\ w.request = v.request /\ w.broken = v.broken /\ w.ended = v.ended
        /\ w.cancelled = v.cancelled
    BY <1>1 DEF InvocationType, Stages
  <2> HIDE DEF w
  <2>3. Phase(w.stage) = Phase(v.stage)
    BY <1>8, <2>2, PhaseDone
  <2>4. Tells(w)
    BY <1>1, <2>2, <2>3, QuietMoves DEF Told, Sends
  <2>5. QED
    BY <1>3, <2>1, <2>4
<1>9. QED
  BY <1>2, <1>6, <1>7, <1>8 DEF Refuse

\* The broker's cancellation, the clean-up task and the deadline.
LEMMA CancellationMoves ==
    ASSUME WorkersInv, ToldInv, NEW i \in Requests,
           CancelRequested(i) \/ CleanupAck(i) \/ BudgetEnds(i)
    PROVE  \E w : Serve(i, w) /\ Moves(inv[i], w) /\ Told(w)
<1> DEFINE v == inv[i]
           Tells(w) == Moves(v, w) /\ Told(w)
<1>1. /\ v \in InvocationType /\ InvocationOK(v) /\ Told(v)
  BY DEF WorkersInv, ToldInv
<1>2. v = inv[i]
  OBVIOUS
<1> SUFFICES \E w : Serve(i, w) /\ Tells(w)
  OBVIOUS
<1> HIDE DEF v
<1>3. ASSUME NEW w, Serve(i, w), Tells(w)
      PROVE  \E x : Serve(i, x) /\ Tells(x)
  BY <1>3
<1>4. CASE CancelRequested(i)
  <2> DEFINE c == [v EXCEPT !.asked = TRUE, !.request = TRUE, !.cancelled = TRUE]
             w == IF c.finished \/ ~c.started THEN [c EXCEPT !.ack = "created"] ELSE c
  <2>1. Serve(i, w) /\ v.active /\ ~v.asked /\ Current(v.at)
    BY <1>2, <1>4 DEF CancelRequested
  <2>2. v.stage \notin {"none", "saturated"}
    BY <1>1, <2>1 DEF Told
  <2>3. /\ c \in InvocationType /\ c.stage = v.stage /\ c.at = v.at
        /\ c.ends = v.ends /\ c.broken = v.broken /\ c.ended = v.ended
        /\ c.asked /\ c.request /\ c.cancelled /\ c.acks = v.acks
    BY <1>1 DEF InvocationType
  <2> HIDE DEF c
  <2>4. /\ w \in InvocationType /\ w.stage = v.stage /\ w.at = v.at
        /\ w.ends = v.ends /\ w.broken = v.broken /\ w.ended = v.ended
        /\ w.asked /\ w.request /\ w.cancelled /\ w.acks = v.acks
    BY <2>3 DEF InvocationType
  <2> HIDE DEF w
  <2>5. Told(w)
    BY <1>1, <2>2, <2>4 DEF Told
  <2>6. Hears(v, w)
    BY <2>1, <2>2, <2>4 DEF Hears, Same
  <2>7. QED
    BY <1>3, <2>1, <2>4, <2>5, <2>6 DEF Moves
<1>5. CASE CleanupAck(i)
  <2> DEFINE f == [v EXCEPT !.active = FALSE]
             w == IF v.ack = "created"
                  THEN IF Online THEN [f EXCEPT !.acks = @ + 1, !.ack = "sending"]
                       ELSE [f EXCEPT !.ack = "over"]
                  ELSE [v EXCEPT !.ack = "over"]
  <2>1. Serve(i, w) /\ v.ack \in {"created", "sending"}
    BY <1>2, <1>5 DEF CleanupAck
  <2>2. /\ v.acks \in 0..2 /\ (v.ack = "created" => v.acks \in 0..1)
        /\ v.stage \notin {"none", "saturated"} /\ v.stage \notin Working /\ v.asked
    <3>1. v.acks \in 0..2
      BY <1>1 DEF InvocationType
    <3>2. QED
      BY <1>1, <2>1, <3>1 DEF Told, InvocationOK, Sound, AckBound, Working
  <2>3. /\ f \in InvocationType /\ f.stage = v.stage /\ f.at = v.at
        /\ f.ends = v.ends /\ f.broken = v.broken /\ f.ended = v.ended /\ f.asked = v.asked
        /\ f.request = v.request /\ f.cancelled = v.cancelled /\ f.acks = v.acks
    BY <1>1 DEF InvocationType
  <2> HIDE DEF f
  <2>4. CASE v.ack = "created" /\ Online
    <3> DEFINE x == [f EXCEPT !.acks = @ + 1, !.ack = "sending"]
    <3>1. x \in InvocationType /\ x.acks = v.acks + 1
      <4>1. f.acks + 1 \in 0..2
        BY <2>2, <2>3, <2>4
      <4>2. QED
        BY <2>3, <4>1 DEF InvocationType
    <3>2. /\ x.stage = v.stage /\ x.at = v.at /\ x.ends = v.ends
          /\ x.broken = v.broken /\ x.ended = v.ended /\ x.asked = v.asked
          /\ x.request = v.request /\ x.cancelled = v.cancelled
      BY <2>3 DEF InvocationType
    <3>3. Serve(i, x)
      BY <2>1, <2>4
    <3> HIDE DEF x, w
    <3>4. Told(x)
      BY <1>1, <2>2, <3>2 DEF Told
    <3>5. Acknowledges(v, x)
      BY <2>2, <2>4, <3>1, <3>2 DEF Acknowledges, Same
    <3>6. QED
      BY <1>3, <3>1, <3>2, <3>3, <3>4, <3>5 DEF Moves
  <2>5. CASE ~(v.ack = "created" /\ Online)
    <3>1. /\ w \in InvocationType /\ w.stage = v.stage /\ w.at = v.at
          /\ w.ends = v.ends /\ w.broken = v.broken /\ w.ended = v.ended
          /\ w.asked = v.asked /\ w.request = v.request /\ w.cancelled = v.cancelled
          /\ w.acks = v.acks
      BY <1>1, <2>3, <2>5 DEF InvocationType
    <3> HIDE DEF w
    <3>2. Tells(w)
      BY <1>1, <2>2, <3>1, QuietMoves DEF Told
    <3>3. QED
      BY <1>3, <2>1, <3>2
  <2>6. QED
    BY <2>4, <2>5
<1>6. CASE BudgetEnds(i)
  <2> DEFINE w == [v EXCEPT !.late = TRUE, !.cancelled = @ \/ v.active]
  <2>1. Serve(i, w) /\ v.stage \notin {"none", "saturated"}
    BY <1>2, <1>6 DEF BudgetEnds
  <2>2. /\ w \in InvocationType /\ w.stage = v.stage /\ w.at = v.at
        /\ w.ends = v.ends /\ w.broken = v.broken /\ w.ended = v.ended
        /\ w.asked = v.asked /\ w.request = v.request /\ w.acks = v.acks
        /\ v.cancelled => w.cancelled
    BY <1>1 DEF InvocationType
  <2> HIDE DEF w
  <2>3. Tells(w)
    BY <1>1, <2>1, <2>2, QuietMoves DEF Told
  <2>4. QED
    BY <1>3, <2>1, <2>3
<1>7. QED
  BY <1>4, <1>5, <1>6

LEMMA ToldKeeps ==
    ASSUME ToldInv, inv \in [Requests -> InvocationType], NEW i \in Requests, NEW w, Told(w),
           inv' = [inv EXCEPT ![i] = w]
    PROVE  ToldInv'
BY DEF ToldInv

\* A request arrives.
LEMMA DeliverRefines ==
    ASSUME WorkersInv, RegistrationTypeOK, SessionTypeOK, ToldInv, NEW i \in Requests, Deliver(i)
    PROVE  [Contract!ServeNext]_(Contract!serveVars) /\ ToldInv'
<1> DEFINE v == inv[i]
           n == [v EXCEPT !.at = generation, !.by = worker, !.active = TRUE]
           a == View(v)
           Arrives(w) ==
               /\ inv' = [inv EXCEPT ![i] = w]
               /\ w.stage \in {"ready", "queued", "saturated", "dropped"} /\ w.at = generation
               /\ w.ends = v.ends /\ w.acks = v.acks /\ w.broken = v.broken
               /\ w.asked = v.asked /\ Told(w)
<1>1. /\ inv \in [Requests -> InvocationType] /\ v \in InvocationType /\ Told(v)
      /\ v.stage = "none" /\ Online /\ UNCHANGED session
  BY DEF WorkersInv, ToldInv, Deliver, Serve, Rest
<1>2. /\ n \in InvocationType /\ n.at = generation /\ n.ends = v.ends
      /\ n.acks = v.acks /\ n.broken = v.broken /\ n.asked = v.asked /\ n.request = v.request
      /\ n.cancelled = v.cancelled /\ n.ended = v.ended /\ n.ack = v.ack
  <2>1. generation \in 0..MaxGeneration /\ worker \in Workers \cup {Nobody}
    BY SessionAssumption DEF SessionTypeOK, RegistrationTypeOK
  <2>2. QED
    BY <1>1, <2>1 DEF InvocationType
<1>3. \E w : Arrives(w)
  <2>1. CASE worker = Nobody
    <3> DEFINE w == [v EXCEPT !.stage = "dropped", !.at = generation]
    <3>1. inv' = [inv EXCEPT ![i] = w]
      BY <2>1 DEF Deliver, Serve
    <3>2. /\ w.stage = "dropped" /\ w.at = generation /\ w.ends = v.ends /\ w.acks = v.acks
          /\ w.broken = v.broken /\ w.asked = v.asked /\ w.request = v.request
          /\ w.cancelled = v.cancelled /\ w.ended = v.ended
      BY <1>1 DEF InvocationType
    <3> HIDE DEF w
    <3>3. Told(w)
      BY <1>1, <3>2 DEF Told, Sends
    <3>4. QED
      BY <3>1, <3>2, <3>3
  <2>2. ASSUME NEW stage \in {"ready", "queued"}, inv' = [inv EXCEPT ![i] = [n EXCEPT !.stage = stage]]
        PROVE  \E w : Arrives(w)
    <3> DEFINE w == [n EXCEPT !.stage = stage]
    <3>0. inv' = [inv EXCEPT ![i] = w]
      BY <2>2
    <3> HIDE DEF n
    <3>2. /\ w.stage = stage /\ w.at = generation /\ w.ends = v.ends /\ w.acks = v.acks
          /\ w.broken = v.broken /\ w.asked = v.asked /\ w.request = v.request
          /\ w.cancelled = v.cancelled /\ w.ended = v.ended
      BY <1>2 DEF InvocationType
    <3> HIDE DEF w
    <3>3. Told(w)
      BY <1>1, <3>2 DEF Told, Sends
    <3>4. QED
      BY <3>0, <3>2, <3>3
  <2>3. CASE inv' = [inv EXCEPT ![i] = [n EXCEPT !.active = FALSE, !.stage = "saturated"]]
    <3> DEFINE w == [n EXCEPT !.active = FALSE, !.stage = "saturated"]
    <3>0. inv' = [inv EXCEPT ![i] = w]
      BY <2>3
    <3> HIDE DEF n
    <3>2. /\ w.stage = "saturated" /\ w.at = generation /\ w.ends = v.ends /\ w.acks = v.acks
          /\ w.broken = v.broken /\ w.asked = v.asked /\ w.request = v.request
          /\ w.cancelled = v.cancelled /\ w.ended = v.ended /\ ~w.active /\ w.ack = v.ack
      BY <1>2 DEF InvocationType
    <3> HIDE DEF w
    <3>3. Told(w)
      BY <1>1, <3>2 DEF Told, Sends
    <3>4. QED
      BY <3>0, <3>2, <3>3
  <2>4. QED
    BY <2>1, <2>2, <2>3 DEF Deliver, Serve
<1>4. PICK w : Arrives(w)
  BY <1>3
<1>5. ToldInv'
  BY <1>1, <1>4, ToldKeeps
<1>6. /\ reqBar' = [reqBar EXCEPT ![i] = View(w)] /\ reqBar[i] = a
      /\ UNCHANGED <<Online, generation>>
  BY <1>1, <1>4, ViewMoves DEF reqBar, Online, session
<1> HIDE DEF v, n
<1>7. /\ a = Broker("new", v.at, v.ends, v.broken, v.asked, v.acks)
      /\ View(w) = Broker(Phase(w.stage), generation, v.ends, v.broken, v.asked, v.acks)
      /\ Phase(w.stage) \in {"held", "done"}
  BY <1>1, <1>4 DEF View, Broker, Phase, Held, Working
<1> HIDE DEF a
<1>8. View(w) = [a EXCEPT !.phase = Phase(w.stage), !.home = generation]
  <2> DEFINE m == [a EXCEPT !.phase = Phase(w.stage)]
  <2>1. m = Broker(Phase(w.stage), v.at, v.ends, v.broken, v.asked, v.acks)
    BY <1>7 DEF Broker
  <2>2. [a EXCEPT !.phase = Phase(w.stage), !.home = generation] = [m EXCEPT !.home = generation]
    OBVIOUS
  <2> HIDE DEF m
  <2>3. View(w) = [m EXCEPT !.home = generation]
    BY <1>7, <2>1 DEF Broker
  <2>4. QED
    BY <2>2, <2>3
<1>9. a.phase = "new"
  BY <1>7 DEF Broker
<1>10. Contract!Take(i)
  BY <1>1, <1>6, <1>7, <1>8, <1>9 DEF Contract!Take, Contract!Becomes, reqBar
<1>11. QED
  BY <1>5, <1>10 DEF Contract!ServeNext

\* Steps after which the broker can tell nothing new of any request.
Unseen(w, v) ==
    /\ View(w) = View(v)
    /\ Told(w)

LEMMA UnseenOK ==
    ASSUME NEW v, Told(v), NEW w, Phase(w.stage) = Phase(v.stage), w.at = v.at,
           w.ends = v.ends, w.broken = v.broken, w.asked = v.asked, w.acks = v.acks,
           w.request = v.request, w.ended = v.ended, w.ack = v.ack,
           v.cancelled => w.cancelled, w.active => v.active,
           w.stage = v.stage \/ w.stage \in {"ready", "over"}
    PROVE  Unseen(w, v)
BY DEF Unseen, View, Told, Sends

LEMMA UnseenRefines ==
    ASSUME NEW F, inv' = [j \in Requests |-> F[j]], \A j \in Requests : Unseen(F[j], inv[j])
    PROVE  reqBar' = reqBar /\ ToldInv'
BY DEF reqBar, ToldInv, Unseen

LEMMA StutterRefines ==
    ASSUME reqBar' = reqBar, UNCHANGED <<Online, generation>>
    PROVE  [Contract!ServeNext]_(Contract!serveVars)
<1>1. Contract!serveVars' = Contract!serveVars
  BY DEF Contract!serveVars, reqBar
<1>2. QED
  BY <1>1

\* The dispatcher is told of a finished task, and starts the next one.
LEMMA CompletedRefines ==
    ASSUME WorkersInv, ToldInv, NEW i \in Requests, Completed(i)
    PROVE  [Contract!ServeNext]_(Contract!serveVars) /\ ToldInv'
<1> DEFINE h == Head(waiting)
           To(v, stage) == [v EXCEPT !.stage = stage]
<1>1. /\ inv \in [Requests -> InvocationType] /\ inv[i].stage = "leaving"
      /\ \A j \in Requests : inv[j] \in InvocationType /\ Told(inv[j])
      /\ UNCHANGED session
  BY DEF WorkersInv, ToldInv, Completed, Serve, Rest
<1>2. ASSUME NEW j \in Requests, NEW stage \in {"ready", "over"},
             Phase(stage) = Phase(inv[j].stage)
      PROVE  Unseen(To(inv[j], stage), inv[j])
  <2> DEFINE v == inv[j]
             w == To(v, stage)
  <2>1. v \in InvocationType /\ Told(v)
    BY <1>1
  <2> HIDE DEF v
  <2>2. /\ w.stage = stage /\ w.at = v.at
        /\ w.ends = v.ends /\ w.broken = v.broken /\ w.asked = v.asked /\ w.acks = v.acks
        /\ w.request = v.request /\ w.ended = v.ended /\ w.ack = v.ack
        /\ w.cancelled = v.cancelled /\ w.active = v.active
    BY <2>1 DEF InvocationType
  <2>3. Phase(w.stage) = Phase(v.stage)
    BY <1>2, <2>2 DEF v
  <2> HIDE DEF w
  <2>4. Unseen(w, v)
    BY <2>1, <2>2, <2>3, UnseenOK
  <2>5. QED
    BY <2>4 DEF v, w
<1>3. Phase("over") = Phase(inv[i].stage) /\ Phase("ready") = Phase("queued")
  BY <1>1, PhaseDone DEF Held
<1>4. Unseen(To(inv[i], "over"), inv[i]) /\ \A j \in Requests : Unseen(inv[j], inv[j])
  BY <1>1, <1>2, <1>3 DEF Unseen
<1>5. reqBar' = reqBar /\ ToldInv'
  <2>1. CASE stopped \/ waiting = <<>>
    <3> DEFINE F == [inv EXCEPT ![i] = To(inv[i], "over")]
    <3>1. inv' = F
      BY <2>1 DEF Completed, Serve
    <3>2. \A j \in Requests : F[j] = IF j = i THEN To(inv[i], "over") ELSE inv[j]
      BY <1>1
    <3>3. inv' = [j \in Requests |-> F[j]]
      BY <1>1, <3>1
    <3> HIDE DEF F, To
    <3>4. \A j \in Requests : Unseen(F[j], inv[j])
      BY <1>4, <3>2
    <3>5. QED
      BY <3>3, <3>4, UnseenRefines
  <2>2. CASE ~(stopped \/ waiting = <<>>)
    <3>1. h \in Requests /\ inv[h].stage = "queued"
      <4>1. waiting \in Seq(Requests) /\ waiting # <<>> /\ h = waiting[1] /\ 1 \in 1..Len(waiting)
        BY <2>2 DEF WorkersInv, WaitersQueued
      <4>2. QED
        BY <4>1 DEF WorkersInv, WaitersQueued
    <3>2. h # i
      BY <1>1, <3>1
    <3>3. Unseen(To(inv[h], "ready"), inv[h])
      BY <1>2, <1>3, <3>1
    <3> DEFINE F == [inv EXCEPT ![i].stage = "over", ![h].stage = "ready"]
    <3>4. inv' = F
      BY <2>2 DEF Completed
    <3> HIDE DEF h
    <3>5. F = [inv EXCEPT ![i] = To(inv[i], "over"), ![h] = To(inv[h], "ready")]
      BY <1>1, <3>1, <3>2
    <3> HIDE DEF F, To
    <3>6. \A j \in Requests : F[j] = IF j = i THEN To(inv[i], "over")
                                     ELSE IF j = h THEN To(inv[h], "ready") ELSE inv[j]
      BY <1>1, <3>1, <3>2, <3>5
    <3>7. inv' = [j \in Requests |-> F[j]]
      BY <1>1, <3>4, <3>5
    <3>8. \A j \in Requests : Unseen(F[j], inv[j])
      BY <1>4, <3>3, <3>6
    <3>9. QED
      BY <3>7, <3>8, UnseenRefines
  <2>3. QED
    BY <2>1, <2>2
<1>6. QED
  BY <1>1, <1>5, StutterRefines DEF session, Online

\* _disconnect forgets every invocation.
LEMMA DisconnectedRefines ==
    ASSUME WorkersInv, ToldInv, Disconnected
    PROVE  [Contract!ServeNext]_(Contract!serveVars) /\ ToldInv'
<1> DEFINE closing == mode = "closing"
           Drop(v) == [v EXCEPT !.active = FALSE, !.cancelled = @ \/ v.active,
                                !.doomed = closing /\ v.stage \in Busy \ {"leaving"}]
<1>1. inv' = [j \in Requests |-> Drop(inv[j])]
  BY DEF Disconnected, WorkersDisconnected
<1>2. UNCHANGED <<Online, generation>>
  BY DEF Disconnected, Notified, Online
<1>3. ASSUME NEW j \in Requests PROVE Unseen(Drop(inv[j]), inv[j])
  <2> DEFINE v == inv[j]
             w == Drop(v)
  <2>1. v \in InvocationType /\ Told(v)
    BY DEF WorkersInv, ToldInv
  <2> HIDE DEF v
  <2>2. /\ w.stage = v.stage /\ w.at = v.at
        /\ w.ends = v.ends /\ w.broken = v.broken /\ w.asked = v.asked /\ w.acks = v.acks
        /\ w.request = v.request /\ w.ended = v.ended /\ w.ack = v.ack
        /\ v.cancelled => w.cancelled
        /\ ~w.active
    BY <2>1 DEF InvocationType
  <2> HIDE DEF w
  <2>3. Unseen(w, v)
    BY <2>1, <2>2, UnseenOK
  <2>4. QED
    BY <2>3 DEF v, w
<1> DEFINE F == [j \in Requests |-> Drop(inv[j])]
<1>4. inv' = [j \in Requests |-> F[j]] /\ \A j \in Requests : F[j] = Drop(inv[j])
  BY <1>1
<1> HIDE DEF F, Drop
<1>5. \A j \in Requests : Unseen(F[j], inv[j])
  BY <1>3, <1>4
<1>6. QED
  BY <1>2, <1>4, <1>5, UnseenRefines, StutterRefines

LEMMA InvStutters ==
    ASSUME ToldInv, UNCHANGED inv
    PROVE  reqBar' = reqBar /\ ToldInv'
BY DEF reqBar, ToldInv

\* A session ends and another begins.
LEMMA SessionRefines ==
    ASSUME ToldInv, LoseSession \/ Reconnected \/ Restored
    PROVE  [Contract!ServeNext]_(Contract!serveVars) /\ ToldInv'
<1>1. UNCHANGED inv
  BY DEF LoseSession, WorkersLost, Reconnected, WorkersReconnected, Restored, workerVars
<1>2. reqBar' = reqBar /\ ToldInv'
  BY <1>1, InvStutters
<1>3. CASE LoseSession
  <2>1. CASE Online
    <3>1. ~Online' /\ UNCHANGED generation
      BY <1>3 DEF LoseSession, Lose, Close, Online
    <3>2. Online = TRUE /\ Online' = FALSE
      BY <2>1, <3>1 DEF Online
    <3>3. Contract!SessionEnds
      BY <1>2, <3>1, <3>2 DEF Contract!SessionEnds, reqBar
    <3>4. QED
      BY <1>2, <3>3 DEF Contract!ServeNext
  <2>2. CASE ~Online
    <3>1. UNCHANGED <<Online, generation>>
      BY <1>3, <2>2 DEF LoseSession, Lose, Close, Online
    <3>2. QED
      BY <1>2, <3>1, StutterRefines
  <2>3. QED
    BY <2>1, <2>2
<1>4. CASE Reconnected
  <2>1. ~Online /\ Online' = TRUE /\ generation' = generation + 1
    BY <1>4 DEF Reconnected, Reconnect, Online
  <2>2. Contract!SessionBegins
    BY <1>2, <2>1 DEF Contract!SessionBegins, reqBar
  <2>3. QED
    BY <1>2, <2>2 DEF Contract!ServeNext
<1>5. CASE Restored
  <2>1. UNCHANGED <<Online, generation>>
    BY <1>5 DEF Restored, Online
  <2>2. QED
    BY <1>2, <2>1, StutterRefines
<1>6. QED
  BY <1>3, <1>4, <1>5

LEMMA RequestRefines ==
    ASSUME RpcInv, ToldInv, NEW i \in Requests, RequestSteps(i) \/ RequestFaults(i)
    PROVE  [Contract!ServeNext]_(Contract!serveVars) /\ ToldInv'
<1>1. /\ WorkersInv /\ SessionTypeOK /\ RegistrationTypeOK
      /\ inv \in [Requests -> InvocationType]
  BY DEF RpcInv, WorkersInv
<1>2. CASE Deliver(i)
  BY <1>1, <1>2, DeliverRefines
<1>3. CASE Completed(i)
  BY <1>1, <1>3, CompletedRefines
<1>4. CASE ~Deliver(i) /\ ~Completed(i)
  <2>1. PICK w : Serve(i, w) /\ Moves(inv[i], w) /\ Told(w)
    <3>1. CASE \/ Begin(i) \/ Admit(i) \/ HandlerEnds(i) \/ HandlerReturns(i) \/ HandlerRaises(i)
               \/ SendReturns(i) \/ SendRaises(i) \/ HandlerTimeout(i) \/ Doomed(i)
      BY <1>1, <3>1, ServingMoves
    <3>2. CASE Refuse(i)
      BY <1>1, <3>2, RefuseMoves
    <3>3. CASE CancelRequested(i) \/ CleanupAck(i) \/ BudgetEnds(i)
      BY <1>1, <3>3, CancellationMoves
    <3>4. QED
      BY <1>4, <3>1, <3>2, <3>3 DEF RequestSteps, RequestFaults
  <2>2. inv' = [inv EXCEPT ![i] = w] /\ UNCHANGED session
    BY <2>1 DEF Serve, Rest
  <2>3. QED
    BY <1>1, <2>1, <2>2, MovesRefine, ToldKeeps
<1>5. QED
  BY <1>2, <1>3, <1>4

\* Every step of the client is a step of the contract or a stutter.
LEMMA StepServes ==
    ASSUME RpcInv, ToldInv, [Next]_vars
    PROVE  [Contract!ServeNext]_(Contract!serveVars) /\ ToldInv'
<1>1. ASSUME UNCHANGED <<session, inv>>
      PROVE  [Contract!ServeNext]_(Contract!serveVars) /\ ToldInv'
  BY <1>1, InvStutters, StutterRefines DEF session, Online
<1>2. CASE UNCHANGED vars
  BY <1>1, <1>2 DEF vars, workerVars
<1>3. CASE Next
  <2>1. CASE (\E c \in Calls : CallStep(c) \/ CallFaults(c)) /\ UNCHANGED workerVars
    <3>1. UNCHANGED session
      BY <2>1, CallStepKeeps
    <3>2. QED
      BY <1>1, <2>1, <3>1 DEF workerVars
  <2>2. CASE (\E i \in Requests : RequestSteps(i) \/ RequestFaults(i)) /\ UNCHANGED call
    BY <2>2, RequestRefines
  <2>3. CASE (RegistrationSteps \/ WireCancelled) /\ UNCHANGED call
    <3>1. RegistrationTypeOK
      BY DEF RpcInv
    <3>2. UNCHANGED <<session, inv>>
      BY <2>3, <3>1, RegistrationKeeps
    <3>3. QED
      BY <1>1, <3>2
  <2>4. CASE LoseSession \/ Reconnected \/ Restored
    BY <2>4, SessionRefines
  <2>5. CASE Disconnected
    BY <2>5, DisconnectedRefines DEF RpcInv
  <2>6. QED
    BY <1>3, <2>1, <2>2, <2>3, <2>4, <2>5 DEF Next, Step, Fault
<1>4. QED
  BY <1>2, <1>3

\* Whatever deadline, timeout, cancellation, refusal or loss meets a request
\* (rpc.py:79-104, 527-535, 617-692), the worker's side keeps the promises of
\* ServeContract, for every number of requests and sessions and every limit of the
\* dispatcher: no handler gets a request twice or after the broker cancelled it, no
\* answer leaves its session or follows an acknowledgement, and none of both is said
\* twice without a reason.
THEOREM KeepsServeContract == Spec => ServesByContract
<1>1. Init => Contract!ServeInit /\ ToldInv
  <2> SUFFICES ASSUME Init PROVE Contract!ServeInit /\ ToldInv
    OBVIOUS
  <2>1. inv = [i \in Requests |-> Undelivered] /\ mode = "up" /\ generation = 1
    BY DEF Init, WorkersInit, SessionInit
  <2>2. Told(Undelivered)
    BY DEF Told, Undelivered, Sends
  <2>3. View(Undelivered) = Contract!Unsent
    BY DEF View, Undelivered, Phase, Held, Working, Contract!Unsent
  <2>4. reqBar = [i \in Requests |-> Contract!Unsent]
    BY <2>1, <2>3 DEF reqBar
  <2>5. Online = TRUE
    BY <2>1 DEF Online
  <2>6. QED
    BY <2>1, <2>2, <2>4, <2>5 DEF Contract!ServeInit, ToldInv, reqBar
<1>2. RpcInv /\ ToldInv /\ [Next]_vars => [Contract!ServeNext]_(Contract!serveVars) /\ ToldInv'
  BY StepServes
<1>3. QED
  BY <1>1, <1>2, Invariance, PTL DEF Spec, ServesByContract, Contract!ServeSpec
==============================================================================
