--------------------------- MODULE LifecycleProof ---------------------------
(***************************************************************************)
(* Dispatcher implements DeliveryLifecycle while replays do not overlap.   *)
(***************************************************************************)
EXTENDS DispatcherProof

\* At most one goroutine works on a delivery, and none on one whose record is
\* final.
OneWorker ==
    \A v, w \in Workers : Live(v) /\ Live(w) /\ Job(v) = Job(w) => v = w
FinalIsIdle ==
    \A w \in Workers : Live(w) => status[Job(w)] \notin Final

\* At most one replay is between its check and its reset, and what it checked
\* still holds.
OneReplay ==
    \A r, q \in Replays : rpc[r] = "checked" /\ rpc[q] = "checked" => r = q
CheckHolds ==
    \A r \in Replays : rpc[r] = "checked" => status[target[r]] = "dead_letter"

SerialInv ==
    /\ IInv
    /\ OneWorker
    /\ FinalIsIdle
    /\ OneReplay
    /\ CheckHolds

-----------------------------------------------------------------------------

\* The invariant holds initially.
LEMMA InitSerialInv == Init => SerialInv
BY InitIInv DEF Init, SerialInv, OneWorker, FinalIsIdle, OneReplay, CheckHolds, Live

\* A delivery with a live goroutine.
Busy(d) == \E w \in Workers : Live(w) /\ Job(w) = d

\* A delivery that Emit comes to is not being worked on.
LEMMA FreshIsIdle ==
    ASSUME IInv, NEW e \in Events, EmitTo(e)
    PROVE  ~ Busy(<<e, next[e]>>)
<1>1. PICK n \in Deliveries : n = <<e, next[e]>>
  BY NextIsFresh DEF IInv
<1>2. status[n] = "absent" /\ wpc[n] = "none"
  BY <1>1, NextIsFresh DEF IInv
<1>3. ASSUME NEW w \in Workers, Live(w), Job(w) = n PROVE FALSE
  <2>1. w \in Replays /\ Job(w) = target[w]
    BY <1>2, <1>3, JobOfDelivery DEF Live, Workers, Job
  <2>2. rpc[w] = "accepted"
    BY <1>3, <2>1 DEF Live, IInv, ReplaysNamed
  <2> QED
    BY <1>2, <1>3, <2>1, <2>2 DEF IInv, ReplaysNamed
<1> QED
  BY <1>1, <1>3 DEF Busy

\* Which goroutines Emit, a goroutine and a replay leave live: Emit and a
\* replay start one, a final outcome ends one.
LEMMA EmitLive ==
    ASSUME IInv, NEW e \in Events, EmitTo(e)
    PROVE  \E n \in Deliveries :
              /\ n = <<e, next[e]>> /\ n \in Workers /\ Job(n) = n
              /\ status[n] = "absent" /\ ~ Busy(n)
              /\ \A w \in Workers : Live(w)' <=> Live(w) \/ w = n
              /\ UNCHANGED target
              /\ \E s \in {"absent", "pending"} : status' = [status EXCEPT ![n] = s]
<1>1. PICK n \in Deliveries : n = <<e, next[e]>> /\ n \in Workers /\ Job(n) = n
  BY NextIsFresh, JobOfDelivery DEF IInv
<1>2. status[n] = "absent" /\ ~ Busy(n)
  BY <1>1, NextIsFresh, FreshIsIdle DEF IInv
<1>3. /\ wpc' = [wpc EXCEPT ![n] = "posting"]
      /\ status' = [status EXCEPT ![n] = "pending"] \/ status' = status
      /\ UNCHANGED target
  BY <1>1 DEF EmitTo, Spawn, CreateDelivery, records, replayVars
<1>4. \A w \in Workers : Live(w)' <=> Live(w) \/ w = n
  BY <1>1, <1>3 DEF Live, IInv, TypeOK
<1>5. \E s \in {"absent", "pending"} : status' = [status EXCEPT ![n] = s]
  BY <1>2, <1>3 DEF IInv, TypeOK
<1> QED
  BY <1>1, <1>2, <1>3, <1>4, <1>5

\* What a step of a goroutine does to its delivery and to who is live.
LEMMA WorkLive ==
    ASSUME IInv, NEW v \in Workers, WorkNext(v)
    PROVE  /\ Live(v) /\ Job(v) \in Deliveries /\ UNCHANGED <<rpc, target>>
           /\ \/ /\ Post(v) \/ RecordFailed(v)
                 /\ \A w \in Workers : Live(w)' <=> Live(w)
                 /\ \/ status' = status
                    \/ status' = [status EXCEPT ![Job(v)] =
                                    IF @ = "absent" THEN @ ELSE "failed"]
              \/ /\ RecordDelivered(v) \/ RecordDeadLetter(v)
                 /\ \A w \in Workers : Live(w)' <=> Live(w) /\ w # v
                 /\ \/ status' = status
                    \/ \E s \in Final :
                          status' = [status EXCEPT ![Job(v)] =
                                       IF @ = "absent" THEN @ ELSE s]
<1> USE DEF IInv, TypeOK, records, replayVars, Live, Final
<1>1. Live(v)
  BY DEF WorkNext, Post, RecordDelivered, RecordFailed, RecordDeadLetter
<1>2. Job(v) \in Deliveries
  BY <1>1, JobType
<1>3. CASE Post(v) \/ RecordFailed(v)
  BY <1>1, <1>2, <1>3 DEF Post, RecordFailed, UpdateDelivery
<1>4. CASE RecordDelivered(v) \/ RecordDeadLetter(v)
  <2>1. PICK s \in Final : Finish(v, s)
    BY <1>4 DEF RecordDelivered, RecordDeadLetter
  <2>2. \A w \in Workers : Live(w)' <=> Live(w) /\ w # v
    BY <2>1 DEF Finish
  <2> QED
    BY <1>1, <1>2, <1>4, <2>1, <2>2 DEF Finish, UpdateDelivery
<1> QED
  BY <1>3, <1>4 DEF WorkNext

\* What a replay request does to goroutines and records.
LEMMA ReplayLive ==
    ASSUME SerialInv, NEW r \in Replays, ReplayNext(r)
    PROVE  /\ \A q \in Replays \ {r} : rpc'[q] = rpc[q] /\ target'[q] = target[q]
           /\ rpc[r] \in {"idle", "checked"}
           /\ \/ /\ MayReplay(r) /\ UNCHANGED <<status, wpc>>
                 /\ rpc'[r] = "checked" => status[target'[r]] = "dead_letter"
              \/ /\ rpc[r] = "checked" /\ rpc'[r] # "checked" /\ UNCHANGED target
                 /\ target[r] \in Deliveries /\ status[target[r]] = "dead_letter"
                 /\ \/ /\ status' = [status EXCEPT ![target[r]] = "pending"]
                       /\ \A w \in Workers : Live(w)' <=> Live(w) \/ w = r
                    \/ /\ status' = [status EXCEPT ![target[r]] = "pending"]
                       /\ UNCHANGED wpc
                    \/ UNCHANGED <<status, wpc>>
<1> USE DEF SerialInv, IInv, TypeOK, records, workVars
<1>1. ASSUME NEW d \in Deliveries, ReplayCheck(r, d)
      PROVE  /\ MayReplay(r) /\ rpc[r] = "idle" /\ UNCHANGED <<status, wpc>>
             /\ \A q \in Replays \ {r} : rpc'[q] = rpc[q] /\ target'[q] = target[q]
             /\ rpc'[r] = "checked" => status[target'[r]] = "dead_letter"
  BY <1>1 DEF ReplayCheck, MayReplay
<1>2. CASE ReplayReset(r) \/ ReplayResetFails(r)
  <2>1. /\ rpc[r] = "checked" /\ rpc'[r] # "checked" /\ UNCHANGED target
        /\ \A q \in Replays \ {r} : rpc'[q] = rpc[q]
    BY <1>2 DEF ReplayReset, ReplayResetFails
  <2>2. target[r] \in Deliveries /\ status[target[r]] = "dead_letter"
    BY <2>1 DEF ReplaysNamed, CheckHolds
  <2>3. UpdateDelivery(target[r], "pending")
            => status' = [status EXCEPT ![target[r]] = "pending"]
    BY <2>2 DEF UpdateDelivery
  <2>4. CASE ReplayReset(r)
    <3>1. \A w \in Workers : Live(w)' <=> Live(w) \/ w = r
      BY <2>4 DEF ReplayReset, Spawn, Live, Workers
    <3> QED
      BY <2>1, <2>2, <2>3, <2>4, <3>1 DEF ReplayReset
  <2>5. CASE ReplayResetFails(r)
    BY <2>1, <2>2, <2>3, <2>5 DEF ReplayResetFails
  <2> QED
    BY <1>2, <2>4, <2>5
<1> QED
  BY <1>1, <1>2 DEF ReplayNext

\* Everything else leaves records, goroutines and replays alone, or is a kill,
\* which ends all goroutines and all replays between check and reset.
LEMMA OtherLive ==
    ASSUME IInv, [Next]_vars, ~ \E e \in Events : EmitTo(e),
           ~ \E w \in Workers : WorkNext(w), ~ \E r \in Replays : ReplayNext(r)
    PROVE  /\ UNCHANGED <<status, target>>
           /\ \/ UNCHANGED <<wpc, rpc>>
              \/ /\ \A w \in Workers : ~ Live(w)'
                 /\ \A r \in Replays : rpc'[r] # "checked"
<1>1. CASE Crash
  BY <1>1 DEF Crash, Live, records
<1>2. CASE \E e \in Events : Commit(e) \/ EmitReturns(e)
  BY <1>2 DEF Commit, EmitReturns, records, workVars, replayVars
<1>3. CASE UNCHANGED vars
  BY <1>3 DEF vars
<1> QED
  BY <1>1, <1>2, <1>3 DEF Next, EmitNext

-----------------------------------------------------------------------------
(***************************************************************************)
(* The invariant of replays that do not overlap.                           *)
(***************************************************************************)
LEMMA SerialStep ==
    ASSUME SerialInv, SerialReplays, [Next]_vars
    PROVE  OneWorker' /\ FinalIsIdle' /\ OneReplay' /\ CheckHolds'
<1> USE DEF SerialInv
<1> DEFINE Goal == OneWorker' /\ FinalIsIdle' /\ OneReplay' /\ CheckHolds'
<1>1. ASSUME NEW w \in Workers, Live(w)
      PROVE  Job(w)' = Job(w) /\ Job(w) \in Deliveries
  BY <1>1, WorkKept, JobType DEF IInv, Live
<1>2. \A d \in Deliveries : status[d] \in Final => ~ Busy(d)
  BY DEF FinalIsIdle, Busy
<1>3. ASSUME NEW n \in Deliveries, NEW v \in Workers, Job(v)' = n, ~ Busy(n),
             \A w \in Workers : Live(w)' <=> Live(w) \/ w = v,
             status'[n] \notin Final,
             \A d \in Deliveries \ {n} : status'[d] = status[d]
      PROVE  OneWorker' /\ FinalIsIdle'
  <2>1. \A w \in Workers : Live(w)' => w = v \/ (Live(w) /\ Job(w)' = Job(w) /\ Job(w) # n)
    BY <1>1, <1>3 DEF Busy
  <2>2. OneWorker'
    BY <1>3, <2>1 DEF OneWorker
  <2>3. FinalIsIdle'
    BY <1>1, <1>3, <2>1 DEF FinalIsIdle, Final
  <2> QED
    BY <2>2, <2>3
<1>4. ASSUME NEW e \in Events, EmitTo(e) PROVE Goal
  <2>1. PICK n \in Deliveries :
           /\ n \in Workers /\ Job(n) = n /\ status[n] = "absent" /\ ~ Busy(n)
           /\ \A w \in Workers : Live(w)' <=> Live(w) \/ w = n
           /\ \E s \in {"absent", "pending"} : status' = [status EXCEPT ![n] = s]
    BY <1>4, EmitLive
  <2>2. Job(n)' = n
    BY JobOfDelivery DEF Job
  <2>3. /\ status'[n] \notin Final
        /\ \A d \in Deliveries \ {n} : status'[d] = status[d]
    BY <2>1 DEF IInv, TypeOK, Final
  <2>4. OneWorker' /\ FinalIsIdle'
    BY <1>3, <2>1, <2>2, <2>3
  <2>5. UNCHANGED <<rpc, target>>
    BY <1>4 DEF EmitTo, replayVars
  <2>6. OneReplay' /\ CheckHolds'
    BY <2>1, <2>3, <2>5 DEF OneReplay, CheckHolds, IInv, ReplaysNamed
  <2> QED
    BY <2>4, <2>6
<1>5. ASSUME NEW v \in Workers, WorkNext(v) PROVE Goal
  <2>1. /\ Live(v) /\ Job(v) \in Deliveries /\ UNCHANGED <<rpc, target>>
        /\ \A w \in Workers : Live(w)' => Live(w)
    BY <1>5, WorkLive DEF IInv
  <2>2. \A d \in Deliveries \ {Job(v)} : status'[d] = status[d]
    BY <1>5, <2>1, WorkLive DEF IInv, TypeOK
  <2>3. status'[Job(v)] \in Final => ~ Live(v)'
    BY <1>5, <2>1, WorkLive DEF IInv, TypeOK, FinalIsIdle, Final
  <2>4. OneWorker'
    BY <1>1, <2>1 DEF OneWorker
  <2>5. FinalIsIdle'
    BY <1>1, <2>1, <2>2, <2>3 DEF OneWorker, FinalIsIdle
  <2>6. OneReplay' /\ CheckHolds'
    BY <1>2, <2>1, <2>2 DEF OneReplay, CheckHolds, FinalIsIdle, Final, IInv,
       ReplaysNamed
  <2> QED
    BY <2>4, <2>5, <2>6
<1>6. ASSUME NEW r \in Replays, ReplayNext(r) PROVE Goal
  <2>1. OneReplay' /\ CheckHolds'
    BY <1>6, ReplayLive DEF MayReplay, OneReplay, CheckHolds, IInv, TypeOK,
       ReplaysNamed
  <2>2. CASE UNCHANGED <<status, wpc>>
    <3>1. \A w \in Workers : Live(w)' <=> Live(w)
      BY <2>2 DEF Live
    <3> QED
      BY <1>1, <2>1, <2>2, <3>1 DEF OneWorker, FinalIsIdle
  <2>3. CASE ~ UNCHANGED <<status, wpc>>
    <3>1. /\ UNCHANGED target
          /\ target[r] \in Deliveries /\ status[target[r]] = "dead_letter"
          /\ status' = [status EXCEPT ![target[r]] = "pending"]
          /\ \/ \A w \in Workers : Live(w)' <=> Live(w) \/ w = r
             \/ UNCHANGED wpc
      BY <1>6, <2>3, ReplayLive
    <3>2. r \in Workers /\ Job(r)' = target[r] /\ ~ Busy(target[r])
      BY <1>2, <3>1 DEF Workers, Job, Final
    <3>3. /\ status'[target[r]] \notin Final
          /\ \A d \in Deliveries \ {target[r]} : status'[d] = status[d]
      BY <3>1 DEF IInv, TypeOK, Final
    <3>4. CASE \A w \in Workers : Live(w)' <=> Live(w) \/ w = r
      BY <1>3, <2>1, <3>1, <3>2, <3>3, <3>4
    <3>5. CASE UNCHANGED wpc
      <4>1. \A w \in Workers : Live(w)' <=> Live(w)
        BY <3>5 DEF Live
      <4> QED
        BY <1>1, <2>1, <3>3, <4>1 DEF OneWorker, FinalIsIdle
    <3> QED
      BY <3>1, <3>4, <3>5
  <2> QED
    BY <2>2, <2>3
<1>7. ASSUME ~ \E e \in Events : EmitTo(e), ~ \E w \in Workers : WorkNext(w),
             ~ \E r \in Replays : ReplayNext(r)
      PROVE  Goal
  <2>1. CASE UNCHANGED <<status, target, wpc, rpc>>
    <3>1. \A w \in Workers : Live(w)' <=> Live(w)
      BY <2>1 DEF Live
    <3> QED
      BY <1>1, <2>1, <3>1 DEF OneWorker, FinalIsIdle, OneReplay, CheckHolds
  <2>2. CASE /\ \A w \in Workers : ~ Live(w)'
             /\ \A r \in Replays : rpc'[r] # "checked"
    BY <2>2 DEF OneWorker, FinalIsIdle, OneReplay, CheckHolds
  <2> QED
    BY <1>7, <2>1, <2>2, OtherLive
<1> QED
  BY <1>4, <1>5, <1>6, <1>7

-----------------------------------------------------------------------------
(***************************************************************************)
(* Each step of Dispatcher is one of DeliveryLifecycle, or a stutter.      *)
(***************************************************************************)
BusyMap == [d \in Deliveries |-> \E w \in Workers : Live(w) /\ Job(w) = d]

\* When the goroutines of one delivery change, busy changes there alone.
LEMMA BusyExcept ==
    ASSUME NEW n \in Deliveries, NEW b \in BOOLEAN,
           \A d \in Deliveries : Busy(d)' <=> IF d = n THEN b ELSE Busy(d)
    PROVE  BusyMap' = [BusyMap EXCEPT ![n] = b]
<1>1. \A d \in Deliveries : BusyMap'[d] = [BusyMap EXCEPT ![n] = b][d]
  BY Zenon DEF BusyMap, Busy
<1> QED
  BY <1>1 DEF BusyMap

\* The busy flags are the same when the busy deliveries are.
LEMMA BusySame ==
    ASSUME \A d \in Deliveries : Busy(d)' <=> Busy(d)
    PROVE  BusyMap' = BusyMap
BY Zenon DEF BusyMap, Busy

\* A step that starts or ends a goroutine changes busy for its delivery.
LEMMA BusyStarts ==
    ASSUME IInv, [Next]_vars, NEW v \in Workers, NEW n \in Deliveries,
           Job(v)' = n, \A w \in Workers : Live(w)' <=> Live(w) \/ w = v,
           Live(v) => Job(v) = n
    PROVE  BusyMap' = [BusyMap EXCEPT ![n] = TRUE]
<1>1. \A w \in Workers : Live(w) => Job(w)' = Job(w)
  BY WorkKept DEF IInv, Live
<1>2. \A d \in Deliveries : Busy(d)' <=> IF d = n THEN TRUE ELSE Busy(d)
  BY <1>1 DEF Busy
<1> QED
  BY <1>2, BusyExcept

\* When the only goroutine of a delivery ends, the delivery is no longer busy.
LEMMA BusyEnds ==
    ASSUME IInv, OneWorker, [Next]_vars, NEW v \in Workers, Live(v),
           Job(v) \in Deliveries, \A w \in Workers : Live(w)' <=> Live(w) /\ w # v
    PROVE  BusyMap' = [BusyMap EXCEPT ![Job(v)] = FALSE]
<1>1. \A w \in Workers : Live(w) => Job(w)' = Job(w)
  BY WorkKept DEF IInv, Live
<1>2. \A d \in Deliveries : Busy(d)' <=> IF d = Job(v) THEN FALSE ELSE Busy(d)
  BY <1>1 DEF Busy, OneWorker
<1> QED
  BY <1>2, BusyExcept

\* When no goroutine starts or ends, the same deliveries are busy.
LEMMA BusyStays ==
    ASSUME IInv, [Next]_vars, \A w \in Workers : Live(w)' <=> Live(w)
    PROVE  BusyMap' = BusyMap
<1>1. \A w \in Workers : Live(w) => Job(w)' = Job(w)
  BY WorkKept DEF IInv, Live
<1>2. \A d \in Deliveries : Busy(d)' <=> Busy(d)
  BY <1>1 DEF Busy
<1> QED
  BY <1>2, BusySame

\* What busy is of a delivery.
LEMMA BusyOf ==
    ASSUME NEW d \in Deliveries
    PROVE  (BusyMap[d] <=> Busy(d)) /\ BusyMap = [x \in Deliveries |-> BusyMap[x]]
BY Zenon DEF BusyMap, Busy

\* Every step is a step of DeliveryLifecycle or leaves its state alone.
LEMMA StepLifecycle ==
    ASSUME SerialInv, [Next]_vars
    PROVE  [Lifecycle!Next]_(Lifecycle!lifecycle)
<1> USE DEF SerialInv
<1>1. ASSUME NEW e \in Events, EmitTo(e) PROVE Lifecycle!Next
  <2>1. PICK n \in Deliveries :
           /\ n \in Workers /\ Job(n) = n /\ status[n] = "absent" /\ ~ Busy(n)
           /\ \A w \in Workers : Live(w)' <=> Live(w) \/ w = n
           /\ \E s \in {"absent", "pending"} : status' = [status EXCEPT ![n] = s]
    BY <1>1, EmitLive
  <2>2. Job(n)' = n
    BY JobOfDelivery DEF Job
  <2>3. BusyMap' = [BusyMap EXCEPT ![n] = TRUE] /\ ~ BusyMap[n]
    BY <2>1, <2>2, BusyStarts, BusyOf
  <2>4. Lifecycle!Start(n)
    BY <2>1, <2>3 DEF Lifecycle!Start, Lifecycle!Become, BusyMap
  <2> QED
    BY <2>4 DEF Lifecycle!Next
<1>2. ASSUME NEW v \in Workers, WorkNext(v)
      PROVE  [Lifecycle!Next]_(Lifecycle!lifecycle)
  <2>1. PICK n \in Deliveries :
           Live(v) /\ Job(v) = n /\ status[n] \in {"absent", "pending", "failed"}
    BY <1>2, WorkLive DEF IInv, TypeOK, FinalIsIdle
  <2>2. BusyMap[n]
    BY <2>1, BusyOf DEF Busy
  <2>3. CASE \A w \in Workers : Live(w)' <=> Live(w)
    <3>1. BusyMap' = BusyMap /\ BusyMap = [BusyMap EXCEPT ![n] = TRUE]
      BY <2>2, <2>3, BusyStays, BusyOf DEF BusyMap
    <3>2. \/ status' = status
          \/ status[n] = "pending" /\ status' = [status EXCEPT ![n] = "failed"]
      BY <1>2, <2>1, <2>3, WorkLive DEF IInv, TypeOK
    <3>3. CASE status' = status
      BY <3>1, <3>3 DEF Lifecycle!lifecycle, BusyMap
    <3>4. CASE status[n] = "pending" /\ status' = [status EXCEPT ![n] = "failed"]
      <4>1. Lifecycle!Fail(n)
        BY <2>2, <3>1, <3>4 DEF Lifecycle!Fail, Lifecycle!Become, BusyMap
      <4> QED
        BY <4>1 DEF Lifecycle!Next
    <3> QED
      BY <3>2, <3>3, <3>4
  <2>4. CASE \A w \in Workers : Live(w)' <=> Live(w) /\ w # v
    <3>1. BusyMap' = [BusyMap EXCEPT ![n] = FALSE]
      BY <2>1, <2>4, BusyEnds
    <3>2. \/ status' = [status EXCEPT ![n] = status[n]]
          \/ /\ status[n] \in {"pending", "failed"}
             /\ \E s \in {"delivered", "dead_letter"} : status' = [status EXCEPT ![n] = s]
      BY <1>2, <2>1, <2>4, WorkLive DEF IInv, TypeOK, Final
    <3>3. CASE status' = [status EXCEPT ![n] = status[n]]
      <4>1. Lifecycle!GiveUp(n)
        BY <2>2, <3>1, <3>3 DEF Lifecycle!GiveUp, Lifecycle!Become, BusyMap
      <4> QED
        BY <4>1 DEF Lifecycle!Next
    <3>4. CASE /\ status[n] \in {"pending", "failed"}
               /\ \E s \in {"delivered", "dead_letter"} : status' = [status EXCEPT ![n] = s]
      <4>1. Lifecycle!Settle(n)
        BY <2>2, <3>1, <3>4 DEF Lifecycle!Settle, Lifecycle!Become, BusyMap
      <4> QED
        BY <4>1 DEF Lifecycle!Next
    <3> QED
      BY <3>2, <3>3, <3>4
  <2> QED
    BY <1>2, <2>3, <2>4, WorkLive
<1>3. ASSUME NEW r \in Replays, ReplayNext(r)
      PROVE  [Lifecycle!Next]_(Lifecycle!lifecycle)
  <2>1. CASE UNCHANGED <<status, wpc>>
    <3>1. \A w \in Workers : Live(w)' <=> Live(w)
      BY <2>1 DEF Live
    <3>2. BusyMap' = BusyMap
      BY <3>1, BusyStays
    <3> QED
      BY <2>1, <3>2 DEF Lifecycle!lifecycle, BusyMap
  <2>2. CASE ~ UNCHANGED <<status, wpc>>
    <3>1. PICK n \in Deliveries :
             /\ n = target[r] /\ target' = target /\ status[n] = "dead_letter"
             /\ status' = [status EXCEPT ![n] = "pending"]
             /\ \/ \A w \in Workers : Live(w)' <=> Live(w) \/ w = r
                \/ UNCHANGED wpc
      BY <1>3, <2>2, ReplayLive
    <3>2. r \in Workers /\ Job(r)' = n /\ Job(r) = n
      BY <3>1 DEF Workers, Job
    <3>3. ~ Busy(n) /\ ~ BusyMap[n]
      BY <3>1, BusyOf DEF FinalIsIdle, Busy, Final
    <3>4. \E b \in BOOLEAN : BusyMap' = [BusyMap EXCEPT ![n] = b]
      <4>1. CASE \A w \in Workers : Live(w)' <=> Live(w) \/ w = r
        BY <3>1, <3>2, <4>1, BusyStarts
      <4>2. CASE UNCHANGED wpc
        <5>1. \A d \in Deliveries : Busy(d)' <=> IF d = n THEN FALSE ELSE Busy(d)
          BY <3>1, <3>3, <4>2 DEF Busy, Live, Job
        <5> QED
          BY <5>1, BusyExcept
      <4> QED
        BY <3>1, <4>1, <4>2
    <3>5. Lifecycle!Revive(n)
      BY <3>1, <3>3, <3>4 DEF Lifecycle!Revive, Lifecycle!Become, BusyMap
    <3> QED
      BY <3>5 DEF Lifecycle!Next
  <2> QED
    BY <2>1, <2>2
<1>4. ASSUME ~ \E e \in Events : EmitTo(e), ~ \E w \in Workers : WorkNext(w),
             ~ \E r \in Replays : ReplayNext(r)
      PROVE  [Lifecycle!Next]_(Lifecycle!lifecycle)
  <2>1. status' = status
    BY <1>4, OtherLive
  <2>2. CASE UNCHANGED wpc
    <3>1. \A w \in Workers : Live(w)' <=> Live(w)
      BY <2>2 DEF Live
    <3>2. BusyMap' = BusyMap
      BY <3>1, BusyStays
    <3> QED
      BY <2>1, <3>2 DEF Lifecycle!lifecycle, BusyMap
  <2>3. CASE \A w \in Workers : ~ Live(w)'
    <3>1. BusyMap' = [d \in Deliveries |-> FALSE]
      BY <2>3, Zenon DEF BusyMap
    <3>2. Lifecycle!Kill
      BY <2>1, <3>1 DEF Lifecycle!Kill, BusyMap
    <3> QED
      BY <3>2 DEF Lifecycle!Next
  <2> QED
    BY <1>4, <2>2, <2>3, OtherLive
<1> QED
  BY <1>1, <1>2, <1>3, <1>4

\* The initial states are initial states of DeliveryLifecycle.
LEMMA InitLifecycle == Init => Lifecycle!Init
<1> SUFFICES ASSUME Init PROVE Lifecycle!Init
  OBVIOUS
<1>1. \A w \in Workers : ~ Live(w)
  BY DEF Init, Live
<1>2. [d \in Deliveries |-> \E w \in Workers : Live(w) /\ Job(w) = d]
        = [d \in Deliveries |-> FALSE]
  BY <1>1, Zenon
<1> QED
  BY <1>2 DEF Init, Lifecycle!Init

\* When replays do not overlap, then for any number of events, URLs, replays,
\* attempts, kills and failed writes a delivery keeps the promise of
\* DeliveryLifecycle: one goroutine at a time, delivered is final, and
\* dead_letter is left only for a replay.
THEOREM ImplementsLifecycle == SerialReplays => (Spec => LifecycleSpec)
<1> SUFFICES ASSUME SerialReplays PROVE Spec => LifecycleSpec
  OBVIOUS
<1>1. SerialInv /\ [Next]_vars => SerialInv'
  BY StepIInv, SerialStep DEF SerialInv
<1>2. SerialInv /\ [Next]_vars => [Lifecycle!Next]_(Lifecycle!lifecycle)
  BY StepLifecycle
<1> QED
  BY InitSerialInv, InitLifecycle, <1>1, <1>2, PTL
     DEF Spec, LifecycleSpec, Lifecycle!Spec

\* Only a delivery in dead_letter is replayed, while replays do not overlap.
THEOREM ReplaysOnlyDeadLetter == SerialReplays => (Spec => ReplaysDeadLetter)
<1> SUFFICES ASSUME SerialReplays PROVE Spec => ReplaysDeadLetter
  OBVIOUS
<1>1. SerialInv /\ [Next]_vars => SerialInv'
  BY StepIInv, SerialStep DEF SerialInv
<1>2. SerialInv => \A r \in Replays :
          rpc[r] = "checked" /\ rpc'[r] = "accepted" => status[target[r]] = "dead_letter"
  BY DEF SerialInv, CheckHolds
<1> QED
  BY InitSerialInv, <1>1, <1>2, PTL DEF Spec, ReplaysDeadLetter
=============================================================================
