--------------------------- MODULE DispatcherProof ---------------------------
(***************************************************************************)
(* The inductive invariant behind the safety properties of Dispatcher.     *)
(***************************************************************************)
EXTENDS Dispatcher, FiniteSetTheorems, TLAPS

\* A URL that Emit has not come to has neither a record nor a goroutine.
UrlsInTurn ==
    \A d \in Deliveries :
        next[d[1]] <= d[2] => status[d] = "absent" /\ wpc[d] = "none"

\* A replay names its delivery when it has looked at it, that delivery has a
\* record if the replay goes on, and its goroutine starts with its answer 202.
ReplaysNamed ==
    \A r \in Replays :
        /\ rpc[r] \in {"checked", "accepted"}
              => target[r] \in Deliveries /\ status[target[r]] # "absent"
        /\ rpc[r] # "accepted" => wpc[r] = "none"

\* How many posts a goroutine has made, and whether one was answered 2xx,
\* shows in where it is.
AttemptsAtPC ==
    \A w \in Workers :
        /\ wpc[w] = "none" => attempt[w] = 0
        /\ wpc[w] = "posting" => attempt[w] < MaxAttempts
        /\ wpc[w] = "exhausted" => attempt[w] = MaxAttempts
        /\ wpc[w] = "ok" => w \in acked
        /\ w \in acked => wpc[w] \in {"ok", "done", "dead"}

IInv ==
    /\ TypeOK
    /\ UrlsInTurn
    /\ ReplaysNamed
    /\ AttemptsAtPC
    /\ DeliveredWasAcked
    /\ DeadLetterExhausted
    /\ NoSilentDrop
    /\ HintsContiguous

-----------------------------------------------------------------------------
(***************************************************************************)
(* Deliveries and goroutines.                                              *)
(***************************************************************************)

\* There are finitely many deliveries.
LEMMA DeliveriesFinite ==
    IsFiniteSet(Deliveries) /\ Cardinality(Deliveries) \in Nat
<1>1. IsFiniteSet(1..NUrls)
  BY DispatcherAssumption, FS_Interval
<1>2. IsFiniteSet(Deliveries)
  BY <1>1, DispatcherAssumption, FS_Product DEF Deliveries
<1> QED
  BY <1>2, FS_CardinalityType

\* A goroutine that Emit started works on the delivery it is named by.
LEMMA JobOfDelivery ==
    ASSUME NEW d \in Deliveries
    PROVE  d \in Workers /\ d \notin Replays /\ Job(d) = d
BY DispatcherAssumption DEF Workers, Job

\* A goroutine that has started works on a delivery.
LEMMA JobType ==
    ASSUME ReplaysNamed, NEW w \in Workers, wpc[w] # "none"
    PROVE  Job(w) \in Deliveries
BY DEF ReplaysNamed, Workers, Job

-----------------------------------------------------------------------------
(***************************************************************************)
(* Sequence hints.                                                         *)
(***************************************************************************)

\* The next hint of an aggregate is one more than the number of its records,
\* and there is room for it while some delivery has no record.
LEMMA NextHintCounts ==
    ASSUME TypeOK, HintsContiguous, NEW d \in Deliveries, status[d] = "absent"
    PROVE  /\ IsFiniteSet(Siblings(d)) /\ Cardinality(Siblings(d)) \in Nat
           /\ NextHint(d) = Cardinality(Siblings(d)) + 1
           /\ NextHint(d) \in 1..Cardinality(Deliveries)
<1> DEFINE S == Siblings(d)
           k == Cardinality(S)
<1>1. S \subseteq Deliveries \ {d}
  BY DEF Siblings
<1>2. /\ IsFiniteSet(Deliveries \ {d})
      /\ Cardinality(Deliveries \ {d}) = Cardinality(Deliveries) - 1
  BY DeliveriesFinite, FS_RemoveElement
<1>3. IsFiniteSet(S) /\ k <= Cardinality(Deliveries) - 1
  BY <1>1, <1>2, FS_Subset
<1>4. k \in Nat
  BY <1>3, FS_CardinalityType
<1>5. {hint[x] : x \in S} = 1..k
  BY DEF HintsContiguous
<1>6. \A x \in S : hint[x] \in 1..k
  BY <1>5
<1>7. k = 0 \/ \E x \in S : hint[x] = k
  BY <1>4, <1>5
<1>8. k + 1 \in 1..(Cardinality(Deliveries) + 1)
  BY <1>3, <1>4, DeliveriesFinite
<1>9. /\ \A x \in S : hint[x] < k + 1
      /\ k + 1 = 1 \/ \E x \in S : hint[x] = k + 1 - 1
  BY <1>4, <1>6, <1>7
<1>10. ASSUME NEW n \in 1..(Cardinality(Deliveries) + 1),
              \A x \in S : hint[x] < n, n = 1 \/ \E x \in S : hint[x] = n - 1
       PROVE  n = k + 1
  BY <1>4, <1>6, <1>7, <1>10
<1> HIDE DEF S, k
<1>11. NextHint(d) = k + 1
  BY <1>8, <1>9, <1>10 DEF NextHint, S, k
<1> QED
  BY <1>3, <1>4, <1>11, DeliveriesFinite DEF S, k

\* The delivery that Emit comes to next has no record and no goroutine yet.
LEMMA NextIsFresh ==
    ASSUME TypeOK, UrlsInTurn, NEW e \in Events, EmitTo(e)
    PROVE  /\ <<e, next[e]>> \in Deliveries
           /\ status[<<e, next[e]>>] = "absent" /\ wpc[<<e, next[e]>>] = "none"
<1>1. next[e] \in 1..NUrls
  BY DispatcherAssumption DEF EmitTo, TypeOK
<1>2. <<e, next[e]>> \in Deliveries
  BY <1>1 DEF Deliveries
<1> QED
  BY <1>1, <1>2 DEF UrlsInTurn

-----------------------------------------------------------------------------
(***************************************************************************)
(* The initial state, and one lemma per part of the invariant.             *)
(***************************************************************************)
LEMMA InitIInv == Init => IInv
<1> SUFFICES ASSUME Init PROVE IInv
  OBVIOUS
<1>1. TypeOK
  BY DispatcherAssumption, DeliveriesFinite DEF Init, TypeOK
<1>2. UrlsInTurn /\ ReplaysNamed /\ AttemptsAtPC
  BY DispatcherAssumption DEF Init, UrlsInTurn, ReplaysNamed, AttemptsAtPC, Workers
<1>3. DeliveredWasAcked /\ DeadLetterExhausted /\ NoSilentDrop
  BY DEF Init, DeliveredWasAcked, DeadLetterExhausted, NoSilentDrop
<1>4. HintsContiguous
  <2> SUFFICES ASSUME NEW d \in Deliveries
               PROVE  {hint[x] : x \in Siblings(d)} = 1..Cardinality(Siblings(d))
    BY DEF HintsContiguous
  <2>1. Siblings(d) = {} /\ Cardinality(Siblings(d)) = 0
    BY FS_EmptySet DEF Init, Siblings
  <2> QED
    BY <2>1
<1> QED
  BY <1>1, <1>2, <1>3, <1>4 DEF IInv

\* Every step leaves the state well formed.
LEMMA TypeStep ==
    ASSUME TypeOK, UrlsInTurn, ReplaysNamed, AttemptsAtPC, HintsContiguous,
           [Next]_vars
    PROVE  TypeOK'
<1> USE DEF TypeOK, records, emitVars, workVars, replayVars, Final
<1>1. ASSUME NEW e \in Events, Commit(e) \/ EmitNext(e) PROVE TypeOK'
  <2>1. CASE Commit(e) \/ EmitReturns(e)
    BY <2>1 DEF Commit, EmitReturns
  <2>2. CASE EmitTo(e)
    <3> DEFINE d == <<e, next[e]>>
    <3>1. d \in Deliveries /\ status[d] = "absent" /\ d \in Workers
      BY <2>2, NextIsFresh, JobOfDelivery
    <3>2. NextHint(d) \in 0..Cardinality(Deliveries)
      BY <3>1, NextHintCounts, DeliveriesFinite
    <3>3. next' \in [Events -> 1..(NUrls + 1)]
      BY <2>2, DispatcherAssumption DEF EmitTo
    <3>4. /\ status' \in [Deliveries -> {"absent", "pending", "failed"} \cup Final]
          /\ hint' \in [Deliveries -> 0..Cardinality(Deliveries)]
          /\ unwritten' \subseteq Deliveries
      BY <2>2, <3>1, <3>2 DEF EmitTo, CreateDelivery
    <3> QED
      BY <2>2, <3>3, <3>4 DEF EmitTo, Spawn
  <2> QED
    BY <1>1, <2>1, <2>2 DEF EmitNext
<1>2. ASSUME NEW w \in Workers, WorkNext(w) PROVE TypeOK'
  <2>1. CASE Post(w)
    <3>1. attempt' \in [Workers -> 0..MaxAttempts]
      BY <2>1, DispatcherAssumption DEF Post, AttemptsAtPC
    <3> QED
      BY <2>1, <3>1 DEF Post
  <2>2. ASSUME NEW s \in Final, wpc[w] # "none", Finish(w, s) PROVE TypeOK'
    <3>1. Job(w) \in Deliveries
      BY <2>2, JobType
    <3> QED
      BY <2>2, <3>1 DEF Finish, UpdateDelivery
  <2>3. CASE RecordDelivered(w) \/ RecordDeadLetter(w)
    BY <2>2, <2>3 DEF RecordDelivered, RecordDeadLetter
  <2>4. CASE RecordFailed(w)
    BY <2>4 DEF RecordFailed, UpdateDelivery
  <2> QED
    BY <1>2, <2>1, <2>3, <2>4 DEF WorkNext
<1>3. ASSUME NEW r \in Replays, ReplayNext(r) PROVE TypeOK'
  <2>1. ASSUME NEW d \in Deliveries, ReplayCheck(r, d) PROVE TypeOK'
    BY <2>1 DEF ReplayCheck
  <2>2. CASE ReplayReset(r)
    BY <2>2 DEF ReplayReset, UpdateDelivery, Spawn
  <2>3. CASE ReplayResetFails(r)
    <3>1. target[r] \in Deliveries
      BY <2>3 DEF ReplayResetFails, ReplaysNamed
    <3> QED
      BY <2>3, <3>1 DEF ReplayResetFails, UpdateDelivery
  <2> QED
    BY <1>3, <2>1, <2>2, <2>3 DEF ReplayNext
<1>4. CASE Crash
  <2>1. \A w \in Workers : Live(w) => Job(w) \in Deliveries
    BY JobType DEF Live
  <2>2. killed' \subseteq Deliveries
    BY <1>4, <2>1 DEF Crash
  <2>3. crashes' \in 0..MaxCrashes
    BY <1>4, DispatcherAssumption DEF Crash
  <2> QED
    BY <1>4, <2>2, <2>3 DEF Crash
<1>5. CASE UNCHANGED vars
  BY <1>5 DEF vars
<1> QED
  BY <1>1, <1>2, <1>3, <1>4, <1>5 DEF Next

\* What a step does to records: Emit inserts one where there is none, and
\* nothing else inserts or deletes one or changes a hint.
LEMMA RecordsStep ==
    ASSUME TypeOK, UrlsInTurn, [Next]_vars
    PROVE  \/ \E e \in Events :
                 EmitTo(e) /\ CreateDelivery(<<e, next[e]>>)
           \/ /\ hint' = hint
              /\ \A d \in Deliveries : status'[d] = "absent" <=> status[d] = "absent"
<1> USE DEF TypeOK, records, emitVars, workVars, replayVars, Final
<1>1. ASSUME NEW e \in Events, Commit(e) \/ EmitNext(e)
      PROVE  \/ EmitTo(e) /\ CreateDelivery(<<e, next[e]>>)
             \/ hint' = hint /\ status' = status
  BY <1>1 DEF Commit, EmitNext, EmitTo, EmitReturns
<1>2. ASSUME NEW d, NEW s \in {"pending", "failed", "delivered", "dead_letter"},
             UpdateDelivery(d, s)
      PROVE  \A x \in Deliveries : status'[x] = "absent" <=> status[x] = "absent"
  BY <1>2 DEF UpdateDelivery
<1>3. ASSUME NEW w \in Workers, WorkNext(w)
      PROVE  /\ hint' = hint
             /\ \A d \in Deliveries : status'[d] = "absent" <=> status[d] = "absent"
  BY <1>2, <1>3 DEF WorkNext, Post, RecordDelivered, RecordFailed,
     RecordDeadLetter, Finish
<1>4. ASSUME NEW r \in Replays, ReplayNext(r)
      PROVE  /\ hint' = hint
             /\ \A d \in Deliveries : status'[d] = "absent" <=> status[d] = "absent"
  BY <1>2, <1>4 DEF ReplayNext, ReplayCheck, ReplayReset, ReplayResetFails
<1>5. CASE Crash \/ UNCHANGED vars
  BY <1>5 DEF Crash, vars
<1> QED
  BY <1>1, <1>3, <1>4, <1>5 DEF Next

\* Hints stay without gap: the record Emit inserts has the next one.
LEMMA HintsStep ==
    ASSUME TypeOK, UrlsInTurn, HintsContiguous, [Next]_vars
    PROVE  HintsContiguous'
<1> SUFFICES ASSUME NEW d \in Deliveries
             PROVE  {hint'[x] : x \in Siblings(d)'} = 1..Cardinality(Siblings(d)')
  BY DEF HintsContiguous
<1>1. CASE /\ hint' = hint
           /\ \A x \in Deliveries : status'[x] = "absent" <=> status[x] = "absent"
  <2>1. Siblings(d)' = Siblings(d)
    BY <1>1 DEF Siblings
  <2> QED
    BY <1>1, <2>1 DEF HintsContiguous
<1>2. ASSUME NEW e \in Events, EmitTo(e), CreateDelivery(<<e, next[e]>>)
      PROVE  {hint'[x] : x \in Siblings(d)'} = 1..Cardinality(Siblings(d)')
  <2>1. PICK n \in Deliveries : n = <<e, next[e]>> /\ status[n] = "absent"
    BY <1>2, NextIsFresh
  <2>2. /\ status'[n] = "pending" /\ hint'[n] = NextHint(n)
        /\ \A x \in Deliveries \ {n} : status'[x] = status[x] /\ hint'[x] = hint[x]
    BY <1>2, <2>1 DEF CreateDelivery, TypeOK
  <2>3. CASE AggregateOf[d[1]] # AggregateOf[n[1]]
    <3>1. Siblings(d)' = Siblings(d) /\ n \notin Siblings(d) /\ Siblings(d) \subseteq Deliveries
      BY <2>1, <2>2, <2>3 DEF Siblings
    <3>2. {hint'[x] : x \in Siblings(d)} = {hint[x] : x \in Siblings(d)}
      BY <2>2, <3>1
    <3> QED
      BY <3>1, <3>2 DEF HintsContiguous
  <2>4. CASE AggregateOf[d[1]] = AggregateOf[n[1]]
    <3>1. Siblings(d) = Siblings(n)
      BY <2>4 DEF Siblings
    <3>2. /\ Siblings(d)' = Siblings(d) \cup {n} /\ n \notin Siblings(d)
          /\ Siblings(d) \subseteq Deliveries
      BY <2>1, <2>2, <2>4 DEF Siblings
    <3>3. PICK k \in Nat : k = Cardinality(Siblings(d)) /\ hint'[n] = k + 1
      BY <2>1, <2>2, <3>1, NextHintCounts
    <3>4. Cardinality(Siblings(d)') = k + 1
      BY <2>1, <3>1, <3>2, <3>3, NextHintCounts, FS_AddElement
    <3>5. {hint[x] : x \in Siblings(d)} = 1..k
      BY <3>3 DEF HintsContiguous
    <3>6. {hint'[x] : x \in Siblings(d)'}
            = {hint[x] : x \in Siblings(d)} \cup {hint'[n]}
      BY <2>2, <3>2
    <3> QED
      BY <3>3, <3>4, <3>5, <3>6
  <2> QED
    BY <2>3, <2>4
<1> QED
  BY <1>1, <1>2, RecordsStep

\* Emit goes through the URLs in turn.
LEMMA TurnStep ==
    ASSUME TypeOK, UrlsInTurn, ReplaysNamed, [Next]_vars
    PROVE  UrlsInTurn'
<1> USE DEF TypeOK, records, emitVars, workVars, replayVars
<1>1. ASSUME NEW e \in Events, EmitTo(e), NEW d \in Deliveries,
             next'[d[1]] <= d[2]
      PROVE  status'[d] = "absent" /\ wpc'[d] = "none"
  <2>1. PICK n \in Deliveries : n = <<e, next[e]>> /\ n \in Workers
    BY <1>1, NextIsFresh, JobOfDelivery
  <2>2. d[1] \in Events /\ d[2] \in Nat /\ d = <<d[1], d[2]>>
    BY DispatcherAssumption DEF Deliveries
  <2>3. next[d[1]] <= d[2] /\ d # n
    BY <1>1, <2>1, <2>2, DispatcherAssumption DEF EmitTo
  <2>4. status[d] = "absent" /\ wpc[d] = "none"
    BY <2>3 DEF UrlsInTurn
  <2> QED
    BY <1>1, <2>1, <2>3, <2>4, JobOfDelivery DEF EmitTo, CreateDelivery, Spawn
<1>2. ASSUME ~ \E e \in Events : EmitTo(e), NEW d \in Deliveries,
             next'[d[1]] <= d[2]
      PROVE  status'[d] = "absent" /\ wpc'[d] = "none"
  <2>1. next' = next
    BY <1>2 DEF Next, Commit, EmitNext, EmitReturns, WorkNext, Post,
       RecordDelivered, RecordFailed, RecordDeadLetter, Finish, ReplayNext,
       ReplayCheck, ReplayReset, ReplayResetFails, Crash, vars
  <2>2. status[d] = "absent" /\ wpc[d] = "none"
    BY <1>2, <2>1 DEF UrlsInTurn
  <2>3. status'[d] = "absent"
    BY <1>2, <2>2, RecordsStep
  <2>4. wpc'[d] = "none"
    BY <1>2, <2>2, JobOfDelivery DEF Next, Commit, EmitNext, EmitReturns, WorkNext,
       Post, RecordDelivered, RecordFailed, RecordDeadLetter, Finish,
       ReplayNext, ReplayCheck, ReplayReset, ReplayResetFails, Spawn, Crash,
       Live, vars
  <2> QED
    BY <2>3, <2>4
<1> QED
  BY <1>1, <1>2 DEF UrlsInTurn

\* A replay keeps to the delivery it looked at, whose record stays.
LEMMA ReplaysStep ==
    ASSUME TypeOK, UrlsInTurn, ReplaysNamed, [Next]_vars
    PROVE  ReplaysNamed'
<1> USE DEF TypeOK, records, emitVars, workVars, replayVars
<1>1. \A d \in Deliveries : status[d] # "absent" => status'[d] # "absent"
  <2>1. ASSUME NEW e \in Events, CreateDelivery(<<e, next[e]>>)
        PROVE  \A d \in Deliveries : status[d] # "absent" => status'[d] # "absent"
    BY <2>1 DEF CreateDelivery
  <2> QED
    BY <2>1, RecordsStep
<1>2. ASSUME NEW e \in Events, Commit(e) \/ EmitNext(e) PROVE ReplaysNamed'
  <2>1. CASE EmitTo(e)
    <3>1. \A r \in Replays : wpc'[r] = wpc[r]
      BY <2>1, NextIsFresh, JobOfDelivery DEF EmitTo, Spawn, Workers
    <3> QED
      BY <1>1, <2>1, <3>1 DEF EmitTo, ReplaysNamed
  <2>2. CASE Commit(e) \/ EmitReturns(e)
    BY <1>1, <2>2 DEF Commit, EmitReturns, ReplaysNamed
  <2> QED
    BY <1>2, <2>1, <2>2 DEF EmitNext
<1>3. ASSUME NEW w \in Workers, WorkNext(w) PROVE ReplaysNamed'
  <2>1. UNCHANGED <<rpc, target>> /\ \A r \in Replays : wpc[r] = "none" <=> wpc'[r] = "none"
    BY <1>3 DEF WorkNext, Post, RecordDelivered, RecordFailed,
       RecordDeadLetter, Finish, Workers
  <2> QED
    BY <1>1, <2>1 DEF ReplaysNamed
<1>4. ASSUME NEW r \in Replays, ReplayNext(r) PROVE ReplaysNamed'
  <2>1. ASSUME NEW d \in Deliveries, ReplayCheck(r, d) PROVE ReplaysNamed'
    <3>1. rpc'[r] = "checked" => status[d] # "absent"
      BY <2>1 DEF ReplayCheck
    <3> QED
      BY <1>1, <2>1, <3>1 DEF ReplayCheck, MayReplay, ReplaysNamed
  <2>2. CASE ReplayReset(r)
    BY <1>1, <2>2 DEF ReplayReset, Spawn, ReplaysNamed, Workers
  <2>3. CASE ReplayResetFails(r)
    BY <1>1, <2>3 DEF ReplayResetFails, ReplaysNamed
  <2> QED
    BY <1>4, <2>1, <2>2, <2>3 DEF ReplayNext
<1>5. CASE Crash
  BY <1>1, <1>5 DEF Crash, Live, ReplaysNamed, Workers
<1>6. CASE UNCHANGED vars
  BY <1>6 DEF vars, ReplaysNamed
<1> QED
  BY <1>2, <1>3, <1>4, <1>5, <1>6 DEF Next

\* Attempts are counted, and a post answered 2xx is the last.
LEMMA AttemptsStep ==
    ASSUME TypeOK, UrlsInTurn, ReplaysNamed, AttemptsAtPC, [Next]_vars
    PROVE  AttemptsAtPC'
<1> USE DEF TypeOK, records, emitVars, workVars, replayVars
<1>1. ASSUME NEW e \in Events, Commit(e) \/ EmitNext(e) PROVE AttemptsAtPC'
  <2>1. CASE EmitTo(e)
    <3>1. PICK n \in Workers : n = <<e, next[e]>> /\ wpc[n] = "none"
      BY <2>1, NextIsFresh, JobOfDelivery
    <3>2. /\ wpc' = [wpc EXCEPT ![n] = "posting"]
          /\ UNCHANGED <<attempt, acked>>
      BY <2>1, <3>1 DEF EmitTo, Spawn
    <3> QED
      BY <3>1, <3>2, DispatcherAssumption DEF AttemptsAtPC
  <2>2. CASE Commit(e) \/ EmitReturns(e)
    BY <2>2 DEF Commit, EmitReturns, AttemptsAtPC
  <2> QED
    BY <1>1, <2>1, <2>2 DEF EmitNext
<1>2. ASSUME NEW w \in Workers, WorkNext(w) PROVE AttemptsAtPC'
  <2>1. CASE Post(w)
    BY <2>1, DispatcherAssumption DEF Post, AttemptsAtPC
  <2>2. CASE RecordDelivered(w) \/ RecordDeadLetter(w)
    BY <2>2 DEF RecordDelivered, RecordDeadLetter, Finish, AttemptsAtPC
  <2>3. CASE RecordFailed(w)
    <3>1. attempt[w] \in 0..MaxAttempts
      OBVIOUS
    <3> QED
      BY <2>3, <3>1, DispatcherAssumption DEF RecordFailed, AttemptsAtPC
  <2> QED
    BY <1>2, <2>1, <2>2, <2>3 DEF WorkNext
<1>3. ASSUME NEW r \in Replays, ReplayNext(r) PROVE AttemptsAtPC'
  <2>1. CASE ReplayReset(r)
    <3>1. wpc[r] = "none" /\ r \in Workers
      BY <2>1 DEF ReplayReset, ReplaysNamed, Workers
    <3> QED
      BY <2>1, <3>1, DispatcherAssumption DEF ReplayReset, Spawn, AttemptsAtPC
  <2>2. CASE ~ ReplayReset(r)
    <3>1. UNCHANGED workVars
      BY <1>3, <2>2 DEF ReplayNext, ReplayCheck, ReplayResetFails
    <3> QED
      BY <3>1 DEF AttemptsAtPC
  <2> QED
    BY <2>1, <2>2
<1>4. CASE Crash
  BY <1>4 DEF Crash, Live, AttemptsAtPC
<1>5. CASE UNCHANGED vars
  BY <1>5 DEF vars, AttemptsAtPC
<1> QED
  BY <1>1, <1>2, <1>3, <1>4, <1>5 DEF Next

\* A goroutine that has started keeps its delivery, and what it has finished
\* doing is not undone.
LEMMA WorkKept ==
    ASSUME TypeOK, UrlsInTurn, ReplaysNamed, AttemptsAtPC, [Next]_vars,
           NEW w \in Workers, wpc[w] # "none"
    PROVE  /\ Job(w)' = Job(w)
           /\ w \in acked => w \in acked'
           /\ wpc[w] \in {"done", "dead"}
                 => wpc'[w] = wpc[w] /\ attempt'[w] = attempt[w]
                    /\ (w \in acked' => w \in acked)
<1> USE DEF TypeOK, records, emitVars, workVars, replayVars
<1>1. ASSUME NEW r \in Replays, wpc[r] # "none"
      PROVE  target'[r] = target[r]
  BY <1>1 DEF Next, Commit, EmitNext, EmitTo, EmitReturns, WorkNext, Post,
     RecordDelivered, RecordFailed, RecordDeadLetter, Finish, ReplayNext,
     ReplayCheck, MayReplay, ReplayReset, ReplayResetFails, Crash, vars,
     ReplaysNamed
<1>2. Job(w)' = Job(w)
  BY <1>1 DEF Job, Workers
<1>3. ASSUME NEW e \in Events, EmitTo(e)
      PROVE  wpc'[w] = wpc[w] /\ attempt' = attempt /\ acked' = acked
  BY <1>3, NextIsFresh, JobOfDelivery DEF EmitTo, Spawn
<1>4. ASSUME NEW v \in Workers, WorkNext(v)
      PROVE  /\ acked \subseteq acked' /\ acked' \subseteq acked \cup {v}
             /\ wpc[w] \in {"done", "dead"}
                   => v # w /\ wpc'[w] = wpc[w] /\ attempt'[w] = attempt[w]
  BY <1>4 DEF WorkNext, Post, RecordDelivered, RecordFailed, RecordDeadLetter,
     Finish
<1>5. ASSUME NEW r \in Replays, ReplayNext(r)
      PROVE  wpc'[w] = wpc[w] /\ attempt' = attempt /\ acked' = acked
  BY <1>5 DEF ReplayNext, ReplayCheck, ReplayReset, ReplayResetFails, Spawn,
     ReplaysNamed, Workers
<1>6. CASE Crash \/ UNCHANGED vars \/ \E e \in Events : Commit(e) \/ EmitReturns(e)
  BY <1>2, <1>6 DEF Crash, Live, vars, Commit, EmitReturns
<1> QED
  BY <1>2, <1>3, <1>4, <1>5, <1>6 DEF Next, EmitNext

\* Where a final status comes from.
LEMMA FinalFrom ==
    ASSUME TypeOK, NEW d \in Deliveries, [Next]_vars,
           status'[d] # status[d], status'[d] \in Final
    PROVE  \E w \in Workers :
              /\ Job(w) = d
              /\ \/ RecordDelivered(w) /\ status'[d] = "delivered"
                 \/ RecordDeadLetter(w) /\ status'[d] = "dead_letter"
<1> USE DEF TypeOK, records, emitVars, workVars, replayVars, Final
<1>1. ASSUME NEW x, NEW s, UpdateDelivery(x, s)
      PROVE  x = d /\ status'[d] = s
  BY <1>1 DEF UpdateDelivery
<1>2. ~ \E e \in Events : Commit(e) \/ EmitNext(e)
  BY DEF Commit, EmitNext, EmitTo, CreateDelivery, EmitReturns
<1>3. ~ \E r \in Replays : ReplayNext(r)
  BY <1>1 DEF ReplayNext, ReplayCheck, ReplayReset, ReplayResetFails
<1>4. ~ Crash /\ vars' # vars
  BY DEF Crash, vars
<1>5. PICK w \in Workers : WorkNext(w)
  BY <1>2, <1>3, <1>4 DEF Next
<1> QED
  BY <1>1, <1>5 DEF WorkNext, Post, RecordFailed, RecordDelivered,
     RecordDeadLetter, Finish

\* Who wrote "delivered" was answered 2xx; who wrote "dead_letter" has made all
\* its attempts in vain.
LEMMA FinalStep ==
    ASSUME TypeOK, UrlsInTurn, ReplaysNamed, AttemptsAtPC, DeliveredWasAcked,
           DeadLetterExhausted, [Next]_vars
    PROVE  DeliveredWasAcked' /\ DeadLetterExhausted'
<1>1. acked \subseteq Workers /\ acked \subseteq acked'
  BY WorkKept DEF TypeOK, AttemptsAtPC
<1>2. ASSUME NEW d \in Deliveries, status'[d] = "delivered"
      PROVE  \E w \in acked' : Job(w)' = d
  <2>1. PICK w \in acked : Job(w) = d /\ wpc[w] # "none"
    <3>1. CASE status[d] = "delivered"
      BY <1>1, <3>1 DEF DeliveredWasAcked, AttemptsAtPC
    <3>2. CASE status[d] # "delivered"
      <4>1. PICK w \in Workers : Job(w) = d /\ RecordDelivered(w)
        BY <1>2, <3>2, FinalFrom DEF Final
      <4> QED
        BY <4>1 DEF RecordDelivered, AttemptsAtPC
    <3> QED
      BY <3>1, <3>2
  <2> QED
    BY <1>1, <2>1, WorkKept
<1>3. ASSUME NEW d \in Deliveries, status'[d] = "dead_letter"
      PROVE  \E w \in Workers \ acked' :
                Job(w)' = d /\ wpc'[w] \in {"done", "dead"}
                            /\ attempt'[w] = MaxAttempts
  <2>1. CASE status[d] = "dead_letter"
    <3>1. PICK w \in Workers \ acked :
                 Job(w) = d /\ wpc[w] \in {"done", "dead"}
                            /\ attempt[w] = MaxAttempts
      BY <2>1 DEF DeadLetterExhausted
    <3> QED
      BY <3>1, WorkKept
  <2>2. CASE status[d] # "dead_letter"
    <3>1. PICK w \in Workers : Job(w) = d /\ RecordDeadLetter(w)
      BY <1>3, <2>2, FinalFrom DEF Final
    <3>2. /\ wpc[w] = "exhausted" /\ wpc'[w] = "done" /\ acked' = acked
          /\ attempt' = attempt
      BY <3>1 DEF RecordDeadLetter, Finish, TypeOK
    <3> QED
      BY <3>1, <3>2, WorkKept DEF AttemptsAtPC
  <2> QED
    BY <2>1, <2>2
<1> QED
  BY <1>2, <1>3 DEF DeliveredWasAcked, DeadLetterExhausted

\* An unfinished record has a goroutine, or its delivery is known to be broken
\* off.
LEMMA DropStep ==
    ASSUME TypeOK, UrlsInTurn, ReplaysNamed, AttemptsAtPC, NoSilentDrop,
           [Next]_vars
    PROVE  NoSilentDrop'
<1> USE DEF TypeOK, records, emitVars, workVars, replayVars
<1> SUFFICES ASSUME NEW d \in Deliveries, status'[d] \in {"pending", "failed"},
                    d \notin unwritten' \cup killed'
             PROVE  \E w \in Workers : Live(w)' /\ Job(w)' = d
  BY DEF NoSilentDrop
<1>1. d \notin unwritten \cup killed
  BY DEF Next, Commit, EmitNext, EmitTo, EmitReturns, WorkNext, Post,
     RecordDelivered, RecordFailed, RecordDeadLetter, Finish, ReplayNext,
     ReplayCheck, ReplayReset, ReplayResetFails, Crash, vars
<1>2. ASSUME NEW w \in Workers, Live(w), Job(w) = d, wpc'[w] = wpc[w]
      PROVE  \E x \in Workers : Live(x)' /\ Job(x)' = d
  BY <1>2, WorkKept DEF Live
<1>3. ASSUME NEW e \in Events, Commit(e) \/ EmitNext(e)
      PROVE  \E x \in Workers : Live(x)' /\ Job(x)' = d
  <2>1. CASE EmitTo(e) /\ d = <<e, next[e]>>
    <3>1. d \in Workers /\ Job(d)' = d
      BY JobOfDelivery DEF Job
    <3> QED
      BY <2>1, <3>1 DEF EmitTo, Spawn, Live
  <2>2. CASE ~(EmitTo(e) /\ d = <<e, next[e]>>)
    <3>1. status'[d] = status[d]
      BY <1>3, <2>2 DEF Commit, EmitNext, EmitTo, CreateDelivery, EmitReturns
    <3>2. PICK w \in Workers : Live(w) /\ Job(w) = d
      BY <1>1, <3>1 DEF NoSilentDrop
    <3>3. wpc'[w] = wpc[w]
      BY <1>3, <3>2, NextIsFresh, JobOfDelivery
         DEF Commit, EmitNext, EmitTo, EmitReturns, Spawn, Live
    <3> QED
      BY <1>2, <3>2, <3>3
  <2> QED
    BY <2>1, <2>2
<1>4. ASSUME NEW v \in Workers, WorkNext(v)
      PROVE  \E x \in Workers : Live(x)' /\ Job(x)' = d
  <2>1. CASE Job(v) = d
    <3>1. wpc'[v] \in {"ok", "err", "posting", "exhausted"}
      BY <1>4, <2>1 DEF WorkNext, Post, RecordDelivered, RecordFailed,
         RecordDeadLetter, Finish, UpdateDelivery
    <3>2. wpc[v] # "none"
      BY <1>4 DEF WorkNext, Post, RecordDelivered, RecordFailed, RecordDeadLetter
    <3> QED
      BY <2>1, <3>1, <3>2, WorkKept DEF Live
  <2>2. CASE Job(v) # d
    <3>1. status'[d] = status[d]
      BY <1>4, <2>2 DEF WorkNext, Post, RecordDelivered, RecordFailed,
         RecordDeadLetter, Finish, UpdateDelivery
    <3>2. PICK w \in Workers : Live(w) /\ Job(w) = d
      BY <1>1, <3>1 DEF NoSilentDrop
    <3>3. wpc'[w] = wpc[w]
      BY <1>4, <2>2, <3>2 DEF WorkNext, Post, RecordDelivered, RecordFailed,
         RecordDeadLetter, Finish
    <3> QED
      BY <1>2, <3>2, <3>3
  <2> QED
    BY <2>1, <2>2
<1>5. ASSUME NEW r \in Replays, ReplayNext(r)
      PROVE  \E x \in Workers : Live(x)' /\ Job(x)' = d
  <2>1. CASE ReplayReset(r) /\ target[r] = d
    <3>1. r \in Workers /\ Job(r)' = d
      BY <2>1 DEF ReplayReset, Workers, Job
    <3> QED
      BY <2>1, <3>1 DEF ReplayReset, Spawn, Live
  <2>2. CASE ~(ReplayReset(r) /\ target[r] = d)
    <3>1. status'[d] = status[d]
      BY <1>5, <2>2 DEF ReplayNext, ReplayCheck, ReplayReset,
         ReplayResetFails, UpdateDelivery
    <3>2. PICK w \in Workers : Live(w) /\ Job(w) = d
      BY <1>1, <3>1 DEF NoSilentDrop
    <3>3. wpc'[w] = wpc[w]
      BY <1>5, <3>2 DEF ReplayNext, ReplayCheck, ReplayReset,
         ReplayResetFails, Spawn, ReplaysNamed, Live
    <3> QED
      BY <1>2, <3>2, <3>3
  <2> QED
    BY <2>1, <2>2
<1>6. ~ Crash
  <2>1. ASSUME Crash PROVE FALSE
    <3>1. PICK w \in Workers : Live(w) /\ Job(w) = d
      BY <1>1, <2>1 DEF Crash, NoSilentDrop
    <3> QED
      BY <2>1, <3>1 DEF Crash
  <2> QED
    BY <2>1
<1>7. CASE UNCHANGED vars
  <2>1. PICK w \in Workers : Live(w) /\ Job(w) = d
    BY <1>1, <1>7 DEF vars, NoSilentDrop
  <2> QED
    BY <1>2, <1>7, <2>1 DEF vars
<1> QED
  BY <1>3, <1>4, <1>5, <1>6, <1>7 DEF Next

-----------------------------------------------------------------------------
(***************************************************************************)
(* Theorems.                                                               *)
(***************************************************************************)

\* Every step preserves the inductive invariant.
LEMMA StepIInv == IInv /\ [Next]_vars => IInv'
BY TypeStep, TurnStep, ReplaysStep, AttemptsStep, FinalStep, DropStep, HintsStep
   DEF IInv

\* The inductive invariant always holds.
THEOREM Inductive == Spec => []IInv
BY InitIInv, StepIInv, PTL DEF Spec

\* For any finite number of events, any number of URLs, replays, attempts and
\* kills, the state is well formed; in particular every hint is in range.
THEOREM TypeCorrect == Spec => []TypeOK
BY Inductive, PTL DEF IInv

\* However the goroutines of a delivery, replays that overlap included, write
\* its record, it says delivered only if one of them was answered 2xx.
THEOREM DeliveredMeansAcked == Spec => []DeliveredWasAcked
BY Inductive, PTL DEF IInv

\* A record says dead_letter only if one of the delivery's goroutines made all
\* its attempts without a 2xx.
THEOREM DeadLetterMeansExhausted == Spec => []DeadLetterExhausted
BY Inductive, PTL DEF IInv

\* An unfinished record has a goroutine, unless a kill or a failed write broke
\* the delivery off.
THEOREM NothingDropsSilently == Spec => []NoSilentDrop
BY Inductive, PTL DEF IInv

\* The hints of any aggregate are 1, 2, 3 ... without a gap or a repetition.
THEOREM HintsAreContiguous == Spec => []HintsContiguous
BY Inductive, PTL DEF IInv

\* While nothing is killed, a record in neither final status still has a
\* goroutine, as the package comment says, unless a write failed.
THEOREM RetriedUnlessKilled == MaxCrashes = 0 => (Spec => []UnfinishedIsRetried)
<1> SUFFICES ASSUME MaxCrashes = 0 PROVE Spec => []UnfinishedIsRetried
  OBVIOUS
<1> DEFINE Unharmed == killed = {}
<1>1. Init => Unharmed
  BY DEF Init
<1>2. TypeOK /\ Unharmed /\ [Next]_vars => Unharmed'
  <2> SUFFICES ASSUME TypeOK, Unharmed, [Next]_vars PROVE Unharmed'
    OBVIOUS
  <2>1. ~ Crash
    BY DEF Crash, TypeOK
  <2> QED
    BY <2>1 DEF Next, Commit, EmitNext, EmitTo, EmitReturns, WorkNext, Post,
       RecordDelivered, RecordFailed, RecordDeadLetter, Finish, ReplayNext,
       ReplayCheck, ReplayReset, ReplayResetFails, vars
<1>3. NoSilentDrop /\ Unharmed => UnfinishedIsRetried
  BY DEF NoSilentDrop, UnfinishedIsRetried
<1> HIDE DEF Unharmed
<1> QED
  BY <1>1, <1>2, <1>3, TypeCorrect, NothingDropsSilently, PTL DEF Spec

-----------------------------------------------------------------------------
(***************************************************************************)
(* What the service that Dispatcher is a part of relies on.                *)
(***************************************************************************)

\* A URL that Emit has come to has a goroutine, a URL it will not come to any
\* more was broken off by a kill, and so was a goroutine that is dead.
EmitProgress ==
    /\ \A e \in Events :
          /\ epc[e] = "idle" => next[e] = 1
          /\ epc[e] = "done" => next[e] > NUrls
    /\ \A d \in Deliveries :
          /\ d[2] < next[d[1]] => wpc[d] # "none"
          /\ epc[d[1]] = "dead" /\ next[d[1]] <= d[2] => d \in killed
          /\ wpc[d] = "dead" => d \in killed

\* A step that inserts a record gives it a higher hint than every record its
\* aggregate has; other hints stay, and records are never deleted.
InsertedLast ==
    \A d \in Deliveries :
        /\ status[d] # "absent" => status'[d] # "absent" /\ hint'[d] = hint[d]
        /\ status[d] = "absent" /\ status'[d] # "absent"
              => /\ epc[d[1]] = "emitting"
                 /\ \A x \in Siblings(d) : hint[x] < hint'[d] /\ hint'[x] = hint[x]

\* A record that a step inserts has the highest hint of its aggregate.
LEMMA StepInsertedLast ==
    ASSUME IInv, [Next]_vars
    PROVE  InsertedLast
<1> USE DEF IInv, TypeOK
<1>1. CASE /\ hint' = hint
           /\ \A d \in Deliveries : status'[d] = "absent" <=> status[d] = "absent"
  BY <1>1 DEF InsertedLast
<1>2. ASSUME NEW e \in Events, EmitTo(e), CreateDelivery(<<e, next[e]>>)
      PROVE  InsertedLast
  <2>1. PICK n \in Deliveries : n = <<e, next[e]>> /\ status[n] = "absent"
    BY <1>2, NextIsFresh
  <2>2. /\ status' = [status EXCEPT ![n] = "pending"]
        /\ hint' = [hint EXCEPT ![n] = NextHint(n)]
        /\ epc[n[1]] = "emitting"
    BY <1>2, <2>1 DEF CreateDelivery, EmitTo
  <2>3. \A x \in Siblings(n) : x \in Deliveries \ {n} /\ hint[x] < NextHint(n)
    <3>1. PICK k \in Nat : k = Cardinality(Siblings(n)) /\ NextHint(n) = k + 1
      BY <2>1, NextHintCounts
    <3>2. {hint[x] : x \in Siblings(n)} = 1..k
      BY <3>1 DEF HintsContiguous
    <3>3. \A x \in Siblings(n) : hint[x] \in 1..k
      BY <3>2
    <3> QED
      BY <2>1, <3>1, <3>3 DEF Siblings
  <2> QED
    BY <2>1, <2>2, <2>3 DEF InsertedLast
<1> QED
  BY <1>1, <1>2, RecordsStep

\* Emit inserts at the place it has come to, and only then moves on.
LEMMA ProgressStep ==
    ASSUME IInv, EmitProgress, [Next]_vars
    PROVE  EmitProgress'
<1> USE DEF IInv, TypeOK, records, emitVars, workVars, replayVars
<1>0. \A d \in Deliveries : /\ d \in Workers /\ d \notin Replays /\ Job(d) = d
                            /\ d[1] \in Events /\ d[2] \in 1..NUrls
                            /\ d = <<d[1], d[2]>>
  BY JobOfDelivery DEF Deliveries
<1>1. ASSUME NEW e \in Events, EmitTo(e) PROVE EmitProgress'
  <2>1. PICK n \in Deliveries : n = <<e, next[e]>> /\ n \in Workers
    BY <1>1, NextIsFresh, JobOfDelivery
  <2>2. /\ next' = [next EXCEPT ![e] = @ + 1] /\ wpc' = [wpc EXCEPT ![n] = "posting"]
        /\ UNCHANGED <<epc, killed>> /\ epc[e] = "emitting"
    BY <1>1, <2>1 DEF EmitTo, Spawn
  <2>3. ASSUME NEW d \in Deliveries, d[2] < next'[d[1]] PROVE wpc'[d] # "none"
    <3>1. d = n \/ d[2] < next[d[1]]
      BY <1>0, <2>1, <2>2, <2>3, DispatcherAssumption
    <3> QED
      BY <1>0, <2>1, <2>2, <3>1 DEF EmitProgress
  <2>4. ASSUME NEW d \in Deliveries
        PROVE  /\ epc'[d[1]] = "dead" /\ next'[d[1]] <= d[2] => d \in killed'
               /\ wpc'[d] = "dead" => d \in killed'
    BY <1>0, <2>1, <2>2 DEF EmitProgress
  <2>5. ASSUME NEW f \in Events
        PROVE  /\ epc'[f] = "idle" => next'[f] = 1
               /\ epc'[f] = "done" => next'[f] > NUrls
    BY <2>2 DEF EmitProgress
  <2> QED
    BY <2>3, <2>4, <2>5 DEF EmitProgress
<1>2. ASSUME NEW e \in Events, Commit(e) \/ EmitReturns(e) PROVE EmitProgress'
  BY <1>0, <1>2 DEF Commit, EmitReturns, EmitProgress
<1>3. ASSUME NEW w \in Workers, WorkNext(w) PROVE EmitProgress'
  <2>1. UNCHANGED <<epc, next, killed>>
    BY <1>3 DEF WorkNext, Post, RecordDelivered, RecordFailed,
       RecordDeadLetter, Finish
  <2>2. \A d \in Deliveries : /\ wpc[d] # "none" => wpc'[d] # "none"
                              /\ wpc'[d] = "dead" => wpc[d] = "dead"
    BY <1>0, <1>3 DEF WorkNext, Post, RecordDelivered, RecordFailed,
       RecordDeadLetter, Finish
  <2> QED
    BY <2>1, <2>2 DEF EmitProgress
<1>4. ASSUME NEW r \in Replays, ReplayNext(r) PROVE EmitProgress'
  <2>1. UNCHANGED <<epc, next, killed>> /\ \A d \in Deliveries : wpc'[d] = wpc[d]
    BY <1>0, <1>4 DEF ReplayNext, ReplayCheck, ReplayReset, ReplayResetFails, Spawn
  <2> QED
    BY <2>1 DEF EmitProgress
<1>5. CASE Crash
  <2>1. /\ next' = next /\ killed \subseteq killed'
        /\ \A e \in Events : epc'[e] = IF epc[e] = "emitting" THEN "dead" ELSE epc[e]
        /\ \A d \in Deliveries : wpc'[d] = IF Live(d) THEN "dead" ELSE wpc[d]
    BY <1>0, <1>5 DEF Crash
  <2>2. \A d \in Deliveries :
           Live(d) \/ (epc[d[1]] = "emitting" /\ next[d[1]] <= d[2]) => d \in killed'
    BY <1>0, <1>5 DEF Crash
  <2> QED
    BY <1>0, <2>1, <2>2 DEF EmitProgress
<1>6. CASE UNCHANGED vars
  BY <1>6 DEF vars, EmitProgress
<1> QED
  BY <1>1, <1>2, <1>3, <1>4, <1>5, <1>6 DEF Next, EmitNext

\* Emit leaves out no URL, unless it is killed.
THEOREM EmitProgresses == Spec => []EmitProgress
<1>1. Init => EmitProgress
  BY DispatcherAssumption DEF Init, EmitProgress, Workers, Deliveries
<1>2. IInv /\ EmitProgress /\ [Next]_vars => EmitProgress'
  BY ProgressStep
<1> QED
  BY <1>1, <1>2, Inductive, PTL DEF Spec

\* A new record's hint is the highest of its aggregate.
THEOREM HintsGrow == Spec => [][InsertedLast]_vars
<1>1. IInv /\ [Next]_vars => InsertedLast
  BY StepInsertedLast
<1> QED
  BY <1>1, Inductive, PTL DEF Spec
=============================================================================
