---------------------------- MODULE ServiceProof ----------------------------
(***************************************************************************)
(* The service keeps the promises of its parts, and consumers can rely on  *)
(* webhooks: the invariants of Service, from those of Channels and         *)
(* Dispatcher.                                                             *)
(***************************************************************************)
EXTENDS Service, TLAPS

\* The parts once more, with what is proved about them.
CP == INSTANCE ChannelsProof WITH
          MaxTime <- 0, TextRank <- [t \in {0} |-> 0], Serial <- FALSE,
          ReadErrors <- FALSE
DP == INSTANCE DispatcherProof WITH
          Events <- Requests, AggregateOf <- [r \in Requests |-> "channel"],
          Replays <- {}, SerialReplays <- FALSE, target <- replayed

-----------------------------------------------------------------------------
(***************************************************************************)
(* The service runs Channels and Dispatcher as they are.                   *)
(***************************************************************************)

\* What the parts assume of their constants.
LEMMA PartsAssume == CP!ChannelsAssumption /\ DP!DispatcherAssumption
<1>1. CP!ChannelsAssumption
  BY ServiceAssumption DEF CP!ChannelsAssumption, CP!Times
<1>2. IsFiniteSet(Requests) => DP!IsFiniteSet(Requests)
  BY DEF IsFiniteSet, DP!IsFiniteSet
<1>3. DP!DispatcherAssumption
  BY ServiceAssumption, <1>2 DEF DP!DispatcherAssumption, DP!Deliveries
<1> QED
  BY <1>1, <1>3

\* A step of one part in Service is the same step in its proofs.
LEMMA ChannelsSame ==
    /\ C!Init => CP!Init
    /\ \A v : C!Publish(v) => CP!Publish(v)
    /\ \A r \in Requests :
          /\ C!RollbackBegin(r) => CP!RollbackBegin(r)
          /\ \A v : C!PromoteBegin(r, v) => CP!PromoteBegin(r, v)
          /\ C!GetArtifact(r) => CP!GetArtifact(r)
          /\ C!QueryFails(r) => CP!QueryFails(r)
          /\ C!GetChannel(r) => CP!GetChannel(r)
          /\ C!TakeTime(r) => CP!TakeTime(r)
          /\ C!SaveChannel(r) => CP!SaveChannel(r)
          /\ C!SaveChannelFails(r) => CP!SaveChannelFails(r)
          /\ C!Respond(r) => CP!Respond(r)
    /\ C!Crash => CP!Crash
<1> USE DEF C!Goto, CP!Goto, C!Answer, CP!Answer, C!MayStart, CP!MayStart,
     C!tables, CP!tables, C!locals, CP!locals, C!MarkBegin, CP!MarkBegin
<1>1. C!Init => CP!Init
  BY DEF C!Init, CP!Init, C!NoPointer, CP!NoPointer
<1>2. \A v : C!Publish(v) => CP!Publish(v)
  BY DEF C!Publish, CP!Publish
<1>3. ASSUME NEW r \in Requests
      PROVE  /\ \A v : C!PromoteBegin(r, v) => CP!PromoteBegin(r, v)
             /\ C!GetArtifact(r) => CP!GetArtifact(r)
             /\ C!QueryFails(r) => CP!QueryFails(r)
  BY DEF C!PromoteBegin, CP!PromoteBegin, C!GetArtifact, CP!GetArtifact,
     C!QueryFails, CP!QueryFails
<1>4. ASSUME NEW r \in Requests
      PROVE  /\ C!GetChannel(r) => CP!GetChannel(r)
             /\ C!TakeTime(r) => CP!TakeTime(r)
             /\ C!Respond(r) => CP!Respond(r)
  BY DEF C!GetChannel, CP!GetChannel, C!TakeTime, CP!TakeTime, C!Respond, CP!Respond
<1>5. ASSUME NEW r \in Requests
      PROVE  /\ C!SaveChannel(r) => CP!SaveChannel(r)
             /\ C!SaveChannelFails(r) => CP!SaveChannelFails(r)
  BY DEF C!SaveChannel, CP!SaveChannel, C!SaveChannelFails, CP!SaveChannelFails,
     C!Commit, CP!Commit
<1>6. ASSUME NEW r \in Requests
      PROVE  C!RollbackBegin(r) => CP!RollbackBegin(r)
  BY DEF C!RollbackBegin, CP!RollbackBegin, C!RollbackTarget, CP!RollbackTarget,
     C!Listed, CP!Listed, C!ListedBefore, CP!ListedBefore, C!TextLater,
     CP!TextLater, C!Times, CP!Times, C!Cardinality, CP!Cardinality
<1>7. C!Crash => CP!Crash
  BY DEF C!Crash, CP!Crash
<1> QED
  BY <1>1, <1>2, <1>3, <1>4, <1>5, <1>6, <1>7

\* The actions of Service's dispatcher are those of the proof's.
LEMMA DispatcherSame ==
    /\ D!Init => DP!Init
    /\ \A r \in Requests : D!Commit(r) => DP!Commit(r)
    /\ \A r \in Requests : D!EmitNext(r) => DP!EmitNext(r)
    /\ \A w : D!Post(w) => DP!Post(w)
    /\ \A w : D!RecordDelivered(w) => DP!RecordDelivered(w)
    /\ \A w : D!RecordFailed(w) => DP!RecordFailed(w)
    /\ \A w : D!RecordDeadLetter(w) => DP!RecordDeadLetter(w)
    /\ D!Crash => DP!Crash
<1> USE DEF D!records, DP!records, D!emitVars, DP!emitVars, D!workVars,
     DP!workVars, D!replayVars, DP!replayVars, D!Deliveries, DP!Deliveries,
     D!Workers, DP!Workers, D!Job, DP!Job, D!Live, DP!Live
<1>1. D!Init => DP!Init
  BY DEF D!Init, DP!Init
<1>2. ASSUME NEW r \in Requests
      PROVE  D!Commit(r) => DP!Commit(r)
  BY DEF D!Commit, DP!Commit
<1>3. ASSUME NEW r \in Requests
      PROVE  D!EmitNext(r) => DP!EmitNext(r)
  BY DEF D!EmitNext, DP!EmitNext, D!EmitTo, DP!EmitTo, D!EmitReturns,
     DP!EmitReturns, D!CreateDelivery, DP!CreateDelivery, D!NextHint,
     DP!NextHint, D!Siblings, DP!Siblings, D!Spawn, DP!Spawn, D!Cardinality,
     DP!Cardinality
<1>4. \A w : D!Post(w) => DP!Post(w)
  BY DEF D!Post, DP!Post
<1>5. \A w : /\ D!RecordDelivered(w) => DP!RecordDelivered(w)
             /\ D!RecordFailed(w) => DP!RecordFailed(w)
             /\ D!RecordDeadLetter(w) => DP!RecordDeadLetter(w)
  BY DEF D!RecordDelivered, DP!RecordDelivered, D!RecordFailed, DP!RecordFailed,
     D!RecordDeadLetter, DP!RecordDeadLetter, D!Finish, DP!Finish,
     D!UpdateDelivery, DP!UpdateDelivery
<1>6. D!Crash => DP!Crash
  BY DEF D!Crash, DP!Crash
<1> QED
  BY <1>1, <1>2, <1>3, <1>4, <1>5, <1>6

\* Every step of the service is a step of each part or leaves it alone.
LEMMA StepParts ==
    ASSUME [Next]_vars
    PROVE  [CP!Next]_(CP!vars) /\ [DP!Next]_(DP!vars)
<1> USE DEF channelVars, dispatcherVars, CP!vars, DP!vars
<1>1. ASSUME NEW v \in Versions, Publish(v)
      PROVE  CP!Next /\ UNCHANGED dispatcherVars
  BY <1>1, ChannelsSame DEF Publish, CP!Next
<1>2. ASSUME NEW r \in Requests, Begin(r) \/ Proceed(r)
      PROVE  CP!Next /\ UNCHANGED dispatcherVars
  <2>1. CP!RequestNext(r)
    BY <1>2, ChannelsSame DEF Begin, Proceed, CP!RequestNext
  <2> QED
    BY <1>2, <2>1 DEF Begin, Proceed, CP!Next
<1>3. ASSUME NEW r \in Requests, Save(r) PROVE CP!Next /\ DP!Next
  BY <1>3, ChannelsSame, DispatcherSame DEF Save, CP!RequestNext, CP!Next, DP!Next
<1>4. ASSUME NEW r \in Requests, Emit(r)
      PROVE  DP!Next /\ UNCHANGED channelVars
  BY <1>4, DispatcherSame DEF Emit, DP!Next
<1>5. ASSUME NEW r \in Requests, Respond(r)
      PROVE  CP!Next /\ UNCHANGED dispatcherVars
  BY <1>5, ChannelsSame DEF Respond, CP!RequestNext, CP!Next
<1>6. ASSUME NEW w \in D!Workers, Post(w) \/ Record(w)
      PROVE  DP!Next /\ UNCHANGED channelVars
  <2>1. w \in DP!Workers
    BY DEF D!Workers, DP!Workers, D!Deliveries, DP!Deliveries
  <2>2. DP!WorkNext(w)
    BY <1>6, DispatcherSame DEF Post, Record, DP!WorkNext
  <2> QED
    BY <1>6, <2>1, <2>2 DEF Post, Record, DP!Next
<1>7. CASE Crash
  BY <1>7, ChannelsSame, DispatcherSame DEF Crash, CP!Next, DP!Next
<1>8. CASE UNCHANGED vars \/ \E n \in 1..NUrls, c \in Channels : Reconcile(n, c)
  BY <1>8 DEF vars, Reconcile
<1> QED
  BY <1>1, <1>2, <1>3, <1>4, <1>5, <1>6, <1>7, <1>8 DEF Next

\* Whatever the service does, its channel requests behave as Channels says and
\* its deliveries as Dispatcher says.
THEOREM RunsItsParts == Spec => CP!Spec /\ DP!Spec
<1>1. Init => CP!Init /\ DP!Init
  BY ChannelsSame, DispatcherSame DEF Init
<1> QED
  BY <1>1, StepParts, PTL DEF Spec, CP!Spec, DP!Spec

-----------------------------------------------------------------------------
(***************************************************************************)
(* The invariant that ties the parts and the consumers together.           *)
(***************************************************************************)
ConsumersType ==
    /\ unread \in [1..NUrls -> SUBSET Channels]
    /\ view \in [1..NUrls -> [Channels -> CP!Pointer \cup {CP!NoPointer}]]
    /\ earlier \in [Requests -> SUBSET Requests]

\* Emit begins with the save that is confirmed and ends before the answer.
EmitFollowsSave ==
    \A r \in Requests :
        /\ epc[r] = "idle" <=> reply[r] # "ok"
        /\ reply[r] = "ok" => pc[r] \in {"saved", "done", "dead"}
        /\ reply[r] = "ok" /\ pc[r] = "done" => epc[r] = "done"

\* Endpoints receive what goroutines post, and nobody else posts.
Reception ==
    /\ received \subseteq Requests \X (1..NUrls)
    /\ acked \subseteq received
    /\ \A d \in received : wpc[d] # "none"

\* The requests answered before another began have emitted their events.
EarlierEmitted ==
    \A r \in Requests : \A q \in earlier[r] : epc[q] = "done"

ServiceInv ==
    /\ ConsumersType
    /\ EmitFollowsSave
    /\ Reception
    /\ EarlierEmitted
    /\ ConsumersCatchUp
    /\ HintsFollowAnswers

\* What the invariant needs of the parts.
PartsInv ==
    /\ CP!TypeOK
    /\ DP!TypeOK
    /\ DP!UrlsInTurn
    /\ DP!AttemptsAtPC
    /\ DP!EmitProgress

\* An event that is not emitted yet has no record, no goroutine and no
\* receiver.
LEMMA NotYetEmitted ==
    ASSUME PartsInv, ServiceInv, NEW r \in Requests, epc[r] = "idle", NEW n \in 1..NUrls
    PROVE  status[<<r, n>>] = "absent" /\ <<r, n>> \notin received
<1>1. <<r, n>> \in DP!Deliveries /\ next[r] <= n
  BY DEF PartsInv, DP!EmitProgress, DP!Deliveries
<1>2. status[<<r, n>>] = "absent" /\ wpc[<<r, n>>] = "none"
  BY <1>1 DEF PartsInv, DP!UrlsInTurn
<1> QED
  BY <1>2 DEF ServiceInv, Reception

\* A pointer that nobody saved announces nothing.
LEMMA SavedBy ==
    ASSUME PartsInv, ServiceInv, NEW c \in Channels, NEW n,
           <<channel[c].by, n>> \in received
    PROVE  channel[c].by \in Requests /\ n \in 1..NUrls
BY DEF ServiceInv, Reception

-----------------------------------------------------------------------------
(***************************************************************************)
(* Consumers.                                                              *)
(***************************************************************************)

\* A save by a request whose event nobody has received leaves consumers to be
\* told.
LEMMA SaveKeepsCatchUp ==
    ASSUME PartsInv, ServiceInv, UNCHANGED consumers, NEW r \in Requests,
           epc[r] = "idle", NEW row, row.by = r,
           channel' = [channel EXCEPT ![chan[r]] = row]
    PROVE  ConsumersCatchUp'
<1> SUFFICES ASSUME NEW n \in 1..NUrls, NEW c \in Channels,
                    <<channel'[c].by, n>> \in received, c \notin unread[n]
             PROVE  view[n][c] = channel'[c]
  BY DEF ConsumersCatchUp, consumers
<1>1. <<r, n>> \notin received
  BY NotYetEmitted
<1>2. channel'[c] = channel[c]
  BY <1>1 DEF PartsInv, CP!TypeOK
<1> QED
  BY <1>2 DEF ServiceInv, ConsumersCatchUp

\* What moves a channel, or takes a delivery, leaves the consumers able to catch up.
LEMMA CatchUpStep ==
    ASSUME PartsInv, ServiceInv, [Next]_vars
    PROVE  ConsumersCatchUp'
<1> USE DEF PartsInv, channelVars, dispatcherVars, consumers
<1>1. CASE UNCHANGED <<channel, consumers>>
  BY <1>1 DEF ServiceInv, ConsumersCatchUp
<1>2. ASSUME NEW r \in Requests, Proceed(r) \/ Save(r), channel' # channel
      PROVE  ConsumersCatchUp'
  <2>1. pc[r] = "save" /\ C!Commit(r) /\ UNCHANGED consumers
    BY <1>2 DEF Proceed, Save, C!GetArtifact, C!QueryFails, C!GetChannel,
       C!TakeTime, C!SaveChannelFails, C!SaveChannel, C!Goto, C!tables
  <2>2. epc[r] = "idle"
    BY <2>1 DEF ServiceInv, EmitFollowsSave
  <2>3. PICK row : row.by = r /\ channel' = [channel EXCEPT ![chan[r]] = row]
    BY <2>1 DEF C!Commit
  <2> QED
    BY <2>1, <2>2, <2>3, SaveKeepsCatchUp
<1>3. ASSUME NEW w \in D!Workers, Post(w)
      PROVE  ConsumersCatchUp'
  <2>1. w \in Requests \X (1..NUrls) /\ D!Job(w) = w
    BY DEF D!Workers, D!Deliveries, D!Job
  <2>2. CASE Take(w)
    BY <1>3, <2>1, <2>2 DEF Post, Take, ServiceInv, ConsumersType, ConsumersCatchUp
  <2>3. CASE UNCHANGED <<received, unread>>
    BY <1>3, <2>3 DEF Post, ServiceInv, ConsumersCatchUp
  <2> QED
    BY <1>3, <2>1, <2>2, <2>3 DEF Post
<1>4. ASSUME NEW n \in 1..NUrls, NEW c \in Channels, Reconcile(n, c)
      PROVE  ConsumersCatchUp'
  BY <1>4 DEF Reconcile, ServiceInv, ConsumersType, ConsumersCatchUp
<1>5. ASSUME NEW r \in Requests, Begin(r) \/ Emit(r) \/ Respond(r)
      PROVE  UNCHANGED <<channel, consumers>>
  BY <1>5 DEF Begin, Emit, Respond, C!RollbackBegin, C!PromoteBegin, C!Respond, C!tables
<1>6. ASSUME NEW r \in Requests, Proceed(r) \/ Save(r)
      PROVE  UNCHANGED consumers
  BY <1>6 DEF Proceed, Save
<1>7. (\E v \in Versions : Publish(v)) => UNCHANGED <<channel, consumers>>
  BY DEF Publish, C!Publish, C!tables
<1>8. (\E w \in D!Workers : Record(w)) \/ Crash \/ UNCHANGED vars
         => UNCHANGED <<channel, consumers>>
  BY DEF Record, Crash, C!Crash, C!tables, vars
<1> QED
  BY <1>1, <1>2, <1>3, <1>4, <1>5, <1>6, <1>7, <1>8 DEF Next

\* Every step keeps the types of the consumers' state.
LEMMA ConsumersTypeStep ==
    ASSUME PartsInv, ConsumersType, [Next]_vars
    PROVE  ConsumersType'
<1> USE DEF ConsumersType, consumers
<1>1. ASSUME NEW w \in D!Workers, Post(w) PROVE ConsumersType'
  <2>1. w \in Requests \X (1..NUrls) /\ D!Job(w) = w
    BY DEF D!Workers, D!Deliveries, D!Job
  <2> QED
    BY <1>1, <2>1 DEF Post, Take
<1>2. ASSUME NEW n \in 1..NUrls, NEW c \in Channels, Reconcile(n, c)
      PROVE  ConsumersType'
  <2>1. channel[c] \in CP!Pointer \cup {CP!NoPointer}
    BY DEF PartsInv, CP!TypeOK
  <2> QED
    BY <1>2, <2>1 DEF Reconcile
<1>3. ASSUME NEW r \in Requests, Begin(r) PROVE ConsumersType'
  BY <1>3 DEF Begin
<1>4. ASSUME NEW r \in Requests, Proceed(r) \/ Save(r) \/ Emit(r) \/ Respond(r)
      PROVE  ConsumersType'
  BY <1>4 DEF Proceed, Save, Emit, Respond
<1>5. CASE \E v \in Versions : Publish(v)
  BY <1>5 DEF Publish
<1>6. CASE (\E w \in D!Workers : Record(w)) \/ Crash \/ UNCHANGED vars
  BY <1>6 DEF Record, Crash, vars
<1> QED
  BY <1>1, <1>2, <1>3, <1>4, <1>5, <1>6 DEF Next

-----------------------------------------------------------------------------
(***************************************************************************)
(* Requests and their events.                                              *)
(***************************************************************************)
LEMMA EmitFollowsSaveStep ==
    ASSUME PartsInv, EmitFollowsSave, [Next]_vars
    PROVE  EmitFollowsSave'
<1> USE DEF PartsInv, CP!TypeOK, DP!TypeOK, channelVars, dispatcherVars,
     EmitFollowsSave, C!Goto, C!Answer, C!locals, C!tables
<1>1. ASSUME NEW r \in Requests, Begin(r) \/ Proceed(r) PROVE EmitFollowsSave'
  <2>1. /\ epc' = epc /\ reply[r] # "ok" /\ reply'[r] # "ok"
        /\ \A q \in Requests \ {r} : pc'[q] = pc[q] /\ reply'[q] = reply[q]
    <3>1. epc' = epc
      BY <1>1 DEF Begin, Proceed
    <3>2. \/ C!RollbackBegin(r) \/ \E v \in Versions : C!PromoteBegin(r, v)
          \/ C!GetArtifact(r) \/ C!QueryFails(r) \/ C!GetChannel(r)
          \/ C!TakeTime(r) \/ C!SaveChannelFails(r)
      BY <1>1 DEF Begin, Proceed
    <3>3. pc[r] \in {"idle", "resolve", "found", "stamp", "save"}
      BY <3>2 DEF C!RollbackBegin, C!PromoteBegin, C!MayStart, C!GetArtifact,
         C!QueryFails, C!GetChannel, C!TakeTime, C!SaveChannelFails
    <3>4. /\ pc' = [pc EXCEPT ![r] = pc'[r]]
          /\ reply' = reply
             \/ \E a \in {"conflict", "notfound", "error"} :
                   reply' = [reply EXCEPT ![r] = a]
      <4> HIDE DEF EmitFollowsSave
      <4> QED
        BY <3>2 DEF C!RollbackBegin, C!PromoteBegin, C!MayStart, C!GetArtifact,
           C!QueryFails, C!GetChannel, C!TakeTime, C!SaveChannelFails
    <3>5. reply[r] # "ok"
      BY <3>3
    <3> QED
      BY <3>1, <3>4, <3>5
  <2> QED
    BY <2>1
<1>2. ASSUME NEW r \in Requests, Save(r) PROVE EmitFollowsSave'
  BY <1>2 DEF Save, C!SaveChannel, D!Commit
<1>3. ASSUME NEW r \in Requests, Emit(r) PROVE EmitFollowsSave'
  BY <1>3 DEF Emit, D!EmitNext, D!EmitTo, D!EmitReturns
<1>4. ASSUME NEW r \in Requests, Respond(r) PROVE EmitFollowsSave'
  BY <1>4 DEF Respond, C!Respond
<1>5. ASSUME NEW w \in D!Workers, Post(w) \/ Record(w) PROVE EmitFollowsSave'
  BY <1>5 DEF Post, Record, D!Post, D!RecordDelivered, D!RecordFailed,
     D!RecordDeadLetter, D!Finish, D!emitVars
<1>6. CASE Crash
  <2>1. \A r \in Requests :
           epc'[r] = IF epc[r] = "emitting" THEN "dead" ELSE epc[r]
    BY <1>6 DEF Crash, D!Crash
  <2>2. /\ reply' = reply
        /\ \A r \in Requests : pc'[r] = pc[r] \/ pc'[r] = "dead"
    BY <1>6 DEF Crash, C!Crash
  <2> QED
    BY <2>1, <2>2
<1>7. CASE \E v \in Versions : Publish(v)
  BY <1>7 DEF Publish, C!Publish
<1>8. CASE UNCHANGED vars \/ \E n \in 1..NUrls, c \in Channels : Reconcile(n, c)
  BY <1>8 DEF vars, Reconcile
<1> QED
  BY <1>1, <1>2, <1>3, <1>4, <1>5, <1>6, <1>7, <1>8 DEF Next

\* Every step keeps what endpoints received within what goroutines posted.
LEMMA ReceptionStep ==
    ASSUME PartsInv, Reception, [Next]_vars
    PROVE  Reception'
<1> USE DEF PartsInv, DP!TypeOK, dispatcherVars, consumers, Reception
<1> Requests \X (1..NUrls) = DP!Workers
  BY DEF DP!Workers, DP!Deliveries
<1>1. ASSUME UNCHANGED <<received, acked>>,
             \A d \in DP!Workers : wpc[d] # "none" => wpc'[d] # "none"
      PROVE  Reception'
  BY <1>1
<1>2. ASSUME NEW w \in D!Workers, Post(w) PROVE Reception'
  <2>1. w \in DP!Workers /\ D!Job(w) = w
    BY DEF D!Workers, D!Deliveries, D!Job
  <2>2. /\ wpc' = [wpc EXCEPT ![w] = wpc'[w]] /\ wpc'[w] # "none"
        /\ acked' \subseteq acked \cup {w}
    BY <1>2, <2>1 DEF Post, D!Post
  <2>3. received' = received \cup {w} \/ (received' = received /\ acked' = acked)
    BY <1>2, <2>1 DEF Post, Take
  <2>4. \A d \in DP!Workers : wpc[d] # "none" \/ d = w => wpc'[d] # "none"
    <3> HIDE DEF Reception
    <3> QED
      BY <2>1, <2>2
  <2> QED
    BY <2>1, <2>2, <2>3, <2>4
<1>3. ASSUME NEW w \in D!Workers, Record(w) PROVE Reception'
  BY <1>1, <1>3 DEF Record, D!RecordDelivered, D!RecordFailed, D!RecordDeadLetter,
     D!Finish
<1>4. ASSUME NEW r \in Requests, Emit(r) PROVE Reception'
  BY <1>1, <1>4 DEF Emit, D!EmitNext, D!EmitTo, D!EmitReturns, D!Spawn, D!workVars
<1>5. ASSUME NEW r \in Requests, Save(r) PROVE Reception'
  BY <1>1, <1>5 DEF Save, D!Commit, D!workVars
<1>6. ASSUME NEW r \in Requests, Begin(r) \/ Proceed(r) \/ Respond(r)
      PROVE  Reception'
  BY <1>1, <1>6 DEF Begin, Proceed, Respond
<1>7. CASE Crash
  BY <1>1, <1>7 DEF Crash, D!Crash, D!Workers, D!Deliveries, DP!Workers, DP!Deliveries
<1>8. CASE \E v \in Versions : Publish(v)
  BY <1>1, <1>8 DEF Publish
<1>9. CASE UNCHANGED vars \/ \E n \in 1..NUrls, c \in Channels : Reconcile(n, c)
  BY <1>1, <1>9 DEF vars, Reconcile
<1> QED
  BY <1>2, <1>3, <1>4, <1>5, <1>6, <1>7, <1>8, <1>9 DEF Next

\* Only the beginning of a request changes what is earlier than it.
LEMMA EarlierChange ==
    ASSUME PartsInv, ConsumersType, [Next]_vars
    PROVE  \/ earlier' = earlier
           \/ \E r \in Requests :
                 /\ Begin(r) /\ pc[r] = "idle"
                 /\ UNCHANGED <<epc, status, hint>>
                 /\ earlier' = [earlier EXCEPT ![r] =
                       {q \in Requests : pc[q] = "done" /\ reply[q] = "ok"}]
<1>1. ASSUME NEW r \in Requests, Begin(r)
      PROVE  /\ pc[r] = "idle" /\ UNCHANGED <<epc, status, hint>>
             /\ earlier' = [earlier EXCEPT ![r] =
                   {q \in Requests : pc[q] = "done" /\ reply[q] = "ok"}]
  BY <1>1 DEF Begin, C!RollbackBegin, C!PromoteBegin, C!MayStart, dispatcherVars
<1> QED
  BY <1>1 DEF Next, Publish, Proceed, Save, Emit, Respond, Post, Record,
     Reconcile, Crash, vars

\* The requests answered before another began have emitted, after every step too.
LEMMA EarlierStep ==
    ASSUME PartsInv, ServiceInv, [Next]_vars
    PROVE  EarlierEmitted'
<1> USE DEF ServiceInv
<1>1. \A q \in Requests : epc[q] = "done" => epc'[q] = "done"
  BY DEF PartsInv, DP!TypeOK, dispatcherVars, Next, Publish, Begin, Proceed, Save,
     D!Commit, Emit, D!EmitNext, D!EmitTo, D!EmitReturns, Respond, Post, D!Post,
     D!emitVars, Record, D!RecordDelivered, D!RecordFailed, D!RecordDeadLetter,
     D!Finish, Reconcile, Crash, D!Crash, vars
<1>2. CASE earlier' = earlier
  BY <1>1, <1>2 DEF EarlierEmitted, ConsumersType
<1>3. ASSUME NEW r \in Requests,
             earlier' = [earlier EXCEPT ![r] =
                {q \in Requests : pc[q] = "done" /\ reply[q] = "ok"}]
      PROVE  EarlierEmitted'
  BY <1>1, <1>3 DEF EarlierEmitted, ConsumersType, EmitFollowsSave
<1> QED
  BY <1>2, <1>3, EarlierChange

\* A record inserted after another request was answered has the higher hint.
LEMMA HintsFollowStep ==
    ASSUME PartsInv, ServiceInv, [Next]_vars, [DP!InsertedLast]_(DP!vars)
    PROVE  HintsFollowAnswers'
<1> USE DEF ServiceInv
<1>1. /\ D!Deliveries = DP!Deliveries
      /\ \A d \in D!Deliveries :
            d[1] \in Requests /\ d[2] \in 1..NUrls /\ d = <<d[1], d[2]>>
  BY DEF D!Deliveries, DP!Deliveries
<1>2. ASSUME earlier' = earlier, NEW d \in D!Deliveries, NEW e \in D!Deliveries,
             d[1] \in earlier[e[1]], status'[d] # "absent", status'[e] # "absent"
      PROVE  hint'[d] < hint'[e]
  <2>1. CASE UNCHANGED DP!vars
    BY <1>2, <2>1 DEF DP!vars, HintsFollowAnswers
  <2>2. CASE DP!InsertedLast
    <3>1. epc[d[1]] = "done"
      BY <1>1, <1>2 DEF EarlierEmitted
    <3>2. status[d] # "absent" /\ hint'[d] = hint[d]
      BY <1>1, <1>2, <2>2, <3>1 DEF DP!InsertedLast
    <3>3. CASE status[e] # "absent"
      BY <1>1, <1>2, <2>2, <3>2, <3>3 DEF DP!InsertedLast, HintsFollowAnswers
    <3>4. CASE status[e] = "absent"
      <4>1. d \in DP!Siblings(e)
        BY <1>1, <3>2 DEF DP!Siblings
      <4> QED
        BY <1>1, <1>2, <2>2, <3>2, <3>4, <4>1 DEF DP!InsertedLast
    <3> QED
      BY <3>3, <3>4
  <2> QED
    BY <2>1, <2>2
<1>3. ASSUME NEW r \in Requests, pc[r] = "idle", UNCHANGED <<epc, status, hint>>,
             earlier' = [earlier EXCEPT ![r] =
                {q \in Requests : pc[q] = "done" /\ reply[q] = "ok"}],
             NEW d \in D!Deliveries, NEW e \in D!Deliveries,
             d[1] \in earlier'[e[1]], status'[d] # "absent", status'[e] # "absent"
      PROVE  hint'[d] < hint'[e]
  <2>1. e[1] # r
    <3>1. epc[r] = "idle"
      BY <1>3 DEF EmitFollowsSave
    <3> QED
      BY <1>1, <1>3, <3>1, NotYetEmitted
  <2>2. d[1] \in earlier[e[1]]
    BY <1>3, <2>1 DEF ConsumersType
  <2> QED
    BY <1>3, <2>2 DEF HintsFollowAnswers
<1> QED
  BY <1>2, <1>3, EarlierChange DEF HintsFollowAnswers

\* The invariant holds initially.
LEMMA InitServiceInv == Init => ServiceInv
<1> SUFFICES ASSUME Init PROVE ServiceInv
  OBVIOUS
<1> USE DEF Init
<1>1. ConsumersType
  BY DEF ConsumersType, C!NoPointer, CP!NoPointer
<1>2. EmitFollowsSave
  BY DEF EmitFollowsSave, C!Init, D!Init
<1>3. Reception /\ EarlierEmitted /\ ConsumersCatchUp /\ HintsFollowAnswers
  BY DEF Reception, EarlierEmitted, ConsumersCatchUp, HintsFollowAnswers, D!Init
<1> QED
  BY <1>1, <1>2, <1>3 DEF ServiceInv

-----------------------------------------------------------------------------
(***************************************************************************)
(* Theorems.                                                               *)
(***************************************************************************)

\* The parts keep their promises inside the service.
THEOREM PartsHold == Spec => [](CP!IInv /\ DP!IInv /\ DP!EmitProgress)
BY RunsItsParts, PartsAssume, CP!Inductive, DP!Inductive, DP!EmitProgresses, PTL

\* The invariant that ties them together always holds.
THEOREM Inductive == Spec => [](PartsInv /\ ServiceInv)
<1>1. CP!IInv /\ DP!IInv /\ DP!EmitProgress => PartsInv
  BY DEF PartsInv, CP!IInv, DP!IInv
<1>2. PartsInv /\ ServiceInv /\ [Next]_vars /\ [DP!InsertedLast]_(DP!vars)
         => ServiceInv'
  <2> SUFFICES ASSUME PartsInv, ServiceInv, [Next]_vars,
                      [DP!InsertedLast]_(DP!vars)
               PROVE  ServiceInv'
    OBVIOUS
  <2>1. ConsumersType' /\ EmitFollowsSave' /\ Reception'
    BY ConsumersTypeStep, EmitFollowsSaveStep, ReceptionStep DEF ServiceInv
  <2> QED
    BY <2>1, EarlierStep, CatchUpStep, HintsFollowStep DEF ServiceInv
<1> QED
  BY PartsHold, PartsAssume, InitServiceInv, RunsItsParts, DP!HintsGrow,
     <1>1, <1>2, PTL DEF Spec

\* A consumer that reads a channel again whenever it receives an event, and has
\* nothing left to read, knows the pointer whose event it has received.
THEOREM ConsumersDoCatchUp == Spec => []ConsumersCatchUp
BY Inductive, PTL DEF ServiceInv

\* Who begins after another request was answered gets the higher hints.
THEOREM HintsDoFollowAnswers == Spec => []HintsFollowAnswers
BY Inductive, PTL DEF ServiceInv

\* A confirmed move is known to each consumer, or still to be read, emitted or
\* posted, unless a kill or the failure of every attempt broke it off.
THEOREM MovesAreNotForgotten == Spec => []MoveNotForgotten
<1>1. PartsInv /\ ServiceInv => MoveNotForgotten
  <2> SUFFICES ASSUME PartsInv, ServiceInv, NEW n \in 1..NUrls, NEW c \in Channels,
                      channel[c].by # NoRequest, reply[channel[c].by] = "ok",
                      ~(view[n][c] = channel[c] \/ c \in unread[n])
               PROVE  LET r == channel[c].by
                          d == <<r, n>>
                      IN  \/ epc[r] = "emitting" /\ next[r] <= n
                          \/ wpc[d] \in {"posting", "err", "exhausted"}
                          \/ d \in killed
                          \/ wpc[d] = "done" /\ d \notin acked
    BY DEF MoveNotForgotten
  <2> DEFINE r == channel[c].by
             d == <<r, n>>
  <2>1. r \in Requests /\ d \in DP!Deliveries /\ d \in DP!Workers /\ d[1] = r /\ d[2] = n
    <3>1. channel[c] \in CP!Pointer \cup {CP!NoPointer}
      BY DEF PartsInv, CP!TypeOK
    <3> QED
      BY <3>1 DEF CP!Pointer, CP!NoPointer, DP!Workers, DP!Deliveries
  <2>2. d \notin received /\ d \notin acked
    BY DEF ServiceInv, ConsumersCatchUp, Reception
  <2>3. epc[r] \in {"emitting", "done", "dead"} /\ next[r] \in 1..(NUrls + 1)
    BY <2>1 DEF ServiceInv, EmitFollowsSave, PartsInv, DP!TypeOK
  <2>4. n < next[r] \/ next[r] <= n
    BY <2>3
  <2>5. CASE n < next[r]
    <3>1. wpc[d] \in {"posting", "ok", "err", "exhausted", "done", "dead"}
      BY <2>1, <2>5 DEF PartsInv, DP!EmitProgress, DP!TypeOK
    <3>2. wpc[d] = "ok" => d \in acked
      BY <2>1 DEF PartsInv, DP!AttemptsAtPC
    <3> QED
      BY <2>1, <2>2, <3>1, <3>2 DEF PartsInv, DP!EmitProgress
  <2>6. CASE next[r] <= n
    BY <2>1, <2>3, <2>6, ServiceAssumption DEF PartsInv, DP!EmitProgress
  <2> QED
    BY <2>4, <2>5, <2>6
<1> QED
  BY <1>1, Inductive, PTL
=============================================================================
