--------------------------- MODULE ChannelSwapProof ---------------------------
(***************************************************************************)
(* Channels implements ChannelSwap while requests do not overlap and stamps *)
(* sort as text the way they do in time.                                   *)
(***************************************************************************)
EXTENDS ChannelsProof

StampsSortInTime == \A s, t \in Times : s < t => TextRank[s] < TextRank[t]

Active(r) == pc[r] \notin {"idle", "done", "dead"}

\* Requests do not overlap.
OneAtATime == \A r, q \in Requests : Active(r) /\ Active(q) => r = q

\* The rows of a history are in the order of their stamps, and none is later
\* than the clock or than the stamp of the request that is about to save.
StampsInOrder ==
    \A c \in Channels : \A i \in DOMAIN history[c] :
        /\ history[c][i].at <= clock
        /\ \A j \in DOMAIN history[c] : i < j => history[c][i].at <= history[c][j].at
        /\ \A r \in Requests : pc[r] = "save" => history[c][i].at <= stamp[r]
StampIsPast == \A r \in Requests : pc[r] = "save" => stamp[r] <= clock

\* What a rollback found before its save is still the row before the last.
RollsBackOne ==
    \A r \in Requests :
        pc[r] \in {"resolve", "found", "stamp", "save"} /\ op[r] = "rollback"
            => /\ Len(history[chan[r]]) >= 2
               /\ target[r] = SecondLast(history[chan[r]])

\* A request whose row is in a history has begun, so its op stays what it is.
RowsHaveBegun ==
    \A c \in Channels : \A i \in DOMAIN history[c] :
        pc[history[c][i].by] # "idle"

SerialInv ==
    /\ IInv
    /\ OneAtATime
    /\ StampsInOrder
    /\ StampIsPast
    /\ RollsBackOne
    /\ RowsHaveBegun

-----------------------------------------------------------------------------
\* The initial state.
LEMMA InitSerialInv == Init => SerialInv
BY InitIInv DEF Init, SerialInv, OneAtATime, Active, StampsInOrder, StampIsPast,
   RollsBackOne, RowsHaveBegun

\* Only one request runs, and no request that has begun is idle again.
LEMMA OneAtATimeStep ==
    ASSUME TypeOK, Serial, OneAtATime, [Next]_vars
    PROVE  /\ OneAtATime'
           /\ \A r \in Requests : pc[r] # "idle" => pc'[r] # "idle" /\ op'[r] = op[r]
<1>1. ASSUME NEW r \in Requests, RequestNext(r)
      PROVE  /\ pc' = [pc EXCEPT ![r] = pc'[r]] /\ pc'[r] # "idle"
             /\ \/ MayStart(r) /\ op' = [op EXCEPT ![r] = op'[r]]
                \/ Active(r) /\ op' = op
  BY <1>1 DEF RequestNext, ResolveBegin, ResolveEnds, RollbackBegin,
     PromoteBegin, GetArtifact, QueryFails, GetChannel, TakeTime, SaveChannel,
     SaveChannelFails, Respond, MayStart, Goto, Active, locals, TypeOK
<1>2. ASSUME NEW r \in Requests, RequestNext(r)
      PROVE  /\ OneAtATime'
             /\ \A q \in Requests : pc[q] # "idle" => pc'[q] # "idle" /\ op'[q] = op[q]
  <2>1. \A q \in Requests : q # r => pc'[q] = pc[q] /\ op'[q] = op[q]
    BY <1>1, <1>2 DEF TypeOK
  <2>2. CASE MayStart(r)
    BY <1>1, <1>2, <2>1, <2>2 DEF OneAtATime, Active, MayStart
  <2>3. CASE Active(r) /\ op' = op
    BY <1>1, <1>2, <2>1, <2>3 DEF OneAtATime, Active
  <2> QED
    BY <1>1, <1>2, <2>2, <2>3
<1>3. CASE ~ \E r \in Requests : RequestNext(r)
  BY <1>3 DEF Next, Publish, Tick, Crash, vars, locals, TypeOK, OneAtATime, Active
<1> QED
  BY <1>2, <1>3

\* Whose step it is: only the request that runs takes one.
LEMMA OthersWait ==
    ASSUME TypeOK, NEW r \in Requests, RequestNext(r), NEW q \in Requests \ {r}
    PROVE  /\ pc'[q] = pc[q] /\ op'[q] = op[q] /\ target'[q] = target[q]
           /\ stamp'[q] = stamp[q]
BY DEF TypeOK, RequestNext, ResolveBegin, ResolveEnds, RollbackBegin,
   PromoteBegin, GetArtifact, QueryFails, GetChannel, TakeTime, SaveChannel,
   SaveChannelFails, Respond, Goto, Answer, locals

\* What a request's own step may do to its place and to what it remembers.
LEMMA OwnStep ==
    ASSUME TypeOK, NEW r \in Requests, RequestNext(r)
    PROVE  /\ clock' = clock
           /\ pc'[r] = "save" => pc[r] = "stamp" /\ stamp'[r] = clock
           /\ pc'[r] \in {"found", "stamp", "save"}
                 => pc[r] \in {"resolve", "found", "stamp"}
           /\ pc'[r] = "resolve" => pc[r] = "idle"
           /\ \/ pc[r] = "idle"
              \/ op' = op /\ target'[r] = target[r]
           /\ pc'[r] # "idle"
           /\ pc[r] = "save" => pc'[r] \in {"saved", "done"}
           /\ Active(r) \/ MayStart(r)
           /\ pc[r] # "save" => UNCHANGED tables
           /\ chan' = chan
BY DEF TypeOK, RequestNext, ResolveBegin, ResolveEnds, RollbackBegin,
   PromoteBegin, GetArtifact, QueryFails, GetChannel, TakeTime, SaveChannel,
   SaveChannelFails, Respond, MayStart, Goto, Answer, locals, tables, Active

\* A step that is no request's keeps what requests remember, and starts none.
LEMMA OtherStep ==
    ASSUME TypeOK, [Next]_vars, ~ \E r \in Requests : RequestNext(r)
    PROVE  /\ UNCHANGED <<tables, locals>>
           /\ clock' \in Times /\ clock <= clock'
           /\ \A r \in Requests : pc'[r] \in {pc[r], "dead"}
           /\ \A r \in Requests : pc'[r] = "idle" <=> pc[r] = "idle"
<1> USE DEF locals, tables, TypeOK, Times
<1>1. CASE \E v \in Versions : Publish(v)
  BY <1>1 DEF Publish
<1>2. CASE Tick
  <2>1. clock' \in Times /\ clock <= clock'
    BY <1>2, ChannelsAssumption DEF Tick
  <2> QED
    BY <1>2, <2>1 DEF Tick
<1>3. CASE Crash
  BY <1>3 DEF Crash
<1>4. CASE UNCHANGED vars
  BY <1>4 DEF vars
<1> QED
  BY <1>1, <1>2, <1>3, <1>4 DEF Next

\* The row a save appends, and where.
LEMMA Appended ==
    ASSUME TypeOK, NEW r \in Requests, pc[r] = "save",
           history' = [history EXCEPT ![chan[r]] = Append(@, Row(r))],
           NEW c \in Channels
    PROVE  /\ Len(history[c]) \in Nat /\ DOMAIN history[c] = 1..Len(history[c])
           /\ c # chan[r] => history'[c] = history[c]
           /\ c = chan[r] =>
                /\ Len(history'[c]) = Len(history[c]) + 1
                /\ DOMAIN history'[c] = 1..(Len(history[c]) + 1)
                /\ history'[c][Len(history[c]) + 1] = Row(r)
                /\ \A i \in 1..Len(history[c]) : history'[c][i] = history[c][i]
<1>1. history[c] \in Seq(Pointer)
  BY DEF TypeOK
<1>2. c # chan[r] => history'[c] = history[c]
  BY DEF TypeOK
<1>3. c = chan[r] => history'[c] = Append(history[c], Row(r))
  BY DEF TypeOK
<1> QED
  BY <1>1, <1>2, <1>3

\* Stamps stay in order: a save's stamp was taken after every earlier save.
LEMMA StampsStep ==
    ASSUME TypeOK, TypeOK', OneAtATime, StampsInOrder, StampIsPast,
           [Next]_vars
    PROVE  StampsInOrder' /\ StampIsPast'
<1> clock \in Nat
  BY DEF TypeOK, Times
<1>1. ASSUME NEW r \in Requests, RequestNext(r), NEW q \in Requests,
             pc'[q] = "save"
      PROVE  stamp'[q] <= clock'
  <2>1. CASE q = r
    BY <1>1, <2>1, OwnStep
  <2>2. CASE q # r
    <3>1. pc[q] = "save" /\ stamp'[q] = stamp[q]
      BY <1>1, <2>2, OthersWait
    <3> QED
      BY <1>1, <3>1, OwnStep DEF StampIsPast
  <2> QED
    BY <2>1, <2>2
<1>2. ASSUME NEW r \in Requests, RequestNext(r), UNCHANGED tables
      PROVE  StampsInOrder'
  <2>1. \A q \in Requests : pc'[q] = "save" =>
           \/ pc[q] = "save" /\ stamp'[q] = stamp[q]
           \/ stamp'[q] = clock
    BY <1>2, OthersWait, OwnStep
  <2> QED
    BY <1>2, <2>1, OwnStep DEF StampsInOrder, tables
<1>3. ASSUME NEW r \in Requests, RequestNext(r), pc[r] = "save",
             history' = [history EXCEPT ![chan[r]] = Append(@, Row(r))]
      PROVE  StampsInOrder'
  <2>1. \A q \in Requests : pc'[q] # "save"
    BY <1>3, OthersWait, OwnStep DEF OneAtATime, Active
  <2>2. Row(r).at = stamp[r] /\ stamp[r] <= clock /\ clock' = clock
    BY <1>3, OwnStep DEF Row, StampIsPast
  <2>4. stamp[r] \in Nat
    BY DEF TypeOK, Times
  <2>3. ASSUME NEW c \in Channels, NEW i \in DOMAIN history'[c]
        PROVE  /\ history'[c][i].at <= clock
               /\ \A j \in DOMAIN history'[c] :
                     i < j => history'[c][i].at <= history'[c][j].at
    <3>1. CASE c # chan[r]
      BY <1>3, <2>3, <3>1, Appended DEF StampsInOrder
    <3>2. CASE c = chan[r] /\ i \in 1..Len(history[c])
      <4>1. history'[c][i] = history[c][i] /\ i \in DOMAIN history[c]
        BY <1>3, <3>2, Appended
      <4>2. ASSUME NEW j \in DOMAIN history'[c], i < j
            PROVE  history'[c][i].at <= history'[c][j].at
        <5>1. CASE j \in 1..Len(history[c])
          BY <1>3, <3>2, <4>1, <4>2, <5>1, Appended DEF StampsInOrder
        <5>2. CASE j = Len(history[c]) + 1
          BY <1>3, <2>2, <3>2, <4>1, <5>2, Appended DEF StampsInOrder
        <5> QED
          BY <1>3, <3>2, <4>2, <5>1, <5>2, Appended
      <4> QED
        BY <4>1, <4>2 DEF StampsInOrder
    <3>3. CASE c = chan[r] /\ i = Len(history[c]) + 1
      <4>1. /\ DOMAIN history'[c] = 1..(Len(history[c]) + 1)
            /\ Len(history[c]) \in Nat /\ history'[c][i] = Row(r)
        BY <1>3, <3>3, Appended
      <4>2. \A j \in DOMAIN history'[c] : ~(i < j)
        BY <3>3, <4>1
      <4> QED
        BY <2>2, <4>1, <4>2
    <3> QED
      BY <1>3, <2>3, <3>1, <3>2, <3>3, Appended
  <2> QED
    BY <2>1, <2>2, <2>3 DEF StampsInOrder
<1>4. ASSUME NEW r \in Requests, RequestNext(r) PROVE StampsInOrder'
  <2>1. \/ UNCHANGED tables
        \/ /\ pc[r] = "save"
           /\ history' = [history EXCEPT ![chan[r]] = Append(@, Row(r))]
    BY <1>4 DEF RequestNext, ResolveBegin, ResolveEnds, RollbackBegin,
       PromoteBegin, GetArtifact, QueryFails, GetChannel, TakeTime,
       SaveChannel, SaveChannelFails, Respond, Commit, Row, tables, Goto
  <2> QED
    BY <1>2, <1>3, <1>4, <2>1
<1>5. CASE ~ \E r \in Requests : RequestNext(r)
  <2>1. \A r \in Requests : pc'[r] = "save" => pc[r] = "save"
    BY <1>5, OtherStep
  <2>2. /\ history' = history /\ stamp' = stamp /\ clock <= clock'
        /\ clock' \in Nat /\ \A r \in Requests : stamp[r] \in Nat
    <3>1. clock' \in Times /\ \A r \in Requests : stamp[r] \in Times
      BY <1>5, OtherStep DEF TypeOK
    <3> QED
      BY <1>5, <3>1, OtherStep DEF tables, locals, Times
  <2>3. \A c \in Channels : \A i \in DOMAIN history[c] : history[c][i].at \in Nat
    <3>1. \A c \in Channels : \A i \in DOMAIN history[c] : history[c][i] \in Pointer
      BY DEF TypeOK
    <3> QED
      BY <3>1, PointerFields DEF Times
  <2>4. StampsInOrder'
    BY <2>1, <2>2, <2>3 DEF StampsInOrder
  <2> QED
    BY <2>1, <2>2, <2>4 DEF StampIsPast
<1>6. CASE \E r \in Requests : RequestNext(r)
  BY <1>1, <1>4, <1>6 DEF StampIsPast
<1> QED
  BY <1>5, <1>6

\* Stamps that are in order have texts that are.
LEMMA SortedTexts ==
    ASSUME TypeOK, StampsInOrder, StampsSortInTime, NEW c \in Channels,
           NEW i \in DOMAIN history[c], NEW j \in DOMAIN history[c], i < j
    PROVE  TextRank[history[c][i].at] <= TextRank[history[c][j].at]
<1>1. history[c][i].at <= history[c][j].at
  BY DEF StampsInOrder
<1>2. history[c][i] \in Pointer /\ history[c][j] \in Pointer
  BY DEF TypeOK
<1>3. /\ history[c][i].at \in Times /\ history[c][j].at \in Times
      /\ TextRank[history[c][i].at] \in Nat /\ TextRank[history[c][j].at] \in Nat
  BY <1>2, PointerFields, ChannelsAssumption
<1> QED
  BY <1>1, <1>3 DEF StampsSortInTime, Times

\* ORDER BY puts the row before the last in second place.
LEMMA TargetIsSecondLast ==
    ASSUME TypeOK, StampsInOrder, StampsSortInTime, NEW c \in Channels,
           Len(history[c]) >= 2
    PROVE  RollbackTarget(c) = SecondLast(history[c])
<1> DEFINE h == history[c]
<1>1. h \in Seq(Pointer) /\ 1 \in 0..(Len(h) - 1)
  BY DEF TypeOK
<1>2. \A i, j \in DOMAIN h : i < j => TextRank[h[i].at] <= TextRank[h[j].at]
  BY SortedTexts
<1>3. Listed(h, 1) = h[Len(h) - 1]
  BY <1>1, <1>2, ListedBack
<1> QED
  BY <1>1, <1>3 DEF RollbackTarget, SecondLast

\* Nothing is appended between a rollback's look at the history and its save,
\* and the requests of all rows have begun.
LEMMA RollbackStep ==
    ASSUME IInv, SerialInv, Serial, StampsSortInTime, [Next]_vars
    PROVE  RollsBackOne'
<1>1. TypeOK /\ \A r \in Requests : chan[r] \in Channels
  BY DEF IInv, TypeOK
<1>2. ASSUME NEW r \in Requests, RequestNext(r), NEW q \in Requests,
             pc'[q] \in {"resolve", "found", "stamp", "save"}, op'[q] = "rollback"
      PROVE  /\ Len(history'[chan'[q]]) >= 2
             /\ target'[q] = SecondLast(history'[chan'[q]])
  <2>1. CASE q # r
    <3>1. pc[q] = pc'[q]
      BY <1>1, <1>2, <2>1, OthersWait
    <3>2. Active(r) \/ MayStart(r)
      BY <1>1, <1>2, OwnStep
    <3> QED
      BY <1>2, <2>1, <3>1, <3>2 DEF SerialInv, OneAtATime, Active, MayStart
  <2>2. CASE q = r /\ pc[r] = "idle"
    <3>1. RollbackBegin(r)
      BY <1>1, <1>2, <2>2 DEF TypeOK, RequestNext, ResolveBegin, ResolveEnds,
         PromoteBegin, GetArtifact, QueryFails, GetChannel, TakeTime,
         SaveChannel, SaveChannelFails, Respond, Goto
    <3>2. /\ UNCHANGED <<tables, chan>> /\ Len(history[chan[r]]) >= 2
          /\ target'[r] = RollbackTarget(chan[r])
      BY <1>1, <1>2, <2>2, <3>1 DEF RollbackBegin, Goto, TypeOK
    <3> QED
      BY <1>1, <2>2, <3>2, TargetIsSecondLast DEF SerialInv, tables
  <2>3. CASE q = r /\ pc[r] # "idle"
    <3>1. /\ pc[r] \in {"resolve", "found", "stamp"}
          /\ op[r] = "rollback" /\ target'[r] = target[r]
      BY <1>1, <1>2, <2>3, OwnStep
    <3>2. UNCHANGED tables /\ chan' = chan
      BY <1>1, <1>2, <3>1, OwnStep
    <3> QED
      BY <2>3, <3>1, <3>2 DEF SerialInv, RollsBackOne, tables
  <2> QED
    BY <2>1, <2>2, <2>3
<1>3. CASE ~ \E r \in Requests : RequestNext(r)
  BY <1>1, <1>3, OtherStep DEF SerialInv, RollsBackOne, tables, locals
<1> QED
  BY <1>2, <1>3 DEF RollsBackOne

\* Only a request that has begun appends a row.
LEMMA RowsStep ==
    ASSUME TypeOK, Serial, OneAtATime, RowsHaveBegun, [Next]_vars
    PROVE  RowsHaveBegun'
<1>1. \A r \in Requests : pc[r] # "idle" => pc'[r] # "idle"
  BY OneAtATimeStep
<1>2. \A c \in Channels : \A i \in DOMAIN history[c] :
         history[c][i].by \in Requests
  <2>1. \A c \in Channels : \A i \in DOMAIN history[c] : history[c][i] \in Pointer
    BY DEF TypeOK
  <2> QED
    BY <2>1, PointerFields
<1>3. CASE UNCHANGED tables
  BY <1>1, <1>2, <1>3 DEF RowsHaveBegun, tables
<1>4. ASSUME NEW r \in Requests, pc[r] = "save",
             history' = [history EXCEPT ![chan[r]] = Append(@, Row(r))]
      PROVE  RowsHaveBegun'
  <2>1. Row(r).by = r /\ pc'[r] # "idle"
    BY <1>1, <1>4 DEF Row
  <2>2. ASSUME NEW c \in Channels, NEW i \in DOMAIN history'[c]
        PROVE  pc'[history'[c][i].by] # "idle"
    <3>1. CASE i \in DOMAIN history[c] /\ history'[c][i] = history[c][i]
      BY <1>1, <1>2, <3>1 DEF RowsHaveBegun
    <3>2. CASE history'[c][i] = Row(r)
      BY <2>1, <3>2
    <3> QED
      BY <1>4, <2>2, <3>1, <3>2, Appended
  <2> QED
    BY <2>2 DEF RowsHaveBegun
<1> QED
  BY <1>3, <1>4, Writes

-----------------------------------------------------------------------------
(***************************************************************************)
(* The refinement.                                                         *)
(***************************************************************************)

\* A save is a Promote or a Rollback of ChannelSwap.
LEMMA SaveMoves ==
    ASSUME SerialInv, NEW r \in Requests, pc[r] = "save", op' = op,
           NEW c \in Channels, c = chan[r], NEW v \in Versions, v = target[r],
           channel' = [channel EXCEPT ![chan[r]] = Row(r)],
           history' = [history EXCEPT ![chan[r]] = Append(@, Row(r))]
    PROVE  Swap!Promote(c, v) \/ Swap!Rollback(c)
<1> DEFINE h == history[c]
<1>1. TypeOK /\ h \in Seq(Pointer) /\ op[r] \in {"promote", "rollback"}
  BY DEF SerialInv, IInv, TypeOK, OpAtPC
<1>2. channel[c].version = IF h = << >> THEN NoVersion ELSE h[Len(h)].version
  BY DEF SerialInv, IInv, PointerIsLastRow, NoPointer
<1>3. \A d \in Channels :
         /\ channel'[d] = IF d = c THEN Row(r) ELSE channel[d]
         /\ history'[d] = IF d = c THEN Append(h, Row(r)) ELSE history[d]
  BY <1>1 DEF TypeOK
<1>4. Row(r).version = v /\ Row(r).by = r
  BY DEF Row
<1>5. [d \in Channels |-> channel[d].version]'
        = [[d \in Channels |-> channel[d].version] EXCEPT ![c] = v]
  <2>1. \A d \in Channels :
           channel'[d].version = IF d = c THEN v ELSE channel[d].version
    BY <1>3, <1>4
  <2> QED
    BY <2>1
<1>6. [d \in Channels |-> SecondLast(history[d])]'
        = [[d \in Channels |-> SecondLast(history[d])]
             EXCEPT ![c] = channel[c].version]
  <2>1. SecondLast(Append(h, Row(r))) = channel[c].version
    BY <1>1, <1>2 DEF SecondLast
  <2>2. \A d \in Channels :
           SecondLast(history'[d]) = IF d = c THEN channel[c].version
                                     ELSE SecondLast(history[d])
    BY <1>3, <2>1
  <2>3. [d \in Channels |-> SecondLast(history[d])]'
          = [d \in Channels |-> SecondLast(history'[d])]
    BY DEF SecondLast
  <2> QED
    BY <2>2, <2>3
<1>7. [d \in Channels |-> LastOp(history[d])]'
        = [[d \in Channels |-> LastOp(history[d])] EXCEPT ![c] = op[r]]
  <2>1. LastOp(Append(h, Row(r))) = op[r]
    BY <1>1, <1>4 DEF LastOp
  <2>2. \A d \in Channels :
           LastOp(history'[d]) = IF d = c THEN op[r] ELSE LastOp(history[d])
    BY <1>3, <2>1
  <2>3. [d \in Channels |-> LastOp(history[d])]'
          = [d \in Channels |-> LastOp(history'[d])]
    BY DEF LastOp
  <2> QED
    BY <2>2, <2>3
<1>8. CASE op[r] = "promote"
  BY <1>5, <1>6, <1>7, <1>8 DEF Swap!Promote, Swap!Move
<1>9. CASE op[r] = "rollback"
  <2>1. v = SecondLast(h) /\ v # NoVersion
    BY <1>1, <1>9, ChannelsAssumption DEF SerialInv, RollsBackOne
  <2>2. [d \in Channels |-> SecondLast(history[d])][c] = v
    BY <2>1
  <2> QED
    BY <1>5, <1>6, <1>7, <1>9, <2>1, <2>2 DEF Swap!Rollback, Swap!Move
<1> QED
  BY <1>1, <1>8, <1>9

\* A step promotes, rolls back or leaves the promise as it is.
LEMMA StepSwaps ==
    ASSUME SerialInv, Serial, [Next]_vars
    PROVE  [Swap!Next]_(Swap!vars)
<1>1. TypeOK /\ OneAtATime /\ RowsHaveBegun
  BY DEF SerialInv, IInv
<1>2. CASE UNCHANGED tables
  <2>1. \A c \in Channels : \A i \in DOMAIN history[c] :
           op'[history[c][i].by] = op[history[c][i].by]
    <3>1. \A c \in Channels : \A i \in DOMAIN history[c] : history[c][i].by \in Requests
      <4>1. \A c \in Channels : \A i \in DOMAIN history[c] : history[c][i] \in Pointer
        BY <1>1 DEF TypeOK
      <4> QED
        BY <4>1, PointerFields
    <3> QED
      BY <1>1, <3>1, OneAtATimeStep DEF RowsHaveBegun
  <2>2. \A c \in Channels : history[c] # << >> => Len(history[c]) \in DOMAIN history[c]
    BY <1>1 DEF TypeOK
  <2>3. [c \in Channels |-> LastOp(history[c])]' = [c \in Channels |-> LastOp(history[c])]
    BY <1>2, <2>1, <2>2 DEF LastOp, tables
  <2>4. [c \in Channels |-> SecondLast(history[c])]'
          = [c \in Channels |-> SecondLast(history[c])]
    BY <1>2 DEF SecondLast, tables
  <2>5. [c \in Channels |-> channel[c].version]' = [c \in Channels |-> channel[c].version]
    BY <1>2 DEF tables
  <2> QED
    BY <2>3, <2>4, <2>5 DEF Swap!vars
<1>3. ASSUME NEW r \in Requests, pc[r] = "save",
             channel' = [channel EXCEPT ![chan[r]] = Row(r)],
             history' = [history EXCEPT ![chan[r]] = Append(@, Row(r))]
      PROVE  [Swap!Next]_(Swap!vars)
  <2>1. CASE op' = op
    <3>1. PICK c \in Channels, v \in Versions : c = chan[r] /\ v = target[r]
      BY <1>3 DEF SerialInv, IInv, TypeOK, TargetsPublished
    <3>2. Swap!Promote(c, v) \/ Swap!Rollback(c)
      BY <1>3, <2>1, <3>1, SaveMoves
    <3> QED
      BY <3>2 DEF Swap!Next
  <2>2. op' = op
    <3>1. ASSUME NEW q \in Requests, RequestNext(q)
          PROVE  op' = op
      <4>1. pc[q] # "idle"
        BY <1>1, <1>3, <3>1, OwnStep DEF MayStart, OneAtATime, Active
      <4> QED
        BY <1>1, <3>1, <4>1, OwnStep
    <3>2. CASE ~ \E q \in Requests : RequestNext(q)
      BY <1>1, <3>2, OtherStep DEF locals
    <3> QED
      BY <3>1, <3>2
  <2> QED
    BY <2>1, <2>2
<1> QED
  BY <1>2, <1>3, Writes

\* The initial states are initial states of ChannelSwap.
LEMMA InitSwaps == Init => Swap!Init
BY DEF Init, Swap!Init, NoPointer, SecondLast, LastOp

\* The invariant of requests that do not overlap always holds.
THEOREM SerialInductive ==
    Serial /\ StampsSortInTime => (Spec => []SerialInv)
<1> SUFFICES ASSUME Serial, StampsSortInTime
             PROVE  Spec => []SerialInv
  OBVIOUS
<1>1. IInv /\ [Next]_vars => IInv'
  BY TypeStep, TablesStep, MemoryStep, FromStep, AnswerStep DEF IInv
<1>2. SerialInv /\ [Next]_vars => SerialInv'
  <2> SUFFICES ASSUME SerialInv, [Next]_vars PROVE SerialInv'
    OBVIOUS
  <2>1. IInv /\ TypeOK /\ IInv' /\ TypeOK'
    BY <1>1 DEF SerialInv, IInv
  <2> QED
    BY <2>1, OneAtATimeStep, StampsStep, RollbackStep, RowsStep DEF SerialInv
<1> QED
  BY InitSerialInv, <1>2, PTL DEF Spec

\* When requests do not overlap and stamps sort in time, then for any number
\* of requests, channels and versions, with failures and kills at any moment,
\* promotions and rollbacks are those of ChannelSwap: a rollback returns to
\* the version the channel pointed to before.
THEOREM ImplementsSwap == Serial /\ StampsSortInTime => (Spec => SwapSpec)
<1> SUFFICES ASSUME Serial, StampsSortInTime
             PROVE  Spec => SwapSpec
  OBVIOUS
<1>1. SerialInv /\ [Next]_vars => [Swap!Next]_(Swap!vars)
  BY StepSwaps
<1> QED
  BY SerialInductive, InitSwaps, <1>1, PTL DEF Spec, SwapSpec, Swap!Spec

-----------------------------------------------------------------------------
(***************************************************************************)
(* What two comments in the code say holds under the same conditions: the  *)
(* counterexamples of the runs have no other cause.                        *)
(***************************************************************************)

\* The head of the listing is the last row appended.
LEMMA HeadIsLast ==
    ASSUME TypeOK, PointerIsLastRow, StampsInOrder, StampsSortInTime
    PROVE  HeadIsCurrent
<1> SUFFICES ASSUME NEW c \in Channels, history[c] # << >>
             PROVE  Listed(history[c], 0) = channel[c]
  BY DEF HeadIsCurrent
<1> DEFINE h == history[c]
<1>1. h \in Seq(Pointer) /\ 0 \in 0..(Len(h) - 1)
  BY DEF TypeOK
<1>2. \A i, j \in DOMAIN h : i < j => TextRank[h[i].at] <= TextRank[h[j].at]
  BY SortedTexts
<1>3. Listed(h, 0) = h[Len(h)]
  BY <1>1, <1>2, ListedBack
<1> QED
  BY <1>3 DEF PointerIsLastRow

\* What a request has read as its prevVersion is still what the channel points
\* to when it saves.
FromIsCurrent ==
    \A r \in Requests :
        pc[r] \in {"stamp", "save"} => from[r] = channel[chan[r]].version

\* While one request is between its read and its save, no other saves.
LEMMA FromIsCurrentStep ==
    ASSUME TypeOK, Serial, ~ ReadErrors, OneAtATime, FromIsCurrent, [Next]_vars
    PROVE  FromIsCurrent'
<1>1. ASSUME NEW r \in Requests, RequestNext(r), NEW q \in Requests,
             pc'[q] \in {"stamp", "save"}
      PROVE  from'[q] = channel'[chan'[q]].version
  <2>1. q = r
    <3>1. q # r => pc[q] = pc'[q]
      BY <1>1, OthersWait
    <3> QED
      BY <1>1, <3>1, OwnStep DEF OneAtATime, Active, MayStart
  <2>2. GetChannel(r) \/ TakeTime(r)
    BY <1>1, <2>1 DEF RequestNext, ResolveBegin, ResolveEnds, RollbackBegin,
       PromoteBegin, GetArtifact, QueryFails, SaveChannel, SaveChannelFails,
       Respond, Goto, TypeOK
  <2> QED
    BY <2>1, <2>2 DEF GetChannel, TakeTime, Goto, TypeOK, tables, FromIsCurrent
<1>2. CASE ~ \E r \in Requests : RequestNext(r)
  BY <1>2, OtherStep DEF FromIsCurrent, tables, locals
<1> QED
  BY <1>1, <1>2 DEF FromIsCurrent

\* A save writes the version that was current as the previous one.
LEMMA StepFromCurrent ==
    ASSUME TypeOK, FromIsCurrent, [Next]_vars
    PROVE  \A c \in Channels :
              channel'[c] # channel[c] => channel'[c].prev = channel[c].version
<1>1. ASSUME NEW r \in Requests, pc[r] = "save",
             channel' = [channel EXCEPT ![chan[r]] = Row(r)]
      PROVE  \A c \in Channels :
                channel'[c] # channel[c] => channel'[c].prev = channel[c].version
  BY <1>1 DEF FromIsCurrent, Row, TypeOK
<1> QED
  BY <1>1, Writes DEF tables

\* history[0] of the list that Rollback reads is the current pointer, as its
\* comment says, when requests do not overlap and stamps sort in time.
THEOREM HeadIsCurrentInTime ==
    Serial /\ StampsSortInTime => (Spec => []HeadIsCurrent)
<1> SUFFICES ASSUME Serial, StampsSortInTime PROVE Spec => []HeadIsCurrent
  OBVIOUS
<1>1. SerialInv => HeadIsCurrent
  BY HeadIsLast DEF SerialInv, IInv
<1> QED
  BY SerialInductive, <1>1, PTL

\* from_version is the version the channel pointed to immediately before the
\* operation, as the comment on ChannelEventData says, when requests do not
\* overlap and the channel row can be read.
THEOREM FromIsCurrentInTurn ==
    Serial /\ ~ ReadErrors => (Spec => FromWasCurrent)
<1> SUFFICES ASSUME Serial, ~ ReadErrors PROVE Spec => FromWasCurrent
  OBVIOUS
<1>1. Init => TypeOK /\ OneAtATime /\ FromIsCurrent
  BY InitSerialInv DEF Init, SerialInv, IInv, FromIsCurrent
<1>2. TypeOK /\ OneAtATime /\ FromIsCurrent /\ [Next]_vars
         => OneAtATime' /\ FromIsCurrent'
  BY OneAtATimeStep, FromIsCurrentStep
<1>3. TypeOK /\ FromIsCurrent /\ [Next]_vars
         => \A c \in Channels :
               channel'[c] # channel[c] => channel'[c].prev = channel[c].version
  BY StepFromCurrent
<1> QED
  BY <1>1, <1>2, <1>3, TypeCorrect, PTL DEF Spec, FromWasCurrent

\* A row with an empty previous version is the first: a request that read the
\* channel in its turn found a pointer whenever there was one.
LEMMA AbsentStep ==
    ASSUME TypeOK, PointerIsLastRow, FromIsCurrent, AbsentOnlyAtFirst, [Next]_vars
    PROVE  AbsentOnlyAtFirst'
<1>1. CASE UNCHANGED tables
  BY <1>1 DEF AbsentOnlyAtFirst, tables
<1>2. ASSUME NEW r \in Requests, pc[r] = "save",
             history' = [history EXCEPT ![chan[r]] = Append(@, Row(r))],
             NEW c \in Channels, NEW i \in DOMAIN history'[c],
             history'[c][i].prev = NoVersion
      PROVE  i = 1
  <2>1. CASE i \in DOMAIN history[c] /\ history'[c][i] = history[c][i]
    BY <1>2, <2>1 DEF AbsentOnlyAtFirst
  <2>2. CASE c = chan[r] /\ i = Len(history[c]) + 1
    <3>1. Row(r).prev = NoVersion /\ history[c] \in Seq(Pointer)
      BY <1>2, <2>2, Appended DEF TypeOK
    <3>2. channel[c].version = NoVersion
      BY <1>2, <2>2, <3>1 DEF FromIsCurrent, Row
    <3>3. ASSUME history[c] # << >> PROVE FALSE
      <4>1. history[c][Len(history[c])] \in Pointer
        BY <3>1, <3>3
      <4>2. channel[c].version \in Versions
        BY <3>3, <4>1, PointerFields DEF PointerIsLastRow
      <4> QED
        BY <3>2, <4>2, ChannelsAssumption
    <3> QED
      BY <2>2, <3>3
  <2> QED
    BY <1>2, <2>1, <2>2, Appended
<1> QED
  BY <1>1, <1>2, Writes DEF AbsentOnlyAtFirst

\* previous_version is absent only in the first row of a channel, as
\* api/openapi.yaml says, when requests do not overlap and the channel row can
\* be read.
THEOREM AbsentOnlyAtFirstInTurn ==
    Serial /\ ~ ReadErrors => (Spec => []AbsentOnlyAtFirst)
<1> SUFFICES ASSUME Serial, ~ ReadErrors PROVE Spec => []AbsentOnlyAtFirst
  OBVIOUS
<1>1. Init => OneAtATime /\ FromIsCurrent /\ AbsentOnlyAtFirst
  BY InitSerialInv DEF Init, SerialInv, IInv, FromIsCurrent, AbsentOnlyAtFirst
<1>2. IInv /\ OneAtATime /\ FromIsCurrent /\ AbsentOnlyAtFirst /\ [Next]_vars
         => OneAtATime' /\ FromIsCurrent' /\ AbsentOnlyAtFirst'
  BY OneAtATimeStep, FromIsCurrentStep, AbsentStep DEF IInv
<1> QED
  BY <1>1, <1>2, Inductive, PTL DEF Spec

\* A rollback swaps the current version with the one before it, as
\* api/openapi.yaml says, when requests do not overlap and stamps sort in time.
THEOREM RollbackSwapsInTurn ==
    Serial /\ StampsSortInTime => (Spec => RollbackSwaps)
<1> SUFFICES ASSUME Serial, StampsSortInTime PROVE Spec => RollbackSwaps
  OBVIOUS
<1>1. ASSUME SerialInv, [Next]_vars, NEW c \in Channels,
             channel'[c] # channel[c], op[channel'[c].by] = "rollback"
      PROVE  channel'[c].version = SecondLast(history[c])
  <2>1. PICK r \in Requests :
               /\ pc[r] = "save"
               /\ channel' = [channel EXCEPT ![chan[r]] = Row(r)]
    BY <1>1, Writes DEF tables
  <2>2. c = chan[r] /\ channel'[c] = Row(r)
    BY <1>1, <2>1 DEF SerialInv, IInv, TypeOK
  <2>3. op[r] = "rollback" /\ channel'[c].version = target[r]
    BY <1>1, <2>2 DEF Row
  <2> QED
    BY <1>1, <2>1, <2>2, <2>3 DEF SerialInv, RollsBackOne
<1>2. SerialInv /\ [Next]_vars
         => \A c \in Channels :
               channel'[c] # channel[c] /\ op[channel'[c].by] = "rollback"
                   => channel'[c].version = SecondLast(history[c])
  BY <1>1
<1> QED
  BY SerialInductive, <1>2, PTL DEF Spec, RollbackSwaps
=============================================================================
