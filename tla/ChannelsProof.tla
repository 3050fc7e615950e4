---------------------------- MODULE ChannelsProof ----------------------------
(***************************************************************************)
(* The inductive invariant behind the safety properties of Channels, and   *)
(* what ORDER BY promoted_at DESC makes of a history.                      *)
(***************************************************************************)
EXTENDS Channels, FiniteSetTheorems, TLAPS

\* A version that a request has found in the artifacts table, in the pointer or
\* in the history is published; artifacts are never deleted.
TargetsPublished ==
    \A r \in Requests :
        \/ pc[r] \in {"pointed", "found", "stamp", "save", "saved"}
        \/ pc[r] = "resolve" /\ op[r] = "rollback"
        => target[r] \in published

\* A request that has read the channel and not yet saved remembers a version
\* the channel pointed to since the request began, unless the read failed.
Seen(r) ==
    LET h == history[chan[r]]
    IN  /\ base[r] <= Len(h)
        /\ pc[r] \in {"stamp", "save"} =>
              IF r \in blind THEN from[r] = NoVersion
              ELSE \E j \in base[r]..Len(h) : from[r] = HeldAfter(h, j)
        /\ r \in blind => pc[r] \in {"stamp", "save", "saved", "done", "dead"}
FromSeen == \A r \in Requests : Seen(r)

\* A request that has a row is past its reads: what it saw is settled.
RowsSettled ==
    \A c \in Channels : \A i \in DOMAIN history[c] :
        pc[history[c][i].by] \in {"saved", "done", "dead"}

\* Which operation a request performs shows in where it is, and none has its
\* answer 404 before it is done.
OpAtPC ==
    \A r \in Requests :
        /\ pc[r] = "pointed" => op[r] = "resolve"
        /\ pc[r] \in {"resolve", "found", "stamp", "save", "saved"}
              => op[r] \in {"promote", "rollback"}
        /\ reply[r] = "notfound" => pc[r] = "done"

IInv ==
    /\ TypeOK
    /\ PointerIsLastRow
    /\ NeverDangles
    /\ FromWasHeld
    /\ RollbackFindsArtifact
    /\ ResolveFindsArtifact
    /\ TargetsPublished
    /\ FromSeen
    /\ RowsSettled
    /\ OpAtPC

-----------------------------------------------------------------------------
USE ChannelsAssumption

\* What a pointer row says.
LEMMA PointerFields ==
    ASSUME NEW x \in Pointer
    PROVE  /\ x.version \in Versions /\ x.prev \in Versions \cup {NoVersion}
           /\ x.at \in Times /\ x.by \in Requests
           /\ x # NoPointer
BY DEF Pointer, NoPointer

(***************************************************************************)
(* ORDER BY promoted_at DESC.                                              *)
(***************************************************************************)

\* TextLater by what it contains.
LEMMA TextLaterPairs ==
    \A s, t \in Times : <<s, t>> \in TextLater <=> TextRank[t] < TextRank[s]
<1> SUFFICES ASSUME NEW s \in Times, NEW t \in Times
             PROVE  <<s, t>> \in TextLater <=> TextRank[t] < TextRank[s]
  OBVIOUS
<1>1. <<s, t>> \in TextLater
        <=> \E a \in Times : \E b \in {u \in Times : TextRank[u] < TextRank[a]} :
               <<s, t>> = <<a, b>>
  BY DEF TextLater
<1> QED
  BY <1>1

\* The order is strict and total on the rows of a history.
LEMMA ListingOrder ==
    ASSUME NEW h \in Seq(Pointer), NEW i \in DOMAIN h, NEW j \in DOMAIN h,
           NEW k \in DOMAIN h
    PROVE  /\ ~ ListedBefore(h, i, i)
           /\ i = j \/ ListedBefore(h, i, j) \/ ListedBefore(h, j, i)
           /\ ListedBefore(h, i, j) /\ ListedBefore(h, j, k)
                 => ListedBefore(h, i, k)
<1>1. h[i].at \in Times /\ h[j].at \in Times /\ h[k].at \in Times
  <2>1. h[i] \in Pointer /\ h[j] \in Pointer /\ h[k] \in Pointer
    OBVIOUS
  <2> QED
    BY <2>1 DEF Pointer
<1>2. i \in Nat /\ j \in Nat /\ k \in Nat
  OBVIOUS
<1>3. /\ TextRank[h[i].at] \in Nat /\ TextRank[h[j].at] \in Nat
      /\ TextRank[h[k].at] \in Nat
  BY <1>1
<1> QED
  BY <1>1, <1>2, <1>3, TextLaterPairs DEF ListedBefore

\* The rows listed before row i.
Preceding(h, i) == {j \in DOMAIN h : ListedBefore(h, j, i)}

\* A history of n rows has exactly one row at each of the places 0..n-1.
LEMMA ListingPlaces ==
    ASSUME NEW h \in Seq(Pointer), NEW n \in 0..(Len(h) - 1)
    PROVE  \E i \in DOMAIN h :
              Listed(h, n) = h[i] /\ Cardinality(Preceding(h, i)) = n
<1> DEFINE S == DOMAIN h
           T == 0..(Len(h) - 1)
           place == [i \in S |-> Cardinality(Preceding(h, i))]
<1>1. /\ IsFiniteSet(S) /\ Cardinality(S) = Len(h)
      /\ IsFiniteSet(T) /\ Cardinality(T) = Len(h)
  <2>1. S = 1..Len(h) /\ Len(h) \in Nat /\ Len(h) - 1 \in Int
    OBVIOUS
  <2>2. IsFiniteSet(1..Len(h)) /\ Cardinality(1..Len(h)) = Len(h)
    BY <2>1, FS_Interval
  <2>3. IsFiniteSet(T) /\ Cardinality(T) = Len(h)
    <3>1. PICK b \in Int : b = Len(h) - 1
      BY <2>1
    <3>2. /\ IsFiniteSet(0..b)
          /\ Cardinality(0..b) = IF 0 > b THEN 0 ELSE b - 0 + 1
      BY FS_Interval
    <3>3. (IF 0 > b THEN 0 ELSE b - 0 + 1) = Len(h)
      BY <2>1, <3>1
    <3> QED
      BY <3>1, <3>2, <3>3
  <2> QED
    BY <2>1, <2>2, <2>3
<1>2. \A i \in S : /\ IsFiniteSet(Preceding(h, i))
                   /\ Cardinality(Preceding(h, i)) \in T
  <2> SUFFICES ASSUME NEW i \in S
               PROVE  /\ IsFiniteSet(Preceding(h, i))
                      /\ Cardinality(Preceding(h, i)) \in T
    OBVIOUS
  <2>1. Preceding(h, i) \subseteq S /\ i \notin Preceding(h, i)
    BY ListingOrder DEF Preceding
  <2>2. /\ IsFiniteSet(Preceding(h, i))
        /\ Cardinality(Preceding(h, i)) <= Cardinality(S)
        /\ Cardinality(Preceding(h, i)) # Cardinality(S)
    BY <1>1, <2>1, FS_Subset
  <2>3. Cardinality(Preceding(h, i)) \in Nat
    BY <2>2, FS_CardinalityType
  <2> QED
    BY <1>1, <2>2, <2>3
<1>3. ASSUME NEW i \in S, NEW j \in S, ListedBefore(h, i, j)
      PROVE  place[i] # place[j]
  <2>1. Preceding(h, i) \subseteq Preceding(h, j)
    BY <1>3, ListingOrder DEF Preceding
  <2>2. i \in Preceding(h, j) /\ i \notin Preceding(h, i)
    BY <1>3, ListingOrder DEF Preceding
  <2> QED
    BY <1>2, <2>1, <2>2, FS_Subset
<1>4. place \in Injection(S, T)
  <2>1. place \in [S -> T]
    BY <1>2
  <2>2. \A i, j \in S : place[i] = place[j] => i = j
    BY <1>3, ListingOrder
  <2> QED
    BY <2>1, <2>2 DEF Injection, IsInjective
<1>5. place \in Surjection(S, T)
  BY <1>1, <1>4, FS_Injection
<1>6. \E i \in S : Cardinality(Preceding(h, i)) = n
  BY <1>5 DEF Surjection
<1> QED
  BY <1>6 DEF Listed, Preceding

\* When the rows stand in the order of their stamps' texts, equal ones
\* included, they are listed from the last to the first.
LEMMA ListedBack ==
    ASSUME NEW h \in Seq(Pointer), NEW n \in 0..(Len(h) - 1),
           \A i, j \in DOMAIN h :
               i < j => TextRank[h[i].at] <= TextRank[h[j].at]
    PROVE  Listed(h, n) = h[Len(h) - n]
<1>1. DOMAIN h = 1..Len(h) /\ Len(h) \in Nat
  OBVIOUS
<1>2. \A i \in DOMAIN h : h[i].at \in Times /\ TextRank[h[i].at] \in Nat
  <2>1. \A i \in DOMAIN h : h[i] \in Pointer
    OBVIOUS
  <2> QED
    BY <2>1, PointerFields
<1>3. \A i, j \in DOMAIN h : ListedBefore(h, j, i) <=> j > i
  BY <1>1, <1>2, TextLaterPairs DEF ListedBefore
<1>4. \A i \in DOMAIN h : Preceding(h, i) = (i + 1)..Len(h)
  BY <1>1, <1>3 DEF Preceding
<1>5. \A i \in DOMAIN h : Cardinality(Preceding(h, i)) = Len(h) - i
  <2> SUFFICES ASSUME NEW i \in DOMAIN h
               PROVE  Cardinality((i + 1)..Len(h)) = Len(h) - i
    BY <1>4
  <2>1. PICK a \in Int, b \in Int : a = i + 1 /\ b = Len(h)
    <3>1. i + 1 \in Int /\ Len(h) \in Int
      BY <1>1
    <3> QED
      BY <3>1, Zenon
  <2>2. Cardinality(a..b) = IF a > b THEN 0 ELSE b - a + 1
    BY FS_Interval
  <2>3. (IF a > b THEN 0 ELSE b - a + 1) = Len(h) - i
    BY <1>1, <2>1
  <2> QED
    BY <2>1, <2>2, <2>3
<1>6. PICK i \in DOMAIN h :
             Listed(h, n) = h[i] /\ Cardinality(Preceding(h, i)) = n
  BY ListingPlaces
<1> QED
  BY <1>1, <1>5, <1>6

\* A rollback that finds two rows takes its target from one of them.
LEMMA RollbackTargetIsRow ==
    ASSUME TypeOK, NEW c \in Channels, Len(history[c]) >= 2
    PROVE  \E i \in DOMAIN history[c] : RollbackTarget(c) = history[c][i].version
<1>1. history[c] \in Seq(Pointer) /\ 1 \in 0..(Len(history[c]) - 1)
  BY DEF TypeOK
<1> QED
  BY <1>1, ListingPlaces DEF RollbackTarget

-----------------------------------------------------------------------------
(***************************************************************************)
(* The initial state and the steps that do not save.                       *)
(***************************************************************************)
LEMMA InitIInv == Init => IInv
BY DEF Init, IInv, TypeOK, PointerIsLastRow, NeverDangles, FromWasHeld,
       RollbackFindsArtifact, ResolveFindsArtifact, TargetsPublished,
       FromSeen, Seen, RowsSettled, OpAtPC, Times

\* The version a pointer names, when there is a pointer, is published.
LEMMA PointerPublished ==
    ASSUME TypeOK, PointerIsLastRow, NeverDangles, NEW c \in Channels
    PROVE  /\ channel[c].version \in Versions \cup {NoVersion}
           /\ channel[c] = NoPointer <=> history[c] = << >>
           /\ channel[c] = NoPointer => channel[c].version = NoVersion
           /\ channel[c] # NoPointer
                 => /\ channel[c].version \in published
                    /\ \E j \in DOMAIN history[c] :
                          history[c][j].version = channel[c].version
<1>1. history[c] \in Seq(Pointer)
  BY DEF TypeOK
<1>2. CASE history[c] = << >>
  BY <1>2 DEF PointerIsLastRow, NoPointer
<1>3. CASE history[c] # << >>
  <2>1. Len(history[c]) \in DOMAIN history[c]
    BY <1>1, <1>3
  <2>2. channel[c] = history[c][Len(history[c])] /\ channel[c] \in Pointer
    BY <1>1, <1>3, <2>1 DEF PointerIsLastRow
  <2> QED
    BY <1>3, <2>1, <2>2, PointerFields DEF NeverDangles
<1> QED
  BY <1>2, <1>3

\* The row that a save writes.
Row(r) == [version |-> target[r], prev |-> from[r], at |-> stamp[r], by |-> r]

\* Only a request at its save writes, and then one row to both tables; it is
\* past its save afterwards.
LEMMA Writes ==
    ASSUME [Next]_vars
    PROVE  /\ published \subseteq published'
           /\ \/ UNCHANGED tables
              \/ \E r \in Requests :
                    /\ pc[r] = "save"
                    /\ pc' \in {[pc EXCEPT ![r] = a] : a \in {"saved", "done"}}
                    /\ channel' = [channel EXCEPT ![chan[r]] = Row(r)]
                    /\ history' = [history EXCEPT ![chan[r]] = Append(@, Row(r))]
<1>1. ASSUME NEW r \in Requests, RequestNext(r)
      PROVE  /\ UNCHANGED published
             /\ \/ UNCHANGED tables
                \/ /\ pc[r] = "save"
                   /\ pc' \in {[pc EXCEPT ![r] = a] : a \in {"saved", "done"}}
                   /\ Commit(r)
  BY <1>1 DEF RequestNext, ResolveBegin, ResolveEnds, RollbackBegin,
     PromoteBegin, GetArtifact, QueryFails, GetChannel, TakeTime, SaveChannel,
     SaveChannelFails, Respond, tables, Goto
<1>2. CASE ~ \E r \in Requests : RequestNext(r)
  BY <1>2 DEF Next, Publish, Tick, Crash, vars, tables
<1> QED
  BY <1>1, <1>2 DEF Commit, Row

\* Every step leaves the state well formed.
LEMMA TypeStep ==
    ASSUME TypeOK, PointerIsLastRow, NeverDangles, TargetsPublished, [Next]_vars
    PROVE  TypeOK'
<1>1. channel' \in [Channels -> Pointer \cup {NoPointer}]
      /\ history' \in [Channels -> Seq(Pointer)]
  <2>1. ASSUME NEW r \in Requests, pc[r] = "save"
        PROVE  Row(r) \in Pointer
    BY <2>1 DEF Row, Pointer, TypeOK, TargetsPublished
  <2>2. ASSUME NEW r \in Requests, pc[r] = "save"
        PROVE  Append(history[chan[r]], Row(r)) \in Seq(Pointer)
    BY <2>1, <2>2 DEF TypeOK
  <2>3. CASE UNCHANGED tables
    BY <2>3 DEF TypeOK, tables
  <2>4. ASSUME NEW r \in Requests, pc[r] = "save",
               channel' = [channel EXCEPT ![chan[r]] = Row(r)],
               history' = [history EXCEPT ![chan[r]] = Append(@, Row(r))]
        PROVE  /\ channel' \in [Channels -> Pointer \cup {NoPointer}]
               /\ history' \in [Channels -> Seq(Pointer)]
    BY <2>1, <2>2, <2>4 DEF TypeOK
  <2> QED
    BY <2>3, <2>4, Writes
<1>2. ASSUME NEW r \in Requests, RequestNext(r) PROVE TypeOK'
  <2> USE DEF TypeOK, tables, locals, Goto, Answer, MarkBegin
  <2>1. CASE ResolveBegin(r)
    <3>1. chan[r] \in Channels
      OBVIOUS
    <3>2. channel[chan[r]].version \in Versions \cup {NoVersion}
      BY <3>1, PointerPublished
    <3> QED
      BY <1>1, <2>1, <3>2 DEF ResolveBegin
  <2>2. CASE ResolveEnds(r)
    BY <1>1, <2>2 DEF ResolveEnds
  <2>3. CASE RollbackBegin(r)
    <3>1. ASSUME ~(Len(history[chan[r]]) < 2)
          PROVE  RollbackTarget(chan[r]) \in Versions
      <4>1. chan[r] \in Channels /\ Len(history[chan[r]]) >= 2
        BY <3>1
      <4>2. PICK i \in DOMAIN history[chan[r]] :
                   RollbackTarget(chan[r]) = history[chan[r]][i].version
        BY <4>1, RollbackTargetIsRow
      <4> QED
        BY <4>1, <4>2 DEF NeverDangles
    <3>2. target' \in [Requests -> Versions \cup {NoVersion}]
      BY <2>3, <3>1 DEF RollbackBegin
    <3>3. base' \in [Requests -> Nat]
      BY <2>3 DEF RollbackBegin
    <3> HIDE DEF MarkBegin
    <3> QED
      BY <1>1, <2>3, <3>2, <3>3 DEF RollbackBegin
  <2>4. CASE \E v \in Versions : PromoteBegin(r, v)
    BY <1>1, <2>4 DEF PromoteBegin
  <2>5. CASE GetArtifact(r) \/ QueryFails(r)
    BY <1>1, <2>5 DEF GetArtifact, QueryFails
  <2>6. CASE GetChannel(r)
    <3>1. chan[r] \in Channels
      OBVIOUS
    <3>2. channel[chan[r]].version \in Versions \cup {NoVersion}
      BY <3>1, PointerPublished
    <3> QED
      BY <1>1, <2>6, <3>2 DEF GetChannel
  <2>7. CASE TakeTime(r)
    BY <1>1, <2>7 DEF TakeTime
  <2>9. CASE Respond(r)
    BY <1>1, <2>9 DEF Respond
  <2>8. CASE SaveChannel(r) \/ SaveChannelFails(r)
    BY <1>1, <2>8 DEF SaveChannel, SaveChannelFails
  <2> QED
    BY <1>2, <2>1, <2>2, <2>3, <2>4, <2>5, <2>6, <2>7, <2>8, <2>9
       DEF RequestNext
<1>3. CASE \E v \in Versions : Publish(v)
  BY <1>3 DEF Publish, TypeOK, tables, locals
<1>4. CASE Tick
  BY <1>4 DEF Tick, TypeOK, tables, locals, Times
<1>5. CASE Crash
  BY <1>5 DEF Crash, TypeOK, tables, locals
<1>6. CASE UNCHANGED vars
  BY <1>6 DEF vars, TypeOK
<1> QED
  BY <1>2, <1>3, <1>4, <1>5, <1>6 DEF Next

\* A step of another request, or of the environment, leaves what a request
\* knows alone and can only kill it.
LEMMA OthersLeaveAlone ==
    ASSUME TypeOK, [Next]_vars, NEW r \in Requests, ~ RequestNext(r)
    PROVE  /\ pc'[r] # pc[r] => pc[r] # "idle" /\ pc'[r] = "dead"
           /\ base'[r] = base[r] /\ from'[r] = from[r]
           /\ r \in blind' <=> r \in blind
<1>1. ASSUME NEW q \in Requests, q # r, RequestNext(q)
      PROVE  /\ pc'[r] = pc[r]
             /\ base'[r] = base[r] /\ from'[r] = from[r]
             /\ r \in blind' <=> r \in blind
  BY <1>1 DEF TypeOK, RequestNext, ResolveBegin, ResolveEnds, RollbackBegin,
     PromoteBegin, GetArtifact, QueryFails, GetChannel, TakeTime, SaveChannel,
     SaveChannelFails, Respond, Goto, MarkBegin, locals
<1>2. CASE ~ \E q \in Requests : RequestNext(q)
  BY <1>2 DEF TypeOK, Next, Publish, Tick, Crash, vars, locals
<1> QED
  BY <1>1, <1>2

\* A request that is past its reads stays so, and what it saw is settled.
LEMMA SettledStays ==
    ASSUME TypeOK, [Next]_vars, NEW r \in Requests,
           pc[r] \in {"saved", "done", "dead"}
    PROVE  /\ pc'[r] \in {"saved", "done", "dead"}
           /\ base'[r] = base[r]
           /\ r \in blind' <=> r \in blind
<1>1. CASE RequestNext(r)
  BY <1>1 DEF TypeOK, RequestNext, ResolveBegin, ResolveEnds, RollbackBegin,
     PromoteBegin, GetArtifact, QueryFails, GetChannel, TakeTime, SaveChannel,
     SaveChannelFails, Respond, Goto, MayStart, locals
<1> QED
  BY <1>1, OthersLeaveAlone

\* What a channel held after an earlier row does not change with a new one.
LEMMA HeldStays ==
    ASSUME NEW h \in Seq(Pointer), NEW x, NEW j \in 0..Len(h)
    PROVE  HeldAfter(Append(h, x), j) = HeldAfter(h, j)
BY DEF HeldAfter

\* What the tables promise: a row is appended when its version is published
\* and its prevVersion is what the request saw.
LEMMA TablesStep ==
    ASSUME TypeOK, PointerIsLastRow, NeverDangles, FromWasHeld,
           TargetsPublished, FromSeen, RowsSettled, [Next]_vars
    PROVE  PointerIsLastRow' /\ NeverDangles' /\ FromWasHeld' /\ RowsSettled'
<1>0. ASSUME NEW c \in Channels, NEW i \in DOMAIN history[c]
      PROVE  /\ history[c][i].by \in Requests
             /\ pc'[history[c][i].by] \in {"saved", "done", "dead"}
             /\ base'[history[c][i].by] = base[history[c][i].by]
             /\ history[c][i].by \in blind' <=> history[c][i].by \in blind
  <2>1. history[c][i] \in Pointer
    BY <1>0 DEF TypeOK
  <2>2. history[c][i].by \in Requests
    BY <2>1, PointerFields
  <2> QED
    BY <1>0, <2>2, SettledStays DEF RowsSettled
<1>1. CASE UNCHANGED tables
  <2>1. PointerIsLastRow' /\ NeverDangles' /\ RowsSettled'
    BY <1>0, <1>1, Writes DEF tables, PointerIsLastRow, NeverDangles, RowsSettled
  <2>2. FromWasHeld'
    BY <1>0, <1>1 DEF tables, FromWasHeld, HeldAfter
  <2> QED
    BY <2>1, <2>2
<1>2. ASSUME NEW r \in Requests, pc[r] = "save",
             pc' \in {[pc EXCEPT ![r] = a] : a \in {"saved", "done"}},
             channel' = [channel EXCEPT ![chan[r]] = Row(r)],
             history' = [history EXCEPT ![chan[r]] = Append(@, Row(r))]
      PROVE  PointerIsLastRow' /\ NeverDangles' /\ FromWasHeld' /\ RowsSettled'
  <2> DEFINE h == history[chan[r]]
             g == Append(h, Row(r))
  <2>1. /\ chan[r] \in Channels /\ h \in Seq(Pointer)
        /\ Row(r).version \in published /\ Row(r).prev = from[r]
        /\ Row(r).by = r /\ pc'[r] \in {"saved", "done"}
    BY <1>2 DEF TypeOK, TargetsPublished, Row
  <2>2. ASSUME NEW c \in Channels
        PROVE  history'[c] = IF c = chan[r] THEN g ELSE history[c]
    BY <1>2, <2>1 DEF TypeOK
  <2>3. /\ DOMAIN g = 1..(Len(h) + 1) /\ DOMAIN h = 1..Len(h)
        /\ Len(g) = Len(h) + 1 /\ Len(h) \in Nat
        /\ g[Len(h) + 1] = Row(r)
        /\ \A i \in 1..Len(h) : g[i] = h[i]
        /\ g # << >>
    BY <2>1
  <2>4. PointerIsLastRow'
    BY <1>2, <2>1, <2>2, <2>3 DEF TypeOK, PointerIsLastRow
  <2>5. NeverDangles'
    <3>1. \A i \in DOMAIN g : g[i].version \in published
      BY <2>1, <2>3 DEF NeverDangles
    <3> QED
      BY <2>2, <3>1, Writes DEF NeverDangles
  <2>6. RowsSettled'
    <3>1. \A i \in DOMAIN g : pc'[g[i].by] \in {"saved", "done", "dead"}
      BY <1>0, <2>1, <2>3
    <3> QED
      BY <1>0, <2>2, <3>1 DEF RowsSettled
  <2>7. base'[r] = base[r] /\ (r \in blind' <=> r \in blind)
    BY <1>2, <2>1, <2>3 DEF TypeOK, Next, RequestNext, ResolveBegin, ResolveEnds,
       RollbackBegin, PromoteBegin, GetArtifact, QueryFails, GetChannel,
       TakeTime, SaveChannel, SaveChannelFails, Respond, Goto, MayStart,
       Publish, Tick, Crash, vars, locals
  <2>8. ASSUME NEW i \in 1..(Len(h) + 1)
        PROVE  IF g[i].by \in blind' THEN g[i].prev = NoVersion
               ELSE \E j \in base'[g[i].by]..(i - 1) : g[i].prev = HeldAfter(g, j)
    <3>1. CASE i = Len(h) + 1
      <4>1. IF r \in blind THEN from[r] = NoVersion
            ELSE \E j \in base[r]..Len(h) : from[r] = HeldAfter(h, j)
        BY <1>2 DEF FromSeen, Seen
      <4>2. base[r] \in Nat
        BY DEF TypeOK
      <4>3. \A j \in base[r]..Len(h) : HeldAfter(g, j) = HeldAfter(h, j)
        BY <2>1, <2>3, <4>2, HeldStays
      <4> QED
        BY <2>1, <2>3, <2>7, <3>1, <4>1, <4>3
    <3>2. CASE i \in 1..Len(h)
      <4>1. IF h[i].by \in blind THEN h[i].prev = NoVersion
            ELSE \E j \in base[h[i].by]..(i - 1) : h[i].prev = HeldAfter(h, j)
        BY <2>1, <2>3, <3>2 DEF FromWasHeld
      <4>2. base[h[i].by] \in Nat
        BY <1>0, <2>1, <2>3, <3>2 DEF TypeOK
      <4>3. \A j \in base[h[i].by]..(i - 1) : HeldAfter(g, j) = HeldAfter(h, j)
        BY <2>1, <2>3, <3>2, <4>2, HeldStays
      <4>4. /\ base'[h[i].by] = base[h[i].by]
            /\ h[i].by \in blind' <=> h[i].by \in blind
        BY <1>0, <2>1, <2>3, <3>2
      <4> QED
        BY <2>3, <3>2, <4>1, <4>3, <4>4
    <3> QED
      BY <2>3, <3>1, <3>2
  <2>9. FromWasHeld'
    <3>1. ASSUME NEW c \in Channels, NEW i \in DOMAIN history'[c]
          PROVE  IF history'[c][i].by \in blind'
                 THEN history'[c][i].prev = NoVersion
                 ELSE \E j \in base'[history'[c][i].by]..(i - 1) :
                         history'[c][i].prev = HeldAfter(history'[c], j)
      <4>1. CASE c = chan[r]
        <5>1. history'[c] = g
          BY <2>2, <4>1
        <5>2. i \in 1..(Len(h) + 1)
          BY <2>3, <3>1, <5>1
        <5> HIDE DEF g
        <5> QED
          BY <2>8, <5>1, <5>2
      <4>2. CASE c # chan[r]
        <5>1. history'[c] = history[c] /\ i \in DOMAIN history[c]
          BY <2>2, <3>1, <4>2
        <5> QED
          BY <1>0, <5>1 DEF FromWasHeld
      <4> QED
        BY <4>1, <4>2
    <3> QED
      BY <3>1 DEF FromWasHeld, HeldAfter
  <2> QED
    BY <2>4, <2>5, <2>6, <2>9
<1> QED
  BY <1>1, <1>2, Writes

\* What requests remember of the tables stays true of them.
LEMMA MemoryStep ==
    ASSUME TypeOK, PointerIsLastRow, NeverDangles, TargetsPublished,
           OpAtPC, [Next]_vars
    PROVE  TargetsPublished' /\ OpAtPC'
<1>1. ASSUME NEW r \in Requests, RequestNext(r)
      PROVE  TargetsPublished' /\ OpAtPC'
  <2> USE DEF TypeOK, tables, locals, Goto, Answer, MayStart, TargetsPublished,
              OpAtPC
  <2>1. CASE ResolveBegin(r)
    <3>1. chan[r] \in Channels
      OBVIOUS
    <3>2. channel[chan[r]] # NoPointer => channel[chan[r]].version \in published
      BY <3>1, PointerPublished
    <3> QED
      BY <2>1, <3>2 DEF ResolveBegin
  <2>2. CASE ResolveEnds(r)
    BY <2>2 DEF ResolveEnds
  <2>3. CASE RollbackBegin(r)
    <3>1. ASSUME ~(Len(history[chan[r]]) < 2)
          PROVE  RollbackTarget(chan[r]) \in published
      <4>1. chan[r] \in Channels /\ Len(history[chan[r]]) >= 2
        BY <3>1
      <4>2. PICK i \in DOMAIN history[chan[r]] :
                   RollbackTarget(chan[r]) = history[chan[r]][i].version
        BY <4>1, RollbackTargetIsRow
      <4> QED
        BY <4>1, <4>2 DEF NeverDangles
    <3> QED
      BY <2>3, <3>1 DEF RollbackBegin
  <2>4. CASE \E v \in Versions : PromoteBegin(r, v)
    BY <2>4 DEF PromoteBegin
  <2>5. CASE GetArtifact(r)
    BY <2>5 DEF GetArtifact
  <2>8. CASE QueryFails(r)
    BY <2>8 DEF QueryFails
  <2>6. CASE GetChannel(r) \/ TakeTime(r) \/ Respond(r)
    BY <2>6 DEF GetChannel, TakeTime, Respond
  <2>7. CASE SaveChannel(r) \/ SaveChannelFails(r)
    BY <2>7 DEF SaveChannel, SaveChannelFails
  <2> QED
    BY <1>1, <2>1, <2>2, <2>3, <2>4, <2>5, <2>6, <2>7, <2>8 DEF RequestNext
<1>2. CASE ~ \E r \in Requests : RequestNext(r)
  BY <1>2 DEF Next, Publish, Tick, Crash, vars, TypeOK, TargetsPublished,
     OpAtPC, tables, locals
<1> QED
  BY <1>1, <1>2

\* Rows are appended and never changed, and a request keeps to its channel.
LEMMA HistoryGrows ==
    ASSUME TypeOK, [Next]_vars
    PROVE  /\ chan' = chan
           /\ \A c \in Channels :
                 /\ Len(history[c]) <= Len(history'[c])
                 /\ \A j \in 0..Len(history[c]) :
                       HeldAfter(history'[c], j) = HeldAfter(history[c], j)
<1>1. chan' = chan
  BY DEF Next, RequestNext, ResolveBegin, ResolveEnds, RollbackBegin,
     PromoteBegin, GetArtifact, QueryFails, GetChannel, TakeTime, SaveChannel,
     SaveChannelFails, Respond, Publish, Tick, Crash, vars, locals
<1>2. ASSUME NEW c \in Channels
      PROVE  /\ Len(history[c]) <= Len(history'[c])
             /\ \A j \in 0..Len(history[c]) :
                   HeldAfter(history'[c], j) = HeldAfter(history[c], j)
  <2>1. history[c] \in Seq(Pointer) /\ Len(history[c]) \in Nat
    BY DEF TypeOK
  <2>2. CASE history'[c] = history[c]
    BY <2>1, <2>2
  <2>3. ASSUME NEW r \in Requests, history'[c] = Append(history[c], Row(r))
        PROVE  /\ Len(history[c]) <= Len(history'[c])
               /\ \A j \in 0..Len(history[c]) :
                     HeldAfter(history'[c], j) = HeldAfter(history[c], j)
    BY <2>1, <2>3, HeldStays
  <2>4. \/ history'[c] = history[c]
        \/ \E r \in Requests : history'[c] = Append(history[c], Row(r))
    BY Writes DEF TypeOK, tables
  <2> QED
    BY <2>2, <2>3, <2>4
<1> QED
  BY <1>1, <1>2

\* What a request saw of the channel is one of the versions it held since the
\* request began.
LEMMA FromStep ==
    ASSUME TypeOK, PointerIsLastRow, FromSeen, [Next]_vars
    PROVE  FromSeen'
<1> SUFFICES ASSUME NEW r \in Requests PROVE Seen(r)'
  BY DEF FromSeen
<1> DEFINE h == history[chan[r]]
<1>1. /\ Seen(r) /\ chan[r] \in Channels /\ chan' = chan
      /\ h \in Seq(Pointer) /\ Len(h) \in Nat /\ base[r] \in Nat
      /\ Len(h)' \in Nat /\ Len(h) <= Len(h)'
      /\ \A j \in 0..Len(h) : HeldAfter(h, j)' = HeldAfter(h, j)
  <2>1. chan[r] \in Channels /\ h \in Seq(Pointer) /\ base[r] \in Nat
    BY DEF TypeOK
  <2>2. \/ history'[chan[r]] = history[chan[r]]
        \/ \E q \in Requests : history'[chan[r]] = Append(history[chan[r]], Row(q))
    BY <2>1, Writes DEF TypeOK, tables
  <2>3. Len(history'[chan[r]]) \in Nat
    BY <2>1, <2>2
  <2> QED
    BY <2>1, <2>3, HistoryGrows DEF FromSeen, HeldAfter
<1>2. ASSUME base'[r] = base[r], from'[r] = from[r],
             r \in blind' <=> r \in blind,
             pc'[r] \in {"stamp", "save"} => pc[r] \in {"stamp", "save"},
             r \in blind => pc'[r] \in {"stamp", "save", "saved", "done", "dead"}
      PROVE  Seen(r)'
  <2>1. base[r] <= Len(h)'
    BY <1>1 DEF Seen
  <2>2. ASSUME pc[r] \in {"stamp", "save"}, r \notin blind
        PROVE  \E j \in base[r]..(Len(h)') : from[r] = HeldAfter(h, j)'
    <3>1. PICK j \in base[r]..Len(h) : from[r] = HeldAfter(h, j)
      BY <1>1, <2>2 DEF Seen
    <3> QED
      BY <1>1, <3>1
  <2>3. pc[r] \in {"stamp", "save"} /\ r \in blind => from[r] = NoVersion
    BY <1>1 DEF Seen
  <2> QED
    BY <1>1, <1>2, <2>1, <2>2, <2>3 DEF Seen
<1>3. CASE ~ RequestNext(r)
  BY <1>1, <1>2, <1>3, OthersLeaveAlone DEF Seen
<1>4. CASE GetChannel(r)
  <2>1. /\ h' = h /\ base'[r] = base[r] /\ pc'[r] = "stamp"
        /\ r \notin blind
    BY <1>1, <1>4 DEF GetChannel, TypeOK, tables, Goto, Seen
  <2>2. base[r] <= Len(h)
    BY <1>1 DEF Seen
  <2>3. CASE from'[r] = NoVersion /\ r \in blind'
    BY <1>1, <2>1, <2>2, <2>3 DEF Seen
  <2>4. CASE from'[r] = channel[chan[r]].version /\ r \notin blind'
    <3>1. channel[chan[r]].version = HeldAfter(h, Len(h))
      BY <1>1 DEF PointerIsLastRow, HeldAfter, NoPointer
    <3> QED
      BY <1>1, <2>1, <2>2, <2>4, <3>1 DEF Seen, HeldAfter
  <2> QED
    BY <1>4, <2>1, <2>3, <2>4 DEF GetChannel, TypeOK
<1>5. CASE RollbackBegin(r) \/ \E v \in Versions : PromoteBegin(r, v)
  <2>1. /\ h' = h /\ base'[r] = Len(h)
        /\ pc[r] = "idle" /\ pc'[r] \in {"resolve", "done"} /\ blind' = blind
    BY <1>1, <1>5 DEF RollbackBegin, PromoteBegin, TypeOK, tables, Goto,
       MayStart, MarkBegin
  <2> QED
    BY <1>1, <2>1 DEF Seen
<1>6. CASE RequestNext(r) /\ ~ GetChannel(r) /\ ~ RollbackBegin(r)
             /\ ~ \E v \in Versions : PromoteBegin(r, v)
  <2>1. /\ base'[r] = base[r] /\ from'[r] = from[r] /\ blind' = blind
        /\ pc'[r] \in {"stamp", "save"} => pc[r] \in {"stamp", "save"}
        /\ pc[r] \in {"stamp", "save", "saved", "done", "dead"}
              => pc'[r] \in {"stamp", "save", "saved", "done", "dead"}
    BY <1>6 DEF RequestNext, ResolveBegin, ResolveEnds, GetArtifact,
       QueryFails, TakeTime, SaveChannel, SaveChannelFails, Respond, TypeOK,
       locals, Goto, MayStart
  <2> QED
    BY <1>1, <1>2, <2>1 DEF Seen
<1> QED
  BY <1>3, <1>4, <1>5, <1>6

\* Neither a rollback nor a resolve that found what it started from answers
\* 404.
LEMMA AnswerStep ==
    ASSUME TypeOK, PointerIsLastRow, NeverDangles, TargetsPublished, OpAtPC,
           RollbackFindsArtifact, ResolveFindsArtifact, [Next]_vars
    PROVE  RollbackFindsArtifact' /\ ResolveFindsArtifact'
<1>1. ASSUME NEW r \in Requests, RequestNext(r)
      PROVE  RollbackFindsArtifact' /\ ResolveFindsArtifact'
  <2> USE DEF TypeOK, locals, Goto, Answer, MayStart, OpAtPC,
              RollbackFindsArtifact, ResolveFindsArtifact
  <2>1. CASE ResolveBegin(r)
    <3>1. chan[r] \in Channels
      OBVIOUS
    <3>2. channel[chan[r]] = NoPointer => channel[chan[r]].version = NoVersion
      BY <3>1, PointerPublished
    <3> QED
      BY <2>1, <3>2 DEF ResolveBegin
  <2>2. CASE ResolveEnds(r)
    BY <2>2 DEF ResolveEnds, TargetsPublished
  <2>3. CASE RollbackBegin(r)
    BY <2>3 DEF RollbackBegin
  <2>4. CASE \E v \in Versions : PromoteBegin(r, v)
    BY <2>4 DEF PromoteBegin
  <2>5. CASE GetArtifact(r)
    BY <2>5 DEF GetArtifact, TargetsPublished
  <2>6. CASE QueryFails(r) \/ GetChannel(r) \/ TakeTime(r) \/ Respond(r)
    BY <2>6 DEF QueryFails, GetChannel, TakeTime, Respond
  <2>7. CASE SaveChannel(r) \/ SaveChannelFails(r)
    BY <2>7 DEF SaveChannel, SaveChannelFails
  <2> QED
    BY <1>1, <2>1, <2>2, <2>3, <2>4, <2>5, <2>6, <2>7 DEF RequestNext
<1>2. CASE ~ \E r \in Requests : RequestNext(r)
  BY <1>2 DEF Next, Publish, Tick, Crash, vars, locals, RollbackFindsArtifact,
     ResolveFindsArtifact
<1> QED
  BY <1>1, <1>2

-----------------------------------------------------------------------------
(***************************************************************************)
(* Theorems.                                                               *)
(***************************************************************************)

\* Every step preserves the inductive invariant, which therefore always holds.
THEOREM Inductive == Spec => []IInv
<1>1. IInv /\ [Next]_vars => IInv'
  BY TypeStep, TablesStep, MemoryStep, FromStep, AnswerStep DEF IInv
<1> QED
  BY InitIInv, <1>1, PTL DEF Spec

\* For any number of requests, channels and versions, and any order of time
\* stamps that tells them apart, the state is well formed; in particular a
\* rollback's target is always one of the history's rows.
THEOREM TypeCorrect == Spec => []TypeOK
BY Inductive, PTL DEF IInv

\* However requests overlap, fail and are killed, the row in channels is the
\* last row of channel_history.
THEOREM PointerAgreesWithHistory == Spec => []PointerIsLastRow
BY Inductive, PTL DEF IInv

\* No row of any history names a version without an artifact.
THEOREM HistoryNeverDangles == Spec => []NeverDangles
BY Inductive, PTL DEF IInv

\* The from_version of a row is a version the channel pointed to between the
\* beginning of its request and its save, and empty only if the channel was so
\* then or could not be read.
THEOREM FromVersionWasHeld == Spec => []FromWasHeld
BY Inductive, PTL DEF IInv

\* A rollback that finds a history is never answered 404.
THEOREM RollbacksFindArtifacts == Spec => []RollbackFindsArtifact
BY Inductive, PTL DEF IInv

\* A resolve that finds a pointer is never answered 404, although the channel
\* may move between its two reads.
THEOREM ResolvesFindArtifacts == Spec => []ResolveFindsArtifact
BY Inductive, PTL DEF IInv
=============================================================================
