------------------------------ MODULE Channels ------------------------------
(***************************************************************************)
(* Promoting, rolling back and resolving channels.                         *)
(*                                                                         *)
(* service.Registry.Promote reads the artifact and the channel's current   *)
(* version, takes the time, and only then saves, in one transaction, the   *)
(* new pointer and a history row.  Rollback first reads the history to     *)
(* find its target and then does what Promote does.  ResolveLatest reads   *)
(* the pointer and then the artifact it names.  Nothing holds a lock from  *)
(* the first read of a request to its last statement.                      *)
(*                                                                         *)
(* A channel is a (channel, type, name) triple: no statement touches the   *)
(* rows of two triples, and a version names an artifact once the type and  *)
(* the name are given, so artifact_id is left out.                         *)
(***************************************************************************)
EXTENDS Naturals, Sequences, FiniteSets

CONSTANTS
    Requests,     \* promote, rollback and resolve requests
    Channels,
    Versions,
    NoVersion,    \* the empty string
    NoRequest,
    MaxTime,      \* bound: the clock's last reading
    TextRank,     \* where a time's text stands when SQLite orders by it
    Serial,       \* TRUE: a request starts only when no other is running
    ReadErrors    \* TRUE: reading the channel row may fail

Times == 0..MaxTime

ASSUME ChannelsAssumption ==
    /\ NoVersion \notin Versions
    /\ NoRequest \notin Requests
    /\ MaxTime \in Nat
    /\ TextRank \in [Times -> Nat]
    /\ \A s, t \in Times : TextRank[s] = TextRank[t] => s = t
    /\ Serial \in BOOLEAN
    /\ ReadErrors \in BOOLEAN

VARIABLES
    published,   \* versions that have an artifact row
    channel,     \* channel[c]: the row of c in channels, or NoPointer
    history,     \* history[c]: the rows of c in channel_history, by id
    clock,       \* time.Now, in wall-clock readings that do not go back
    pc,          \* pc[r]: where request r is
    op,          \* op[r]: "promote", "rollback" or "resolve"
    chan,        \* chan[r]: the channel request r moves or resolves
    target,      \* target[r]: the version it moves to, or has resolved to
    from,        \* from[r]: prevVersion, what GetChannel told it
    stamp,       \* stamp[r]: PromotedAt
    reply,       \* reply[r]: the answer request r gets
    base,        \* history variable: base[r]: the number of rows its channel
                 \* had when request r began
    blind        \* history variable: requests whose GetChannel failed

tables == <<channel, history>>
locals == <<op, chan, target, from, stamp, base, blind>>
vars == <<published, channel, history, clock, pc, op, chan, target, from,
          stamp, reply, base, blind>>

\* A ChannelPointer; "by" is the request that saved it (PromotedBy).
Pointer == [version : Versions, prev : Versions \cup {NoVersion},
            at : Times, by : Requests]
NoPointer == [version |-> NoVersion, prev |-> NoVersion, at |-> 0,
              by |-> NoRequest]

TypeOK ==
    /\ published \subseteq Versions
    /\ channel \in [Channels -> Pointer \cup {NoPointer}]
    /\ history \in [Channels -> Seq(Pointer)]
    /\ clock \in Times
    /\ pc \in [Requests ->
                 {"idle", "pointed", "resolve", "found", "stamp", "save",
                  "saved", "done", "dead"}]
    /\ op \in [Requests -> {"none", "promote", "rollback", "resolve"}]
    /\ chan \in [Requests -> Channels]
    /\ target \in [Requests -> Versions \cup {NoVersion}]
    /\ from \in [Requests -> Versions \cup {NoVersion}]
    /\ stamp \in [Requests -> Times]
    /\ reply \in [Requests -> {"none", "ok", "notfound", "conflict", "error"}]
    /\ base \in [Requests -> Nat]
    /\ blind \subseteq Requests

Init ==
    /\ published = {}
    /\ channel = [c \in Channels |-> NoPointer]
    /\ history = [c \in Channels |-> << >>]
    /\ clock = 0
    /\ pc = [r \in Requests |-> "idle"]
    /\ op = [r \in Requests |-> "none"]
    /\ chan \in [Requests -> Channels]
    /\ target = [r \in Requests |-> NoVersion]
    /\ from = [r \in Requests |-> NoVersion]
    /\ stamp = [r \in Requests |-> 0]
    /\ reply = [r \in Requests |-> "none"]
    /\ base = [r \in Requests |-> 0]
    /\ blind = {}

-----------------------------------------------------------------------------
Goto(r, a, b) ==
    /\ pc[r] = a
    /\ pc' = [pc EXCEPT ![r] = b]

Answer(r, a) == reply' = [reply EXCEPT ![r] = a]

MayStart(r) ==
    /\ pc[r] = "idle"
    /\ Serial => \A q \in Requests : pc[q] \in {"idle", "done", "dead"}

\* The number of rows that are there when request r begins.
MarkBegin(r) == base' = [base EXCEPT ![r] = Len(history[chan[r]])]

(***************************************************************************)
(* The environment.                                                        *)
(***************************************************************************)

\* An upload inserts the artifact row of version v; none is ever deleted.
Publish(v) ==
    /\ v \notin published
    /\ published' = published \cup {v}
    /\ UNCHANGED <<tables, clock, pc, locals, reply>>

Tick ==
    /\ clock < MaxTime
    /\ clock' = clock + 1
    /\ UNCHANGED <<published, tables, pc, locals, reply>>

(***************************************************************************)
(* ResolveLatest.                                                          *)
(***************************************************************************)

\* GetChannel: without a pointer the answer is 404.
ResolveBegin(r) ==
    LET c == chan[r] IN
    /\ MayStart(r)
    /\ op' = [op EXCEPT ![r] = "resolve"]
    /\ target' = [target EXCEPT ![r] = channel[c].version]
    /\ IF channel[c] = NoPointer
       THEN Goto(r, "idle", "done") /\ Answer(r, "notfound")
       ELSE Goto(r, "idle", "pointed") /\ UNCHANGED reply
    /\ UNCHANGED <<published, tables, clock, chan, from, stamp, base, blind>>

\* GetArtifact: an artifact that is missing is a 404 too; either query fails
\* with a 500.
ResolveEnds(r) ==
    /\ Goto(r, "pointed", "done")
    /\ \/ Answer(r, IF target[r] \in published THEN "ok" ELSE "notfound")
       \/ Answer(r, "error")
    /\ UNCHANGED <<published, tables, clock, locals>>

(***************************************************************************)
(* Rollback reads the history.                                             *)
(***************************************************************************)

\* Pairs of times of which the first sorts later as text.
TextLater ==
    UNION {{<<s, t>> : t \in {u \in Times : TextRank[u] < TextRank[s]}} : s \in Times}

\* Seeded fault: rows with equal stamps come in the order of their ids.
ListedBeforeById(h, i, j) ==
    \/ <<h[i].at, h[j].at>> \in TextLater
    \/ h[i].at = h[j].at /\ i < j

\* In ORDER BY promoted_at DESC row i of the history h comes before row j.
\* Rows with equal stamps come in the reverse order of the index, whose
\* entries end in the row id: the later row first.
ListedBefore(h, i, j) ==
    \/ <<h[i].at, h[j].at>> \in TextLater
    \/ h[i].at = h[j].at /\ i > j

\* The row listed n-th, counting from 0 as the code does.
Listed(h, n) ==
    LET place(i) == Cardinality({j \in DOMAIN h : ListedBefore(h, j, i)})
    IN  h[CHOOSE i \in DOMAIN h : place(i) = n]

\* Seeded faults: the oldest row, or the pointer's previous_version.
OldestTarget(c) == history[c][1].version
PrevColumnTarget(c) == channel[c].prev

\* The version of history[1].
RollbackTarget(c) == Listed(history[c], 1).version

RollbackBegin(r) ==
    /\ MayStart(r)
    /\ op' = [op EXCEPT ![r] = "rollback"]
    /\ IF Len(history[chan[r]]) < 2
       THEN /\ Goto(r, "idle", "done")
            /\ Answer(r, "conflict")
            /\ UNCHANGED target
       ELSE /\ Goto(r, "idle", "resolve")
            /\ target' = [target EXCEPT ![r] = RollbackTarget(chan[r])]
            /\ UNCHANGED reply
    /\ MarkBegin(r)
    /\ UNCHANGED <<published, tables, clock, chan, from, stamp, blind>>

(***************************************************************************)
(* Promote, called by its handler and by Rollback.                         *)
(***************************************************************************)

PromoteBegin(r, v) ==
    /\ MayStart(r)
    /\ Goto(r, "idle", "resolve")
    /\ op' = [op EXCEPT ![r] = "promote"]
    /\ target' = [target EXCEPT ![r] = v]
    /\ MarkBegin(r)
    /\ UNCHANGED <<published, tables, clock, chan, from, stamp, reply, blind>>

\* Seeded fault: the artifact is not looked up.
GetArtifactUnchecked(r) ==
    /\ Goto(r, "resolve", "found")
    /\ UNCHANGED <<published, tables, clock, locals, reply>>

\* GetArtifact finds the version or the request ends.
GetArtifact(r) ==
    /\ IF target[r] \in published
       THEN Goto(r, "resolve", "found") /\ UNCHANGED reply
       ELSE Goto(r, "resolve", "done") /\ Answer(r, "notfound")
    /\ UNCHANGED <<published, tables, clock, locals>>

\* The query of ListChannelHistory or GetArtifact fails.
QueryFails(r) ==
    /\ Goto(r, "resolve", "done")
    /\ Answer(r, "error")
    /\ UNCHANGED <<published, tables, clock, locals>>

\* Seeded fault: the previous_version column is read.
GetChannelPrev(r) ==
    /\ Goto(r, "found", "stamp")
    /\ from' = [from EXCEPT ![r] = channel[chan[r]].prev]
    /\ UNCHANGED <<published, tables, clock, op, chan, target, stamp, reply,
                   base, blind>>

\* GetChannel: without a row, and after ANY error, prevVersion stays empty.
GetChannel(r) ==
    /\ Goto(r, "found", "stamp")
    /\ \/ /\ from' = [from EXCEPT ![r] = channel[chan[r]].version]
          /\ UNCHANGED blind
       \/ /\ ReadErrors
          /\ from' = [from EXCEPT ![r] = NoVersion]
          /\ blind' = blind \cup {r}
    /\ UNCHANGED <<published, tables, clock, op, chan, target, stamp, reply, base>>

\* PromotedAt: time.Now().
TakeTime(r) ==
    /\ Goto(r, "stamp", "save")
    /\ stamp' = [stamp EXCEPT ![r] = clock]
    /\ UNCHANGED <<published, tables, clock, op, chan, target, from, reply,
                   base, blind>>

\* Seeded fault: the pointer left behind goes into the history.
CommitOldPointer(r) ==
    /\ channel' = [channel EXCEPT ![chan[r]] =
                     [version |-> target[r], prev |-> from[r],
                      at |-> stamp[r], by |-> r]]
    /\ history' = [history EXCEPT ![chan[r]] = Append(@, channel[chan[r]])]

\* The transaction: upsert the pointer, append it to the history, commit.
Commit(r) ==
    LET ch == [version |-> target[r], prev |-> from[r], at |-> stamp[r],
               by |-> r]
    IN  /\ channel' = [channel EXCEPT ![chan[r]] = ch]
        /\ history' = [history EXCEPT ![chan[r]] = Append(@, ch)]

SaveChannel(r) ==
    /\ Goto(r, "save", "saved")
    /\ Commit(r)
    /\ Answer(r, "ok")
    /\ UNCHANGED <<published, clock, locals>>

\* Seeded fault: no transaction, the second statement fails.
SaveChannelHalf(r) ==
    /\ Goto(r, "save", "done")
    /\ channel' = [channel EXCEPT ![chan[r]] =
                     [version |-> target[r], prev |-> from[r],
                      at |-> stamp[r], by |-> r]]
    /\ Answer(r, "error")
    /\ UNCHANGED <<published, history, clock, locals>>

\* SaveChannel returns an error: nothing was written, or the commit took
\* effect and its confirmation was lost.
SaveChannelFails(r) ==
    /\ Goto(r, "save", "done")
    /\ Commit(r) \/ UNCHANGED tables
    /\ Answer(r, "error")
    /\ UNCHANGED <<published, clock, locals>>

\* The handler emits channel.promoted or channel.rollback, with from_version
\* from[r] and to_version target[r], and answers 200.
Respond(r) ==
    /\ Goto(r, "saved", "done")
    /\ UNCHANGED <<published, tables, clock, locals, reply>>

\* The process is killed and started again.
Crash ==
    /\ \E r \in Requests : pc[r] \notin {"idle", "done", "dead"}
    /\ pc' = [r \in Requests |->
                IF pc[r] \in {"idle", "done"} THEN pc[r] ELSE "dead"]
    /\ UNCHANGED <<published, tables, clock, locals, reply>>

RequestNext(r) ==
    \/ ResolveBegin(r)
    \/ ResolveEnds(r)
    \/ RollbackBegin(r)
    \/ \E v \in Versions : PromoteBegin(r, v)
    \/ GetArtifact(r)
    \/ QueryFails(r)
    \/ GetChannel(r)
    \/ TakeTime(r)
    \/ SaveChannel(r)
    \/ SaveChannelFails(r)
    \/ Respond(r)

Next ==
    \/ \E r \in Requests : RequestNext(r)
    \/ \E v \in Versions : Publish(v)
    \/ Tick
    \/ Crash

Spec == Init /\ [][Next]_vars

-----------------------------------------------------------------------------
(***************************************************************************)
(* Properties.                                                             *)
(***************************************************************************)

\* The pointer and the history agree at every moment, kills and failed saves
\* included: the row in channels is the last row appended to channel_history.
PointerIsLastRow ==
    \A c \in Channels :
        channel[c] = IF history[c] = << >> THEN NoPointer
                     ELSE history[c][Len(history[c])]

\* Resolving a channel never leads to a version without an artifact, and
\* neither does any row a rollback could take its target from.
NeverDangles ==
    \A c \in Channels :
        \A i \in DOMAIN history[c] : history[c][i].version \in published

\* The version a channel with history h pointed to after its j-th row.
HeldAfter(h, j) == IF j = 0 THEN NoVersion ELSE h[j].version

\* The from_version of a row is stale by no more than its own request: it is a
\* version the channel pointed to at some moment between the request's beginning
\* and its save, and empty only if that is what the channel was at such a
\* moment.  The one exception is a request that could not read the channel.
FromWasHeld ==
    \A c \in Channels : \A i \in DOMAIN history[c] :
        LET h == history[c]
            r == h[i].by
        IN  IF r \in blind THEN h[i].prev = NoVersion
            ELSE \E j \in base[r]..(i - 1) : h[i].prev = HeldAfter(h, j)

\* A rollback that finds a history never answers 404, however long ago it
\* read the history.
RollbackFindsArtifact ==
    \A r \in Requests : op[r] = "rollback" => reply[r] # "notfound"

\* A resolve that finds the pointer never answers 404, although the artifact
\* is read in a second query and the channel may move in between.
ResolveFindsArtifact ==
    \A r \in Requests :
        op[r] = "resolve" /\ target[r] # NoVersion => reply[r] # "notfound"

\* While requests do not overlap and stamps sort as text the way they do in
\* time, a channel is what its users are promised: one level of rollback, and
\* rolling back twice returns.
SecondLast(h) == IF Len(h) < 2 THEN NoVersion ELSE h[Len(h) - 1].version
LastOp(h) == IF h = << >> THEN "none" ELSE op[h[Len(h)].by]
Swap == INSTANCE ChannelSwap WITH
            current  <- [c \in Channels |-> channel[c].version],
            previous <- [c \in Channels |-> SecondLast(history[c])],
            lastOp   <- [c \in Channels |-> LastOp(history[c])]
SwapSpec == Swap!Spec

\* What the comment on ChannelEventData says: from_version is the version the
\* channel pointed to immediately before the operation.
FromWasCurrent ==
    [][ \A c \in Channels :
          channel'[c] # channel[c] => channel'[c].prev = channel[c].version
      ]_vars

\* What api/openapi.yaml says of previous_version: it is absent when no prior
\* promotion exists, so only in the first row of a channel.
AbsentOnlyAtFirst ==
    \A c \in Channels : \A i \in DOMAIN history[c] :
        history[c][i].prev = NoVersion => i = 1

\* What api/openapi.yaml says of a rollback: it swaps the current version with
\* the one before it.  So it goes to the version that the row before the last
\* has at the moment it saves.
RollbackSwaps ==
    [][ \A c \in Channels :
          channel'[c] # channel[c] /\ op[channel'[c].by] = "rollback"
              => channel'[c].version = SecondLast(history[c]) ]_vars

\* What the comment in Rollback says of the list it reads: history[0] is the
\* current pointer.
HeadIsCurrent ==
    \A c \in Channels :
        history[c] # << >> => Listed(history[c], 0) = channel[c]

=============================================================================
