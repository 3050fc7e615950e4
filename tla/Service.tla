------------------------------ MODULE Service ------------------------------
(***************************************************************************)
(* The server and its webhook consumers: requests that move channels       *)
(* (Channels), the deliveries that announce the moves (Dispatcher), and    *)
(* the keys that admit them (Access), in one process that may be killed.   *)
(*                                                                         *)
(* Webhooks come in no particular order, and the event of a channel names  *)
(* the channel but neither the type nor the name of the artifact.  So a    *)
(* consumer does what the package comment of webhooks asks of it: whenever *)
(* it receives an event it reads the state of each of the channel's        *)
(* artifacts again from the REST API.  One endpoint stands behind each     *)
(* URL.                                                                    *)
(*                                                                         *)
(* Channels are the (type, name) pairs of ONE channel name, so the events  *)
(* of all requests have one aggregate key.  The order in which the history *)
(* lists stamps is the business of Channels, and here the clock stands     *)
(* still; replays, which post an event once more, are that of Dispatcher.  *)
(***************************************************************************)
EXTENDS Access, Sequences, FiniteSets

CONSTANTS
    Requests,    \* promote and rollback requests; also the events they emit
    Channels,    \* (type, name) pairs promoted under the channel name
    Versions, NoVersion, NoRequest,
    NUrls, NoDelivery, MaxAttempts, MaxCrashes,
    HeaderOf,    \* the Authorization header of each request
    ConsumerHeader   \* and the one a consumer reads with

ASSUME ServiceAssumption ==
    /\ IsFiniteSet(Requests)
    /\ NoVersion \notin Versions
    /\ NoRequest \notin Requests
    /\ NUrls \in Nat \ {0}
    /\ MaxAttempts \in Nat \ {0}
    /\ MaxCrashes \in Nat
    /\ NoDelivery \notin Requests \X (1..NUrls)

VARIABLES
    published, channel, history, clock, pc, op, chan, target, from, stamp,
    reply, base, blind,   \* of Channels
    status, hint, epc, next, wpc, attempt, acked, rpc, replayed, crashes,
    unwritten, killed,   \* of Dispatcher
    received,    \* history: deliveries whose endpoint took the event
    unread,      \* unread[n]: pairs consumer n has yet to read again
    view,        \* view[n][c]: what consumer n last read of pair c
    earlier      \* history: earlier[r]: requests answered when r began

C == INSTANCE Channels WITH
         MaxTime <- 0, TextRank <- [t \in {0} |-> 0], Serial <- FALSE,
         ReadErrors <- FALSE
D == INSTANCE Dispatcher WITH
         Events <- Requests, AggregateOf <- [r \in Requests |-> "channel"],
         Replays <- {}, SerialReplays <- FALSE, target <- replayed

channelVars == <<published, channel, history, clock, pc, op, chan, target, from,
                 stamp, reply, base, blind>>
dispatcherVars == <<status, hint, epc, next, wpc, attempt, acked, rpc,
                    replayed, crashes, unwritten, killed>>
consumers == <<received, unread, view>>
vars == <<channelVars, dispatcherVars, env, consumers, earlier>>

Init ==
    /\ C!Init
    /\ D!Init
    /\ AccessInit
    /\ received = {}
    /\ unread = [n \in 1..NUrls |-> {}]
    /\ view = [n \in 1..NUrls |-> [c \in Channels |-> C!NoPointer]]
    /\ earlier = [r \in Requests |-> {}]

-----------------------------------------------------------------------------
(***************************************************************************)
(* Requests.                                                               *)
(***************************************************************************)
Publish(v) == C!Publish(v) /\ UNCHANGED <<dispatcherVars, env, consumers, earlier>>

\* The request passes requireScope and its handler starts.
Begin(r) ==
    /\ \/ Passes("rollback", HeaderOf[r]) /\ C!RollbackBegin(r)
       \/ Passes("promote", HeaderOf[r]) /\ \E v \in Versions : C!PromoteBegin(r, v)
    /\ earlier' = [earlier EXCEPT ![r] =
                     {q \in Requests : pc[q] = "done" /\ reply[q] = "ok"}]
    /\ UNCHANGED <<dispatcherVars, env, consumers>>

\* The statements before the save, and a save that reports an error: whether
\* it was committed or not, no event is emitted.
Proceed(r) ==
    /\ \/ C!GetArtifact(r) \/ C!QueryFails(r) \/ C!GetChannel(r)
       \/ C!TakeTime(r) \/ C!SaveChannelFails(r)
    /\ UNCHANGED <<dispatcherVars, env, consumers, earlier>>

\* Seeded fault: the event is emitted before the channel is saved.
SaveAfterEmit(r) ==
    /\ \/ pc[r] = "save" /\ D!Commit(r) /\ UNCHANGED channelVars
       \/ epc[r] # "idle" /\ C!SaveChannel(r) /\ UNCHANGED dispatcherVars
    /\ UNCHANGED <<env, consumers, earlier>>

\* The save is committed; the handler goes on to emit the event.
Save(r) ==
    /\ C!SaveChannel(r)
    /\ D!Commit(r)
    /\ UNCHANGED <<env, consumers, earlier>>

Emit(r) == D!EmitNext(r) /\ UNCHANGED <<channelVars, env, consumers, earlier>>

\* Seeded fault: the answer does not wait for Emit to return.
RespondAtOnce(r) ==
    C!Respond(r) /\ UNCHANGED <<dispatcherVars, env, consumers, earlier>>

\* Emit has returned; the handler answers.
Respond(r) ==
    /\ epc[r] = "done"
    /\ C!Respond(r)
    /\ UNCHANGED <<dispatcherVars, env, consumers, earlier>>

(***************************************************************************)
(* Deliveries and consumers.                                               *)
(***************************************************************************)

\* The endpoint takes the event of delivery d: every pair may have moved.
Take(d) ==
    /\ received' = received \cup {d}
    /\ unread' = [unread EXCEPT ![d[2]] = Channels]

\* A post that is answered 2xx was taken; one that fails may have been.
Post(w) ==
    /\ D!Post(w)
    /\ \/ Take(D!Job(w))
       \/ acked' = acked /\ UNCHANGED <<received, unread>>
    /\ UNCHANGED <<channelVars, env, view, earlier>>

Record(w) ==
    /\ D!RecordDelivered(w) \/ D!RecordFailed(w) \/ D!RecordDeadLetter(w)
    /\ UNCHANGED <<channelVars, env, consumers, earlier>>

\* GetChannelState: the pointer, or a 404 where there is none.
Reconcile(n, c) ==
    /\ c \in unread[n]
    /\ Passes("state", ConsumerHeader)
    /\ view' = [view EXCEPT ![n][c] = channel[c]]
    /\ unread' = [unread EXCEPT ![n] = @ \ {c}]
    /\ UNCHANGED <<channelVars, dispatcherVars, env, received, earlier>>

\* One kill ends the requests and the goroutines together.
Crash ==
    /\ D!Crash
    /\ \/ C!Crash
       \/ /\ \A r \in Requests : pc[r] \in {"idle", "done", "dead"}
          /\ UNCHANGED channelVars
    /\ Restart
    /\ UNCHANGED <<consumers, earlier>>

Next ==
    \/ \E v \in Versions : Publish(v)
    \/ \E r \in Requests :
          Begin(r) \/ Proceed(r) \/ Save(r) \/ Emit(r) \/ Respond(r)
    \/ \E w \in D!Workers : Post(w) \/ Record(w)
    \/ \E n \in 1..NUrls, c \in Channels : Reconcile(n, c)
    \/ Crash

Spec == Init /\ [][Next]_vars

-----------------------------------------------------------------------------
(***************************************************************************)
(* Properties.                                                             *)
(***************************************************************************)

\* A consumer that has received the event of a pair's last move, and has
\* nothing left to read, knows the current pointer, in whichever order and
\* however often events came.  So the move must be visible to a reader before
\* its event can be.
ConsumersCatchUp ==
    \A n \in 1..NUrls, c \in Channels :
        <<channel[c].by, n>> \in received /\ c \notin unread[n]
            => view[n][c] = channel[c]

\* sequence_hint follows the answers: the records of a request that began
\* after another one was answered have the higher hints.
HintsFollowAnswers ==
    \A d, e \in D!Deliveries :
        /\ d[1] \in earlier[e[1]]
        /\ status[d] # "absent" /\ status[e] # "absent"
        => hint[d] < hint[e]

\* A move whose save was confirmed is not forgotten: until it is superseded,
\* each consumer knows it or has to read it, or its event is still to be
\* emitted or posted, unless a kill or the failure of every attempt broke the
\* delivery off.  A record that cannot be written makes no difference.  With
\* the fairness of Dispatcher, and consumers that read, they all learn of it.
MoveNotForgotten ==
    \A n \in 1..NUrls, c \in Channels :
        LET r == channel[c].by
            d == <<r, n>>
        IN  r # NoRequest /\ reply[r] = "ok" =>
                \/ view[n][c] = channel[c] \/ c \in unread[n]
                \/ epc[r] = "emitting" /\ next[r] <= n
                \/ wpc[d] \in {"posting", "err", "exhausted"}
                \/ d \in killed
                \/ wpc[d] = "done" /\ d \notin acked

\* What api/openapi.yaml says of webhooks: state-changing operations emit their
\* event.  So the request that last moved a pair is emitting or has emitted.
StateChangesEmit ==
    \A c \in Channels :
        channel[c].by # NoRequest => epc[channel[c].by] \in {"emitting", "done"}
=============================================================================
