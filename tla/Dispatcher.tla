----------------------------- MODULE Dispatcher -----------------------------
(***************************************************************************)
(* Webhook delivery.                                                       *)
(*                                                                         *)
(* After a change is committed its handler calls Dispatcher.Emit, which    *)
(* for each configured URL inserts a pending delivery record and starts a  *)
(* goroutine.  The goroutine posts the event up to MaxAttempts times and   *)
(* writes the outcome of each attempt to the record in a separate          *)
(* statement, whose failure is only logged.  An admin may replay a record  *)
(* that is in dead_letter, which starts another goroutine.  Goroutines and *)
(* the intention to emit are in memory only: nothing resumes them after a  *)
(* kill.                                                                   *)
(*                                                                         *)
(* Of a record only status and sequence_hint are kept; payload and         *)
(* signature never change, and attempt_count, last_error and updated_at    *)
(* are written along with the status and never read to decide anything.    *)
(***************************************************************************)
EXTENDS Naturals, FiniteSets

CONSTANTS
    Events,        \* committed uploads, promotions and rollbacks
    AggregateOf,   \* the aggregate_key of each event
    NUrls,         \* configured webhook URLs
    Replays,       \* replay requests
    NoDelivery,
    MaxAttempts,   \* len(backoff)
    MaxCrashes,    \* bound: kills of the process in one behaviour
    SerialReplays  \* TRUE: a replay starts only when no other is in progress

Deliveries == Events \X (1..NUrls)

ASSUME DispatcherAssumption ==
    /\ IsFiniteSet(Events)
    /\ DOMAIN AggregateOf = Events
    /\ NUrls \in Nat \ {0}
    /\ MaxAttempts \in Nat \ {0}
    /\ MaxCrashes \in Nat
    /\ SerialReplays \in BOOLEAN
    /\ Replays \cap Deliveries = {}
    /\ NoDelivery \notin Deliveries

\* A goroutine running deliver is named by the delivery Emit started it for,
\* or by the replay request that started it.
Workers == Deliveries \cup Replays

VARIABLES
    status,      \* status[d]: of the record of d; "absent" when it has none
    hint,        \* hint[d]: its sequence_hint
    epc,         \* epc[e]: where the handler of event e is
    next,        \* next[e]: the URL Emit handles next
    wpc,         \* wpc[w]: where goroutine w is
    attempt,     \* attempt[w]: posts it has made
    acked,       \* history: goroutines whose post was answered 2xx
    rpc,         \* rpc[r]: where replay request r is
    target,      \* target[r]: the delivery it replays
    crashes,     \* kills so far
    unwritten,   \* history: deliveries whose record, final status or reset
                 \* could not be written
    killed       \* history: deliveries whose handler or goroutine was killed

records == <<status, hint>>
emitVars == <<epc, next>>
workVars == <<wpc, attempt, acked>>
replayVars == <<rpc, target>>
vars == <<status, hint, epc, next, wpc, attempt, acked, rpc, target, crashes,
          unwritten, killed>>

Job(w) == IF w \in Replays THEN target[w] ELSE w
Live(w) == wpc[w] \in {"posting", "ok", "err", "exhausted"}
Final == {"delivered", "dead_letter"}

TypeOK ==
    /\ status \in [Deliveries -> {"absent", "pending", "failed"} \cup Final]
    /\ hint \in [Deliveries -> 0..Cardinality(Deliveries)]
    /\ epc \in [Events -> {"idle", "emitting", "done", "dead"}]
    /\ next \in [Events -> 1..(NUrls + 1)]
    /\ wpc \in [Workers -> {"none", "posting", "ok", "err", "exhausted",
                            "done", "dead"}]
    /\ attempt \in [Workers -> 0..MaxAttempts]
    /\ acked \subseteq Workers
    /\ rpc \in [Replays -> {"idle", "checked", "accepted", "notfound",
                            "conflict", "error", "dead"}]
    /\ target \in [Replays -> Deliveries \cup {NoDelivery}]
    /\ crashes \in 0..MaxCrashes
    /\ unwritten \subseteq Deliveries
    /\ killed \subseteq Deliveries

Init ==
    /\ status = [d \in Deliveries |-> "absent"]
    /\ hint = [d \in Deliveries |-> 0]
    /\ epc = [e \in Events |-> "idle"]
    /\ next = [e \in Events |-> 1]
    /\ wpc = [w \in Workers |-> "none"]
    /\ attempt = [w \in Workers |-> 0]
    /\ acked = {}
    /\ rpc = [r \in Replays |-> "idle"]
    /\ target = [r \in Replays |-> NoDelivery]
    /\ crashes = 0
    /\ unwritten = {}
    /\ killed = {}

-----------------------------------------------------------------------------
(***************************************************************************)
(* Emit.                                                                   *)
(***************************************************************************)

\* The change is committed; its handler goes on to call Emit.
Commit(e) ==
    /\ epc[e] = "idle"
    /\ epc' = [epc EXCEPT ![e] = "emitting"]
    /\ UNCHANGED <<records, next, workVars, replayVars, crashes, unwritten,
                   killed>>

\* The deliveries of d's aggregate that have a record.
Siblings(d) == {x \in Deliveries : /\ status[x] # "absent"
                                   /\ AggregateOf[x[1]] = AggregateOf[d[1]]}

\* Seeded fault: the hint numbers the URLs of one Emit.
LoopIndexHint(d) == d[2]

\* COALESCE(MAX(sequence_hint), 0) + 1 over the aggregate.
NextHint(d) ==
    CHOOSE n \in 1..(Cardinality(Deliveries) + 1) :
        /\ \A x \in Siblings(d) : hint[x] < n
        /\ n = 1 \/ \E x \in Siblings(d) : hint[x] = n - 1

\* INSERT of a pending record.
CreateDelivery(d) ==
    /\ status' = [status EXCEPT ![d] = "pending"]
    /\ hint' = [hint EXCEPT ![d] = NextHint(d)]

Spawn(w) ==
    /\ wpc' = [wpc EXCEPT ![w] = "posting"]
    /\ UNCHANGED <<attempt, acked>>

\* Seeded fault: without a record there is no delivery.
EmitOnlyRecorded(e) ==
    LET d == <<e, next[e]>> IN
    /\ epc[e] = "emitting" /\ next[e] <= NUrls
    /\ \/ CreateDelivery(d) /\ Spawn(d) /\ UNCHANGED unwritten
       \/ /\ unwritten' = unwritten \cup {d}
          /\ UNCHANGED <<records, workVars>>
    /\ next' = [next EXCEPT ![e] = @ + 1]
    /\ UNCHANGED <<epc, replayVars, crashes, killed>>

\* One turn of Emit's loop: the insert, whose failure is logged, and the
\* goroutine.
EmitTo(e) ==
    LET d == <<e, next[e]>> IN
    /\ epc[e] = "emitting" /\ next[e] <= NUrls
    /\ \/ CreateDelivery(d) /\ UNCHANGED unwritten
       \/ unwritten' = unwritten \cup {d} /\ UNCHANGED records
    /\ Spawn(d)
    /\ next' = [next EXCEPT ![e] = @ + 1]
    /\ UNCHANGED <<epc, replayVars, crashes, killed>>

\* Emit returns and the handler answers.
EmitReturns(e) ==
    /\ epc[e] = "emitting" /\ next[e] > NUrls
    /\ epc' = [epc EXCEPT ![e] = "done"]
    /\ UNCHANGED <<records, next, workVars, replayVars, crashes, unwritten,
                   killed>>

-----------------------------------------------------------------------------
(***************************************************************************)
(* deliver.                                                                *)
(***************************************************************************)

\* UpdateDelivery; a record that does not exist is not an error.
UpdateDelivery(d, s) ==
    status' = [status EXCEPT ![d] = IF @ = "absent" THEN @ ELSE s]

\* Seeded fault: a response is a success whatever its status code.
PostTrusting(w) ==
    /\ wpc[w] = "posting"
    /\ attempt' = [attempt EXCEPT ![w] = @ + 1]
    /\ wpc' = [wpc EXCEPT ![w] = "ok"]
    /\ \/ acked' = acked \cup {w}
       \/ UNCHANGED acked
    /\ UNCHANGED <<records, emitVars, replayVars, crashes, unwritten, killed>>

\* The post is answered 2xx, or fails: refused, timed out (the endpoint may
\* have taken it all the same) or answered otherwise.
Post(w) ==
    /\ wpc[w] = "posting"
    /\ attempt' = [attempt EXCEPT ![w] = @ + 1]
    /\ \/ /\ wpc' = [wpc EXCEPT ![w] = "ok"]
          /\ acked' = acked \cup {w}
       \/ /\ wpc' = [wpc EXCEPT ![w] = "err"]
          /\ UNCHANGED acked
    /\ UNCHANGED <<records, emitVars, replayVars, crashes, unwritten, killed>>

\* persistStatus of a final status, and the goroutine ends.
Finish(w, s) ==
    /\ wpc' = [wpc EXCEPT ![w] = "done"]
    /\ \/ UpdateDelivery(Job(w), s) /\ UNCHANGED unwritten
       \/ unwritten' = unwritten \cup {Job(w)} /\ UNCHANGED status
    /\ UNCHANGED <<hint, emitVars, attempt, acked, replayVars, crashes, killed>>

RecordDelivered(w) == wpc[w] = "ok" /\ Finish(w, "delivered")

\* Seeded faults: the loop ends one attempt early, or one late, or does not
\* end in dead_letter.
RecordFailedEarly(w) ==
    /\ wpc[w] = "err"
    /\ wpc' = [wpc EXCEPT ![w] =
                 IF attempt[w] + 1 < MaxAttempts THEN "posting" ELSE "exhausted"]
    /\ UpdateDelivery(Job(w), "failed")
    /\ UNCHANGED <<hint, emitVars, attempt, acked, replayVars, crashes,
                   unwritten, killed>>
RecordFailedLate(w) ==
    /\ wpc[w] = "err"
    /\ wpc' = [wpc EXCEPT ![w] =
                 IF attempt[w] <= MaxAttempts THEN "posting" ELSE "exhausted"]
    /\ UpdateDelivery(Job(w), "failed")
    /\ UNCHANGED <<hint, emitVars, attempt, acked, replayVars, crashes,
                   unwritten, killed>>
RecordFailedLast(w) ==
    /\ wpc[w] = "err"
    /\ wpc' = [wpc EXCEPT ![w] =
                 IF attempt[w] < MaxAttempts THEN "posting" ELSE "done"]
    /\ UpdateDelivery(Job(w), "failed")
    /\ UNCHANGED <<hint, emitVars, attempt, acked, replayVars, crashes,
                   unwritten, killed>>

\* After a failed attempt: persistStatus, then the next turn of the loop, if
\* there is one.
RecordFailed(w) ==
    /\ wpc[w] = "err"
    /\ wpc' = [wpc EXCEPT ![w] =
                 IF attempt[w] < MaxAttempts THEN "posting" ELSE "exhausted"]
    /\ UpdateDelivery(Job(w), "failed") \/ UNCHANGED status
    /\ UNCHANGED <<hint, emitVars, attempt, acked, replayVars, crashes,
                   unwritten, killed>>

RecordDeadLetter(w) == wpc[w] = "exhausted" /\ Finish(w, "dead_letter")

-----------------------------------------------------------------------------
(***************************************************************************)
(* Replay.                                                                 *)
(***************************************************************************)
MayReplay(r) ==
    /\ rpc[r] = "idle"
    /\ SerialReplays => \A q \in Replays : rpc[q] # "checked"

\* Seeded fault: any record whose delivery is not pending may be replayed.
ReplayCheckLoose(r, d) ==
    /\ MayReplay(r)
    /\ target' = [target EXCEPT ![r] = d]
    /\ rpc' = [rpc EXCEPT ![r] =
                 CASE status[d] = "absent" -> "notfound"
                   [] status[d] = "pending" -> "conflict"
                   [] OTHER -> "checked"]
    /\ UNCHANGED <<records, emitVars, workVars, crashes, unwritten, killed>>

\* GetDelivery and the check of its status; the query may also fail.
ReplayCheck(r, d) ==
    /\ MayReplay(r)
    /\ target' = [target EXCEPT ![r] = d]
    /\ \/ rpc' = [rpc EXCEPT ![r] =
                    CASE status[d] = "absent" -> "notfound"
                      [] status[d] = "dead_letter" -> "checked"
                      [] OTHER -> "conflict"]
       \/ rpc' = [rpc EXCEPT ![r] = "error"]
    /\ UNCHANGED <<records, emitVars, workVars, crashes, unwritten, killed>>

\* Seeded fault: the record is reset and no goroutine starts.
ReplayResetOnly(r) ==
    /\ rpc[r] = "checked"
    /\ rpc' = [rpc EXCEPT ![r] = "accepted"]
    /\ UpdateDelivery(target[r], "pending")
    /\ UNCHANGED <<hint, emitVars, workVars, target, crashes, unwritten,
                   killed>>

\* UpdateDelivery sets the record to pending and the goroutine starts.
ReplayReset(r) ==
    /\ rpc[r] = "checked"
    /\ rpc' = [rpc EXCEPT ![r] = "accepted"]
    /\ UpdateDelivery(target[r], "pending")
    /\ Spawn(r)
    /\ UNCHANGED <<hint, emitVars, target, crashes, unwritten, killed>>

\* UpdateDelivery reports an error, so no goroutine starts; the request's
\* context may have been cancelled after the update took effect.
ReplayResetFails(r) ==
    /\ rpc[r] = "checked"
    /\ rpc' = [rpc EXCEPT ![r] = "error"]
    /\ \/ /\ UpdateDelivery(target[r], "pending")
          /\ unwritten' = unwritten \cup {target[r]}
       \/ UNCHANGED <<status, unwritten>>
    /\ UNCHANGED <<hint, emitVars, workVars, target, crashes, killed>>

-----------------------------------------------------------------------------
\* The process is killed and started again; only the records survive.
Crash ==
    /\ crashes < MaxCrashes
    /\ crashes' = crashes + 1
    /\ killed' = killed
         \cup {Job(w) : w \in {x \in Workers : Live(x)}}
         \cup {d \in Deliveries : epc[d[1]] = "emitting" /\ next[d[1]] <= d[2]}
    /\ epc' = [e \in Events |-> IF epc[e] = "emitting" THEN "dead" ELSE epc[e]]
    /\ wpc' = [w \in Workers |-> IF Live(w) THEN "dead" ELSE wpc[w]]
    /\ rpc' = [r \in Replays |-> IF rpc[r] = "checked" THEN "dead" ELSE rpc[r]]
    /\ UNCHANGED <<records, next, attempt, acked, target, unwritten>>

EmitNext(e) == EmitTo(e) \/ EmitReturns(e)
WorkNext(w) ==
    Post(w) \/ RecordDelivered(w) \/ RecordFailed(w) \/ RecordDeadLetter(w)
ReplayNext(r) ==
    \/ \E d \in Deliveries : ReplayCheck(r, d)
    \/ ReplayReset(r)
    \/ ReplayResetFails(r)

Next ==
    \/ \E e \in Events : Commit(e) \/ EmitNext(e)
    \/ \E w \in Workers : WorkNext(w)
    \/ \E r \in Replays : ReplayNext(r)
    \/ Crash

Spec == Init /\ [][Next]_vars

\* A handler that has committed and a goroutine that has started keep running
\* while the process does: post has a timeout, and the database answers.
\* Nobody has to send a request.
Fairness ==
    /\ \A e \in Events : WF_vars(EmitNext(e))
    /\ \A w \in Workers : WF_vars(WorkNext(w))

FairSpec == Spec /\ Fairness

-----------------------------------------------------------------------------
(***************************************************************************)
(* Properties.                                                             *)
(***************************************************************************)

\* A record says delivered only if some goroutine of the delivery was really
\* answered 2xx, whichever goroutines wrote the record in whichever order.
DeliveredWasAcked ==
    \A d \in Deliveries :
        status[d] = "delivered" => \E w \in acked : Job(w) = d

\* A record says dead_letter only if some goroutine of the delivery has made
\* all its attempts and none was answered 2xx.
DeadLetterExhausted ==
    \A d \in Deliveries :
        status[d] = "dead_letter" =>
            \E w \in Workers \ acked :
                Job(w) = d /\ wpc[w] \in {"done", "dead"}
                           /\ attempt[w] = MaxAttempts

\* A record that is pending or failed has a goroutine that will still finish
\* it, unless a kill or a failed write broke the delivery off.
NoSilentDrop ==
    \A d \in Deliveries :
        status[d] \in {"pending", "failed"} =>
            \/ d \in unwritten \cup killed
            \/ \E w \in Workers : Live(w) /\ Job(w) = d

\* The sequence hints of an aggregate count its records 1, 2, 3 ... without a
\* gap or a repetition, although inserts fail and handlers run concurrently.
HintsContiguous ==
    \A d \in Deliveries :
        {hint[x] : x \in Siblings(d)} = 1..Cardinality(Siblings(d))

\* Once a change is committed, every URL's delivery is attempted until it is
\* answered 2xx or the attempts run out, even when its record could not be
\* written; only a kill prevents it.
Tried(d) == \E w \in Workers : Job(w) = d /\ wpc[w] = "done"
EveryUrlTried ==
    \A d \in Deliveries :
        epc[d[1]] = "emitting" ~> Tried(d) \/ d \in killed

\* Every pending record reaches delivered or dead_letter, unless a kill or a
\* failed write broke the delivery off.
PendingSettles ==
    \A d \in Deliveries :
        status[d] = "pending" ~> status[d] \in Final \/ d \in unwritten \cup killed

\* While replays do not overlap, a delivery keeps its promise: one goroutine at
\* a time, delivered is final, dead_letter is left only for a replay, and no
\* goroutine that is still running writes over a final status.
Lifecycle == INSTANCE DeliveryLifecycle WITH
                 busy <- [d \in Deliveries |->
                            \E w \in Workers : Live(w) /\ Job(w) = d]
LifecycleSpec == Lifecycle!Spec

\* What api/openapi.yaml says of replay: only deliveries in dead_letter state
\* can be replayed.
ReplaysDeadLetter ==
    [][ \A r \in Replays :
          rpc[r] = "checked" /\ rpc'[r] = "accepted"
              => status[target[r]] = "dead_letter" ]_vars

\* What the package comment says: an event is retried before it is marked
\* dead_letter, so a record in neither final status still has a goroutine.
UnfinishedIsRetried ==
    \A d \in Deliveries :
        status[d] \in {"pending", "failed"} /\ d \notin unwritten
            => \E w \in Workers : Live(w) /\ Job(w) = d

=============================================================================
