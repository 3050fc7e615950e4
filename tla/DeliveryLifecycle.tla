------------------------- MODULE DeliveryLifecycle -------------------------
(***************************************************************************)
(* What a delivery promises: at any moment one goroutine at most works on  *)
(* it, its record ends in delivered or in dead_letter, delivered is never  *)
(* left again, and dead_letter only for a replay.  A delivery may also be  *)
(* given up half-way, by a kill or because its outcome cannot be written.  *)
(***************************************************************************)
CONSTANTS Deliveries

VARIABLES
    status,   \* status[d]: of its record; "absent" when it has none
    busy      \* busy[d]: a goroutine works on d

lifecycle == <<status, busy>>

Init ==
    /\ status = [d \in Deliveries |-> "absent"]
    /\ busy = [d \in Deliveries |-> FALSE]

Become(d, s, b) ==
    /\ status' = [status EXCEPT ![d] = s]
    /\ busy' = [busy EXCEPT ![d] = b]

\* The record is written, or is not, and the goroutine starts.
Start(d) ==
    /\ status[d] = "absent" /\ ~busy[d]
    /\ \E s \in {"absent", "pending"} : Become(d, s, TRUE)

Fail(d) ==
    /\ busy[d] /\ status[d] = "pending"
    /\ Become(d, "failed", TRUE)

Settle(d) ==
    /\ busy[d] /\ status[d] \in {"pending", "failed"}
    /\ \E s \in {"delivered", "dead_letter"} : Become(d, s, FALSE)

\* The goroutine ends and its outcome is not recorded.
GiveUp(d) ==
    /\ busy[d]
    /\ Become(d, status[d], FALSE)

\* A replay; the goroutine starts unless the reset is reported as failed.
Revive(d) ==
    /\ status[d] = "dead_letter" /\ ~busy[d]
    /\ \E b \in BOOLEAN : Become(d, "pending", b)

Kill ==
    /\ busy' = [d \in Deliveries |-> FALSE]
    /\ UNCHANGED status

Next ==
    \/ \E d \in Deliveries :
          Start(d) \/ Fail(d) \/ Settle(d) \/ GiveUp(d) \/ Revive(d)
    \/ Kill

Spec == Init /\ [][Next]_lifecycle
=============================================================================
