---------------------------- MODULE ChannelSwap ----------------------------
(***************************************************************************)
(* What a channel promises its users: a pointer to a version with one      *)
(* level of rollback.  Promoting moves the pointer and remembers the       *)
(* version left behind; rolling back swaps the two, so that rolling back   *)
(* twice returns to the version one started from.                          *)
(***************************************************************************)
CONSTANTS Channels, Versions, NoVersion

VARIABLES
    current,    \* current[c]: the version channel c points to
    previous,   \* previous[c]: the version it pointed to before
    lastOp      \* lastOp[c]: what last moved the pointer

vars == <<current, previous, lastOp>>

Init ==
    /\ current = [c \in Channels |-> NoVersion]
    /\ previous = [c \in Channels |-> NoVersion]
    /\ lastOp = [c \in Channels |-> "none"]

Move(c, v, op) ==
    /\ current' = [current EXCEPT ![c] = v]
    /\ previous' = [previous EXCEPT ![c] = current[c]]
    /\ lastOp' = [lastOp EXCEPT ![c] = op]

Promote(c, v) == Move(c, v, "promote")

Rollback(c) ==
    /\ previous[c] # NoVersion
    /\ Move(c, previous[c], "rollback")

Next ==
    \E c \in Channels : Rollback(c) \/ \E v \in Versions : Promote(c, v)

Spec == Init /\ [][Next]_vars
=============================================================================
