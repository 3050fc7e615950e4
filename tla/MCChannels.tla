----------------------------- MODULE MCChannels -----------------------------
(***************************************************************************)
(* Channels on a small instance, with stamps that sort as RFC3339Nano text *)
(* does (TextOrder) or as the times themselves (TimeOrder).                *)
(***************************************************************************)
EXTENDS HistoryOrder, TLC

TimeOrder == [t \in Times |-> t]

\* Requests differ only by name, and so do versions.
Symmetry == Permutations(Requests) \cup Permutations(Versions)
=============================================================================
