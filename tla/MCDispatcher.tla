---------------------------- MODULE MCDispatcher ----------------------------
(***************************************************************************)
(* Dispatcher on a small instance.                                         *)
(***************************************************************************)
EXTENDS Dispatcher, TLC

\* Every event of an aggregate of its own, as artifact uploads are, or all of
\* one aggregate, as the promotions of a channel are.
OwnAggregate == [e \in Events |-> e]
OneAggregate == [e \in Events |-> "channel"]

\* Requests differ only by name, and so do the events of one aggregate.
Symmetry == Permutations(Replays) \cup Permutations(Events)
=============================================================================
