---------------------------- MODULE MCArtifacts ----------------------------
(***************************************************************************)
(* Artifacts on a small instance: two uploads that race for one version,   *)
(* one of another version, and a download.                                 *)
(***************************************************************************)
EXTENDS Artifacts, TLC

CONSTANTS u1, u2, u3, k1, k2, c1, c2

MCKeyOf == [u \in Uploads |-> IF u = u3 THEN k2 ELSE k1]
MCContentOf == [u \in Uploads |-> IF u = u2 THEN c2 ELSE c1]

\* Clock readings are only compared for equality.
Symmetry == Permutations(Times)
============================================================================
