----------------------------- MODULE MCService -----------------------------
(***************************************************************************)
(* Service on a small instance.                                            *)
(*                                                                         *)
(* The keys stand in the three lists in every combination: "a" in none,    *)
(* then admin alone, write alone, and so on; blanks surround some of them, *)
(* and some lists have empty items.  In the second environment the keys of *)
(* the admin list have moved to the read list.                             *)
(***************************************************************************)
EXTENDS Service, TLC

KeySet == {"none", "a", "w", "r", "aw", "ar", "wr", "awr"}
TextSet == KeySet \cup {"", " ", " a ", " r"}
TrimMap == [t \in TextSet |->
              CASE t \in {"", " "} -> ""
                [] t = " a " -> "a"
                [] t = " r" -> "r"
                [] OTHER -> t]

Before == [admin |-> {" a ", "aw", "ar", "awr"}, write |-> {"w", "aw", "wr", "awr", " "},
           read |-> {" r", "r", "ar", "wr", "awr"}, authDisabled |-> FALSE]
Rotated == [admin |-> {""}, write |-> {"w", "wr", "aw"},
            read |-> {"r", "a", "ar", "wr"}, authDisabled |-> FALSE]
Open == [admin |-> {""}, write |-> {""}, read |-> {""}, authDisabled |-> TRUE]
EnvSet == {Before, Rotated, Open}

Bearer(t) == [bearer |-> TRUE, text |-> t]
HeaderMap == [r \in Requests |-> Bearer(" a ")]
WriterHeader == Bearer("w")

\* Requests differ only by name, and so do pairs.
Symmetry == Permutations(Requests) \cup Permutations(Channels)
=============================================================================
