---------------------------- MODULE AccessProof ----------------------------
(***************************************************************************)
(* For every set of keys and every environment the process may be started  *)
(* in, scopes are additive and a refusal tells why.                        *)
(***************************************************************************)
EXTENDS Access, TLAPS

\* splitKeys makes of a list the keys an operator has put into it: no blank
\* around a key counts, and no empty item becomes a key.
LEMMA SplitKeysLists ==
    ASSUME NEW list \in SUBSET Texts
    PROVE  splitKeys(list) = Listed(list)
BY AccessAssumption DEF splitKeys, Listed

\* The three blocks of the store, one by one.
LEMMA BlocksOfStore ==
    ASSUME NEW e \in Environment
    PROVE  /\ DOMAIN Store(e).keys = 1..3
           /\ Store(e).keys[1].keys = Listed(e.admin)
           /\ Store(e).keys[2].keys = Listed(e.write)
           /\ Store(e).keys[3].keys = Listed(e.read)
           /\ Store(e).keys[1].scopes = Scopes
           /\ Store(e).keys[2].scopes = {"write", "read"}
           /\ Store(e).keys[3].scopes = {"read"}
           /\ Store(e).enabled = ~e.authDisabled
<1>1. /\ e.admin \in SUBSET Texts
      /\ e.write \in SUBSET Texts
      /\ e.read \in SUBSET Texts
  BY DEF Environment
<1>2. /\ splitKeys(e.admin) = Listed(e.admin)
      /\ splitKeys(e.write) = Listed(e.write)
      /\ splitKeys(e.read) = Listed(e.read)
  BY <1>1, SplitKeysLists
<1>3. QED
  BY <1>2 DEF Store, loadKeys

\* What the loop over the entries decides, although it stops at the first
\* entry with the key: an earlier block covers what a later one does.
LEMMA AllowedByStrongest ==
    ASSUME NEW e \in Environment, NEW k, NEW s \in Scopes
    PROVE  Allowed(Store(e), k, s) <=>
             \/ e.authDisabled
             \/ k \in Listed(e.admin)
             \/ k \in Listed(e.write) /\ s \in {"write", "read"}
             \/ k \in Listed(e.read) /\ s = "read"
<1> DEFINE st == Store(e)
           first(i) == /\ k \in st.keys[i].keys
                       /\ \A j \in 1..(i - 1) : k \notin st.keys[j].keys
<1>1. Allowed(st, k, s) <=>
        \/ e.authDisabled
        \/ k # NoKey /\ \E i \in 1..3 : first(i) /\ Covers(st.keys[i].scopes, s)
  BY BlocksOfStore DEF Allowed
<1>2. k \in Listed(e.admin) \cup Listed(e.write) \cup Listed(e.read) => k # NoKey
  BY AccessAssumption DEF Listed
<1>3. /\ Covers(Scopes, s)
      /\ Covers({"write", "read"}, s) <=> s \in {"write", "read"}
      /\ Covers({"read"}, s) <=> s = "read"
  BY DEF Covers, Scopes
<1>4. /\ first(1) <=> k \in Listed(e.admin)
      /\ first(2) <=> k \in Listed(e.write) /\ k \notin Listed(e.admin)
      /\ first(3) <=> /\ k \in Listed(e.read)
                      /\ k \notin Listed(e.write) /\ k \notin Listed(e.admin)
  <2>1. /\ st.keys[1].keys = Listed(e.admin)
        /\ st.keys[2].keys = Listed(e.write)
        /\ st.keys[3].keys = Listed(e.read)
    BY BlocksOfStore
  <2>2. \A j : (j \in 1..0 <=> FALSE) /\ (j \in 1..1 <=> j = 1)
               /\ (j \in 1..2 <=> j = 1 \/ j = 2)
    OBVIOUS
  <2>3. QED
    BY <2>1, <2>2
<1>5. (\E i \in 1..3 : first(i) /\ Covers(st.keys[i].scopes, s)) <=>
        \/ first(1)
        \/ first(2) /\ s \in {"write", "read"}
        \/ first(3) /\ s = "read"
  <2>1. /\ Covers(st.keys[1].scopes, s)
        /\ Covers(st.keys[2].scopes, s) <=> s \in {"write", "read"}
        /\ Covers(st.keys[3].scopes, s) <=> s = "read"
    BY BlocksOfStore, <1>3
  <2>2. \A i : i \in 1..3 <=> i = 1 \/ i = 2 \/ i = 3
    OBVIOUS
  <2> HIDE DEF first, st
  <2>3. QED
    BY <2>1, <2>2
<1> HIDE DEF first, st
<1>6. QED
  BY <1>1, <1>2, <1>4, <1>5 DEF st

\* Every environment treats scopes additively.
LEMMA AdditiveEverywhere ==
    ASSUME NEW e \in Environment
    PROVE  Additive(e)
<1> SUFFICES ASSUME NEW h \in Headers, NEW s \in Scopes
             PROVE  requireScope(Store(e), s, h) = "handler" <=>
                      Allowed(Store(e), extractBearer(h), s)
  BY AllowedByStrongest DEF Additive
<1> QED
  BY DEF requireScope

\* Authenticated asks whether the key stands in some list.
LEMMA AuthenticatedIsListed ==
    ASSUME NEW e \in Environment, NEW k
    PROVE  Authenticated(Store(e), k) <=>
             e.authDisabled \/ k \in Listed(e.admin) \cup Listed(e.write) \cup Listed(e.read)
<1>1. \A i : i \in 1..3 <=> i = 1 \/ i = 2 \/ i = 3
  OBVIOUS
<1>2. /\ DOMAIN Store(e).keys = 1..3
      /\ Store(e).keys[1].keys = Listed(e.admin)
      /\ Store(e).keys[2].keys = Listed(e.write)
      /\ Store(e).keys[3].keys = Listed(e.read)
      /\ Store(e).enabled <=> ~e.authDisabled
  BY BlocksOfStore
<1>3. QED
  BY <1>1, <1>2 DEF Authenticated

\* Every environment tells 401 from 403.
LEMMA TellsWhyEverywhere ==
    ASSUME NEW e \in Environment
    PROVE  TellsWhy(e)
<1> SUFFICES ASSUME NEW h \in Headers, NEW s \in Scopes
             PROVE  LET k == extractBearer(h)
                        known == k \in Listed(e.admin) \cup Listed(e.write)
                                         \cup Listed(e.read)
                        answer == requireScope(Store(e), s, h)
                    IN  (answer = "401" => ~known) /\ (answer = "403" => known)
  BY DEF TellsWhy
<1>1. Store(e).enabled <=> ~e.authDisabled
  BY BlocksOfStore
<1>2. e.authDisabled => Allowed(Store(e), extractBearer(h), s)
  BY AllowedByStrongest
<1>3. QED
  BY <1>1, <1>2, AuthenticatedIsListed DEF requireScope

\* The process always runs in one of its environments.
LEMMA EnvIsOne == AccessSpec => [](env \in Envs)
<1>1. AccessInit => env \in Envs
  BY DEF AccessInit
<1>2. env \in Envs /\ [Restart]_env => (env \in Envs)'
  BY DEF Restart
<1>3. QED
  BY <1>1, <1>2, PTL DEF AccessSpec

\* Whatever keys are listed where, a request passes exactly the routes that
\* the union of the lists of its key covers.
THEOREM ScopesAdd == AccessSpec => []ScopesAreAdditive
<1>1. env \in Envs => ScopesAreAdditive
  BY AccessAssumption, AdditiveEverywhere DEF ScopesAreAdditive, AdditiveEnvs
<1>2. QED
  BY <1>1, EnvIsOne, PTL

\* 401 means that the key stands in no list, 403 that it is too weak.
THEOREM RefusalsTell == AccessSpec => []RefusalTellsWhy
<1>1. env \in Envs => RefusalTellsWhy
  BY AccessAssumption, TellsWhyEverywhere DEF RefusalTellsWhy, TellingEnvs
<1>2. QED
  BY <1>1, EnvIsOne, PTL
=============================================================================
