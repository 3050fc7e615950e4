------------------------------- MODULE Access -------------------------------
(***************************************************************************)
(* Who may call what.                                                      *)
(*                                                                         *)
(* When the process starts, config.Load reads three lists of API keys from *)
(* the environment and builds the key store: the admin entries, then the   *)
(* write entries, then the read entries.  Each route requires a scope, and *)
(* requireScope looks for the first entry with the key of the request's    *)
(* Authorization header.  The environment is read only at the start.       *)
(*                                                                         *)
(* The entries made from one list stand together and carry the same        *)
(* scopes, so their order is left out: the store is a sequence of three    *)
(* blocks of entries.                                                      *)
(***************************************************************************)
EXTENDS Naturals

CONSTANTS
    Texts,   \* what stands between the commas of a list, or in a header
    Keys,    \* API keys
    NoKey,   \* the empty string
    Trim,    \* what strings.TrimSpace makes of a text
    Envs     \* environments the process may be started in

Scopes == {"read", "write", "admin"}

\* ARS_ADMIN_KEYS, ARS_WRITE_KEYS and ARS_READ_KEYS split at the commas; a
\* variable that is not set is split into one empty text.
Environment == [admin : SUBSET Texts, write : SUBSET Texts,
                read : SUBSET Texts, authDisabled : BOOLEAN]

\* An Authorization header: whether it begins with "Bearer ", and the rest.
Headers == [bearer : BOOLEAN, text : Texts]

ASSUME AccessAssumption ==
    /\ NoKey \notin Keys
    /\ Trim \in [Texts -> Keys \cup {NoKey}]
    /\ Envs \subseteq Environment

VARIABLE env   \* the environment the running process was started in

-----------------------------------------------------------------------------
(***************************************************************************)
(* config: building the store.                                             *)
(***************************************************************************)

\* Seeded fault: empty items are kept.
SplitKeysAll(list) == {Trim[t] : t \in list}

splitKeys(list) == {Trim[t] : t \in list} \ {NoKey}

\* Seeded fault: the weakest list comes first.
LoadKeysReadFirst(e) ==
    << [keys |-> splitKeys(e.read), scopes |-> {"read"}],
       [keys |-> splitKeys(e.write), scopes |-> {"write", "read"}],
       [keys |-> splitKeys(e.admin), scopes |-> Scopes] >>

loadKeys(e) ==
    << [keys |-> splitKeys(e.admin), scopes |-> Scopes],
       [keys |-> splitKeys(e.write), scopes |-> {"write", "read"}],
       [keys |-> splitKeys(e.read), scopes |-> {"read"}] >>

Store(e) == [keys |-> loadKeys(e), enabled |-> ~e.authDisabled]

(***************************************************************************)
(* auth.Store and requireScope.                                            *)
(***************************************************************************)

\* One of the scopes of an entry covers the required one.
Covers(scopes, required) ==
    \/ required \in scopes
    \/ "admin" \in scopes
    \/ required = "read" /\ "write" \in scopes

\* Only the first entry with the key counts.
Allowed(store, key, required) ==
    \/ ~store.enabled
    \/ /\ key # NoKey
       /\ \E i \in DOMAIN store.keys :
            /\ key \in store.keys[i].keys
            /\ \A j \in 1..(i - 1) : key \notin store.keys[j].keys
            /\ Covers(store.keys[i].scopes, required)

Authenticated(store, key) ==
    \/ ~store.enabled
    \/ \E i \in DOMAIN store.keys : key \in store.keys[i].keys

extractBearer(h) == IF h.bearer THEN Trim[h.text] ELSE NoKey

\* The request goes on to its handler, or ends with the status given.
requireScope(store, scope, h) ==
    LET key == extractBearer(h) IN
    IF Allowed(store, key, scope) THEN "handler"
    ELSE IF store.enabled /\ ~Authenticated(store, key) THEN "401" ELSE "403"

\* The scope each route requires; /health requires none.
ScopeOf ==
    [upload |-> "write", versions |-> "read", latest |-> "read",
     version |-> "read", download |-> "read", promote |-> "admin",
     rollback |-> "admin", state |-> "read", history |-> "read",
     replay |-> "admin"]

\* The request with header h may go on to the handler of the route.
Passes(route, h) == requireScope(Store(env), ScopeOf[route], h) = "handler"

-----------------------------------------------------------------------------
AccessInit == env \in Envs

\* The process is started again, in an environment that may have changed.
Restart == env' \in Envs

AccessSpec == AccessInit /\ [][Restart]_env

-----------------------------------------------------------------------------
(***************************************************************************)
(* Properties.                                                             *)
(***************************************************************************)

\* The keys an operator has put into a list.
Listed(list) == {k \in Keys : \E t \in list : Trim[t] = k}

\* Scopes are additive, as the package comment of auth says, even for a key
\* that stands in several lists: only its first entry counts, and that is its
\* strongest.  A key passes exactly the routes that the union of its lists
\* covers, and so a key that may write may read.
Additive(e) ==
    \A h \in Headers, s \in Scopes :
        requireScope(Store(e), s, h) = "handler" <=>
            LET k == extractBearer(h) IN
            \/ e.authDisabled
            \/ k \in Listed(e.admin)
            \/ k \in Listed(e.write) /\ s \in {"write", "read"}
            \/ k \in Listed(e.read) /\ s = "read"
AdditiveEnvs == {e \in Envs : Additive(e)}
ScopesAreAdditive == env \in AdditiveEnvs

\* 401 says that the key stands in no list, 403 that it does and is too weak:
\* the two never change places, whatever blanks and empty items the lists or
\* the header hold.
TellsWhy(e) ==
    \A h \in Headers, s \in Scopes :
        LET k == extractBearer(h)
            known == k \in Listed(e.admin) \cup Listed(e.write) \cup Listed(e.read)
            answer == requireScope(Store(e), s, h)
        IN  /\ answer = "401" => ~known
            /\ answer = "403" => known
TellingEnvs == {e \in Envs : TellsWhy(e)}
RefusalTellsWhy == env \in TellingEnvs
=============================================================================
