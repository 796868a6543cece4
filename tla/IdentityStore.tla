---------------------------- MODULE IdentityStore ----------------------------
(***************************************************************************)
(* collector_pool.sqlite3 (src/collector/store.py): identities, their      *)
(* sealed credentials, policies and bindings, the routes that edit them,   *)
(* and the start of the server, which makes identities of the settings of  *)
(* older versions (_initialize_legacy_collectors of main_server.py) and    *)
(* may do so without the key of the vault, or with another one.            *)
(*                                                                         *)
(* A transaction of the store is a step; where a route waits between two,  *)
(* and where a start can be killed, there are several.                     *)
(***************************************************************************)
EXTENDS FiniteSets, Sequences

CONSTANTS Added,      \* identities the user creates
          Edited,     \* those of them, and of the legacy ones, that are edited
          Keys,       \* FETCHSHELF_IDENTITY_KEY: what it has been
          NoKey,      \* the vault is locked
          Absent      \* no row, no envelope, no reference

ASSUME StoreAssumption ==
    /\ NoKey \notin Keys /\ "ld" \notin Added /\ "lt" \notin Added
    /\ Edited \subseteq Added \cup {"ld", "lt"}

Platforms == {"douyin", "tiktok"}
Legacy == [p \in Platforms |-> IF p = "douyin" THEN "ld" ELSE "lt"]   \* "legacy-douyin", ...
Stored == Added \cup {"ld", "lt"}
Fields == {"cookie", "proxy"}
Credentials == SUBSET Fields     \* the fields that are set
Old == {"cookie"}                \* what settings.json has for each platform

VARIABLES
    identity,   \* collector_identities: the platform, and the *_configured flags
    envelope,   \* collector_secrets
    default,    \* collector_policies: the default identity, Absent without a row
    bound,      \* collector_assignments: the identity of a target of a platform
    key,        \* the key the server started with
    start,      \* how far _initialize_legacy_collectors is, "up" behind it
    editing,    \* the row that was read by an update that waits for the leases
    given,      \* history: the credentials an identity was given
    emptied     \* history: the user deleted the last identity, and made none since

storeVars == <<identity, envelope, default, bound, key, start, editing, given, emptied>>

IdentityRows == [platform : Platforms, flags : Credentials]
Envelopes == [key : Keys, holds : Credentials \ {{}}]
ASSUME AbsentAssumption == Absent \notin IdentityRows \cup Envelopes

\* The steps of a start; "id", "policy": what is to be written next.
Starts == {"down", "first", "id douyin", "id tiktok", "policy douyin", "policy tiktok",
           "secrets", "up"}

StoreTypeOK ==
    /\ identity \in [Stored -> IdentityRows \cup {Absent}]
    /\ envelope \in [Stored -> Envelopes \cup {Absent}]
    /\ default \in [Platforms -> Stored \cup {Absent}]
    /\ bound \in [Platforms -> Stored \cup {Absent}]
    /\ key \in Keys \cup {NoKey} /\ start \in Starts
    /\ editing \in [id : Edited, platform : Platforms] \cup {Absent}
    /\ given \in [Stored -> Credentials] /\ emptied \in BOOLEAN

StoreInit ==
    /\ identity = [i \in Stored |-> Absent] /\ envelope = [i \in Stored |-> Absent]
    /\ default = [p \in Platforms |-> Absent] /\ bound = [p \in Platforms |-> Absent]
    /\ key = NoKey /\ start = "down" /\ editing = Absent
    /\ given = [i \in Stored |-> {}] /\ emptied = FALSE

Exists(i) == identity[i] # Absent

-----------------------------------------------------------------------------
(* The transactions *)

\* _upsert_identity_locked: the platform of a row never changes.
Upserted(i, p) == [identity EXCEPT ![i] = IF @ = Absent THEN [platform |-> p, flags |-> {}] ELSE @]

\* Mutant: the flags are those of an earlier envelope.
SealOnly(i, c) ==
    /\ envelope' = [envelope EXCEPT ![i] = IF c = {} THEN Absent ELSE [key |-> key, holds |-> c]]
    /\ identity' = IF envelope[i] # Absent THEN identity ELSE [identity EXCEPT ![i].flags = c]

\* Mutant: empty credentials are sealed, too.
SealEmpty(i, c) ==
    /\ envelope' = [envelope EXCEPT ![i] = [key |-> key, holds |-> c]]
    /\ identity' = [identity EXCEPT ![i].flags = c]

\* _write_credentials_locked or _clear_credentials_locked: two tables.
Seal(i, c) ==
    /\ envelope' = [envelope EXCEPT ![i] = IF c = {} THEN Absent ELSE [key |-> key, holds |-> c]]
    /\ identity' = [identity EXCEPT ![i].flags = c]

Opens(i) == envelope[i] # Absent => envelope[i].key = key

-----------------------------------------------------------------------------
(* The start *)

Started(next) == start' = next /\ UNCHANGED <<default, bound, key, editing, emptied>>

\* The key is what the environment has now.
ServerStart ==
    /\ start = "down"
    /\ key' \in Keys \cup {NoKey} /\ start' = "first"
    /\ UNCHANGED <<identity, envelope, default, bound, editing, given, emptied>>

\* Only a pool without any identity is filled.  settings.json never holds
\* the marker migrate_legacy_settings looks for.
LooksForIdentities ==
    /\ start = "first"
    /\ Started(IF \E i \in Stored : Exists(i) THEN "secrets"
               ELSE "id douyin")
    /\ UNCHANGED <<identity, envelope, given>>

WritesIdentity ==
    /\ \/ /\ start = "id douyin" /\ Started("id tiktok")
          /\ identity' = Upserted("ld", "douyin")
       \/ /\ start = "id tiktok" /\ Started("policy douyin")
          /\ identity' = Upserted("lt", "tiktok")
    /\ UNCHANGED <<envelope, given>>

WritesPolicy ==
    /\ \/ /\ start = "policy douyin" /\ start' = "policy tiktok"
          /\ default' = [default EXCEPT !["douyin"] = "ld"]
       \/ /\ start = "policy tiktok" /\ start' = "secrets"
          /\ default' = [default EXCEPT !["tiktok"] = "lt"]
    /\ UNCHANGED <<identity, envelope, bound, key, editing, given, emptied>>

\* The old cookie goes to an identity that has no credentials, also to one
\* whose credentials the user cleared.
WritesSecret ==
    /\ start = "secrets" /\ key # NoKey
    /\ \E i \in {"ld", "lt"} :
          /\ Exists(i) /\ identity[i].flags = {}
          /\ Seal(i, Old) /\ given' = [given EXCEPT ![i] = Old]
    /\ UNCHANGED <<default, bound, key, start, editing, emptied>>

ServerUp ==
    /\ start = "secrets"
    /\ key = NoKey \/ \A i \in {"ld", "lt"} : Exists(i) => identity[i].flags # {}
    /\ Started("up") /\ UNCHANGED <<identity, envelope, given>>

ServerKilled ==
    /\ start # "down"
    /\ start' = "down" /\ editing' = Absent
    /\ UNCHANGED <<identity, envelope, default, bound, key, given, emptied>>

-----------------------------------------------------------------------------
(* The routes *)

\* save_identity; the request names the id, which may be a legacy one.
CreateIdentity ==
    /\ start = "up"
    /\ \E i \in Stored, p \in Platforms :
          /\ (Exists(i) => identity[i].platform = p)     \* else 409
          /\ (i \notin Added => Legacy[p] = i)
          /\ identity' = Upserted(i, p) /\ emptied' = FALSE
    /\ UNCHANGED <<envelope, default, bound, key, start, editing, given>>

\* PATCH reads the identity, waits for leases.configure and saves it.
BeginsUpdate ==
    /\ start = "up" /\ editing = Absent
    /\ \E i \in Edited :
          Exists(i) /\ editing' = [id |-> i, platform |-> identity[i].platform]
    /\ UNCHANGED <<identity, envelope, default, bound, key, start, given, emptied>>

\* An identity that was deleted meanwhile is inserted again, without its
\* credentials.
SavesUpdate ==
    /\ start = "up" /\ editing # Absent
    /\ LET i == editing.id
           refused == Exists(i) /\ identity[i].platform # editing.platform     \* 409
       IN  identity' = IF refused THEN identity ELSE Upserted(i, editing.platform)
    /\ editing' = Absent /\ emptied' = FALSE
    /\ UNCHANGED <<envelope, default, bound, key, start, given>>

\* Mutant: only the bindings are looked at.
UnreferencedByBindings(i) == \A p \in Platforms : bound[p] # i

Unreferenced(i) == \A p \in Platforms : bound[p] # i /\ default[p] # i

\* Its envelope goes with it (ON DELETE CASCADE).
DeleteIdentity ==
    /\ start = "up"
    /\ \E i \in Stored :
          /\ Exists(i) /\ Unreferenced(i)
          /\ identity' = [identity EXCEPT ![i] = Absent]
          /\ envelope' = [envelope EXCEPT ![i] = Absent]
          /\ given' = [given EXCEPT ![i] = {}]
          /\ emptied' = (\A j \in Stored \ {i} : ~Exists(j))
    /\ UNCHANGED <<default, bound, key, start, editing>>

\* Mutant: what cannot be opened counts as empty.
HeldOrEmpty(i) == IF envelope[i] # Absent /\ envelope[i].key = key THEN envelope[i].holds ELSE {}

\* load_credentials
Held(i) == IF envelope[i] = Absent THEN {} ELSE envelope[i].holds

\* PUT: the fields of the body replace those fields; what cannot be opened
\* or sealed is an error.
PutCredentials ==
    /\ start = "up"
    /\ \E i \in Stored, named \in SUBSET Fields, set \in Credentials :
          /\ Exists(i) /\ set \subseteq named
          /\ Opens(i)
          /\ (key = NoKey => (Held(i) \ named) \cup set = {})
          /\ Seal(i, (Held(i) \ named) \cup set)
          /\ given' = [given EXCEPT ![i] = (@ \ named) \cup set]
    /\ UNCHANGED <<default, bound, key, start, editing, emptied>>

\* DELETE needs no key.
ClearCredentials ==
    /\ start = "up"
    /\ \E i \in Stored :
          Exists(i) /\ Seal(i, {}) /\ given' = [given EXCEPT ![i] = {}]
    /\ UNCHANGED <<default, bound, key, start, editing, emptied>>

OfPlatform(i, p) == Exists(i) /\ identity[i].platform = p

\* upsert_policy and upsert_assignments, or delete_assignment, are
\* transactions that look up what they refer to.
Choose(p, i) == (i # Absent => OfPlatform(i, p)) /\ default' = [default EXCEPT ![p] = i]
Bind(p, i) == (i # Absent => OfPlatform(i, p)) /\ bound' = [bound EXCEPT ![p] = i]

SavePolicy ==
    /\ start = "up"
    /\ \E p \in Platforms, i \in Stored \cup {Absent} : Choose(p, i)
    /\ UNCHANGED <<identity, envelope, bound, key, start, editing, given, emptied>>

\* PUT of bindings: a transaction for each; what was saved before one that
\* is refused stays.
SaveBinding ==
    /\ start = "up"
    /\ \E p \in Platforms, i \in Stored \cup {Absent} : Bind(p, i)
    /\ UNCHANGED <<identity, envelope, default, key, start, editing, given, emptied>>

StoreNext ==
    \/ ServerStart \/ LooksForIdentities \/ WritesIdentity \/ WritesPolicy \/ WritesSecret
    \/ ServerUp \/ ServerKilled
    \/ CreateIdentity \/ BeginsUpdate \/ SavesUpdate \/ DeleteIdentity
    \/ PutCredentials \/ ClearCredentials \/ SavePolicy \/ SaveBinding

StoreSpec == StoreInit /\ [][StoreNext]_storeVars

-----------------------------------------------------------------------------
(* Properties *)

\* The tables of the store agree whatever is killed or refused: a policy and
\* a binding name an identity of their platform, an envelope has its
\* identity, the flags by which identities are routed say what is in the
\* envelope, and the envelope holds what the identity was given last, also
\* after starts without the key or with another one (store.py:412-565).
StoreSound ==
    /\ \A p \in Platforms : \A i \in {default[p], bound[p]} \ {Absent} : OfPlatform(i, p)
    /\ \A i \in Stored :
          /\ (envelope[i] # Absent => Exists(i))
          /\ (Exists(i) => identity[i].flags = Held(i))
          /\ Held(i) = given[i]

\* migration.py:68-70: a user who removed all identities does not get the
\* legacy ones again on every restart.
RemovedStayRemoved == emptied => \A i \in Stored : ~Exists(i)
=============================================================================
