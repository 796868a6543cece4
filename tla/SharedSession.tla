---------------------------- MODULE SharedSession ----------------------------
(***************************************************************************)
(* The browser session that TikTokAPIBridge (src/module/tiktok_api.py)     *)
(* shares between the runtimes of one identity: a registry of entries, in  *)
(* each a lock and the session; calls that create it, find it broken, or   *)
(* reset it and try once more; and the end of a runtime                    *)
(* (src/collector/runtime.py), which closes the session and takes the      *)
(* entry away whoever else uses it.                                        *)
(*                                                                         *)
(* One key: the runtimes have the same signature.                          *)
(***************************************************************************)
EXTENDS Naturals, FiniteSets

CONSTANTS Runtimes,
          MaxSessions,   \* bound on the sessions created
          MaxEntries     \* bound on the registry's entries

ASSUME SessionAssumption ==
    IsFiniteSet(Runtimes) /\ MaxSessions \in Nat /\ MaxEntries \in Nat

VARIABLES
    registered,  \* _shared_apis: the entry of the key, or 0
    made,        \* the entries so far
    api,         \* entry.api: a session, or 0
    created,     \* the sessions so far
    open,        \* the sessions whose browser runs
    keys,        \* _param_api_keys: the runtimes that close the key
    call,        \* where a runtime stands: entry and session it refers to
    unclosed     \* sessions that nobody will close, for a known reason

entries == <<registered, made, api>>
sessions == <<created, open, unclosed>>
sessionVars == <<entries, sessions, keys, call>>

Entries == 1..MaxEntries

\* get, reset, shut   waits for the entry's lock in _get_or_create_shared_api,
\*                    _reset_shared_api, close
\* create             holds it and awaits _create_api
\* use                the callback runs with the session
CallAt == {"rest", "get", "create", "use", "reset", "shut", "closed"}
Quiet(at) == [at |-> at, entry |-> 0, session |-> 0, second |-> FALSE]

SessionTypeOK ==
    /\ registered \in 0..made /\ made \in 0..MaxEntries
    /\ api \in [Entries -> 0..created] /\ created \in 0..MaxSessions
    /\ open \subseteq 1..created /\ unclosed \subseteq 1..created
    /\ keys \subseteq Runtimes
    /\ call \in [Runtimes -> [at : CallAt, entry : 0..MaxEntries,
                              session : 0..MaxSessions, second : BOOLEAN]]

SessionInit ==
    /\ registered = 0 /\ made = 0
    /\ api = [e \in Entries |-> 0]
    /\ created = 0 /\ open = {} /\ unclosed = {}
    /\ keys = {}
    /\ call = [r \in Runtimes |-> Quiet("rest")]

\* Mutant: entries have no lock.
LockedNever(e) == FALSE

\* Only a creation is awaited for long inside the lock; a health check or a
\* close is one step with what follows it.
LockedEntry(e) == \E r \in Runtimes : call[r].at = "create" /\ call[r].entry = e

Now(r, c) == call' = [call EXCEPT ![r] = c]

-----------------------------------------------------------------------------
\* _entry_for_key
Lookup(r, second) ==
    LET e == IF registered = 0 THEN made + 1 ELSE registered
    IN  /\ e <= MaxEntries
        /\ registered' = e /\ made' = IF registered = 0 THEN e ELSE made
        /\ Now(r, [Quiet("get") EXCEPT !.entry = e, !.second = second])
        /\ UNCHANGED api

RunWithApi(r) ==
    /\ call[r].at = "rest" /\ Lookup(r, FALSE)
    /\ UNCHANGED <<sessions, keys>>

\* The session answers that it is well: it is used.
Reuse(r) ==
    LET e == call[r].entry IN
    /\ call[r].at = "get" /\ ~LockedEntry(e)
    /\ api[e] \in open
    /\ keys' = keys \cup {r}
    /\ Now(r, [call[r] EXCEPT !.at = "use", !.session = api[e]])
    /\ UNCHANGED <<entries, sessions>>

\* There is none, or it is not well: it is closed and another one created.
Renew(r) ==
    LET e == call[r].entry IN
    /\ call[r].at = "get" /\ ~LockedEntry(e)
    /\ open' = open \ {api[e]}
    /\ api' = [api EXCEPT ![e] = 0]
    /\ Now(r, [call[r] EXCEPT !.at = "create"])
    /\ UNCHANGED <<registered, made, created, unclosed, keys>>

\* A session of an entry that was taken out of the registry meanwhile is
\* closed by nobody.
Created(r) ==
    LET e == call[r].entry IN
    /\ call[r].at = "create" /\ created < MaxSessions
    /\ created' = created + 1 /\ open' = open \cup {created'}
    /\ api' = [api EXCEPT ![e] = created']
    /\ unclosed' = IF e = registered THEN unclosed ELSE unclosed \cup {created'}
    /\ keys' = keys \cup {r}
    /\ Now(r, [call[r] EXCEPT !.at = "use", !.session = created'])
    /\ UNCHANGED <<registered, made>>

\* No strategy works, and what was begun is closed.  A cancellation is not
\* caught there: what was begun stays.
CreateFails(r) ==
    /\ call[r].at = "create"
    /\ Now(r, Quiet("rest"))
    /\ \/ UNCHANGED sessions
       \/ /\ created < MaxSessions
          /\ created' = created + 1 /\ open' = open \cup {created'}
          /\ unclosed' = unclosed \cup {created'}
    /\ UNCHANGED <<entries, keys>>

\* The callback returns, is canceled or fails for good; a session error of
\* the first attempt resets the entry of that moment.
UseEnds(r) ==
    /\ call[r].at = "use"
    /\ \/ Now(r, Quiet("rest")) /\ UNCHANGED entries
       \/ /\ ~call[r].second
          /\ IF registered = 0 THEN Lookup(r, TRUE)
             ELSE /\ Now(r, [Quiet("reset") EXCEPT !.entry = registered])
                  /\ UNCHANGED entries
    /\ UNCHANGED <<sessions, keys>>

CloseApi(e) ==
    /\ open' = open \ {api[e]}
    /\ api' = [api EXCEPT ![e] = 0]

\* The first await of the second attempt is the health check, so the entry is
\* looked up at once.
Reset(r) ==
    LET e == call[r].entry IN
    /\ call[r].at = "reset" /\ ~LockedEntry(e)
    /\ CloseApi(e)
    /\ LET now == IF registered = 0 THEN made + 1 ELSE registered
       IN  /\ now <= MaxEntries
           /\ registered' = now /\ made' = IF registered = 0 THEN now ELSE made
           /\ Now(r, [Quiet("get") EXCEPT !.entry = now, !.second = TRUE])
    /\ UNCHANGED <<created, unclosed, keys>>

-----------------------------------------------------------------------------
\* The operation of the runtime is over: close().
Shut(r) ==
    /\ call[r].at = "rest"
    /\ IF r \in keys /\ registered # 0
       THEN Now(r, [Quiet("shut") EXCEPT !.entry = registered]) /\ UNCHANGED keys
       ELSE Now(r, Quiet("closed")) /\ keys' = keys \ {r}
    /\ UNCHANGED <<entries, sessions>>

\* The session is closed, and whatever entry the key has by then is taken
\* out of the registry: a session in another one than this has no closer.
ShutDown(r) ==
    LET e == call[r].entry IN
    /\ call[r].at = "shut" /\ ~LockedEntry(e)
    /\ CloseApi(e)
    /\ registered' = 0
    /\ unclosed' = unclosed \cup ({api'[k] : k \in Entries} \ {0})
    /\ keys' = keys \ {r}
    /\ Now(r, Quiet("closed"))
    /\ UNCHANGED <<made, created>>

\* A runtime is made for every operation.
NewRuntime(r) ==
    /\ call[r].at = "closed"
    /\ Now(r, Quiet("rest"))
    /\ UNCHANGED <<entries, sessions, keys>>

SessionNext ==
    \E r \in Runtimes :
        \/ RunWithApi(r) \/ Reuse(r) \/ Renew(r) \/ Created(r) \/ CreateFails(r)
        \/ UseEnds(r) \/ Reset(r) \/ Shut(r) \/ ShutDown(r) \/ NewRuntime(r)

SessionSpec == SessionInit /\ [][SessionNext]_sessionVars

-----------------------------------------------------------------------------
(* Properties *)

\* However the runtimes create, use, reset and close the session of their
\* identity, no two browsers run on its profile directory, and none is left
\* when all runtimes are closed; except for a creation that is canceled, and
\* for a runtime that waits for an entry while another one takes it out of
\* the registry.
SessionsClosed ==
    /\ Cardinality(open \ unclosed) <= 1
    /\ (\A r \in Runtimes : call[r].at = "closed") => open \subseteq unclosed
=============================================================================
