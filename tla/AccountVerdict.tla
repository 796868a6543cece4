---------------------------- MODULE AccountVerdict ----------------------------
(***************************************************************************)
(* What a crawl of a Douyin account ends with (main_terminal.py,           *)
(* deal_account_detail): the works, or a verdict, made of the answers to   *)
(* two or three requests.  What the verdict is made of stands in fields of *)
(* the worker, not of the visit.  Tasks of an identity have a worker of    *)
(* their own; tasks that bring their own cookie or proxy, and all tasks    *)
(* when no identity is set up, share the server object as their worker.    *)
(* A verdict can remove the account from the settings (main_server.py).    *)
(***************************************************************************)
EXTENDS Naturals, FiniteSets

CONSTANTS Visitors,     \* tasks that visit accounts, one after the other
          Homes,        \* sec_user_ids
          NoHome,
          MaxVisits     \* bound on the visits

ASSUME VerdictAssumption ==
    NoHome \notin Homes /\ IsFiniteSet(Visitors \cup Homes) /\ MaxVisits \in Nat

VARIABLES
    restricted,   \* the accounts that the platform has banned or deleted
    auto,         \* auto_archive_restricted_accounts
    shared,       \* the visitors share a worker
    state,        \* worker: target of _confirmed_account_state, or NoHome
    infoError,    \* worker: _account_info_diagnostic has an error
    itemsError,   \* worker: _account_items_diagnostic has an error
    visit,
    archived,     \* accounts that a verdict has moved to the recycle bin
    visits

verdictVars == <<restricted, auto, shared, state, infoError, itemsError, visit, archived, visits>>

\* The answer to a request: what was asked for, an answer without it, or
\* none.  A full profile may be that of another account.
Replies == {"given", "none", "error"}
Unasked == "unasked"

Verdicts == {"restricted", "request", "empty", "success", "download", "parse"}

NoVisit == [at |-> "idle", home |-> NoHome, verify |-> FALSE, profile |-> Unasked,
            info |-> Unasked, items |-> Unasked, verdict |-> {}]

VerdictTypeOK ==
    /\ restricted \subseteq Homes /\ archived \subseteq Homes
    /\ auto \in BOOLEAN /\ shared \in BOOLEAN
    /\ state \in [Visitors -> Homes \cup {NoHome}]
    /\ infoError \in [Visitors -> BOOLEAN] /\ itemsError \in [Visitors -> BOOLEAN]
    /\ visit \in [Visitors -> [at : {"idle", "profile", "info", "items", "load", "done"},
                               home : Homes \cup {NoHome}, verify : BOOLEAN,
                               profile : Replies \cup {Unasked, "foreign"},
                               info : Replies \cup {Unasked}, items : Replies \cup {Unasked},
                               verdict : {{}} \cup {{x} : x \in Verdicts}]]
    /\ visits \in 0..MaxVisits

VerdictInit ==
    /\ restricted \in SUBSET Homes /\ auto \in BOOLEAN /\ shared \in BOOLEAN
    /\ state = [v \in Visitors |-> NoHome]
    /\ infoError = [v \in Visitors |-> FALSE] /\ itemsError = infoError
    /\ visit = [v \in Visitors |-> NoVisit]
    /\ archived = {} /\ visits = 0

-----------------------------------------------------------------------------
\* The worker of a visitor, by one of those who use it.
Worker(v) == IF shared THEN CHOOSE u \in Visitors : TRUE ELSE v

\* Mutant: any evidence will do.
AnyEvidence(v) == state'[Worker(v)] # NoHome

\* validate_archive_evidence
Validates(v) == state'[Worker(v)] = visit[v].home

\* The checks in _auto_archive_restricted_account.
Archives(v, verdict) == auto /\ verdict = "restricted" /\ Validates(v)

\* The visit is over; a crawl's verdict may archive the account.
Ends(v, x, verdict) ==
    /\ visit' = [visit EXCEPT ![v] = [x EXCEPT !.at = "done", !.verdict = {verdict}]]
    /\ archived' = IF ~x.verify /\ Archives(v, verdict) THEN archived \cup {x.home} ELSE archived

Continues(v, x) == visit' = [visit EXCEPT ![v] = x] /\ UNCHANGED archived

\* _api_request_diagnostic: the worker keeps what its last request of a kind
\* came to.
Diagnosed(diagnostic, v, a) == [diagnostic EXCEPT ![Worker(v)] = a = "error"]

\* _request_failure_outcome, of the list or else of the profile: forbidden,
\* limited, out of time, rejected and the like are one verdict.
RequestFailed(v) == itemsError'[Worker(v)] \/ infoError'[Worker(v)]

\* confirmed_douyin_restriction: the full profile of the account itself says
\* that it is banned or deleted.
Confirms(a, h) == a = "given" /\ h \in restricted

\* _empty_account_outcome and _classify_empty_account.  What the account's
\* profile says of itself is one verdict here.
EmptyVerdict(v) ==
    IF state'[Worker(v)] = visit[v].home THEN "restricted"
    ELSE IF RequestFailed(v) THEN "request" ELSE "empty"

\* deal_account_detail and _verify_accounts, once the profile or the short
\* information is there, or neither, which is the end for the tabs "favorite"
\* and "collection".  The verification looks whose state and whose profile it
\* has, the crawl does not.
Informed(v, x, found) ==
    \/ /\ x.verify
       /\ Ends(v, x, IF Validates(v) THEN "restricted"
                     ELSE IF found /\ x.profile # "foreign" THEN "success" ELSE "empty")
    \/ ~x.verify /\ ~found /\ Ends(v, x, EmptyVerdict(v))
    \/ /\ ~x.verify
       /\ IF auto /\ state'[Worker(v)] # NoHome THEN Ends(v, x, "restricted")
          ELSE Continues(v, [x EXCEPT !.at = "items"])

-----------------------------------------------------------------------------
\* Mutant: what the last visit left in the worker is not reset.
VisitUnreset(v, h) ==
    /\ visit[v].at \in {"idle", "done"} /\ visits < MaxVisits
    /\ visit' = [visit EXCEPT ![v] = [NoVisit EXCEPT !.at = "profile", !.home = h]]
    /\ state' = [state EXCEPT ![Worker(v)] = NoHome]
    /\ visits' = visits + 1
    /\ UNCHANGED <<restricted, auto, shared, infoError, itemsError, archived>>

\* A batch comes to an account: _reset_account_diagnostics, then _get_info_data.
VisitBegins(v, h) ==
    /\ visit[v].at \in {"idle", "done"} /\ visits < MaxVisits
    /\ visit' = [visit EXCEPT ![v] = [NoVisit EXCEPT !.at = "profile", !.home = h]]
    /\ state' = [state EXCEPT ![Worker(v)] = NoHome]
    /\ infoError' = [infoError EXCEPT ![Worker(v)] = FALSE]
    /\ itemsError' = [itemsError EXCEPT ![Worker(v)] = FALSE]
    /\ visits' = visits + 1
    /\ UNCHANGED <<restricted, auto, shared, archived>>

\* A verification comes to an account: _get_info_data alone.
Verify(v, h) ==
    /\ visit[v].at \in {"idle", "done"} /\ visits < MaxVisits
    /\ visit' = [visit EXCEPT ![v] = [NoVisit EXCEPT !.at = "profile", !.home = h, !.verify = TRUE]]
    /\ state' = [state EXCEPT ![Worker(v)] = NoHome]
    /\ visits' = visits + 1
    /\ UNCHANGED <<restricted, auto, shared, infoError, itemsError, archived>>

\* The full profile, or the lack of it.  Evidence is taken from a profile of
\* the account itself (confirmed_douyin_restriction).
ProfileComes(v, a) ==
    LET w == Worker(v)
        x == [visit[v] EXCEPT !.profile = a]
    IN
    /\ visit[v].at = "profile"
    /\ infoError' = Diagnosed(infoError, v, a)
    /\ state' = [state EXCEPT ![w] = IF Confirms(a, x.home) THEN x.home ELSE NoHome]
    /\ UNCHANGED itemsError
    /\ IF a \in {"given", "foreign"} THEN Informed(v, x, TRUE)
       ELSE Continues(v, [x EXCEPT !.at = "info"])
    /\ UNCHANGED <<restricted, auto, shared, visits>>

\* The short information, which confirms nothing.
InfoComes(v, a) ==
    /\ visit[v].at = "info"
    /\ infoError' = Diagnosed(infoError, v, a)
    /\ UNCHANGED <<state, itemsError>>
    /\ Informed(v, [visit[v] EXCEPT !.info = a], a = "given")
    /\ UNCHANGED <<restricted, auto, shared, visits>>

\* The list of works.
ItemsCome(v, a) ==
    LET x == [visit[v] EXCEPT !.items = a] IN
    /\ visit[v].at = "items"
    /\ itemsError' = Diagnosed(itemsError, v, a)
    /\ UNCHANGED <<state, infoError>>
    /\ IF a = "given" THEN Continues(v, [x EXCEPT !.at = "load"]) ELSE Ends(v, x, EmptyVerdict(v))
    /\ UNCHANGED <<restricted, auto, shared, visits>>

\* _batch_process_detail; the profile of another account is found out here.
Loaded(v) ==
    /\ visit[v].at = "load"
    /\ UNCHANGED <<state, infoError, itemsError>>
    /\ \E verdict \in IF visit[v].profile = "foreign" THEN {"parse"} ELSE {"success", "download"} :
          Ends(v, visit[v], verdict)
    /\ UNCHANGED <<restricted, auto, shared, visits>>

\* An exception or a cancellation ends the visit at one of its requests.
VisitBreaks(v) ==
    /\ visit[v].at \notin {"idle", "done"}
    /\ Continues(v, NoVisit)
    /\ UNCHANGED <<restricted, auto, shared, state, infoError, itemsError, visits>>

VerdictNext ==
    \E v \in Visitors :
       \/ \E h \in Homes : VisitBegins(v, h) \/ Verify(v, h)
       \/ \E a \in Replies \cup {"foreign"} : ProfileComes(v, a)
       \/ \E a \in Replies : InfoComes(v, a) \/ ItemsCome(v, a)
       \/ Loaded(v) \/ VisitBreaks(v)

VerdictSpec == VerdictInit /\ [][VerdictNext]_verdictVars

-----------------------------------------------------------------------------
(* Properties *)

\* What the answers of a visit say of its account, and of nothing else.
Own(x) ==
    LET confirmed == x.profile = "given" /\ x.home \in restricted
        failed == "error" \in {x.items, IF x.info = Unasked THEN x.profile ELSE x.info}
    IN  IF confirmed /\ (x.verify \/ auto \/ x.items # "given") THEN {"restricted"}
        ELSE IF x.verify THEN
            IF "given" \in {x.profile, x.info} THEN {"success"} ELSE {"empty"}
        ELSE IF x.items = "given" THEN
            IF x.profile = "foreign" THEN {"parse"} ELSE {"success", "download"}
        ELSE IF failed THEN {"request"} ELSE {"empty"}

\* No account is removed but one that the platform itself, asked for this
\* account, has called banned or deleted, even among visits that share a
\* worker.  And the verdict on an account, which decides whether it is tried
\* with another identity, whether it is skipped, and whether its identity is
\* to blame, is made of the answers of its own visit and of none before it;
\* the exception are visits that share a worker.
VerdictsSound ==
    /\ archived \subseteq restricted
    /\ ~shared =>
          \A v \in Visitors : visit[v].at = "done" => visit[v].verdict \subseteq Own(visit[v])
=============================================================================
