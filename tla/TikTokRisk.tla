------------------------------ MODULE TikTokRisk ------------------------------
(***************************************************************************)
(* What TikTokAPIBridge (src/module/tiktok_api.py) does about a platform   *)
(* that resists: every exception and every answer is classified            *)
(* (src/module/tiktok_risk.py), a signal that calls for a pause starts a   *)
(* cooldown of the session or of the account, and requests that begin      *)
(* during a cooldown are refused.  The bridge is what remains after the    *)
(* old interfaces failed (main_terminal.py, download.py).                  *)
(*                                                                         *)
(* One account, which requests name by its "sec" id or by its "name"; all  *)
(* callers have the same session signature.                                *)
(***************************************************************************)
EXTENDS Naturals, FiniteSets

CONSTANTS Callers,
          Pause,     \* tiktok_api_risk_cooldown_seconds, in ticks
          MaxTicks   \* bound on the clock

ASSUME RiskAssumption == IsFiniteSet(Callers) /\ Pause \in Nat /\ MaxTicks \in Nat \ {0}

VARIABLES
    now,        \* time()
    skipOnRisk, \* tiktok_api_skip_on_risk
    cooldown,   \* _risk_cooldowns: when the key's signal ends, 0: no signal
    worksKnown, \* _user_info_cache says that the account has works
    request,    \* of each caller
    pausedAt    \* history: when a pause was last called for and not taken back

riskVars == <<now, skipOnRisk, cooldown, worksKnown, request, pausedAt>>

Labels == {"sec", "name"}
RiskKeys == Labels \cup {"session"}
Whats == {"info", "items", "detail", "download"}
Resting == [at |-> "rest", what |-> "info", label |-> "sec"]

RiskTypeOK ==
    /\ now \in 1..MaxTicks /\ skipOnRisk \in BOOLEAN /\ worksKnown \in BOOLEAN
    /\ cooldown \in [RiskKeys -> 0..(MaxTicks + Pause)]
    /\ pausedAt \in [RiskKeys -> 0..MaxTicks]
    /\ request \in [Callers -> [at : {"rest", "bridge", "asking"}, what : Whats, label : Labels]]

RiskInit ==
    /\ now = 1 /\ skipOnRisk \in BOOLEAN /\ worksKnown = FALSE
    /\ cooldown = [k \in RiskKeys |-> 0] /\ pausedAt = [k \in RiskKeys |-> 0]
    /\ request = [c \in Callers |-> Resting]

-----------------------------------------------------------------------------
\* What an exception shows: classify_exception, by marker and by type.
Faults == {"captcha", "empty", "badjson", "login", "limited", "html", "forbidden",
           "unstable", "unknown", "silent"}
\* What an answer shows: classify_api_payload.  "bare" has no user in it, or
\* no works.
Answers == {"nothing", "marked", "status", "bare", "fine"}

NoSignal == [scope |-> "session", pauses |-> FALSE]

FaultSignal(fault, what) ==
    IF fault = "forbidden"
    THEN [scope |-> IF what = "download" THEN "account" ELSE "session",
          pauses |-> what # "download"]
    ELSE [scope |-> "session",
          pauses |-> fault \in {"captcha", "empty", "badjson", "login", "limited", "html"}]

AnswerSignal(answer, what) ==
    CASE answer = "nothing" -> [scope |-> "session", pauses |-> what = "info"]
      [] answer \in {"marked", "status"} -> [scope |-> "session", pauses |-> TRUE]
      [] answer = "bare" -> [scope |-> "account", pauses |-> what = "items" /\ worksKnown]
      [] OTHER -> NoSignal

\* Mutant: a signal of the session is kept for the account only.
StorageKeyOfAccount(signal, label) == label

\* _risk_storage_keys
StorageKey(signal, label) == IF signal.scope = "account" THEN label ELSE "session"

Applies(signal) == signal.pauses /\ skipOnRisk

\* _apply_risk_signal
Apply(signal, label) ==
    IF Applies(signal)
    THEN LET k == StorageKey(signal, label) IN
         /\ cooldown' = [cooldown EXCEPT ![k] = IF Pause > 0 THEN now + Pause ELSE 0]
         /\ pausedAt' = [pausedAt EXCEPT ![IF signal.scope = "account" THEN label
                                           ELSE "session"] = now]
    ELSE UNCHANGED <<cooldown, pausedAt>>

\* _clear_account_risk: the account's own signal only.
ClearAccount(label) ==
    /\ cooldown' = [cooldown EXCEPT ![label] = 0]
    /\ pausedAt' = [pausedAt EXCEPT ![label] = 0]

\* _active_risk_signal, after _prune_risk_cooldowns
InCooldown(label) == \E k \in {label, "session"} : now < cooldown[k]
Pruned == [k \in RiskKeys |-> IF now < cooldown[k] THEN cooldown[k] ELSE 0]

Moves(c, at) == request' = [request EXCEPT ![c].at = at]

-----------------------------------------------------------------------------
\* What is asked for when the old way has failed.
Falls(c, what, labels) ==
    /\ request[c].at = "rest"
    /\ \E l \in labels : request' = [request EXCEPT ![c] = [at |-> "bridge", what |-> what, label |-> l]]
    /\ UNCHANGED <<now, skipOnRisk, cooldown, worksKnown, pausedAt>>

\* The old interface has no user; an account can be known by its name only.
InfoFails(c) == Falls(c, "info", Labels)
ItemsFail(c) == Falls(c, "items", {"sec"})
\* A work's address names its author.
DetailFails(c) == Falls(c, "detail", {"name"})
\* The direct address of a file answers 403.
DownloadForbidden(c) == Falls(c, "download", {"name"})

\* The request is refused in a cooldown, else it goes to the platform.
BridgeAsks(c) ==
    /\ request[c].at = "bridge"
    /\ cooldown' = Pruned
    /\ Moves(c, IF InCooldown(request[c].label) THEN "rest" ELSE "asking")
    /\ UNCHANGED <<now, skipOnRisk, worksKnown, pausedAt>>

BridgeFails(c) ==
    /\ request[c].at = "asking"
    /\ \E fault \in Faults :
           Apply(FaultSignal(fault, request[c].what), request[c].label)
    /\ Moves(c, "rest")
    /\ UNCHANGED <<now, skipOnRisk, worksKnown>>

\* The account is well.
Well(c) == ClearAccount(request[c].label)

Ends(c, what) ==
    /\ request[c].at = "asking" /\ request[c].what = what
    /\ Moves(c, "rest")
    /\ UNCHANGED <<now, skipOnRisk>>

InfoAnswered(c) ==
    /\ Ends(c, "info")
    /\ \/ Well(c) /\ worksKnown' \in BOOLEAN
       \/ /\ \E answer \in Answers \ {"fine"} :
                 Apply(AnswerSignal(answer, "info"), request[c].label)
          /\ UNCHANGED worksKnown

\* Of the pages only the first is classified, and only when it is not empty:
\* a page that resists later ends the list.
ItemsAnswered(c) ==
    /\ Ends(c, "items")
    /\ \/ Well(c)
       \/ \E answer \in Answers \ {"fine"} :
              Apply(AnswerSignal(answer, "items"), request[c].label)
    /\ UNCHANGED worksKnown

\* Neither is classified.
DetailAnswered(c) == Ends(c, "detail") /\ UNCHANGED <<cooldown, worksKnown, pausedAt>>
Downloaded(c) == Ends(c, "download") /\ UNCHANGED <<cooldown, worksKnown, pausedAt>>

RiskTick ==
    /\ now < MaxTicks /\ now' = now + 1
    /\ UNCHANGED <<skipOnRisk, cooldown, worksKnown, request, pausedAt>>

RiskNext ==
    \/ RiskTick
    \/ \E c \in Callers :
           \/ InfoFails(c) \/ ItemsFail(c) \/ DetailFails(c) \/ DownloadForbidden(c)
           \/ BridgeAsks(c) \/ BridgeFails(c)
           \/ InfoAnswered(c) \/ ItemsAnswered(c) \/ DetailAnswered(c) \/ Downloaded(c)

RiskSpec == RiskInit /\ [][RiskNext]_riskVars

-----------------------------------------------------------------------------
\* A pause that one caller's failure called for holds for every caller: until
\* it is over no request goes out under the session, or for the account.  Only
\* a success of the account itself takes its pause back.
PausesKept ==
    [][\A c \in Callers :
           (request[c].at = "bridge" /\ request'[c].at = "asking") =>
               \A k \in {request[c].label, "session"} :
                   pausedAt[k] = 0 \/ now >= pausedAt[k] + Pause]_riskVars
=============================================================================
