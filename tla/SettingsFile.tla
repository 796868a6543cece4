----------------------------- MODULE SettingsFile -----------------------------
(***************************************************************************)
(* The lists of settings.json that the program itself changes: the         *)
(* accounts, the deleted accounts (the recycle bin) and the schedules.     *)
(* Each is in memory (src/config/parameter.py), the schedules once more in *)
(* the server that runs them (main_server.py), and in the file, which      *)
(* every writer writes as a whole from the memory (src/config/settings.py).*)
(*                                                                         *)
(* The writers: the account pages, the raw editor, POST /settings, the     *)
(* verification of accounts, the archive, the monitors, the end of a batch *)
(* and the schedule routes.  Two of them await in the middle, and any      *)
(* write may fail.                                                         *)
(***************************************************************************)
EXTENDS Naturals, FiniteSets

CONSTANTS People,     \* urls of accounts
          Plans       \* schedule ids

ASSUME SettingsAssumption == IsFiniteSet(People) /\ IsFiniteSet(Plans)

VARIABLES
    accounts,   \* parameter.accounts_urls
    trash,      \* parameter.deleted_accounts
    plans,      \* parameter.ui_schedules
    served,     \* the server's ui_schedules
    onDisk,     \* settings.json
    applying,   \* schedules of a save that waits for the old clients to close
    missing,    \* accounts that a verification has found to be gone
    dirty,      \* the last write has failed
    patched,    \* the settings were replaced since the schedules were written
    known,      \* accounts that were in one of the lists
    dropped,    \* of them, those that a save of the user has left out
    doubled     \* accounts put into both lists by a save or a monitor

lists == <<accounts, trash, plans>>
ghosts == <<dirty, patched, known, dropped, doubled>>
settingsVars == <<lists, served, onDisk, applying, missing, ghosts>>

Lists == [accounts : SUBSET People, trash : SUBSET People, plans : SUBSET Plans]
Nothing == {}     \* no save waits, no verification runs

\* What a body of POST /settings names: all, as the page sends it, or the
\* one list that a script changes.
Bodies == {{"accounts", "trash", "plans"}, {"accounts"}}

SettingsTypeOK ==
    /\ accounts \subseteq People /\ trash \subseteq People
    /\ plans \subseteq Plans /\ served \subseteq Plans
    /\ onDisk \in Lists
    /\ applying \in {Nothing} \cup {{s} : s \in SUBSET Plans}
    /\ missing \in {Nothing} \cup {{m} : m \in SUBSET People}
    /\ dirty \in BOOLEAN /\ patched \in BOOLEAN
    /\ known \subseteq People /\ dropped \subseteq People /\ doubled \subseteq People

SettingsInit ==
    /\ accounts = {} /\ trash = {} /\ plans = {} /\ served = {}
    /\ onDisk = [accounts |-> {}, trash |-> {}, plans |-> {}]
    /\ applying = Nothing /\ missing = Nothing
    /\ dirty = FALSE /\ patched = FALSE
    /\ known = {} /\ dropped = {} /\ doubled = {}

\* settings.update(get_settings_data()): a temporary file takes the place of
\* the old one, or the write raises and the old one stays.
WriteFile ==
    \/ /\ onDisk' = [accounts |-> accounts', trash |-> trash', plans |-> plans']
       /\ dirty' = FALSE
    \/ UNCHANGED onDisk /\ dirty' = TRUE

\* What the user sends replaces the lists.
Sends(l, t) ==
    /\ accounts' = l /\ trash' = t
    /\ known' = known \cup l \cup t
    /\ dropped' = (dropped \cup accounts \cup trash) \ (l \cup t)
    /\ doubled' = l \cap t

-----------------------------------------------------------------------------
(* The user's saves                                                        *)

\* PUT accounts, from a page that may be older than the lists.
SavePage(l, t) ==
    /\ Sends(l, t) /\ UNCHANGED plans
    /\ WriteFile
    /\ UNCHANGED <<served, applying, missing, patched>>

\* set_urls_params leaves a list alone for which nothing is sent,
\* set_deleted_accounts does not.  Then the old clients are closed, if the
\* proxy has changed.
Applied(d) ==
    /\ applying = Nothing
    /\ Sends(IF d.accounts = {} THEN accounts ELSE d.accounts, d.trash)
    /\ applying' = {d.plans}

\* PUT settings/raw: the text is written first.
SaveText(d) ==
    /\ onDisk' = d /\ Applied(d)
    /\ UNCHANGED <<plans, served, missing, dirty, patched>>

\* POST /settings: what the body does not name has the default of the model,
\* which is an empty list.
Patch(named) ==
    /\ \E d \in Lists :
          /\ \A f \in DOMAIN d : f \notin named => d[f] = {}
          /\ Applied(d)
    /\ UNCHANGED <<plans, served, onDisk, missing, dirty, patched>>

\* The rest of set_settings_data.
ApplyEnds ==
    /\ applying # Nothing
    /\ plans' \in applying
    /\ applying' = Nothing
    /\ patched' = TRUE
    /\ UNCHANGED <<accounts, trash>>
    /\ WriteFile
    /\ UNCHANGED <<served, missing, known, dropped, doubled>>

\* create_client or a close raises.
ApplyFails ==
    /\ applying # Nothing /\ applying' = Nothing
    /\ dirty' = TRUE
    /\ UNCHANGED <<lists, served, onDisk, missing, patched, known, dropped, doubled>>

-----------------------------------------------------------------------------
(* The program's changes                                                   *)

\* _verify_accounts: from here on it asks the platform, account by account.
VerifyBegins(m) ==
    /\ missing = Nothing /\ m \subseteq accounts
    /\ missing' = {m}
    /\ UNCHANGED <<lists, served, onDisk, applying, ghosts>>

\* Mutant: the rows it began with are written back.
VerifyEndsOld(m) ==
    /\ missing = {m} /\ missing' = Nothing
    /\ accounts' = known \ (m \cup dropped) /\ trash' = trash \cup m
    /\ UNCHANGED plans
    /\ WriteFile
    /\ UNCHANGED <<served, applying, patched, known, dropped, doubled>>

\* Its result is applied to the lists as they are then; when the write fails
\* it stays in the memory.
VerifyEnds(m) ==
    /\ missing = {m} /\ missing' = Nothing
    /\ UNCHANGED plans
    /\ IF m \cap accounts = {} THEN UNCHANGED <<accounts, trash, onDisk, dirty>>
       ELSE /\ accounts' = accounts \ m /\ trash' = trash \cup (m \cap accounts)
            /\ WriteFile
    /\ doubled' = doubled \ m
    /\ UNCHANGED <<served, applying, patched, known, dropped>>

\* _archive_account_configurations, by the user or for a restricted account:
\* when the write fails, both lists are set back.
Archive(p) ==
    /\ p \in accounts
    /\ \/ /\ accounts' = accounts \ {p} /\ trash' = trash \cup {p}
          /\ onDisk' = [accounts |-> accounts', trash |-> trash', plans |-> plans]
          /\ dirty' = FALSE
          /\ doubled' = doubled \ {p}
       \/ UNCHANGED <<accounts, trash, onDisk, dirty, doubled>>
    /\ UNCHANGED <<plans, served, applying, missing, patched, known, dropped>>

\* _run_collect_monitor_once adds the authors that are not listed; it does
\* not ask the recycle bin.
MonitorAdds(p) ==
    /\ p \notin accounts
    /\ accounts' = accounts \cup {p} /\ UNCHANGED <<trash, plans>>
    /\ WriteFile
    /\ known' = known \cup {p} /\ dropped' = dropped \ {p}
    /\ doubled' = doubled \cup ({p} \cap trash)
    /\ UNCHANGED <<served, applying, missing, patched>>

\* The end of a batch writes marks and dates, which are left out here.
BatchWrites ==
    /\ UNCHANGED lists /\ WriteFile
    /\ UNCHANGED <<served, applying, missing, patched, known, dropped, doubled>>

\* _persist_ui_schedules, after a route or a run has changed the schedules.
ChangeSchedules(now) ==
    /\ served' = now /\ plans' = now
    /\ UNCHANGED <<accounts, trash>>
    /\ WriteFile
    /\ patched' = FALSE
    /\ UNCHANGED <<applying, missing, known, dropped, doubled>>

\* Stopped or killed: what is not in the file is gone.
ServerStarts ==
    /\ accounts' = onDisk.accounts /\ trash' = onDisk.trash
    /\ plans' = onDisk.plans /\ served' = onDisk.plans
    /\ applying' = Nothing /\ missing' = Nothing
    /\ known' = IF dirty \/ applying # Nothing THEN accounts' \cup trash' ELSE known
    /\ dropped' = IF dirty \/ applying # Nothing THEN {} ELSE dropped
    /\ doubled' = accounts' \cap trash'
    /\ dirty' = FALSE /\ patched' = FALSE
    /\ UNCHANGED onDisk

SettingsNext ==
    \/ \E l, t \in SUBSET People : SavePage(l, t)
    \/ \E d \in Lists : SaveText(d)
    \/ \E named \in Bodies : Patch(named)
    \/ ApplyEnds \/ ApplyFails
    \/ \E m \in SUBSET People : VerifyBegins(m) \/ VerifyEnds(m)
    \/ \E p \in People : Archive(p) \/ MonitorAdds(p)
    \/ BatchWrites
    \/ \E now \in SUBSET Plans : ChangeSchedules(now)
    \/ ServerStarts

SettingsSpec == SettingsInit /\ [][SettingsNext]_settingsVars

-----------------------------------------------------------------------------
(* Properties *)

\* However the writers, their failures, their awaits and restarts overlap, no
\* account that was written is lost: it is listed or in the recycle bin, from
\* where it can be restored, unless a save of the user has left it out.
NoAccountLost == known \subseteq accounts \cup trash \cup dropped

\* An account is in both lists only if a save or a monitor has put it there.
OnePlace == accounts \cap trash \subseteq doubled

\* Unless a write has failed or a save is under way, a restart finds the
\* lists as they are; and unless the settings were replaced as a whole since
\* the schedules were last written, the schedules that run.
RestartFindsAll ==
    ~dirty /\ applying = Nothing =>
        /\ onDisk = [accounts |-> accounts, trash |-> trash, plans |-> plans]
        /\ patched \/ onDisk.plans = served

SettingsHold == NoAccountLost /\ OnePlace /\ RestartFindsAll

\* What the route says of POST /settings, that only the parameters to be
\* changed need to be passed: the others stay.
PatchKeepsTheRest ==
    [][\A named \in Bodies :
          Patch(named) /\ "trash" \notin named => trash' = trash]_settingsVars
=============================================================================
