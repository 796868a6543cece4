---------------------------- MODULE ServerProofs ----------------------------
(***************************************************************************)
(* What runs in the server beside the crawls.  settings.json and what runs *)
(* from it: its writers lose no account and leave the file as the memory   *)
(* is (SettingsFile), and a schedule has one runner and one run and is     *)
(* what the user was told (ScheduleRunner).  And who uses an identity, one *)
(* at a time: its login browser, viewers, edits and crawls (LoginBrowser)  *)
(* and the browser session its runtimes share (SharedSession).             *)
(***************************************************************************)
EXTENDS SettingsFile, ScheduleRunner, LoginBrowser, SharedSession, FiniteSetTheorems, TLAPS

-----------------------------------------------------------------------------
(* SettingsFile: the inductive invariant.                                  *)

\* The server runs the schedules that are in the settings, unless those were
\* replaced as a whole, even while a write is missing.
ServedKept == patched \/ plans = served

SettingsInv == SettingsTypeOK /\ NoAccountLost /\ OnePlace /\ RestartFindsAll /\ ServedKept

\* A list of the file.
LEMMA ListsTyped ==
    ASSUME NEW a \in SUBSET People, NEW t \in SUBSET People, NEW p \in SUBSET Plans
    PROVE  [accounts |-> a, trash |-> t, plans |-> p] \in Lists
  BY DEF Lists

\* What any write of the file does to it and to what a restart finds, when
\* the lists have their types and the server's schedules are theirs.
LEMMA Written ==
    ASSUME SettingsTypeOK, WriteFile,
           accounts' \subseteq People, trash' \subseteq People, plans' \subseteq Plans,
           ServedKept'
    PROVE  onDisk' \in Lists /\ dirty' \in BOOLEAN /\ RestartFindsAll'
<1>1. onDisk \in Lists /\ [accounts |-> accounts', trash |-> trash', plans |-> plans'] \in Lists
  BY ListsTyped DEF SettingsTypeOK
<1>2. CASE /\ onDisk' = [accounts |-> accounts', trash |-> trash', plans |-> plans']
           /\ dirty' = FALSE
  BY <1>1, <1>2 DEF RestartFindsAll, ServedKept
<1>3. CASE UNCHANGED onDisk /\ dirty' = TRUE
  BY <1>1, <1>3 DEF RestartFindsAll
<1> QED
  BY <1>2, <1>3 DEF WriteFile

\* What a save of the user does to the accounts.
LEMMA Sent ==
    ASSUME SettingsInv, NEW l \in SUBSET People, NEW t \in SUBSET People, Sends(l, t)
    PROVE  /\ accounts' = l /\ trash' = t
           /\ known' \subseteq People /\ dropped' \subseteq People /\ doubled' \subseteq People
           /\ NoAccountLost' /\ OnePlace'
  BY DEF SettingsInv, SettingsTypeOK, NoAccountLost, OnePlace, Sends

-----------------------------------------------------------------------------
(* The steps *)

LEMMA SettingsInitHolds == SettingsInit => SettingsInv
<1> SUFFICES ASSUME SettingsInit PROVE SettingsInv
  OBVIOUS
<1>1. onDisk \in Lists
  BY ListsTyped DEF SettingsInit
<1> QED
  BY <1>1 DEF SettingsInit, SettingsInv, SettingsTypeOK, NoAccountLost, OnePlace, RestartFindsAll,
     ServedKept, Nothing

LEMMA SavePageKeeps ==
    ASSUME SettingsInv, NEW l \in SUBSET People, NEW t \in SUBSET People, SavePage(l, t) PROVE SettingsInv'
<1>1. /\ Sends(l, t) /\ WriteFile
      /\ UNCHANGED <<plans, served, applying, missing, patched>>
  BY DEF SavePage
<1>2. ServedKept'
  BY <1>1 DEF SettingsInv, ServedKept
<1>3. /\ accounts' = l /\ trash' = t
      /\ known' \subseteq People /\ dropped' \subseteq People /\ doubled' \subseteq People
      /\ NoAccountLost' /\ OnePlace'
  BY <1>1, Sent
<1>4. plans' \subseteq Plans /\ SettingsTypeOK
  BY <1>1 DEF SettingsInv, SettingsTypeOK
<1>5. onDisk' \in Lists /\ dirty' \in BOOLEAN /\ RestartFindsAll'
  BY <1>1, <1>2, <1>3, <1>4, Written
<1>6. SettingsTypeOK'
  BY <1>1, <1>3, <1>4, <1>5 DEF SettingsTypeOK
<1> QED
  BY <1>2, <1>3, <1>5, <1>6 DEF SettingsInv

\* The first half of a save of all settings.
LEMMA AppliedKeeps ==
    ASSUME SettingsInv, NEW d \in Lists, Applied(d), onDisk' \in Lists,
           UNCHANGED <<plans, served, missing, dirty, patched>>
    PROVE  SettingsInv'
<1>1. /\ d.accounts \in SUBSET People /\ d.trash \in SUBSET People /\ d.plans \in SUBSET Plans
  BY DEF Lists
<1>2. PICK l \in SUBSET People : l = IF d.accounts = {} THEN accounts ELSE d.accounts
  BY <1>1 DEF SettingsInv, SettingsTypeOK
<1>3. Sends(l, d.trash) /\ applying' = {d.plans}
  BY <1>2 DEF Applied
<1>4. /\ accounts' = l /\ trash' = d.trash
      /\ known' \subseteq People /\ dropped' \subseteq People /\ doubled' \subseteq People
      /\ NoAccountLost' /\ OnePlace'
  BY <1>1, <1>3, Sent
<1>5. applying' # Nothing /\ applying' \in {{s} : s \in SUBSET Plans}
  BY <1>1, <1>3 DEF Nothing
<1>6. SettingsTypeOK'
  BY <1>1, <1>4, <1>5 DEF SettingsInv, SettingsTypeOK
<1> QED
  BY <1>4, <1>5, <1>6 DEF SettingsInv, RestartFindsAll, ServedKept

LEMMA SaveTextKeeps == ASSUME SettingsInv, NEW d \in Lists, SaveText(d) PROVE SettingsInv'
  BY AppliedKeeps DEF SaveText

LEMMA PatchKeeps == ASSUME SettingsInv, NEW named \in Bodies, Patch(named) PROVE SettingsInv'
<1>1. PICK d \in Lists : Applied(d)
  BY DEF Patch
<1> QED
  BY <1>1, AppliedKeeps DEF Patch, SettingsInv, SettingsTypeOK

LEMMA ApplyEndsKeeps == ASSUME SettingsInv, ApplyEnds PROVE SettingsInv'
<1>1. /\ applying # Nothing /\ plans' \in applying /\ applying' = Nothing /\ patched' = TRUE
      /\ UNCHANGED <<accounts, trash, served, missing, known, dropped, doubled>> /\ WriteFile
  BY DEF ApplyEnds
<1>2. ServedKept'
  BY <1>1 DEF ServedKept
<1>3. SettingsTypeOK /\ plans' \subseteq Plans /\ accounts' \subseteq People /\ trash' \subseteq People
  BY <1>1 DEF SettingsInv, SettingsTypeOK
<1>4. onDisk' \in Lists /\ dirty' \in BOOLEAN /\ RestartFindsAll'
  BY <1>1, <1>2, <1>3, Written
<1>5. SettingsTypeOK'
  BY <1>1, <1>3, <1>4 DEF SettingsTypeOK
<1> QED
  BY <1>1, <1>2, <1>4, <1>5 DEF SettingsInv, NoAccountLost, OnePlace

LEMMA ApplyFailsKeeps == ASSUME SettingsInv, ApplyFails PROVE SettingsInv'
<1>1. /\ applying' = Nothing /\ dirty' = TRUE
      /\ UNCHANGED <<accounts, trash, plans, served, onDisk, missing, patched, known, dropped, doubled>>
  BY DEF ApplyFails, lists
<1> QED
  BY <1>1 DEF SettingsInv, SettingsTypeOK, NoAccountLost, OnePlace, RestartFindsAll, ServedKept

LEMMA VerifyBeginsKeeps == ASSUME SettingsInv, NEW m \in SUBSET People, VerifyBegins(m) PROVE SettingsInv'
<1>1. /\ missing' = {m}
      /\ UNCHANGED <<accounts, trash, plans, served, onDisk, applying, dirty, patched, known,
                     dropped, doubled>>
  BY DEF VerifyBegins, lists, ghosts
<1> QED
  BY <1>1 DEF SettingsInv, SettingsTypeOK, NoAccountLost, OnePlace, RestartFindsAll, ServedKept

\* A verification has found the missing accounts m, and moves them.
LEMMA VerifyEndsKeeps == ASSUME SettingsInv, NEW m \in SUBSET People, VerifyEnds(m) PROVE SettingsInv'
<1>1. /\ missing' = Nothing /\ doubled' = doubled \ m
      /\ UNCHANGED <<plans, served, applying, patched, known, dropped>>
  BY DEF VerifyEnds
<1>2. ServedKept' /\ SettingsTypeOK /\ plans' \subseteq Plans
  BY <1>1 DEF SettingsInv, ServedKept, SettingsTypeOK
<1>3. CASE m \cap accounts = {}
  <2>1. UNCHANGED <<accounts, trash, onDisk, dirty>>
    BY <1>3 DEF VerifyEnds
  <2>2. OnePlace'
    BY <1>1, <1>3, <2>1 DEF SettingsInv, OnePlace
  <2> QED
    BY <1>1, <1>2, <2>1, <2>2 DEF SettingsInv, SettingsTypeOK, NoAccountLost, RestartFindsAll
<1>4. CASE m \cap accounts # {}
  <2>1. accounts' = accounts \ m /\ trash' = trash \cup (m \cap accounts) /\ WriteFile
    BY <1>4 DEF VerifyEnds
  <2>2. accounts' \subseteq People /\ trash' \subseteq People
    BY <1>2, <2>1 DEF SettingsTypeOK
  <2>3. onDisk' \in Lists /\ dirty' \in BOOLEAN /\ RestartFindsAll'
    BY <1>2, <2>1, <2>2, Written
  <2>4. NoAccountLost' /\ OnePlace'
    BY <1>1, <2>1 DEF SettingsInv, NoAccountLost, OnePlace
  <2>5. SettingsTypeOK'
    BY <1>1, <1>2, <2>2, <2>3 DEF SettingsTypeOK
  <2> QED
    BY <1>2, <2>3, <2>4, <2>5 DEF SettingsInv
<1> QED
  BY <1>3, <1>4

LEMMA ArchiveKeeps == ASSUME SettingsInv, NEW p \in People, Archive(p) PROVE SettingsInv'
<1>1. UNCHANGED <<plans, served, applying, missing, patched, known, dropped>>
  BY DEF Archive
<1>2. ServedKept' /\ SettingsTypeOK
  BY <1>1 DEF SettingsInv, ServedKept
<1>3. CASE UNCHANGED <<accounts, trash, onDisk, dirty, doubled>>
  BY <1>1, <1>2, <1>3 DEF SettingsInv, SettingsTypeOK, NoAccountLost, OnePlace, RestartFindsAll
<1>4. CASE /\ accounts' = accounts \ {p} /\ trash' = trash \cup {p}
           /\ onDisk' = [accounts |-> accounts', trash |-> trash', plans |-> plans']
           /\ dirty' = FALSE
           /\ doubled' = doubled \ {p}
  <2>1. accounts' \in SUBSET People /\ trash' \in SUBSET People /\ plans' \in SUBSET Plans
    BY <1>1, <1>2, <1>4 DEF SettingsTypeOK
  <2>2. onDisk' \in Lists
    BY <1>4, <2>1, ListsTyped
  <2>3. SettingsTypeOK'
    BY <1>1, <1>2, <1>4, <2>1, <2>2 DEF SettingsTypeOK
  <2> QED
    BY <1>1, <1>2, <1>4, <2>3 DEF SettingsInv, NoAccountLost, OnePlace, RestartFindsAll, ServedKept
<1> QED
  BY <1>3, <1>4 DEF Archive

LEMMA MonitorAddsKeeps == ASSUME SettingsInv, NEW p \in People, MonitorAdds(p) PROVE SettingsInv'
<1>1. /\ accounts' = accounts \cup {p} /\ WriteFile
      /\ known' = known \cup {p} /\ dropped' = dropped \ {p}
      /\ doubled' = doubled \cup ({p} \cap trash)
      /\ UNCHANGED <<trash, plans, served, applying, missing, patched>>
  BY DEF MonitorAdds
<1>2. ServedKept' /\ SettingsTypeOK
  BY <1>1 DEF SettingsInv, ServedKept
<1>3. accounts' \subseteq People /\ trash' \subseteq People /\ plans' \subseteq Plans
  BY <1>1, <1>2 DEF SettingsTypeOK
<1>4. onDisk' \in Lists /\ dirty' \in BOOLEAN /\ RestartFindsAll'
  BY <1>1, <1>2, <1>3, Written
<1>5. SettingsTypeOK'
  BY <1>1, <1>2, <1>3, <1>4 DEF SettingsTypeOK
<1>6. NoAccountLost' /\ OnePlace'
  BY <1>1 DEF SettingsInv, NoAccountLost, OnePlace
<1> QED
  BY <1>2, <1>4, <1>5, <1>6 DEF SettingsInv

LEMMA BatchWritesKeeps == ASSUME SettingsInv, BatchWrites PROVE SettingsInv'
<1>1. /\ WriteFile
      /\ UNCHANGED <<accounts, trash, plans, served, applying, missing, patched, known, dropped, doubled>>
  BY DEF BatchWrites, lists
<1>2. ServedKept' /\ SettingsTypeOK
  BY <1>1 DEF SettingsInv, ServedKept
<1>3. accounts' \subseteq People /\ trash' \subseteq People /\ plans' \subseteq Plans
  BY <1>1, <1>2 DEF SettingsTypeOK
<1>4. onDisk' \in Lists /\ dirty' \in BOOLEAN /\ RestartFindsAll'
  BY <1>1, <1>2, <1>3, Written
<1> QED
  BY <1>1, <1>2, <1>4 DEF SettingsInv, SettingsTypeOK, NoAccountLost, OnePlace

LEMMA ChangeSchedulesKeeps == ASSUME SettingsInv, NEW now \in SUBSET Plans, ChangeSchedules(now) PROVE SettingsInv'
<1>1. /\ WriteFile /\ served' = now /\ plans' = now /\ patched' = FALSE
      /\ UNCHANGED <<accounts, trash, applying, missing, known, dropped, doubled>>
  BY DEF ChangeSchedules
<1>2. ServedKept' /\ SettingsTypeOK
  BY <1>1 DEF SettingsInv, ServedKept
<1>3. accounts' \subseteq People /\ trash' \subseteq People /\ plans' \subseteq Plans
  BY <1>1, <1>2 DEF SettingsTypeOK
<1>4. onDisk' \in Lists /\ dirty' \in BOOLEAN /\ RestartFindsAll'
  BY <1>1, <1>2, <1>3, Written
<1> QED
  BY <1>1, <1>2, <1>3, <1>4 DEF SettingsInv, SettingsTypeOK, NoAccountLost, OnePlace

LEMMA ServerStartsKeeps == ASSUME SettingsInv, ServerStarts PROVE SettingsInv'
<1>1. /\ accounts' = onDisk.accounts /\ trash' = onDisk.trash
      /\ plans' = onDisk.plans /\ served' = onDisk.plans
      /\ applying' = Nothing /\ missing' = Nothing
      /\ known' = (IF dirty \/ applying # Nothing THEN accounts' \cup trash' ELSE known)
      /\ dropped' = (IF dirty \/ applying # Nothing THEN {} ELSE dropped)
      /\ doubled' = accounts' \cap trash'
      /\ dirty' = FALSE /\ patched' = FALSE /\ onDisk' = onDisk
  BY DEF ServerStarts
<1>2. /\ onDisk \in Lists /\ accounts' \subseteq People /\ trash' \subseteq People /\ plans' \subseteq Plans
      /\ onDisk = [accounts |-> onDisk.accounts, trash |-> onDisk.trash, plans |-> onDisk.plans]
  BY <1>1 DEF SettingsInv, SettingsTypeOK, Lists
<1>3. SettingsTypeOK'
  BY <1>1, <1>2 DEF SettingsInv, SettingsTypeOK
\* Without a missing write, the file is what was in the memory.
<1>4. NoAccountLost'
  BY <1>1 DEF SettingsInv, NoAccountLost, RestartFindsAll
<1>5. OnePlace' /\ RestartFindsAll' /\ ServedKept'
  BY <1>1, <1>2 DEF OnePlace, RestartFindsAll, ServedKept
<1> QED
  BY <1>3, <1>4, <1>5 DEF SettingsInv

LEMMA SettingsStepsKeep == SettingsInv /\ [SettingsNext]_settingsVars => SettingsInv'
<1> SUFFICES ASSUME SettingsInv, [SettingsNext]_settingsVars PROVE SettingsInv'
  OBVIOUS
<1>1. CASE UNCHANGED settingsVars
  BY <1>1 DEF settingsVars, lists, ghosts, SettingsInv, SettingsTypeOK, NoAccountLost, OnePlace,
     RestartFindsAll, ServedKept
<1>2. ASSUME NEW l \in SUBSET People, NEW t \in SUBSET People, SavePage(l, t) PROVE SettingsInv'
  BY <1>2, SavePageKeeps
<1>3. ASSUME NEW m \in SUBSET People, VerifyBegins(m) \/ VerifyEnds(m) PROVE SettingsInv'
  BY <1>3, VerifyBeginsKeeps, VerifyEndsKeeps
<1>4. ASSUME NEW p \in People, Archive(p) \/ MonitorAdds(p) PROVE SettingsInv'
  BY <1>4, ArchiveKeeps, MonitorAddsKeeps
<1>5. ASSUME NEW d \in Lists, SaveText(d) PROVE SettingsInv'
  BY <1>5, SaveTextKeeps
<1>6. ASSUME NEW named \in Bodies, Patch(named) PROVE SettingsInv'
  BY <1>6, PatchKeeps
<1>7. ASSUME NEW now \in SUBSET Plans, ChangeSchedules(now) PROVE SettingsInv'
  BY <1>7, ChangeSchedulesKeeps
<1> QED
  BY <1>1, <1>2, <1>3, <1>4, <1>5, <1>6, <1>7, ApplyEndsKeeps, ApplyFailsKeeps,
     BatchWritesKeeps, ServerStartsKeeps DEF SettingsNext

-----------------------------------------------------------------------------
(* The theorems *)

LEMMA SettingsInvariance == SettingsSpec => []SettingsInv
  BY SettingsInitHolds, SettingsStepsKeep, PTL DEF SettingsSpec

\* Every state of the settings is well typed.
THEOREM SettingsTypeCorrect == SettingsSpec => []SettingsTypeOK
<1>1. SettingsInv => SettingsTypeOK
  BY DEF SettingsInv
<1> QED
  BY <1>1, SettingsInvariance, PTL

\* For any accounts and schedules, and however the writers, their failures and
\* restarts overlap, no account is lost or put in two places, and a restart
\* finds what was in the memory.
THEOREM SettingsKept == SettingsSpec => []SettingsHold
<1>1. SettingsInv => SettingsHold
  BY DEF SettingsInv, SettingsHold
<1> QED
  BY <1>1, SettingsInvariance, PTL

-----------------------------------------------------------------------------
(* ScheduleRunner: the inductive invariant.                                *)

\* The table of runners: what it holds was not cancelled and is not forgotten;
\* and unless a runner took another one's entry, nobody serves but the one in
\* the table, and an enabled schedule has one there.
Table ==
    /\ \A r \in Runners : runner[r] = "none" => ~Cancelled(r)
    /\ entry # NoRunner => ~Cancelled(entry) /\ runner[entry] # "none"
    /\ ~crossed => /\ \A r \in Runners : runner[r] \in Alive /\ ~Cancelled(r) => entry = r
                   /\ memory = "on" => entry # NoRunner

ScheduleInv == ScheduleTypeOK /\ Table /\ NoOverlap /\ AnswersAreDurable

\* What a step of a runner, or of a route that changes nothing, does to the
\* settings.
SavedOrNot == UNCHANGED stored \/ OnDisk(memory)

\* The types of what the runners are made of.
RunnersTyped ==
    /\ entry \in Runners \cup {NoRunner}
    /\ runner \in [Runners -> {"none", "ended"} \cup Alive]
    /\ stopper \in [Runners -> {"none", "disable", "delete"}]
    /\ crossed \in BOOLEAN

\* What is left of the types: the schedule, its file and its tasks.
RestTyped ==
    /\ kind \in {"account", "monitor"}
    /\ policy \in {"wait", "skip", "allow"}
    /\ memory \in Forms /\ file \in Forms
    /\ unsaved \in BOOLEAN
    /\ scheduled \in 0..MaxTasks /\ retried \in 0..1
    /\ starts \in 0..MaxStarts

\* The two together are the type invariant of ScheduleRunner.
LEMMA ScheduleTypes == ScheduleTypeOK <=> RunnersTyped /\ RestTyped
BY DEF ScheduleTypeOK, RunnersTyped, RestTyped

-----------------------------------------------------------------------------
(* ScheduleRunner: runners.                                                *)

\* A runner that was not cancelled goes on to its next await.
LEMMA MovesOn ==
    ASSUME RunnersTyped, Table, NEW r \in Runners, ~Cancelled(r), runner[r] \in Alive,
           NEW s \in Alive, runner' = [runner EXCEPT ![r] = s],
           UNCHANGED <<entry, crossed, stopper, memory>>
    PROVE  RunnersTyped' /\ Table'
<1>1. RunnersTyped'
    BY DEF RunnersTyped
<1>2. Table'
    BY DEF RunnersTyped, Table, Cancelled, Alive, Asleep
<1> QED BY <1>1, <1>2

\* Out of the loop: of a disabled schedule, or cancelled.
LEMMA LeaveLoopKeeps ==
    ASSUME RunnersTyped, Table, NEW r \in Runners, runner[r] \in Alive,
           memory # "on" \/ Cancelled(r), LeaveLoop(r), UNCHANGED <<stopper, memory>>
    PROVE  RunnersTyped' /\ Table'
<1>1. /\ entry' = NoRunner
      /\ crossed' = (crossed \/ entry \notin {r, NoRunner})
      /\ \E s \in {"none", "ended"} : /\ runner' = [runner EXCEPT ![r] = s]
                                      /\ Cancelled(r) => s = "ended"
    <2>1. runner' = [runner EXCEPT ![r] = IF Cancelled(r) \/ NoRunner = r THEN "ended" ELSE "none"]
        BY DEF LeaveLoop, Done
    <2>2. CASE Cancelled(r) \/ NoRunner = r
        BY <2>1, <2>2 DEF LeaveLoop
    <2>3. CASE ~(Cancelled(r) \/ NoRunner = r)
        BY <2>1, <2>3 DEF LeaveLoop
    <2> QED BY <2>2, <2>3
<1>2. PICK s \in {"none", "ended"} : /\ runner' = [runner EXCEPT ![r] = s]
                                     /\ Cancelled(r) => s = "ended"
    BY <1>1
<1>3. RunnersTyped'
    BY <1>1, <1>2 DEF RunnersTyped
<1>4. \A q \in Runners : runner'[q] = (IF q = r THEN s ELSE runner[q]) /\ stopper'[q] = stopper[q]
    BY <1>2 DEF RunnersTyped
<1>5. Table'
    <2>1. r # NoRunner /\ entry' = NoRunner /\ runner[r] # "none" /\ s \notin Alive
        BY <1>1, <1>2, ScheduleAssumption DEF Alive, Asleep
    <2>2. \A q \in Runners : runner'[q] = "none" => ~Cancelled(q)'
        BY <1>2, <1>4, <2>1 DEF Table, Cancelled
    <2>3. ASSUME ~crossed' PROVE ~crossed /\ entry \in {r, NoRunner}
        BY <1>1, <2>3 DEF RunnersTyped
    <2>4. ASSUME ~crossed', NEW q \in Runners, runner'[q] \in Alive, ~Cancelled(q)'
          PROVE  FALSE
        BY <1>4, <2>1, <2>3, <2>4, ScheduleAssumption DEF Table, Cancelled
    <2>5. ~crossed' => memory' # "on"
        BY <2>3 DEF Table
    <2> QED BY <2>1, <2>2, <2>4, <2>5 DEF Table
<1> QED BY <1>3, <1>5

\* A runner that ends with an exception or uncaught cancellation.
LEMMA EscapeKeeps ==
    ASSUME RunnersTyped, Table, NEW r \in Runners, runner[r] \in Alive,
           Escape(r), UNCHANGED <<stopper, memory>>
    PROVE  RunnersTyped' /\ Table'
<1>1. UNCHANGED <<entry, crossed>>
      /\ runner' = [runner EXCEPT ![r] = IF Cancelled(r) \/ entry = r THEN "ended" ELSE "none"]
    BY DEF Escape, Done
<1>2. PICK s \in {"none", "ended"} : /\ runner' = [runner EXCEPT ![r] = s]
                                     /\ Cancelled(r) \/ entry = r => s = "ended"
    <2>1. CASE Cancelled(r) \/ entry = r
        BY <1>1, <2>1
    <2>2. CASE ~(Cancelled(r) \/ entry = r)
        BY <1>1, <2>2
    <2> QED BY <2>1, <2>2
<1>3. RunnersTyped'
    BY <1>1, <1>2 DEF RunnersTyped
<1>4. \A q \in Runners : runner'[q] = (IF q = r THEN s ELSE runner[q]) /\ stopper'[q] = stopper[q]
    BY <1>2 DEF RunnersTyped
<1>5. Table'
    BY <1>1, <1>2, <1>4 DEF RunnersTyped, Table, Cancelled, Alive, Asleep
<1> QED BY <1>3, <1>5

\* The end of a turn of the loop writes the file and sleeps, or escapes.
LEMMA RecordedKeeps ==
    ASSUME RunnersTyped, Table, NEW r \in Runners, ~Cancelled(r), runner[r] \in Alive,
           Recorded(r), UNCHANGED <<stopper, memory>>
    PROVE  /\ RunnersTyped' /\ Table'
           /\ SavedOrNot
<1>1. "sleeping" \in Alive
    BY DEF Alive, Asleep
<1>2. CASE /\ OnDisk(memory) /\ runner' = [runner EXCEPT ![r] = "sleeping"]
           /\ UNCHANGED <<entry, crossed>>
    BY <1>1, <1>2, MovesOn DEF SavedOrNot
<1>3. CASE UNCHANGED stored /\ Escape(r)
    BY <1>3, EscapeKeeps DEF SavedOrNot
<1> QED BY <1>2, <1>3 DEF Recorded

\* A step of a runner: it writes the memory to the file or leaves the file, and
\* adds a task when it may.
LEMMA TurnKeeps ==
    ASSUME ScheduleInv, RunnersTyped', Table',
           UNCHANGED <<kind, policy, memory, starts, stopper, retried>>,
           SavedOrNot,
           scheduled' = scheduled \/ (Enqueue /\ (~Active \/ policy = "allow"))
    PROVE  ScheduleInv'
<1>1. RunnersTyped /\ RestTyped
    BY ScheduleTypes DEF ScheduleInv
<1>2. RestTyped'
    <2>1. file' \in Forms /\ unsaved' \in BOOLEAN
        BY <1>1 DEF RestTyped, SavedOrNot, OnDisk, stored
    <2> QED BY <1>1, <2>1, ScheduleAssumption DEF RestTyped, Enqueue
<1>3. NoOverlap'
    BY <1>1 DEF RestTyped, ScheduleInv, NoOverlap, Enqueue, Active
<1>4. AnswersAreDurable'
    BY DEF ScheduleInv, AnswersAreDurable, Cancelled, SavedOrNot, OnDisk, stored
<1>5. ScheduleTypeOK'
    BY <1>2 DEF ScheduleTypeOK, RunnersTyped, RestTyped
<1> QED BY <1>3, <1>4, <1>5 DEF ScheduleInv

\* The steps of a runner.
LEMMA RunnerStepKeeps ==
    ASSUME ScheduleInv, NEW r \in Runners, RunnerStep(r) PROVE ScheduleInv'
<1>1. RunnersTyped /\ Table
    BY ScheduleTypes DEF ScheduleInv
<1>2. {"created", "sleeping", "waiting", "monitoring", "notifying"} \subseteq Alive
    BY DEF Alive, Asleep
<1>3. CASE Begin(r)
    <2>1. RunnersTyped' /\ Table'
        BY <1>1, <1>2, <1>3, MovesOn DEF Begin
    <2> QED BY <1>3, <2>1, TurnKeeps DEF Begin, durable, tasks, SavedOrNot
<1>4. CASE Due(r)
    <2>1. /\ runner[r] \in Alive /\ ~Cancelled(r)
          /\ UNCHANGED <<kind, policy, memory, starts, stopper, retried>>
        BY <1>2, <1>4 DEF Due
    <2>2. CASE memory # "on" /\ LeaveLoop(r) /\ UNCHANGED <<stored, scheduled>>
        BY <1>1, <2>1, <2>2, LeaveLoopKeeps, TurnKeeps DEF SavedOrNot
    <2>3. CASE /\ runner' = [runner EXCEPT ![r] = "monitoring"]
               /\ UNCHANGED <<stored, entry, crossed, scheduled>>
        BY <1>1, <1>2, <2>1, <2>3, MovesOn, TurnKeeps DEF SavedOrNot
    <2>4. CASE Enqueue /\ (~Active \/ policy = "allow") /\ Recorded(r)
        BY <1>1, <2>1, <2>4, RecordedKeeps, TurnKeeps
    <2>5. CASE Recorded(r) /\ UNCHANGED scheduled
        BY <1>1, <2>1, <2>5, RecordedKeeps, TurnKeeps
    <2>6. CASE /\ OnDisk(memory) /\ UNCHANGED <<entry, crossed, scheduled>>
               /\ runner' = [runner EXCEPT ![r] = "waiting"]
        BY <1>1, <1>2, <2>1, <2>6, MovesOn, TurnKeeps DEF SavedOrNot
    <2>7. CASE UNCHANGED <<stored, scheduled>> /\ Escape(r)
        BY <1>1, <2>1, <2>7, EscapeKeeps, TurnKeeps DEF SavedOrNot
    <2> QED BY <1>4, <2>2, <2>3, <2>4, <2>5, <2>6, <2>7 DEF Due
<1>5. CASE Poll(r)
    <2>1. /\ runner[r] \in Alive /\ ~Cancelled(r)
          /\ UNCHANGED <<kind, policy, memory, starts, stopper, retried>>
        BY <1>2, <1>5 DEF Poll
    <2>2. CASE memory # "on" /\ LeaveLoop(r) /\ UNCHANGED <<stored, scheduled>>
        BY <1>1, <2>1, <2>2, LeaveLoopKeeps, TurnKeeps DEF SavedOrNot
    <2>3. CASE ~Active /\ Enqueue /\ Recorded(r)
        BY <1>1, <2>1, <2>3, RecordedKeeps, TurnKeeps
    <2> QED BY <1>5, <2>2, <2>3 DEF Poll
<1>6. CASE Monitored(r)
    <2>1. RunnersTyped' /\ Table'
        BY <1>1, <1>2, <1>6, MovesOn DEF Monitored
    <2> QED BY <1>6, <2>1, TurnKeeps DEF Monitored, durable, tasks, SavedOrNot
<1>7. CASE Notified(r)
    <2>1. /\ runner[r] \in Alive /\ ~Cancelled(r) /\ Recorded(r)
          /\ UNCHANGED <<kind, policy, memory, starts, stopper, scheduled, retried>>
        BY <1>2, <1>7 DEF Notified, tasks
    <2> QED BY <1>1, <2>1, RecordedKeeps, TurnKeeps
<1>8. CASE Unwind(r)
    <2>1. RunnersTyped' /\ Table'
        BY <1>1, <1>8, LeaveLoopKeeps, EscapeKeeps DEF Unwind
    <2> QED BY <1>8, <2>1, TurnKeeps DEF Unwind, durable, tasks, SavedOrNot
<1> QED BY <1>3, <1>4, <1>5, <1>6, <1>7, <1>8 DEF RunnerStep

-----------------------------------------------------------------------------
(* ScheduleRunner: routes.                                                 *)

\* A schedule is enabled: the runner in the table goes on, or there is a new one.
LEMMA StartSingleKeeps ==
    ASSUME RunnersTyped, Table, StartSingle, UNCHANGED <<crossed, stopper>>, memory' = "on"
    PROVE  RunnersTyped' /\ Table'
<1>1. CASE entry # NoRunner
    <2>1. UNCHANGED <<entry, runner>>
        BY <1>1 DEF StartSingle
    <2> QED BY <1>1, <2>1 DEF RunnersTyped, Table, Cancelled
<1>2. CASE entry = NoRunner
    <2>1. /\ entry' \in Runners /\ runner[entry'] = "none"
          /\ runner' = [runner EXCEPT ![entry'] = "created"]
        BY <1>2 DEF StartSingle, NewRunner
    <2>2. RunnersTyped'
        BY <2>1 DEF RunnersTyped, Alive
    <2>3. entry' # NoRunner
        BY <2>1, ScheduleAssumption
    <2>4. \A q \in Runners : /\ runner'[q] = IF q = entry' THEN "created" ELSE runner[q]
                             /\ stopper'[q] = stopper[q]
        BY <2>1 DEF RunnersTyped
    <2>5. \A q \in Runners : ~crossed => ~(runner[q] \in Alive /\ ~Cancelled(q))
        BY <1>2, ScheduleAssumption DEF Table
    <2>6. Table'
        BY <2>1, <2>3, <2>4, <2>5 DEF Table, Cancelled
    <2> QED BY <2>2, <2>6
<1> QED BY <1>1, <1>2

\* A schedule that is not enabled has no runner that starts.
LEMMA NotEnabledKeeps ==
    ASSUME RunnersTyped, Table, UNCHANGED <<entry, runner, crossed, stopper>>, memory' # "on"
    PROVE  RunnersTyped' /\ Table'
BY DEF RunnersTyped, Table, Cancelled

\* A route that changes the schedule writes it, or knows that it did not.
LEMMA PersistKeeps ==
    ASSUME NEW form \in Forms, file \in Forms, Persist(form)
    PROVE  /\ file' \in Forms /\ unsaved' \in BOOLEAN
           /\ unsaved' \/ file' = form
BY DEF Persist, OnDisk

\* A new schedule.
LEMMA EnlistedKeeps ==
    ASSUME ScheduleInv, NEW form \in {"on", "off"}, Enlisted(form) PROVE ScheduleInv'
<1>1. RunnersTyped /\ Table /\ RestTyped
    BY ScheduleTypes DEF ScheduleInv
<1>2. /\ memory' = form /\ Persist(form) /\ form \in Forms
      /\ UNCHANGED <<kind, policy, starts, stopper, crossed, scheduled, retried>>
      /\ IF form = "on" THEN StartSingle ELSE UNCHANGED <<entry, runner>>
    BY DEF Enlisted, tasks, Forms
<1>3. RunnersTyped' /\ Table'
    BY <1>1, <1>2, StartSingleKeeps, NotEnabledKeeps
<1>4. /\ file' \in Forms /\ unsaved' \in BOOLEAN
      /\ unsaved' \/ file' = memory'
    BY <1>1, <1>2, PersistKeeps DEF RestTyped
<1>5. ScheduleTypeOK'
    BY <1>1, <1>2, <1>3, <1>4 DEF ScheduleTypeOK, RunnersTyped, RestTyped
<1>6. NoOverlap' /\ AnswersAreDurable'
    BY <1>2, <1>4 DEF ScheduleInv, NoOverlap, AnswersAreDurable
<1> QED BY <1>3, <1>5, <1>6 DEF ScheduleInv

\* Enabling.
LEMMA EnableKeeps == ASSUME ScheduleInv, Enable PROVE ScheduleInv'
<1>1. RunnersTyped /\ Table /\ RestTyped
    BY ScheduleTypes DEF ScheduleInv
<1>2. /\ memory' = "on" /\ Persist("on") /\ "on" \in Forms /\ StartSingle
      /\ UNCHANGED <<kind, policy, starts, stopper, crossed, scheduled, retried>>
    BY DEF Enable, tasks, Forms
<1>3. RunnersTyped' /\ Table'
    BY <1>1, <1>2, StartSingleKeeps
<1>4. /\ file' \in Forms /\ unsaved' \in BOOLEAN
      /\ unsaved' \/ file' = memory'
    BY <1>1, <1>2, PersistKeeps DEF RestTyped
<1>5. ScheduleTypeOK'
    BY <1>1, <1>2, <1>3, <1>4 DEF ScheduleTypeOK, RunnersTyped, RestTyped
<1>6. NoOverlap' /\ AnswersAreDurable'
    BY <1>2, <1>4 DEF ScheduleInv, NoOverlap, AnswersAreDurable
<1> QED BY <1>3, <1>5, <1>6 DEF ScheduleInv

\* Disabling and deleting: the runner leaves the table and is cancelled, and
\* the file is written now or by the route that waits for it.
LEMMA StopKeeps ==
    ASSUME ScheduleInv, NEW how \in {"disable", "delete"}, StopRunner(how),
           memory' \in {"off", "deleted"},
           UNCHANGED <<kind, policy, starts, runner, crossed, tasks>>
    PROVE  ScheduleInv'
<1>1. RunnersTyped /\ Table /\ RestTyped
    BY ScheduleTypes DEF ScheduleInv
<1>2. CASE entry = NoRunner
    <2>1. Persist(memory') /\ memory' \in Forms /\ UNCHANGED <<entry, stopper>>
        BY <1>2 DEF StopRunner, Forms
    <2>0. /\ file' \in Forms /\ unsaved' \in BOOLEAN
          /\ unsaved' \/ file' = memory'
        BY <1>1, <2>1, PersistKeeps DEF RestTyped
    <2>2. RunnersTyped' /\ Table'
        BY <1>1, <2>1, NotEnabledKeeps
    <2>3. ScheduleTypeOK'
        BY <1>1, <2>0, <2>1, <2>2 DEF ScheduleTypeOK, RunnersTyped, RestTyped, tasks
    <2>4. NoOverlap' /\ AnswersAreDurable'
        BY <2>0 DEF ScheduleInv, NoOverlap, AnswersAreDurable, tasks
    <2> QED BY <2>2, <2>3, <2>4 DEF ScheduleInv
<1>3. CASE entry # NoRunner
    <2>1. /\ entry' = NoRunner /\ stopper' = [stopper EXCEPT ![entry] = how]
          /\ UNCHANGED <<file, unsaved>> /\ entry \in Runners
        BY <1>1, <1>3 DEF StopRunner, RunnersTyped, stored
    <2>2. stopper'[entry] = how /\ \A q \in Runners : q # entry => stopper'[q] = stopper[q]
        BY <1>1, <2>1 DEF RunnersTyped
    <2>3. RunnersTyped'
        BY <1>1, <2>1 DEF RunnersTyped
    <2>4. Table'
        <3>1. \A q \in Runners : runner'[q] = "none" => ~Cancelled(q)'
            BY <1>1, <1>3, <2>1, <2>2 DEF Table, Cancelled
        <3>2. ASSUME ~crossed', NEW q \in Runners, runner'[q] \in Alive, ~Cancelled(q)'
              PROVE  FALSE
            BY <1>1, <2>1, <2>2, <3>2 DEF Table, Cancelled
        <3> QED BY <2>1, <3>1, <3>2 DEF Table
    <2>5. ScheduleTypeOK'
        BY <1>1, <2>1, <2>3 DEF ScheduleTypeOK, RunnersTyped, RestTyped, Forms, tasks
    <2>6. NoOverlap' /\ AnswersAreDurable'
        BY <2>1, <2>2 DEF ScheduleInv, NoOverlap, AnswersAreDurable, Cancelled, tasks
    <2> QED BY <2>4, <2>5, <2>6 DEF ScheduleInv
<1> QED BY <1>2, <1>3

\* The awaited runner has ended.
LEMMA AnswerKeeps == ASSUME ScheduleInv, NEW r \in Runners, Answer(r) PROVE ScheduleInv'
<1>1. RunnersTyped /\ Table /\ RestTyped
    BY ScheduleTypes DEF ScheduleInv
<1>2. /\ Cancelled(r) /\ runner[r] = "ended" /\ Persist(memory)
      /\ stopper' = [stopper EXCEPT ![r] = "none"]
      /\ runner' = [runner EXCEPT ![r] = "none"]
      /\ UNCHANGED <<kind, policy, memory, starts, entry, crossed, scheduled, retried>>
    BY DEF Answer, tasks
<1>3. RunnersTyped'
    BY <1>1, <1>2 DEF RunnersTyped
<1>4. \A q \in Runners : /\ runner'[q] = IF q = r THEN "none" ELSE runner[q]
                         /\ stopper'[q] = IF q = r THEN "none" ELSE stopper[q]
    BY <1>1, <1>2 DEF RunnersTyped
<1>5. Table'
    BY <1>1, <1>2, <1>4 DEF RunnersTyped, Table, Cancelled, Alive, Asleep
<1>6. /\ file' \in Forms /\ unsaved' \in BOOLEAN
      /\ unsaved' \/ file' = memory
    BY <1>1, <1>2, PersistKeeps DEF RestTyped
<1>7. ScheduleTypeOK'
    BY <1>1, <1>2, <1>3, <1>6 DEF ScheduleTypeOK, RunnersTyped, RestTyped
<1>8. NoOverlap' /\ AnswersAreDurable'
    BY <1>2, <1>6 DEF ScheduleInv, NoOverlap, AnswersAreDurable
<1> QED BY <1>5, <1>7, <1>8 DEF ScheduleInv

\* Another change of the settings writes the schedules they hold.
LEMMA SettingsChangeKeeps ==
    ASSUME ScheduleInv,
           NEW form \in {"off", "on", "deleted"}, WriteSettings(form)
    PROVE  ScheduleInv'
<1>1. RunnersTyped /\ Table /\ RestTyped
    BY ScheduleTypes DEF ScheduleInv
<1>2. /\ UNCHANGED <<kind, policy, memory, starts, running, scheduled, retried>>
      /\ file' \in Forms /\ unsaved' = TRUE
    BY DEF WriteSettings, tasks, Forms
<1>3. RunnersTyped' /\ Table'
    BY <1>1, <1>2 DEF RunnersTyped, Table, Cancelled, running
<1>4. ScheduleTypeOK'
    BY <1>1, <1>2, <1>3 DEF ScheduleTypeOK, RunnersTyped, RestTyped
<1>5. NoOverlap' /\ AnswersAreDurable'
    BY <1>2 DEF ScheduleInv, NoOverlap, AnswersAreDurable, Cancelled, running
<1> QED BY <1>3, <1>4, <1>5 DEF ScheduleInv

\* Runs that are asked for, retries and ends of tasks leave the runners alone.
LEMMA TasksKeep ==
    ASSUME ScheduleInv, RunNow \/ MonitorRan \/ Retry \/ TaskEnds PROVE ScheduleInv'
<1>1. RunnersTyped /\ Table /\ RestTyped
    BY ScheduleTypes DEF ScheduleInv
<1>2. /\ UNCHANGED <<kind, policy, memory, starts, running>>
      /\ SavedOrNot
      /\ \/ scheduled' = scheduled
         \/ Enqueue /\ (~Active \/ policy = "allow")
         \/ scheduled > 0 /\ scheduled' = scheduled - 1
      /\ retried' \in {retried, 1} \/ (retried > 0 /\ retried' = retried - 1)
    BY DEF RunNow, MonitorRan, Retry, TaskEnds, durable, tasks, SavedOrNot
<1>3. RunnersTyped' /\ Table'
    BY <1>1, <1>2 DEF RunnersTyped, Table, Cancelled, running
<1>4. RestTyped'
    <2>1. file' \in Forms /\ unsaved' \in BOOLEAN
        BY <1>1, <1>2 DEF RestTyped, SavedOrNot, OnDisk, stored
    <2> QED BY <1>1, <1>2, <2>1, ScheduleAssumption DEF RestTyped, Enqueue
<1>5. NoOverlap'
    BY <1>1, <1>2 DEF RestTyped, ScheduleInv, NoOverlap, Enqueue, Active
<1>6. AnswersAreDurable'
    BY <1>2 DEF ScheduleInv, AnswersAreDurable, Cancelled, running, SavedOrNot, OnDisk, stored
<1>7. ScheduleTypeOK'
    BY <1>3, <1>4 DEF ScheduleTypeOK, RunnersTyped, RestTyped
<1> QED BY <1>3, <1>5, <1>6, <1>7 DEF ScheduleInv

\* The server starts again with what is in the file.
LEMMA ScheduleRestartKeeps == ASSUME ScheduleInv, Restart PROVE ScheduleInv'
<1>1. RunnersTyped /\ Table /\ RestTyped
    BY ScheduleTypes DEF ScheduleInv
<1>2. /\ starts < MaxStarts /\ starts' = starts + 1
      /\ memory' = file /\ unsaved' = FALSE
      /\ stopper' = [r \in Runners |-> "none"] /\ crossed' = FALSE
      /\ entry' = IF file = "on" THEN CHOOSE r \in Runners : TRUE ELSE NoRunner
      /\ runner' = [r \in Runners |-> IF r = entry' THEN "created" ELSE "none"]
      /\ UNCHANGED <<kind, policy, file, scheduled, retried>>
    BY DEF Restart, tasks
<1>3. entry' \in Runners \cup {NoRunner} /\ (file = "on" => entry' \in Runners)
    BY <1>2, ScheduleAssumption
<1>4. RunnersTyped'
    BY <1>2, <1>3 DEF RunnersTyped, Alive
<1>5. Table'
    <2>1. \A r \in Runners : stopper'[r] = "none" /\ runner'[r] = IF r = entry' THEN "created" ELSE "none"
        BY <1>2
    <2>0. memory' = file
        BY <1>2
    <2>2. memory' = "on" => entry' # NoRunner
        <3>1. ASSUME memory' = "on" PROVE entry' \in Runners
            BY <1>3, <2>0, <3>1
        <3>2. NoRunner \notin Runners
            BY ScheduleAssumption
        <3> QED BY <3>1, <3>2
    <2>3. entry' # NoRunner => entry' \in Runners
        BY <1>3
    <2> QED BY <2>1, <2>2, <2>3 DEF Table, Cancelled, Alive, Asleep
<1>6. ScheduleTypeOK'
    <2>1. /\ memory' = file /\ unsaved' = FALSE
          /\ UNCHANGED <<kind, policy, file, scheduled, retried>>
        BY <1>2
    <2>2. starts' \in 0..MaxStarts
        BY <1>1, <1>2, ScheduleAssumption DEF RestTyped
    <2>3. RestTyped'
        BY <1>1, <2>1, <2>2 DEF RestTyped
    <2> QED BY <1>4, <2>3 DEF ScheduleTypeOK, RunnersTyped, RestTyped
<1>7. NoOverlap' /\ AnswersAreDurable'
    BY <1>2 DEF ScheduleInv, NoOverlap, AnswersAreDurable
<1> QED BY <1>5, <1>6, <1>7 DEF ScheduleInv

-----------------------------------------------------------------------------
(* ScheduleRunner: the theorems.                                           *)

\* Before the first schedule.
LEMMA ScheduleInitHolds == ScheduleInit => ScheduleInv
<1> SUFFICES ASSUME ScheduleInit PROVE ScheduleInv
    OBVIOUS
<1>1. ScheduleTypeOK
    <2>1. 0 \in 0..MaxTasks /\ 0 \in 0..MaxStarts /\ 0 \in 0..1
        BY ScheduleAssumption
    <2> QED BY <2>1 DEF ScheduleInit, Normalized, ScheduleTypeOK, Forms
<1>2. Table
    <2>1. \A r \in Runners : runner[r] = "none" /\ stopper[r] = "none"
        BY DEF ScheduleInit
    <2>2. entry = NoRunner /\ memory = "none"
        BY DEF ScheduleInit
    <2>3. "none" \notin Alive
        BY DEF Alive, Asleep
    <2> QED BY <2>1, <2>2, <2>3 DEF Table, Cancelled
<1>3. NoOverlap /\ AnswersAreDurable
    BY DEF ScheduleInit, NoOverlap, AnswersAreDurable
<1> QED BY <1>1, <1>2, <1>3 DEF ScheduleInv

\* Every step keeps the invariant.
LEMMA ScheduleStepsKeep == ScheduleInv /\ [ScheduleNext]_scheduleVars => ScheduleInv'
<1> SUFFICES ASSUME ScheduleInv, [ScheduleNext]_scheduleVars PROVE ScheduleInv'
    OBVIOUS
<1>1. ASSUME NEW form \in {"on", "off"}, Create(form) \/ CreateMonitor(form)
      PROVE  ScheduleInv'
    BY <1>1, EnlistedKeeps DEF Create, CreateMonitor
<1>2. CASE Disable \/ Delete
    BY <1>2, StopKeeps DEF Disable, Delete
<1>3. CASE UNCHANGED scheduleVars
    BY <1>3 DEF scheduleVars, durable, stored, running, tasks, ScheduleInv, ScheduleTypeOK,
                Table, Cancelled, NoOverlap, AnswersAreDurable
<1>4. CASE Route
    BY <1>1, <1>2, <1>4, EnableKeeps, TasksKeep, SettingsChangeKeeps DEF Route
<1> QED BY <1>3, <1>4, RunnerStepKeeps, AnswerKeeps, TasksKeep, ScheduleRestartKeeps
        DEF ScheduleNext

\* The invariant holds always.
LEMMA ScheduleInvariance == ScheduleSpec => []ScheduleInv
BY ScheduleInitHolds, ScheduleStepsKeep, PTL DEF ScheduleSpec

\* Every variable has its type (the fields of ScheduleRunner).
THEOREM ScheduleTypeCorrect == ScheduleSpec => []ScheduleTypeOK
<1>1. ScheduleInv => ScheduleTypeOK
    BY DEF ScheduleInv
<1> QED BY <1>1, ScheduleInvariance, PTL

\* A schedule is served by the one runner of its table unless a runner that
\* unwound late took another one's entry (_ui_schedule_runner), it never has
\* two runs of its own under "wait" and "skip", and what a route answered is in
\* the settings file: for any number of runners, tasks and restarts.
THEOREM ScheduleKept == ScheduleSpec => []SchedulesKept
<1>1. ScheduleInv => SchedulesKept
    <2> SUFFICES ASSUME ScheduleInv PROVE RunnersMatch
        BY DEF ScheduleInv, SchedulesKept
    <2> SUFFICES ASSUME ~crossed
                 PROVE  /\ memory = "on" => Serving # {} \/ (entry # NoRunner /\ runner[entry] = "ended")
                        /\ Cardinality(Serving) <= 1
        BY DEF RunnersMatch
    <2>1. RunnersTyped /\ Table
        BY ScheduleTypes DEF ScheduleInv
    <2>2. Serving \subseteq {entry}
        BY <2>1 DEF Table, Serving
    <2>3. IsFiniteSet({entry}) /\ Cardinality({entry}) = 1
        BY FS_Singleton
    <2>4. Cardinality(Serving) <= 1
        BY <2>2, <2>3, FS_Subset
    <2>5. ASSUME memory = "on" PROVE Serving # {} \/ (entry # NoRunner /\ runner[entry] = "ended")
        <3>1. entry \in Runners /\ entry # NoRunner /\ ~Cancelled(entry) /\ runner[entry] # "none"
            BY <2>1, <2>5 DEF RunnersTyped, Table
        <3>2. runner[entry] = "ended" \/ runner[entry] \in Alive
            BY <2>1, <3>1 DEF RunnersTyped
        <3> QED BY <3>1, <3>2 DEF Serving
    <2> QED BY <2>4, <2>5
<1> QED BY <1>1, ScheduleInvariance, PTL

-----------------------------------------------------------------------------
(* LoginBrowser: the inductive invariant.                                  *)

\* The one display: whoever has x11vnc or Chromium running has Xvfb, too, and
\* nobody else has.
Display ==
    /\ \A a, b \in xvfb : a = b
    /\ vnc \subseteq xvfb /\ browser \subseteq xvfb
    /\ \A a \in Attempts : stage[a] \in {"vnc", "launching", "up"} => a \in xvfb

\* The lock: it is with the start that launches, and the session is up.
LockHeld ==
    /\ \A a \in Attempts : stage[a] \in Launch => opener = a
    /\ \A a \in Attempts : session = a => stage[a] = "up"

\* A capture has read the row of its session, which only the create route
\* edits before it is over.
Captures ==
    \A a \in Attempts :
        /\ capture[a] = "reading" => session = a /\ opener = 0
        /\ capture[a] # "none" => stage[a] \notin {"none"} \cup Starting
        /\ capture[a] # "none" /\ session = a
              => seen[a] = edits[whose[a]] \/ a \in overwritten

\* The relay of a session is that of its viewer.
Relays == \A a \in Attempts : relays[a] <= 1 /\ (relays[a] = 1 => viewer[a])

\* A crawl of an identity whose browser is up or started began during a start.
CrawlsRaced ==
    \A a \in Attempts : (stage[a] \in Starting \/ session = a) /\ whose[a] \in crawling
                            => whose[a] \in raced

BrowserInv == BrowserTypeOK /\ Display /\ LockHeld /\ Captures /\ Relays /\ CrawlsRaced

\* No attempt is the 0 that stands for none.
LEMMA AttemptsCount == 0 \notin Attempts /\ IsFiniteSet(Attempts)
<1> DEFINE n == Cardinality(Attempts)
<1>1. n \in Nat
    BY BrowserAssumption, FS_CardinalityType
<1>2. Attempts = 1..n
    BY BrowserAssumption
<1> HIDE DEF n
<1>3. 0 \notin Attempts
    BY <1>1, <1>2
<1> QED BY <1>3, BrowserAssumption

\* What follows from where an attempt stands, in a form that suits the provers.
LEMMA StagesApart ==
    /\ Launch = {"reaping", "xvfb", "vnc", "launching"}
    /\ Starting = {"asked", "reaping", "xvfb", "vnc", "launching"}
    /\ BrowserStages = {"none", "up", "closing", "reaped", "over",
                        "asked", "reaping", "xvfb", "vnc", "launching"}
BY DEF Launch, Starting, BrowserStages

-----------------------------------------------------------------------------
(* LoginBrowser: the actions.                                              *)

\* The start route.
LEMMA AskKeeps ==
    ASSUME BrowserInv, NEW a \in Attempts, NEW i \in Accounts, Ask(a, i) PROVE BrowserInv'
<1>1. /\ stage[a] = "none" /\ (Current(i) \/ i \notin crawling)
      /\ stage' = [stage EXCEPT ![a] = "asked"] /\ whose' = [whose EXCEPT ![a] = i]
      /\ UNCHANGED <<session, opener, xvfb, vnc, browser, late, capture, seen, edits, overwritten,
                     tickets, viewer, relays, crawling, raced>>
    BY DEF Ask, processes, capturing, viewing, crawl
<1>2. BrowserTypeOK'
    BY <1>1, StagesApart DEF BrowserInv, BrowserTypeOK
<1>3. \A b \in Attempts : /\ stage'[b] = IF b = a THEN "asked" ELSE stage[b]
                          /\ whose'[b] = IF b = a THEN i ELSE whose[b]
    BY <1>1 DEF BrowserInv, BrowserTypeOK
<1>4. Display' /\ LockHeld'
    BY <1>1, <1>3, StagesApart DEF BrowserInv, Display, LockHeld
<1>5. Captures'
    BY <1>1, <1>3, StagesApart DEF BrowserInv, Captures, LockHeld
<1>6. Relays'
    BY <1>1 DEF BrowserInv, Relays
<1>7. i \in crawling => i \in raced
    <2>1. Current(i) => session \in Attempts /\ whose[session] = i
        BY DEF Current, Locked, BrowserInv, BrowserTypeOK
    <2> QED BY <1>1, <2>1 DEF BrowserInv, CrawlsRaced
<1>8. CrawlsRaced'
    BY <1>1, <1>3, <1>7, StagesApart DEF BrowserInv, CrawlsRaced, LockHeld
<1> QED BY <1>2, <1>4, <1>5, <1>6, <1>8 DEF BrowserInv

\* The display is taken by nobody or by one.
LEMMA Spawned ==
    ASSUME BrowserInv, NEW a \in Attempts, SpawnXvfb(a)
    PROVE  /\ xvfb' \subseteq Attempts /\ xvfb \subseteq xvfb'
           /\ \A b, c \in xvfb' : b = c
BY DEF BrowserInv, BrowserTypeOK, Display, SpawnXvfb

\* The lock is free: a start enters.
LEMMA EnterKeeps ==
    ASSUME BrowserInv, NEW a \in Attempts, Enter(a) PROVE BrowserInv'
<1>1. /\ stage[a] = "asked" /\ opener = 0 /\ \A b \in Attempts : capture[b] # "reading"
      /\ UNCHANGED <<whose, vnc, browser, late, capture, seen, edits, overwritten, tickets, viewer,
                     relays, crawling, raced>>
    BY DEF Enter, LockFree, capturing, viewing, crawl
<1>2. \A b \in Attempts : stage[b] \notin Launch
    BY <1>1, AttemptsCount DEF BrowserInv, LockHeld
<1>3. Relays'
    BY <1>1 DEF BrowserInv, Relays
<1>4. CASE /\ stage' = [stage EXCEPT ![a] = "over"] /\ UNCHANGED <<session, opener, xvfb>>
    <2>1. BrowserTypeOK'
        BY <1>1, <1>4, StagesApart DEF BrowserInv, BrowserTypeOK
    <2>2. \A b \in Attempts : stage'[b] = IF b = a THEN "over" ELSE stage[b]
        BY <1>4 DEF BrowserInv, BrowserTypeOK
    <2>3. Display' /\ LockHeld' /\ Captures' /\ CrawlsRaced'
        BY <1>1, <1>4, <2>2, StagesApart
           DEF BrowserInv, Display, LockHeld, Captures, CrawlsRaced
    <2> QED BY <1>3, <2>1, <2>3 DEF BrowserInv
<1>5. CASE /\ session # 0
           /\ stage' = [stage EXCEPT ![a] = "reaping", ![session] = "reaped"]
           /\ session' = 0 /\ opener' = a /\ UNCHANGED xvfb
    <2>1. session \in Attempts /\ stage[session] = "up" /\ session # a
        BY <1>1, <1>5 DEF BrowserInv, BrowserTypeOK, LockHeld
    <2>2. \A b \in Attempts : stage'[b] = IF b = session THEN "reaped"
                                          ELSE IF b = a THEN "reaping" ELSE stage[b]
        BY <1>5, <2>1 DEF BrowserInv, BrowserTypeOK
    <2>3. BrowserTypeOK'
        BY <1>1, <1>5, <2>1, StagesApart DEF BrowserInv, BrowserTypeOK
    <2>d. \A b \in Attempts : stage'[b] \in {"vnc", "launching", "up"}
                                => stage[b] \in {"vnc", "launching", "up"}
        BY <2>2
    <2>e. xvfb' = xvfb /\ vnc' = vnc /\ browser' = browser
        BY <1>1, <1>5
    <2>4. Display'
        BY <2>d, <2>e DEF BrowserInv, Display
    <2>a. session' = 0 /\ opener' = a /\ \A b \in Attempts : session' # b
        BY <1>5, AttemptsCount
    <2>b. \A b \in Attempts : /\ stage'[b] \in Launch => b = a
                              /\ stage'[b] \in Starting <=> b = a \/ stage[b] \in Starting
                              /\ stage'[b] \in {"none"} \cup Starting
                                    => stage[b] \in {"none"} \cup Starting
        BY <1>1, <1>2, <2>1, <2>2, StagesApart
    <2>5. LockHeld'
        BY <2>a, <2>b DEF LockHeld
    <2>6. Captures'
        BY <1>1, <2>a, <2>b DEF BrowserInv, Captures
    <2>c. stage[a] \in Starting
        BY <1>1, StagesApart
    <2>7. CrawlsRaced'
        BY <1>1, <2>a, <2>b, <2>c DEF BrowserInv, CrawlsRaced
    <2> QED BY <1>3, <2>3, <2>4, <2>5, <2>6, <2>7 DEF BrowserInv
<1>6. CASE /\ session = 0 /\ stage' = [stage EXCEPT ![a] = "xvfb"] /\ opener' = a
           /\ SpawnXvfb(a) /\ UNCHANGED session
    <2>1. \A b \in Attempts : stage'[b] = IF b = a THEN "xvfb" ELSE stage[b]
        BY <1>6 DEF BrowserInv, BrowserTypeOK
    <2>2. BrowserTypeOK'
        BY <1>1, <1>6, Spawned, StagesApart DEF BrowserInv, BrowserTypeOK
    <2>3. Display'
        BY <1>1, <1>6, <2>1, Spawned, StagesApart DEF BrowserInv, Display
    <2>4. LockHeld' /\ Captures' /\ CrawlsRaced'
        BY <1>1, <1>2, <1>6, <2>1, StagesApart, AttemptsCount
           DEF BrowserInv, LockHeld, Captures, CrawlsRaced
    <2> QED BY <1>3, <2>2, <2>3, <2>4 DEF BrowserInv
<1> QED BY <1>4, <1>5, <1>6 DEF Enter

\* The expired session is gone: the launch begins.
LEMMA ReapedKeeps ==
    ASSUME BrowserInv, NEW a \in Attempts, Reaped(a) PROVE BrowserInv'
<1>1. /\ stage[a] = "reaping" /\ stage' = [stage EXCEPT ![a] = "xvfb"] /\ SpawnXvfb(a)
      /\ UNCHANGED <<session, whose, opener, vnc, browser, late, capture, seen, edits, overwritten,
                     tickets, viewer, relays, crawling, raced>>
    BY DEF Reaped, capturing, viewing, crawl
<1>2. \A b \in Attempts : stage'[b] = IF b = a THEN "xvfb" ELSE stage[b]
    BY <1>1 DEF BrowserInv, BrowserTypeOK
<1>3. BrowserTypeOK'
    BY <1>1, Spawned, StagesApart DEF BrowserInv, BrowserTypeOK
<1>4. Display'
    BY <1>1, <1>2, Spawned, StagesApart DEF BrowserInv, Display
<1>5. LockHeld' /\ Captures' /\ Relays' /\ CrawlsRaced'
    BY <1>1, <1>2, StagesApart DEF BrowserInv, LockHeld, Captures, Relays, CrawlsRaced
<1> QED BY <1>3, <1>4, <1>5 DEF BrowserInv

\* A step of a launch, or its failure.
LEMMA LaunchedKeeps ==
    ASSUME BrowserInv, NEW a \in Attempts, Launched(a) PROVE BrowserInv'
<1>1. /\ stage[a] \in {"xvfb", "vnc", "launching"} /\ opener = a
      /\ UNCHANGED <<whose, xvfb, late, capture, seen, edits, overwritten, tickets, viewer, relays,
                     crawling, raced>>
    BY StagesApart DEF Launched, capturing, viewing, crawl, BrowserInv, LockHeld
<1>2. \A b \in Attempts : capture[b] # "reading" /\ (b # a => stage[b] \notin Launch)
    BY <1>1, AttemptsCount DEF BrowserInv, Captures, LockHeld
<1>3. capture[a] = "none"
    BY <1>1, StagesApart DEF BrowserInv, Captures
<1>4. Relays'
    BY <1>1 DEF BrowserInv, Relays
<1>5. CASE /\ stage[a] = "xvfb" /\ a \in xvfb /\ stage' = [stage EXCEPT ![a] = "vnc"]
           /\ vnc' = vnc \cup {a} /\ UNCHANGED <<session, opener, browser>>
    <2>1. \A b \in Attempts : stage'[b] = IF b = a THEN "vnc" ELSE stage[b]
        BY <1>5 DEF BrowserInv, BrowserTypeOK
    <2>2. BrowserTypeOK'
        BY <1>1, <1>5, StagesApart DEF BrowserInv, BrowserTypeOK
    <2>3. Display' /\ LockHeld' /\ Captures' /\ CrawlsRaced'
        BY <1>1, <1>5, <2>1, StagesApart
           DEF BrowserInv, Display, LockHeld, Captures, CrawlsRaced
    <2> QED BY <1>4, <2>2, <2>3 DEF BrowserInv
<1>6. CASE /\ stage[a] = "vnc" /\ stage' = [stage EXCEPT ![a] = "launching"]
           /\ browser' = browser \cup {a} /\ UNCHANGED <<session, opener, vnc>>
    <2>1. \A b \in Attempts : stage'[b] = IF b = a THEN "launching" ELSE stage[b]
        BY <1>6 DEF BrowserInv, BrowserTypeOK
    <2>2. BrowserTypeOK'
        BY <1>1, <1>6, StagesApart DEF BrowserInv, BrowserTypeOK
    <2>3. Display' /\ LockHeld' /\ Captures' /\ CrawlsRaced'
        BY <1>1, <1>6, <2>1, StagesApart
           DEF BrowserInv, Display, LockHeld, Captures, CrawlsRaced
    <2> QED BY <1>4, <2>2, <2>3 DEF BrowserInv
<1>7. CASE /\ stage[a] = "launching" /\ stage' = [stage EXCEPT ![a] = "up"]
           /\ session' = a /\ opener' = 0 /\ UNCHANGED <<vnc, browser>>
    <2>1. \A b \in Attempts : stage'[b] = IF b = a THEN "up" ELSE stage[b]
        BY <1>7 DEF BrowserInv, BrowserTypeOK
    <2>2. BrowserTypeOK'
        BY <1>1, <1>7, StagesApart DEF BrowserInv, BrowserTypeOK
    <2>3. Display' /\ LockHeld'
        BY <1>1, <1>2, <1>7, <2>1, StagesApart DEF BrowserInv, Display, LockHeld
    <2>4. Captures'
        BY <1>1, <1>2, <1>3, <1>7, <2>1, StagesApart DEF BrowserInv, Captures
    <2>5. CrawlsRaced'
        BY <1>1, <1>7, <2>1, StagesApart DEF BrowserInv, CrawlsRaced
    <2> QED BY <1>4, <2>2, <2>3, <2>4, <2>5 DEF BrowserInv
<1>8. CASE /\ stage' = [stage EXCEPT ![a] = "closing"]
           /\ UNCHANGED <<session, opener, vnc, browser>>
    <2>1. \A b \in Attempts : stage'[b] = IF b = a THEN "closing" ELSE stage[b]
        BY <1>8 DEF BrowserInv, BrowserTypeOK
    <2>2. BrowserTypeOK'
        BY <1>1, <1>8, StagesApart DEF BrowserInv, BrowserTypeOK
    <2>3. Display' /\ LockHeld' /\ Captures' /\ CrawlsRaced'
        BY <1>1, <1>3, <1>8, <2>1, StagesApart
           DEF BrowserInv, Display, LockHeld, Captures, CrawlsRaced
    <2> QED BY <1>4, <2>2, <2>3 DEF BrowserInv
<1> QED BY <1>5, <1>6, <1>7, <1>8 DEF Launched

\* The session is taken away from a free lock.
LEMMA TakeSessionKeeps ==
    ASSUME BrowserInv, NEW s \in Attempts, TakeSession(s) PROVE BrowserInv'
<1>1. /\ session = s /\ opener = 0 /\ \A b \in Attempts : capture[b] # "reading"
      /\ session' = 0 /\ stage' = [stage EXCEPT ![s] = "closing"]
      /\ UNCHANGED <<whose, opener, xvfb, vnc, browser, late, capture, seen, edits, overwritten,
                     tickets, viewer, relays, crawling, raced>>
    BY DEF TakeSession, LockFree, processes, capturing, viewing, crawl
<1>2. \A b \in Attempts : stage'[b] = IF b = s THEN "closing" ELSE stage[b]
    BY <1>1 DEF BrowserInv, BrowserTypeOK
<1>3. BrowserTypeOK'
    BY <1>1, StagesApart DEF BrowserInv, BrowserTypeOK
<1>4. Display' /\ LockHeld' /\ Captures' /\ Relays' /\ CrawlsRaced'
    BY <1>1, <1>2, StagesApart, AttemptsCount
       DEF BrowserInv, Display, LockHeld, Captures, Relays, CrawlsRaced
<1> QED BY <1>3, <1>4 DEF BrowserInv

\* The end of the processes, Chromium and x11vnc before Xvfb.
LEMMA CleanUpKeeps ==
    ASSUME BrowserInv, NEW a \in Attempts, CleanUp(a) PROVE BrowserInv'
<1>1. /\ stage[a] \in {"closing", "reaped"}
      /\ UNCHANGED <<session, whose, late, capture, seen, edits, overwritten, tickets, viewer, relays,
                     crawling, raced>>
    BY DEF CleanUp, capturing, viewing, crawl
<1>2. Relays'
    BY <1>1 DEF BrowserInv, Relays
<1>3. CASE /\ xvfb' = xvfb /\ vnc' \subseteq vnc /\ browser' \subseteq browser
           /\ UNCHANGED <<stage, opener>>
    <2>1. BrowserTypeOK'
        BY <1>1, <1>3 DEF BrowserInv, BrowserTypeOK
    <2>2. Display' /\ LockHeld' /\ Captures' /\ CrawlsRaced'
        BY <1>1, <1>3 DEF BrowserInv, Display, LockHeld, Captures, CrawlsRaced
    <2> QED BY <1>2, <2>1, <2>2 DEF BrowserInv
<1>4. CASE /\ a \notin browser /\ a \notin vnc /\ xvfb' = xvfb \ {a}
           /\ stage' = [stage EXCEPT ![a] = "over"]
           /\ opener' = IF opener = a THEN 0 ELSE opener
           /\ UNCHANGED <<vnc, browser>>
    <2>1. \A b \in Attempts : stage'[b] = IF b = a THEN "over" ELSE stage[b]
        BY <1>4 DEF BrowserInv, BrowserTypeOK
    <2>2. BrowserTypeOK'
        BY <1>1, <1>4, StagesApart DEF BrowserInv, BrowserTypeOK
    <2>3. Display' /\ LockHeld'
        BY <1>1, <1>4, <2>1, StagesApart DEF BrowserInv, Display, LockHeld
    <2>4. Captures' /\ CrawlsRaced'
        BY <1>1, <1>4, <2>1, StagesApart DEF BrowserInv, Captures, CrawlsRaced, LockHeld
    <2> QED BY <1>2, <2>2, <2>3, <2>4 DEF BrowserInv
<1> QED BY <1>3, <1>4 DEF CleanUp

\* The capture route reads the row, the browser, and is through.
LEMMA SignInCaptureKeeps ==
    ASSUME BrowserInv, NEW s \in Attempts, AskCapture(s) \/ Read(s) \/ Captured(s)
    PROVE  BrowserInv'
<1>1. UNCHANGED <<edits, session, stage, whose, opener, xvfb, vnc, browser, late,
                  tickets, viewer, relays, crawling, raced>>
    BY DEF AskCapture, Read, Captured, manager, processes, viewing, crawl
<1>2. Display' /\ LockHeld' /\ Relays' /\ CrawlsRaced'
    BY <1>1 DEF BrowserInv, Display, LockHeld, Relays, CrawlsRaced
<1>3. CASE AskCapture(s)
    <2>1. /\ session = s /\ capture' = [capture EXCEPT ![s] = "asked"]
          /\ seen' = [seen EXCEPT ![s] = edits[whose[s]]]
          /\ overwritten' = overwritten \ {s}
        BY <1>3 DEF AskCapture
    <2>2. BrowserTypeOK'
        BY <1>1, <2>1 DEF BrowserInv, BrowserTypeOK
    <2>3. Captures'
        BY <1>1, <2>1, StagesApart DEF BrowserInv, BrowserTypeOK, LockHeld, Captures
    <2> QED BY <1>2, <2>2, <2>3 DEF BrowserInv
<1>4. CASE Read(s)
    <2>1. PICK c \in {"reading", "none"} :
              /\ capture' = [capture EXCEPT ![s] = c]
              /\ c = "reading" => session = s
        <3>1. CASE session = s /\ s \notin late
            BY <1>4, <3>1 DEF Read
        <3>2. CASE ~(session = s /\ s \notin late)
            BY <1>4, <3>2 DEF Read
        <3> QED BY <3>1, <3>2
    <2>2. capture[s] = "asked" /\ opener = 0 /\ UNCHANGED <<seen, overwritten>>
        BY <1>4 DEF Read, LockFree
    <2>3. BrowserTypeOK'
        BY <1>1, <2>1, <2>2 DEF BrowserInv, BrowserTypeOK
    <2>4. Captures'
        BY <1>1, <2>1, <2>2 DEF BrowserInv, BrowserTypeOK, Captures
    <2> QED BY <1>2, <2>3, <2>4 DEF BrowserInv
<1>5. CASE Captured(s)
    <2>1. /\ capture' = [capture EXCEPT ![s] = "none"] /\ UNCHANGED seen
          /\ overwritten' = overwritten \ {s}
        BY <1>5 DEF Captured
    <2>2. BrowserTypeOK'
        BY <1>1, <2>1 DEF BrowserInv, BrowserTypeOK
    <2>3. Captures'
        BY <1>1, <2>1 DEF BrowserInv, BrowserTypeOK, Captures
    <2> QED BY <1>2, <2>2, <2>3 DEF BrowserInv
<1> QED BY <1>3, <1>4, <1>5

\* An edit of an identity, which the session of that identity refuses, or an
\* overwrite, which its capture is marked with.
LEMMA EditKeeps ==
    ASSUME BrowserInv, NEW i \in Accounts, Edit(i) \/ Overwrite(i) PROVE BrowserInv'
<1>1. /\ edits[i] < MaxEdits /\ edits' = [edits EXCEPT ![i] = @ + 1]
      /\ UNCHANGED <<capture, seen, session, stage, whose, opener, xvfb, vnc, browser,
                     late, tickets, viewer, relays, crawling, raced>>
    BY DEF Edit, Overwrite, manager, processes, viewing, crawl
<1>2. /\ overwritten \subseteq overwritten' /\ overwritten' \subseteq Attempts
      /\ \A a \in Attempts : session = a /\ capture[a] # "none" /\ whose[a] = i => a \in overwritten'
    <2>1. CASE Edit(i)
        <3>1. overwritten' = overwritten /\ \A a \in Attempts : session = a => whose[a] # i
            BY <2>1, AttemptsCount DEF Edit, Locked
        <3> QED BY <3>1 DEF BrowserInv, BrowserTypeOK
    <2>2. CASE Overwrite(i)
        BY <2>2 DEF Overwrite, BrowserInv, BrowserTypeOK
    <2> QED BY <2>1, <2>2
<1>3. BrowserTypeOK'
    <2>1. edits' \in [Accounts -> 0..MaxEdits]
        BY <1>1, BrowserAssumption DEF BrowserInv, BrowserTypeOK
    <2> QED BY <1>1, <1>2, <2>1 DEF BrowserInv, BrowserTypeOK
<1>4. Captures'
    <2>1. \A a \in Attempts : whose[a] # i => edits'[whose[a]] = edits[whose[a]]
        BY <1>1 DEF BrowserInv, BrowserTypeOK
    <2> QED BY <1>1, <1>2, <2>1 DEF BrowserInv, Captures
<1>5. Display' /\ LockHeld' /\ Relays' /\ CrawlsRaced'
    BY <1>1 DEF BrowserInv, Display, LockHeld, Relays, CrawlsRaced
<1> QED BY <1>3, <1>4, <1>5 DEF BrowserInv

\* Tickets, viewers and time.
LEMMA ViewerKeeps ==
    ASSUME BrowserInv, NEW s \in Attempts,
           IssueTicket(s) \/ TicketExpires(s) \/ BeginViewer(s) \/ EndViewer(s) \/ TimePasses(s)
    PROVE  BrowserInv'
<1>1. UNCHANGED <<session, stage, whose, opener, xvfb, vnc, browser, capture, seen, edits, overwritten,
                  crawling, raced>>
    BY DEF IssueTicket, TicketExpires, BeginViewer, EndViewer, TimePasses,
           manager, processes, capturing, crawl
<1>2. Display' /\ LockHeld' /\ Captures' /\ CrawlsRaced'
    BY <1>1 DEF BrowserInv, Display, LockHeld, Captures, CrawlsRaced
<1>3. late' \subseteq Attempts /\ tickets' \in [Attempts -> 0..1]
    BY DEF IssueTicket, TicketExpires, BeginViewer, EndViewer, TimePasses, viewing,
           BrowserInv, BrowserTypeOK
<1>4. /\ viewer' \in [Attempts -> BOOLEAN] /\ relays' \in [Attempts -> 0..2]
      /\ Relays'
    <2>1. CASE BeginViewer(s)
        <3>1. /\ viewer' = [viewer EXCEPT ![s] = TRUE]
              /\ relays' = [relays EXCEPT ![s] = IF viewer[s] THEN @ ELSE @ + 1]
            BY <2>1 DEF BeginViewer
        <3> QED BY <3>1 DEF BrowserInv, BrowserTypeOK, Relays
    <2>2. CASE EndViewer(s)
        <3>1. /\ relays[s] > 0 /\ relays' = [relays EXCEPT ![s] = @ - 1]
              /\ \E v \in BOOLEAN : viewer' = [viewer EXCEPT ![s] = v]
            BY <2>2 DEF EndViewer, BrowserInv, BrowserTypeOK
        <3> QED BY <3>1 DEF BrowserInv, BrowserTypeOK, Relays
    <2>3. CASE IssueTicket(s) \/ TicketExpires(s) \/ TimePasses(s)
        BY <2>3 DEF IssueTicket, TicketExpires, TimePasses, viewing, BrowserInv,
                    BrowserTypeOK, Relays
    <2> QED BY <2>1, <2>2, <2>3
<1>5. BrowserTypeOK'
    BY <1>1, <1>3, <1>4 DEF BrowserInv, BrowserTypeOK
<1> QED BY <1>2, <1>4, <1>5 DEF BrowserInv

\* A crawl begins, which the session of its identity refuses, or ends.
LEMMA CrawlKeeps ==
    ASSUME BrowserInv, NEW i \in Accounts, BeginCrawl(i) \/ EndCrawl(i) PROVE BrowserInv'
<1>1. UNCHANGED <<session, stage, whose, opener, xvfb, vnc, browser, late, capture, seen,
                  edits, overwritten, tickets, viewer, relays>>
    BY DEF BeginCrawl, EndCrawl, manager, processes, capturing, viewing
<1>2. Display' /\ LockHeld' /\ Captures' /\ Relays'
    BY <1>1 DEF BrowserInv, Display, LockHeld, Captures, Relays
<1>3. BrowserTypeOK'
    BY <1>1 DEF BrowserInv, BrowserTypeOK, BeginCrawl, EndCrawl
<1>4. CrawlsRaced'
    <2>1. CASE BeginCrawl(i)
        <3>1. /\ crawling' = crawling \cup {i} /\ ~Locked(i)
              /\ raced \subseteq raced'
              /\ (\E a \in Attempts : whose[a] = i /\ stage[a] \in Starting) => i \in raced'
            BY <2>1 DEF BeginCrawl
        <3>2. \A a \in Attempts : session = a => whose[a] # i
            BY <3>1, AttemptsCount DEF Locked
        <3> QED BY <1>1, <3>1, <3>2 DEF BrowserInv, CrawlsRaced
    <2>2. CASE EndCrawl(i)
        BY <1>1, <2>2 DEF EndCrawl, BrowserInv, CrawlsRaced
    <2> QED BY <2>1, <2>2
<1> QED BY <1>2, <1>3, <1>4 DEF BrowserInv

-----------------------------------------------------------------------------
(* LoginBrowser: the theorems.                                             *)

\* Before the first start.
LEMMA BrowserInitHolds == BrowserInit => BrowserInv
<1> SUFFICES ASSUME BrowserInit PROVE BrowserInv
    OBVIOUS
<1>1. BrowserTypeOK
    <2>1. (CHOOSE i \in Accounts : TRUE) \in Accounts /\ 0 \in 0..MaxEdits
        BY BrowserAssumption
    <2> QED BY <2>1, StagesApart DEF BrowserInit, BrowserTypeOK
<1>2. Display /\ LockHeld /\ Captures /\ Relays /\ CrawlsRaced
    BY StagesApart, AttemptsCount
       DEF BrowserInit, Display, LockHeld, Captures, Relays, CrawlsRaced
<1> QED BY <1>1, <1>2 DEF BrowserInv

\* Every step keeps the invariant.
LEMMA BrowserStepsKeep == BrowserInv /\ [BrowserNext]_browserVars => BrowserInv'
<1> SUFFICES ASSUME BrowserInv, [BrowserNext]_browserVars PROVE BrowserInv'
    OBVIOUS
<1>1. CASE UNCHANGED browserVars
    BY <1>1 DEF browserVars, manager, processes, capturing, viewing, crawl, BrowserInv,
                BrowserTypeOK, Display, LockHeld, Captures, Relays, CrawlsRaced
<1>2. ASSUME NEW a \in Attempts, Manager(a) \/ StopBrowser(a) \/ AskCapture(a) PROVE BrowserInv'
    BY <1>2, EnterKeeps, ReapedKeeps, LaunchedKeeps, CleanUpKeeps, TakeSessionKeeps,
       SignInCaptureKeeps DEF Manager, StopBrowser, Expire
<1> QED BY <1>1, <1>2, AskKeeps, ViewerKeeps, EditKeeps, CrawlKeeps DEF BrowserNext

\* The invariant holds always.
LEMMA BrowserInvariance == BrowserSpec => []BrowserInv
BY BrowserInitHolds, BrowserStepsKeep, PTL DEF BrowserSpec

\* Every variable has its type (the fields of CollectorLoginBrowserManager).
THEOREM BrowserTypeCorrect == BrowserSpec => []BrowserTypeOK
<1>1. BrowserInv => BrowserTypeOK
    BY DEF BrowserInv
<1> QED BY <1>1, BrowserInvariance, PTL

\* A set without two different members has at most one.
LEMMA AtMostOne ==
    ASSUME NEW S, \A a, b \in S : a = b
    PROVE  Cardinality(S) <= 1
<1>1. CASE S = {}
    BY <1>1, FS_EmptySet
<1>2. CASE S # {}
    <2>1. PICK a : S = {a}
        BY <1>2
    <2> QED BY <2>1, FS_Singleton
<1> QED BY <1>1, <1>2

\* However starts, stops, expiries, captures, edits and crawls overlap, one
\* browser runs on the display, one viewer sees a session, no capture undoes an
\* edit but one of the create route, and no crawl that began after the launch of the browser shares its
\* account (start, stop and capture of login_browser.py, and their routes).
THEOREM BrowserOneUser == BrowserSpec => []OneUserAtATime
<1>1. BrowserInv => OneUserAtATime
    <2> SUFFICES ASSUME BrowserInv PROVE OneUserAtATime
        OBVIOUS
    <2>1. Cardinality(browser) <= 1 /\ Cardinality(vnc) <= 1
        BY AtMostOne DEF BrowserInv, Display
    <2>2. OneBrowserOneViewer
        BY <2>1 DEF BrowserInv, Relays, OneBrowserOneViewer
    <2>3. CaptureLosesNoEdit
        BY DEF BrowserInv, Captures, CaptureLosesNoEdit
    <2>4. BrowserExcludesCrawl
        BY DEF BrowserInv, BrowserTypeOK, CrawlsRaced, BrowserExcludesCrawl
    <2> QED BY <2>2, <2>3, <2>4 DEF OneUserAtATime
<1> QED BY <1>1, BrowserInvariance, PTL
-----------------------------------------------------------------------------
(* SharedSession: the inductive invariant.                                 *)

Calls == [at : CallAt, entry : 0..MaxEntries, session : 0..MaxSessions, second : BOOLEAN]

\* A call that does not rest refers to an entry that was made.
AtEntries == \A r \in Runtimes : call[r].at \notin {"rest", "closed"} => call[r].entry \in Entries

\* A session is created in an empty entry, by one runtime.
Creations ==
    \A r \in Runtimes : call[r].at = "create" =>
        /\ api[call[r].entry] = 0
        /\ \A q \in Runtimes : call[q].at = "create" /\ call[q].entry = call[r].entry => q = r

\* A session that somebody will close is in the entry that is registered.
InRegistry == \A s \in open : s \notin unclosed => registered # 0 /\ s = api[registered]

\* ... and a runtime that is not closed has the key.
Closers ==
    /\ \A r \in Runtimes : call[r].at = "closed" => r \notin keys
    /\ open \subseteq unclosed \/ keys # {}

SessionInv == SessionTypeOK /\ AtEntries /\ Creations /\ InRegistry /\ Closers

\* The numbers of the entries and of the sessions.
LEMMA SessionNumbers ==
    ASSUME SessionTypeOK
    PROVE  /\ MaxSessions \in Nat /\ MaxEntries \in Nat /\ created \in Nat /\ made \in Nat
           /\ registered \in Nat /\ registered \in 0..MaxEntries /\ 0 \in 0..created
           /\ registered # 0 => registered \in Entries
           /\ 0 \notin open
BY SessionAssumption DEF SessionTypeOK, Entries

\* What the calls become when one of them goes on.
LEMMA NowMoves ==
    ASSUME SessionTypeOK, NEW r \in Runtimes, NEW c \in Calls, Now(r, c)
    PROVE  /\ call' \in [Runtimes -> Calls]
           /\ \A q \in Runtimes : call'[q] = IF q = r THEN c ELSE call[q]
BY DEF SessionTypeOK, Now, Calls

\* A call at rest, with another field or two.
LEMMA QuietCalls ==
    ASSUME NEW at \in CallAt, NEW e \in 0..MaxEntries, NEW b \in BOOLEAN
    PROVE  LET c == [Quiet(at) EXCEPT !.entry = e, !.second = b]
           IN  c \in Calls /\ c.at = at /\ c.entry = e
<1>1. 0 \in 0..MaxSessions
    BY SessionAssumption
<1> QED BY <1>1 DEF Quiet, Calls

LEMMA QuietCall ==
    ASSUME NEW at \in CallAt
    PROVE  Quiet(at) \in Calls /\ Quiet(at).at = at
<1>1. 0 \in 0..MaxSessions /\ 0 \in 0..MaxEntries
    BY SessionAssumption
<1> QED BY <1>1 DEF Quiet, Calls

\* The steps that leave the sessions and the entries alone.
LEMMA MovesKeep ==
    ASSUME SessionInv, NEW r \in Runtimes, NEW c \in Calls, Now(r, c),
           UNCHANGED <<api, sessions>>,
           registered' \in 0..made', made' \in 0..MaxEntries,
           registered # 0 => registered' = registered,
           keys' \subseteq Runtimes, keys \subseteq keys',
           c.at \notin {"create", "closed"},
           \A q \in keys' : q \in keys \/ q = r,
           c.at # "rest" => c.entry \in Entries
    PROVE  SessionInv'
<1>1. /\ call' \in [Runtimes -> Calls]
      /\ \A q \in Runtimes : call'[q] = IF q = r THEN c ELSE call[q]
    BY NowMoves DEF SessionInv
<1>2. SessionTypeOK'
    BY <1>1 DEF SessionInv, SessionTypeOK, Calls, sessions
<1>3. AtEntries'
    BY <1>1 DEF SessionInv, AtEntries
<1>4. Creations'
    BY <1>1 DEF SessionInv, Creations
<1>5. InRegistry'
    BY DEF SessionInv, InRegistry, sessions
<1>6. Closers'
    BY <1>1 DEF SessionInv, Closers, sessions
<1> QED BY <1>2, <1>3, <1>4, <1>5, <1>6 DEF SessionInv

\* _entry_for_key: the registered entry, or a new one.
LEMMA LookupKeeps ==
    ASSUME SessionInv, NEW r \in Runtimes, NEW b \in BOOLEAN, Lookup(r, b),
           UNCHANGED <<sessions, keys>>
    PROVE  SessionInv'
<1> DEFINE e == IF registered = 0 THEN made + 1 ELSE registered
           c == [Quiet("get") EXCEPT !.entry = e, !.second = b]
<1>1. /\ e <= MaxEntries /\ registered' = e /\ made' = IF registered = 0 THEN e ELSE made
      /\ Now(r, c) /\ api' = api
    BY DEF Lookup
<1>2. /\ registered \in 0..made /\ made \in 0..MaxEntries /\ MaxEntries \in Nat
    BY SessionAssumption DEF SessionInv, SessionTypeOK
<1>3. e \in Entries /\ e \in 0..MaxEntries /\ registered' \in 0..made' /\ made' \in 0..MaxEntries
    BY <1>1, <1>2 DEF Entries
<1>a. 0 \in 0..MaxSessions /\ "get" \in CallAt
    BY SessionAssumption DEF CallAt
<1>5. registered # 0 => registered' = registered
    BY <1>1
<1> HIDE DEF e
<1>4. c \in Calls /\ c.at = "get" /\ c.entry = e
    BY <1>3, <1>a DEF Quiet, Calls
<1>6. keys' \subseteq Runtimes /\ keys \subseteq keys' /\ keys' \subseteq keys
    BY DEF SessionInv, SessionTypeOK
<1> HIDE DEF c, e
<1> QED BY <1>1, <1>3, <1>4, <1>5, <1>6, MovesKeep

\* The calls that only look, use or wait.
LEMMA LooksKeep ==
    ASSUME SessionInv, NEW r \in Runtimes,
           RunWithApi(r) \/ Reuse(r) \/ UseEnds(r) \/ NewRuntime(r)
    PROVE  SessionInv'
<1>0. /\ keys \subseteq Runtimes /\ registered \in 0..made /\ made \in 0..MaxEntries
    BY DEF SessionInv, SessionTypeOK
<1>1. CASE RunWithApi(r)
    BY <1>1, LookupKeeps DEF RunWithApi
<1>2. CASE Reuse(r)
    <2> DEFINE e == call[r].entry
               c == [call[r] EXCEPT !.at = "use", !.session = api[e]]
    <2>1. /\ call[r].at = "get" /\ keys' = keys \cup {r} /\ Now(r, c)
          /\ UNCHANGED <<entries, sessions>>
        BY <1>2 DEF Reuse
    <2>2. e \in Entries /\ call[r] \in Calls
        BY <2>1 DEF SessionInv, SessionTypeOK, AtEntries, Calls
    <2>3. api[e] \in 0..MaxSessions
        BY <2>2, SessionAssumption DEF SessionInv, SessionTypeOK
    <2>4. c \in Calls /\ c.at = "use" /\ c.entry = e
        BY <2>2, <2>3 DEF Calls, CallAt
    <2> HIDE DEF c, e
    <2> QED BY <1>0, <2>1, <2>2, <2>4, MovesKeep DEF entries
<1>3. CASE UseEnds(r)
    <2>1. CASE Now(r, Quiet("rest")) /\ UNCHANGED entries
        <3>1. Quiet("rest") \in Calls /\ Quiet("rest").at = "rest"
            BY QuietCall DEF CallAt
        <3> QED BY <1>0, <1>3, <2>1, <3>1, MovesKeep DEF UseEnds, entries
    <2>2. CASE registered = 0 /\ Lookup(r, TRUE)
        BY <1>3, <2>2, LookupKeeps DEF UseEnds
    <2>3. CASE /\ registered # 0 /\ UNCHANGED entries
               /\ Now(r, [Quiet("reset") EXCEPT !.entry = registered])
        <3> DEFINE c == [Quiet("reset") EXCEPT !.entry = registered]
        <3>1. registered \in 0..MaxEntries /\ registered \in Entries
            BY <1>0, <2>3, SessionAssumption DEF Entries
        <3>a. 0 \in 0..MaxSessions /\ "reset" \in CallAt
            BY SessionAssumption DEF CallAt
        <3>2. c \in Calls /\ c.at = "reset" /\ c.entry = registered
            BY <3>1, <3>a DEF Quiet, Calls
        <3>3. Now(r, c)
            BY <2>3
        <3> HIDE DEF c
        <3> QED BY <1>0, <1>3, <2>3, <3>1, <3>2, <3>3, MovesKeep DEF UseEnds, entries
    <2> QED BY <1>3, <2>1, <2>2, <2>3 DEF UseEnds
<1>4. CASE NewRuntime(r)
    <2>1. Quiet("rest") \in Calls /\ Quiet("rest").at = "rest"
        BY QuietCall DEF CallAt
    <2> QED BY <1>0, <1>4, <2>1, MovesKeep DEF NewRuntime, entries
<1> QED BY <1>1, <1>2, <1>3, <1>4

\* An entry is empty while a runtime makes its session, and keeps no other.
LEMMA RenewKeeps ==
    ASSUME SessionInv, NEW r \in Runtimes, Renew(r) PROVE SessionInv'
<1> DEFINE e == call[r].entry
           c == [call[r] EXCEPT !.at = "create"]
<1>1. /\ call[r].at = "get" /\ ~LockedEntry(e)
      /\ open' = open \ {api[e]} /\ api' = [api EXCEPT ![e] = 0] /\ Now(r, c)
      /\ UNCHANGED <<registered, made, created, unclosed, keys>>
    BY DEF Renew
<1>2. e \in Entries /\ c \in Calls /\ c.at = "create" /\ c.entry = e
    BY <1>1 DEF SessionInv, SessionTypeOK, AtEntries, Calls, CallAt
<1> HIDE DEF c
<1>3. /\ call' \in [Runtimes -> Calls]
      /\ \A q \in Runtimes : call'[q] = IF q = r THEN c ELSE call[q]
    BY <1>1, <1>2, NowMoves DEF SessionInv
<1>4. \A k \in Entries : api'[k] = IF k = e THEN 0 ELSE api[k]
    BY <1>1 DEF SessionInv, SessionTypeOK
<1>5. \A q \in Runtimes : call[q].at = "create" => call[q].entry # e
    BY <1>1 DEF LockedEntry
<1>a. api' \in [Entries -> 0..created]
    BY <1>1, SessionNumbers DEF SessionInv, SessionTypeOK
<1>6. SessionTypeOK'
    BY <1>1, <1>3, <1>a DEF SessionInv, SessionTypeOK, Calls
<1>7. AtEntries'
    BY <1>2, <1>3 DEF SessionInv, AtEntries
<1>8. Creations'
    BY <1>2, <1>3, <1>4, <1>5 DEF SessionInv, Creations, AtEntries
<1>9. InRegistry'
    BY <1>1, <1>4 DEF SessionInv, SessionTypeOK, InRegistry, Entries
<1>10. Closers'
    BY <1>1, <1>2, <1>3 DEF SessionInv, Closers
<1> QED BY <1>6, <1>7, <1>8, <1>9, <1>10 DEF SessionInv

\* A session is there.
LEMMA CreatedKeeps ==
    ASSUME SessionInv, NEW r \in Runtimes, Created(r) PROVE SessionInv'
<1> DEFINE e == call[r].entry
           s == created + 1
           c == [call[r] EXCEPT !.at = "use", !.session = s]
<1>1. /\ call[r].at = "create" /\ created < MaxSessions
      /\ created' = s /\ open' = open \cup {s} /\ api' = [api EXCEPT ![e] = s]
      /\ unclosed' = IF e = registered THEN unclosed ELSE unclosed \cup {s}
      /\ keys' = keys \cup {r} /\ Now(r, [call[r] EXCEPT !.at = "use", !.session = created'])
      /\ UNCHANGED <<registered, made>>
    BY DEF Created
<1>2. s \in 1..MaxSessions /\ created \in 0..MaxSessions /\ created \in Nat
    BY <1>1, SessionAssumption DEF SessionInv, SessionTypeOK
<1>a. call[r] \in Calls /\ e \in Entries /\ s \in 0..MaxSessions
    BY <1>1, <1>2 DEF SessionInv, SessionTypeOK, AtEntries, Calls
<1> HIDE DEF s
<1>3. e \in Entries /\ c \in Calls /\ c.at = "use" /\ c.entry = e
    BY <1>a DEF Calls, CallAt
<1>4. Now(r, c)
    BY <1>1
<1> HIDE DEF c
<1>5. /\ call' \in [Runtimes -> Calls]
      /\ \A q \in Runtimes : call'[q] = IF q = r THEN c ELSE call[q]
    BY <1>3, <1>4, NowMoves DEF SessionInv
<1>6. \A k \in Entries : api'[k] = IF k = e THEN s ELSE api[k]
    BY <1>1 DEF SessionInv, SessionTypeOK
<1>b. /\ created \in Nat /\ MaxSessions \in Nat /\ api \in [Entries -> 0..created]
      /\ open \subseteq 1..created /\ unclosed \subseteq 1..created /\ s = created + 1
    BY <1>1, SessionNumbers DEF SessionInv, SessionTypeOK, s
<1>c. /\ created' \in 0..MaxSessions /\ s \in 0..created' /\ s \in 1..created'
      /\ 0..created \subseteq 0..created' /\ 1..created \subseteq 1..created'
    BY <1>1, <1>2, <1>b
<1>d. api' \in [Entries -> 0..created']
    BY <1>1, <1>b, <1>c
<1>7. SessionTypeOK'
    BY <1>1, <1>5, <1>b, <1>c, <1>d DEF SessionInv, SessionTypeOK, Calls
<1>8. AtEntries'
    BY <1>3, <1>5 DEF SessionInv, AtEntries
<1>9. Creations'
    BY <1>1, <1>3, <1>5, <1>6 DEF SessionInv, Creations, AtEntries
<1>10. e = registered => open \subseteq unclosed
    <2>1. api[e] = 0 /\ 0 \notin open
        BY <1>1 DEF SessionInv, Creations, SessionTypeOK
    <2> QED BY <2>1 DEF SessionInv, InRegistry
<1>11. InRegistry'
    <2>1. registered # 0 => registered \in Entries
        BY SessionNumbers DEF SessionInv
    <2> QED BY <1>1, <1>3, <1>6, <1>10, <2>1 DEF SessionInv, InRegistry, Entries
<1>12. Closers'
    BY <1>1, <1>3, <1>5 DEF SessionInv, Closers
<1> QED BY <1>7, <1>8, <1>9, <1>11, <1>12 DEF SessionInv

\* A creation fails or is canceled, and may leave a session behind.
LEMMA CreateFailsKeeps ==
    ASSUME SessionInv, NEW r \in Runtimes, CreateFails(r) PROVE SessionInv'
<1> DEFINE c == Quiet("rest")
<1>1. /\ call[r].at = "create" /\ Now(r, c) /\ UNCHANGED <<registered, made, api, keys>>
      /\ \/ UNCHANGED sessions
         \/ /\ created < MaxSessions /\ created' = created + 1
            /\ open' = open \cup {created + 1} /\ unclosed' = unclosed \cup {created + 1}
    BY DEF CreateFails, entries
<1>2. c \in Calls /\ c.at = "rest"
    BY QuietCall DEF CallAt
<1> HIDE DEF c
<1>3. /\ call' \in [Runtimes -> Calls]
      /\ \A q \in Runtimes : call'[q] = IF q = r THEN c ELSE call[q]
    BY <1>1, <1>2, NowMoves DEF SessionInv
<1>a. /\ created' \in 0..MaxSessions /\ api' \in [Entries -> 0..created']
      /\ open' \subseteq 1..created' /\ unclosed' \subseteq 1..created'
    <2>1. CASE UNCHANGED sessions
        BY <1>1, <2>1 DEF SessionInv, SessionTypeOK, sessions
    <2>2. CASE /\ created < MaxSessions /\ created' = created + 1
               /\ open' = open \cup {created + 1} /\ unclosed' = unclosed \cup {created + 1}
        <3>1. /\ created \in Nat /\ MaxSessions \in Nat /\ api \in [Entries -> 0..created]
              /\ open \subseteq 1..created /\ unclosed \subseteq 1..created
            BY SessionNumbers DEF SessionInv, SessionTypeOK
        <3>2. created' \in 0..MaxSessions /\ 0..created \subseteq 0..created'
              /\ 1..created \subseteq 1..created' /\ created + 1 \in 1..created'
            BY <2>2, <3>1
        <3> QED BY <1>1, <2>2, <3>1, <3>2
    <2> QED BY <1>1, <2>1, <2>2
<1>4. SessionTypeOK'
    BY <1>1, <1>3, <1>a DEF SessionInv, SessionTypeOK, Calls
<1>5. AtEntries' /\ Creations'
    BY <1>1, <1>2, <1>3 DEF SessionInv, AtEntries, Creations
<1>6. InRegistry'
    BY <1>1 DEF SessionInv, InRegistry, sessions
<1>7. Closers'
    BY <1>1, <1>2, <1>3 DEF SessionInv, Closers, sessions
<1> QED BY <1>4, <1>5, <1>6, <1>7 DEF SessionInv

\* A broken session is closed, and the registry asked once more.
LEMMA ResetKeeps ==
    ASSUME SessionInv, NEW r \in Runtimes, Reset(r) PROVE SessionInv'
<1> DEFINE e == call[r].entry
           now == IF registered = 0 THEN made + 1 ELSE registered
           c == [Quiet("get") EXCEPT !.entry = now, !.second = TRUE]
<1>1. /\ call[r].at = "reset" /\ ~LockedEntry(e)
      /\ open' = open \ {api[e]} /\ api' = [api EXCEPT ![e] = 0]
      /\ now <= MaxEntries /\ registered' = now
      /\ made' = IF registered = 0 THEN now ELSE made
      /\ Now(r, c) /\ UNCHANGED <<created, unclosed, keys>>
    BY DEF Reset, CloseApi
<1>2. registered \in 0..made /\ made \in 0..MaxEntries /\ MaxEntries \in Nat /\ e \in Entries
    BY <1>1, SessionAssumption DEF SessionInv, SessionTypeOK, AtEntries
<1>3. now \in Entries /\ now \in 0..MaxEntries /\ registered' \in 0..made' /\ made' \in 0..MaxEntries
    BY <1>1, <1>2 DEF Entries
<1>a. "get" \in CallAt
    BY DEF CallAt
<1>4. c \in Calls /\ c.at = "get" /\ c.entry = now
    BY <1>3, <1>a, QuietCalls
<1> HIDE DEF c
<1>5. /\ call' \in [Runtimes -> Calls]
      /\ \A q \in Runtimes : call'[q] = IF q = r THEN c ELSE call[q]
    BY <1>1, <1>4, NowMoves DEF SessionInv
<1>6. \A k \in Entries : api'[k] = IF k = e THEN 0 ELSE api[k]
    BY <1>1 DEF SessionInv, SessionTypeOK
<1>b. api' \in [Entries -> 0..created]
    BY <1>1, SessionNumbers DEF SessionInv, SessionTypeOK
<1>7. SessionTypeOK'
    BY <1>1, <1>3, <1>5, <1>b DEF SessionInv, SessionTypeOK, Calls
<1>8. AtEntries'
    BY <1>3, <1>4, <1>5 DEF SessionInv, AtEntries
<1>9. Creations'
    BY <1>4, <1>5, <1>6 DEF SessionInv, Creations, AtEntries
<1>10. InRegistry'
    BY <1>1, <1>2, <1>6 DEF SessionInv, InRegistry, Entries
<1>11. Closers'
    BY <1>1, <1>4, <1>5 DEF SessionInv, Closers
<1> QED BY <1>7, <1>8, <1>9, <1>10, <1>11 DEF SessionInv

\* The end of a runtime.
LEMMA ShutKeeps ==
    ASSUME SessionInv, NEW r \in Runtimes, Shut(r) PROVE SessionInv'
<1>0. keys \subseteq Runtimes /\ registered \in 0..made /\ made \in 0..MaxEntries
    BY DEF SessionInv, SessionTypeOK
<1>1. CASE r \in keys /\ registered # 0
    <2> DEFINE c == [Quiet("shut") EXCEPT !.entry = registered]
    <2>1. Now(r, c) /\ UNCHANGED <<entries, sessions, keys>>
        BY <1>1 DEF Shut
    <2>2. registered \in 0..MaxEntries /\ registered \in Entries
        BY <1>0, <1>1, SessionAssumption DEF Entries
    <2>a. 0 \in 0..MaxSessions /\ "shut" \in CallAt
        BY SessionAssumption DEF CallAt
    <2>3. c \in Calls /\ c.at = "shut" /\ c.entry = registered
        BY <2>2, <2>a DEF Quiet, Calls
    <2> HIDE DEF c
    <2> QED BY <1>0, <2>1, <2>2, <2>3, MovesKeep DEF entries
<1>2. CASE ~(r \in keys /\ registered # 0)
    <2> DEFINE c == Quiet("closed")
    <2>1. call[r].at = "rest" /\ Now(r, c) /\ keys' = keys \ {r} /\ UNCHANGED <<entries, sessions>>
        BY <1>2 DEF Shut
    <2>2. c \in Calls /\ c.at = "closed"
        BY QuietCall DEF CallAt
    <2> HIDE DEF c
    <2>3. /\ call' \in [Runtimes -> Calls]
          /\ \A q \in Runtimes : call'[q] = IF q = r THEN c ELSE call[q]
        BY <2>1, <2>2, NowMoves DEF SessionInv
    <2>4. SessionTypeOK'
        BY <2>1, <2>3 DEF SessionInv, SessionTypeOK, Calls, sessions, entries
    <2>5. AtEntries' /\ Creations'
        BY <2>1, <2>2, <2>3 DEF SessionInv, AtEntries, Creations, entries
    <2>6. InRegistry'
        BY <2>1 DEF SessionInv, InRegistry, sessions, entries
    <2>7. Closers'
        BY <1>2, <2>1, <2>2, <2>3 DEF SessionInv, Closers, InRegistry, sessions
    <2> QED BY <2>4, <2>5, <2>6, <2>7 DEF SessionInv
<1> QED BY <1>1, <1>2

LEMMA ShutDownKeeps ==
    ASSUME SessionInv, NEW r \in Runtimes, ShutDown(r) PROVE SessionInv'
<1> DEFINE e == call[r].entry
           c == Quiet("closed")
<1>1. /\ call[r].at = "shut" /\ ~LockedEntry(e)
      /\ open' = open \ {api[e]} /\ api' = [api EXCEPT ![e] = 0] /\ registered' = 0
      /\ unclosed' = unclosed \cup ({api'[k] : k \in Entries} \ {0})
      /\ keys' = keys \ {r} /\ Now(r, c) /\ UNCHANGED <<made, created>>
    BY DEF ShutDown, CloseApi
<1>2. c \in Calls /\ c.at = "closed" /\ e \in Entries
    BY <1>1, QuietCall DEF CallAt, SessionInv, AtEntries
<1> HIDE DEF c
<1>3. /\ call' \in [Runtimes -> Calls]
      /\ \A q \in Runtimes : call'[q] = IF q = r THEN c ELSE call[q]
    BY <1>1, <1>2, NowMoves DEF SessionInv
<1>4. \A k \in Entries : api'[k] = IF k = e THEN 0 ELSE api[k]
    BY <1>1 DEF SessionInv, SessionTypeOK
<1>5. api' \in [Entries -> 0..created]
    BY <1>1, SessionNumbers DEF SessionInv, SessionTypeOK
<1>b. created \in Nat /\ unclosed \subseteq 1..created
    BY SessionNumbers DEF SessionInv, SessionTypeOK
<1>6. unclosed' \subseteq 1..created
    <2>1. \A k \in Entries : api'[k] \in 0..created
        BY <1>5
    <2>2. \A n \in 0..created : n # 0 => n \in 1..created
        BY <1>b
    <2> QED BY <1>1, <1>b, <2>1, <2>2
<1>a. registered' \in 0..made'
    BY <1>1 DEF SessionInv, SessionTypeOK
<1>7. SessionTypeOK'
    BY <1>1, <1>3, <1>5, <1>6, <1>a DEF SessionInv, SessionTypeOK, Calls
<1>8. AtEntries' /\ Creations'
    BY <1>1, <1>2, <1>3, <1>4 DEF SessionInv, AtEntries, Creations
<1>9. open' \subseteq unclosed'
    <2>1. ASSUME NEW s \in open', s \notin unclosed PROVE s \in unclosed'
        <3>1. registered \in Entries /\ s = api[registered] /\ s # api[e] /\ s # 0
            BY <1>1, <2>1, SessionNumbers DEF SessionInv, InRegistry
        <3>2. s = api'[registered]
            BY <1>4, <3>1
        <3> QED BY <1>1, <3>1, <3>2
    <2> QED BY <1>1, <2>1
<1>10. InRegistry' /\ Closers'
    BY <1>1, <1>2, <1>3, <1>9 DEF SessionInv, InRegistry, Closers
<1> QED BY <1>7, <1>8, <1>10 DEF SessionInv

-----------------------------------------------------------------------------
(* SharedSession: the theorems.                                            *)

LEMMA SessionInitHolds == SessionInit => SessionInv
<1> SUFFICES ASSUME SessionInit PROVE SessionInv
    OBVIOUS
<1>1. Quiet("rest") \in Calls /\ Quiet("rest").at = "rest"
    BY QuietCall DEF CallAt
<1>2. SessionTypeOK
    BY <1>1, SessionAssumption DEF SessionInit, SessionTypeOK, Calls
<1> QED BY <1>1, <1>2
        DEF SessionInit, SessionInv, AtEntries, Creations, InRegistry, Closers

LEMMA SessionStepsKeep == SessionInv /\ [SessionNext]_sessionVars => SessionInv'
<1> SUFFICES ASSUME SessionInv, [SessionNext]_sessionVars PROVE SessionInv'
    OBVIOUS
<1>1. CASE UNCHANGED sessionVars
    BY <1>1 DEF sessionVars, entries, sessions, SessionInv, SessionTypeOK, AtEntries,
                Creations, InRegistry, Closers
<1> QED BY <1>1, LooksKeep, RenewKeeps, CreatedKeeps, CreateFailsKeeps, ResetKeeps,
           ShutKeeps, ShutDownKeeps DEF SessionNext

LEMMA SessionInvariance == SessionSpec => []SessionInv
BY SessionInitHolds, SessionStepsKeep, PTL DEF SessionSpec

\* Every variable has its type (the registry of TikTokAPIBridge).
THEOREM SessionTypeCorrect == SessionSpec => []SessionTypeOK
<1>1. SessionInv => SessionTypeOK
    BY DEF SessionInv
<1> QED BY <1>1, SessionInvariance, PTL

\* What the invariant says of the sessions.
LEMMA InvCloses == SessionInv => SessionsClosed
<1> SUFFICES ASSUME SessionInv PROVE SessionsClosed
    OBVIOUS
<1>1. Cardinality(open \ unclosed) <= 1
    <2>1. \A a, b \in open \ unclosed : a = b
        BY DEF SessionInv, InRegistry
    <2> QED BY <2>1, AtMostOne
<1>2. ASSUME \A r \in Runtimes : call[r].at = "closed" PROVE open \subseteq unclosed
    BY <1>2 DEF SessionInv, SessionTypeOK, Closers
<1> QED BY <1>1, <1>2 DEF SessionsClosed

\* However its runtimes create, use, reset and close it, the session of an
\* identity is one browser at a time, and with the last runtime it is gone
\* (TikTokAPIBridge and CollectorRuntime.close); the sessions that nobody closes
\* are those of the two known reasons, in unclosed.
THEOREM SessionClosedOnce == SessionSpec => []SessionsClosed
BY InvCloses, SessionInvariance, PTL
=============================================================================
