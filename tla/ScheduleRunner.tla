---------------------------- MODULE ScheduleRunner ----------------------------
(***************************************************************************)
(* The schedules and collect monitors of the web UI                        *)
(* (main_server.py, server_routes.py): one schedule, its entry in the      *)
(* settings file, and the asyncio task that sleeps until it is due         *)
(* (_ui_schedule_runner), with the routes that create, toggle, run, delete *)
(* it while it sleeps, waits for the run before or crawls.                 *)
(*                                                                         *)
(* ui_schedule_tasks holds one runner per schedule.  A runner that is      *)
(* stopped is taken out of it first and unwinds later, so several may be   *)
(* alive: runner identities are reused when they are.                      *)
(***************************************************************************)
EXTENDS Naturals, FiniteSets

CONSTANTS Runners,     \* the asyncio tasks that may be alive at a time
          MaxTasks,    \* bound on the schedule's active tasks
          MaxStarts,   \* bound on the starts of the server
          NoRunner

ASSUME ScheduleAssumption ==
    /\ IsFiniteSet(Runners) /\ Runners # {} /\ NoRunner \notin Runners
    /\ MaxTasks \in Nat /\ MaxStarts \in Nat

VARIABLES
    kind,       \* schedule_type
    policy,     \* overlap_policy
    memory,     \* ui_schedules: the schedule as the server has it
    file,       \* the schedule in the settings file
    unsaved,    \* auxiliary: a route's write has failed, or the settings page
                \* wrote schedules of its own, and no route or runner of the
                \* schedule has written since
    entry,      \* ui_schedule_tasks
    runner,     \* where a runner stands
    stopper,    \* the route that cancelled a runner and awaits its end
    scheduled,  \* active tasks the schedule has enqueued
    retried,    \* active tasks that retry one of them
    crossed,    \* a runner that ended took another one's entry
    starts      \* starts of the server

stored == <<file, unsaved>>
durable == <<stored, starts>>
tasks == <<scheduled, retried>>
running == <<entry, runner, stopper, crossed>>
scheduleVars == <<kind, policy, memory, durable, running, tasks>>

Forms == {"none", "off", "on", "deleted"}
Asleep == {"sleeping", "waiting"}
Alive == {"created", "monitoring", "notifying"} \cup Asleep

ScheduleTypeOK ==
    /\ kind \in {"account", "monitor"}
    /\ policy \in {"wait", "skip", "allow"}
    /\ memory \in Forms /\ file \in Forms
    /\ unsaved \in BOOLEAN
    /\ entry \in Runners \cup {NoRunner}
    /\ runner \in [Runners -> {"none", "ended"} \cup Alive]
    /\ stopper \in [Runners -> {"none", "disable", "delete"}]
    /\ scheduled \in 0..MaxTasks /\ retried \in 0..1
    /\ crossed \in BOOLEAN
    /\ starts \in 0..MaxStarts

\* _normalize_schedule_payload: whatever a client sends, a schedule is of one
\* of the two kinds and has a policy, which a monitor never looks at.
Normalized ==
    /\ kind \in {"account", "monitor"} /\ policy \in {"wait", "skip", "allow"}
    /\ kind = "monitor" => policy = "wait"

ScheduleInit ==
    /\ Normalized
    /\ memory = "none" /\ file = "none" /\ unsaved = FALSE
    /\ entry = NoRunner
    /\ runner = [r \in Runners |-> "none"]
    /\ stopper = [r \in Runners |-> "none"]
    /\ scheduled = 0 /\ retried = 0
    /\ crossed = FALSE /\ starts = 0

Active == scheduled + retried > 0      \* _active_schedule_task
Cancelled(r) == stopper[r] # "none"

-----------------------------------------------------------------------------
(* _persist_ui_schedules: the server's schedules go into the settings, and   *)
(* the settings to their file, which may fail.                              *)

OnDisk(form) == file' = form /\ unsaved' = FALSE

\* A route that has changed the schedule answers 500 when the write fails:
\* what it changed in memory stays changed.
Persist(form) ==
    \/ OnDisk(form)
    \/ unsaved' = TRUE /\ UNCHANGED file

-----------------------------------------------------------------------------
(* Runners *)

\* create_task(self._ui_schedule_runner(...)); which identity a new task gets
\* makes no difference.
NewRunner ==
    /\ \E r \in Runners : runner[r] = "none"
    /\ entry' = CHOOSE r \in Runners : runner[r] = "none"
    /\ runner' = [runner EXCEPT ![entry'] = "created"]

\* _start_single_schedule_runner
StartSingle ==
    IF entry # NoRunner THEN UNCHANGED <<entry, runner>> ELSE NewRunner

\* The task is done.  Its identity is free again unless someone refers to it.
Done(r, table) ==
    runner' = [runner EXCEPT ![r] = IF Cancelled(r) \/ table = r THEN "ended" ELSE "none"]

\* Out of the loop: the last line of the runner removes what the table holds.
LeaveLoop(r) ==
    /\ entry' = NoRunner
    /\ crossed' = (crossed \/ entry \notin {r, NoRunner})
    /\ Done(r, NoRunner)

\* An exception or a cancellation that is not caught leaves the entry.
Escape(r) == UNCHANGED <<entry, crossed>> /\ Done(r, entry)

\* Mutant: a skipped or finished run is the last one.
RecordedLast(r) == OnDisk(memory) /\ LeaveLoop(r)

\* last_run_at, and the settings file, which may fail to be written; then
\* the loop's head: the schedule sleeps again.
Recorded(r) ==
    \/ /\ OnDisk(memory)
       /\ runner' = [runner EXCEPT ![r] = "sleeping"]
       /\ UNCHANGED <<entry, crossed>>
    \/ UNCHANGED stored /\ Escape(r)

Begin(r) ==
    /\ runner[r] = "created" /\ ~Cancelled(r)
    /\ runner' = [runner EXCEPT ![r] = "sleeping"]
    /\ UNCHANGED <<kind, policy, memory, durable, entry, crossed, stopper, tasks>>

\* _create_schedule_task
Enqueue == scheduled < MaxTasks /\ scheduled' = scheduled + 1

\* The sleep is over: disabled meanwhile, a monitor, or a batch, for which
\* the overlap is resolved.
Due(r) ==
    /\ runner[r] = "sleeping" /\ ~Cancelled(r)
    /\ \/ memory # "on" /\ LeaveLoop(r) /\ UNCHANGED <<stored, scheduled>>
       \/ /\ memory = "on" /\ kind = "monitor"
          /\ runner' = [runner EXCEPT ![r] = "monitoring"]
          /\ UNCHANGED <<stored, entry, crossed, scheduled>>
       \/ /\ memory = "on" /\ kind = "account"
          /\ \/ (~Active \/ policy = "allow") /\ Enqueue /\ Recorded(r)
             \/ Active /\ policy = "skip" /\ Recorded(r) /\ UNCHANGED scheduled
             \/ /\ Active /\ policy = "wait"
                /\ UNCHANGED scheduled
                /\ \/ OnDisk(memory) /\ UNCHANGED <<entry, crossed>>
                      /\ runner' = [runner EXCEPT ![r] = "waiting"]
                   \/ UNCHANGED stored /\ Escape(r)
    /\ UNCHANGED <<kind, policy, memory, starts, stopper, retried>>

\* Mutant: the wait ends with the task it began for, whatever runs by then.
PollOnce(r) ==
    /\ runner[r] = "waiting" /\ ~Cancelled(r)
    /\ \/ memory # "on" /\ LeaveLoop(r) /\ UNCHANGED <<stored, scheduled>>
       \/ memory = "on" /\ Enqueue /\ Recorded(r)
    /\ UNCHANGED <<kind, policy, memory, starts, stopper, retried>>

\* Five seconds later.  The check and the new task are one step.
Poll(r) ==
    /\ runner[r] = "waiting" /\ ~Cancelled(r)
    /\ \/ memory # "on" /\ LeaveLoop(r) /\ UNCHANGED <<stored, scheduled>>
       \/ memory = "on" /\ ~Active /\ Enqueue /\ Recorded(r)
    /\ UNCHANGED <<kind, policy, memory, starts, stopper, retried>>

\* _run_collect_monitor_once, whose errors become a result.
Monitored(r) ==
    /\ ~Cancelled(r) /\ runner[r] = "monitoring"
    /\ runner' = [runner EXCEPT ![r] = "notifying"]
    /\ UNCHANGED <<kind, policy, memory, durable, entry, crossed, stopper, tasks>>

\* _notify_collect_monitor, whose errors are logged.
Notified(r) ==
    /\ ~Cancelled(r) /\ runner[r] = "notifying"
    /\ Recorded(r)
    /\ UNCHANGED <<kind, policy, memory, starts, stopper, tasks>>

\* The cancellation arrives.  Only the long sleep catches it and leaves the
\* loop; a task that never ran does not even begin.
Unwind(r) ==
    /\ Cancelled(r) /\ runner[r] \in Alive
    /\ IF runner[r] = "sleeping" THEN LeaveLoop(r) ELSE Escape(r)
    /\ UNCHANGED <<kind, policy, memory, durable, stopper, tasks>>

-----------------------------------------------------------------------------
(* Routes *)

\* _stop_single_schedule_runner: the route then awaits the runner's end; it
\* writes the settings at once when there is none.
StopRunner(how) ==
    IF entry = NoRunner THEN Persist(memory') /\ UNCHANGED <<entry, stopper>>
    ELSE /\ entry' = NoRunner
         /\ stopper' = [stopper EXCEPT ![entry] = how]
         /\ UNCHANGED stored

Enlisted(form) ==
    /\ memory = "none"
    /\ memory' = form /\ Persist(form)
    /\ IF form = "on" THEN StartSingle ELSE UNCHANGED <<entry, runner>>
    /\ UNCHANGED <<kind, policy, starts, stopper, crossed, tasks>>

Create(form) == kind = "account" /\ Enlisted(form)
CreateMonitor(form) == kind = "monitor" /\ Enlisted(form)

Enable ==
    /\ memory \in {"off", "on"}
    /\ memory' = "on" /\ Persist("on")
    /\ StartSingle
    /\ UNCHANGED <<kind, policy, starts, stopper, crossed, tasks>>

Disable ==
    /\ memory \in {"off", "on"}
    /\ memory' = "off"
    /\ StopRunner("disable")
    /\ UNCHANGED <<kind, policy, starts, runner, crossed, tasks>>

Delete ==
    /\ memory \in {"off", "on"}
    /\ memory' = "deleted"
    /\ StopRunner("delete")
    /\ UNCHANGED <<kind, policy, starts, runner, crossed, tasks>>

\* Mutant: the route answers without writing what it has changed.
AnswerUnwritten(r) ==
    /\ Cancelled(r) /\ runner[r] = "ended"
    /\ stopper' = [stopper EXCEPT ![r] = "none"]
    /\ runner' = [runner EXCEPT ![r] = "none"]
    /\ UNCHANGED <<kind, policy, memory, stored, starts, entry, crossed, tasks>>

\* The awaited runner has ended: the route writes the settings, or fails to.
Answer(r) ==
    /\ Cancelled(r) /\ runner[r] = "ended"
    /\ stopper' = [stopper EXCEPT ![r] = "none"]
    /\ runner' = [runner EXCEPT ![r] = "none"]
    /\ Persist(memory)
    /\ UNCHANGED <<kind, policy, memory, starts, entry, crossed, tasks>>

\* The run-now route: it resolves the overlap without waiting.
RunNow ==
    /\ kind = "account" /\ memory \in {"off", "on"}
    /\ \/ (~Active \/ policy = "allow") /\ Enqueue
       \/ Active /\ policy # "allow" /\ UNCHANGED scheduled
    /\ OnDisk(memory) \/ UNCHANGED stored
    /\ UNCHANGED <<kind, policy, memory, starts, running, retried>>

\* The run-now route of a monitor has crawled, whatever became of the monitor
\* meanwhile, and writes the settings.
MonitorRan ==
    /\ kind = "monitor" /\ memory # "none"
    /\ OnDisk(memory) \/ UNCHANGED stored
    /\ UNCHANGED <<kind, policy, memory, starts, running, tasks>>

\* Retrying a finished task copies its schedule and asks nothing.
Retry ==
    /\ kind = "account" /\ memory # "none" /\ retried = 0
    /\ retried' = 1
    /\ IF memory = "deleted" THEN UNCHANGED stored ELSE OnDisk(memory) \/ UNCHANGED stored
    /\ UNCHANGED <<kind, policy, memory, starts, running, scheduled>>

\* Another change of the settings writes the schedules the settings hold:
\* those the settings page had loaded and sends with everything else, or those
\* of a write that failed.  The schedules of the server stay as they are.
WriteSettings(form) ==
    /\ memory # "none"
    /\ file' = form /\ unsaved' = TRUE
    /\ UNCHANGED <<kind, policy, memory, starts, running, tasks>>

TaskEnds ==
    /\ \/ scheduled > 0 /\ scheduled' = scheduled - 1 /\ UNCHANGED retried
       \/ retried > 0 /\ retried' = retried - 1 /\ UNCHANGED scheduled
    /\ UNCHANGED <<kind, policy, memory, durable, running>>

-----------------------------------------------------------------------------
\* The server stops or is killed and starts again: _start_ui_schedules.
\* Active tasks are restored from the journal.
Restart ==
    /\ starts < MaxStarts /\ starts' = starts + 1
    /\ memory' = file /\ unsaved' = FALSE
    /\ stopper' = [r \in Runners |-> "none"]
    /\ crossed' = FALSE
    /\ entry' = IF file = "on" THEN CHOOSE r \in Runners : TRUE ELSE NoRunner
    /\ runner' = [r \in Runners |-> IF r = entry' THEN "created" ELSE "none"]
    /\ UNCHANGED <<kind, policy, file, tasks>>

RunnerStep(r) == Begin(r) \/ Due(r) \/ Poll(r) \/ Monitored(r) \/ Notified(r)
                     \/ Unwind(r)

Route == (\E form \in {"on", "off"} : Create(form) \/ CreateMonitor(form)) \/ Enable \/ Disable \/ Delete
            \/ RunNow \/ MonitorRan \/ Retry
            \/ \E form \in {"off", "on", "deleted"} : WriteSettings(form)

ScheduleNext ==
    \/ \E r \in Runners : RunnerStep(r) \/ Answer(r)
    \/ Route \/ TaskEnds \/ Restart

ScheduleSpec == ScheduleInit /\ [][ScheduleNext]_scheduleVars

\* The loop runs its tasks, sleeps end, tasks end (as TaskLifecycle shows).
ScheduleFairness ==
    /\ WF_scheduleVars(TaskEnds)
    /\ \A r \in Runners : WF_scheduleVars(RunnerStep(r))

-----------------------------------------------------------------------------
(* Properties *)

Serving == {r \in Runners : runner[r] \in Alive /\ ~Cancelled(r)}

\* However toggles, wake-ups and unwinding runners interleave, an enabled
\* schedule has a runner that nobody has cancelled, unless an exception ended
\* the one in its table, and it has not two.  The exception is a runner that
\* was cancelled in its sleep and unwinds after its successor was started: it
\* takes the successor's entry, and from then on there may be two, or none.
RunnersMatch ==
    ~crossed =>
        /\ memory = "on" => Serving # {} \/ (entry # NoRunner /\ runner[entry] = "ended")
        /\ Cardinality(Serving) <= 1

\* Under "wait" and "skip" a schedule never has two tasks of its own, even
\* when a run-now, a wake-up and the end of a wait meet (a retry is asked
\* for by the user and not counted).
NoOverlap == policy # "allow" => scheduled <= 1

\* What a route has answered survives a restart: once no route waits for a
\* runner, the settings file says what the memory says, so a schedule that
\* was deleted or disabled does not come back.  The exceptions are a route
\* whose write failed, which told its user so, and the settings page, which
\* writes the schedules it has loaded; the next write of a route or runner
\* ends both.
AnswersAreDurable ==
    (\A r \in Runners : ~Cancelled(r)) => file = memory \/ unsaved

\* A schedule is served by one runner, has one run, and is what the user was
\* told.
SchedulesKept == RunnersMatch /\ NoOverlap /\ AnswersAreDurable

\* A schedule that stays enabled, and whose runner no exception has ended,
\* goes on having runs: a wait ends when the run before has ended.
EnabledRuns ==
    <>[](memory = "on" /\ ~crossed /\ (entry = NoRunner \/ runner[entry] # "ended"))
        => []<>(scheduled > 0 \/ retried > 0 \/ \E r \in Runners : runner[r] = "monitoring")
=============================================================================
