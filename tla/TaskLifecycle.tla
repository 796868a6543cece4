---------------------------- MODULE TaskLifecycle ----------------------------
(***************************************************************************)
(* The WebUI task queue: the workers of APIServer, the task routes of      *)
(* server_routes.py, the rows of TaskJournal, and the way all of them      *)
(* behave over a graceful stop, a kill and the next start.                 *)
(*                                                                         *)
(* Everything runs on one event loop and no task route awaits anything, so *)
(* a route is one step, and a worker takes one step per stretch between    *)
(* two awaits.  A worker runs the endpoint in a task of its own, the       *)
(* runner.  When the runner is done the worker is only scheduled: routes,  *)
(* and other workers, may run before it does, and find a task whose        *)
(* execution is over and not settled.                                      *)
(*                                                                         *)
(* The endpoint is seen through its pause control: an execution has up to  *)
(* Lanes lanes (one per identity group of an account batch), and a lane    *)
(* is working on a unit (one account), waits for the pause event, or is    *)
(* between two units.                                                      *)
(***************************************************************************)
EXTENDS Integers, Sequences, FiniteSets

CONSTANTS Tasks,        \* task ids, in the order they are given out
          Pausable,     \* the tasks whose endpoint is in _ui_task_pause_supported
          Workers,      \* ids of the queue workers
          None,         \* Python's None
          Lanes,        \* how many identity groups an execution may have
          Units,        \* how many units an execution may start
          MaxRestarts,  \* how often the process may be started again
          MaxEntries,   \* bound: how long the queue is made by resuming
          ClientCloses  \* may a shared http client be closed under a request?

ASSUME TaskAssumption ==
    /\ IsFiniteSet(Tasks) /\ Tasks \subseteq Nat
    /\ Pausable \subseteq Tasks
    /\ None \notin Workers \cup Tasks
    /\ Lanes \in Nat \ {0} /\ Units \in Nat
    /\ MaxRestarts \in Nat /\ MaxEntries \in Nat
    /\ ClientCloses \in BOOLEAN

VARIABLES
    status,     \* task["status"]; "absent" before the task is created
    journal,    \* the status column of the task's row in ui_tasks
    queue,      \* ui_task_queue
    runnerOf,   \* task["_runner"] and task["_pause_event"]: whose they are
    requested,  \* task["_pause_requested"]
    units,      \* task["_active_units"]
    stage,      \* where a worker stands, see Stages
    job,        \* the task a worker executes
    open,       \* is the pause event of the worker's execution set?
    left,       \* units the execution has still to start
    busy,       \* lanes of the execution that work on a unit
    waiting,    \* lanes of the execution that wait for the pause event
    phase,      \* "up" or "stopping" (ui_task_shutdown)
    restarts,
    crossed     \* auxiliary, no guard reads it: the tasks a route settled or
                \* queued again while a worker still had them in its hands

taskVars   == <<runnerOf, requested, units>>
execVars   == <<open, left, busy, waiting>>
serverVars == <<phase, restarts>>
vars == <<status, journal, queue, taskVars, stage, job, execVars, serverVars,
          crossed>>

\* "success" stands for partial_success too: nothing here tells them apart.
Terminal == {"success", "failed", "canceled"}
Statuses == {"absent", "pending", "running", "pausing", "paused", "canceling"}
                \cup Terminal

\* working    awaits the runner, which runs
\* unwinding  awaits the runner, which was cancelled
\* returned, cancelled, closed
\*            the runner is done (with a result or an error that fails the
\*            task, cancelled, or with "client has been closed")
\* retrying   runs the endpoint again by itself
\* gone       the worker's task has ended
Live   == {"working", "unwinding"}
Done   == {"returned", "cancelled", "closed"}
Stages == {"idle", "retrying", "gone"} \cup Live \cup Done

TypeOK ==
    /\ status \in [Tasks -> Statuses]
    /\ journal \in [Tasks -> Statuses]
    /\ queue \in Seq(Tasks)
    /\ runnerOf \in [Tasks -> Workers \cup {None}]
    /\ requested \in [Tasks -> BOOLEAN]
    /\ units \in [Tasks -> Nat]
    /\ stage \in [Workers -> Stages]
    /\ job \in [Workers -> Tasks \cup {None}]
    /\ open \in [Workers -> BOOLEAN]
    /\ left \in [Workers -> 0..Units]
    /\ busy \in [Workers -> 0..Lanes]
    /\ waiting \in [Workers -> 0..Lanes]
    /\ phase \in {"up", "stopping"}
    /\ restarts \in 0..MaxRestarts
    /\ crossed \subseteq Tasks

Init ==
    /\ status = [t \in Tasks |-> "absent"]
    /\ journal = [t \in Tasks |-> "absent"]
    /\ queue = <<>>
    /\ runnerOf = [t \in Tasks |-> None]
    /\ requested = [t \in Tasks |-> FALSE]
    /\ units = [t \in Tasks |-> 0]
    /\ stage = [w \in Workers |-> "idle"]
    /\ job = [w \in Workers |-> None]
    /\ open = [w \in Workers |-> TRUE]
    /\ left = [w \in Workers |-> 0]
    /\ busy = [w \in Workers |-> 0]
    /\ waiting = [w \in Workers |-> 0]
    /\ phase = "up"
    /\ restarts = 0
    /\ crossed = {}

-----------------------------------------------------------------------------
(* Helpers *)

\* An assignment to task["status"] and the _persist_ui_task that follows it
\* before anything else runs.
SetStatus(t, s) ==
    /\ status' = [status EXCEPT ![t] = s]
    /\ journal' = [journal EXCEPT ![t] = s]

SameStatus == UNCHANGED <<status, journal>>

LiveRunner(t) == runnerOf[t] # None /\ stage[runnerOf[t]] \in Live

\* Mutant: a pause does not wait for the units at work.
QuiescedAtOnce(s, req, n) == IF req /\ s = "pausing" THEN "paused" ELSE s

\* What "pausing" becomes at once when no unit is active, given what
\* _pause_requested and _active_units are: _mark_ui_task_paused_if_quiescent.
Quiesced(s, req, n) == IF req /\ n = 0 /\ s = "pausing" THEN "paused" ELSE s

\* Mutants: a cancelled lane goes on; a waiting lane is taken for a free one.
LaneFreeUnwinding(w) == stage[w] \in Live /\ busy[w] + waiting[w] < Lanes
LaneFreeWaiting(w) == stage[w] = "working" /\ busy[w] < Lanes

\* A lane of w's execution that is between two units may take a step.
LaneFree(w) == stage[w] = "working" /\ busy[w] + waiting[w] < Lanes

MayRoute == phase = "up"

\* A route gives t a new status while a worker whose runner is done has still
\* to write down how the execution ended.
Crosses(t) ==
    crossed' = IF \E w \in Workers : job[w] = t /\ stage[w] \notin Live
               THEN crossed \cup {t} ELSE crossed

-----------------------------------------------------------------------------
(* The task routes.  A refused request and one that finds nothing to do    *)
(* are stuttering steps.                                                   *)

\* POST /ui/api/tasks, and the retry routes, which create a new task.
Create ==
    \E t \in Tasks :
        /\ MayRoute
        /\ status[t] = "absent"
        /\ \A u \in Tasks : u < t => status[u] # "absent"
        /\ SetStatus(t, "pending")
        /\ queue' = Append(queue, t)
        /\ UNCHANGED <<taskVars, stage, job, execVars, serverVars, crossed>>

\* Mutant: the pause event stays set.
RequestPauseKeepsEvent(t, w) ==
    /\ requested' = [requested EXCEPT ![t] = TRUE]
    /\ SetStatus(t, Quiesced("pausing", TRUE, units[t]))
    /\ UNCHANGED open

RequestPause(t, w) ==
    /\ requested' = [requested EXCEPT ![t] = TRUE]
    /\ open' = [open EXCEPT ![w] = FALSE]
    /\ SetStatus(t, Quiesced("pausing", TRUE, units[t]))

Pause(t) ==
    /\ MayRoute
    /\ t \in Pausable
    /\ status[t] = "running"
    /\ LiveRunner(t)
    /\ RequestPause(t, runnerOf[t])
    /\ UNCHANGED <<queue, runnerOf, units, stage, job, left, busy, waiting, serverVars,
                   crossed>>

\* Mutants: a paused task is queued again although its runner waits; it is
\* pending again and not queued.
RequeueLive(t) ==
    /\ status[t] = "paused" /\ Len(queue) < MaxEntries
    /\ requested' = [requested EXCEPT ![t] = FALSE]
    /\ SetStatus(t, "pending")
    /\ queue' = Append(queue, t)
    /\ Crosses(t)
    /\ UNCHANGED <<open, waiting>>
RequeueUnqueued(t) ==
    /\ status[t] = "paused" /\ ~LiveRunner(t)
    /\ requested' = [requested EXCEPT ![t] = FALSE]
    /\ SetStatus(t, "pending")
    /\ Crosses(t)
    /\ UNCHANGED <<queue, open, waiting>>

\* Without a runner to wake, a paused task goes through the queue again.  A
\* runner that is done counts as none, though its worker has not run yet: a
\* second execution may begin before the first is settled.
Requeue(t) ==
    /\ status[t] = "paused" /\ ~LiveRunner(t) /\ Len(queue) < MaxEntries
    /\ requested' = [requested EXCEPT ![t] = FALSE]
    /\ SetStatus(t, "pending")
    /\ queue' = Append(queue, t)
    /\ Crosses(t)
    /\ UNCHANGED <<open, waiting>>

\* Mutant: the lanes that wait are not woken.
ContinueAsleep(t) ==
    /\ status[t] \in {"pausing", "paused"} /\ LiveRunner(t)
    /\ requested' = [requested EXCEPT ![t] = FALSE]
    /\ SetStatus(t, "running")
    /\ UNCHANGED <<queue, open, waiting, crossed>>

\* pause_event.set() schedules every lane that waits for it.
Continue(t) ==
    /\ status[t] \in {"pausing", "paused"} /\ LiveRunner(t)
    /\ requested' = [requested EXCEPT ![t] = FALSE]
    /\ SetStatus(t, "running")
    /\ open' = [open EXCEPT ![runnerOf[t]] = TRUE]
    /\ waiting' = [waiting EXCEPT ![runnerOf[t]] = 0]
    /\ UNCHANGED <<queue, crossed>>

Resume(t) ==
    /\ MayRoute
    /\ Requeue(t) \/ Continue(t)
    /\ UNCHANGED <<runnerOf, units, stage, job, left, busy, serverVars>>

\* runner.cancel() cancels everything the runner awaits, its lanes included.
Cancel(t) ==
    /\ MayRoute
    /\ status[t] \notin Terminal \cup {"absent"}
    /\ IF status[t] # "pending" /\ LiveRunner(t)
       THEN /\ SetStatus(t, "canceling")
            /\ stage' = [stage EXCEPT ![runnerOf[t]] = "unwinding"]
            /\ waiting' = [waiting EXCEPT ![runnerOf[t]] = 0]
            /\ UNCHANGED crossed
       ELSE /\ SetStatus(t, "canceled")
            /\ Crosses(t)
            /\ UNCHANGED <<stage, waiting>>
    /\ UNCHANGED <<queue, taskVars, job, open, left, busy, serverVars>>

-----------------------------------------------------------------------------
(* A worker takes a task from the queue.  An entry whose task is no longer *)
(* pending is dropped.                                                     *)

PickUp(w) ==
    LET t == Head(queue) IN
    /\ phase = "up" /\ stage[w] = "idle" /\ queue # <<>>
    /\ queue' = Tail(queue)
    /\ IF status[t] = "pending"
       THEN /\ SetStatus(t, "running")
            /\ runnerOf' = [runnerOf EXCEPT ![t] = w]
            /\ requested' = [requested EXCEPT ![t] = FALSE]
            /\ units' = [units EXCEPT ![t] = 0]
            /\ stage' = [stage EXCEPT ![w] = "working"]
            /\ job' = [job EXCEPT ![w] = t]
            /\ open' = [open EXCEPT ![w] = TRUE]
            /\ left' = [left EXCEPT ![w] = Units]
       ELSE UNCHANGED <<status, journal, taskVars, stage, job, open, left>>
    /\ UNCHANGED <<busy, waiting, serverVars, crossed>>

-----------------------------------------------------------------------------
(* The runner.  The pause control does nothing for a task that cannot be   *)
(* paused.                                                                 *)

BeginUnit(w) ==
    LET t == job[w] IN
    /\ LaneFree(w) /\ left[w] > 0
    /\ t \in Pausable => ~requested[t]
    /\ left' = [left EXCEPT ![w] = @ - 1]
    /\ busy' = [busy EXCEPT ![w] = @ + 1]
    /\ units' = IF t \in Pausable THEN [units EXCEPT ![t] = @ + 1] ELSE units
    /\ SameStatus
    /\ UNCHANGED <<queue, runnerOf, requested, stage, job, open, waiting, serverVars, crossed>>

\* The `finally` of a unit: it runs when the lane is cancelled, too.
EndUnit(w) ==
    LET t     == job[w]
        still == IF units[t] > 0 THEN units[t] - 1 ELSE 0 IN
    /\ stage[w] \in Live /\ busy[w] > 0
    /\ busy' = [busy EXCEPT ![w] = @ - 1]
    /\ IF t \in Pausable
       THEN /\ units' = [units EXCEPT ![t] = still]
            /\ SetStatus(t, Quiesced(status[t], requested[t], still))
       ELSE UNCHANGED <<units, status, journal>>
    /\ UNCHANGED <<queue, runnerOf, requested, stage, job, open, left, waiting, serverVars, crossed>>

\* pause_checkpoint under a pause: it may be what makes the task paused.
Checkpoint(w) ==
    LET t == job[w] IN
    /\ LaneFree(w)
    /\ t \in Pausable /\ requested[t] /\ ~open[w]
    /\ waiting' = [waiting EXCEPT ![w] = @ + 1]
    /\ SetStatus(t, Quiesced(status[t], requested[t], units[t]))
    /\ UNCHANGED <<queue, taskVars, stage, job, open, left, busy, serverVars, crossed>>

\* identity_failure for a task whose payload says "pause", called by a lane
\* after its unit.  Under any other policy it only reports.
IdentityFailure(w) ==
    /\ LaneFree(w)
    /\ job[w] \in Pausable
    /\ RequestPause(job[w], w)
    /\ UNCHANGED <<queue, runnerOf, units, stage, job, left, busy, waiting, serverVars,
                   crossed>>

\* The endpoint returns a response or raises: every lane is through.  It
\* may have fewer accounts than Units, or give up before it starts one.
RunnerEnds(w) ==
    /\ stage[w] = "working" /\ busy[w] = 0 /\ waiting[w] = 0
    /\ stage' = [stage EXCEPT ![w] = "returned"]
    /\ SameStatus
    /\ UNCHANGED <<queue, taskVars, job, execVars, serverVars, crossed>>

\* A request on a client that was closed under it.  The pausable batches
\* catch the errors of their accounts, so only other endpoints let it out.
RunnerLosesClient(w) ==
    /\ ClientCloses
    /\ stage[w] = "working" /\ job[w] \notin Pausable
    /\ stage' = [stage EXCEPT ![w] = "closed"]
    /\ busy' = [busy EXCEPT ![w] = 0]
    /\ SameStatus
    /\ UNCHANGED <<queue, taskVars, job, open, left, waiting, serverVars, crossed>>

\* The last of the cancelled lanes is through.  A lane of the avatar batch
\* has no `finally`, so units may be left over.
Unwound(w) ==
    /\ stage[w] = "unwinding"
    /\ stage' = [stage EXCEPT ![w] = "cancelled"]
    /\ busy' = [busy EXCEPT ![w] = 0]
    /\ SameStatus
    /\ UNCHANGED <<queue, taskVars, job, open, left, waiting, serverVars, crossed>>

-----------------------------------------------------------------------------
(* The worker goes on after its runner: the rest of _execute_ui_task.      *)

\* The status, then the `finally`.  The loop ends when the server stops.
Settle(w, s) ==
    LET t == job[w] IN
    /\ SetStatus(t, s)
    /\ runnerOf' = [runnerOf EXCEPT ![t] = None]
    /\ requested' = [requested EXCEPT ![t] = FALSE]
    /\ units' = [units EXCEPT ![t] = 0]
    /\ stage' = [stage EXCEPT ![w] = IF phase = "up" THEN "idle" ELSE "gone"]
    /\ job' = [job EXCEPT ![w] = None]
    /\ busy' = [busy EXCEPT ![w] = 0]
    /\ crossed' = IF \E v \in Workers \ {w} : job[v] = t THEN crossed ELSE crossed \ {t}
    /\ UNCHANGED <<queue, open, left, waiting, serverVars>>

TakeResult(w) ==
    /\ stage[w] = "returned"
    /\ \E s \in {"success", "failed"} : Settle(w, s)

\* Mutants: a stop cancels batches; a stop forgets what the user cancelled.
TakeCancellationAlways(w) == stage[w] = "cancelled" /\ Settle(w, "canceled")
TakeCancellationRequeues(w) ==
    /\ stage[w] = "cancelled"
    /\ Settle(w, IF phase = "stopping" /\ job[w] \in Pausable THEN "pending"
                                                             ELSE "canceled")

TakeCancellation(w) ==
    LET t == job[w] IN
    /\ stage[w] = "cancelled"
    /\ IF phase = "stopping" /\ t \in Pausable /\ status[t] # "canceling"
       THEN Settle(w, IF status[t] \in {"pausing", "paused"} THEN "paused"
                                                             ELSE "pending")
       ELSE Settle(w, "canceled")

\* New clients, and the endpoint once more, now in the worker itself.
StartRetry(w) ==
    /\ stage[w] = "closed"
    /\ stage' = [stage EXCEPT ![w] = "retrying"]
    /\ busy' = [busy EXCEPT ![w] = 1]
    /\ SameStatus
    /\ UNCHANGED <<queue, taskVars, job, open, left, waiting, serverVars, crossed>>

\* A worker cancelled while it retries passes no `except` clause: the
\* status stays what it was.
EndRetry(w) ==
    /\ stage[w] = "retrying"
    /\ IF phase = "up" THEN \E s \in {"success", "failed"} : Settle(w, s)
                       ELSE Settle(w, status[job[w]])

-----------------------------------------------------------------------------
(* Stop and start.                                                         *)

\* _stop_ui_task_workers cancels every worker: one that awaits its runner
\* cancels it, one whose runner is done gets the CancelledError instead of
\* the result, one that awaits the queue ends.
Stop ==
    /\ phase = "up" /\ restarts < MaxRestarts
    /\ phase' = "stopping"
    /\ stage' = [w \in Workers |-> CASE stage[w] = "idle" -> "gone"
                                     [] stage[w] \in Live -> "unwinding"
                                     [] stage[w] \in Done -> "cancelled"
                                     [] OTHER             -> stage[w]]
    /\ waiting' = [w \in Workers |-> 0]
    /\ SameStatus
    /\ UNCHANGED <<queue, taskVars, job, open, left, busy, restarts, crossed>>

\* Mutants: a pause, a cancellation under way is forgotten.
RecoveredPausing(s) ==
    IF s \in {"running", "pausing"} THEN "pending"
    ELSE IF s = "canceling" THEN "canceled" ELSE s
RecoveredCanceling(s) ==
    IF s \in {"running", "canceling"} THEN "pending"
    ELSE IF s = "pausing" THEN "paused" ELSE s

\* recover_interrupted
Recovered(s) == CASE s = "running"   -> "pending"
                  [] s = "pausing"   -> "paused"
                  [] s = "canceling" -> "canceled"
                  [] OTHER           -> s

\* load_tasks sorts by id, and its reversal is queued.
Ascending(S) ==
    {q \in [1..Cardinality(S) -> S] :
        \A i, j \in 1..Cardinality(S) : i < j => q[i] < q[j]}

\* The process is gone, by a kill at any moment or after a stop, and
\* started again: _restore_ui_tasks reads the journal and queues what is
\* pending in the order of the ids.
Restart ==
    LET found == [t \in Tasks |-> Recovered(journal[t])] IN
    /\ restarts < MaxRestarts
    /\ restarts' = restarts + 1
    /\ phase' = "up"
    /\ status' = found
    /\ journal' = found
    /\ queue' \in Ascending({t \in Tasks : found[t] = "pending"})
    /\ runnerOf' = [t \in Tasks |-> None]
    /\ requested' = [t \in Tasks |-> FALSE]
    /\ units' = [t \in Tasks |-> 0]
    /\ stage' = [w \in Workers |-> "idle"]
    /\ job' = [w \in Workers |-> None]
    /\ open' = [w \in Workers |-> TRUE]
    /\ left' = [w \in Workers |-> 0]
    /\ busy' = [w \in Workers |-> 0]
    /\ waiting' = [w \in Workers |-> 0]
    /\ crossed' = {}

-----------------------------------------------------------------------------
Runner(w) == \/ BeginUnit(w) \/ EndUnit(w) \/ Checkpoint(w) \/ IdentityFailure(w)
             \/ RunnerEnds(w) \/ RunnerLosesClient(w) \/ Unwound(w)

Worker(w) == \/ PickUp(w) \/ TakeResult(w) \/ TakeCancellation(w)
             \/ StartRetry(w) \/ EndRetry(w)

Route(t) == Pause(t) \/ Resume(t) \/ Cancel(t)

Next == \/ Create \/ Stop \/ Restart
        \/ \E t \in Tasks : Route(t)
        \/ \E w \in Workers : Runner(w) \/ Worker(w)

Spec == Init /\ [][Next]_vars

\* The event loop runs every task that is scheduled and the requests of a
\* unit time out.
Fairness ==
    \A w \in Workers : /\ WF_vars(Worker(w))
                       /\ WF_vars(EndUnit(w))
                       /\ WF_vars(Checkpoint(w))
                       /\ WF_vars(Unwound(w))
                       /\ WF_vars(RunnerEnds(w))

FairSpec == Spec /\ Fairness

-----------------------------------------------------------------------------
(* Properties.  What is said of tasks outside `crossed` may fail for those  *)
(* in it: from the route that came between the end of an execution and its *)
(* settlement until the last worker has let go of the task.                *)

\* A task that is shown as paused has no lane at work, whoever asked for the
\* pause: the user, or any of the lanes that met a failing identity.
PausedIsQuiet ==
    \A w \in Workers : busy[w] > 0 /\ job[w] \notin crossed => status[job[w]] # "paused"

\* No task is executed by two workers, over any number of pauses, resumes
\* and queue entries; task["_runner"] is the execution that the routes act on.
\* A second execution begins only where a route crossed the end of the first.
OneExecution ==
    \A w \in Workers : job[w] # None /\ job[w] \notin crossed => runnerOf[job[w]] = w

\* A lane waits for the pause event only while the status lets the user
\* resume the task, and a task that may not start units has its event
\* cleared, so that pause_checkpoint suspends instead of spinning.
WaitIsResumable ==
    \A w \in Workers : stage[w] = "working" /\ job[w] \notin crossed =>
        /\ waiting[w] > 0 => status[job[w]] \in {"pausing", "paused"}
        /\ open[w] <=> ~requested[job[w]]
        /\ requested[job[w]] <=> status[job[w]] \in {"pausing", "paused"}

\* While the server is up, a pending task is in the queue, and only once.
PendingIsQueued ==
    phase = "up" =>
        \A t \in Tasks \ crossed : status[t] = "pending" =>
            Cardinality({i \in DOMAIN queue : queue[i] = t}) = 1

\* A unit starts only in a task that is running: not after the user was told
\* that it is pausing, paused, canceling or canceled.
UnitsStartWhileRunning ==
    [][\A w \in Workers :
          busy'[w] > busy[w] /\ job[w] \notin crossed => status[job[w]] = "running"]_vars

\* What a task has come to stands, and a cancellation that was accepted
\* ends in canceled, also when the process is stopped or killed meanwhile.
\* The exception is a task that a route settled or queued while its worker,
\* after the runner or within its own retry, had an outcome still to write.
OutcomeStands ==
    [][\A t \in Tasks \ crossed :
          /\ status[t] \in Terminal => status'[t] = status[t]
          /\ status[t] = "canceling" => status'[t] \in {"canceling", "canceled"}]_vars

\* Only the user's resume sets a task going again that was paused: a stop,
\* a kill and the next start leave it paused.
PauseHonoured ==
    [][\A t \in Tasks :
          status[t] \in {"pausing", "paused"} /\ status'[t] \in {"pending", "running"}
             => Resume(t)]_vars

\* A batch nobody cancelled is never canceled by a stop, nor ended by it.
StopKeepsBatches ==
    [][phase = "stopping" =>
          \A t \in Pausable :
              status[t] \in {"pending", "running", "pausing", "paused"}
                 => status'[t] \in {"pending", "running", "pausing", "paused"}]_vars

\* A pending task is started (or cancelled), unless each worker sits in a
\* task that is being paused: a paused task keeps its worker.
AllParked ==
    \A w \in Workers : stage[w] = "working" /\ status[job[w]] \in {"pausing", "paused"}
PendingStarts ==
    \A t \in Tasks :
        status[t] = "pending" ~> (status[t] # "pending" \/ AllParked \/ phase # "up")

\* Every accepted cancellation is carried out, unless an earlier execution of
\* the task is settled over it.
CancelEnds ==
    \A t \in Tasks : status[t] = "canceling" ~> (status[t] = "canceled" \/ t \in crossed)

\* Every running batch ends, unless it is paused or the process goes away.
RunningEnds ==
    \A t \in Tasks : status[t] = "running" ~> (status[t] # "running" \/ phase # "up")

\* What was started comes to an end, one way or the other.
TasksEnd == CancelEnds /\ RunningEnds

\* The cancel route says "任务已取消" of a task it sets to canceled
\* (server_routes.py:2143-2144): a canceled task stays canceled.
CanceledStays ==
    [][\A t \in Tasks : status[t] = "canceled" => status'[t] = "canceled"]_vars
=============================================================================
