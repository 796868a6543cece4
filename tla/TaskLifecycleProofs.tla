------------------------- MODULE TaskLifecycleProofs -------------------------
(***************************************************************************)
(* Theorems about TaskLifecycle, for any tasks, workers, lanes, units and  *)
(* restarts, and for routes that come at any time, between a runner's end  *)
(* and its worker's step too.                                              *)
(***************************************************************************)
EXTENDS TaskLifecycle, FiniteSetTheorems, TLAPS

InPause == {"pausing", "paused"}
Active  == {"running", "pausing", "paused"}

-----------------------------------------------------------------------------
(* The inductive invariant: what is known of a task, and of a worker.      *)

TaskInv(t) ==
    /\ journal[t] = status[t]
    /\ runnerOf[t] # None => job[runnerOf[t]] = t
    /\ t \notin Pausable => ~requested[t] /\ status[t] \notin InPause

\* A worker without a job, and a worker at each stage of a job.
Resting(w) ==
    /\ job[w] = None <=> stage[w] \in {"idle", "gone"}
    /\ job[w] = None => busy[w] = 0
    /\ waiting[w] > 0 => stage[w] = "working"
    /\ phase = "stopping" => stage[w] \in {"gone", "unwinding", "cancelled", "retrying"}

\* The rest is about a worker whose task no route has crossed.
Owning(w) ==
    job[w] # None /\ job[w] \notin crossed =>
        /\ runnerOf[job[w]] = w
        /\ busy[w] > 0 => status[job[w]] # "paused"
        /\ stage[w] \in Live /\ job[w] \in Pausable => units[job[w]] = busy[w]

Working(w) ==
    stage[w] = "working" /\ job[w] \notin crossed =>
        /\ status[job[w]] \in Active
        /\ requested[job[w]] <=> status[job[w]] \in InPause
        /\ open[w] <=> ~requested[job[w]]
        /\ waiting[w] > 0 => requested[job[w]]

Ending(w) ==
    job[w] \notin crossed =>
        /\ stage[w] \in {"unwinding", "cancelled"} =>
                status[job[w]] \in Active \cup {"canceling"}
        /\ stage[w] = "returned" => status[job[w]] \in Active
        /\ stage[w] \in {"closed", "retrying"} => status[job[w]] = "running"

\* What holds of crossed tasks, too.
Through(w) ==
    /\ stage[w] \in Done => busy[w] = 0
    /\ stage[w] \in {"closed", "retrying"} => job[w] \notin Pausable
    /\ waiting[w] > 0 => job[w] \in Pausable

WorkerInv(w) == Resting(w) /\ Through(w) /\ Owning(w) /\ Working(w) /\ Ending(w)

IInv == /\ TypeOK
        /\ \A t \in Tasks : TaskInv(t)
        /\ \A w \in Workers : WorkerInv(w)

-----------------------------------------------------------------------------
(* A step of one worker and of one task leaves the rest alone.             *)

\* What a step on worker w (None for no worker) and task t does not touch.
Touches(w, t) ==
    /\ phase' = phase
    /\ \A u \in Tasks \ {t} : u \in crossed <=> u \in crossed'
    /\ \A u \in Tasks \ {t} : /\ status'[u] = status[u] /\ journal'[u] = journal[u]
                            /\ runnerOf'[u] = runnerOf[u]
                            /\ requested'[u] = requested[u] /\ units'[u] = units[u]
    /\ \A v \in Workers \ {w} : /\ stage'[v] = stage[v] /\ job'[v] = job[v]
                              /\ open'[v] = open[v] /\ busy'[v] = busy[v]
                              /\ waiting'[v] = waiting[v]

\* Task t is in the hands of w, or of nobody, or a route has crossed it.
Holds(w, t) ==
    /\ \A v \in Workers \ {w} : job[v] = t => t \in crossed'
    /\ w \in Workers => job[w] \in {t, None}

\* A worker at work has a task, and is the only one that has it.
LEMMA AtWork ==
    ASSUME IInv, NEW w \in Workers, stage[w] \notin {"idle", "gone"}
    PROVE  /\ job[w] \in Tasks /\ job[w] # None
           /\ job[w] \notin crossed => runnerOf[job[w]] = w
           /\ WorkerInv(w) /\ TaskInv(job[w])
           /\ \A v \in Workers \ {w} : job[v] = job[w] => job[w] \in crossed
<1>1. WorkerInv(w) /\ job[w] \in Tasks /\ job[w] # None
    BY DEF IInv, TypeOK, WorkerInv, Resting
<1>2. (job[w] \notin crossed => runnerOf[job[w]] = w) /\ TaskInv(job[w])
    BY <1>1 DEF IInv, WorkerInv, Owning
<1>3. ASSUME NEW v \in Workers \ {w}, job[v] = job[w] PROVE job[w] \in crossed
    BY <1>1, <1>2, <1>3 DEF IInv, WorkerInv, Owning
<1> QED BY <1>1, <1>2, <1>3

\* The same, seen from a task whose runner is alive.
LEMMA LiveTask ==
    ASSUME IInv, NEW t \in Tasks, LiveRunner(t)
    PROVE  /\ runnerOf[t] \in Workers /\ job[runnerOf[t]] = t
           /\ stage[runnerOf[t]] \in Live
<1>1. runnerOf[t] \in Workers /\ stage[runnerOf[t]] \in Live
    BY DEF IInv, TypeOK, LiveRunner
<1>2. job[runnerOf[t]] = t
    BY DEF IInv, TaskInv, LiveRunner
<1> QED BY <1>1, <1>2

LEMMA Frame ==
    ASSUME IInv, NEW t \in Tasks, NEW w \in Workers \cup {None},
           Holds(w, t), Touches(w, t), TypeOK', TaskInv(t)',
           w \in Workers => WorkerInv(w)'
    PROVE  IInv'
<1>1. ASSUME NEW u \in Tasks PROVE TaskInv(u)'
    <2>1. CASE u = t
        BY <2>1
    <2>2. CASE u # t
        <3>1. TaskInv(u) /\ runnerOf[u] \in Workers \cup {None}
            BY DEF IInv, TypeOK
        <3>2. runnerOf[u] # None => runnerOf[u] # w
            BY <2>2, <3>1, TaskAssumption DEF TaskInv, Holds
        <3>3. runnerOf[u] # None => job'[runnerOf[u]] = job[runnerOf[u]]
            BY <3>1, <3>2 DEF Touches
        <3> QED BY <2>2, <3>1, <3>3 DEF TaskInv, Touches
    <2> QED BY <2>1, <2>2
<1>2. ASSUME NEW v \in Workers PROVE WorkerInv(v)'
    <2>1. CASE v = w
        BY <2>1
    <2>2. CASE v # w
        <3>1. /\ stage'[v] = stage[v] /\ job'[v] = job[v] /\ open'[v] = open[v]
              /\ busy'[v] = busy[v] /\ waiting'[v] = waiting[v] /\ phase' = phase
            BY <2>2 DEF Touches
        <3>2. WorkerInv(v) /\ job[v] \in Tasks \cup {None}
            BY DEF IInv, TypeOK
        <3>3. job[v] # None /\ job[v] \notin crossed' =>
                /\ job[v] \notin crossed
                /\ status'[job[v]] = status[job[v]] /\ runnerOf'[job[v]] = runnerOf[job[v]]
                /\ requested'[job[v]] = requested[job[v]] /\ units'[job[v]] = units[job[v]]
            BY <2>2, <3>2 DEF Touches, Holds
        <3>4. Resting(v)' /\ Through(v)'
            BY <3>1, <3>2 DEF WorkerInv, Resting, Through
        <3>5. Owning(v)'
            BY <3>1, <3>2, <3>3 DEF WorkerInv, Owning
        <3>6. Working(v)'
            BY <3>1, <3>2, <3>3 DEF WorkerInv, Working, Resting
        <3>7. Ending(v)'
            BY <3>1, <3>2, <3>3 DEF WorkerInv, Ending, Resting, Done
        <3> QED BY <3>4, <3>5, <3>6, <3>7 DEF WorkerInv
    <2> QED BY <2>1, <2>2
<1> QED BY <1>1, <1>2 DEF IInv

-----------------------------------------------------------------------------
(* The steps of a runner.                                                  *)

LEMMA BeginUnitStep ==
    ASSUME IInv, NEW w \in Workers, BeginUnit(w)
    PROVE  IInv'
<1>1. PICK t \in Tasks : /\ t = job[w] /\ t # None /\ (t \notin crossed => runnerOf[t] = w)
                        /\ WorkerInv(w) /\ TaskInv(t) /\ Holds(w, t)
    BY AtWork DEF Holds, BeginUnit, LaneFree
<1>2. TypeOK'
    <2>1. /\ left[w] - 1 \in 0..Units /\ busy[w] + 1 \in 0..Lanes
          /\ units[t] + 1 \in Nat
        BY <1>1, TaskAssumption
           DEF IInv, TypeOK, WorkerInv, Owning, BeginUnit, LaneFree, Live
    <2>2. /\ left' \in [Workers -> 0..Units] /\ busy' \in [Workers -> 0..Lanes]
          /\ units' \in [Tasks -> Nat]
        BY <1>1, <2>1 DEF IInv, TypeOK, BeginUnit
    <2> QED BY <2>2 DEF IInv, TypeOK, BeginUnit, SameStatus, serverVars
<1>3. TaskInv(t)'
    BY <1>1 DEF TaskInv, BeginUnit, SameStatus
<1>4. Resting(w)'
    BY <1>1 DEF WorkerInv, Resting, BeginUnit, serverVars
<1>5. Owning(w)'
    <2>1. busy[w] \in Nat /\ units[t] \in Nat
        BY <1>1 DEF IInv, TypeOK
    <2>2. busy'[w] = busy[w] + 1 /\ (t \in Pausable => units'[t] = units[t] + 1)
        BY <1>1 DEF IInv, TypeOK, BeginUnit
    <2>3. t \notin crossed => status'[t] # "paused"
        BY <1>1
           DEF BeginUnit, LaneFree, SameStatus, WorkerInv, Working, TaskInv, InPause
    <2> QED BY <1>1, <2>1, <2>2, <2>3 DEF WorkerInv, Owning, BeginUnit
<1>6. Working(w)'
    BY <1>1 DEF WorkerInv, Working, BeginUnit, SameStatus
<1>7. Ending(w)' /\ Through(w)'
    BY <1>1 DEF WorkerInv, Through, Ending, BeginUnit, LaneFree, Done
<1>8. Touches(w, t)
    BY <1>1 DEF Touches, serverVars, BeginUnit, SameStatus
<1> QED BY <1>1, <1>2, <1>3, <1>4, <1>5, <1>6, <1>7, <1>8, Frame DEF WorkerInv

LEMMA EndUnitStep ==
    ASSUME IInv, NEW w \in Workers, EndUnit(w)
    PROVE  IInv'
<1>1. PICK t \in Tasks : /\ t = job[w] /\ t # None /\ (t \notin crossed => runnerOf[t] = w)
                        /\ WorkerInv(w) /\ TaskInv(t) /\ Holds(w, t)
    BY AtWork DEF Holds, EndUnit, Live
<1>2. TypeOK'
    <2>1. busy[w] - 1 \in 0..Lanes /\ (units[t] > 0 => units[t] - 1 \in Nat)
        BY TaskAssumption DEF IInv, TypeOK, EndUnit
    <2>2. busy' \in [Workers -> 0..Lanes]
        BY <2>1 DEF IInv, TypeOK, EndUnit
    <2>3. units' \in [Tasks -> Nat]
        <3>1. CASE t \in Pausable /\ units[t] > 0
            BY <1>1, <2>1, <3>1 DEF IInv, TypeOK, EndUnit
        <3>2. CASE t \in Pausable /\ ~(units[t] > 0)
            <4>1. units' = [units EXCEPT ![t] = 0]
                BY <1>1, <3>2, TaskAssumption DEF EndUnit
            <4> QED BY <4>1 DEF IInv, TypeOK
        <3>3. CASE t \notin Pausable
            BY <1>1, <3>3 DEF IInv, TypeOK, EndUnit
        <3> QED BY <3>1, <3>2, <3>3
    <2>4. status' \in [Tasks -> Statuses] /\ journal' \in [Tasks -> Statuses]
        BY ZenonT(30), <1>1 DEF IInv, TypeOK, Statuses, EndUnit, SetStatus, Quiesced
    <2> QED BY <2>2, <2>3, <2>4 DEF IInv, TypeOK, EndUnit, serverVars
<1>3. TaskInv(t)'
    BY <1>1 DEF IInv, TypeOK, TaskInv, EndUnit, SetStatus
<1>4. Resting(w)'
    BY <1>1 DEF WorkerInv, Resting, EndUnit, serverVars
<1>5. Owning(w)'
    BY <1>1 DEF IInv, TypeOK, WorkerInv, Owning, EndUnit, SetStatus, Quiesced
<1>6. Working(w)'
    BY <1>1
       DEF IInv, TypeOK, WorkerInv, Working, Active, InPause, EndUnit, SetStatus, Quiesced
<1>7. Ending(w)' /\ Through(w)'
    BY <1>1 DEF Through, IInv, TypeOK, WorkerInv, Ending, Active, EndUnit, SetStatus, Quiesced
<1>8. Touches(w, t)
    BY <1>1 DEF IInv, TypeOK, Touches, serverVars, EndUnit, SetStatus
<1> QED BY <1>1, <1>2, <1>3, <1>4, <1>5, <1>6, <1>7, <1>8, Frame DEF WorkerInv

LEMMA CheckpointStep ==
    ASSUME IInv, NEW w \in Workers, Checkpoint(w)
    PROVE  IInv'
<1>1. PICK t \in Tasks : /\ t = job[w] /\ t # None /\ (t \notin crossed => runnerOf[t] = w)
                        /\ WorkerInv(w) /\ TaskInv(t) /\ Holds(w, t)
    BY AtWork DEF Holds, Checkpoint, LaneFree
<1>2. TypeOK'
    BY SMTT(30), <1>1, TaskAssumption DEF IInv, TypeOK, Statuses, Checkpoint, LaneFree, SetStatus,
       Quiesced, taskVars, serverVars
<1>3. TaskInv(t)'
    BY <1>1 DEF IInv, TypeOK, TaskInv, Checkpoint, SetStatus, taskVars
<1>4. Resting(w)'
    BY <1>1 DEF WorkerInv, Resting, Checkpoint, LaneFree, serverVars
<1>5. Owning(w)'
    BY <1>1
       DEF WorkerInv, Owning, Checkpoint, LaneFree, Live, SetStatus, Quiesced, taskVars
<1>6. Working(w)'
    BY <1>1
       DEF WorkerInv, Working, Active, InPause, Checkpoint, SetStatus, Quiesced, taskVars
<1>7. Ending(w)' /\ Through(w)'
    BY <1>1 DEF Through, WorkerInv, Ending, Checkpoint, LaneFree
<1>8. Touches(w, t)
    BY <1>1 DEF IInv, TypeOK, Touches, serverVars, Checkpoint, SetStatus, taskVars
<1> QED BY <1>1, <1>2, <1>3, <1>4, <1>5, <1>6, <1>7, <1>8, Frame DEF WorkerInv

LEMMA IdentityFailureStep ==
    ASSUME IInv, NEW w \in Workers, IdentityFailure(w)
    PROVE  IInv'
<1>1. PICK t \in Tasks : /\ t = job[w] /\ t # None /\ (t \notin crossed => runnerOf[t] = w)
                        /\ WorkerInv(w) /\ TaskInv(t) /\ Holds(w, t)
    BY AtWork DEF Holds, IdentityFailure, LaneFree
<1>2. TypeOK'
    BY <1>1 DEF IInv, TypeOK, Statuses, IdentityFailure, RequestPause, SetStatus,
       Quiesced, serverVars
<1>3. TaskInv(t)'
    BY <1>1 DEF IInv, TypeOK, TaskInv, IdentityFailure, RequestPause, SetStatus
<1>4. Resting(w)'
    BY <1>1 DEF WorkerInv, Resting, IdentityFailure, serverVars
<1>5. Owning(w)'
    BY <1>1 DEF WorkerInv, Owning, IdentityFailure, LaneFree, Live, RequestPause,
       SetStatus, Quiesced
<1>6. Working(w)'
    BY <1>1 DEF IInv, TypeOK, Working, Active, InPause, IdentityFailure, RequestPause,
       SetStatus, Quiesced
<1>7. Ending(w)' /\ Through(w)'
    BY <1>1 DEF Through, WorkerInv, Ending, IdentityFailure, LaneFree
<1>8. Touches(w, t)
    BY <1>1
       DEF IInv, TypeOK, Touches, serverVars, IdentityFailure, RequestPause, SetStatus
<1> QED BY <1>1, <1>2, <1>3, <1>4, <1>5, <1>6, <1>7, <1>8, Frame DEF WorkerInv

LEMMA RunnerEndsStep ==
    ASSUME IInv, NEW w \in Workers, RunnerEnds(w)
    PROVE  IInv'
<1>1. PICK t \in Tasks : /\ t = job[w] /\ t # None /\ (t \notin crossed => runnerOf[t] = w)
                        /\ WorkerInv(w) /\ TaskInv(t) /\ Holds(w, t)
    BY AtWork DEF Holds, RunnerEnds
<1>2. TypeOK'
    BY <1>1
       DEF IInv, TypeOK, Stages, RunnerEnds, Done, SameStatus, taskVars, execVars, serverVars
<1>3. TaskInv(t)'
    BY <1>1 DEF TaskInv, RunnerEnds, SameStatus, taskVars
<1>4. Resting(w)'
    BY <1>1 DEF WorkerInv, Resting, RunnerEnds, execVars, serverVars
<1>5. Owning(w)'
    BY <1>1 DEF IInv, TypeOK, Owning, RunnerEnds, Live, taskVars, execVars
<1>6. Working(w)'
    BY <1>1 DEF IInv, TypeOK, Working, RunnerEnds
<1>7. Ending(w)' /\ Through(w)'
    BY <1>1 DEF Through, WorkerInv, Working, Ending, RunnerEnds, SameStatus, execVars
<1>8. Touches(w, t)
    BY <1>1 DEF Touches, serverVars, taskVars, RunnerEnds, SameStatus, execVars
<1> QED BY <1>1, <1>2, <1>3, <1>4, <1>5, <1>6, <1>7, <1>8, Frame DEF WorkerInv

LEMMA RunnerLosesClientStep ==
    ASSUME IInv, NEW w \in Workers, RunnerLosesClient(w)
    PROVE  IInv'
<1>1. PICK t \in Tasks : /\ t = job[w] /\ t # None /\ (t \notin crossed => runnerOf[t] = w)
                        /\ WorkerInv(w) /\ TaskInv(t) /\ Holds(w, t)
    BY AtWork DEF Holds, RunnerLosesClient
<1>2. TypeOK'
    BY TaskAssumption
       DEF IInv, TypeOK, Stages, RunnerLosesClient, Done, SameStatus, taskVars, serverVars
<1>3. TaskInv(t)'
    BY <1>1 DEF TaskInv, RunnerLosesClient, SameStatus, taskVars
<1>4. Resting(w)'
    BY <1>1 DEF WorkerInv, Resting, Through, RunnerLosesClient, serverVars
<1>5. Owning(w)'
    BY <1>1 DEF IInv, TypeOK, Owning, RunnerLosesClient, taskVars
<1>6. Working(w)'
    BY <1>1 DEF IInv, TypeOK, Working, RunnerLosesClient
<1>7. Ending(w)' /\ Through(w)'
    BY <1>1 DEF Through, IInv, TypeOK, WorkerInv, TaskInv, Working, Ending, Active, InPause,
       RunnerLosesClient, SameStatus
<1>8. Touches(w, t)
    BY <1>1 DEF Touches, serverVars, taskVars, RunnerLosesClient, SameStatus
<1> QED BY <1>1, <1>2, <1>3, <1>4, <1>5, <1>6, <1>7, <1>8, Frame DEF WorkerInv

LEMMA UnwoundStep ==
    ASSUME IInv, NEW w \in Workers, Unwound(w)
    PROVE  IInv'
<1>1. PICK t \in Tasks : /\ t = job[w] /\ t # None /\ (t \notin crossed => runnerOf[t] = w)
                        /\ WorkerInv(w) /\ TaskInv(t) /\ Holds(w, t)
    BY AtWork DEF Holds, Unwound
<1>2. TypeOK'
    BY SMTT(30), TaskAssumption
       DEF IInv, TypeOK, Stages, Unwound, Done, SameStatus, taskVars, serverVars
<1>3. TaskInv(t)'
    BY <1>1 DEF TaskInv, Unwound, SameStatus, taskVars
<1>4. Resting(w)'
    BY <1>1 DEF WorkerInv, Resting, Unwound
<1>5. Owning(w)'
    BY <1>1 DEF IInv, TypeOK, Owning, Unwound, Live, taskVars
<1>6. Working(w)'
    BY <1>1 DEF Working, Unwound
<1>7. Ending(w)' /\ Through(w)'
    BY <1>1 DEF Through, IInv, TypeOK, WorkerInv, Ending, Unwound, SameStatus
<1>8. Touches(w, t)
    BY <1>1 DEF Touches, serverVars, taskVars, Unwound, SameStatus
<1> QED BY <1>1, <1>2, <1>3, <1>4, <1>5, <1>6, <1>7, <1>8, Frame DEF WorkerInv

LEMMA StartRetryStep ==
    ASSUME IInv, NEW w \in Workers, StartRetry(w)
    PROVE  IInv'
<1>1. PICK t \in Tasks : /\ t = job[w] /\ t # None /\ (t \notin crossed => runnerOf[t] = w)
                        /\ WorkerInv(w) /\ TaskInv(t) /\ Holds(w, t)
    BY AtWork DEF Holds, StartRetry
<1>2. TypeOK'
    <2>1. 1 \in 0..Lanes /\ "retrying" \in Stages
        BY TaskAssumption DEF Stages
    <2> QED BY <2>1 DEF IInv, TypeOK, StartRetry, SameStatus, taskVars, serverVars
<1>3. TaskInv(t)'
    BY <1>1 DEF TaskInv, StartRetry, SameStatus, taskVars
<1>4. Resting(w)'
    BY <1>1 DEF IInv, TypeOK, WorkerInv, Resting, StartRetry
<1>5. Owning(w)'
    BY <1>1 DEF WorkerInv, Owning, Ending, Through, StartRetry, SameStatus, taskVars
<1>6. Working(w)'
    BY <1>1 DEF Working, StartRetry
<1>7. Ending(w)' /\ Through(w)'
    BY <1>1 DEF Through, IInv, TypeOK, WorkerInv, Ending, StartRetry, Done, SameStatus
<1>8. Touches(w, t)
    BY <1>1 DEF Touches, serverVars, taskVars, StartRetry, SameStatus
<1> QED BY <1>1, <1>2, <1>3, <1>4, <1>5, <1>6, <1>7, <1>8, Frame DEF WorkerInv

-----------------------------------------------------------------------------
(* The steps of a worker after its runner.                                 *)

\* A worker that settles its task is free, and so is the task.
LEMMA SettleStep ==
    ASSUME IInv, NEW w \in Workers, stage[w] \notin {"idle", "gone"},
           NEW s \in Statuses, Settle(w, s),
           job[w] \notin Pausable => s \notin InPause,
           stage[w] \notin {"working"}
    PROVE  IInv'
<1>1. PICK t \in Tasks : /\ t = job[w] /\ t # None /\ (t \notin crossed => runnerOf[t] = w)
                        /\ WorkerInv(w) /\ TaskInv(t) /\ Holds(w, t)
    BY AtWork DEF Holds, Settle
<1>2. TypeOK'
    <2>1. 0 \in 0..Lanes
        BY TaskAssumption
    <2> QED BY <1>1, <2>1 DEF IInv, TypeOK, Stages, Settle, SetStatus, serverVars
<1>3. TaskInv(t)'
    BY <1>1 DEF IInv, TypeOK, TaskInv, Settle, SetStatus
<1>4. WorkerInv(w)'
    <2>1. /\ job'[w] = None /\ busy'[w] = 0 /\ phase' = phase
          /\ stage'[w] = IF phase = "up" THEN "idle" ELSE "gone"
          /\ waiting'[w] = waiting[w]
        BY DEF IInv, TypeOK, Settle, serverVars
    <2>2. Resting(w)'
        BY <1>1, <2>1 DEF IInv, TypeOK, WorkerInv, Resting
    <2>3. Owning(w)' /\ Working(w)' /\ Ending(w)' /\ Through(w)'
        BY <2>1, <1>1, TaskAssumption DEF WorkerInv, Through, Resting, Owning, Working, Ending, Done
    <2> QED BY <2>2, <2>3 DEF WorkerInv
<1>5. Touches(w, t)
    BY <1>1 DEF IInv, TypeOK, Touches, Settle, SetStatus, serverVars
<1> QED BY <1>1, <1>2, <1>3, <1>4, <1>5, Frame

LEMMA TakeResultStep ==
    ASSUME IInv, NEW w \in Workers, TakeResult(w)
    PROVE  IInv'
<1>1. PICK s \in {"success", "failed"} : Settle(w, s)
    BY DEF TakeResult
<1> QED BY <1>1, SettleStep DEF TakeResult, Statuses, Terminal, InPause

LEMMA TakeCancellationStep ==
    ASSUME IInv, NEW w \in Workers, TakeCancellation(w)
    PROVE  IInv'
<1>1. PICK s \in {"paused", "pending", "canceled"} :
            Settle(w, s) /\ (job[w] \notin Pausable => s = "canceled")
    BY DEF TakeCancellation
<1> QED BY <1>1, SettleStep DEF TakeCancellation, Statuses, Terminal, InPause

LEMMA EndRetryStep ==
    ASSUME IInv, NEW w \in Workers, EndRetry(w)
    PROVE  IInv'
<1>1. job[w] \in Tasks /\ WorkerInv(w)
    BY AtWork DEF Holds, EndRetry
<1>2. status[job[w]] \in Statuses \ InPause
    BY <1>1, AtWork DEF IInv, TypeOK, TaskInv, EndRetry, WorkerInv, Through
<1>3. PICK s \in Statuses \ InPause : Settle(w, s)
    BY <1>2 DEF EndRetry, Statuses, Terminal, InPause
<1> QED BY <1>3, SettleStep DEF EndRetry, Statuses, Terminal, InPause

-----------------------------------------------------------------------------
(* The steps on a task no worker has.                                      *)

LEMMA Unheld ==
    ASSUME IInv, NEW t \in Tasks, status[t] \in {"absent", "pending"}, t \notin crossed
    PROVE  \A w \in Workers : job[w] # t
<1> SUFFICES ASSUME NEW w \in Workers, job[w] = t PROVE FALSE
    OBVIOUS
<1>1. t # None /\ stage[w] \in Stages /\ WorkerInv(w)
    BY TaskAssumption DEF IInv, TypeOK
<1>2. stage[w] \notin {"idle", "gone"}
    BY <1>1 DEF WorkerInv, Resting
<1> QED BY <1>1, <1>2 DEF WorkerInv, Working, Ending, Active, Stages, Live, Done

LEMMA CreateStep ==
    ASSUME IInv, Create
    PROVE  IInv'
<1>1. PICK t \in Tasks :
            /\ status[t] = "absent" /\ SetStatus(t, "pending") /\ queue' = Append(queue, t)
            /\ UNCHANGED <<taskVars, stage, job, execVars, serverVars, crossed>>
    BY DEF Create
<1>2. Holds(None, t)
    BY <1>1, Unheld, TaskAssumption DEF Holds
<1>3. TypeOK'
    BY <1>1 DEF IInv, TypeOK, Statuses, SetStatus, taskVars, execVars, serverVars
<1>4. TaskInv(t)'
    BY <1>1 DEF IInv, TypeOK, TaskInv, InPause, SetStatus, taskVars
<1>5. Touches(None, t)
    BY <1>1 DEF IInv, TypeOK, Touches, SetStatus, taskVars, execVars, serverVars
<1> QED BY <1>2, <1>3, <1>4, <1>5, Frame, TaskAssumption

LEMMA PickUpStep ==
    ASSUME IInv, NEW w \in Workers, PickUp(w)
    PROVE  IInv'
<1>1. PICK t \in Tasks : t = Head(queue)
    BY DEF IInv, TypeOK, PickUp
<1>2. job[w] = None /\ busy[w] = 0 /\ waiting[w] \in Nat /\ ~(waiting[w] > 0)
    BY TaskAssumption DEF IInv, TypeOK, WorkerInv, Resting, PickUp
<1>3. Tail(queue) \in Seq(Tasks)
    BY DEF IInv, TypeOK, PickUp
<1>4. CASE status[t] = "pending"
    <2>1. Holds(w, t)
        BY <1>2, <1>4, Unheld DEF Holds, PickUp
    <2>2. TypeOK'
        <3>1. 0 \in 0..Lanes /\ Units \in 0..Units
            BY TaskAssumption
        <3>2. /\ status' \in [Tasks -> Statuses] /\ journal' \in [Tasks -> Statuses]
              /\ runnerOf' \in [Tasks -> Workers \cup {None}]
              /\ requested' \in [Tasks -> BOOLEAN] /\ units' \in [Tasks -> Nat]
            <4>1. /\ status' = [status EXCEPT ![t] = "running"]
                  /\ journal' = [journal EXCEPT ![t] = "running"]
                  /\ runnerOf' = [runnerOf EXCEPT ![t] = w]
                  /\ requested' = [requested EXCEPT ![t] = FALSE]
                  /\ units' = [units EXCEPT ![t] = 0]
                BY <1>1, <1>4 DEF PickUp, SetStatus
            <4>2. "running" \in Statuses
                BY DEF Statuses
            <4>3. /\ runnerOf \in [Tasks -> Workers \cup {None}] /\ units \in [Tasks -> Nat]
                  /\ status \in [Tasks -> Statuses] /\ journal \in [Tasks -> Statuses]
                  /\ requested \in [Tasks -> BOOLEAN]
                BY DEF IInv, TypeOK
            <4> QED BY <3>1, <4>1, <4>2, <4>3
        <3>3. /\ stage' \in [Workers -> Stages] /\ job' \in [Workers -> Tasks \cup {None}]
              /\ open' \in [Workers -> BOOLEAN] /\ left' \in [Workers -> 0..Units]
            BY <1>1, <1>4, <3>1 DEF IInv, TypeOK, Stages, Live, PickUp
        <3> QED BY <1>3, <3>2, <3>3 DEF IInv, TypeOK, PickUp, serverVars
    <2>3. TaskInv(t)'
        BY <1>1, <1>4 DEF IInv, TypeOK, TaskInv, InPause, PickUp, SetStatus
    <2>4. WorkerInv(w)'
        <3>1. /\ job'[w] = t /\ stage'[w] = "working" /\ open'[w] /\ busy'[w] = busy[w]
              /\ waiting'[w] = waiting[w] /\ phase' = "up"
              /\ status'[t] = "running" /\ runnerOf'[t] = w /\ ~requested'[t] /\ units'[t] = 0
            BY <1>1, <1>4 DEF IInv, TypeOK, PickUp, SetStatus, serverVars
        <3>2. Resting(w)' /\ Owning(w)' /\ Through(w)'
            BY <1>2, <3>1, TaskAssumption DEF Resting, Owning, Through, Live, Done
        <3>3. Working(w)'
            BY <1>2, <3>1 DEF Working, Active, InPause
        <3>4. Ending(w)'
            BY <3>1 DEF Ending, Done
        <3> QED BY <3>2, <3>3, <3>4 DEF WorkerInv
    <2>5. Touches(w, t)
        BY <1>1, <1>4 DEF IInv, TypeOK, Touches, PickUp, SetStatus, serverVars
    <2> QED BY <2>1, <2>2, <2>3, <2>4, <2>5, Frame
<1>5. CASE status[t] # "pending"
    <2>1. UNCHANGED <<status, journal, taskVars, stage, job, execVars, serverVars, crossed>>
        BY <1>1, <1>5 DEF PickUp, execVars
    <2>2. TypeOK'
        BY <1>3, <2>1 DEF IInv, TypeOK, PickUp, taskVars, execVars, serverVars
    <2>3. ASSUME NEW u \in Tasks PROVE TaskInv(u)'
        BY <2>1 DEF IInv, TaskInv, taskVars
    <2>4. ASSUME NEW v \in Workers PROVE WorkerInv(v)'
        BY <2>1 DEF IInv, WorkerInv, Resting, Through, Owning, Working, Ending,
                    taskVars, execVars, serverVars
    <2> QED BY <2>2, <2>3, <2>4 DEF IInv
<1> QED BY <1>4, <1>5

-----------------------------------------------------------------------------
(* The routes.                                                             *)

LEMMA PauseStep ==
    ASSUME IInv, NEW t \in Tasks, Pause(t)
    PROVE  IInv'
<1>1. PICK w \in Workers : w = runnerOf[t] /\ job[w] = t /\ stage[w] \in Live
    BY LiveTask DEF Pause
<1>2. t # None /\ WorkerInv(w) /\ TaskInv(t) /\ Holds(w, t)
    BY <1>1, AtWork DEF Live, Holds, Pause
<1>3. /\ status'[t] = Quiesced("pausing", TRUE, units[t]) /\ requested'[t]
      /\ journal'[t] = status'[t] /\ ~open'[w]
      /\ status'[t] \in InPause /\ (t \notin crossed /\ busy[w] > 0 => status'[t] # "paused")
    <2>1. busy[w] \in Nat /\ (t \notin crossed => units[t] = busy[w])
        BY <1>1, <1>2, TaskAssumption DEF IInv, TypeOK, WorkerInv, Owning, Pause
    <2> QED BY <1>1, <2>1 DEF IInv, TypeOK, Pause, RequestPause, SetStatus, Quiesced, InPause
<1>4. TypeOK'
    BY <1>1 DEF IInv, TypeOK, Statuses, Pause, RequestPause, SetStatus, Quiesced, serverVars
<1>5. TaskInv(t)'
    BY <1>1, <1>2, <1>3 DEF TaskInv, Pause
<1>6. WorkerInv(w)'
    <2>1. Resting(w)'
        BY <1>2 DEF WorkerInv, Resting, Pause, serverVars
    <2>2. Owning(w)'
        BY <1>1, <1>2, <1>3 DEF WorkerInv, Owning, Pause
    <2>3. Working(w)'
        BY <1>1, <1>3 DEF Working, Active, InPause, Pause
    <2>4. Ending(w)' /\ Through(w)'
        BY <1>1, <1>2, <1>3 DEF Through, WorkerInv, Ending, Active, InPause, Live, Done, Pause
    <2> QED BY <2>1, <2>2, <2>3, <2>4 DEF WorkerInv
<1>7. Touches(w, t)
    BY <1>1 DEF IInv, TypeOK, Touches, Pause, RequestPause, SetStatus, serverVars
<1> QED BY <1>2, <1>4, <1>5, <1>6, <1>7, Frame

\* A route that finds no live runner crosses the task, or nobody has it.
LEMMA CrossedOrFree ==
    ASSUME IInv, NEW t \in Tasks, ~LiveRunner(t), Crosses(t)
    PROVE  /\ \A w \in Workers : job[w] = t => t \in crossed'
           /\ \A u \in Tasks \ {t} : u \in crossed <=> u \in crossed'
           /\ crossed' \subseteq Tasks
<1>1. ASSUME NEW w \in Workers, job[w] = t PROVE t \in crossed'
    <2>1. t # None /\ stage[w] \in Stages /\ WorkerInv(w)
        BY TaskAssumption DEF IInv, TypeOK
    <2>2. CASE t \in crossed
        BY <2>2 DEF Crosses
    <2>3. CASE t \notin crossed
        <3>1. runnerOf[t] = w
            BY <1>1, <2>1, <2>3 DEF WorkerInv, Owning
        <3>2. stage[w] \notin Live
            BY <3>1, <2>1, TaskAssumption DEF LiveRunner
        <3> QED BY <1>1, <3>2 DEF Crosses
    <2> QED BY <2>2, <2>3
<1>2. /\ \A u \in Tasks \ {t} : u \in crossed <=> u \in crossed'
      /\ crossed' \subseteq Tasks
    BY DEF Crosses, IInv, TypeOK
<1> QED BY <1>1, <1>2

LEMMA RequeueStep ==
    ASSUME IInv, NEW t \in Tasks, Requeue(t),
           UNCHANGED <<runnerOf, units, stage, job, left, busy, serverVars>>
    PROVE  IInv'
<1>1. /\ \A w \in Workers : job[w] = t => t \in crossed'
      /\ \A u \in Tasks \ {t} : u \in crossed <=> u \in crossed'
      /\ crossed' \subseteq Tasks
    BY CrossedOrFree DEF Requeue
<1>2. Holds(None, t)
    BY <1>1, TaskAssumption DEF Holds
<1>3. TypeOK'
    BY <1>1 DEF IInv, TypeOK, Statuses, Requeue, SetStatus, serverVars
<1>4. TaskInv(t)'
    BY DEF IInv, TypeOK, TaskInv, InPause, Requeue, SetStatus
<1>5. Touches(None, t)
    BY <1>1 DEF IInv, TypeOK, Touches, Requeue, SetStatus, serverVars
<1> QED BY <1>2, <1>3, <1>4, <1>5, Frame, TaskAssumption

LEMMA ContinueStep ==
    ASSUME IInv, NEW t \in Tasks, Continue(t),
           UNCHANGED <<runnerOf, units, stage, job, left, busy, serverVars>>
    PROVE  IInv'
<1>1. PICK w \in Workers : w = runnerOf[t] /\ job[w] = t /\ stage[w] \in Live
    BY LiveTask DEF Continue
<1>2. t # None /\ WorkerInv(w) /\ TaskInv(t) /\ Holds(w, t)
    BY <1>1, AtWork DEF Live, Holds, Continue
<1>3. /\ status'[t] = "running" /\ journal'[t] = "running" /\ ~requested'[t]
      /\ open'[w] /\ waiting'[w] = 0
    BY <1>1 DEF IInv, TypeOK, Continue, SetStatus
<1>4. TypeOK'
    <2>1. 0 \in 0..Lanes
        BY TaskAssumption
    <2> QED BY <1>1, <2>1 DEF IInv, TypeOK, Statuses, Continue, SetStatus, serverVars
<1>5. TaskInv(t)'
    BY <1>2, <1>3 DEF TaskInv, InPause
<1>6. WorkerInv(w)'
    <2>1. Resting(w)'
        BY <1>2, <1>3 DEF WorkerInv, Resting, serverVars
    <2>2. Owning(w)'
        BY <1>1, <1>2, <1>3 DEF WorkerInv, Owning, Continue
    <2>3. Working(w)'
        BY <1>1, <1>3 DEF Working, Active, InPause, Continue
    <2>4. Ending(w)' /\ Through(w)'
        BY <1>1, <1>2, <1>3 DEF Through, WorkerInv, Ending, Active, InPause, Live, Done
    <2> QED BY <2>1, <2>2, <2>3, <2>4 DEF WorkerInv
<1>7. Touches(w, t)
    BY <1>1 DEF IInv, TypeOK, Touches, Continue, SetStatus, serverVars
<1> QED BY <1>2, <1>4, <1>5, <1>6, <1>7, Frame

LEMMA CancelLiveStep ==
    ASSUME IInv, NEW t \in Tasks, Cancel(t), status[t] # "pending", LiveRunner(t)
    PROVE  IInv'
<1>1. PICK w \in Workers : w = runnerOf[t] /\ job[w] = t /\ stage[w] \in Live
    BY LiveTask
<1>2. t # None /\ WorkerInv(w) /\ TaskInv(t) /\ Holds(w, t) /\ phase = "up"
    BY <1>1, AtWork DEF Live, Holds, Cancel, MayRoute
<1>3. /\ status'[t] = "canceling" /\ journal'[t] = "canceling"
      /\ stage'[w] = "unwinding" /\ waiting'[w] = 0
      /\ UNCHANGED <<queue, taskVars, job, open, left, busy, serverVars, crossed>>
    BY <1>1 DEF IInv, TypeOK, Cancel, SetStatus
<1>4. TypeOK'
    <2>1. 0 \in 0..Lanes /\ "unwinding" \in Stages /\ "canceling" \in Statuses
        BY TaskAssumption DEF Stages, Live, Statuses
    <2>2. /\ status' = [status EXCEPT ![t] = "canceling"]
          /\ journal' = [journal EXCEPT ![t] = "canceling"]
          /\ stage' = [stage EXCEPT ![w] = "unwinding"]
          /\ waiting' = [waiting EXCEPT ![w] = 0]
        BY <1>1 DEF Cancel, SetStatus
    <2> QED BY <1>3, <2>1, <2>2 DEF IInv, TypeOK, taskVars, serverVars
<1>5. TaskInv(t)'
    BY <1>2, <1>3 DEF TaskInv, InPause, taskVars
<1>6. WorkerInv(w)'
    <2>1. Resting(w)'
        BY <1>1, <1>2, <1>3 DEF WorkerInv, Resting, serverVars
    <2>2. Owning(w)'
        BY <1>1, <1>2, <1>3 DEF WorkerInv, Owning, taskVars
    <2>3. Working(w)' /\ Ending(w)' /\ Through(w)'
        BY <1>1, <1>3 DEF Through, Working, Ending, Done
    <2> QED BY <2>1, <2>2, <2>3 DEF WorkerInv
<1>7. Touches(w, t)
    BY <1>1 DEF IInv, TypeOK, Touches, Cancel, SetStatus, taskVars, serverVars
<1> QED BY <1>2, <1>4, <1>5, <1>6, <1>7, Frame

\* A pending task has no live runner, unless it has been crossed.
LEMMA CancelDirectStep ==
    ASSUME IInv, NEW t \in Tasks, Cancel(t),
           ~(status[t] # "pending" /\ LiveRunner(t))
    PROVE  IInv'
<1>1. /\ SetStatus(t, "canceled") /\ Crosses(t)
      /\ UNCHANGED <<queue, taskVars, stage, job, execVars, serverVars>>
    BY DEF Cancel, execVars
<1>2. /\ \A w \in Workers : job[w] = t => t \in crossed'
      /\ \A u \in Tasks \ {t} : u \in crossed <=> u \in crossed'
      /\ crossed' \subseteq Tasks
    <2>1. CASE LiveRunner(t)
        <3>1. \A w \in Workers : job[w] = t => t \in crossed
            BY <2>1, Unheld
        <3> QED BY <1>1, <3>1 DEF Crosses, IInv, TypeOK
    <2>2. CASE ~LiveRunner(t)
        BY <1>1, <2>2, CrossedOrFree
    <2> QED BY <2>1, <2>2
<1>3. Holds(None, t)
    BY <1>2, TaskAssumption DEF Holds
<1>4. TypeOK'
    BY <1>1, <1>2 DEF IInv, TypeOK, Statuses, Terminal, SetStatus, taskVars, execVars,
                      serverVars
<1>5. TaskInv(t)'
    BY <1>1 DEF IInv, TypeOK, TaskInv, InPause, SetStatus, taskVars
<1>6. Touches(None, t)
    BY <1>1, <1>2 DEF IInv, TypeOK, Touches, SetStatus, taskVars, execVars, serverVars
<1> QED BY <1>3, <1>4, <1>5, <1>6, Frame, TaskAssumption

-----------------------------------------------------------------------------
(* Stop and start, which touch every worker.                               *)

LEMMA StopStep ==
    ASSUME IInv, Stop
    PROVE  IInv'
<1>1. TypeOK'
    <2>1. 0 \in 0..Lanes
        BY TaskAssumption
    <2>2. stage' \in [Workers -> Stages]
        BY DEF IInv, TypeOK, Stop, Stages, Live, Done
    <2> QED BY <2>1, <2>2 DEF IInv, TypeOK, Stop, SameStatus, taskVars
<1>2. ASSUME NEW t \in Tasks PROVE TaskInv(t)'
    BY DEF IInv, TaskInv, Stop, SameStatus, taskVars
<1>3. ASSUME NEW w \in Workers PROVE WorkerInv(w)'
    <2>1. WorkerInv(w) /\ stage[w] \in Stages /\ waiting'[w] = 0 /\ phase' = "stopping"
        BY DEF IInv, TypeOK, Stop
    <2>2. /\ stage[w] \in {"idle", "gone"} => stage'[w] = "gone"
          /\ stage[w] \in Live => stage'[w] = "unwinding"
          /\ stage[w] \in Done => stage'[w] = "cancelled"
          /\ stage[w] = "retrying" => stage'[w] = "retrying"
        BY DEF Stop, Live, Done
    <2>3. UNCHANGED <<status, runnerOf, requested, units, job, open, busy, crossed>>
        BY DEF Stop, SameStatus, taskVars
    <2>4. Resting(w)'
        BY <2>1, <2>2, <2>3 DEF WorkerInv, Resting, Stages, Live, Done
    <2>5. Owning(w)'
        BY <2>1, <2>2, <2>3 DEF WorkerInv, Owning, Stages, Live, Done
    <2>6. Working(w)'
        BY <2>1, <2>2 DEF Working, Stages, Live, Done
    <2>7. Ending(w)' /\ Through(w)'
        BY <2>1, <2>2, <2>3 DEF Through, WorkerInv, Working, Ending, Active, Stages, Live, Done
    <2> QED BY <2>4, <2>5, <2>6, <2>7 DEF WorkerInv
<1> QED BY <1>1, <1>2, <1>3 DEF IInv

\* What load_tasks returns is a sequence of tasks.
LEMMA AscendingType ==
    ASSUME NEW S \in SUBSET Tasks
    PROVE  Ascending(S) \subseteq Seq(Tasks)
<1>1. Cardinality(S) \in Nat
    BY FS_Subset, FS_CardinalityType, TaskAssumption
<1>2. ASSUME NEW q \in [1..Cardinality(S) -> S] PROVE q \in Seq(Tasks)
    BY <1>1
<1> QED BY <1>2 DEF Ascending

LEMMA RestartStep ==
    ASSUME IInv, Restart
    PROVE  IInv'
<1>1. \A t \in Tasks : /\ status'[t] = Recovered(journal[t])
                       /\ journal'[t] = status'[t]
                       /\ runnerOf'[t] = None /\ ~requested'[t]
    BY DEF Restart
<1>2. TypeOK'
    <2>1. \A s \in Statuses : Recovered(s) \in Statuses
        BY DEF Statuses, Recovered, Terminal
    <2>2. status' \in [Tasks -> Statuses] /\ journal' = status'
        BY <2>1 DEF IInv, TypeOK, Restart
    <2>3. queue' \in Seq(Tasks)
        BY AscendingType DEF Restart
    <2>4. restarts' \in 0..MaxRestarts
        BY TaskAssumption DEF IInv, TypeOK, Restart
    <2>5. 0 \in 0..Lanes /\ 0 \in 0..Units /\ "idle" \in Stages
        BY TaskAssumption DEF Stages
    <2> QED BY <2>2, <2>3, <2>4, <2>5 DEF TypeOK, Restart
<1>3. ASSUME NEW t \in Tasks PROVE TaskInv(t)'
    <2>1. status'[t] \in InPause => status[t] \in InPause
        BY <1>1 DEF IInv, TaskInv, InPause, Recovered
    <2> QED BY <1>1, <2>1 DEF IInv, TaskInv
<1>4. ASSUME NEW w \in Workers PROVE WorkerInv(w)'
    <2>1. /\ stage'[w] = "idle" /\ job'[w] = None /\ busy'[w] = 0 /\ waiting'[w] = 0
          /\ phase' = "up"
        BY DEF Restart
    <2> QED BY <2>1 DEF WorkerInv, Resting, Through, Owning, Working, Ending, Live, Done
<1> QED BY <1>2, <1>3, <1>4 DEF IInv

-----------------------------------------------------------------------------
(* The theorems.                                                           *)

LEMMA InitIInv == Init => IInv
<1> SUFFICES ASSUME Init PROVE IInv
    OBVIOUS
<1>1. TypeOK
    BY TaskAssumption DEF Init, TypeOK, Statuses, Stages
<1>2. ASSUME NEW t \in Tasks PROVE TaskInv(t)
    BY DEF Init, TaskInv, InPause
<1>3. ASSUME NEW w \in Workers PROVE WorkerInv(w)
    BY DEF Init, WorkerInv, Resting, Through, Owning, Working, Ending, Live, Done
<1> QED BY <1>1, <1>2, <1>3 DEF IInv

LEMMA NextIInv ==
    ASSUME IInv, [Next]_vars
    PROVE  IInv'
<1>1. CASE Create
    BY <1>1, CreateStep
<1>2. CASE Stop
    BY <1>2, StopStep
<1>3. CASE Restart
    BY <1>3, RestartStep
<1>4. ASSUME NEW t \in Tasks, Route(t) PROVE IInv'
    <2>1. CASE Pause(t)
        BY <2>1, PauseStep
    <2>2. CASE Resume(t)
        BY <2>2, RequeueStep, ContinueStep DEF Resume
    <2>3. CASE Cancel(t)
        BY <2>3, CancelLiveStep, CancelDirectStep
    <2> QED BY <1>4, <2>1, <2>2, <2>3 DEF Route
<1>5. ASSUME NEW w \in Workers, Runner(w) PROVE IInv'
    BY <1>5, BeginUnitStep, EndUnitStep, CheckpointStep, IdentityFailureStep,
       RunnerEndsStep, RunnerLosesClientStep, UnwoundStep DEF Runner
<1>6. ASSUME NEW w \in Workers, Worker(w) PROVE IInv'
    BY <1>6, PickUpStep, TakeResultStep, TakeCancellationStep, StartRetryStep,
       EndRetryStep DEF Worker
<1>7. CASE UNCHANGED vars
    <2>1. TypeOK'
        BY <1>7 DEF IInv, TypeOK, vars, taskVars, execVars, serverVars
    <2>2. ASSUME NEW t \in Tasks PROVE TaskInv(t)'
        BY <1>7 DEF IInv, TaskInv, vars, taskVars
    <2>3. ASSUME NEW w \in Workers PROVE WorkerInv(w)'
        BY <1>7 DEF IInv, WorkerInv, Resting, Through, Owning, Working, Ending,
                    vars, taskVars, execVars, serverVars
    <2> QED BY <2>1, <2>2, <2>3 DEF IInv
<1> QED BY <1>1, <1>2, <1>3, <1>4, <1>5, <1>6, <1>7 DEF Next

\* The invariant that the properties of the queue rest on.
THEOREM TaskInvariant == Spec => []IInv
<1>1. IInv /\ [Next]_vars => IInv'
    BY NextIInv
<1> QED BY <1>1, InitIInv, PTL DEF Spec

\* Every variable keeps its type.
THEOREM TaskTypeCorrect == Spec => []TypeOK
<1>1. IInv => TypeOK
    BY DEF IInv
<1> QED BY <1>1, TaskInvariant, PTL

\* No task is executed by two workers, however often it is paused, resumed
\* and queued again, unless a route crossed the end of an execution of it.
THEOREM TaskOneExecution == Spec => []OneExecution
<1>1. IInv => OneExecution
    BY DEF IInv, WorkerInv, Owning, OneExecution
<1> QED BY <1>1, TaskInvariant, PTL

\* A task that no route has crossed and that is shown as paused has no lane
\* at work.
THEOREM TaskPausedIsQuiet == Spec => []PausedIsQuiet
<1>1. ASSUME IInv, NEW w \in Workers, busy[w] > 0, job[w] \notin crossed
      PROVE  status[job[w]] # "paused"
    BY <1>1 DEF IInv, WorkerInv, Resting, Owning
<1>2. IInv => PausedIsQuiet
    BY <1>1 DEF PausedIsQuiet
<1> QED BY <1>2, TaskInvariant, PTL

\* A lane waits for the pause event only while the user can resume the task,
\* and the event says what the status says, for tasks no route has crossed.
THEOREM TaskWaitIsResumable == Spec => []WaitIsResumable
<1>1. IInv => WaitIsResumable
    BY DEF IInv, WorkerInv, Working, WaitIsResumable, InPause
<1> QED BY <1>1, TaskInvariant, PTL

-----------------------------------------------------------------------------
(* Steps: how the status of a task can move.                               *)

\* A worker gives the task a new status after its execution.
Settles(t) ==
    \E w \in Workers :
        /\ job[w] = t /\ WorkerInv(w)
        /\ \/ TakeResult(w)
           \/ TakeCancellation(w)
           \/ EndRetry(w)

LEMMA RunnerMoves ==
    ASSUME IInv, NEW w \in Workers, Runner(w), NEW t \in Tasks, status'[t] # status[t]
    PROVE  /\ t \in Pausable /\ status'[t] \in InPause
           /\ t \notin crossed => status[t] \in Active
<1>1. CASE EndUnit(w)
    BY <1>1 DEF IInv, TypeOK, EndUnit, SetStatus, Quiesced, Active, InPause
<1>2. CASE Checkpoint(w)
    BY <1>2 DEF IInv, TypeOK, Checkpoint, SetStatus, Quiesced, Active, InPause
<1>3. CASE IdentityFailure(w)
    <2>1. t = job[w] /\ t \in Pausable /\ status'[t] \in InPause
        BY <1>3 DEF IInv, TypeOK, IdentityFailure, RequestPause, SetStatus, Quiesced, InPause
    <2>2. Working(w) /\ stage[w] = "working"
        BY <1>3 DEF IInv, WorkerInv, IdentityFailure, LaneFree
    <2> QED BY <2>1, <2>2 DEF Working
<1>4. CASE BeginUnit(w) \/ RunnerEnds(w) \/ RunnerLosesClient(w) \/ Unwound(w)
    BY <1>4 DEF BeginUnit, RunnerEnds, RunnerLosesClient, Unwound, SameStatus
<1> QED BY <1>1, <1>2, <1>3, <1>4 DEF Runner

LEMMA WorkerMoves ==
    ASSUME IInv, NEW w \in Workers, Worker(w), NEW t \in Tasks, status'[t] # status[t]
    PROVE  \/ PickUp(w) /\ status[t] = "pending" /\ status'[t] = "running" /\ phase = "up"
           \/ Settles(t)
<1>1. CASE PickUp(w)
    BY <1>1 DEF IInv, TypeOK, PickUp, SetStatus
<1>2. CASE StartRetry(w)
    BY <1>2 DEF StartRetry, SameStatus
<1>3. CASE TakeResult(w) \/ TakeCancellation(w) \/ EndRetry(w)
    <2>1. PICK s : Settle(w, s)
        BY <1>3 DEF TakeResult, TakeCancellation, EndRetry
    <2>2. job[w] = t /\ WorkerInv(w)
        BY <2>1 DEF IInv, TypeOK, Settle, SetStatus
    <2> QED BY <1>3, <2>2 DEF Settles
<1> QED BY <1>1, <1>2, <1>3 DEF Worker

LEMMA RouteMoves ==
    ASSUME IInv, NEW u \in Tasks, Route(u), NEW t \in Tasks, status'[t] # status[t]
    PROVE  u = t
BY DEF IInv, TypeOK, Route, Pause, RequestPause, Resume, Requeue, Continue, Cancel, SetStatus

LEMMA Moves ==
    ASSUME IInv, Next, NEW t \in Tasks, status'[t] # status[t]
    PROVE  \/ Create /\ status[t] = "absent" /\ phase = "up"
           \/ Restart /\ status'[t] = Recovered(status[t])
           \/ Route(t) /\ phase = "up"
           \/ /\ t \in Pausable /\ status'[t] \in InPause
              /\ t \notin crossed => status[t] \in Active
           \/ status[t] = "pending" /\ status'[t] = "running" /\ phase = "up"
           \/ Settles(t)
<1>1. CASE Create
    BY <1>1 DEF IInv, TypeOK, Create, SetStatus, MayRoute
<1>2. CASE Stop
    BY <1>2 DEF Stop, SameStatus
<1>3. CASE Restart
    BY <1>3 DEF IInv, TaskInv, Restart
<1>4. CASE \E u \in Tasks : Route(u)
    BY <1>4, RouteMoves DEF Route, Pause, Resume, Cancel, MayRoute
<1>5. ASSUME NEW w \in Workers, Runner(w)
      PROVE  /\ t \in Pausable /\ status'[t] \in InPause
             /\ t \notin crossed => status[t] \in Active
    BY <1>5, RunnerMoves
<1>6. ASSUME NEW w \in Workers, Worker(w)
      PROVE  \/ status[t] = "pending" /\ status'[t] = "running" /\ phase = "up"
             \/ Settles(t)
    BY <1>6, WorkerMoves
<1> QED BY <1>1, <1>2, <1>3, <1>4, <1>5, <1>6 DEF Next

\* What a worker makes of a task, given what the task was.
LEMMA Settlement ==
    ASSUME IInv, NEW t \in Tasks, Settles(t)
    PROVE  /\ status[t] \in InPause => status'[t] \notin {"pending", "running"}
           /\ phase = "stopping" /\ t \in Pausable /\ status[t] # "canceling"
                => status'[t] \in {"pending", "paused"}
           /\ phase = "up" => status'[t] \in Terminal
           /\ t \notin crossed =>
                /\ status[t] \in Active \cup {"canceling"}
                /\ status[t] = "canceling" => status'[t] = "canceled"
<1>1. PICK w \in Workers : /\ job[w] = t /\ WorkerInv(w)
                           /\ TakeResult(w) \/ TakeCancellation(w) \/ EndRetry(w)
    BY DEF Settles
<1>2. TaskInv(t) /\ phase \in {"up", "stopping"}
    BY DEF IInv, TypeOK
<1>3. CASE TakeResult(w)
    <2>1. (t \notin crossed => status[t] \in Active) /\ phase # "stopping"
        BY <1>1, <1>3 DEF TakeResult, WorkerInv, Resting, Ending
    <2>2. status'[t] \in {"success", "failed"}
        BY <1>1, <1>3 DEF IInv, TypeOK, TakeResult, Settle, SetStatus
    <2> QED BY <2>1, <2>2 DEF Active, Terminal
<1>4. CASE TakeCancellation(w)
    <2>1. t \notin crossed => status[t] \in Active \cup {"canceling"}
        BY <1>1, <1>4 DEF TakeCancellation, WorkerInv, Ending
    <2>2. status'[t] = IF phase = "stopping" /\ t \in Pausable /\ status[t] # "canceling"
                       THEN IF status[t] \in InPause THEN "paused" ELSE "pending"
                       ELSE "canceled"
        BY <1>1, <1>4 DEF IInv, TypeOK, TakeCancellation, Settle, SetStatus, InPause
    <2> QED BY <1>2, <2>1, <2>2 DEF Active, InPause, Terminal
<1>5. CASE EndRetry(w)
    <2>1. t \notin Pausable /\ (t \notin crossed => status[t] = "running")
        BY <1>1, <1>5 DEF EndRetry, WorkerInv, Ending, Through
    <2>2. phase = "up" => status'[t] \in Terminal
        BY <1>1, <1>5 DEF IInv, TypeOK, EndRetry, Settle, SetStatus, Terminal
    <2>3. status[t] \notin InPause
        BY <1>2, <2>1 DEF TaskInv
    <2> QED BY <1>2, <2>1, <2>2, <2>3 DEF Active, Terminal
<1> QED BY <1>1, <1>3, <1>4, <1>5

\* No unit starts once the user was told that the task is pausing, paused,
\* canceling or canceled, unless the task has been crossed.
THEOREM TaskUnitsStartWhileRunning == Spec => UnitsStartWhileRunning
<1> DEFINE OK(w) == busy'[w] > busy[w] /\ job[w] \notin crossed => status[job[w]] = "running"
<1>1. ASSUME IInv, Next, NEW w \in Workers, busy'[w] > busy[w], job[w] \notin crossed
      PROVE  status[job[w]] = "running"
    <2>1. busy[w] \in Nat
        BY <1>1, TaskAssumption DEF IInv, TypeOK
    <2>2. BeginUnit(w) \/ StartRetry(w)
        <3>1. busy' # busy
            BY <1>1, <2>1
        <3>2. ~Create /\ ~Stop /\ ~Restart
            BY <1>1, <2>1, <3>1 DEF Create, Stop, Restart, execVars
        <3>3. ASSUME NEW t \in Tasks, Route(t) PROVE FALSE
            BY <3>1, <3>3 DEF Route, Pause, Resume, Cancel
        <3>4. PICK v \in Workers : Runner(v) \/ Worker(v)
            BY <1>1, <3>2, <3>3 DEF Next
        <3>5. /\ busy' # [busy EXCEPT ![v] = 0]
              /\ busy' # [busy EXCEPT ![v] = @ - 1]
            <4>1. DOMAIN busy = Workers
                BY <1>1 DEF IInv, TypeOK
            <4> QED BY <1>1, <2>1, <4>1
        <3>6. BeginUnit(v) \/ StartRetry(v)
            BY <3>1, <3>4, <3>5
               DEF Runner, Worker, EndUnit, Checkpoint, IdentityFailure, RunnerEnds,
                   RunnerLosesClient, Unwound, PickUp, TakeResult, TakeCancellation,
                   EndRetry, Settle, execVars
        <3>7. v = w
            BY <1>1, <2>1, <3>6 DEF IInv, TypeOK, BeginUnit, StartRetry
        <3> QED BY <3>6, <3>7
    <2>3. WorkerInv(w) /\ (job[w] \in Tasks => TaskInv(job[w])) /\ job[w] \in Tasks \cup {None}
        BY <1>1 DEF IInv, TypeOK
    <2>4. CASE BeginUnit(w)
        BY <1>1, <2>3, <2>4 DEF BeginUnit, LaneFree, WorkerInv, Resting, Working, TaskInv, Active, InPause
    <2>5. CASE StartRetry(w)
        BY <1>1, <2>3, <2>5 DEF StartRetry, WorkerInv, Ending
    <2> QED BY <2>2, <2>4, <2>5
<1>2. IInv /\ [Next]_vars => [\A w \in Workers : OK(w)]_vars
    BY <1>1
<1> QED BY <1>2, TaskInvariant, PTL DEF Spec, UnitsStartWhileRunning

\* A stop, a kill and the next start leave a pause: only the user's resume
\* sets the task going again, also where routes cross the end of an execution.
THEOREM TaskPauseHonoured == Spec => PauseHonoured
<1> DEFINE OK(t) == status[t] \in {"pausing", "paused"} /\ status'[t] \in {"pending", "running"}
                       => Resume(t)
<1>1. ASSUME IInv, Next, NEW t \in Tasks,
             status[t] \in {"pausing", "paused"}, status'[t] \in {"pending", "running"}
      PROVE  Resume(t)
    <2>1. Recovered(status[t]) = "paused"
        BY <1>1 DEF Recovered
    <2>2. ~Settles(t)
        BY <1>1, Settlement DEF InPause
    <2>3. Route(t)
        BY <1>1, <2>1, <2>2, Moves DEF InPause
    <2>4. ~Pause(t) /\ ~Cancel(t)
        BY <1>1 DEF IInv, TypeOK, Pause, Cancel, SetStatus
    <2> QED BY <2>3, <2>4 DEF Route
<1>2. IInv /\ [Next]_vars => [\A t \in Tasks : OK(t)]_vars
    BY <1>1
<1> QED BY <1>2, TaskInvariant, PTL DEF Spec, PauseHonoured

\* A batch that nobody cancelled survives a stop as a batch to be gone on with,
\* crossed by a route or not.
THEOREM TaskStopKeepsBatches == Spec => StopKeepsBatches
<1> DEFINE Kept == {"pending", "running", "pausing", "paused"}
           OK == phase = "stopping" =>
                    \A t \in Pausable : status[t] \in Kept => status'[t] \in Kept
<1>1. ASSUME IInv, Next, phase = "stopping", NEW t \in Pausable, status[t] \in Kept
      PROVE  status'[t] \in Kept
    <2>1. t \in Tasks
        BY TaskAssumption
    <2>2. Recovered(status[t]) \in Kept
        BY <1>1 DEF Recovered
    <2>3. Settles(t) => status'[t] \in Kept
        BY <1>1, <2>1, Settlement
    <2> QED BY <1>1, <2>1, <2>2, <2>3, Moves DEF InPause
<1>2. IInv /\ [Next]_vars => [OK]_vars
    BY <1>1
<1> QED BY <1>2, TaskInvariant, PTL DEF Spec, StopKeepsBatches

\* What a task has come to stands, unless a route crossed the end of its
\* execution, and an accepted cancellation ends in canceled.
THEOREM TaskOutcomeStands == Spec => OutcomeStands
<1> DEFINE OK(t) == /\ status[t] \in Terminal => status'[t] = status[t]
                    /\ status[t] = "canceling" => status'[t] \in {"canceling", "canceled"}
<1>1. ASSUME IInv, Next, NEW t \in Tasks \ crossed, status'[t] # status[t],
             status[t] \in Terminal \cup {"canceling"}
      PROVE  status[t] = "canceling" /\ status'[t] = "canceled"
    <2>1. Recovered(status[t]) = IF status[t] = "canceling" THEN "canceled" ELSE status[t]
        BY <1>1 DEF Recovered, Terminal
    <2>2. Settles(t) => status[t] = "canceling" /\ status'[t] = "canceled"
        BY <1>1, Settlement DEF Active, Terminal
    <2>3. Route(t) => status[t] = "canceling" /\ status'[t] = "canceled"
        <3>1. ~Pause(t) /\ ~Resume(t)
            BY <1>1 DEF Pause, Resume, Requeue, Continue, Terminal
        <3>2. CASE Cancel(t)
            BY <1>1, <3>2 DEF IInv, TypeOK, Cancel, SetStatus
        <3> QED BY <3>1, <3>2 DEF Route
    <2> QED BY <1>1, <2>1, <2>2, <2>3, Moves DEF Terminal, Active
<1>2. ASSUME IInv, Next, NEW t \in Tasks \ crossed PROVE OK(t)
    BY <1>1, <1>2 DEF Terminal
<1>3. IInv /\ [Next]_vars => [\A t \in Tasks \ crossed : OK(t)]_vars
    BY <1>2
<1> QED BY <1>3, TaskInvariant, PTL DEF Spec, OutcomeStands

-----------------------------------------------------------------------------
(* The queue of TaskLifecycle forgets no task: a pending task has exactly  *)
(* one entry.  Entries of tasks that were canceled stay in the queue, so   *)
(* the argument is about the tasks that can still become pending.          *)

Once(q, t)   == \E i \in DOMAIN q : \A j \in DOMAIN q : q[j] = t <=> j = i
Absent(q, t) == \A i \in DOMAIN q : q[i] # t

\* A task that may be queued has no entry, a pending one has one, as long as
\* the server takes requests and no route has crossed the task.
QueueInv(t) ==
    phase = "up" /\ t \notin crossed =>
        /\ status[t] \notin Terminal \cup {"pending"} => Absent(queue, t)
        /\ status[t] = "pending" => Once(queue, t)

-----------------------------------------------------------------------------
(* What the queue's operations do to the entries of a task.                *)

LEMMA AppendEntries ==
    ASSUME NEW q \in Seq(Tasks), NEW u \in Tasks, NEW t \in Tasks
    PROVE  /\ Absent(q, t) /\ t # u => Absent(Append(q, u), t)
           /\ Absent(q, t) /\ t = u => Once(Append(q, u), t)
           /\ Once(q, t) /\ t # u => Once(Append(q, u), t)
<1> DEFINE r == Append(q, u)
<1>1. /\ Len(q) \in Nat /\ DOMAIN q = 1..Len(q) /\ DOMAIN r = 1..(Len(q) + 1)
      /\ r[Len(q) + 1] = u /\ \A i \in 1..Len(q) : r[i] = q[i]
    OBVIOUS
<1> HIDE DEF r
<1>2. Absent(q, t) /\ t # u => Absent(r, t)
    BY <1>1 DEF Absent
<1>3. ASSUME Absent(q, t), t = u PROVE Once(r, t)
    <2>1. Len(q) + 1 \in DOMAIN r /\ \A j \in DOMAIN r : r[j] = t <=> j = Len(q) + 1
        BY <1>1, <1>3 DEF Absent
    <2> QED BY <2>1 DEF Once
<1>4. ASSUME Once(q, t), t # u PROVE Once(r, t)
    <2>1. PICK i \in 1..Len(q) : \A j \in 1..Len(q) : q[j] = t <=> j = i
        BY <1>1, <1>4 DEF Once
    <2>2. i \in DOMAIN r /\ \A j \in DOMAIN r : r[j] = t <=> j = i
        BY <1>1, <1>4, <2>1
    <2> QED BY <2>2 DEF Once
<1> QED BY <1>2, <1>3, <1>4 DEF r

LEMMA TailEntries ==
    ASSUME NEW q \in Seq(Tasks), q # <<>>, NEW t \in Tasks
    PROVE  /\ Absent(q, t) => Absent(Tail(q), t)
           /\ Once(q, t) /\ Head(q) = t => Absent(Tail(q), t)
           /\ Once(q, t) /\ Head(q) # t => Once(Tail(q), t)
<1> DEFINE r == Tail(q)
<1>1. /\ Len(q) \in Nat /\ Len(q) > 0 /\ DOMAIN q = 1..Len(q) /\ Head(q) = q[1]
      /\ DOMAIN r = 1..(Len(q) - 1) /\ \A i \in 1..(Len(q) - 1) : r[i] = q[i + 1]
    OBVIOUS
<1> HIDE DEF r
<1>2. Absent(q, t) => Absent(r, t)
    BY <1>1 DEF Absent
<1>3. ASSUME Once(q, t), q[1] = t PROVE Absent(r, t)
    <2>1. PICK i \in DOMAIN q : \A j \in DOMAIN q : q[j] = t <=> j = i
        BY <1>3 DEF Once
    <2>2. ASSUME NEW j \in DOMAIN r PROVE r[j] # t
        <3>1. 1 \in 1..Len(q) /\ j + 1 \in 1..Len(q) /\ r[j] = q[j + 1] /\ j + 1 # 1
            BY <1>1
        <3> QED BY <1>3, <2>1, <3>1
    <2> QED BY <2>2 DEF Absent
<1>4. ASSUME Once(q, t), q[1] # t PROVE Once(r, t)
    <2>1. PICK i \in DOMAIN q : \A j \in DOMAIN q : q[j] = t <=> j = i
        BY <1>4 DEF Once
    <2>2. i # 1
        BY <1>1, <1>4, <2>1
    <2>3. i - 1 \in DOMAIN r
        BY <1>1, <2>2
    <2>4. ASSUME NEW j \in DOMAIN r PROVE r[j] = t <=> j = i - 1
        <3>1. j \in 1..(Len(q) - 1) /\ j + 1 \in 1..Len(q) /\ r[j] = q[j + 1]
            BY <1>1
        <3> QED BY <2>1, <3>1
    <2> QED BY <2>3, <2>4 DEF Once
<1> QED BY <1>1, <1>2, <1>3, <1>4 DEF r

\* The restored queue holds each of its tasks once.
LEMMA AscendingEntries ==
    ASSUME NEW S \in SUBSET Tasks, NEW q \in Ascending(S), NEW t \in Tasks
    PROVE  /\ t \in S => Once(q, t)
           /\ t \notin S => Absent(q, t)
<1> DEFINE n == Cardinality(S)
<1>1. n \in Nat /\ IsFiniteSet(S)
    BY FS_Subset, FS_CardinalityType, TaskAssumption
<1>2. q \in [1..n -> S] /\ \A i, j \in 1..n : i < j => q[i] < q[j]
    BY DEF Ascending
<1>3. \A i \in 1..n : q[i] \in Nat
    BY <1>2, TaskAssumption
<1> HIDE DEF n
<1>4. \A i, j \in 1..n : q[i] = q[j] => i = j
    BY <1>1, <1>2, <1>3
<1>5. q \in Injection(1..n, S)
    BY <1>2, <1>4 DEF Injection, IsInjective
<1>6. Cardinality(1..n) = n
    BY <1>1, FS_Interval
<1>7. q \in Surjection(1..n, S)
    BY <1>1, <1>5, <1>6, FS_Injection DEF n
<1>8. ASSUME t \in S PROVE Once(q, t)
    <2>1. PICK i \in 1..n : q[i] = t
        BY <1>7, <1>8 DEF Surjection
    <2> QED BY <1>2, <1>4, <2>1 DEF Once
<1>9. t \notin S => Absent(q, t)
    BY <1>2 DEF Absent
<1> QED BY <1>8, <1>9

LEMMA OneEntry ==
    ASSUME NEW q \in Seq(Tasks), NEW t, Once(q, t)
    PROVE  Cardinality({i \in DOMAIN q : q[i] = t}) = 1
<1>1. PICK i \in DOMAIN q : \A j \in DOMAIN q : q[j] = t <=> j = i
    BY DEF Once
<1>2. {j \in DOMAIN q : q[j] = t} = {i}
    BY <1>1
<1> QED BY <1>2, FS_Singleton

-----------------------------------------------------------------------------
(* The steps.                                                              *)

\* A task that leaves the queue's care alone: no entry is made or taken, and
\* nothing becomes pending or stops being terminal.
LEMMA SameQueue ==
    ASSUME NEW t \in Tasks, QueueInv(t), queue' = queue, phase' = phase,
           t \in crossed => t \in crossed',
           \/ status'[t] = status[t]
           \/ /\ phase = "up" => status'[t] # "pending"
              /\ \/ status'[t] \in Terminal \cup {"pending"}
                 \/ status[t] \notin Terminal \cup {"pending"}
    PROVE  QueueInv(t)'
BY DEF QueueInv

LEMMA NextQueueInv ==
    ASSUME IInv, [Next]_vars, \A t \in Tasks : QueueInv(t), NEW t \in Tasks
    PROVE  QueueInv(t)'
<1> SUFFICES ASSUME phase' = "up", t \notin crossed' PROVE QueueInv(t)'
    BY DEF QueueInv
<1>1. QueueInv(t) /\ queue \in Seq(Tasks) /\ status[t] \in Statuses
    BY DEF IInv, TypeOK
<1>2. CASE Create
    <2>1. PICK u \in Tasks : /\ status[u] = "absent" /\ SetStatus(u, "pending")
                             /\ queue' = Append(queue, u) /\ phase' = phase
                             /\ crossed' = crossed
        BY <1>2 DEF Create, serverVars
    <2>2. status' = [status EXCEPT ![u] = "pending"] /\ DOMAIN status = Tasks
        BY <2>1 DEF IInv, TypeOK, SetStatus
    <2> QED BY <1>1, <2>1, <2>2, AppendEntries DEF QueueInv, Terminal
<1>3. CASE Stop
    BY <1>3 DEF Stop
<1>4. CASE Restart
    <2> DEFINE S == {u \in Tasks : Recovered(journal[u]) = "pending"}
    <2>1. queue' \in Ascending(S)
        BY <1>4 DEF Restart
    <2>2. t \in S <=> status'[t] = "pending"
        BY <1>4 DEF Restart
    <2> QED BY <2>1, <2>2, AscendingEntries DEF QueueInv
<1>5. ASSUME NEW u \in Tasks, Route(u) PROVE QueueInv(t)'
    <2>1. CASE Pause(u) \/ Cancel(u) \/ (Resume(u) /\ ~Requeue(u))
        <3>1. queue' = queue /\ phase' = phase /\ (t \in crossed => t \in crossed')
            BY <2>1 DEF Pause, Cancel, Crosses, Resume, Continue, serverVars
        <3>2. /\ status'[t] # status[t]
                => /\ status'[t] # "pending"
                   /\ status'[t] \in Terminal \/ status[t] \notin Terminal \cup {"pending"}
            BY <2>1 DEF IInv, TypeOK, Pause, RequestPause, Quiesced, Cancel, Resume, Continue,
                        SetStatus, Terminal
        <3> QED BY <1>1, <3>1, <3>2, SameQueue
    <2>2. CASE Resume(u) /\ Requeue(u)
        <3>1. status[u] = "paused" /\ status' = [status EXCEPT ![u] = "pending"]
              /\ queue' = Append(queue, u) /\ phase' = phase /\ DOMAIN status = Tasks
              /\ (t \in crossed => t \in crossed')
            BY <2>2 DEF IInv, TypeOK, Resume, Requeue, Crosses, SetStatus, serverVars
        <3> QED BY <1>1, <3>1, AppendEntries DEF QueueInv, Terminal
    <2> QED BY <1>5, <2>1, <2>2 DEF Route
<1>6. ASSUME NEW w \in Workers, PickUp(w) PROVE QueueInv(t)'
    <2>1. PICK u \in Tasks : u = Head(queue)
        BY <1>6 DEF IInv, TypeOK, PickUp
    <2>2. /\ queue # <<>> /\ queue' = Tail(queue) /\ phase' = phase /\ phase = "up"
          /\ crossed' = crossed
        BY <1>6 DEF PickUp, serverVars
    <2>3. CASE status[u] = "pending"
        <3>1. status' = [status EXCEPT ![u] = "running"] /\ DOMAIN status = Tasks
            BY <1>6, <2>1, <2>3 DEF IInv, TypeOK, PickUp, SetStatus
        <3> QED BY <1>1, <2>1, <2>2, <2>3, <3>1, TailEntries DEF QueueInv, Terminal
    <2>4. CASE status[u] # "pending"
        <3>1. status' = status
            BY <1>6, <2>1, <2>4 DEF PickUp
        <3> QED BY <1>1, <2>1, <2>2, <2>4, <3>1, TailEntries DEF QueueInv
    <2> QED BY <2>3, <2>4
<1>7. ASSUME NEW w \in Workers, Runner(w) PROVE QueueInv(t)'
    <2>1. queue' = queue /\ phase' = phase /\ crossed' = crossed
        BY <1>7 DEF Runner, BeginUnit, EndUnit, Checkpoint, IdentityFailure, RunnerEnds,
                    RunnerLosesClient, Unwound, serverVars
    <2>2. status'[t] # status[t] => status[t] \in Active /\ status'[t] \in InPause
        BY <1>7, <2>1, RunnerMoves
    <2> QED BY <1>1, <2>1, <2>2, SameQueue DEF Active, InPause, Terminal
<1>8. ASSUME NEW w \in Workers, Worker(w), ~PickUp(w) PROVE QueueInv(t)'
    <2>1. queue' = queue /\ phase' = phase
        BY <1>8 DEF Worker, TakeResult, TakeCancellation, StartRetry, EndRetry, Settle, serverVars
    <2>2. status'[t] # status[t] => Settles(t)
        BY <1>8, WorkerMoves
    <2>3. t \in crossed => Settles(t)
        <3>1. CASE StartRetry(w)
            BY <3>1 DEF StartRetry
        <3>2. CASE TakeResult(w) \/ TakeCancellation(w) \/ EndRetry(w)
            <4>1. PICK s : Settle(w, s)
                BY <3>2 DEF TakeResult, TakeCancellation, EndRetry
            <4>2. t \in crossed => job[w] = t
                BY <4>1 DEF Settle
            <4>3. WorkerInv(w)
                BY DEF IInv
            <4> QED BY <3>2, <4>2, <4>3 DEF Settles
        <3> QED BY <1>8, <3>1, <3>2 DEF Worker
    <2>4. CASE Settles(t)
        <3>1. status'[t] \in Terminal
            BY <2>1, <2>4, Settlement
        <3> QED BY <3>1 DEF QueueInv, Terminal
    <2>5. CASE ~Settles(t)
        BY <1>1, <2>1, <2>2, <2>3, <2>5, SameQueue
    <2> QED BY <2>4, <2>5
<1>9. CASE UNCHANGED vars
    BY <1>1, <1>9 DEF vars, serverVars, QueueInv
<1> QED BY <1>2, <1>3, <1>4, <1>5, <1>6, <1>7, <1>8, <1>9 DEF Next

\* While the server is up, a pending task is in the queue, and only once:
\* over pauses, requeues, cancellations and restarts none is forgotten.  Only a
\* task that a second execution may have taken up is excepted.
THEOREM TaskPendingIsQueued == Spec => []PendingIsQueued
<1> DEFINE QInv == \A t \in Tasks : QueueInv(t)
<1>1. Init => QInv
    BY DEF Init, QueueInv, Absent
<1>2. IInv /\ QInv /\ [Next]_vars => QInv'
    BY NextQueueInv
<1>3. IInv /\ QInv => PendingIsQueued
    BY OneEntry DEF IInv, TypeOK, QueueInv, PendingIsQueued
<1> QED BY <1>1, <1>2, <1>3, TaskInvariant, PTL DEF Spec
=============================================================================
