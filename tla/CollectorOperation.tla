------------------------- MODULE CollectorOperation -------------------------
(***************************************************************************)
(* _execute_collector_identity_operation of main_server.py: every request  *)
(* of a collector endpoint runs under the lease of its identity and, below *)
(* it, the lease of its platform, in a runtime that is closed before the   *)
(* leases are given back, and is accounted for in the row of the identity. *)
(* Around it: the routes that create, edit and delete identities, the      *)
(* probe, the policy, the pause of a task inside its operation, and kills. *)
(*                                                                         *)
(* The leases are the gates IdentityLease.tla implements, with its waiters *)
(* served in order.  Identities are those of one platform.                 *)
(***************************************************************************)
EXTENDS Naturals, FiniteSets, Sequences, SequencesExt

CONSTANTS Identities,      \* identity ids
          Ops,             \* slots for tasks, each with one operation at a time
          Platform,        \* the key "platform:<name>"
          None,            \* no identity, no row
          Limits,          \* what max_concurrency and global_max_parallel may be
          Threshold,       \* policy.failure_threshold
          Events,          \* the events a run exercises, of AllEvents
          MaxRestarts      \* bound on restarts

AllEvents == {"disabled", "upsert", "update", "delete", "policy", "probe", "pause",
              "pause_outside", "cancel", "abandon", "named", "unnamed", "failure"}

ASSUME OperationAssumption ==
    /\ Events \subseteq AllEvents
    /\ IsFiniteSet(Ops) /\ Platform \notin Identities /\ None \notin Identities
    /\ Limits \subseteq Nat \ {0} /\ Limits # {}
    /\ Threshold \in Nat \ {0}
    /\ MaxRestarts \in Nat

VARIABLES
    row,      \* the identity and runtime rows of collector_store
    policy,   \* global_max_parallel in the policy row
    limit,    \* the limit of each configured lease, 0 without a slot
    line,     \* the tasks that wait for a lease, in their order
    pc,       \* where an operation stands
    on,       \* the identity it is routed to
    named,    \* the tasks whose payload names their identity
    paused,   \* the tasks that are pausing or paused
    result,   \* successes, failures, error_code of an operation
    restarts,
    overrun   \* auxiliary: the identities whose row a create route has
              \* overwritten although the limit of their lease stayed

vars == <<row, policy, limit, line, pc, on, named, paused, result, restarts, overrun>>

\* pending   the task is queued            parked  paused, found so at a start
\* planned   its route is chosen           first, second  waits for that lease
\* running   in operation()                closing  in runtime.close()
\* leaving2, leaving1  release of the platform's, of the identity's lease
\* accounting  both are released           abandoning  gave up waiting for Platform
Stages == {"idle", "pending", "parked", "planned", "first", "second", "running",
           "closing", "leaving2", "leaving1", "accounting", "abandoning"}
Statuses == {"untested", "healthy", "warning", "pending_check", "cooldown", "disabled"}

Rows == [enabled : BOOLEAN, max : Limits, status : Statuses, active : 0..Cardinality(Ops),
         failures : 0..Threshold, cooldown : {"", "future", "past"}]
ASSUME RowAssumption == None \notin Rows
Results == [success : BOOLEAN, failure : BOOLEAN, close_failed : BOOLEAN,
            canceled : BOOLEAN]
NoResult == [success |-> FALSE, failure |-> FALSE, close_failed |-> FALSE,
             canceled |-> FALSE]

TypeOK ==
    /\ row \in [Identities -> Rows \cup {None}]
    /\ policy \in Limits
    /\ limit \in [Identities \cup {Platform} -> Limits \cup {0}]
    /\ line \in [Identities \cup {Platform} -> Seq(Ops)]
    /\ pc \in [Ops -> Stages]
    /\ on \in [Ops -> Identities \cup {None}]
    /\ named \subseteq Ops /\ paused \subseteq Ops
    /\ result \in [Ops -> Results]
    /\ restarts \in 0..MaxRestarts
    /\ overrun \subseteq Identities

Init ==
    /\ row = [i \in Identities |-> None]
    /\ policy \in Limits
    /\ limit = [k \in Identities \cup {Platform} |-> IF k = Platform THEN policy ELSE 0]
    /\ line = [k \in Identities \cup {Platform} |-> <<>>]
    /\ pc = [o \in Ops |-> "idle"]
    /\ on = [o \in Ops |-> None]
    /\ named = {} /\ paused = {} /\ overrun = {}
    /\ result = [o \in Ops |-> NoResult]
    /\ restarts = 0

-----------------------------------------------------------------------------
(* Leases.                                                                 *)

\* Mutant: the platform's slot is taken first.
GateSwapped(o, n) == IF n = 1 THEN Platform ELSE on[o]

\* The n-th lease an operation takes.
Gate(o, n) == IF n = 1 THEN on[o] ELSE Platform

Holds1 == {"second", "running", "closing", "leaving2", "leaving1", "abandoning"}
Holds2 == {"running", "closing", "leaving2"}
Holders(k) == {o \in Ops : \/ pc[o] \in Holds1 /\ Gate(o, 1) = k
                           \/ pc[o] \in Holds2 /\ Gate(o, 2) = k}
InUse(k) == Holders(k) # {} \/ line[k] # <<>>

\* leases.configure(k, n): refused when it would change a lease in use.
Configurable(k, n) == limit[k] = n \/ ~InUse(k)

Admits(k) == Cardinality(Holders(k)) < limit[k]

\* A lease is had at once when there is a slot and nobody waits in lines l.
Free(k, l) == Admits(k) /\ l[k] = <<>>

-----------------------------------------------------------------------------
(* Rows.                                                                   *)

\* Mutant: saving an identity makes a new runtime row.
UpsertedFresh(r, enabled, max) ==
    [enabled |-> enabled, max |-> max, active |-> 0, failures |-> 0, cooldown |-> "",
     status |-> IF enabled THEN "untested" ELSE "disabled"]

\* save_runtime: what a disabled identity shows cannot be overwritten.
Saved(r) == [r EXCEPT !.status = IF r.enabled THEN @ ELSE "disabled"]

\* _upsert_identity_locked
Upserted(r, enabled, max) ==
    IF r = None
    THEN [enabled |-> enabled, max |-> max, active |-> 0, failures |-> 0,
          cooldown |-> "", status |-> IF enabled THEN "untested" ELSE "disabled"]
    ELSE [r EXCEPT !.enabled = enabled, !.max = max,
                   !.status = IF ~enabled THEN "disabled"
                              ELSE IF @ = "disabled" THEN "untested" ELSE @]

Failed(r) == IF r.failures < Threshold THEN r.failures + 1 ELSE Threshold

\* _update_collector_runtime_after_group.  A partial success is no failure of
\* the identity, a runtime that could not be closed is one all the same.
Health(r, active, res) ==
    LET healthy == res.success /\ ~res.close_failed
        healed  == IF healthy THEN [r EXCEPT !.status = "healthy", !.failures = 0,
                                             !.cooldown = ""] ELSE r
        blamed  == res.failure /\ (~res.success \/ res.close_failed)
        worse   == IF ~blamed THEN healed
                   ELSE LET n == Failed(r)
                        IN  [healed EXCEPT !.failures = n,
                                !.status = IF n = Threshold THEN "cooldown" ELSE "warning",
                                !.cooldown = IF n = Threshold THEN "future" ELSE @]
    IN  Saved([worse EXCEPT !.active = active])

\* candidate_available
Available(i) == row[i] # None /\ row[i].enabled /\ row[i].cooldown # "future"

-----------------------------------------------------------------------------
(* Routes on identities and policies.  What they refuse is a stutter.      *)

SetRow(i, r) == row' = [row EXCEPT ![i] = r]

\* The body may name an identity that exists: its row is overwritten and only
\* then is the lease configured.  When that is refused, so is the request, and
\* the row stays as it was written.
Create(i) ==
    \E max \in Limits, enabled \in BOOLEAN :
        /\ row[i] # None => "upsert" \in Events
        /\ enabled \/ "disabled" \in Events
        /\ SetRow(i, Upserted(row[i], enabled, max))
        /\ IF Configurable(i, max)
           THEN limit' = [limit EXCEPT ![i] = max] /\ overrun' = overrun \ {i}
           ELSE overrun' = overrun \cup {i} /\ UNCHANGED limit
        /\ UNCHANGED <<policy, line, pc, on, named, paused, result, restarts>>

\* Mutant: the row is saved before the lease is configured.
UpdateSaveFirst(i) ==
    \E max \in Limits, enabled \in BOOLEAN :
        /\ "update" \in Events /\ row[i] # None
        /\ limit' = [limit EXCEPT ![i] = IF Configurable(i, max) THEN max ELSE @]
        /\ overrun' = overrun \ {i}
        /\ SetRow(i, Upserted(row[i], enabled, max))
        /\ UNCHANGED <<policy, line, pc, on, named, paused, result, restarts>>

Update(i) ==
    \E max \in Limits, enabled \in BOOLEAN :
        /\ "update" \in Events /\ row[i] # None
        /\ Configurable(i, max)
        /\ limit' = [limit EXCEPT ![i] = max] /\ overrun' = overrun \ {i}
        /\ SetRow(i, Upserted(row[i], enabled, max))
        /\ UNCHANGED <<policy, line, pc, on, named, paused, result, restarts>>

\* The tasks the delete route looks at: pending, running and canceling ones,
\* not those that are pausing or paused, wherever their operation stands.
Referenced(i) ==
    \E o \in named : on[o] = i /\ pc[o] \notin {"idle", "parked"} /\ o \notin paused

\* The lease is removed first; when the store refuses (an assignment or the
\* policy names the identity) it is configured again, which is a stutter.
Delete(i) ==
    /\ "delete" \in Events /\ row[i] # None /\ ~Referenced(i)
    /\ ~InUse(i)
    /\ SetRow(i, None)
    /\ limit' = [limit EXCEPT ![i] = 0] /\ overrun' = overrun \ {i}
    /\ UNCHANGED <<policy, line, pc, on, named, paused, result, restarts>>

UpdatePolicy ==
    \E n \in Limits :
        /\ "policy" \in Events
        /\ Configurable(Platform, n)
        /\ limit' = [limit EXCEPT ![Platform] = n]
        /\ policy' = n
        /\ UNCHANGED <<row, line, pc, on, named, paused, result, restarts, overrun>>

\* The answer to the request of a probe, or of a login browser's capture.
\* The row is read and written after the await.
ProbeAnswered(i) == SetRow(i, Saved([row[i] EXCEPT !.status = "pending_check"]))

\* run_collector_probe: any exception of a probe is a failure of the identity.
ProbeFailed(i) ==
    SetRow(i, Saved([row[i] EXCEPT !.status = "warning", !.failures = Failed(row[i])]))

Probed(i) ==
    /\ "probe" \in Events /\ row[i] # None
    /\ ProbeAnswered(i) \/ ProbeFailed(i)
    /\ UNCHANGED <<policy, limit, line, pc, on, named, paused, result, restarts, overrun>>

\* Time passes.
CooldownElapses(i) ==
    /\ row[i] # None /\ row[i].cooldown = "future"
    /\ SetRow(i, [row[i] EXCEPT !.cooldown = "past"])
    /\ UNCHANGED <<policy, limit, line, pc, on, named, paused, result, restarts, overrun>>

-----------------------------------------------------------------------------
(* An operation.                                                           *)

Move(o, s) == pc' = [pc EXCEPT ![o] = s]

Submit(o) ==
    /\ pc[o] = "idle"
    /\ Move(o, "pending")
    /\ \/ \E i \in Identities : /\ "named" \in Events /\ row[i] # None
                                /\ on' = [on EXCEPT ![o] = i]
                                /\ named' = named \cup {o}
       \/ "unnamed" \in Events /\ UNCHANGED <<on, named>>
    /\ UNCHANGED <<row, policy, limit, line, paused, result, restarts, overrun>>

End(o) ==
    /\ Move(o, "idle")
    /\ on' = [on EXCEPT ![o] = None]
    /\ named' = named \ {o}
    /\ paused' = paused \ {o}
    /\ result' = [result EXCEPT ![o] = NoResult]

\* _plan_collector_routes: a named identity, a binding or the strategy's
\* choice, if it is available; otherwise the task fails.
Plan(o) ==
    /\ pc[o] = "pending"
    /\ \/ /\ \E i \in Identities : /\ Available(i)
                                   /\ on[o] \in {i, None}
                                   /\ on' = [on EXCEPT ![o] = i]
          /\ Move(o, "planned")
          /\ UNCHANGED <<named, paused, result>>
       \/ /\ on[o] # None => ~Available(on[o])
          /\ End(o)
    /\ UNCHANGED <<row, policy, limit, line, restarts, overrun>>

\* Mutant: the operation counts itself twice.
ActiveAfterPlus(o) == Cardinality({u \in Ops \ {o} : pc[u] \in Holds1 /\ on[u] = on[o]}) + 2

\* With both leases: the snapshot of the identity's lease goes to its row.
ActiveAfter(o) == Cardinality({u \in Ops \ {o} : pc[u] \in Holds1 /\ on[u] = on[o]}) + 1

Enter(o) ==
    /\ Move(o, "running")
    /\ SetRow(on[o], Health(row[on[o]], ActiveAfter(o), NoResult))

\* Holding the first lease, and with the lines l: the task has the second one
\* at once, or joins its line.
AskSecond(o, l) ==
    LET k == Gate(o, 2) IN
    IF Free(k, l)
    THEN line' = l /\ Enter(o)
    ELSE /\ line' = [l EXCEPT ![k] = Append(@, o)]
         /\ Move(o, "second")
         /\ UNCHANGED row

\* The identity is gone, or its stored limit cannot be put in force: the task
\* fails, or its batch is paused for it and tries again when it is resumed.
Refused(o) ==
    \/ End(o)
    \/ /\ "pause" \in Events
       /\ paused' = paused \cup {o}
       /\ UNCHANGED <<pc, on, named, result>>

\* The checks, configure() with the stored limit, and the first lease.  A batch
\* comes here long after it was planned: the identity may be gone.
Begin(o) ==
    /\ pc[o] = "planned"
    /\ IF row[on[o]] = None \/ ~Configurable(on[o], row[on[o]].max)
       THEN Refused(o) /\ UNCHANGED <<row, line, limit, overrun>>
       ELSE /\ limit' = [limit EXCEPT ![on[o]] = row[on[o]].max]
            /\ overrun' = overrun \ {on[o]}
            /\ IF Free(Gate(o, 1), line)
               THEN AskSecond(o, line)
               ELSE /\ line' = [line EXCEPT ![Gate(o, 1)] = Append(@, o)]
                    /\ Move(o, "first")
                    /\ UNCHANGED row
            /\ UNCHANGED <<on, named, paused, result>>
    /\ UNCHANGED <<policy, restarts>>

FirstLease(o) ==
    LET k == Gate(o, 1) IN
    /\ pc[o] = "first" /\ Head(line[k]) = o /\ Admits(k)
    /\ AskSecond(o, [line EXCEPT ![k] = Tail(@)])
    /\ UNCHANGED <<policy, limit, on, named, paused, result, restarts, overrun>>

SecondLease(o) ==
    LET k == Gate(o, 2) IN
    /\ pc[o] = "second" /\ Head(line[k]) = o /\ Admits(k)
    /\ line' = [line EXCEPT ![k] = Tail(@)]
    /\ Enter(o)
    /\ UNCHANGED <<policy, limit, on, named, paused, result, restarts, overrun>>

\* confirm_pending_target: the first target that was really collected.
ConfirmTarget(o) ==
    /\ pc[o] = "running"
    /\ row[on[o]].status \in {"untested", "pending_check"}
    /\ SetRow(on[o], [row[on[o]] EXCEPT !.status = "healthy", !.failures = 0])
    /\ UNCHANGED <<policy, limit, line, pc, on, named, paused, result, restarts, overrun>>

\* The user pauses the task, wherever its operation stands.  Its lanes wait at
\* their next checkpoint inside the operation, with both leases held; those
\* past their last one finish ("pause_outside": pauses that meet no checkpoint).
Pause(o) ==
    /\ \/ "pause" \in Events /\ pc[o] = "running"
       \/ "pause_outside" \in Events
             /\ pc[o] \notin {"idle", "pending", "parked", "abandoning", "running"}
    /\ o \notin paused /\ ~result[o].canceled
    /\ paused' = paused \cup {o}
    /\ UNCHANGED <<row, policy, limit, line, pc, on, named, result, restarts, overrun>>

Resume(o) ==
    /\ o \in paused
    /\ paused' = paused \ {o}
    /\ IF pc[o] = "parked" THEN Move(o, "pending") ELSE UNCHANGED pc
    /\ UNCHANGED <<row, policy, limit, line, on, named, result, restarts, overrun>>

\* operation() returns its counts, or raises: then it counts one failure.
OperationEnds(o) ==
    /\ pc[o] = "running" /\ (o \in paused => "pause_outside" \in Events)
    /\ \E s, f \in BOOLEAN :
          /\ "failure" \in Events \/ (s /\ ~f)
          /\ result' = [result EXCEPT ![o] = [NoResult EXCEPT !.success = s, !.failure = f]]
    /\ Move(o, "closing")
    /\ UNCHANGED <<row, policy, limit, line, on, named, paused, restarts, overrun>>

RuntimeClosed(o) ==
    /\ pc[o] = "closing"
    /\ Move(o, "leaving2")
    /\ \/ UNCHANGED result
       \/ /\ "failure" \in Events
          /\ result' = [result EXCEPT ![o].failure = TRUE, ![o].close_failed = TRUE]
    /\ UNCHANGED <<row, policy, limit, line, on, named, paused, restarts, overrun>>

\* The shielded release of one lease; the task suspends in each.
Release(o) ==
    /\ \/ pc[o] = "leaving2" /\ Move(o, "leaving1")
       \/ pc[o] = "leaving1" /\ Move(o, "accounting")
    /\ UNCHANGED <<row, policy, limit, line, on, named, paused, result, restarts, overrun>>

\* Mutant: the count of active leases is the one from before the release.
AccountStale(o) ==
    /\ pc[o] = "accounting"
    /\ IF row[on[o]] # None
       THEN SetRow(on[o], Health(row[on[o]], Cardinality(Holders(on[o])) + 1, result[o]))
       ELSE UNCHANGED row
    /\ End(o)
    /\ UNCHANGED <<policy, limit, line, restarts, overrun>>

\* The `finally` after both leases: a snapshot, and the row.  When the
\* identity was deleted meanwhile the snapshot raises and nothing is written.
Account(o) ==
    /\ pc[o] = "accounting"
    /\ IF row[on[o]] # None
       THEN SetRow(on[o], Health(row[on[o]], Cardinality(Holders(on[o])), result[o]))
       ELSE UNCHANGED row
    /\ End(o)
    /\ UNCHANGED <<policy, limit, line, restarts, overrun>>

\* The task is cancelled where it awaits something.  A release is shielded,
\* so nothing changes in the leaving stages.
Cancel(o) ==
    /\ "cancel" \in Events
    /\ \/ /\ pc[o] \in {"pending", "parked", "planned", "first"}
          /\ End(o)
          /\ line' = [k \in DOMAIN line |-> IF pc[o] = "first" THEN RemoveFirst(line[k], o)
                                                               ELSE line[k]]
       \/ /\ pc[o] \in {"running", "closing"}
          /\ Move(o, IF pc[o] = "running" THEN "closing" ELSE "leaving2")
          /\ result' = [result EXCEPT ![o].canceled = TRUE]
          /\ paused' = paused \ {o}
          /\ UNCHANGED <<on, named, line>>
    /\ UNCHANGED <<row, policy, limit, restarts, overrun>>

\* Cancelled while it waits for the platform: it gives the identity's lease
\* back, and nothing is accounted for.
Abandon(o) ==
    /\ "abandon" \in Events
    /\ pc[o] = "second"
    /\ Move(o, "abandoning")
    /\ line' = [k \in DOMAIN line |-> RemoveFirst(line[k], o)]
    /\ paused' = paused \ {o}
    /\ UNCHANGED <<row, policy, limit, on, named, result, restarts, overrun>>

Abandoned(o) ==
    /\ pc[o] = "abandoning"
    /\ End(o)
    /\ UNCHANGED <<row, policy, limit, line, restarts, overrun>>

-----------------------------------------------------------------------------
\* The process is killed and started again: the store sets active_leases to
\* 0, the leases are configured from the store, the tasks are pending or
\* paused as the journal has them.
Restart ==
    /\ restarts < MaxRestarts
    /\ restarts' = restarts + 1
    /\ row' = [i \in Identities |-> IF row[i] = None THEN None ELSE [row[i] EXCEPT !.active = 0]]
    /\ limit' = [k \in Identities \cup {Platform} |->
                    IF k = Platform THEN policy
                    ELSE IF row[k] = None THEN 0 ELSE row[k].max]
    /\ line' = [k \in Identities \cup {Platform} |-> <<>>]
    /\ pc' = [o \in Ops |-> IF pc[o] = "idle" THEN "idle"
                            ELSE IF o \in paused THEN "parked" ELSE "pending"]
    /\ on' = [o \in Ops |-> IF o \in named THEN on[o] ELSE None]
    /\ result' = [o \in Ops |-> NoResult]
    /\ overrun' = {}
    /\ UNCHANGED <<policy, named, paused>>

RunOp(o) == \/ Plan(o) \/ Begin(o) \/ FirstLease(o) \/ SecondLease(o)
            \/ OperationEnds(o) \/ RuntimeClosed(o) \/ Release(o)
            \/ Account(o) \/ Abandoned(o)

IdentityRoute(i) == \/ Create(i) \/ Update(i) \/ Delete(i) \/ Probed(i)
                    \/ CooldownElapses(i)

Next == \/ \E i \in Identities : IdentityRoute(i)
        \/ \E o \in Ops : \/ Submit(o) \/ RunOp(o) \/ ConfirmTarget(o)
                          \/ Pause(o) \/ Resume(o) \/ Cancel(o) \/ Abandon(o)
        \/ UpdatePolicy \/ Restart

Spec == Init /\ [][Next]_vars

PausedInside == {u \in paused : pc[u] = "running"}

\* The event loop runs what is scheduled; the requests of an operation and
\* the close of a runtime have timeouts.  The user owes nothing: an operation
\* of a paused task may wait for ever.
FairSpec == Spec /\ \A o \in Ops : WF_vars(o \notin PausedInside /\ RunOp(o))
-----------------------------------------------------------------------------
(* Properties *)

\* A disabled identity is shown as disabled and no other is, although
\* operations and probes that started before write their own status.
DisabledShown ==
    \A i \in Identities : row[i] # None =>
        (row[i].status = "disabled" <=> ~row[i].enabled)

\* The leases match the rows: the limits in force are the stored ones, so the
\* configure() of an operation, which takes the stored limit, is never refused
\* for what an earlier refused edit left behind; but the create route, which
\* saves before it configures, can leave an identity in overrun, until the
\* next operation, edit or start puts the stored limit in force.  No delete
\* takes the identity away from under an operation that waits for or holds a
\* lease.  (Between the release and the accounting a delete can, when the
\* operation was routed or its task is pausing: the snapshot then raises and
\* the result is lost.)
LeasesMatchRows ==
    /\ limit[Platform] = policy
    /\ \A i \in Identities :
          /\ limit[i] = 0 <=> row[i] = None
          /\ row[i] # None => limit[i] = row[i].max \/ i \in overrun
    /\ \A o \in Ops : pc[o] \in Holds1 \cup {"first"} => row[on[o]] # None

\* The stored count of active leases, which routing and the overview read,
\* falls back to 0 with the last operation of the identity, as long as
\* nobody is cancelled between the two leases.
ActiveSettles ==
    "abandon" \notin Events =>
        \A i \in Identities :
            row[i] # None /\ row[i].active > 0 =>
                \E o \in Ops : on[o] = i /\ pc[o] \in Holds1 \cup {"accounting"}

\* What the row of an identity says settles with what the identity does.
RowsSettle == DisabledShown /\ ActiveSettles

\* A cooldown starts with an operation that failed as a whole, or whose runtime
\* did not close ("A partial success proves the identity can still reach the
\* target platform, so target-specific misses must not trip risk cooldown"),
\* after as many failures as the policy says; and it lasts until its time or
\* until an operation succeeds: edits, probes, disabling and enabling, and
\* restarts do not shorten it.
Accounted(i, res) == \E o \in Ops : pc[o] = "accounting" /\ on[o] = i /\ result[o] \in res
Misses == {r \in Results : r.failure /\ (r.success => r.close_failed)}
Cooled(r) == r # None /\ r.cooldown = "future"
CooldownDiscipline ==
    [][\A i \in Identities : row[i] # None /\ row'[i] # None =>
          /\ ~Cooled(row[i]) /\ Cooled(row'[i])
                => row'[i].failures = Threshold /\ Accounted(i, Misses)
          /\ Cooled(row[i]) /\ row'[i].cooldown = ""
                => Accounted(i, {r \in Results : r.success})]_vars

\* "A queued second request for identity A must not occupy a platform slot
\* and block an idle identity B": an operation that waits gets both leases,
\* or a paused operation holds its identity, or paused operations hold all
\* the platform's slots.  (A user who pauses again and again is left aside.)
HeldUp(o) == \/ \E u \in PausedInside : on[u] = on[o]
             \/ Cardinality(PausedInside) >= limit[Platform]
NoHeadOfLineBlocking ==
    <>[][paused' \subseteq paused]_vars =>
        \A o \in Ops : pc[o] \in {"first", "second"}
                            ~> pc[o] \notin {"first", "second"} \/ HeldUp(o)

\* The delete route refuses an identity that is "referenced by an active
\* task" (server_routes.py:635), and ACTIVE_TASK_STATUSES of task_journal.py
\* counts paused tasks as active: no delete leaves one behind.
DeleteSparesTasks ==
    [][\A i \in Identities : row[i] # None /\ row'[i] = None =>
          ~\E o \in named : on[o] = i /\ pc[o] # "idle"]_vars
=============================================================================
