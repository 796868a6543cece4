---------------------------- MODULE IdentityLease ----------------------------
(***************************************************************************)
(* IdentityLeaseManager (src/collector/lease.py): one slot per key, each   *)
(* slot an asyncio.Semaphore with an `active` and a `waiting` counter.     *)
(*                                                                         *)
(* Everything runs on one event loop, so an action is a stretch of code    *)
(* between two suspension points.  No block under `_state_lock` awaits     *)
(* anything, hence the lock is never found taken and never suspends: the   *)
(* suspension points are the semaphore's future, the body of the           *)
(* `async with`, and the shielded release task.                            *)
(*                                                                         *)
(* A slot object is a member of Slots.  A slot nobody refers to any more   *)
(* may be used for the next one that is allocated, as memory is: the       *)
(* code tells slots apart by identity only (`current is not slot`).        *)
(***************************************************************************)
EXTENDS Naturals, FiniteSets

CONSTANTS Keys,     \* identity ids and "platform:<name>" gates
          Tasks,    \* asyncio tasks; each takes one lease at a time here
          Slots,    \* the _LeaseSlot objects memory has room for
          Limits,   \* the limits configure() is called with
          NoSlot    \* no object

ASSUME LeaseAssumption ==
    /\ IsFiniteSet(Tasks)
    /\ Limits \subseteq 1..64
    /\ NoSlot \notin Slots

VARIABLES
    slots,      \* manager._slots; NoSlot for a key that is not configured
    limit,      \* slot.limit
    value,      \* slot.semaphore._value
    active,     \* slot.active
    waiting,    \* slot.waiting
    pc,         \* where each task stands, see Stages
    key,        \* the identity_id of the lease a task asked for last
    slot,       \* the local variable `slot` of _acquire; NoSlot when outside
    ahead       \* ahead[t]: the tasks before t in the deque of its semaphore

vars == <<slots, limit, value, active, waiting, pc, key, slot, ahead>>
objects == <<slots, limit>>

\* queued   its future in the deque is pending
\* woken    its future has a result, the task is scheduled
\* dropped  its future was cancelled, the task is scheduled
\* revoked  its future has a result and the task was cancelled afterwards
\* inside   in the body of the `async with`
\* leaving  awaits shield(release_task)
\* draining cancelled while leaving, awaits release_task itself
InDeque == {"queued", "woken", "dropped", "revoked"}
Inside  == {"inside", "leaving", "draining"}
Permit  == {"woken", "revoked"} \cup Inside
Stages  == {"idle"} \cup InDeque \cup Inside

TypeOK ==
    /\ slots \in [Keys -> Slots \cup {NoSlot}]
    /\ limit \in [Slots -> Limits \cup {0}]
    /\ value \in [Slots -> Nat]
    /\ active \in [Slots -> Nat]
    /\ waiting \in [Slots -> Nat]
    /\ pc \in [Tasks -> Stages]
    /\ key \in [Tasks -> Keys]
    /\ slot \in [Tasks -> Slots \cup {NoSlot}]
    /\ ahead \in [Tasks -> SUBSET Tasks]

Init ==
    /\ slots = [k \in Keys |-> NoSlot]
    /\ limit = [s \in Slots |-> 0]
    /\ value = [s \in Slots |-> 0]
    /\ active = [s \in Slots |-> 0]
    /\ waiting = [s \in Slots |-> 0]
    /\ pc = [t \in Tasks |-> "idle"]
    /\ key \in [Tasks -> Keys]
    /\ slot = [t \in Tasks |-> NoSlot]
    /\ ahead = [t \in Tasks |-> {}]

At(s, stages) == {t \in Tasks : slot[t] = s /\ pc[t] \in stages}

-----------------------------------------------------------------------------
(* asyncio.Semaphore.  A semaphore state is a record of the value and of   *)
(* the stages of the tasks, so that two calls in a row compose.            *)

\* Mutant: any pending waiter is as good as the first.
FirstPendingAny(s, p) == {t \in Tasks : slot[t] = s /\ p[t] = "queued"}

\* The waiter _wake_up_next finds: the first whose future is not done.
FirstPending(s, p) ==
    LET pending == {t \in Tasks : slot[t] = s /\ p[t] = "queued"}
    IN  {t \in pending : ahead[t] \cap pending = {}}

WakeUpNext(s, sem) ==
    LET first == FirstPending(s, sem.pc)
    IN  IF first = {} THEN sem
        ELSE [value |-> sem.value - 1,
              pc |-> [sem.pc EXCEPT ![CHOOSE t \in first : TRUE] = "woken"]]

\* Mutant: the permit is given back and nobody is told.
GiveSilently(s, sem) == [sem EXCEPT !.value = @ + 1]
Give(s, sem) == WakeUpNext(s, [sem EXCEPT !.value = @ + 1])

\* Mutant: only the waiters are looked at.
LockedByWaiters(s) == At(s, InDeque \ {"dropped"}) # {}
Locked(s) == value[s] = 0 \/ At(s, InDeque \ {"dropped"}) # {}

SetSemaphore(s, sem) ==
    /\ value' = [value EXCEPT ![s] = sem.value]
    /\ pc' = sem.pc

\* self._waiters.remove(fut), and the task's local variables go away when it
\* does not go on to the body.
LeaveDeque(t) == ahead' = [u \in Tasks |-> IF u = t THEN {} ELSE ahead[u] \ {t}]
Forget(t) == slot' = [slot EXCEPT ![t] = NoSlot]

-----------------------------------------------------------------------------
(* configure and remove.  Re-applying the limit in force and every refusal *)
(* leave the state alone: they are stuttering steps.                       *)

Unreferenced == Slots \ ({slots[k] : k \in Keys} \cup {slot[t] : t \in Tasks})

\* Mutants: the slot is replaced under a holder, under a waiter.
ResizableActive(k, n) ==
    slots[k] # NoSlot => limit[slots[k]] # n /\ waiting[slots[k]] = 0
ResizableWaiting(k, n) ==
    slots[k] # NoSlot => limit[slots[k]] # n /\ active[slots[k]] = 0

Resizable(k, n) ==
    slots[k] # NoSlot => /\ limit[slots[k]] # n
                         /\ active[slots[k]] = 0
                         /\ waiting[slots[k]] = 0

Configure(k, n) ==
    /\ Resizable(k, n)
    /\ \E s \in Unreferenced :
          /\ slots' = [slots EXCEPT ![k] = s]
          /\ limit' = [limit EXCEPT ![s] = n]
          /\ value' = [value EXCEPT ![s] = n]
          /\ active' = [active EXCEPT ![s] = 0]
          /\ waiting' = [waiting EXCEPT ![s] = 0]
    /\ UNCHANGED <<pc, key, slot, ahead>>

Removable(k) ==
    /\ slots[k] # NoSlot
    /\ active[slots[k]] = 0
    /\ waiting[slots[k]] = 0

Remove(k) ==
    /\ Removable(k)
    /\ slots' = [slots EXCEPT ![k] = NoSlot]
    /\ UNCHANGED <<limit, value, active, waiting, pc, key, slot, ahead>>

-----------------------------------------------------------------------------
(* One lease: `async with manager.lease(k)`.                               *)

\* _acquire up to its first suspension: with a free permit it does not
\* suspend at all and the task goes straight into the body.
Enter(t, k) ==
    LET s == slots[k] IN
    /\ pc[t] = "idle"
    /\ s # NoSlot
    /\ key' = [key EXCEPT ![t] = k]
    /\ slot' = [slot EXCEPT ![t] = s]
    /\ \/ /\ ~Locked(s)
          /\ value' = [value EXCEPT ![s] = @ - 1]
          /\ active' = [active EXCEPT ![s] = @ + 1]
          /\ pc' = [pc EXCEPT ![t] = "inside"]
          /\ UNCHANGED <<waiting, ahead>>
       \/ /\ Locked(s)
          /\ waiting' = [waiting EXCEPT ![s] = @ + 1]
          /\ pc' = [pc EXCEPT ![t] = "queued"]
          /\ ahead' = [ahead EXCEPT ![t] = At(s, InDeque)]
          /\ UNCHANGED <<value, active>>
    /\ UNCHANGED objects

\* The woken task runs: Semaphore.acquire passes on a permit that is still
\* free, then _acquire promotes the waiter, unless its slot was replaced.
Promote(t) ==
    LET s    == slot[t]
        woke == [value |-> value[s], pc |-> [pc EXCEPT ![t] = "inside"]]
        next == IF value[s] > 0 THEN WakeUpNext(s, woke) ELSE woke
    IN
    /\ pc[t] = "woken"
    /\ LeaveDeque(t)
    /\ waiting' = [waiting EXCEPT ![s] = @ - 1]
    /\ IF slots[key[t]] = s
       THEN /\ active' = [active EXCEPT ![s] = @ + 1]
            /\ SetSemaphore(s, next)
            /\ UNCHANGED slot
       ELSE /\ SetSemaphore(s, Give(s, [next EXCEPT !.pc[t] = "idle"]))
            /\ Forget(t)
            /\ UNCHANGED active
    /\ UNCHANGED <<objects, key>>

\* Mutant: __aexit__ does not shield the release.
CancelUnshielded(t) ==
    /\ pc[t] = "leaving"
    /\ pc' = [pc EXCEPT ![t] = "idle"]
    /\ Forget(t)
    /\ UNCHANGED <<objects, value, active, waiting, key, ahead>>

\* task.cancel(): a pending future is cancelled, a done one cannot be and the
\* CancelledError is thrown in when the task runs; shield() takes a
\* cancellation during the release, and __aexit__ then awaits the release.
\* Cancelling the body runs __aexit__: that is Leave.
Cancel(t) ==
    /\ pc[t] \in {"queued", "woken", "leaving"}
    /\ pc' = [pc EXCEPT ![t] = CASE pc[t] = "queued"  -> "dropped"
                                 [] pc[t] = "woken"   -> "revoked"
                                 [] pc[t] = "leaving" -> "draining"]
    /\ UNCHANGED <<objects, value, active, waiting, key, slot, ahead>>

\* The cancelled waiter runs: Semaphore.acquire returns a permit it had been
\* given, and _acquire rolls `waiting` back.
AbandonWait(t) ==
    LET s   == slot[t]
        sem == [value |-> value[s], pc |-> [pc EXCEPT ![t] = "idle"]]
    IN
    /\ pc[t] \in {"dropped", "revoked"}
    /\ SetSemaphore(s, IF pc[t] = "revoked" THEN Give(s, sem) ELSE sem)
    /\ waiting' = [waiting EXCEPT ![s] = @ - 1]
    /\ LeaveDeque(t)
    /\ Forget(t)
    /\ UNCHANGED <<objects, active, key>>

\* The body ends, by return, exception or cancellation: __aexit__ starts the
\* release task and waits for it.
Leave(t) ==
    /\ pc[t] = "inside"
    /\ pc' = [pc EXCEPT ![t] = "leaving"]
    /\ UNCHANGED <<objects, value, active, waiting, key, slot, ahead>>

\* _release in its own task.  It finds the slot by key, not by reference; an
\* error leaves the permit where it is.
Release(t) ==
    LET s   == slots[key[t]]
        out == [pc EXCEPT ![t] = "idle"]
    IN
    /\ pc[t] \in {"leaving", "draining"}
    /\ IF s # NoSlot /\ active[s] > 0
       THEN /\ active' = [active EXCEPT ![s] = @ - 1]
            /\ SetSemaphore(s, Give(s, [value |-> value[s], pc |-> out]))
       ELSE /\ pc' = out
            /\ UNCHANGED <<active, value>>
    /\ Forget(t)
    /\ UNCHANGED <<objects, waiting, key, ahead>>

-----------------------------------------------------------------------------
Next ==
    \/ \E k \in Keys, n \in Limits : Configure(k, n)
    \/ \E k \in Keys : Remove(k)
    \/ \E t \in Tasks, k \in Keys : Enter(t, k)
    \/ \E t \in Tasks :
          Promote(t) \/ Cancel(t) \/ AbandonWait(t) \/ Leave(t) \/ Release(t)

Spec == Init /\ [][Next]_vars

\* The event loop runs every scheduled task.  Nothing is promised of the body
\* of a lease: most bodies are HTTP requests with timeouts, but an account
\* batch that is paused awaits wait_for_resume() inside it, under both its
\* leases, for as long as the user likes.
Fairness ==
    \A t \in Tasks : /\ WF_vars(Promote(t))
                     /\ WF_vars(AbandonWait(t))
                     /\ WF_vars(Release(t))

FairSpec == Spec /\ Fairness

-----------------------------------------------------------------------------
(* Properties *)

Holders(k) == {t \in Tasks : key[t] = k /\ pc[t] \in Inside}
LimitOf(k) == IF slots[k] = NoSlot THEN 0 ELSE limit[slots[k]]

\* At most `limit` tasks are in the body or on their way out of it, also
\* across a reconfiguration of the key: this is the account-safety promise
\* (one identity is not driven by more tasks than its max_concurrency).
CapacityRespected == \A k \in Keys : Cardinality(Holders(k)) <= LimitOf(k)

\* A task that is queued for, or inside, a lease is so on the slot its key
\* has now: configure() and remove() never strand it, so the "reconfigured"
\* and "not active" errors of _acquire and _release cannot occur.
NoStrandedTask ==
    \A t \in Tasks : pc[t] # "idle" => slot[t] # NoSlot /\ slots[key[t]] = slot[t]

\* The two counters say exactly how many tasks wait and how many are inside,
\* whatever was cancelled in between: configure(), remove(), the snapshot
\* endpoints and the login browser decide on them.
CountersExact ==
    \A s \in Slots : /\ active[s] = Cardinality(At(s, Inside))
                     /\ waiting[s] = Cardinality(At(s, InDeque))

\* No permit is lost and none is made up by cancellations, second
\* cancellations or wake-ups.
PermitsConserved ==
    \A s \in Slots : value[s] + Cardinality(At(s, Permit)) = limit[s]

\* The books of a slot balance: configure(), remove(), the snapshots and the
\* semaphore itself rely on both halves.
SlotAccounting == CountersExact /\ PermitsConserved

\* No lost wake-up: while a permit is free and a task is queued, some woken
\* task is about to run that will pass the permit on.
NoLostWakeUp ==
    \A s \in Slots : value[s] > 0 /\ At(s, {"queued"}) # {}
                        => At(s, {"woken", "revoked"}) # {}

\* Leases are granted in the order they were asked for: when a task gets a
\* permit, every task that stays queued on the slot stands behind it.
FirstComeFirstServed ==
    [][\A t \in Tasks, u \in Tasks :
          (/\ pc[t] \notin Permit /\ pc'[t] \in Permit
           /\ u # t /\ pc[u] = "queued" /\ pc'[u] = "queued"
           /\ slot[u] = slot'[t])
             => t \in ahead[u]]_vars

\* No task stays in the body of a lease on k for ever.
BodiesEnd(k) == \A u \in Tasks : []<>~(key[u] = k /\ pc[u] = "inside")

\* Nobody starves by the manager's doing: on a key whose holders all come out
\* of their bodies sooner or later, every queued task is granted the lease or
\* gives up, whatever is cancelled, reconfigured or released on the way.
EveryWaitEnds ==
    \A k \in Keys :
        BodiesEnd(k) => \A t \in Tasks :
            (pc[t] = "queued" /\ key[t] = k) ~> pc[t] # "queued"

\* The manager implements the abstract gate.
Gate == INSTANCE LeaseGate WITH
            limits  <- [k \in Keys |-> LimitOf(k)],
            holders <- [k \in Keys |-> Holders(k)]
ImplementsGate == Gate!GateSpec
=============================================================================
