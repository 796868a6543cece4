------------------------- MODULE IdentityLeaseProofs -------------------------
(***************************************************************************)
(* Theorems about IdentityLease for every set of keys, tasks and slots and *)
(* every choice of limits.  The invariant is inductive on its own: the     *)
(* counters of a slot count the tasks that refer to it (CountersExact,     *)
(* PermitsConserved), so configure() and remove(), which look at the       *)
(* counters only, never replace a slot some task refers to (Shape).  On top *)
(* of it, a deque is a strict total order (Deque): a wake-up therefore     *)
(* finds a first waiter, which is what the order of service and the lack   *)
(* of lost wake-ups rest on.                                               *)
(***************************************************************************)
EXTENDS IdentityLease, FiniteSetTheorems, WellFoundedInduction, TLAPS

Shape ==
    /\ \A t \in Tasks : pc[t] = "idle" <=> slot[t] = NoSlot
    /\ NoStrandedTask
    /\ \A j, k \in Keys : j # k /\ slots[j] # NoSlot => slots[j] # slots[k]

IInv == TypeOK /\ Shape /\ CountersExact /\ PermitsConserved

\* How many tasks refer to slot s and are in one of the stages X, under the
\* assignment sl of slots and p of stages.
Count(sl, p, s, X) == Cardinality({t \in Tasks : sl[t] = s /\ p[t] \in X})

-----------------------------------------------------------------------------
(* Counting *)

\* Every count is a natural number, zero exactly when no task qualifies.
LEMMA CountType ==
    ASSUME NEW sl, NEW p, NEW s, NEW X
    PROVE  /\ Count(sl, p, s, X) \in Nat
           /\ IsFiniteSet({t \in Tasks : sl[t] = s /\ p[t] \in X})
           /\ Count(sl, p, s, X) = 0 <=> \A t \in Tasks : ~(sl[t] = s /\ p[t] \in X)
<1> DEFINE S == {t \in Tasks : sl[t] = s /\ p[t] \in X}
<1>1. IsFiniteSet(S)
    BY LeaseAssumption, FS_Subset
<1>2. Cardinality(S) \in Nat
    BY <1>1, FS_CardinalityType
<1>3. Cardinality(S) = 0 <=> S = {}
    BY <1>1, FS_EmptySet
<1> QED BY <1>1, <1>2, <1>3 DEF Count

\* When only task t changes, a count changes by what t contributes.
LEMMA CountMove ==
    ASSUME NEW t \in Tasks, NEW sl, NEW p, NEW sm, NEW q, NEW s, NEW X,
           \A u \in Tasks \ {t} : sm[u] = sl[u] /\ q[u] = p[u]
    PROVE  Count(sm, q, s, X) =
             Count(sl, p, s, X) - (IF sl[t] = s /\ p[t] \in X THEN 1 ELSE 0)
                                + (IF sm[t] = s /\ q[t] \in X THEN 1 ELSE 0)
<1> DEFINE A == {u \in Tasks : sl[u] = s /\ p[u] \in X}
           B == {u \in Tasks : sm[u] = s /\ q[u] \in X}
<1>1. IsFiniteSet(A) /\ IsFiniteSet(B)
    <2>1. A \subseteq Tasks /\ B \subseteq Tasks
        OBVIOUS
    <2> QED BY <2>1, LeaseAssumption, FS_Subset
<1>2. Cardinality(A) \in Nat /\ Cardinality(B) \in Nat
    BY <1>1, FS_CardinalityType
<1>3. A \ {t} = B \ {t}
    OBVIOUS
<1>4. /\ Cardinality(A \ {t}) = IF t \in A THEN Cardinality(A) - 1 ELSE Cardinality(A)
      /\ Cardinality(B \ {t}) = IF t \in B THEN Cardinality(B) - 1 ELSE Cardinality(B)
    BY <1>1, FS_RemoveElement
<1>5. /\ t \in A <=> (sl[t] = s /\ p[t] \in X)
      /\ t \in B <=> (sm[t] = s /\ q[t] \in X)
    OBVIOUS
<1> HIDE DEF A, B
<1>6. (IF t \in A THEN Cardinality(A) - 1 ELSE Cardinality(A))
        = (IF t \in B THEN Cardinality(B) - 1 ELSE Cardinality(B))
    BY <1>3, <1>4
<1>7. Cardinality(B) = Cardinality(A) - (IF t \in A THEN 1 ELSE 0) + (IF t \in B THEN 1 ELSE 0)
    BY <1>2, <1>6
<1> QED BY <1>5, <1>7 DEF Count, A, B

\* Which of the three counters each stage is counted in.
LEMMA StageSets ==
    /\ Inside \cap InDeque = {}
    /\ "idle" \notin Inside \cup InDeque \cup Permit
    /\ \A p \in Inside : p \in Permit
    /\ \A p \in {"inside", "leaving", "draining"} : p \in Inside
    /\ \A p \in {"queued", "woken", "dropped", "revoked"} : p \in InDeque /\ p \notin Inside
    /\ "queued" \notin Permit /\ "dropped" \notin Permit
    /\ "woken" \in Permit /\ "revoked" \in Permit
    /\ "inside" \notin InDeque /\ "leaving" \notin InDeque /\ "draining" \notin InDeque
    BY DEF Inside, InDeque, Permit

\* From (sl, p) to (sm, q) the counts of slot s change by a (inside), w (in
\* the deque) and v (holding a permit).
Shift(sl, p, sm, q, s, a, w, v) ==
    /\ Count(sm, q, s, Inside) = Count(sl, p, s, Inside) + a
    /\ Count(sm, q, s, InDeque) = Count(sl, p, s, InDeque) + w
    /\ Count(sm, q, s, Permit) = Count(sl, p, s, Permit) + v

\* A task outside takes a permit and enters the body.
LEMMA CountEnterBody ==
    ASSUME NEW t \in Tasks, NEW sl, NEW p, NEW sm, NEW q,
           \A u \in Tasks \ {t} : sm[u] = sl[u] /\ q[u] = p[u],
           p[t] = "idle", q[t] = "inside"
    PROVE  /\ Shift(sl, p, sm, q, sm[t], 1, 0, 1)
           /\ \A z : z # sm[t] => Shift(sl, p, sm, q, z, 0, 0, 0)
<1>1. \A z, X : Count(sl, p, z, X) \in Nat
    BY CountType
<1>2. \A z, X : Count(sm, q, z, X) =
             Count(sl, p, z, X) - (IF sl[t] = z /\ p[t] \in X THEN 1 ELSE 0)
                                + (IF sm[t] = z /\ q[t] \in X THEN 1 ELSE 0)
    BY CountMove
<1> QED BY <1>1, <1>2, StageSets DEF Shift

\* A task outside joins the deque.
LEMMA CountQueue ==
    ASSUME NEW t \in Tasks, NEW sl, NEW p, NEW sm, NEW q,
           \A u \in Tasks \ {t} : sm[u] = sl[u] /\ q[u] = p[u],
           p[t] = "idle", q[t] = "queued"
    PROVE  /\ Shift(sl, p, sm, q, sm[t], 0, 1, 0)
           /\ \A z : z # sm[t] => Shift(sl, p, sm, q, z, 0, 0, 0)
<1>1. \A z, X : Count(sl, p, z, X) \in Nat
    BY CountType
<1>2. \A z, X : Count(sm, q, z, X) =
             Count(sl, p, z, X) - (IF sl[t] = z /\ p[t] \in X THEN 1 ELSE 0)
                                + (IF sm[t] = z /\ q[t] \in X THEN 1 ELSE 0)
    BY CountMove
<1> QED BY <1>1, <1>2, StageSets DEF Shift

\* A woken task enters the body.
LEMMA CountPromote ==
    ASSUME NEW t \in Tasks, NEW sl, NEW p, NEW sm, NEW q,
           \A u \in Tasks \ {t} : sm[u] = sl[u] /\ q[u] = p[u],
           sm[t] = sl[t], p[t] = "woken", q[t] = "inside"
    PROVE  /\ Shift(sl, p, sm, q, sl[t], 1, -1, 0)
           /\ \A z : z # sl[t] => Shift(sl, p, sm, q, z, 0, 0, 0)
<1>1. \A z, X : Count(sl, p, z, X) \in Nat
    BY CountType
<1>2. \A z, X : Count(sm, q, z, X) =
             Count(sl, p, z, X) - (IF sl[t] = z /\ p[t] \in X THEN 1 ELSE 0)
                                + (IF sm[t] = z /\ q[t] \in X THEN 1 ELSE 0)
    BY CountMove
<1> QED BY <1>1, <1>2, StageSets DEF Shift

\* A waiter that holds no permit gives up.
LEMMA CountDrop ==
    ASSUME NEW t \in Tasks, NEW sl, NEW p, NEW sm, NEW q,
           \A u \in Tasks \ {t} : sm[u] = sl[u] /\ q[u] = p[u],
           p[t] = "dropped", q[t] = "idle"
    PROVE  /\ Shift(sl, p, sm, q, sl[t], 0, -1, 0)
           /\ \A z : z # sl[t] => Shift(sl, p, sm, q, z, 0, 0, 0)
<1>1. \A z, X : Count(sl, p, z, X) \in Nat
    BY CountType
<1>2. \A z, X : Count(sm, q, z, X) =
             Count(sl, p, z, X) - (IF sl[t] = z /\ p[t] \in X THEN 1 ELSE 0)
                                + (IF sm[t] = z /\ q[t] \in X THEN 1 ELSE 0)
    BY CountMove
<1> QED BY <1>1, <1>2, StageSets DEF Shift

\* A waiter that was given a permit gives up.
LEMMA CountRevoke ==
    ASSUME NEW t \in Tasks, NEW sl, NEW p, NEW sm, NEW q,
           \A u \in Tasks \ {t} : sm[u] = sl[u] /\ q[u] = p[u],
           p[t] = "revoked", q[t] = "idle"
    PROVE  /\ Shift(sl, p, sm, q, sl[t], 0, -1, -1)
           /\ \A z : z # sl[t] => Shift(sl, p, sm, q, z, 0, 0, 0)
<1>1. \A z, X : Count(sl, p, z, X) \in Nat
    BY CountType
<1>2. \A z, X : Count(sm, q, z, X) =
             Count(sl, p, z, X) - (IF sl[t] = z /\ p[t] \in X THEN 1 ELSE 0)
                                + (IF sm[t] = z /\ q[t] \in X THEN 1 ELSE 0)
    BY CountMove
<1> QED BY <1>1, <1>2, StageSets DEF Shift

\* A task leaves the body for good.
LEMMA CountLeave ==
    ASSUME NEW t \in Tasks, NEW sl, NEW p, NEW sm, NEW q,
           \A u \in Tasks \ {t} : sm[u] = sl[u] /\ q[u] = p[u],
           p[t] \in {"leaving", "draining"}, q[t] = "idle"
    PROVE  /\ Shift(sl, p, sm, q, sl[t], -1, 0, -1)
           /\ \A z : z # sl[t] => Shift(sl, p, sm, q, z, 0, 0, 0)
<1>1. \A z, X : Count(sl, p, z, X) \in Nat
    BY CountType
<1>2. \A z, X : Count(sm, q, z, X) =
             Count(sl, p, z, X) - (IF sl[t] = z /\ p[t] \in X THEN 1 ELSE 0)
                                + (IF sm[t] = z /\ q[t] \in X THEN 1 ELSE 0)
    BY CountMove
<1> QED BY <1>1, <1>2, StageSets DEF Shift

\* Two stages that belong to the same counters.
CountedAlike(x, y) ==
    \/ x = "queued" /\ y = "dropped"
    \/ x = "woken" /\ y = "revoked"
    \/ x \in {"inside", "leaving"} /\ y \in {"leaving", "draining"}

\* Cancelling a task, or starting its release, keeps it in its counters.
LEMMA CountSame ==
    ASSUME NEW t \in Tasks, NEW sl, NEW p, NEW sm, NEW q,
           \A u \in Tasks \ {t} : sm[u] = sl[u] /\ q[u] = p[u],
           sm[t] = sl[t], CountedAlike(p[t], q[t])
    PROVE  /\ Shift(sl, p, sm, q, sl[t], 0, 0, 0)
           /\ \A z : z # sl[t] => Shift(sl, p, sm, q, z, 0, 0, 0)
<1>1. \A z, X : Count(sl, p, z, X) \in Nat
    BY CountType
<1>2. \A z, X : Count(sm, q, z, X) =
             Count(sl, p, z, X) - (IF sl[t] = z /\ p[t] \in X THEN 1 ELSE 0)
                                + (IF sm[t] = z /\ q[t] \in X THEN 1 ELSE 0)
    BY CountMove
<1> QED BY <1>1, <1>2, StageSets DEF Shift, CountedAlike

\* A queued task is given a permit.
LEMMA CountWake ==
    ASSUME NEW t \in Tasks, NEW sl, NEW p, NEW sm, NEW q,
           \A u \in Tasks \ {t} : sm[u] = sl[u] /\ q[u] = p[u],
           sm[t] = sl[t], p[t] = "queued", q[t] = "woken"
    PROVE  /\ Shift(sl, p, sm, q, sl[t], 0, 0, 1)
           /\ \A z : z # sl[t] => Shift(sl, p, sm, q, z, 0, 0, 0)
<1>1. \A z, X : Count(sl, p, z, X) \in Nat
    BY CountType
<1>2. \A z, X : Count(sm, q, z, X) =
             Count(sl, p, z, X) - (IF sl[t] = z /\ p[t] \in X THEN 1 ELSE 0)
                                + (IF sm[t] = z /\ q[t] \in X THEN 1 ELSE 0)
    BY CountMove
<1> QED BY <1>1, <1>2, StageSets DEF Shift

\* An idle task forgets its slot.
LEMMA CountForget ==
    ASSUME NEW t \in Tasks, NEW sl, NEW p, NEW sm, NEW q,
           \A u \in Tasks \ {t} : sm[u] = sl[u] /\ q[u] = p[u],
           p[t] = "idle", q[t] = "idle"
    PROVE  /\ Shift(sl, p, sm, q, sl[t], 0, 0, 0)
           /\ \A z : z # sl[t] => Shift(sl, p, sm, q, z, 0, 0, 0)
<1>1. \A z, X : Count(sl, p, z, X) \in Nat
    BY CountType
<1>2. \A z, X : Count(sm, q, z, X) =
             Count(sl, p, z, X) - (IF sl[t] = z /\ p[t] \in X THEN 1 ELSE 0)
                                + (IF sm[t] = z /\ q[t] \in X THEN 1 ELSE 0)
    BY CountMove
<1> QED BY <1>1, <1>2, StageSets DEF Shift

-----------------------------------------------------------------------------
(* The semaphore *)

\* r is the semaphore (v, p) of slot s after a wake-up, as far as the counts
\* can tell.
Woke(s, v, p, r) ==
    /\ r.value \in Nat
    /\ r.pc \in [Tasks -> Stages]
    /\ \A u \in Tasks : r.pc[u] = "idle" <=> p[u] = "idle"
    /\ Shift(slot, p, slot, r.pc, s, 0, 0, v - r.value)
    /\ \A z : z # s => Shift(slot, p, slot, r.pc, z, 0, 0, 0)

\* Waking the next waiter trades one unit of the value for one permit, and
\* touches one queued task at most.
LEMMA WakeUpNextEffect ==
    ASSUME NEW s \in Slots, NEW v \in Nat, v > 0, NEW p \in [Tasks -> Stages],
           NEW r, r = WakeUpNext(s, [value |-> v, pc |-> p])
    PROVE  Woke(s, v, p, r)
<1> DEFINE sem == [value |-> v, pc |-> p]
           first == FirstPending(s, sem.pc)
<1>1. \A z, X : Count(slot, p, z, X) \in Nat
    BY CountType
<1>2. CASE first = {}
    <2>1. r.value = v /\ r.pc = p
        BY <1>2 DEF WakeUpNext
    <2> QED BY <1>1, <2>1 DEF Shift, Woke
<1>3. CASE first # {}
    <2> DEFINE w == CHOOSE t \in first : TRUE
    <2>1. w \in Tasks /\ slot[w] = s /\ p[w] = "queued"
        BY <1>3 DEF FirstPending
    <2> HIDE DEF w
    <2>2. r = [value |-> v - 1, pc |-> [p EXCEPT ![w] = "woken"]]
        BY <1>3 DEF WakeUpNext, w
    <2>3. \A u \in Tasks \ {w} : slot[u] = slot[u] /\ r.pc[u] = p[u]
        BY <2>2
    <2>4. r.pc[w] = "woken" /\ r.pc \in [Tasks -> Stages] /\ r.value = v - 1
        BY <2>1, <2>2 DEF Stages, InDeque
    <2>5. /\ Shift(slot, p, slot, r.pc, slot[w], 0, 0, 1)
          /\ \A z : z # slot[w] => Shift(slot, p, slot, r.pc, z, 0, 0, 0)
        BY <2>1, <2>3, <2>4, CountWake
    <2> QED BY <2>1, <2>3, <2>4, <2>5 DEF Woke
<1> QED BY <1>2, <1>3

\* The three counters agree with the stages of the tasks.
Balanced(a, w, v, sl, p) ==
    \A s \in Slots : /\ a[s] = Count(sl, p, s, Inside)
                     /\ w[s] = Count(sl, p, s, InDeque)
                     /\ v[s] + Count(sl, p, s, Permit) = limit[s]

LEMMA BalancedMeaning ==
    CountersExact /\ PermitsConserved <=> Balanced(active, waiting, value, slot, pc)
    BY DEF CountersExact, PermitsConserved, Balanced, Count, At

\* A counter at zero really means that no task refers to the slot, which is
\* what configure() and remove() conclude from it.
LEMMA QuietSlot ==
    ASSUME IInv, NEW s \in Slots, active[s] = 0, waiting[s] = 0
    PROVE  \A t \in Tasks : slot[t] # s
<1>1. /\ Count(slot, pc, s, Inside) = 0
      /\ Count(slot, pc, s, InDeque) = 0
    BY BalancedMeaning DEF IInv, Balanced
<1>2. \A t \in Tasks : slot[t] = s => pc[t] \notin Inside \cup InDeque
    BY ZenonT(30), <1>1, CountType
<1>3. \A t \in Tasks : slot[t] = s => pc[t] # "idle"
    BY LeaseAssumption DEF IInv, Shape
<1> QED BY <1>2, <1>3 DEF IInv, TypeOK, Stages

\* The counters of slot s follow its counts: the books stay balanced.
LEMMA Rebalance ==
    ASSUME TypeOK, Balanced(active, waiting, value, slot, pc),
           NEW s \in Slots, NEW a \in Int, NEW w \in Int, NEW v \in Int,
           NEW sm, NEW q, NEW acts, NEW waits, NEW vals,
           Shift(slot, pc, sm, q, s, a, w, v),
           \A z \in Slots : z # s => Shift(slot, pc, sm, q, z, 0, 0, 0),
           acts[s] = active[s] + a, waits[s] = waiting[s] + w, vals[s] = value[s] - v,
           \A z \in Slots : z # s => /\ acts[z] = active[z]
                                     /\ waits[z] = waiting[z]
                                     /\ vals[z] = value[z]
    PROVE  Balanced(acts, waits, vals, sm, q)
<1>1. SUFFICES ASSUME NEW z \in Slots
               PROVE  /\ acts[z] = Count(sm, q, z, Inside)
                      /\ waits[z] = Count(sm, q, z, InDeque)
                      /\ vals[z] + Count(sm, q, z, Permit) = limit[z]
    BY DEF Balanced
<1>2. /\ active[z] = Count(slot, pc, z, Inside)
      /\ waiting[z] = Count(slot, pc, z, InDeque)
      /\ value[z] + Count(slot, pc, z, Permit) = limit[z]
    BY DEF Balanced
<1>3. \A X : Count(slot, pc, z, X) \in Nat
    BY CountType
<1>4. value[z] \in Nat
    BY DEF TypeOK
<1>5. CASE z = s
    BY <1>2, <1>3, <1>4, <1>5 DEF Shift
<1>6. CASE z # s
    BY <1>2, <1>3, <1>4, <1>6 DEF Shift
<1> QED BY <1>5, <1>6

\* The same in the next state, for a step that keeps the limits.
LEMMA BalancedNext ==
    ASSUME Balanced(active', waiting', value', slot', pc'), limit' = limit, TypeOK', Shape'
    PROVE  IInv'
    BY DEF IInv, CountersExact, PermitsConserved, Balanced, Count, At

-----------------------------------------------------------------------------
(* Each action preserves the invariant *)

LEMMA ConfigureStep ==
    ASSUME IInv, NEW k \in Keys, NEW n \in Limits, Configure(k, n)
    PROVE  IInv'
<1>0. TypeOK /\ Shape /\ Balanced(active, waiting, value, slot, pc)
    BY BalancedMeaning DEF IInv
<1>1. PICK s \in Unreferenced :
          /\ slots' = [slots EXCEPT ![k] = s]
          /\ limit' = [limit EXCEPT ![s] = n]
          /\ value' = [value EXCEPT ![s] = n]
          /\ active' = [active EXCEPT ![s] = 0]
          /\ waiting' = [waiting EXCEPT ![s] = 0]
    BY DEF Configure
<1>2. UNCHANGED <<pc, key, slot, ahead>>
    BY DEF Configure
<1>3. /\ s \in Slots
      /\ \A j \in Keys : slots[j] # s
      /\ \A t \in Tasks : slot[t] # s
    BY <1>1 DEF Unreferenced
<1>4. n \in Nat
    BY LeaseAssumption
<1>5. TypeOK'
    BY <1>0, <1>1, <1>2, <1>3, <1>4 DEF TypeOK
<1>6. \A t \in Tasks : pc[t] # "idle" => key[t] # k
    <2>1. SUFFICES ASSUME NEW t \in Tasks, pc[t] # "idle", key[t] = k
                   PROVE  FALSE
        OBVIOUS
    <2>2. slot[t] = slots[k] /\ slots[k] # NoSlot
        BY <1>0, <2>1 DEF Shape, NoStrandedTask
    <2>3. slots[k] \in Slots /\ active[slots[k]] = 0 /\ waiting[slots[k]] = 0
        BY <1>0, <2>2 DEF Configure, Resizable, TypeOK
    <2> QED BY <2>2, <2>3, QuietSlot
<1>7. Shape'
    BY <1>0, <1>1, <1>2, <1>3, <1>6, LeaseAssumption DEF Shape, NoStrandedTask, TypeOK
<1>8. \A X : Count(slot, pc, s, X) = 0
    BY <1>3, CountType
<1>9. (CountersExact /\ PermitsConserved)'
    <2>1. SUFFICES ASSUME NEW z \in Slots
                   PROVE  /\ active'[z] = Count(slot, pc, z, Inside)
                          /\ waiting'[z] = Count(slot, pc, z, InDeque)
                          /\ value'[z] + Count(slot, pc, z, Permit) = limit'[z]
        BY <1>2 DEF CountersExact, PermitsConserved, Count, At
    <2>2. CASE z = s
        BY <1>0, <1>1, <1>3, <1>4, <1>8, <2>2 DEF TypeOK
    <2>3. CASE z # s
        BY <1>0, <1>1, <2>3, BalancedMeaning DEF Balanced, TypeOK
    <2> QED BY <2>2, <2>3
<1> QED BY <1>5, <1>7, <1>9 DEF IInv

LEMMA RemoveStep ==
    ASSUME IInv, NEW k \in Keys, Remove(k)
    PROVE  IInv'
<1>0. TypeOK /\ Shape /\ Balanced(active, waiting, value, slot, pc)
    BY BalancedMeaning DEF IInv
<1>1. TypeOK'
    BY <1>0 DEF Remove, TypeOK
<1>2. \A t \in Tasks : pc[t] # "idle" => key[t] # k
    BY <1>0, QuietSlot DEF Remove, Removable, Shape, NoStrandedTask, TypeOK
<1>3. Shape'
    BY <1>0, <1>2 DEF Remove, Shape, NoStrandedTask, TypeOK
<1>4. (CountersExact /\ PermitsConserved)'
    BY DEF IInv, Remove, CountersExact, PermitsConserved, At
<1> QED BY <1>1, <1>3, <1>4 DEF IInv

LEMMA EnterStep ==
    ASSUME IInv, NEW t \in Tasks, NEW k \in Keys, Enter(t, k)
    PROVE  IInv'
<1>0. TypeOK /\ Shape /\ Balanced(active, waiting, value, slot, pc)
    BY BalancedMeaning DEF IInv
<1> DEFINE s == slots[k]
<1>1. /\ s \in Slots
      /\ pc[t] = "idle"
      /\ key' = [key EXCEPT ![t] = k]
      /\ slot' = [slot EXCEPT ![t] = s]
      /\ UNCHANGED objects
    BY <1>0 DEF Enter, TypeOK
<1>2. CASE ~Locked(s)
    <2>1. /\ value' = [value EXCEPT ![s] = @ - 1]
          /\ active' = [active EXCEPT ![s] = @ + 1]
          /\ pc' = [pc EXCEPT ![t] = "inside"]
          /\ UNCHANGED <<waiting, ahead>>
        BY <1>2 DEF Enter
    <2>2. value[s] \in Nat \ {0}
        BY <1>0, <1>1, <1>2 DEF Locked, TypeOK
    <2>3. TypeOK'
        BY <1>0, <1>1, <2>1, <2>2 DEF TypeOK, objects, Stages, Inside
    <2>4. Shape'
        BY <1>0, <1>1, <2>1, LeaseAssumption DEF Shape, NoStrandedTask, TypeOK, objects
    <2>5. /\ \A u \in Tasks \ {t} : slot'[u] = slot[u] /\ pc'[u] = pc[u]
          /\ slot'[t] = s /\ pc'[t] = "inside"
        BY <1>0, <1>1, <2>1 DEF TypeOK
    <2>6. Balanced(active', waiting', value', slot', pc')
        <3>1. /\ Shift(slot, pc, slot', pc', s, 1, 0, 1)
              /\ \A y \in Slots : y # s => Shift(slot, pc, slot', pc', y, 0, 0, 0)
            <4>1. pc[t] = "idle" /\ pc'[t] = "inside"
                BY <1>1, <2>5
            <4>2. /\ Shift(slot, pc, slot', pc', slot'[t], 1, 0, 1)
                  /\ \A y : y # slot'[t] => Shift(slot, pc, slot', pc', y, 0, 0, 0)
                BY <2>5, <4>1, CountEnterBody
            <4> QED BY <2>5, <4>2
        <3>2. /\ active'[s] = active[s] + 1
              /\ waiting'[s] = waiting[s] + 0
              /\ value'[s] = value[s] - 1
              /\ \A z \in Slots : z # s => /\ active'[z] = active[z]
                                           /\ waiting'[z] = waiting[z]
                                           /\ value'[z] = value[z]
            BY <1>0, <1>1, <2>1 DEF TypeOK
        <3>3. 0 \in Int /\ 1 \in Int
            OBVIOUS
        <3> HIDE DEF s
        <3> QED BY <1>0, <1>1, <3>1, <3>2, <3>3, Rebalance
    <2> QED BY <1>1, <2>3, <2>4, <2>6, BalancedNext DEF objects
<1>3. CASE Locked(s)
    <2>1. /\ waiting' = [waiting EXCEPT ![s] = @ + 1]
          /\ pc' = [pc EXCEPT ![t] = "queued"]
          /\ ahead' = [ahead EXCEPT ![t] = At(s, InDeque)]
          /\ UNCHANGED <<value, active>>
        BY <1>3 DEF Enter
    <2>2. TypeOK'
        BY <1>0, <1>1, <2>1 DEF TypeOK, objects, Stages, InDeque, At
    <2>3. Shape'
        BY <1>0, <1>1, <2>1, LeaseAssumption DEF Shape, NoStrandedTask, TypeOK, objects
    <2>4. /\ \A u \in Tasks \ {t} : slot'[u] = slot[u] /\ pc'[u] = pc[u]
          /\ slot'[t] = s /\ pc'[t] = "queued"
        BY <1>0, <1>1, <2>1 DEF TypeOK
    <2>5. Balanced(active', waiting', value', slot', pc')
        <3>1. /\ Shift(slot, pc, slot', pc', s, 0, 1, 0)
              /\ \A y \in Slots : y # s => Shift(slot, pc, slot', pc', y, 0, 0, 0)
            <4>1. pc[t] = "idle" /\ pc'[t] = "queued"
                BY <1>1, <2>4
            <4>2. /\ Shift(slot, pc, slot', pc', slot'[t], 0, 1, 0)
                  /\ \A y : y # slot'[t] => Shift(slot, pc, slot', pc', y, 0, 0, 0)
                BY <2>4, <4>1, CountQueue
            <4> QED BY <2>4, <4>2
        <3>2. /\ active'[s] = active[s] + 0
              /\ waiting'[s] = waiting[s] + 1
              /\ value'[s] = value[s] - 0
              /\ \A z \in Slots : z # s => /\ active'[z] = active[z]
                                           /\ waiting'[z] = waiting[z]
                                           /\ value'[z] = value[z]
            BY <1>0, <1>1, <2>1 DEF TypeOK
        <3>3. 0 \in Int /\ 1 \in Int
            OBVIOUS
        <3> HIDE DEF s
        <3> QED BY <1>0, <1>1, <3>1, <3>2, <3>3, Rebalance
    <2> QED BY <1>1, <2>2, <2>3, <2>5, BalancedNext DEF objects
<1> QED BY <1>2, <1>3

\* Waking a waiter after task t was settled keeps the books balanced.  q are
\* the stages once t is settled, v the value once its permit is returned;
\* t may forget its slot at the end if it is idle by then.
LEMMA SettleAndWake ==
    ASSUME TypeOK, Balanced(active, waiting, value, slot, pc),
           NEW s \in Slots, NEW t \in Tasks, NEW q \in [Tasks -> Stages],
           NEW v \in Nat, v > 0, NEW a \in Int, NEW w \in Int, NEW d \in Int, v = value[s] - d,
           Shift(slot, pc, slot, q, s, a, w, d),
           \A z \in Slots : z # s => Shift(slot, pc, slot, q, z, 0, 0, 0),
           NEW r, r = WakeUpNext(s, [value |-> v, pc |-> q]),
           SetSemaphore(s, r),
           \/ slot' = slot
           \/ q[t] = "idle" /\ Forget(t),
           active'[s] = active[s] + a, waiting'[s] = waiting[s] + w,
           \A z \in Slots : z # s => active'[z] = active[z] /\ waiting'[z] = waiting[z]
    PROVE  /\ value' \in [Slots -> Nat]
           /\ pc' \in [Tasks -> Stages]
           /\ \A u \in Tasks : pc'[u] = "idle" <=> q[u] = "idle"
           /\ Balanced(active', waiting', value', slot', pc')
<1>1. /\ r.value \in Nat
      /\ r.pc \in [Tasks -> Stages]
      /\ \A u \in Tasks : r.pc[u] = "idle" <=> q[u] = "idle"
      /\ Shift(slot, q, slot, r.pc, s, 0, 0, v - r.value)
      /\ \A z : z # s => Shift(slot, q, slot, r.pc, z, 0, 0, 0)
    <2>1. Woke(s, v, q, r)
        BY WakeUpNextEffect
    <2> QED BY <2>1 DEF Woke
<1>2. /\ value' = [value EXCEPT ![s] = r.value]
      /\ pc' = r.pc
    BY DEF SetSemaphore
<1>3. \A z : Shift(slot, r.pc, slot', r.pc, z, 0, 0, 0)
    <2>1. CASE slot' = slot
        <3>1. \A z, X : Count(slot, r.pc, z, X) \in Nat
            BY CountType
        <3> QED BY <2>1, <3>1 DEF Shift
    <2>2. CASE q[t] = "idle" /\ Forget(t)
        <3>1. \A u \in Tasks \ {t} : slot'[u] = slot[u] /\ r.pc[u] = r.pc[u]
            BY <2>2 DEF Forget, TypeOK
        <3>2. r.pc[t] = "idle"
            BY <1>1, <2>2
        <3>3. /\ Shift(slot, r.pc, slot', r.pc, slot[t], 0, 0, 0)
              /\ \A z : z # slot[t] => Shift(slot, r.pc, slot', r.pc, z, 0, 0, 0)
            BY <3>1, <3>2, CountForget
        <3> QED BY <3>3
    <2> QED BY <2>1, <2>2
<1>4. \A z, X : /\ Count(slot, pc, z, X) \in Nat
                /\ Count(slot, q, z, X) \in Nat
                /\ Count(slot, r.pc, z, X) \in Nat
    BY CountType
<1>5. Shift(slot, pc, slot', pc', s, a, w, d + v - r.value)
    BY <1>1, <1>2, <1>3, <1>4 DEF Shift
<1>6. \A z \in Slots : z # s => Shift(slot, pc, slot', pc', z, 0, 0, 0)
    BY <1>1, <1>2, <1>3, <1>4 DEF Shift
<1>7. d + v - r.value \in Int
    BY <1>1
<1>8. /\ value'[s] = value[s] - (d + v - r.value)
      /\ \A z \in Slots : z # s => value'[z] = value[z]
    BY <1>1, <1>2 DEF TypeOK
<1>9. Balanced(active', waiting', value', slot', pc')
    BY <1>5, <1>6, <1>7, <1>8, Rebalance
<1> QED BY <1>1, <1>2, <1>9 DEF TypeOK

\* Cancel and Leave only move a task between stages counted alike.
LEMMA SameCountersStep ==
    ASSUME IInv, NEW t \in Tasks, Cancel(t) \/ Leave(t)
    PROVE  IInv'
<1>0. TypeOK /\ Shape /\ Balanced(active, waiting, value, slot, pc)
    BY BalancedMeaning DEF IInv
<1>1. /\ UNCHANGED <<slots, limit, value, active, waiting, key, slot, ahead>>
      /\ \/ pc[t] = "queued" /\ pc' = [pc EXCEPT ![t] = "dropped"]
         \/ pc[t] = "woken" /\ pc' = [pc EXCEPT ![t] = "revoked"]
         \/ pc[t] = "leaving" /\ pc' = [pc EXCEPT ![t] = "draining"]
         \/ pc[t] = "inside" /\ pc' = [pc EXCEPT ![t] = "leaving"]
    BY DEF Cancel, Leave, objects
<1>2. TypeOK'
    BY <1>0, <1>1 DEF TypeOK, Stages, InDeque, Inside
<1>3. Shape'
    BY <1>0, <1>1 DEF Shape, NoStrandedTask, TypeOK
<1>4. \A u \in Tasks \ {t} : slot'[u] = slot[u] /\ pc'[u] = pc[u]
    BY <1>0, <1>1 DEF TypeOK
<1>5. slot'[t] = slot[t]
    BY <1>1
<1>6. CountedAlike(pc[t], pc'[t])
    BY <1>0, <1>1 DEF TypeOK, CountedAlike
<1>7. /\ Shift(slot, pc, slot', pc', slot[t], 0, 0, 0)
      /\ \A z : z # slot[t] => Shift(slot, pc, slot', pc', z, 0, 0, 0)
    BY <1>4, <1>5, <1>6, CountSame
<1>8. \A z \in Slots : Shift(slot, pc, slot', pc', z, 0, 0, 0)
    BY <1>7
<1>9. Balanced(active', waiting', value', slot', pc')
    <2>1. \A z, X : Count(slot, pc, z, X) \in Nat
        BY CountType
    <2> QED BY <1>0, <1>1, <1>8, <2>1 DEF Balanced, Shift
<1> QED BY <1>1, <1>2, <1>3, <1>9, BalancedNext

LEMMA PromoteStep ==
    ASSUME IInv, NEW t \in Tasks, Promote(t)
    PROVE  IInv'
<1> DEFINE s == slot[t]
           q == [pc EXCEPT ![t] = "inside"]
<1>0. TypeOK /\ Shape /\ Balanced(active, waiting, value, slot, pc)
    BY BalancedMeaning DEF IInv
<1>1. pc[t] = "woken" /\ s \in Slots /\ slots[key[t]] = s
    BY <1>0 DEF Promote, Shape, NoStrandedTask, TypeOK
<1>2. /\ active' = [active EXCEPT ![s] = @ + 1]
      /\ waiting' = [waiting EXCEPT ![s] = @ - 1]
      /\ UNCHANGED <<slots, limit, key, slot>>
      /\ LeaveDeque(t)
      /\ SetSemaphore(s, IF value[s] > 0 THEN WakeUpNext(s, [value |-> value[s], pc |-> q])
                                         ELSE [value |-> value[s], pc |-> q])
    BY <1>1 DEF Promote, objects
<1>3. /\ q \in [Tasks -> Stages]
      /\ \A u \in Tasks \ {t} : slot[u] = slot[u] /\ q[u] = pc[u]
      /\ q[t] = "inside"
    BY <1>0 DEF TypeOK, Stages, Inside
<1> HIDE DEF q
<1>4. /\ Shift(slot, pc, slot, q, slot[t], 1, -1, 0)
      /\ \A z : z # slot[t] => Shift(slot, pc, slot, q, z, 0, 0, 0)
    BY <1>1, <1>3, CountPromote
<1>5. /\ active'[s] = active[s] + 1 /\ waiting'[s] = waiting[s] + (-1)
      /\ \A z \in Slots : z # s => active'[z] = active[z] /\ waiting'[z] = waiting[z]
    BY <1>0, <1>1, <1>2 DEF TypeOK
<1>6. value[s] \in Nat
    BY <1>0, <1>1 DEF TypeOK
<1>7. 0 \in Int /\ 1 \in Int /\ -1 \in Int /\ value[s] = value[s] - 0
    BY <1>6
<1> HIDE DEF s
<1>8. /\ value' \in [Slots -> Nat]
      /\ pc' \in [Tasks -> Stages]
      /\ \A u \in Tasks : pc'[u] = "idle" <=> q[u] = "idle"
      /\ Balanced(active', waiting', value', slot', pc')
    <2>1. CASE value[s] > 0
        <3> DEFINE r == WakeUpNext(s, [value |-> value[s], pc |-> q])
        <3>1. SetSemaphore(s, r) /\ slot' = slot
            BY <1>2, <2>1
        <3>2. /\ Shift(slot, pc, slot, q, s, 1, -1, 0)
              /\ \A z \in Slots : z # s => Shift(slot, pc, slot, q, z, 0, 0, 0)
            BY <1>4 DEF s
        <3> HIDE DEF r
        <3> QED BY <1>0, <1>1, <1>3, <1>5, <1>6, <1>7, <2>1, <3>1, <3>2, SettleAndWake DEF r
    <2>2. CASE ~(value[s] > 0)
        <3>1. pc' = q /\ value' = value /\ slot' = slot
            BY <1>0, <1>1, <1>2, <2>2 DEF SetSemaphore, TypeOK
        <3>2. /\ value'[s] = value[s] - 0
              /\ Shift(slot, pc, slot', pc', s, 1, -1, 0)
              /\ \A z \in Slots : z # s => Shift(slot, pc, slot', pc', z, 0, 0, 0)
              /\ \A z \in Slots : z # s => value'[z] = value[z]
            BY <1>4, <1>7, <3>1 DEF s
        <3>3. Balanced(active', waiting', value', slot', pc')
            BY <1>0, <1>1, <1>5, <1>7, <3>2, Rebalance
        <3> QED BY <1>0, <1>3, <3>1, <3>3 DEF TypeOK
    <2> QED BY <2>1, <2>2
<1>9. Shape'
    BY <1>0, <1>1, <1>2, <1>3, <1>8 DEF Shape, NoStrandedTask
<1>10. waiting'[s] \in Nat
    <2>1. Balanced(active', waiting', value', slot', pc') /\ s \in Slots
        BY <1>1, <1>8
    <2>2. waiting'[s] = Count(slot', pc', s, InDeque)
        BY <2>1 DEF Balanced
    <2>3. \A X : Count(slot', pc', s, X) \in Nat
        BY CountType
    <2> QED BY <2>2, <2>3
<1>11. waiting' \in [Slots -> Nat]
    BY <1>0, <1>1, <1>2, <1>10 DEF TypeOK
<1>12. TypeOK'
    BY <1>0, <1>1, <1>2, <1>8, <1>11 DEF TypeOK, LeaveDeque
<1> QED BY <1>2, <1>8, <1>9, <1>12, BalancedNext

LEMMA AbandonWaitStep ==
    ASSUME IInv, NEW t \in Tasks, AbandonWait(t)
    PROVE  IInv'
<1> DEFINE s == slot[t]
           q == [pc EXCEPT ![t] = "idle"]
<1>0. TypeOK /\ Shape /\ Balanced(active, waiting, value, slot, pc)
    BY BalancedMeaning DEF IInv
<1>1. pc[t] \in {"dropped", "revoked"} /\ s \in Slots
    BY <1>0 DEF AbandonWait, Shape, NoStrandedTask, TypeOK
<1>2. /\ UNCHANGED <<slots, limit, active, key>>
      /\ waiting' = [waiting EXCEPT ![s] = @ - 1]
      /\ Forget(t)
      /\ LeaveDeque(t)
      /\ SetSemaphore(s, IF pc[t] = "revoked" THEN Give(s, [value |-> value[s], pc |-> q])
                                              ELSE [value |-> value[s], pc |-> q])
    BY DEF AbandonWait, objects
<1>3. /\ q \in [Tasks -> Stages]
      /\ \A u \in Tasks \ {t} : slot[u] = slot[u] /\ q[u] = pc[u]
      /\ q[t] = "idle"
    BY <1>0 DEF TypeOK, Stages
<1>4. slot' = [slot EXCEPT ![t] = NoSlot]
    BY <1>2 DEF Forget
<1> HIDE DEF q
<1>5. /\ active'[s] = active[s] + 0 /\ waiting'[s] = waiting[s] + (-1)
      /\ \A z \in Slots : z # s => active'[z] = active[z] /\ waiting'[z] = waiting[z]
    BY <1>0, <1>1, <1>2 DEF TypeOK
<1>6. value[s] \in Nat
    BY <1>0, <1>1 DEF TypeOK
<1>7. 0 \in Int /\ -1 \in Int /\ value[s] + 1 = value[s] - (-1) /\ value[s] = value[s] - 0
    BY <1>6
<1>8. /\ value' \in [Slots -> Nat]
      /\ pc' \in [Tasks -> Stages]
      /\ \A u \in Tasks : pc'[u] = "idle" <=> q[u] = "idle"
      /\ Balanced(active', waiting', value', slot', pc')
    <2>1. CASE pc[t] = "revoked"
        <3> DEFINE r == WakeUpNext(s, [value |-> value[s] + 1, pc |-> q])
        <3>1. SetSemaphore(s, r)
            BY <1>2, <2>1 DEF Give
        <3>2. /\ Shift(slot, pc, slot, q, s, 0, -1, -1)
              /\ \A z \in Slots : z # s => Shift(slot, pc, slot, q, z, 0, 0, 0)
            BY <1>3, <2>1, CountRevoke
        <3>3. value[s] + 1 \in Nat /\ value[s] + 1 > 0
            BY <1>6
        <3> HIDE DEF r, s
        <3> QED BY <1>0, <1>1, <1>2, <1>3, <1>5, <1>7, <3>1, <3>2, <3>3, SettleAndWake DEF r
    <2>2. CASE pc[t] = "dropped"
        <3>1. pc' = q /\ value' = value
            BY <1>0, <1>1, <1>2, <2>2 DEF SetSemaphore, TypeOK
        <3>2. \A u \in Tasks \ {t} : slot'[u] = slot[u] /\ pc'[u] = pc[u]
            BY <1>0, <1>3, <1>4, <3>1 DEF TypeOK
        <3>3. pc'[t] = "idle"
            BY <1>3, <3>1
        <3>4. /\ Shift(slot, pc, slot', pc', s, 0, -1, 0)
              /\ \A z : z # s => Shift(slot, pc, slot', pc', z, 0, 0, 0)
            BY <2>2, <3>2, <3>3, CountDrop
        <3>5. value'[s] = value[s] - 0 /\ \A z \in Slots : z # s => value'[z] = value[z]
            BY <1>7, <3>1
        <3> HIDE DEF s
        <3>6. Balanced(active', waiting', value', slot', pc')
            BY <1>0, <1>1, <1>5, <1>7, <3>4, <3>5, Rebalance
        <3> QED BY <1>0, <1>3, <3>1, <3>6 DEF TypeOK
    <2> QED BY <1>1, <2>1, <2>2
<1> HIDE DEF s
<1>9. Shape'
    BY <1>0, <1>1, <1>2, <1>3, <1>4, <1>8 DEF Shape, NoStrandedTask, TypeOK
<1>10. waiting'[s] \in Nat
    <2>1. Balanced(active', waiting', value', slot', pc') /\ s \in Slots
        BY <1>1, <1>8
    <2>2. waiting'[s] = Count(slot', pc', s, InDeque)
        BY <2>1 DEF Balanced
    <2>3. \A X : Count(slot', pc', s, X) \in Nat
        BY CountType
    <2> QED BY <2>2, <2>3
<1>11. waiting' \in [Slots -> Nat]
    BY <1>0, <1>1, <1>2, <1>10 DEF TypeOK
<1>12. TypeOK'
    BY <1>0, <1>1, <1>2, <1>4, <1>8, <1>11 DEF TypeOK, LeaveDeque
<1> QED BY <1>2, <1>8, <1>9, <1>12, BalancedNext

LEMMA ReleaseStep ==
    ASSUME IInv, NEW t \in Tasks, Release(t)
    PROVE  IInv'
<1> DEFINE s == slot[t]
           q == [pc EXCEPT ![t] = "idle"]
           r == WakeUpNext(s, [value |-> value[s] + 1, pc |-> q])
<1>0. TypeOK /\ Shape /\ Balanced(active, waiting, value, slot, pc)
    BY BalancedMeaning DEF IInv
<1>1. pc[t] \in {"leaving", "draining"} /\ s \in Slots /\ slots[key[t]] = s
    BY <1>0 DEF Release, Shape, NoStrandedTask, TypeOK
<1>2. active[s] \in Nat /\ active[s] # 0
    <2>1. active[s] = Count(slot, pc, s, Inside) /\ pc[t] \in Inside
        BY <1>0, <1>1 DEF Balanced, Inside
    <2>2. Count(slot, pc, s, Inside) # 0 /\ Count(slot, pc, s, Inside) \in Nat
        BY <2>1, CountType
    <2> QED BY <2>1, <2>2
<1>3. s # NoSlot /\ active[s] > 0
    BY <1>1, <1>2, LeaseAssumption
<1>4. /\ UNCHANGED <<slots, limit, waiting, key, ahead>>
      /\ active' = [active EXCEPT ![s] = @ - 1]
      /\ Forget(t)
      /\ SetSemaphore(s, r)
    BY <1>1, <1>3 DEF Release, objects, Give
<1>5. slot' = [slot EXCEPT ![t] = NoSlot]
    BY <1>4 DEF Forget
<1>6. /\ q \in [Tasks -> Stages]
      /\ \A u \in Tasks \ {t} : slot[u] = slot[u] /\ q[u] = pc[u]
      /\ q[t] = "idle"
    BY <1>0 DEF TypeOK, Stages
<1> HIDE DEF q, r
<1>7. /\ Shift(slot, pc, slot, q, s, -1, 0, -1)
      /\ \A z \in Slots : z # s => Shift(slot, pc, slot, q, z, 0, 0, 0)
    BY <1>1, <1>6, CountLeave
<1>8. /\ active'[s] = active[s] + (-1) /\ waiting'[s] = waiting[s] + 0
      /\ \A z \in Slots : z # s => active'[z] = active[z] /\ waiting'[z] = waiting[z]
    BY <1>0, <1>1, <1>2, <1>4 DEF TypeOK
<1>9. value[s] + 1 \in Nat /\ value[s] + 1 > 0 /\ value[s] + 1 = value[s] - (-1)
    BY <1>0, <1>1 DEF TypeOK
<1>10. 0 \in Int /\ -1 \in Int
    OBVIOUS
<1> HIDE DEF s
<1>11. /\ value' \in [Slots -> Nat]
       /\ pc' \in [Tasks -> Stages]
       /\ \A u \in Tasks : pc'[u] = "idle" <=> q[u] = "idle"
       /\ Balanced(active', waiting', value', slot', pc')
    BY ZenonT(30), <1>0, <1>1, <1>4, <1>6, <1>7, <1>8, <1>9, <1>10, SettleAndWake DEF r
<1>12. Shape'
    <2>1. \A u \in Tasks : u # t => slot'[u] = slot[u] /\ (pc'[u] = "idle" <=> pc[u] = "idle")
        BY <1>0, <1>5, <1>6, <1>11 DEF TypeOK
    <2>2. slot'[t] = NoSlot /\ pc'[t] = "idle"
        BY <1>0, <1>5, <1>6, <1>11 DEF TypeOK
    <2>3. slots' = slots /\ key' = key
        BY <1>4
    <2> QED BY <1>0, <2>1, <2>2, <2>3 DEF Shape, NoStrandedTask
<1>13. TypeOK'
    <2>1. active[s] - 1 \in Nat
        BY <1>2
    <2>2. active' \in [Slots -> Nat]
        BY <1>0, <1>4, <2>1 DEF TypeOK
    <2>3. slot' \in [Tasks -> Slots \cup {NoSlot}]
        BY <1>0, <1>5 DEF TypeOK
    <2>4. value' \in [Slots -> Nat] /\ pc' \in [Tasks -> Stages]
        BY <1>11
    <2> QED BY <1>0, <1>4, <2>2, <2>3, <2>4 DEF TypeOK
<1> QED BY <1>4, <1>11, <1>12, <1>13, BalancedNext

-----------------------------------------------------------------------------
(* The theorems *)

LEMMA InvariantHolds == Init => IInv
<1> SUFFICES ASSUME Init PROVE IInv
    OBVIOUS
<1>1. TypeOK
    BY DEF Init, TypeOK, Stages
<1>2. Shape
    BY DEF Init, Shape, NoStrandedTask
<1>3. \A s \in Slots : \A X : Count(slot, pc, s, X) = 0
    BY CountType, LeaseAssumption DEF Init
<1>4. Balanced(active, waiting, value, slot, pc)
    BY <1>3 DEF Init, Balanced
<1> QED BY <1>1, <1>2, <1>4, BalancedMeaning DEF IInv

LEMMA InvariantKept == IInv /\ [Next]_vars => IInv'
<1> SUFFICES ASSUME IInv, [Next]_vars PROVE IInv'
    OBVIOUS
<1>1. ASSUME NEW k \in Keys, NEW n \in Limits, Configure(k, n) PROVE IInv'
    BY <1>1, ConfigureStep
<1>2. ASSUME NEW k \in Keys, Remove(k) PROVE IInv'
    BY <1>2, RemoveStep
<1>3. ASSUME NEW t \in Tasks, NEW k \in Keys, Enter(t, k) PROVE IInv'
    BY <1>3, EnterStep
<1>4. ASSUME NEW t \in Tasks, Promote(t) PROVE IInv'
    BY <1>4, PromoteStep
<1>5. ASSUME NEW t \in Tasks, Cancel(t) \/ Leave(t) PROVE IInv'
    BY <1>5, SameCountersStep
<1>6. ASSUME NEW t \in Tasks, AbandonWait(t) PROVE IInv'
    BY <1>6, AbandonWaitStep
<1>7. ASSUME NEW t \in Tasks, Release(t) PROVE IInv'
    BY <1>7, ReleaseStep
<1>8. CASE UNCHANGED vars
    <2>1. TypeOK'
        BY <1>8 DEF vars, IInv, TypeOK
    <2>2. Shape'
        BY <1>8 DEF vars, IInv, Shape, NoStrandedTask
    <2>3. CountersExact' /\ PermitsConserved'
        BY <1>8 DEF vars, IInv, CountersExact, PermitsConserved, At
    <2> QED BY <2>1, <2>2, <2>3 DEF IInv
<1> QED BY <1>1, <1>2, <1>3, <1>4, <1>5, <1>6, <1>7, <1>8 DEF Next

\* The invariant is inductive: it holds at the start and every step keeps it.
THEOREM LeaseInvariant == Spec => []IInv
    BY InvariantHolds, InvariantKept, PTL DEF Spec

\* Every variable of the manager keeps its type: the values and counters are
\* never negative.
THEOREM LeaseTypeOK == Spec => []TypeOK
    BY LeaseInvariant, PTL DEF IInv

\* A queued or admitted task never loses its slot to configure() or remove().
THEOREM LeaseNoStrandedTask == Spec => []NoStrandedTask
    BY LeaseInvariant, PTL DEF IInv, Shape

\* The counters that configure(), remove() and the snapshots rely on are exact,
\* and cancellations and wake-ups neither lose a permit nor make one up.
THEOREM LeaseSlotAccounting == Spec => []SlotAccounting
    BY LeaseInvariant, PTL DEF IInv, SlotAccounting

\* The holders of a key are the tasks inside on its slot.
LEMMA HoldersAreInside ==
    ASSUME IInv, NEW k \in Keys
    PROVE  /\ slots[k] = NoSlot => Holders(k) = {}
           /\ slots[k] # NoSlot => Holders(k) = At(slots[k], Inside)
<1>1. \A t \in Tasks : pc[t] \in Inside => slot[t] # NoSlot /\ slots[key[t]] = slot[t] /\ key[t] \in Keys
    BY DEF IInv, Shape, NoStrandedTask, Inside, TypeOK
<1>2. \A j \in Keys : slots[j] # NoSlot /\ slots[j] = slots[k] => j = k
    BY DEF IInv, Shape
<1> QED BY <1>1, <1>2 DEF Holders, At

\* An identity or platform gate is never driven by more tasks than its limit.
THEOREM LeaseCapacity == Spec => []CapacityRespected
<1>1. IInv => CapacityRespected
    <2>1. SUFFICES ASSUME IInv, NEW k \in Keys
                   PROVE  Cardinality(Holders(k)) <= LimitOf(k)
        BY DEF CapacityRespected
    <2>2. CASE slots[k] = NoSlot
        BY <2>1, <2>2, HoldersAreInside, FS_EmptySet DEF LimitOf
    <2>3. CASE slots[k] # NoSlot
        <3> DEFINE s == slots[k]
        <3>1. s \in Slots
            BY <2>1, <2>3 DEF IInv, TypeOK
        <3>2. Cardinality(Holders(k)) = Cardinality(At(s, Inside))
            BY <2>1, <2>3, HoldersAreInside
        <3>3. At(s, Inside) \subseteq At(s, Permit)
            BY DEF At, Permit
        <3>4. IsFiniteSet(At(s, Permit)) /\ Cardinality(At(s, Permit)) \in Nat
            <4>1. At(s, Permit) \subseteq Tasks
                BY DEF At
            <4> QED BY <4>1, LeaseAssumption, FS_Subset, FS_CardinalityType
        <3>5. Cardinality(At(s, Inside)) <= Cardinality(At(s, Permit))
            BY <3>3, <3>4, FS_Subset
        <3>6. value[s] \in Nat /\ value[s] + Cardinality(At(s, Permit)) = limit[s]
            BY <2>1, <3>1 DEF IInv, TypeOK, PermitsConserved
        <3>7. IsFiniteSet(At(s, Inside)) /\ Cardinality(At(s, Inside)) \in Nat
            BY <3>3, <3>4, FS_Subset, FS_CardinalityType
        <3>8. Cardinality(At(s, Inside)) <= limit[s]
            BY <3>4, <3>5, <3>6, <3>7
        <3> QED BY <2>3, <3>2, <3>8 DEF LimitOf
    <2> QED BY <2>2, <2>3
<1> QED BY <1>1, LeaseInvariant, PTL

-----------------------------------------------------------------------------
(* The order of the waiters *)

\* The tasks of a deque stand in a strict total order, and nobody else is in it.
Deque ==
    /\ \A t \in Tasks : \A u \in ahead[t] :
          /\ u # t /\ slot[u] = slot[t]
          /\ pc[t] \in InDeque /\ pc[u] \in InDeque
          /\ ahead[u] \subseteq ahead[t]
    /\ \A t, u \in Tasks :
          t # u /\ slot[t] = slot[u] /\ pc[t] \in InDeque /\ pc[u] \in InDeque
             => t \in ahead[u] \/ u \in ahead[t]

\* The step in FirstComeFirstServed.
InOrder ==
    \A t \in Tasks, u \in Tasks :
       (/\ pc[t] \notin Permit /\ pc'[t] \in Permit
        /\ u # t /\ pc[u] = "queued" /\ pc'[u] = "queued"
        /\ slot[u] = slot'[t])
          => t \in ahead[u]

OInv == IInv /\ Deque /\ NoLostWakeUp

\* The order of the natural numbers is well founded.
LEMMA OrderOfNat ==
    \E R : IsWellFoundedOn(R, Nat) /\ \A x, y \in Nat : y < x => <<y, x>> \in R
<1> DEFINE R == OpToRel(<, Nat)
<1>1. IsWellFoundedOn(R, Nat)
    BY Zenon, NatLessThanWellFounded
<1>2. \A x, y \in Nat : y < x => <<y, x>> \in R
    BY DEF OpToRel
<1> HIDE DEF R
<1> QED BY <1>1, <1>2

\* A non-empty set of natural numbers has a least one.
LEMMA LeastNumber ==
    ASSUME NEW T, T \subseteq Nat, T # {}
    PROVE  \E x \in T : \A y \in T : ~ (y < x)
<1>1. PICK R : IsWellFoundedOn(R, Nat) /\ \A x, y \in Nat : y < x => <<y, x>> \in R
    BY OrderOfNat
<1>2. \E x \in T : \A y \in T : ~ (<<y, x>> \in R)
    BY <1>1, WFMin
<1> QED BY <1>1, <1>2

\* Of any tasks, one has none of them ahead: who is ahead of somebody has fewer
\* tasks ahead, and the numbers do not descend for ever.
LEMMA SomebodyIsFirst ==
    ASSUME TypeOK, Deque, NEW T, T \subseteq Tasks, T # {}
    PROVE  \E t \in T : ahead[t] \cap T = {}
<1> DEFINE N == {Cardinality(ahead[t]) : t \in T}
<1>1. \A t \in Tasks : IsFiniteSet(ahead[t]) /\ Cardinality(ahead[t]) \in Nat
    <2>1. \A t \in Tasks : ahead[t] \in SUBSET Tasks
        BY DEF TypeOK
    <2> QED BY <2>1, LeaseAssumption, FS_Subset, FS_CardinalityType
<1>2. PICK n \in N : \A m \in N : ~ (m < n)
    <2>1. N \subseteq Nat /\ N # {}
        BY <1>1
    <2> HIDE DEF N
    <2> QED BY <2>1, LeastNumber
<1>3. PICK t \in T : n = Cardinality(ahead[t])
    OBVIOUS
<1>4. ASSUME NEW u \in ahead[t] \cap T PROVE FALSE
    <2>1. ahead[u] \subseteq ahead[t] /\ u \in ahead[t] /\ u \notin ahead[u]
        BY <1>4 DEF Deque
    <2>2. /\ Cardinality(ahead[u]) <= Cardinality(ahead[t])
          /\ Cardinality(ahead[u]) # Cardinality(ahead[t])
        BY <1>1, <2>1, FS_Subset
    <2>3. Cardinality(ahead[u]) < Cardinality(ahead[t])
        BY <1>1, <2>2
    <2> QED BY <1>2, <1>3, <1>4, <2>3
<1> QED BY <1>4

\* A wake-up finds the waiter that has no other ahead, and finds none only
\* when there is none.
WakesFirst(s, p, q) ==
    \/ q = p /\ \A u \in Tasks : slot[u] = s => p[u] # "queued"
    \/ \E w \in Tasks :
          /\ slot[w] = s /\ p[w] = "queued" /\ q = [p EXCEPT ![w] = "woken"]
          /\ \A u \in Tasks : slot[u] = s /\ p[u] = "queued" => u \notin ahead[w]

LEMMA WakeUpNextOrder ==
    ASSUME TypeOK, Deque, NEW s \in Slots, NEW v, NEW p \in [Tasks -> Stages],
           NEW r, r = WakeUpNext(s, [value |-> v, pc |-> p])
    PROVE  WakesFirst(s, p, r.pc)
<1> DEFINE pending == {t \in Tasks : slot[t] = s /\ p[t] = "queued"}
           first == FirstPending(s, p)
<1>1. first = {t \in pending : ahead[t] \cap pending = {}}
    BY DEF FirstPending
<1>2. CASE first = {}
    <2>1. r.pc = p
        BY <1>2 DEF WakeUpNext
    <2>2. pending = {}
        <3>1. pending \subseteq Tasks
            OBVIOUS
        <3> HIDE DEF pending
        <3> QED BY <1>1, <1>2, <3>1, SomebodyIsFirst
    <2> QED BY <2>1, <2>2 DEF WakesFirst
<1>3. CASE first # {}
    <2> DEFINE w == CHOOSE t \in first : TRUE
    <2>1. w \in first
        BY <1>3
    <2>2. r.pc = [p EXCEPT ![w] = "woken"]
        BY <1>3 DEF WakeUpNext
    <2> HIDE DEF w
    <2>3. /\ w \in Tasks /\ slot[w] = s /\ p[w] = "queued"
          /\ \A u \in Tasks : slot[u] = s /\ p[u] = "queued" => u \notin ahead[w]
        BY <1>1, <2>1
    <2> QED BY <2>2, <2>3 DEF WakesFirst
<1> QED BY <1>2, <1>3

\* A task that is not in a deque may as well be said to leave it.
LEMMA OutsideDeque ==
    ASSUME TypeOK, Deque, NEW t \in Tasks, pc[t] \notin InDeque, UNCHANGED ahead
    PROVE  LeaveDeque(t)
<1>1. ahead[t] = {} /\ \A u \in Tasks : t \notin ahead[u]
    BY DEF Deque
<1> DEFINE f == [u \in Tasks |-> IF u = t THEN {} ELSE ahead[u] \ {t}]
<1>2. ahead \in [Tasks -> SUBSET Tasks]
    BY DEF TypeOK
<1>3. \A u \in Tasks : f[u] = ahead[u]
    BY <1>1
<1>4. f = ahead
    BY <1>2, <1>3
<1> QED BY <1>4 DEF LeaveDeque

\* The deques are kept by a step in which nobody joins one, and at most one
\* task leaves its own or loses its slot.
LEMMA DequeKept ==
    ASSUME TypeOK, Deque, NEW t \in Tasks,
           \A u \in Tasks \ {t} : /\ slot'[u] = slot[u]
                                  /\ pc'[u] \in InDeque <=> pc[u] \in InDeque,
           \/ pc'[t] \notin InDeque /\ LeaveDeque(t)
           \/ /\ pc[t] \in InDeque /\ pc'[t] \in InDeque
              /\ slot'[t] = slot[t] /\ ahead' = ahead
    PROVE  Deque'
<1>1. CASE pc'[t] \notin InDeque /\ LeaveDeque(t)
    <2>1. \A u \in Tasks : ahead'[u] = IF u = t THEN {} ELSE ahead[u] \ {t}
        BY <1>1 DEF LeaveDeque
    <2>2. \A u \in Tasks : ahead[u] \subseteq Tasks
        BY DEF TypeOK
    <2>3. ASSUME NEW x \in Tasks, NEW u \in ahead'[x]
          PROVE  /\ u # x /\ slot'[u] = slot'[x]
                 /\ pc'[x] \in InDeque /\ pc'[u] \in InDeque
                 /\ ahead'[u] \subseteq ahead'[x]
        <3>1. x # t /\ u # t /\ u \in ahead[x] /\ u \in Tasks
            BY <2>1, <2>2, <2>3
        <3>2. /\ u # x /\ slot[u] = slot[x]
              /\ pc[x] \in InDeque /\ pc[u] \in InDeque
              /\ ahead[u] \subseteq ahead[x]
            BY <3>1 DEF Deque
        <3> QED BY <2>1, <3>1, <3>2
    <2>4. ASSUME NEW x \in Tasks, NEW u \in Tasks, x # u, slot'[x] = slot'[u],
                 pc'[x] \in InDeque, pc'[u] \in InDeque
          PROVE  x \in ahead'[u] \/ u \in ahead'[x]
        <3>1. x # t /\ u # t
            BY <1>1, <2>4
        <3>2. slot[x] = slot[u] /\ pc[x] \in InDeque /\ pc[u] \in InDeque
            BY <2>4, <3>1
        <3>3. x \in ahead[u] \/ u \in ahead[x]
            BY <2>4, <3>2 DEF Deque
        <3> QED BY <2>1, <3>1, <3>3
    <2> QED BY <2>3, <2>4 DEF Deque
<1>2. CASE /\ pc[t] \in InDeque /\ pc'[t] \in InDeque
           /\ slot'[t] = slot[t] /\ ahead' = ahead
    <2>1. \A u \in Tasks : ahead[u] \subseteq Tasks
        BY DEF TypeOK
    <2> QED BY <1>2, <2>1 DEF Deque
<1> QED BY <1>1, <1>2

\* Task t alone moves and nobody is woken: all is kept if t does not take the
\* duty of passing on a free permit away with it.
LEMMA QuietMove ==
    ASSUME OInv, NEW t \in Tasks,
           \A u \in Tasks \ {t} : slot'[u] = slot[u] /\ pc'[u] = pc[u],
           value' = value,
           \/ pc'[t] \notin InDeque /\ LeaveDeque(t)
           \/ /\ pc[t] \in InDeque /\ pc'[t] \in InDeque
              /\ slot'[t] = slot[t] /\ ahead' = ahead,
           pc'[t] # "queued",
           pc'[t] \in Permit => pc[t] \in Permit,
           \/ pc[t] \notin {"woken", "revoked"}
           \/ pc'[t] \in {"woken", "revoked"} /\ slot'[t] = slot[t]
           \/ value[slot[t]] = 0
    PROVE  Deque' /\ NoLostWakeUp' /\ InOrder
<1>1. Deque'
    BY DequeKept DEF OInv, IInv
<1>2. NoLostWakeUp'
    <2> SUFFICES ASSUME NEW s \in Slots, value'[s] > 0, NEW u \in Tasks,
                        slot'[u] = s, pc'[u] = "queued"
                 PROVE  \E x \in Tasks : slot'[x] = s /\ pc'[x] \in {"woken", "revoked"}
        BY DEF NoLostWakeUp, At
    <2>1. u # t /\ slot[u] = s /\ pc[u] = "queued" /\ value[s] > 0
        OBVIOUS
    <2>2. PICK x \in Tasks : slot[x] = s /\ pc[x] \in {"woken", "revoked"}
        BY <2>1 DEF OInv, NoLostWakeUp, At
    <2>3. value[s] # 0
        BY <2>1
    <2> QED BY <2>2, <2>3
<1>3. InOrder
    BY DEF InOrder
<1> QED BY <1>1, <1>2, <1>3

\* Task t is settled, with stages q, and the next waiter of its slot is woken.
LEMMA WakingMove ==
    ASSUME OInv, NEW s \in Slots, NEW t \in Tasks, slot[t] = s,
           NEW q \in [Tasks -> Stages], \A u \in Tasks \ {t} : q[u] = pc[u],
           q[t] \in {"idle", "inside"}, pc[t] \in Permit,
           NEW v, NEW r, r = WakeUpNext(s, [value |-> v, pc |-> q]), SetSemaphore(s, r),
           \A u \in Tasks \ {t} : slot'[u] = slot[u],
           LeaveDeque(t)
    PROVE  Deque' /\ NoLostWakeUp' /\ InOrder
<1>1. WakesFirst(s, q, pc')
    <2>1. WakesFirst(s, q, r.pc)
        BY WakeUpNextOrder DEF OInv, IInv
    <2> QED BY <2>1 DEF SetSemaphore
<1>2. \A z \in Slots \ {s} : value'[z] = value[z]
    BY DEF SetSemaphore, OInv, IInv, TypeOK
<1>3. /\ pc'[t] = q[t]
      /\ \A u \in Tasks \ {t} :
            \/ pc'[u] = pc[u]
            \/ pc[u] = "queued" /\ pc'[u] = "woken" /\ slot[u] = s
    BY <1>1 DEF WakesFirst
<1>4. Deque'
    <2>1. \A u \in Tasks \ {t} : pc'[u] \in InDeque <=> pc[u] \in InDeque
        BY <1>3 DEF InDeque
    <2>2. pc'[t] \notin InDeque
        BY <1>3 DEF InDeque
    <2> QED BY <2>1, <2>2, DequeKept DEF OInv, IInv
<1>5. NoLostWakeUp'
    <2> SUFFICES ASSUME NEW z \in Slots, value'[z] > 0, NEW u \in Tasks,
                        slot'[u] = z, pc'[u] = "queued"
                 PROVE  \E x \in Tasks : slot'[x] = z /\ pc'[x] \in {"woken", "revoked"}
        BY DEF NoLostWakeUp, At
    <2>1. u # t /\ slot[u] = z /\ pc[u] = "queued" /\ q[u] = "queued"
        BY <1>3
    <2>2. CASE z = s
        <3>1. PICK w \in Tasks : slot[w] = s /\ q[w] = "queued" /\ pc'[w] = "woken"
            BY <1>1, <2>1, <2>2 DEF WakesFirst
        <3>2. w # t
            BY <3>1
        <3> QED BY <2>2, <3>1, <3>2
    <2>3. CASE z # s
        <3>1. PICK x \in Tasks : slot[x] = z /\ pc[x] \in {"woken", "revoked"}
            BY <1>2, <2>1, <2>3 DEF OInv, NoLostWakeUp, At
        <3>2. x # t /\ pc'[x] = pc[x]
            BY <1>3, <2>3, <3>1
        <3> QED BY <3>1, <3>2
    <2> QED BY <2>2, <2>3
<1>6. InOrder
    <2> SUFFICES ASSUME NEW w \in Tasks, NEW u \in Tasks,
                        pc[w] \notin Permit, pc'[w] \in Permit,
                        u # w, pc[u] = "queued", pc'[u] = "queued", slot[u] = slot'[w]
                 PROVE  w \in ahead[u]
        BY DEF InOrder
    <2>1. w # t /\ pc[w] = "queued" /\ pc'[w] = "woken" /\ slot[w] = s /\ slot[u] = s
        BY <1>3
    <2>2. u # t /\ q[u] = "queued" /\ q[w] = "queued"
        BY <1>3, <2>1
    <2>3. u \notin ahead[w]
        BY <1>1, <2>1, <2>2 DEF WakesFirst
    <2>4. pc[w] \in InDeque /\ pc[u] \in InDeque
        BY <2>1 DEF InDeque
    <2> QED BY <2>1, <2>3, <2>4 DEF OInv, Deque
<1> QED BY <1>4, <1>5, <1>6

\* Slots are configured and removed behind everybody's back.
LEMMA SlotsInOrder ==
    ASSUME OInv, NEW k \in Keys, NEW n \in Limits, Configure(k, n) \/ Remove(k)
    PROVE  Deque' /\ NoLostWakeUp' /\ InOrder
<1>1. UNCHANGED <<pc, slot, ahead>>
    BY DEF Configure, Remove
<1>2. Deque' /\ InOrder
    BY <1>1 DEF OInv, Deque, InOrder
<1>3. \A t \in Tasks : slot[t] \in Slots => value'[slot[t]] = value[slot[t]]
    BY DEF Configure, Remove, Unreferenced, OInv, IInv, TypeOK
<1>4. NoLostWakeUp'
    <2> SUFFICES ASSUME NEW s \in Slots, value'[s] > 0, NEW u \in Tasks,
                        slot[u] = s, pc[u] = "queued"
                 PROVE  \E x \in Tasks : slot[x] = s /\ pc[x] \in {"woken", "revoked"}
        BY <1>1 DEF NoLostWakeUp, At
    <2>1. value[s] > 0
        BY <1>3
    <2> QED BY <2>1 DEF OInv, NoLostWakeUp, At
<1> QED BY <1>2, <1>4

\* A task goes straight in where nobody waits, or joins the deque at its end.
LEMMA EnterInOrder ==
    ASSUME OInv, NEW t \in Tasks, NEW k \in Keys, Enter(t, k)
    PROVE  Deque' /\ NoLostWakeUp' /\ InOrder
<1>0. TypeOK /\ Deque
    BY DEF OInv, IInv
<1>1. PICK s \in Slots : s = slots[k]
    BY <1>0 DEF Enter, TypeOK
<1>2. /\ pc[t] = "idle" /\ slot' = [slot EXCEPT ![t] = s] /\ t \notin At(s, InDeque)
      /\ pc[t] \notin InDeque
    BY <1>1 DEF Enter, At, InDeque
<1>3. \A u \in Tasks : ahead[u] \subseteq Tasks
    BY <1>0 DEF TypeOK
<1>4. \A u \in Tasks \ {t} : slot'[u] = slot[u]
    BY <1>0, <1>2 DEF TypeOK
<1>5. CASE ~Locked(s)
    <2>1. /\ pc' = [pc EXCEPT ![t] = "inside"]
          /\ value' = [value EXCEPT ![s] = @ - 1]
          /\ UNCHANGED ahead
        BY <1>1, <1>5 DEF Enter
    <2>2. \A u \in Tasks \ {t} : pc'[u] = pc[u]
        BY <1>0, <2>1 DEF TypeOK
    <2>3. pc'[t] = "inside" /\ pc'[t] \notin InDeque
        BY <1>0, <2>1 DEF TypeOK, InDeque
    <2>4. \A u \in Tasks : slot[u] = s => pc[u] # "queued"
        BY <1>5 DEF Locked, At, InDeque
    <2>5. Deque'
        <3>1. LeaveDeque(t)
            BY <1>0, <1>2, <2>1, OutsideDeque
        <3> QED BY <1>0, <1>4, <2>2, <2>3, <3>1, DequeKept
    <2>6. NoLostWakeUp'
        <3> SUFFICES ASSUME NEW z \in Slots, value'[z] > 0, NEW u \in Tasks,
                            slot'[u] = z, pc'[u] = "queued"
                     PROVE  \E x \in Tasks : slot'[x] = z /\ pc'[x] \in {"woken", "revoked"}
            BY DEF NoLostWakeUp, At
        <3>1. u # t /\ slot[u] = z /\ pc[u] = "queued" /\ z # s
            BY <1>4, <2>2, <2>3, <2>4
        <3>2. value[z] > 0
            BY <1>0, <2>1, <3>1 DEF TypeOK
        <3>3. PICK x \in Tasks : slot[x] = z /\ pc[x] \in {"woken", "revoked"}
            BY <3>1, <3>2 DEF OInv, NoLostWakeUp, At
        <3> QED BY <1>2, <1>4, <2>2, <3>3
    <2>7. InOrder
        <3> SUFFICES ASSUME NEW w \in Tasks, NEW u \in Tasks,
                            pc[w] \notin Permit, pc'[w] \in Permit,
                            u # w, pc[u] = "queued", slot[u] = slot'[w]
                     PROVE  FALSE
            BY DEF InOrder
        <3>1. w = t
            BY <2>2
        <3>2. slot[u] = s
            BY <1>0, <1>2, <3>1 DEF TypeOK
        <3> QED BY <2>4, <3>2
    <2> QED BY <2>5, <2>6, <2>7
<1>6. CASE Locked(s)
    <2>1. /\ pc' = [pc EXCEPT ![t] = "queued"]
          /\ ahead' = [ahead EXCEPT ![t] = At(s, InDeque)]
          /\ UNCHANGED value
        BY <1>1, <1>6 DEF Enter, Locked
    <2>2. \A u \in Tasks \ {t} : pc'[u] = pc[u] /\ ahead'[u] = ahead[u]
        BY <1>0, <2>1 DEF TypeOK
    <2>3. /\ pc'[t] = "queued" /\ pc'[t] \in InDeque /\ pc'[t] \notin Permit
          /\ slot'[t] = s /\ ahead'[t] = At(s, InDeque)
        BY <1>0, <1>2, <2>1 DEF TypeOK, InDeque, Permit, Inside
    <2>4. Deque'
        <3>1. ASSUME NEW x \in Tasks, NEW u \in ahead'[x]
              PROVE  /\ u # x /\ slot'[u] = slot'[x]
                     /\ pc'[x] \in InDeque /\ pc'[u] \in InDeque
                     /\ ahead'[u] \subseteq ahead'[x]
            <4>1. CASE x = t
                <5>1. u \in Tasks /\ u # t /\ slot[u] = s /\ pc[u] \in InDeque
                    BY <1>2, <2>3, <3>1, <4>1 DEF At
                <5>2. ahead[u] \subseteq At(s, InDeque)
                    BY <1>0, <1>3, <5>1 DEF Deque, At
                <5> QED BY <1>4, <2>2, <2>3, <4>1, <5>1, <5>2
            <4>2. CASE x # t
                <5>1. u \in ahead[x] /\ u \in Tasks
                    BY <1>3, <2>2, <3>1, <4>2
                <5>2. /\ u # x /\ slot[u] = slot[x]
                      /\ pc[x] \in InDeque /\ pc[u] \in InDeque
                      /\ ahead[u] \subseteq ahead[x]
                    BY <1>0, <5>1 DEF Deque
                <5>3. u # t
                    BY <1>2, <5>2
                <5> QED BY <1>4, <2>2, <4>2, <5>2, <5>1, <5>3
            <4> QED BY <4>1, <4>2
        <3>2. ASSUME NEW x \in Tasks, NEW u \in Tasks, x # u, slot'[x] = slot'[u],
                     pc'[x] \in InDeque, pc'[u] \in InDeque
              PROVE  x \in ahead'[u] \/ u \in ahead'[x]
            <4>1. \A y \in Tasks \ {t} :
                     slot'[y] = s /\ pc'[y] \in InDeque => y \in ahead'[t]
                BY <1>4, <2>2, <2>3 DEF At
            <4>2. CASE x # t /\ u # t
                BY <1>0, <1>4, <2>2, <3>2, <4>2 DEF Deque
            <4> QED BY <2>3, <3>2, <4>1, <4>2
        <3> QED BY <3>1, <3>2 DEF Deque
    <2>5. NoLostWakeUp'
        <3> SUFFICES ASSUME NEW z \in Slots, value[z] > 0, NEW u \in Tasks,
                            slot'[u] = z, pc'[u] = "queued"
                     PROVE  \E x \in Tasks : slot'[x] = z /\ pc'[x] \in {"woken", "revoked"}
            BY <2>1 DEF NoLostWakeUp, At
        <3>1. \E x \in Tasks : slot[x] = z /\ pc[x] \in {"woken", "revoked"}
            <4>1. CASE u # t
                <5>1. slot[u] = z /\ pc[u] = "queued"
                    BY <1>4, <2>2, <4>1
                <5> QED BY <5>1 DEF OInv, NoLostWakeUp, At
            <4>2. CASE u = t
                <5>1. z = s /\ value[s] # 0
                    BY <2>3, <4>2
                <5>2. PICK x \in Tasks : slot[x] = s /\ pc[x] \in InDeque \ {"dropped"}
                    BY <1>6, <5>1 DEF Locked, At
                <5>3. CASE pc[x] = "queued"
                    BY <5>1, <5>2, <5>3 DEF OInv, NoLostWakeUp, At
                <5>4. CASE pc[x] # "queued"
                    BY <5>1, <5>2, <5>4 DEF InDeque
                <5> QED BY <5>3, <5>4
            <4> QED BY <4>1, <4>2
        <3>2. PICK x \in Tasks : slot[x] = z /\ pc[x] \in {"woken", "revoked"}
            BY <3>1
        <3> QED BY <1>2, <1>4, <2>2, <3>2
    <2>6. InOrder
        BY <2>2, <2>3 DEF InOrder
    <2> QED BY <2>4, <2>5, <2>6
<1> QED BY <1>5, <1>6

LEMMA CancelInOrder ==
    ASSUME OInv, NEW t \in Tasks, Cancel(t) \/ Leave(t)
    PROVE  Deque' /\ NoLostWakeUp' /\ InOrder
<1>0. TypeOK /\ Deque
    BY DEF OInv, IInv
<1>1. /\ UNCHANGED <<value, slot, ahead>>
      /\ \/ pc[t] = "queued" /\ pc' = [pc EXCEPT ![t] = "dropped"]
         \/ pc[t] = "woken" /\ pc' = [pc EXCEPT ![t] = "revoked"]
         \/ pc[t] = "leaving" /\ pc' = [pc EXCEPT ![t] = "draining"]
         \/ pc[t] = "inside" /\ pc' = [pc EXCEPT ![t] = "leaving"]
    BY DEF Cancel, Leave
<1>2. \A u \in Tasks \ {t} : slot'[u] = slot[u] /\ pc'[u] = pc[u]
    BY <1>0, <1>1 DEF TypeOK
<1>3. \/ pc[t] = "queued" /\ pc'[t] = "dropped"
      \/ pc[t] = "woken" /\ pc'[t] = "revoked"
      \/ pc[t] = "leaving" /\ pc'[t] = "draining"
      \/ pc[t] = "inside" /\ pc'[t] = "leaving"
    BY <1>0, <1>1 DEF TypeOK
<1>4. \/ pc'[t] \notin InDeque /\ LeaveDeque(t)
      \/ pc[t] \in InDeque /\ pc'[t] \in InDeque /\ slot'[t] = slot[t] /\ ahead' = ahead
    <2>1. CASE pc[t] \in InDeque
        BY <1>1, <1>3, <2>1 DEF InDeque
    <2>2. CASE pc[t] \notin InDeque
        <3>1. LeaveDeque(t)
            BY <1>0, <1>1, <2>2, OutsideDeque
        <3> QED BY <1>3, <2>2, <3>1 DEF InDeque
    <2> QED BY <2>1, <2>2
<1>5. /\ pc'[t] # "queued"
      /\ pc'[t] \in Permit => pc[t] \in Permit
      /\ pc[t] \notin {"woken", "revoked"} \/ pc'[t] \in {"woken", "revoked"}
    BY <1>3 DEF Permit, Inside
<1> QED BY <1>1, <1>2, <1>4, <1>5, QuietMove

LEMMA PromoteInOrder ==
    ASSUME OInv, NEW t \in Tasks, Promote(t)
    PROVE  Deque' /\ NoLostWakeUp' /\ InOrder
<1>0. TypeOK /\ Shape
    BY DEF OInv, IInv
<1>1. PICK s \in Slots, q \in [Tasks -> Stages] :
         s = slot[t] /\ q = [pc EXCEPT ![t] = "inside"]
    BY <1>0 DEF Promote, Shape, TypeOK, Stages, Inside
<1>2. /\ pc[t] = "woken" /\ slots[key[t]] = s /\ LeaveDeque(t) /\ UNCHANGED slot
      /\ SetSemaphore(s, IF value[s] > 0 THEN WakeUpNext(s, [value |-> value[s], pc |-> q])
                                         ELSE [value |-> value[s], pc |-> q])
    BY <1>0, <1>1 DEF Promote, Shape, NoStrandedTask
<1>3. q[t] = "inside" /\ \A u \in Tasks \ {t} : q[u] = pc[u]
    BY <1>0, <1>1 DEF TypeOK
<1>4. CASE value[s] > 0
    <2>1. PICK r : r = WakeUpNext(s, [value |-> value[s], pc |-> q])
        OBVIOUS
    <2>2. SetSemaphore(s, r) /\ pc[t] \in Permit /\ \A u \in Tasks \ {t} : slot'[u] = slot[u]
        BY <1>2, <1>4, <2>1 DEF Permit
    <2> QED BY <1>1, <1>2, <1>3, <2>1, <2>2, WakingMove
<1>5. CASE ~(value[s] > 0)
    <2>1. pc' = q /\ value' = value
        BY <1>0, <1>2, <1>5 DEF SetSemaphore, TypeOK
    <2>2. value[slot[t]] = 0
        BY <1>0, <1>1, <1>5 DEF TypeOK
    <2>3. /\ pc'[t] \notin InDeque /\ pc'[t] # "queued" /\ pc[t] \in Permit
          /\ \A u \in Tasks \ {t} : slot'[u] = slot[u] /\ pc'[u] = pc[u]
        BY <1>2, <1>3, <2>1 DEF InDeque, Permit
    <2> QED BY <1>2, <2>1, <2>2, <2>3, QuietMove
<1> QED BY <1>4, <1>5

LEMMA AbandonWaitInOrder ==
    ASSUME OInv, NEW t \in Tasks, AbandonWait(t)
    PROVE  Deque' /\ NoLostWakeUp' /\ InOrder
<1>0. TypeOK /\ Shape
    BY DEF OInv, IInv
<1>1. PICK s \in Slots, q \in [Tasks -> Stages] :
         s = slot[t] /\ q = [pc EXCEPT ![t] = "idle"]
    BY <1>0 DEF AbandonWait, Shape, TypeOK, Stages
<1>2. /\ pc[t] \in {"dropped", "revoked"} /\ LeaveDeque(t)
      /\ slot' = [slot EXCEPT ![t] = NoSlot]
      /\ SetSemaphore(s, IF pc[t] = "revoked" THEN Give(s, [value |-> value[s], pc |-> q])
                                              ELSE [value |-> value[s], pc |-> q])
    BY <1>1 DEF AbandonWait, Forget
<1>3. /\ q[t] = "idle" /\ \A u \in Tasks \ {t} : q[u] = pc[u]
      /\ \A u \in Tasks \ {t} : slot'[u] = slot[u]
    BY <1>0, <1>1, <1>2 DEF TypeOK
<1>4. CASE pc[t] = "revoked"
    <2>1. PICK r : r = WakeUpNext(s, [value |-> value[s] + 1, pc |-> q])
        OBVIOUS
    <2>2. SetSemaphore(s, r) /\ pc[t] \in Permit
        BY <1>2, <1>4, <2>1 DEF Permit, Give
    <2> QED BY <1>1, <1>2, <1>3, <2>1, <2>2, WakingMove
<1>5. CASE pc[t] = "dropped"
    <2>1. pc' = q /\ value' = value
        BY <1>0, <1>2, <1>5 DEF SetSemaphore, TypeOK
    <2>2. /\ pc'[t] \notin InDeque /\ pc'[t] # "queued" /\ pc'[t] \notin Permit
          /\ \A u \in Tasks \ {t} : slot'[u] = slot[u] /\ pc'[u] = pc[u]
        BY <1>2, <1>3, <2>1 DEF InDeque, Permit, Inside
    <2> QED BY <1>2, <1>5, <2>1, <2>2, QuietMove
<1> QED BY <1>2, <1>4, <1>5

LEMMA ReleaseInOrder ==
    ASSUME OInv, NEW t \in Tasks, Release(t)
    PROVE  Deque' /\ NoLostWakeUp' /\ InOrder
<1>0. TypeOK /\ Shape /\ Deque
    BY DEF OInv, IInv
<1>1. PICK s \in Slots, q \in [Tasks -> Stages] :
         s = slot[t] /\ q = [pc EXCEPT ![t] = "idle"]
    BY <1>0 DEF Release, Shape, TypeOK, Stages
<1>2. /\ pc[t] \in {"leaving", "draining"} /\ pc[t] \notin InDeque /\ pc[t] \in Permit
      /\ slots[key[t]] = s /\ UNCHANGED ahead
      /\ slot' = [slot EXCEPT ![t] = NoSlot]
    BY <1>0, <1>1 DEF Release, Forget, Shape, NoStrandedTask, InDeque, Permit, Inside
<1>3. /\ q[t] = "idle" /\ \A u \in Tasks \ {t} : q[u] = pc[u]
      /\ \A u \in Tasks \ {t} : slot'[u] = slot[u]
    BY <1>0, <1>1, <1>2 DEF TypeOK
<1>4. LeaveDeque(t)
    BY <1>0, <1>2, OutsideDeque
<1>5. CASE SetSemaphore(s, Give(s, [value |-> value[s], pc |-> q]))
    <2>1. PICK r : r = WakeUpNext(s, [value |-> value[s] + 1, pc |-> q])
        OBVIOUS
    <2>2. SetSemaphore(s, r)
        BY <1>5, <2>1 DEF Give
    <2> QED BY <1>1, <1>2, <1>3, <1>4, <2>1, <2>2, WakingMove
<1>6. CASE pc' = q /\ UNCHANGED value
    <2>1. /\ pc'[t] \notin InDeque /\ pc'[t] # "queued" /\ pc'[t] \notin Permit
          /\ pc[t] \notin {"woken", "revoked"}
          /\ \A u \in Tasks \ {t} : slot'[u] = slot[u] /\ pc'[u] = pc[u]
        BY <1>2, <1>3, <1>6 DEF InDeque, Permit, Inside
    <2> QED BY <1>4, <1>6, <2>1, QuietMove
<1> QED BY <1>1, <1>2, <1>5, <1>6 DEF Release

LEMMA StepInOrder ==
    ASSUME OInv, [Next]_vars
    PROVE  Deque' /\ NoLostWakeUp' /\ InOrder
<1>1. ASSUME NEW k \in Keys, NEW n \in Limits, Configure(k, n)
      PROVE  Deque' /\ NoLostWakeUp' /\ InOrder
    BY <1>1, SlotsInOrder
<1>2. ASSUME NEW k \in Keys, Remove(k) PROVE Deque' /\ NoLostWakeUp' /\ InOrder
    <2>1. /\ UNCHANGED <<pc, slot, ahead, value>>
        BY <1>2 DEF Remove
    <2> QED BY <2>1 DEF OInv, Deque, NoLostWakeUp, InOrder, At
<1>3. ASSUME NEW t \in Tasks, NEW k \in Keys, Enter(t, k)
      PROVE  Deque' /\ NoLostWakeUp' /\ InOrder
    BY <1>3, EnterInOrder
<1>4. ASSUME NEW t \in Tasks, Promote(t) PROVE Deque' /\ NoLostWakeUp' /\ InOrder
    BY <1>4, PromoteInOrder
<1>5. ASSUME NEW t \in Tasks, Cancel(t) \/ Leave(t) PROVE Deque' /\ NoLostWakeUp' /\ InOrder
    BY <1>5, CancelInOrder
<1>6. ASSUME NEW t \in Tasks, AbandonWait(t) PROVE Deque' /\ NoLostWakeUp' /\ InOrder
    BY <1>6, AbandonWaitInOrder
<1>7. ASSUME NEW t \in Tasks, Release(t) PROVE Deque' /\ NoLostWakeUp' /\ InOrder
    BY <1>7, ReleaseInOrder
<1>8. CASE UNCHANGED vars
    BY <1>8 DEF vars, OInv, Deque, NoLostWakeUp, InOrder, At
<1> QED BY <1>1, <1>2, <1>3, <1>4, <1>5, <1>6, <1>7, <1>8 DEF Next

LEMMA OrderInvariant == Spec => []OInv
<1>1. Init => OInv
    <2> SUFFICES ASSUME Init PROVE OInv
        OBVIOUS
    <2>1. Deque /\ NoLostWakeUp
        BY DEF Init, Deque, NoLostWakeUp, At, InDeque
    <2>2. IInv
        BY InvariantHolds
    <2> QED BY <2>1, <2>2 DEF OInv
<1>2. OInv /\ [Next]_vars => OInv'
    <2> SUFFICES ASSUME OInv, [Next]_vars PROVE OInv'
        OBVIOUS
    <2>1. IInv'
        BY InvariantKept DEF OInv
    <2>2. Deque' /\ NoLostWakeUp'
        BY StepInOrder
    <2> QED BY <2>1, <2>2 DEF OInv
<1> QED BY <1>1, <1>2, PTL DEF Spec

\* A permit that is free while somebody waits is about to be passed on: none
\* of the ways in which a task goes, cancelled or not, leaves it lying.
THEOREM LeaseNoLostWakeUp == Spec => []NoLostWakeUp
<1>1. OInv => NoLostWakeUp
    BY DEF OInv
<1> QED BY <1>1, OrderInvariant, PTL

\* The manager grants leases in the order they were asked for: no step gives
\* a permit to a task past one that is before it in the deque and stays there.
THEOREM LeaseServedInOrder == Spec => FirstComeFirstServed
<1>1. OInv /\ [Next]_vars => InOrder
    BY StepInOrder
<1>2. Spec => [][InOrder]_vars
    BY <1>1, OrderInvariant, PTL DEF Spec
<1> QED BY <1>2 DEF FirstComeFirstServed, InOrder


-----------------------------------------------------------------------------
(* IdentityLease implements LeaseGate: every step of the lease manager is a *)
(* step of the gate or changes nothing there.                              *)

\* Only t may cross the door of a gate.
OthersStay(t) ==
    \A u \in Tasks \ {t} : /\ key'[u] = key[u]
                           /\ pc'[u] \in Inside <=> pc[u] \in Inside

SameLimits == UNCHANGED <<slots, limit>>

-----------------------------------------------------------------------------
(* What steps of the semaphore mean for the gate.                          *)

\* Waking a waiter admits nobody: it is the waiter's own step that does.
LEMMA WakeUpAdmitsNobody ==
    ASSUME NEW s, NEW sem, sem.pc \in [Tasks -> Stages], NEW u \in Tasks
    PROVE  WakeUpNext(s, sem).pc[u] \in Inside <=> sem.pc[u] \in Inside
<1> DEFINE first == FirstPending(s, sem.pc)
           w == CHOOSE t \in first : TRUE
<1>1. CASE first = {}
    BY <1>1 DEF WakeUpNext
<1>2. CASE first # {}
    <2>1. w \in Tasks /\ sem.pc[w] = "queued"
        BY <1>2 DEF FirstPending
    <2> HIDE DEF w
    <2>2. WakeUpNext(s, sem).pc = [sem.pc EXCEPT ![w] = "woken"]
        BY <1>2 DEF WakeUpNext, w
    <2> QED BY <2>1, <2>2 DEF Inside
<1> QED BY <1>1, <1>2

LEMMA GiveAdmitsNobody ==
    ASSUME NEW s, NEW v, NEW p \in [Tasks -> Stages], NEW u \in Tasks
    PROVE  Give(s, [value |-> v, pc |-> p]).pc[u] \in Inside <=> p[u] \in Inside
<1> DEFINE sem == [value |-> v + 1, pc |-> p]
<1>1. Give(s, [value |-> v, pc |-> p]) = WakeUpNext(s, sem)
    BY DEF Give
<1>2. sem.pc = p
    OBVIOUS
<1> HIDE DEF sem
<1> QED BY <1>1, <1>2, WakeUpAdmitsNobody

\* LeaseGate counts as this module does.
LEMMA SameCardinality == \A S : Gate!Cardinality(S) = Cardinality(S)
BY DEF Gate!Cardinality, Cardinality, Gate!IsFiniteSet, IsFiniteSet

LEMMA HoldersType ==
    ASSUME NEW k \in Keys
    PROVE  Holders(k) \subseteq Tasks /\ Holders(k)' \subseteq Tasks
BY DEF Holders

\* The three ways a step on task t looks from the gate.
LEMMA Unmoved ==
    ASSUME NEW t \in Tasks, OthersStay(t), SameLimits,
           \/ pc[t] \notin Inside /\ pc'[t] \notin Inside
           \/ pc[t] \in Inside /\ pc'[t] \in Inside /\ key'[t] = key[t]
    PROVE  UNCHANGED Gate!gateVars
<1>1. ASSUME NEW k \in Keys PROVE Holders(k)' = Holders(k)
    <2>1. ASSUME NEW u \in Tasks PROVE u \in Holders(k)' <=> u \in Holders(k)
        BY DEF OthersStay, Holders
    <2> QED BY <2>1, HoldersType
<1>2. \A k \in Keys : LimitOf(k)' = LimitOf(k)
    BY DEF SameLimits, LimitOf
<1> QED BY <1>1, <1>2 DEF Gate!gateVars

LEMMA Admitted ==
    ASSUME IInv, TypeOK', CapacityRespected', NEW t \in Tasks, OthersStay(t), SameLimits,
           pc[t] \notin Inside, pc'[t] \in Inside
    PROVE  \E k \in Keys : Gate!Admit(k, t)
<1>1. PICK k \in Keys : k = key'[t]
    BY DEF TypeOK
<1>2. \A j \in Keys : t \notin Holders(j)
    BY DEF Holders
<1>3. Holders(k)' = Holders(k) \cup {t}
    <2>1. ASSUME NEW u \in Tasks PROVE u \in Holders(k)' <=> u \in Holders(k) \/ u = t
        BY <1>1 DEF OthersStay, Holders
    <2> QED BY <2>1, HoldersType
<1>4. ASSUME NEW j \in Keys, j # k PROVE Holders(j)' = Holders(j)
    <2>1. ASSUME NEW u \in Tasks PROVE u \in Holders(j)' <=> u \in Holders(j)
        BY <1>1, <1>4 DEF OthersStay, Holders
    <2> QED BY <2>1, HoldersType
<1>5. \A j \in Keys : LimitOf(j)' = LimitOf(j)
    BY DEF SameLimits, LimitOf
<1>6. Cardinality(Holders(k)) < LimitOf(k)
    <2>1. IsFiniteSet(Holders(k))
        <3>1. Holders(k) \subseteq Tasks
            BY DEF Holders
        <3> QED BY <3>1, LeaseAssumption, FS_Subset
    <2>2. Cardinality(Holders(k) \cup {t}) = Cardinality(Holders(k)) + 1
        BY <1>2, <2>1, FS_AddElement
    <2>3. Cardinality(Holders(k)) \in Nat /\ LimitOf(k) \in Nat
        <3>1. Cardinality(Holders(k)) \in Nat
            BY <2>1, FS_CardinalityType
        <3>2. LimitOf(k) \in Nat
            <4>1. slots[k] # NoSlot => limit[slots[k]] \in Limits \cup {0}
                BY DEF IInv, TypeOK
            <4>2. Limits \cup {0} \subseteq Nat
                BY LeaseAssumption
            <4> QED BY <4>1, <4>2 DEF LimitOf
        <3> QED BY <3>1, <3>2
    <2>4. Cardinality(Holders(k) \cup {t}) <= LimitOf(k)
        BY <1>3, <1>5 DEF CapacityRespected
    <2> QED BY <2>2, <2>3, <2>4
<1> QED BY <1>2, <1>3, <1>4, <1>5, <1>6, SameCardinality DEF Gate!Admit

LEMMA Dismissed ==
    ASSUME IInv, NEW t \in Tasks, OthersStay(t), SameLimits,
           pc[t] \in Inside, pc'[t] \notin Inside
    PROVE  \E k \in Keys : Gate!Dismiss(k, t)
<1>1. PICK k \in Keys : k = key[t]
    BY DEF IInv, TypeOK
<1>2. Holders(k)' = Holders(k) \ {t} /\ t \in Holders(k)
    <2>1. ASSUME NEW u \in Tasks PROVE u \in Holders(k)' <=> u \in Holders(k) /\ u # t
        BY <1>1 DEF OthersStay, Holders
    <2>2. t \in Holders(k)
        BY <1>1 DEF Holders
    <2> QED BY <2>1, <2>2, HoldersType
<1>3. ASSUME NEW j \in Keys, j # k PROVE Holders(j)' = Holders(j)
    <2>1. ASSUME NEW u \in Tasks PROVE u \in Holders(j)' <=> u \in Holders(j)
        BY <1>1, <1>3 DEF OthersStay, Holders
    <2> QED BY <2>1, HoldersType
<1>4. \A j \in Keys : LimitOf(j)' = LimitOf(j)
    BY DEF SameLimits, LimitOf
<1> QED BY <1>2, <1>3, <1>4 DEF Gate!Dismiss

-----------------------------------------------------------------------------
(* Each action.                                                            *)

\* configure() and remove() find counters at zero, that is an empty gate.
LEMMA QuietGate ==
    ASSUME IInv, NEW k \in Keys,
           slots[k] # NoSlot => active[slots[k]] = 0 /\ waiting[slots[k]] = 0
    PROVE  Holders(k) = {}
<1>1. CASE slots[k] = NoSlot
    BY <1>1, HoldersAreInside
<1>2. CASE slots[k] # NoSlot
    <2>1. slots[k] \in Slots
        BY <1>2 DEF IInv, TypeOK
    <2>2. \A t \in Tasks : slot[t] # slots[k]
        BY <1>2, <2>1, QuietSlot
    <2> QED BY <1>2, <2>2, HoldersAreInside DEF At
<1> QED BY <1>1, <1>2

LEMMA ConfigureGate ==
    ASSUME IInv, NEW k \in Keys, NEW n \in Limits, Configure(k, n)
    PROVE  Gate!SetLimit(k, n)
<1>1. Holders(k) = {}
    BY QuietGate DEF Configure, Resizable
<1>2. \A j \in Keys : Holders(j)' = Holders(j)
    BY DEF Configure, Holders
<1>3. PICK s \in Unreferenced : /\ slots' = [slots EXCEPT ![k] = s]
                                /\ limit' = [limit EXCEPT ![s] = n]
    BY DEF Configure
<1>4. s \in Slots /\ s # NoSlot /\ \A j \in Keys : slots[j] # s
    BY <1>3, LeaseAssumption DEF Unreferenced
<1>5. LimitOf(k)' = n
    BY <1>3, <1>4 DEF IInv, TypeOK, LimitOf
<1>6. \A j \in Keys : j # k => LimitOf(j)' = LimitOf(j)
    BY <1>3, <1>4 DEF IInv, TypeOK, LimitOf
<1> QED BY <1>1, <1>2, <1>5, <1>6 DEF Gate!SetLimit

LEMMA RemoveGate ==
    ASSUME IInv, NEW k \in Keys, Remove(k)
    PROVE  Gate!SetLimit(k, 0)
<1>1. Holders(k) = {}
    BY QuietGate DEF Remove, Removable
<1>2. \A j \in Keys : Holders(j)' = Holders(j)
    BY DEF Remove, Holders
<1>3. LimitOf(k)' = 0 /\ \A j \in Keys : j # k => LimitOf(j)' = LimitOf(j)
    BY DEF IInv, TypeOK, Remove, LimitOf
<1> QED BY <1>1, <1>2, <1>3 DEF Gate!SetLimit

\* A step of a task: the gate sees an admission, a dismissal, or nothing.
GateStep(t) ==
    \/ \E k \in Keys : Gate!Admit(k, t) \/ Gate!Dismiss(k, t)
    \/ UNCHANGED Gate!gateVars

LEMMA EnterGate ==
    ASSUME IInv, TypeOK', CapacityRespected', NEW t \in Tasks, NEW k \in Keys, Enter(t, k)
    PROVE  GateStep(t)
<1>1. OthersStay(t) /\ SameLimits /\ pc[t] \notin Inside
    BY DEF IInv, TypeOK, Enter, OthersStay, SameLimits, objects, Inside
<1>2. CASE pc'[t] \in Inside
    BY <1>1, <1>2, Admitted DEF GateStep
<1>3. CASE pc'[t] \notin Inside
    BY <1>1, <1>3, Unmoved DEF GateStep
<1> QED BY <1>2, <1>3

LEMMA PromoteGate ==
    ASSUME IInv, TypeOK', CapacityRespected', NEW t \in Tasks, Promote(t)
    PROVE  GateStep(t)
<1> DEFINE s == slot[t]
           woke == [value |-> value[s], pc |-> [pc EXCEPT ![t] = "inside"]]
           next == IF value[s] > 0 THEN WakeUpNext(s, woke) ELSE woke
<1>1. pc[t] = "woken" /\ slots[key[t]] = s
    BY DEF Promote, IInv, Shape, NoStrandedTask
<1>2. pc' = next.pc /\ key' = key /\ SameLimits
    BY <1>1 DEF Promote, SetSemaphore, SameLimits, objects
<1>3. woke.pc \in [Tasks -> Stages] /\ woke.pc = [pc EXCEPT ![t] = "inside"]
    BY DEF IInv, TypeOK, Stages, Inside
<1>4. \A u \in Tasks : next.pc[u] \in Inside <=> woke.pc[u] \in Inside
    BY <1>3, WakeUpAdmitsNobody
<1> HIDE DEF woke, next
<1>5. \A u \in Tasks : woke.pc[u] \in Inside <=> u = t \/ pc[u] \in Inside
    BY <1>3 DEF IInv, TypeOK, Inside
<1>6. OthersStay(t) /\ pc[t] \notin Inside /\ pc'[t] \in Inside
    BY <1>1, <1>2, <1>4, <1>5 DEF OthersStay, Inside
<1> QED BY <1>2, <1>6, Admitted DEF GateStep

LEMMA AbandonGate ==
    ASSUME IInv, NEW t \in Tasks, AbandonWait(t)
    PROVE  GateStep(t)
<1> DEFINE q == [pc EXCEPT ![t] = "idle"]
           sem == [value |-> value[slot[t]], pc |-> q]
<1>1. q \in [Tasks -> Stages]
    BY DEF IInv, TypeOK, Stages
<1>2. pc' = Give(slot[t], sem).pc \/ pc' = q
    BY DEF AbandonWait, SetSemaphore
<1>3. \A u \in Tasks : Give(slot[t], sem).pc[u] \in Inside <=> q[u] \in Inside
    BY <1>1, GiveAdmitsNobody
<1>4. pc[t] \notin Inside /\ key' = key /\ SameLimits
    BY DEF AbandonWait, SameLimits, objects, Inside
<1>5. \A u \in Tasks : q[u] \in Inside <=> pc[u] \in Inside
    BY <1>4 DEF IInv, TypeOK, Inside
<1> HIDE DEF q, sem
<1>6. OthersStay(t) /\ pc'[t] \notin Inside
    BY <1>2, <1>3, <1>4, <1>5 DEF OthersStay
<1> QED BY <1>4, <1>6, Unmoved DEF GateStep

LEMMA ReleaseGate ==
    ASSUME IInv, NEW t \in Tasks, Release(t)
    PROVE  GateStep(t)
<1> DEFINE q == [pc EXCEPT ![t] = "idle"]
           s == slots[key[t]]
           sem == [value |-> value[s], pc |-> q]
<1>1. q \in [Tasks -> Stages]
    BY DEF IInv, TypeOK, Stages
<1>2. pc' = Give(s, sem).pc \/ pc' = q
    BY DEF Release, SetSemaphore
<1>3. \A u \in Tasks : Give(s, sem).pc[u] \in Inside <=> q[u] \in Inside
    BY <1>1, GiveAdmitsNobody
<1>4. pc[t] \in Inside /\ key' = key /\ SameLimits
    BY DEF Release, SameLimits, objects, Inside
<1>5. \A u \in Tasks : q[u] \in Inside <=> u # t /\ pc[u] \in Inside
    BY DEF IInv, TypeOK, Inside
<1> HIDE DEF q, sem
<1>6. OthersStay(t) /\ pc'[t] \notin Inside
    BY <1>2, <1>3, <1>4, <1>5 DEF OthersStay
<1> QED BY <1>4, <1>6, Dismissed DEF GateStep

LEMMA CancelLeaveGate ==
    ASSUME IInv, NEW t \in Tasks, Cancel(t) \/ Leave(t)
    PROVE  GateStep(t)
<1>1. key' = key /\ SameLimits
    BY DEF Cancel, Leave, SameLimits, objects
<1>2. OthersStay(t) /\ (pc[t] \in Inside <=> pc'[t] \in Inside)
    BY DEF IInv, TypeOK, Cancel, Leave, OthersStay, Inside
<1> QED BY <1>1, <1>2, Unmoved DEF GateStep

-----------------------------------------------------------------------------
\* The lease manager implements the gate: whatever the order of releases,
\* cancellations and reconfigurations, its users see nothing but admissions
\* below the limit, dismissals, and limits that change on an empty gate.
THEOREM LeaseImplementsGate == Spec => ImplementsGate
<1>1. Init => Gate!GateInit
    BY LeaseAssumption DEF Init, Gate!GateInit, LimitOf, Holders, Inside
<1>2. ASSUME IInv, TypeOK', CapacityRespected', [Next]_vars
      PROVE  [Gate!GateNext]_(Gate!gateVars)
    <2>1. ASSUME NEW k \in Keys, NEW n \in Limits, Configure(k, n) PROVE Gate!GateNext
        BY <1>2, <2>1, ConfigureGate DEF Gate!GateNext
    <2>2. ASSUME NEW k \in Keys, Remove(k) PROVE Gate!GateNext
        BY <1>2, <2>2, RemoveGate DEF Gate!GateNext
    <2>3. ASSUME NEW t \in Tasks, GateStep(t) PROVE [Gate!GateNext]_(Gate!gateVars)
        BY <2>3 DEF GateStep, Gate!GateNext
    <2>4. ASSUME NEW t \in Tasks, NEW k \in Keys, Enter(t, k) PROVE GateStep(t)
        BY <1>2, <2>4, EnterGate
    <2>5. ASSUME NEW t \in Tasks,
                 Promote(t) \/ Cancel(t) \/ AbandonWait(t) \/ Leave(t) \/ Release(t)
          PROVE  GateStep(t)
        BY <1>2, <2>5, PromoteGate, AbandonGate, ReleaseGate, CancelLeaveGate
    <2>6. CASE UNCHANGED vars
        BY <2>6 DEF vars, Gate!gateVars, LimitOf, Holders
    <2> QED BY <1>2, <2>1, <2>2, <2>3, <2>4, <2>5, <2>6 DEF Next
<1>3. IInv => TypeOK
    BY DEF IInv
<1> QED BY <1>1, <1>2, <1>3, LeaseInvariant, LeaseCapacity, PTL
        DEF Spec, ImplementsGate, Gate!GateSpec
=============================================================================
