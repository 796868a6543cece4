---------------------- MODULE CollectorOperationProofs ----------------------
(***************************************************************************)
(* Theorems about CollectorOperation, for any identities, operations,      *)
(* limits, threshold, events and number of restarts.                       *)
(***************************************************************************)
EXTENDS CollectorOperation, FiniteSetTheorems, SequenceTheorems, TLAPS

In(o, s) == \E n \in 1..Len(s) : s[n] = o

Routed == Stages \ {"idle", "pending", "parked"}

\* What is known of an operation.
OpInv(o) ==
    /\ pc[o] \in Routed => on[o] \in Identities
    /\ o \in named => on[o] \in Identities /\ pc[o] # "idle"
    /\ pc[o] = "first" => In(o, line[on[o]])
    /\ pc[o] = "second" => In(o, line[Platform])
    /\ o \in paused => pc[o] \notin {"idle", "pending"}
    /\ pc[o] = "abandoning" => "abandon" \in Events
    /\ pc[o] \in Holds1 \cup {"first"} => row[on[o]] # None

LimitsMatch ==
    /\ limit[Platform] = policy
    /\ \A i \in Identities :
          /\ limit[i] = 0 <=> row[i] = None
          /\ row[i] # None => limit[i] = row[i].max \/ i \in overrun

\* Nobody waits for the lease of an identity without a row.
NoLine(l) == \A i \in Identities : row[i] = None => l[i] = <<>>

IInv == /\ TypeOK /\ LimitsMatch /\ NoLine(line)
        /\ \A o \in Ops : OpInv(o)
        /\ DisabledShown /\ ActiveSettles

-----------------------------------------------------------------------------
(* Lemmas on sequences.                                                    *)

\* The order of the natural numbers is well founded.
LEMMA OrderOfNat ==
    \E R : IsWellFoundedOn(R, Nat) /\ \A x, y \in Nat : y < x => <<y, x>> \in R
<1> DEFINE R == OpToRel(<, Nat)
<1>1. IsWellFoundedOn(R, Nat)
    BY Zenon, NatLessThanWellFounded
<1>2. \A x, y \in Nat : y < x => <<y, x>> \in R
    BY DEF OpToRel
<1> HIDE DEF R
<1> QED BY <1>1, <1>2

\* A non-empty set of natural numbers has a least one.
LEMMA LeastNumber ==
    ASSUME NEW T, T \subseteq Nat, T # {}
    PROVE  Min(T) \in T /\ \A y \in T : Min(T) <= y
<1>1. PICK R : IsWellFoundedOn(R, Nat) /\ \A x, y \in Nat : y < x => <<y, x>> \in R
    BY OrderOfNat
<1>2. PICK x \in T : \A y \in T : ~ (<<y, x>> \in R)
    BY <1>1, WFMin
<1>3. ASSUME NEW y \in T PROVE x <= y
    <2>1. x \in Nat /\ y \in Nat
        OBVIOUS
    <2>2. ~ (y < x)
        BY <1>1, <1>2, <2>1
    <2> QED BY <2>1, <2>2
<1> QED BY <1>3 DEF Min

\* RemoveFirst leaves the other members in the sequence.
LEMMA FirstRemoved ==
    ASSUME NEW S, NEW s \in Seq(S), NEW e
    PROVE  /\ RemoveFirst(s, e) \in Seq(S)
           /\ \A n \in 1..Len(s) : s[n] # e =>
                 \E m \in 1..Len(RemoveFirst(s, e)) : RemoveFirst(s, e)[m] = s[n]
<1>1. CASE ~\E i \in 1..Len(s) : s[i] = e
    BY <1>1 DEF RemoveFirst
<1>2. CASE \E i \in 1..Len(s) : s[i] = e
    <2> DEFINE I == {i \in 1..Len(s) : s[i] = e}
               p == Min(I)
               r == RemoveFirst(s, e)
    <2>1. p \in 1..Len(s) /\ s[p] = e
        <3>1. I \subseteq Nat /\ I # {}
            BY <1>2
        <3>2. p \in I
            BY <3>1, LeastNumber
        <3> QED BY <3>2
    <2>2. SelectInSeq(s, LAMBDA v : v = e) = p
        BY <1>2 DEF SelectInSeq
    <2>3. r = SubSeq(s, 1, p - 1) \o SubSeq(s, p + 1, Len(s))
        BY <1>2, <2>2 DEF RemoveFirst, RemoveAt
    <2> HIDE DEF p, r
    <2>4. /\ r \in Seq(S) /\ Len(r) = Len(s) - 1
          /\ \A n \in 1..p-1 : r[n] = s[n]
          /\ \A n \in p..Len(s)-1 : r[n] = s[n + 1]
        <3> DEFINE a == SubSeq(s, 1, p - 1)
                   b == SubSeq(s, p + 1, Len(s))
        <3>1. /\ a \in Seq(S) /\ Len(a) = p - 1 /\ \A n \in 1..p-1 : a[n] = s[n]
              /\ b \in Seq(S) /\ Len(b) = Len(s) - p /\ \A n \in 1..Len(s)-p : b[n] = s[p + n]
            BY <2>1
        <3> HIDE DEF a, b
        <3>2. /\ r \in Seq(S) /\ Len(r) = Len(s) - 1
              /\ \A n \in 1..p-1 : r[n] = a[n]
              /\ \A n \in p..Len(s)-1 : r[n] = b[n - (p - 1)]
            <4>1. r = a \o b
                BY <2>3 DEF a, b
            <4>2. /\ a \o b \in Seq(S) /\ Len(a \o b) = Len(a) + Len(b)
                  /\ \A n \in 1..Len(a) + Len(b) :
                        (a \o b)[n] = IF n <= Len(a) THEN a[n] ELSE b[n - Len(a)]
                BY <3>1, ConcatProperties
            <4> QED BY <2>1, <3>1, <4>1, <4>2
        <3> QED BY <2>1, <3>1, <3>2
    <2>5. ASSUME NEW n \in 1..Len(s), s[n] # e
          PROVE  \E m \in 1..Len(r) : r[m] = s[n]
        <3>1. CASE n < p
            BY <3>1, <2>1, <2>4
        <3>2. CASE n > p
            <4>1. n - 1 \in 1..Len(r) /\ r[n - 1] = s[n]
                BY <3>2, <2>1, <2>4
            <4> QED BY <4>1
        <3>3. n # p
            BY <2>5, <2>1
        <3> QED BY <3>1, <3>2, <3>3, <2>1
    <2> QED BY <2>4, <2>5 DEF r
<1> QED BY <1>1, <1>2

LEMMA EmptyLine == ASSUME NEW o PROVE ~In(o, <<>>)
BY DEF In

\* The first of a line leaves it; the others stay.
LEMMA TailIn ==
    ASSUME NEW S, NEW s \in Seq(S), s # <<>>
    PROVE  /\ Tail(s) \in Seq(S)
           /\ \A u : In(u, s) /\ u # Head(s) => In(u, Tail(s))
<1>1. ASSUME NEW u, NEW n \in 1..Len(s), s[n] = u, u # Head(s)
      PROVE  n - 1 \in 1..Len(Tail(s)) /\ Tail(s)[n - 1] = u
    BY <1>1
<1> QED BY <1>1 DEF In

\* Who joins a line is in it; the others stay.
LEMMA AppendIn ==
    ASSUME NEW S, NEW s \in Seq(S), NEW o \in S
    PROVE  /\ Append(s, o) \in Seq(S)
           /\ In(o, Append(s, o))
           /\ \A u : In(u, s) => In(u, Append(s, o))
<1>1. Len(s) + 1 \in 1..Len(Append(s, o)) /\ Append(s, o)[Len(s) + 1] = o
    OBVIOUS
<1>2. ASSUME NEW u, NEW n \in 1..Len(s), s[n] = u
      PROVE  n \in 1..Len(Append(s, o)) /\ Append(s, o)[n] = u
    BY <1>2
<1> QED BY <1>1, <1>2 DEF In

LEMMA RemoveIn ==
    ASSUME NEW S, NEW s \in Seq(S), NEW o
    PROVE  /\ RemoveFirst(s, o) \in Seq(S)
           /\ \A u : In(u, s) /\ u # o => In(u, RemoveFirst(s, o))
BY FirstRemoved DEF In

-----------------------------------------------------------------------------
(* Rows.                                                                   *)

LEMMA HealthRow ==
    ASSUME NEW r \in Rows, NEW a \in 0..Cardinality(Ops), NEW res \in Results,
           r.status = "disabled" <=> ~r.enabled
    PROVE  LET h == Health(r, a, res)
           IN  /\ h \in Rows /\ h # None /\ h.max = r.max /\ h.active = a
               /\ h.status = "disabled" <=> ~h.enabled
               /\ r.cooldown # "future" /\ h.cooldown = "future"
                     => h.failures = Threshold /\ res \in Misses
               /\ r.cooldown = "future" /\ h.cooldown = "" => res.success
<1> DEFINE healthy == res.success /\ ~res.close_failed
           healed  == IF healthy THEN [r EXCEPT !.status = "healthy", !.failures = 0,
                                                !.cooldown = ""] ELSE r
           blamed  == res.failure /\ (~res.success \/ res.close_failed)
           n == Failed(r)
           worse == IF ~blamed THEN healed
                    ELSE [healed EXCEPT !.failures = n,
                             !.status = IF n = Threshold THEN "cooldown" ELSE "warning",
                             !.cooldown = IF n = Threshold THEN "future" ELSE @]
           h == Saved([worse EXCEPT !.active = a])
<1>1. h = Health(r, a, res)
    BY DEF Health
<1>2. /\ healed \in Rows /\ healed.max = r.max /\ healed.enabled = r.enabled
      /\ healed.cooldown = r.cooldown \/ (healthy /\ healed.cooldown = "")
      /\ healed.status \in {r.status, "healthy"}
    <2>1. CASE healthy
        <3>1. healed = [r EXCEPT !.status = "healthy", !.failures = 0, !.cooldown = ""]
            BY <2>1
        <3>2. 0 \in 0..Threshold
            BY OperationAssumption
        <3> QED BY <2>1, <3>1, <3>2 DEF Rows, Statuses
    <2>2. CASE ~healthy
        BY <2>2
    <2> QED BY <2>1, <2>2
<1>3. n \in 0..Threshold
    <2>1. r.failures \in 0..Threshold /\ Threshold \in Nat
        BY OperationAssumption DEF Rows
    <2> QED BY <2>1 DEF Failed
<1> HIDE DEF healed, n
<1>4. /\ worse \in Rows /\ worse.max = r.max /\ worse.enabled = r.enabled
      /\ \/ worse.cooldown = healed.cooldown
         \/ blamed /\ worse.cooldown = "future" /\ worse.failures = Threshold
      /\ worse.status \in {r.status, "healthy", "cooldown", "warning"}
    <2>1. CASE blamed
        <3> DEFINE w == [healed EXCEPT !.failures = n,
                             !.status = IF n = Threshold THEN "cooldown" ELSE "warning",
                             !.cooldown = IF n = Threshold THEN "future" ELSE @]
        <3>1. w \in Rows /\ w.max = healed.max /\ w.enabled = healed.enabled
              /\ w.failures = n /\ (n = Threshold => w.cooldown = "future")
              /\ (n # Threshold => w.cooldown = healed.cooldown)
              /\ w.status \in {"cooldown", "warning"}
            BY <1>2, <1>3 DEF Rows, Statuses
        <3>2. worse = w
            BY <2>1
        <3> QED BY <1>2, <2>1, <3>1, <3>2
    <2>2. CASE ~blamed
        BY <1>2, <2>2
    <2> QED BY <2>1, <2>2
<1> HIDE DEF worse
<1>5. /\ h \in Rows /\ h.max = r.max /\ h.active = a /\ h.enabled = r.enabled
      /\ h.cooldown = worse.cooldown /\ h.failures = worse.failures
      /\ h.status = "disabled" <=> ~h.enabled
    <2> DEFINE w == [worse EXCEPT !.active = a]
    <2>1. /\ w \in Rows /\ w.max = r.max /\ w.active = a /\ w.enabled = r.enabled
          /\ w.cooldown = worse.cooldown /\ w.failures = worse.failures
          /\ w.status = worse.status
        BY <1>4 DEF Rows
    <2> HIDE DEF w
    <2>2. h = [w EXCEPT !.status = IF w.enabled THEN @ ELSE "disabled"]
        BY DEF w, Saved
    <2>4. w.enabled => w.status # "disabled"
        BY <1>4, <2>1
    <2>5. /\ h \in Rows /\ h.max = w.max /\ h.active = w.active /\ h.enabled = w.enabled
          /\ h.cooldown = w.cooldown /\ h.failures = w.failures
          /\ h.status = IF w.enabled THEN w.status ELSE "disabled"
        BY <2>1, <2>2 DEF Rows, Statuses
    <2> HIDE DEF h
    <2> QED BY <2>1, <2>4, <2>5
<1> HIDE DEF h
<1>6. res \in Misses <=> blamed
    BY DEF Misses, Results
<1> QED BY <1>1, <1>2, <1>4, <1>5, <1>6, RowAssumption

LEMMA UpsertedRow ==
    ASSUME NEW r \in Rows \cup {None}, NEW enabled \in BOOLEAN, NEW max \in Limits,
           r # None => (r.status = "disabled" <=> ~r.enabled)
    PROVE  LET u == Upserted(r, enabled, max)
           IN  /\ u \in Rows /\ u # None /\ u.max = max
               /\ u.status = "disabled" <=> ~u.enabled
               /\ r = None => u.active = 0
               /\ r # None => u.active = r.active /\ u.cooldown = r.cooldown
<1>1. Cardinality(Ops) \in Nat
    BY OperationAssumption, FS_CardinalityType
<1> DEFINE u == Upserted(r, enabled, max)
<1>2. CASE r = None
    <2>1. u = [enabled |-> enabled, max |-> max, active |-> 0, failures |-> 0,
               cooldown |-> "", status |-> IF enabled THEN "untested" ELSE "disabled"]
        BY <1>2 DEF Upserted
    <2>2. 0 \in 0..Cardinality(Ops) /\ 0 \in 0..Threshold
        BY <1>1, OperationAssumption
    <2> HIDE DEF u
    <2>3. u \in Rows /\ u.max = max /\ u.active = 0 /\ u.enabled = enabled
        BY <2>1, <2>2 DEF Rows, Statuses
    <2>4. u.status = "disabled" <=> ~enabled
        BY <2>1
    <2> QED BY <1>2, <2>3, <2>4, RowAssumption DEF u
<1>3. CASE r # None
    <2>1. u = [r EXCEPT !.enabled = enabled, !.max = max,
                  !.status = IF ~enabled THEN "disabled"
                             ELSE IF @ = "disabled" THEN "untested" ELSE @]
        BY <1>3 DEF Upserted
    <2>2. r \in Rows
        BY <1>3
    <2> HIDE DEF u
    <2>3. u \in Rows /\ u.max = max /\ u.enabled = enabled
        BY <2>1, <2>2 DEF Rows, Statuses
    <2>4. u.active = r.active /\ u.cooldown = r.cooldown
        BY <2>1, <2>2 DEF Rows
    <2>5. u.status = "disabled" <=> ~enabled
        BY <2>1, <2>2 DEF Rows
    <2> QED BY <1>3, <2>3, <2>4, <2>5, RowAssumption DEF u
<1> QED BY <1>2, <1>3

-----------------------------------------------------------------------------
(* Frames: what a step has to show, given what it leaves alone.            *)

\* A step that writes the row of one identity, and its limit with it, unless
\* it leaves the identity in overrun.
LEMMA RowFrame ==
    ASSUME IInv, NEW i \in Identities, NEW r \in Rows, SetRow(i, r),
           NEW n \in Limits, limit' = [limit EXCEPT ![i] = n],
           overrun' \subseteq Identities, overrun' \ {i} = overrun \ {i},
           n = r.max \/ i \in overrun',
           r.status = "disabled" <=> ~r.enabled,
           r.active > 0 => row[i] # None /\ row[i].active > 0,
           UNCHANGED <<policy, line, pc, on, named, paused, result, restarts>>
    PROVE  IInv'
<1>1. row' = [row EXCEPT ![i] = r] /\ r # None /\ row'[i] = r
    BY RowAssumption DEF SetRow, IInv, TypeOK
<1>2. \A j \in Identities : j # i => row'[j] = row[j] /\ limit'[j] = limit[j]
    BY <1>1 DEF IInv, TypeOK
<1>3. limit'[i] = n /\ n # 0 /\ limit'[Platform] = limit[Platform]
    BY OperationAssumption DEF IInv, TypeOK
<1>4. TypeOK'
    BY <1>1 DEF IInv, TypeOK
<1>5. LimitsMatch'
    <2>1. limit'[Platform] = policy'
        BY <1>3 DEF IInv, LimitsMatch
    <2>2. ASSUME NEW j \in Identities, j # i
          PROVE  /\ limit'[j] = 0 <=> row'[j] = None
                 /\ row'[j] # None => limit'[j] = row'[j].max \/ j \in overrun'
        <3>1. j \in overrun => j \in overrun'
            BY <2>2
        <3> QED BY <1>2, <2>2, <3>1 DEF IInv, LimitsMatch
    <2> QED BY <1>1, <1>3, <2>1, <2>2 DEF LimitsMatch
<1>6. ASSUME NEW o \in Ops PROVE OpInv(o)'
    <2>1. \A k : row[k] # None /\ k \in Identities => row'[k] # None
        BY <1>1, <1>2
    <2>2. OpInv(o)
        BY DEF IInv
    <2> QED BY <2>1, <2>2 DEF OpInv, Routed, Holds1, Stages
<1>7. DisabledShown'
    BY <1>1, <1>2 DEF IInv, DisabledShown
<1>8. ActiveSettles'
    BY <1>1, <1>2 DEF IInv, ActiveSettles
<1>9. NoLine(line)'
    BY <1>1, <1>2 DEF IInv, NoLine
<1> QED BY <1>4, <1>5, <1>6, <1>7, <1>8, <1>9 DEF IInv

\* Where an operation has to be that a row counts as active.
Counted == Holds1 \cup {"accounting"}

\* Only the limit of the operation's identity is touched, to put its row's in force.
Configures(o) ==
    \/ UNCHANGED <<limit, overrun>>
    \/ /\ on[o] \in Identities /\ row[on[o]] # None
       /\ limit' = [limit EXCEPT ![on[o]] = row[on[o]].max]
       /\ overrun' = overrun \ {on[o]}

LEMMA ConfiguresType ==
    ASSUME IInv, NEW o \in Ops, Configures(o)
    PROVE  limit' \in [Identities \cup {Platform} -> Limits \cup {0}] /\ overrun' \subseteq Identities
<1>1. CASE UNCHANGED <<limit, overrun>>
    BY <1>1 DEF IInv, TypeOK
<1>2. CASE /\ on[o] \in Identities /\ row[on[o]] # None
           /\ limit' = [limit EXCEPT ![on[o]] = row[on[o]].max]
           /\ overrun' = overrun \ {on[o]}
    <2>1. row[on[o]].max \in Limits
        BY <1>2 DEF IInv, TypeOK, Rows
    <2> QED BY <1>2, <2>1 DEF IInv, TypeOK
<1> QED BY <1>1, <1>2 DEF Configures

LEMMA ConfiguresMatch ==
    ASSUME IInv, NEW o \in Ops, Configures(o), policy' = policy,
           \A i \in Identities : /\ row'[i] = None <=> row[i] = None
                                 /\ row[i] # None => row'[i].max = row[i].max
    PROVE  LimitsMatch'
<1>1. CASE UNCHANGED <<limit, overrun>>
    BY <1>1 DEF IInv, LimitsMatch
<1>2. CASE /\ on[o] \in Identities /\ row[on[o]] # None
           /\ limit' = [limit EXCEPT ![on[o]] = row[on[o]].max]
           /\ overrun' = overrun \ {on[o]}
    <2> DEFINE k == on[o]
    <2>1. k # Platform /\ row[k].max \in Limits /\ row[k].max # 0
        <3>1. row[k] \in Rows
            BY <1>2 DEF IInv, TypeOK
        <3>2. row[k].max \in Limits
            BY <3>1 DEF Rows
        <3> QED BY <1>2, <3>2, OperationAssumption
    <2>2. limit'[Platform] = policy'
        BY <1>2, <2>1 DEF IInv, TypeOK, LimitsMatch
    <2>3. limit'[k] = row[k].max
        BY <1>2 DEF IInv, TypeOK
    <2>4. ASSUME NEW j \in Identities, j # k
          PROVE  /\ limit'[j] = 0 <=> row'[j] = None
                 /\ row'[j] # None => limit'[j] = row'[j].max \/ j \in overrun'
        <3>1. limit'[j] = limit[j] /\ (j \in overrun => j \in overrun')
            BY <1>2, <2>4 DEF IInv, TypeOK
        <3> HIDE DEF k
        <3> QED BY <3>1 DEF IInv, LimitsMatch
    <2> QED BY <1>2, <2>1, <2>2, <2>3, <2>4 DEF LimitsMatch
<1> QED BY <1>1, <1>2 DEF Configures

\* A step of one operation.
LEMMA OpFrame ==
    ASSUME IInv, NEW o \in Ops, TypeOK', OpInv(o)', DisabledShown', ActiveSettles',
           Configures(o), UNCHANGED policy, NoLine(line'),
           \A i \in Identities : /\ row'[i] = None <=> row[i] = None
                                 /\ row[i] # None => row'[i].max = row[i].max,
           \A u \in Ops \ {o} : /\ pc'[u] = pc[u] /\ on'[u] = on[u]
                                /\ u \in named' => u \in named
                                /\ u \in paused' => u \in paused
                                /\ \A k \in Identities \cup {Platform} :
                                      In(u, line[k]) => In(u, line'[k])
    PROVE  IInv'
<1>1. LimitsMatch'
    BY ConfiguresMatch
<1>2. ASSUME NEW u \in Ops, u # o PROVE OpInv(u)'
    <2>1. OpInv(u)
        BY DEF IInv
    <2>2. In(u, line[Platform]) => In(u, line'[Platform])
        BY <1>2
    <2>3. on[u] \in Identities => (In(u, line[on[u]]) => In(u, line'[on[u]]))
        BY <1>2
    <2>4. on[u] \in Identities => (row[on[u]] # None => row'[on[u]] # None)
        OBVIOUS
    <2> QED BY <1>2, <2>1, <2>2, <2>3, <2>4 DEF OpInv, Routed, Holds1, Stages
<1>3. NoLine(line)'
    BY DEF NoLine
<1> QED BY <1>1, <1>2, <1>3 DEF IInv

\* A step of an operation that leaves the rows alone.
LEMMA QuietFrame ==
    ASSUME IInv, NEW o \in Ops, TypeOK', OpInv(o)',
           Configures(o), UNCHANGED <<row, policy>>, NoLine(line'),
           pc[o] \in Counted /\ "abandon" \notin Events
               => pc'[o] \in Counted /\ on'[o] = on[o],
           \A u \in Ops \ {o} : /\ pc'[u] = pc[u] /\ on'[u] = on[u]
                                /\ u \in named' => u \in named
                                /\ u \in paused' => u \in paused
                                /\ \A k \in Identities \cup {Platform} :
                                      In(u, line[k]) => In(u, line'[k])
    PROVE  IInv'
<1>1. DisabledShown'
    BY DEF IInv, DisabledShown
<1>2. ActiveSettles'
    BY DEF IInv, ActiveSettles, Counted
<1> QED BY <1>1, <1>2, OpFrame

LEMMA SavedRow ==
    ASSUME NEW r \in Rows, r.status # "disabled"
    PROVE  LET s == Saved(r)
           IN  /\ s \in Rows /\ s.max = r.max /\ s.active = r.active
               /\ s.status = "disabled" <=> ~s.enabled
<1> DEFINE s == Saved(r)
<1>1. s = [r EXCEPT !.status = IF r.enabled THEN @ ELSE "disabled"]
    BY DEF Saved
<1>2. /\ s \in Rows /\ s.max = r.max /\ s.active = r.active /\ s.enabled = r.enabled
      /\ s.status = IF r.enabled THEN r.status ELSE "disabled"
    BY <1>1 DEF Rows, Statuses
<1> HIDE DEF s
<1> QED BY <1>2 DEF s

-----------------------------------------------------------------------------
(* The routes.                                                             *)

\* Nobody waits for or holds the lease of an identity without a row.
LEMMA NobodyUses ==
    ASSUME IInv, NEW i \in Identities, InUse(i)
    PROVE  row[i] # None
<1>1. i # Platform /\ i # None
    BY OperationAssumption
<1>2. CASE Holders(i) # {}
    <2>1. PICK o \in Ops : pc[o] \in Holds1 /\ on[o] = i
        BY <1>1, <1>2 DEF Holders, Gate
    <2> QED BY <2>1 DEF IInv, OpInv
<1>3. CASE line[i] # <<>>
    BY <1>3 DEF IInv, NoLine
<1> QED BY <1>2, <1>3 DEF InUse

LEMMA CreateKeeps ==
    ASSUME IInv, NEW i \in Identities, Create(i) PROVE IInv'
<1>1. PICK max \in Limits, enabled \in BOOLEAN :
          /\ SetRow(i, Upserted(row[i], enabled, max))
          /\ IF Configurable(i, max)
             THEN limit' = [limit EXCEPT ![i] = max] /\ overrun' = overrun \ {i}
             ELSE overrun' = overrun \cup {i} /\ UNCHANGED limit
          /\ UNCHANGED <<policy, line, pc, on, named, paused, result, restarts>>
    BY DEF Create
<1> DEFINE r == Upserted(row[i], enabled, max)
<1>2. row[i] \in Rows \cup {None} /\ (row[i] # None => (row[i].status = "disabled" <=> ~row[i].enabled))
    BY DEF IInv, TypeOK, DisabledShown
<1>3. /\ r \in Rows /\ r.max = max /\ (r.status = "disabled" <=> ~r.enabled)
      /\ row[i] = None => r.active = 0
      /\ row[i] # None => r.active = row[i].active
    BY <1>2, UpsertedRow
<1> HIDE DEF r
<1>4. r.active > 0 => row[i] # None /\ row[i].active > 0
    BY <1>3
<1>5. SetRow(i, r)
    BY <1>1 DEF r
<1>6. CASE Configurable(i, max)
    <2>1. limit' = [limit EXCEPT ![i] = max] /\ overrun' = overrun \ {i}
        BY <1>1, <1>6
    <2>2. overrun' \subseteq Identities /\ overrun' \ {i} = overrun \ {i}
        BY <2>1 DEF IInv, TypeOK
    <2> QED BY <1>1, <1>3, <1>4, <1>5, <2>1, <2>2, RowFrame
<1>7. CASE ~Configurable(i, max)
    <2>1. overrun' = overrun \cup {i} /\ UNCHANGED limit
        BY <1>1, <1>7
    <2>2. overrun' \subseteq Identities /\ overrun' \ {i} = overrun \ {i} /\ i \in overrun'
        BY <2>1 DEF IInv, TypeOK
    <2>3. row[i] # None
        BY <1>7, NobodyUses DEF Configurable
    <2>4. limit[i] \in Limits /\ limit' = [limit EXCEPT ![i] = limit[i]]
        BY <2>1, <2>3 DEF IInv, TypeOK, LimitsMatch
    <2> QED BY <1>1, <1>3, <1>4, <1>5, <2>2, <2>4, RowFrame
<1> QED BY <1>6, <1>7

LEMMA UpdateKeeps ==
    ASSUME IInv, NEW i \in Identities, Update(i) PROVE IInv'
<1>1. PICK max \in Limits, enabled \in BOOLEAN :
          /\ row[i] # None /\ SetRow(i, Upserted(row[i], enabled, max))
          /\ limit' = [limit EXCEPT ![i] = max] /\ overrun' = overrun \ {i}
          /\ UNCHANGED <<policy, line, pc, on, named, paused, result, restarts>>
    BY DEF Update
<1>2. row[i] \in Rows \cup {None} /\ (row[i].status = "disabled" <=> ~row[i].enabled)
    BY <1>1 DEF IInv, TypeOK, DisabledShown
<1>3. overrun' \subseteq Identities /\ overrun' \ {i} = overrun \ {i}
    BY <1>1 DEF IInv, TypeOK
<1> DEFINE r == Upserted(row[i], enabled, max)
<1>4. r \in Rows /\ r.max = max /\ (r.status = "disabled" <=> ~r.enabled) /\ r.active = row[i].active
    BY <1>1, <1>2, UpsertedRow
<1> HIDE DEF r
<1>5. SetRow(i, r)
    BY <1>1 DEF r
<1> QED BY <1>1, <1>3, <1>4, <1>5, RowFrame

\* The row of an identity is written, its limit and its count are not.
LEMMA ShownKeeps ==
    ASSUME IInv, NEW i \in Identities, row[i] # None, NEW r \in Rows, SetRow(i, r),
           r.max = row[i].max, r.active = row[i].active,
           r.status = "disabled" <=> ~r.enabled,
           UNCHANGED <<policy, limit, line, pc, on, named, paused, result, restarts, overrun>>
    PROVE  IInv'
<1>1. limit[i] \in Limits /\ limit' = [limit EXCEPT ![i] = limit[i]]
    BY DEF IInv, TypeOK, LimitsMatch
<1>2. limit[i] = r.max \/ i \in overrun'
    BY DEF IInv, LimitsMatch
<1>3. overrun' \subseteq Identities /\ overrun' \ {i} = overrun \ {i}
    BY DEF IInv, TypeOK
<1> QED BY <1>1, <1>2, <1>3, RowFrame

LEMMA ProbedKeeps ==
    ASSUME IInv, NEW i \in Identities, Probed(i) PROVE IInv'
<1>1. row[i] # None /\ row[i] \in Rows
    BY DEF Probed, IInv, TypeOK
<1>2. UNCHANGED <<policy, limit, line, pc, on, named, paused, result, restarts, overrun>>
    BY DEF Probed
<1>3. CASE ProbeAnswered(i)
    <2> DEFINE q == [row[i] EXCEPT !.status = "pending_check"]
               r == Saved(q)
    <2>1. SetRow(i, r)
        BY <1>3 DEF ProbeAnswered
    <2>2. /\ q \in Rows /\ q.max = row[i].max /\ q.active = row[i].active
          /\ q.status # "disabled"
        BY <1>1 DEF Rows, Statuses
    <2> HIDE DEF q
    <2> QED BY <1>1, <1>2, <2>1, <2>2, SavedRow, ShownKeeps
<1>4. CASE ProbeFailed(i)
    <2> DEFINE n == Failed(row[i])
               q == [row[i] EXCEPT !.status = "warning", !.failures = n]
               r == Saved(q)
    <2>1. SetRow(i, r)
        BY <1>4 DEF ProbeFailed
    <2>2. n \in 0..Threshold
        <3>1. row[i].failures \in 0..Threshold /\ Threshold \in Nat
            BY <1>1, OperationAssumption DEF Rows
        <3> QED BY <3>1 DEF Failed
    <2> HIDE DEF n
    <2>3. /\ q \in Rows /\ q.max = row[i].max /\ q.active = row[i].active
          /\ q.status # "disabled"
        BY <1>1, <2>2 DEF Rows, Statuses
    <2> HIDE DEF q
    <2> QED BY <1>1, <1>2, <2>1, <2>3, SavedRow, ShownKeeps
<1> QED BY <1>3, <1>4 DEF Probed

LEMMA CooldownElapsesKeeps ==
    ASSUME IInv, NEW i \in Identities, CooldownElapses(i) PROVE IInv'
<1> DEFINE r == [row[i] EXCEPT !.cooldown = "past"]
<1>1. /\ row[i] # None /\ row[i] \in Rows
      /\ row[i].status = "disabled" <=> ~row[i].enabled
    BY DEF CooldownElapses, IInv, TypeOK, DisabledShown
<1>2. /\ r \in Rows /\ r.max = row[i].max /\ r.active = row[i].active
      /\ r.status = row[i].status /\ r.enabled = row[i].enabled
    BY <1>1 DEF Rows
<1>3. SetRow(i, r) /\ UNCHANGED <<policy, limit, line, pc, on, named, paused, result, restarts, overrun>>
    BY DEF CooldownElapses
<1> HIDE DEF r
<1> QED BY <1>1, <1>2, <1>3, ShownKeeps

LEMMA ConfirmTargetKeeps ==
    ASSUME IInv, NEW o \in Ops, ConfirmTarget(o) PROVE IInv'
<1> DEFINE i == on[o]
           r == [row[i] EXCEPT !.status = "healthy", !.failures = 0]
<1>1. i \in Identities /\ row[i] # None /\ row[i] \in Rows
    BY DEF ConfirmTarget, IInv, TypeOK, OpInv, Routed, Stages, Holds1
<1>2. row[i].status = "disabled" <=> ~row[i].enabled
    BY <1>1 DEF IInv, DisabledShown
<1>3. row[i].status # "disabled" /\ SetRow(i, r)
      /\ UNCHANGED <<policy, limit, line, pc, on, named, paused, result, restarts, overrun>>
    BY DEF ConfirmTarget
<1>4. 0 \in 0..Threshold
    BY OperationAssumption
<1>5. /\ r \in Rows /\ r.max = row[i].max /\ r.active = row[i].active
      /\ r.status = "healthy" /\ r.enabled = row[i].enabled
    BY <1>1, <1>4 DEF Rows, Statuses
<1> HIDE DEF i, r
<1> QED BY <1>1, <1>2, <1>3, <1>5, ShownKeeps

\* Nobody waits for or holds the lease of an identity that is deleted.
LEMMA DeleteKeeps ==
    ASSUME IInv, NEW i \in Identities, Delete(i) PROVE IInv'
<1>1. /\ row' = [row EXCEPT ![i] = None] /\ limit' = [limit EXCEPT ![i] = 0]
      /\ ~InUse(i) /\ overrun' = overrun \ {i}
      /\ UNCHANGED <<policy, line, pc, on, named, paused, result, restarts>>
    BY DEF Delete, SetRow
<1>2. i # Platform
    BY OperationAssumption
<1>3. TypeOK'
    BY <1>1 DEF IInv, TypeOK
<1>4. LimitsMatch'
    <2>1. limit'[Platform] = policy' /\ limit'[i] = 0 /\ row'[i] = None
        BY <1>1, <1>2 DEF IInv, TypeOK, LimitsMatch
    <2>2. ASSUME NEW j \in Identities, j # i
          PROVE  /\ limit'[j] = 0 <=> row'[j] = None
                 /\ row'[j] # None => limit'[j] = row'[j].max \/ j \in overrun'
        <3>1. limit'[j] = limit[j] /\ row'[j] = row[j] /\ (j \in overrun => j \in overrun')
            BY <1>1, <2>2 DEF IInv, TypeOK
        <3> QED BY <3>1 DEF IInv, LimitsMatch
    <2> QED BY <2>1, <2>2 DEF LimitsMatch
<1>5. ASSUME NEW o \in Ops PROVE OpInv(o)'
    <2>1. OpInv(o) /\ on[o] \in Identities \cup {None} /\ None \notin Identities
        BY OperationAssumption DEF IInv, TypeOK
    <2>2. on[o] = i => pc[o] \notin Holds1 \cup {"first"}
        BY <1>1, <2>1, EmptyLine DEF InUse, Holders, Gate, OpInv
    <2>4. on[o] # i => row'[on[o]] = row[on[o]] \/ on[o] = None
        BY <1>1, <2>1 DEF IInv, TypeOK
    <2>5. pc'[o] = pc[o] /\ on'[o] = on[o] /\ line' = line /\ named' = named /\ paused' = paused
        BY <1>1
    <2>6. pc[o] \in Holds1 \cup {"first"} => on[o] \in Identities
        BY <2>1 DEF OpInv, Routed, Stages, Holds1
    <2>7. pc[o] \in Holds1 \cup {"first"} => row'[on[o]] # None
        BY <2>1, <2>2, <2>4, <2>6 DEF OpInv
    <2> QED BY <2>1, <2>5, <2>7 DEF OpInv
<1>6. DisabledShown' /\ ActiveSettles'
    BY <1>1 DEF IInv, TypeOK, DisabledShown, ActiveSettles
<1>7. NoLine(line)'
    BY <1>1 DEF IInv, TypeOK, NoLine, InUse
<1> QED BY <1>3, <1>4, <1>5, <1>6, <1>7 DEF IInv

LEMMA UpdatePolicyKeeps ==
    ASSUME IInv, UpdatePolicy PROVE IInv'
<1>1. PICK n \in Limits :
          /\ limit' = [limit EXCEPT ![Platform] = n] /\ policy' = n
          /\ UNCHANGED <<row, line, pc, on, named, paused, result, restarts, overrun>>
    BY DEF UpdatePolicy
<1>2. TypeOK'
    BY <1>1 DEF IInv, TypeOK
<1>3. LimitsMatch'
    <2>1. limit'[Platform] = policy' /\ \A j \in Identities : limit'[j] = limit[j]
        BY <1>1, OperationAssumption DEF IInv, TypeOK
    <2> QED BY <1>1, <2>1 DEF IInv, LimitsMatch
<1>4. (\A o \in Ops : OpInv(o))' /\ DisabledShown' /\ ActiveSettles' /\ NoLine(line)'
    BY <1>1 DEF IInv, OpInv, DisabledShown, ActiveSettles, NoLine
<1> QED BY <1>2, <1>3, <1>4 DEF IInv

-----------------------------------------------------------------------------
(* The operations.                                                         *)

LEMMA HoldersCount ==
    ASSUME NEW k
    PROVE  Cardinality(Holders(k)) \in 0..Cardinality(Ops)
<1>1. Holders(k) \subseteq Ops
    BY DEF Holders
<1>2. /\ IsFiniteSet(Holders(k)) /\ Cardinality(Holders(k)) <= Cardinality(Ops)
      /\ Cardinality(Ops) \in Nat
    BY <1>1, OperationAssumption, FS_Subset, FS_CardinalityType
<1> QED BY <1>2, FS_CardinalityType

\* The snapshot of an operation that enters counts it and the others.
LEMMA ActiveAfterCount ==
    ASSUME NEW o \in Ops
    PROVE  ActiveAfter(o) \in 0..Cardinality(Ops)
<1> DEFINE H == {u \in Ops \ {o} : pc[u] \in Holds1 /\ on[u] = on[o]}
<1>1. /\ IsFiniteSet(Ops \ {o}) /\ Cardinality(Ops \ {o}) = Cardinality(Ops) - 1
      /\ Cardinality(Ops) \in Nat
    BY OperationAssumption, FS_RemoveElement, FS_CardinalityType
<1>2. H \subseteq Ops \ {o}
    OBVIOUS
<1>3. Cardinality(H) <= Cardinality(Ops \ {o}) /\ Cardinality(H) \in Nat
    BY <1>1, <1>2, FS_Subset, FS_CardinalityType
<1>4. ActiveAfter(o) = Cardinality(H) + 1
    BY DEF ActiveAfter
<1> HIDE DEF H
<1> QED BY <1>1, <1>3, <1>4

LEMMA SubmitKeeps ==
    ASSUME IInv, NEW o \in Ops, Submit(o) PROVE IInv'
<1>1. /\ pc[o] = "idle" /\ pc' = [pc EXCEPT ![o] = "pending"]
      /\ UNCHANGED <<row, policy, limit, line, paused, result, restarts, overrun>>
    BY DEF Submit, Move
<1>2. \/ /\ on' = on /\ named' = named
      \/ \E i \in Identities : on' = [on EXCEPT ![o] = i] /\ named' = named \cup {o}
    BY DEF Submit
<1>3. TypeOK'
    BY <1>1, <1>2 DEF IInv, TypeOK, Stages
<1>4. OpInv(o)'
    BY <1>1, <1>2 DEF IInv, TypeOK, OpInv, Routed, Holds1
<1>5. Configures(o) /\ NoLine(line')
    BY <1>1 DEF Configures, IInv, NoLine
<1>6. pc[o] \notin Counted
    BY <1>1 DEF Counted, Holds1
<1> QED BY <1>1, <1>2, <1>3, <1>4, <1>5, <1>6, QuietFrame DEF IInv, TypeOK

\* What an operation leaves behind when it ends.
LEMMA EndKeeps ==
    ASSUME IInv, NEW o \in Ops, End(o), row' = row, line' \in [Identities \cup {Platform} -> Seq(Ops)],
           UNCHANGED <<policy, limit, restarts, overrun>>, NoLine(line'),
           pc[o] \in Counted => "abandon" \in Events,
           \A u \in Ops \ {o} : \A k \in Identities \cup {Platform} :
              In(u, line[k]) => In(u, line'[k])
    PROVE  IInv'
<1>1. /\ pc' = [pc EXCEPT ![o] = "idle"] /\ on' = [on EXCEPT ![o] = None]
      /\ named' = named \ {o} /\ paused' = paused \ {o}
      /\ result' = [result EXCEPT ![o] = NoResult]
    BY DEF End, Move
<1>2. TypeOK'
    BY <1>1 DEF IInv, TypeOK, Stages, Results, NoResult
<1>3. OpInv(o)'
    BY <1>1 DEF IInv, TypeOK, OpInv, Routed, Holds1
<1>4. Configures(o)
    BY DEF Configures
<1> QED BY <1>1, <1>2, <1>3, <1>4, QuietFrame DEF IInv, TypeOK

LEMMA PlanKeeps ==
    ASSUME IInv, NEW o \in Ops, Plan(o) PROVE IInv'
<1>1. pc[o] = "pending" /\ UNCHANGED <<row, policy, limit, line, restarts, overrun>>
    BY DEF Plan
<1>2. o \notin paused /\ pc[o] \notin Counted
    BY <1>1 DEF IInv, OpInv, Counted, Holds1
<1>3. Configures(o) /\ NoLine(line')
    BY <1>1 DEF Configures, IInv, NoLine
<1>4. CASE /\ \E i \in Identities : on' = [on EXCEPT ![o] = i]
           /\ Move(o, "planned") /\ UNCHANGED <<named, paused, result>>
    <2>1. TypeOK'
        BY <1>1, <1>4 DEF IInv, TypeOK, Stages, Move
    <2>2. OpInv(o)'
        BY <1>1, <1>2, <1>4 DEF IInv, TypeOK, OpInv, Routed, Holds1, Move
    <2> QED BY <1>1, <1>2, <1>3, <1>4, <2>1, <2>2, QuietFrame DEF IInv, TypeOK, Move
<1>5. CASE End(o)
    BY <1>1, <1>2, <1>3, <1>5, EndKeeps DEF IInv, TypeOK
<1> QED BY <1>4, <1>5 DEF Plan

\* An operation has both leases: the snapshot goes to its row.
LEMMA EnterKeeps ==
    ASSUME IInv, NEW o \in Ops, pc[o] \in {"planned", "first", "second"}, row[on[o]] # None,
           Enter(o), UNCHANGED <<policy, on, named, paused, result, restarts>>,
           Configures(o), NoLine(line'), line' \in [Identities \cup {Platform} -> Seq(Ops)],
           \A u \in Ops \ {o} : \A k \in Identities \cup {Platform} :
              In(u, line[k]) => In(u, line'[k])
    PROVE  IInv'
<1> DEFINE i == on[o]
           r == Health(row[i], ActiveAfter(o), NoResult)
<1>1. i \in Identities /\ row[i] \in Rows /\ (row[i].status = "disabled" <=> ~row[i].enabled)
    BY DEF IInv, TypeOK, OpInv, Routed, Stages, DisabledShown
<1>2. pc' = [pc EXCEPT ![o] = "running"] /\ row' = [row EXCEPT ![i] = r]
    BY DEF Enter, Move, SetRow
<1>3. NoResult \in Results
    BY DEF NoResult, Results
<1>4. r \in Rows /\ r # None /\ r.max = row[i].max /\ (r.status = "disabled" <=> ~r.enabled)
    BY ZenonT(30), <1>1, <1>3, ActiveAfterCount, HealthRow
<1> HIDE DEF i, r
<1>5. TypeOK'
    BY <1>1, <1>2, <1>4, ConfiguresType DEF IInv, TypeOK, Stages
<1>7. pc'[o] = "running" /\ on'[o] = i /\ row'[i] = r
    BY <1>1, <1>2 DEF IInv, TypeOK, i
<1>8. OpInv(o)'
    BY <1>1, <1>4, <1>7 DEF IInv, OpInv, Routed, Stages
<1>9. DisabledShown'
    BY <1>1, <1>2, <1>4 DEF IInv, TypeOK, DisabledShown
<1>10. ActiveSettles'
    BY <1>1, <1>2, <1>7 DEF IInv, TypeOK, ActiveSettles, Holds1
<1>11. \A j \in Identities : /\ row'[j] = None <=> row[j] = None
                             /\ row[j] # None => row'[j].max = row[j].max
    BY <1>1, <1>2, <1>4, RowAssumption DEF IInv, TypeOK
<1> QED BY <1>2, <1>5, <1>8, <1>9, <1>10, <1>11, OpFrame DEF IInv, TypeOK

\* With its first lease an operation has the second one, too, or waits for it.
LEMMA AskSecondKeeps ==
    ASSUME IInv, NEW o \in Ops, NEW l \in [Identities \cup {Platform} -> Seq(Ops)],
           pc[o] \in {"planned", "first"}, row[on[o]] # None, AskSecond(o, l),
           UNCHANGED <<policy, on, named, paused, result, restarts>>, Configures(o), NoLine(l),
           \A u \in Ops \ {o} : \A k \in Identities \cup {Platform} :
              In(u, line[k]) => In(u, l[k])
    PROVE  IInv'
<1>1. CASE line' = l /\ Enter(o)
    BY <1>1, EnterKeeps
<1>2. CASE /\ line' = [l EXCEPT ![Platform] = Append(@, o)]
           /\ Move(o, "second") /\ UNCHANGED row
    <2>1. /\ Append(l[Platform], o) \in Seq(Ops) /\ In(o, Append(l[Platform], o))
          /\ \A u : In(u, l[Platform]) => In(u, Append(l[Platform], o))
        BY AppendIn
    <2>2. TypeOK'
        BY <1>2, <2>1, ConfiguresType DEF IInv, TypeOK, Stages, Move
    <2>3. line'[Platform] = Append(l[Platform], o) /\ \A k \in Identities : line'[k] = l[k]
        BY <1>2, OperationAssumption
    <2>4. on[o] \in Identities
        BY DEF IInv, OpInv, Routed, Stages
    <2>5. OpInv(o)'
        BY <1>2, <2>1, <2>3, <2>4 DEF IInv, TypeOK, OpInv, Move
    <2>6. \A u \in Ops \ {o} : \A k \in Identities \cup {Platform} :
             In(u, line[k]) => In(u, line'[k])
        BY <2>1, <2>3
    <2>7. pc[o] \notin Counted
        BY DEF Counted, Holds1
    <2>8. \A u \in Ops \ {o} : pc'[u] = pc[u] /\ on'[u] = on[u]
        BY <1>2 DEF Move, IInv, TypeOK
    <2>9. NoLine(line')
        BY <2>3 DEF NoLine
    <2> QED BY <1>2, <2>2, <2>5, <2>6, <2>7, <2>8, <2>9, QuietFrame
<1> QED BY <1>1, <1>2 DEF AskSecond, Gate

\* A batch that is refused its lease is paused, or it fails.
LEMMA RefusedKeeps ==
    ASSUME IInv, NEW o \in Ops, pc[o] = "planned", Refused(o),
           UNCHANGED <<row, policy, limit, line, restarts, overrun>>
    PROVE  IInv'
<1>1. line \in [Identities \cup {Platform} -> Seq(Ops)] /\ NoLine(line') /\ Configures(o)
    BY DEF IInv, TypeOK, NoLine, Configures
<1>2. pc[o] \notin Counted
    BY DEF Counted, Holds1
<1>3. CASE End(o)
    BY <1>1, <1>2, <1>3, EndKeeps
<1>4. CASE paused' = paused \cup {o} /\ UNCHANGED <<pc, on, named, result>>
    <2>1. TypeOK'
        BY <1>4 DEF IInv, TypeOK
    <2>2. OpInv(o)'
        BY <1>4 DEF IInv, OpInv, Holds1
    <2>3. \A u \in Ops \ {o} : u \in paused' => u \in paused
        BY <1>4
    <2> QED BY <1>1, <1>2, <1>4, <2>1, <2>2, <2>3, QuietFrame
<1> QED BY <1>3, <1>4 DEF Refused

LEMMA BeginKeeps ==
    ASSUME IInv, NEW o \in Ops, Begin(o) PROVE IInv'
<1>1. pc[o] = "planned" /\ UNCHANGED <<policy, restarts>>
    BY DEF Begin
<1>2. on[o] \in Identities /\ pc[o] \notin Counted
    BY <1>1 DEF IInv, OpInv, Routed, Stages, Counted, Holds1
<1>3. line \in [Identities \cup {Platform} -> Seq(Ops)] /\ NoLine(line)
    BY DEF IInv, TypeOK
<1> DEFINE refused == row[on[o]] = None \/ ~Configurable(on[o], row[on[o]].max)
<1>4. CASE refused
    <2>1. Refused(o) /\ UNCHANGED <<row, line, limit, overrun>>
        BY <1>4 DEF Begin
    <2> QED BY <1>1, <2>1, RefusedKeeps
<1>5. ASSUME ~refused
      PROVE  /\ row[on[o]] # None /\ Configures(o) /\ UNCHANGED <<on, named, paused, result>>
    BY <1>2, <1>5 DEF Begin, Configures
<1>6. CASE ~refused /\ Free(on[o], line)
    <2>1. AskSecond(o, line)
        BY <1>6 DEF Begin, Gate
    <2> QED BY <1>1, <1>3, <1>5, <1>6, <2>1, AskSecondKeeps
<1>7. CASE ~refused /\ ~Free(on[o], line)
    <2> DEFINE i == on[o]
    <2>1. line' = [line EXCEPT ![i] = Append(@, o)] /\ Move(o, "first") /\ UNCHANGED row
        BY <1>7 DEF Begin, Gate
    <2>2. /\ Append(line[i], o) \in Seq(Ops) /\ In(o, Append(line[i], o))
          /\ \A u : In(u, line[i]) => In(u, Append(line[i], o))
        BY <1>2, <1>3, AppendIn
    <2>3. line'[i] = Append(line[i], o)
          /\ \A k \in Identities \cup {Platform} : k # i => line'[k] = line[k]
        BY <1>2, <1>3, <2>1
    <2>4. TypeOK'
        <3>1. line' \in [Identities \cup {Platform} -> Seq(Ops)]
            BY <1>2, <1>3, <2>1, <2>2
        <3>2. limit' \in [Identities \cup {Platform} -> Limits \cup {0}] /\ overrun' \subseteq Identities
            BY <1>5, <1>7, ConfiguresType
        <3>3. UNCHANGED <<on, named, paused, result>>
            BY <1>5, <1>7
        <3> HIDE DEF i, refused
        <3> QED BY <1>1, <2>1, <3>1, <3>2, <3>3 DEF IInv, TypeOK, Stages, Move
    <2>5. OpInv(o)'
        BY <1>1, <1>2, <1>5, <1>7, <2>1, <2>2, <2>3 DEF IInv, TypeOK, OpInv, Move
    <2>6. \A u \in Ops \ {o} : \A k \in Identities \cup {Platform} :
             In(u, line[k]) => In(u, line'[k])
        BY <2>2, <2>3
    <2>7. \A u \in Ops \ {o} : pc'[u] = pc[u] /\ on'[u] = on[u]
        BY <1>5, <1>7, <2>1 DEF Move, IInv, TypeOK
    <2>8. NoLine(line')
        BY <1>3, <1>5, <1>7, <2>3 DEF NoLine
    <2> HIDE DEF refused
    <2> QED BY <1>1, <1>2, <1>5, <1>7, <2>1, <2>4, <2>5, <2>6, <2>7, <2>8, QuietFrame
<1> QED BY <1>4, <1>6, <1>7

LEMMA FirstLeaseKeeps ==
    ASSUME IInv, NEW o \in Ops, FirstLease(o) PROVE IInv'
<1> DEFINE i == on[o]
           l == [line EXCEPT ![i] = Tail(@)]
<1>1. /\ pc[o] = "first" /\ Head(line[i]) = o /\ AskSecond(o, l)
      /\ UNCHANGED <<policy, limit, on, named, paused, result, restarts, overrun>>
    BY DEF FirstLease, Gate
<1>2. i \in Identities /\ In(o, line[i]) /\ row[i] # None
    BY <1>1 DEF IInv, OpInv, Routed, Stages
<1>3. line \in [Identities \cup {Platform} -> Seq(Ops)] /\ line[i] # <<>>
    BY <1>2, EmptyLine DEF IInv, TypeOK
<1>4. /\ Tail(line[i]) \in Seq(Ops)
      /\ \A u : In(u, line[i]) /\ u # o => In(u, Tail(line[i]))
    BY <1>1, <1>2, <1>3, TailIn
<1>5. /\ l \in [Identities \cup {Platform} -> Seq(Ops)]
      /\ l[i] = Tail(line[i])
      /\ \A k \in Identities \cup {Platform} : k # i => l[k] = line[k]
    BY <1>2, <1>3, <1>4
<1>6. \A u \in Ops \ {o} : \A k \in Identities \cup {Platform} :
         In(u, line[k]) => In(u, l[k])
    BY <1>4, <1>5
<1>7. NoLine(l) /\ Configures(o)
    BY <1>1, <1>2, <1>5 DEF NoLine, Configures, IInv
<1> HIDE DEF l
<1> QED BY <1>1, <1>2, <1>5, <1>6, <1>7, AskSecondKeeps

LEMMA SecondLeaseKeeps ==
    ASSUME IInv, NEW o \in Ops, SecondLease(o) PROVE IInv'
<1>1. /\ pc[o] = "second" /\ Head(line[Platform]) = o /\ Enter(o)
      /\ line' = [line EXCEPT ![Platform] = Tail(@)]
      /\ UNCHANGED <<policy, limit, on, named, paused, result, restarts, overrun>>
    BY DEF SecondLease, Gate
<1>2. In(o, line[Platform]) /\ row[on[o]] # None
    BY <1>1 DEF IInv, OpInv, Holds1
<1>3. line \in [Identities \cup {Platform} -> Seq(Ops)] /\ line[Platform] # <<>>
    BY <1>2, EmptyLine DEF IInv, TypeOK
<1>4. /\ Tail(line[Platform]) \in Seq(Ops)
      /\ \A u : In(u, line[Platform]) /\ u # o => In(u, Tail(line[Platform]))
    BY <1>1, <1>3, TailIn
<1>5. /\ line' \in [Identities \cup {Platform} -> Seq(Ops)]
      /\ line'[Platform] = Tail(line[Platform])
      /\ \A k \in Identities \cup {Platform} : k # Platform => line'[k] = line[k]
    BY <1>1, <1>3, <1>4
<1>6. \A u \in Ops \ {o} : \A k \in Identities \cup {Platform} :
         In(u, line[k]) => In(u, line'[k])
    BY <1>4, <1>5
<1>7. NoLine(line') /\ Configures(o)
    BY <1>1, <1>5, OperationAssumption DEF NoLine, Configures, IInv
<1> QED BY <1>1, <1>2, <1>5, <1>6, <1>7, EnterKeeps

\* A step from one stage to another, with nothing else of the operation but
\* its result.
LEMMA StageKeeps ==
    ASSUME IInv, NEW o \in Ops, NEW s \in Counted \ {"second", "abandoning"}, Move(o, s),
           pc[o] \in Holds1 \ {"second"},
           paused' \subseteq paused \cup {o},
           result' \in [Ops -> Results],
           UNCHANGED <<row, policy, limit, line, on, named, restarts, overrun>>
    PROVE  IInv'
<1>1. pc' = [pc EXCEPT ![o] = s] /\ s \in Stages /\ pc'[o] = s
    BY DEF Move, Counted, Holds1, Stages, IInv, TypeOK
<1>2. TypeOK'
    BY <1>1 DEF IInv, TypeOK
<1>3. OpInv(o)'
    BY <1>1 DEF IInv, TypeOK, OpInv, Counted, Holds1, Routed, Stages
<1>4. Configures(o) /\ NoLine(line')
    BY DEF Configures, IInv, NoLine
<1> QED BY <1>1, <1>2, <1>3, <1>4, QuietFrame DEF IInv, TypeOK

LEMMA OperationEndsKeeps ==
    ASSUME IInv, NEW o \in Ops, OperationEnds(o) PROVE IInv'
<1>1. result' \in [Ops -> Results]
    <2>1. \A x, f \in BOOLEAN : [NoResult EXCEPT !.success = x, !.failure = f] \in Results
        BY DEF NoResult, Results
    <2> QED BY <2>1 DEF OperationEnds, IInv, TypeOK
<1> QED BY <1>1, StageKeeps DEF OperationEnds, Counted, Holds1

LEMMA RuntimeClosedKeeps ==
    ASSUME IInv, NEW o \in Ops, RuntimeClosed(o) PROVE IInv'
<1>1. result' \in [Ops -> Results]
    BY ZenonT(30) DEF RuntimeClosed, IInv, TypeOK, Results
<1> QED BY <1>1, StageKeeps DEF RuntimeClosed, Counted, Holds1

LEMMA ReleaseKeeps ==
    ASSUME IInv, NEW o \in Ops, Release(o) PROVE IInv'
<1>1. result' \in [Ops -> Results]
    BY DEF Release, IInv, TypeOK
<1> QED BY <1>1, StageKeeps DEF Release, Counted, Holds1

\* What is accounted for, or the end without a row.
LEMMA AccountKeeps ==
    ASSUME IInv, NEW o \in Ops, Account(o) PROVE IInv'
<1> DEFINE i == on[o]
           n == Cardinality(Holders(i))
           r == Health(row[i], n, result[o])
<1>1. /\ pc[o] = "accounting" /\ i \in Identities
      /\ i # Platform /\ i # None
    BY OperationAssumption DEF Account, IInv, OpInv, Routed, Stages
<1>2. /\ pc' = [pc EXCEPT ![o] = "idle"] /\ on' = [on EXCEPT ![o] = None]
      /\ named' = named \ {o} /\ paused' = paused \ {o}
      /\ result' = [result EXCEPT ![o] = NoResult]
      /\ UNCHANGED <<policy, limit, line, restarts, overrun>>
    BY DEF Account, End, Move
<1>3. row' = IF row[i] # None THEN [row EXCEPT ![i] = r] ELSE row
    BY DEF Account, SetRow
<1>4. result[o] \in Results /\ n \in 0..Cardinality(Ops)
    BY HoldersCount DEF IInv, TypeOK
<1>5. row[i] # None =>
         /\ r \in Rows /\ r # None /\ r.max = row[i].max /\ r.active = n
         /\ r.status = "disabled" <=> ~r.enabled
    <2> SUFFICES ASSUME row[i] # None
                 PROVE  /\ r \in Rows /\ r # None /\ r.max = row[i].max /\ r.active = n
                        /\ r.status = "disabled" <=> ~r.enabled
        OBVIOUS
    <2>1. row[i] \in Rows /\ (row[i].status = "disabled" <=> ~row[i].enabled)
        BY <1>1 DEF IInv, TypeOK, DisabledShown
    <2> HIDE DEF n, i
    <2> QED BY <1>4, <2>1, HealthRow
<1>6. n > 0 => \E u \in Ops : u # o /\ pc[u] \in Holds1 /\ on[u] = i
    <2>1. CASE Holders(i) = {}
        BY <2>1, FS_EmptySet
    <2>2. CASE Holders(i) # {}
        <3>1. PICK u \in Ops : u \in Holders(i)
            BY <2>2 DEF Holders
        <3>2. pc[u] \in Holds1 /\ on[u] = i
            BY <1>1, <3>1 DEF Holders, Gate
        <3> QED BY <1>1, <3>2 DEF Holds1
    <2> QED BY <2>1, <2>2
<1> HIDE DEF r, n
<1>7. TypeOK'
    BY <1>1, <1>2, <1>3, <1>5 DEF IInv, TypeOK, Stages, Results, NoResult
<1>8. OpInv(o)'
    BY <1>1, <1>2 DEF IInv, TypeOK, OpInv, Routed, Holds1
<1>9. DisabledShown'
    BY <1>1, <1>3, <1>5 DEF IInv, TypeOK, DisabledShown
<1>10. ActiveSettles'
    <2> SUFFICES ASSUME "abandon" \notin Events, NEW j \in Identities,
                        row'[j] # None, row'[j].active > 0
                 PROVE  \E u \in Ops : on'[u] = j /\ pc'[u] \in Counted
        BY DEF ActiveSettles, Counted
    <2>1. \A u \in Ops : u # o => on'[u] = on[u] /\ pc'[u] = pc[u]
        BY <1>2 DEF IInv, TypeOK
    <2>2. CASE j = i
        <3>1. row'[i] = IF row[i] # None THEN r ELSE None
            BY <1>1, <1>3 DEF IInv, TypeOK
        <3> QED BY <1>5, <1>6, <2>1, <2>2, <3>1 DEF Counted
    <2>3. CASE j # i
        <3>1. row'[j] = row[j]
            BY <1>3, <2>3 DEF IInv, TypeOK
        <3>2. PICK u \in Ops : on[u] = j /\ pc[u] \in Counted
            BY <3>1 DEF IInv, ActiveSettles, Counted
        <3> QED BY <2>1, <2>3, <3>2
    <2> QED BY <2>2, <2>3
<1>11. \A j \in Identities : /\ row'[j] = None <=> row[j] = None
                             /\ row[j] # None => row'[j].max = row[j].max
    BY <1>1, <1>3, <1>5 DEF IInv, TypeOK
<1>12. Configures(o) /\ NoLine(line')
    BY <1>2 DEF Configures, IInv, NoLine
<1> QED BY <1>2, <1>7, <1>8, <1>9, <1>10, <1>11, <1>12, OpFrame DEF IInv, TypeOK

LEMMA AbandonedKeeps ==
    ASSUME IInv, NEW o \in Ops, Abandoned(o) PROVE IInv'
<1>1. "abandon" \in Events
    BY DEF Abandoned, IInv, OpInv
<1>2. line' \in [Identities \cup {Platform} -> Seq(Ops)] /\ NoLine(line')
    BY DEF Abandoned, IInv, TypeOK, NoLine
<1> QED BY <1>1, <1>2, EndKeeps DEF Abandoned

LEMMA PauseKeeps ==
    ASSUME IInv, NEW o \in Ops, Pause(o) PROVE IInv'
<1>1. /\ paused' = paused \cup {o} /\ pc[o] \notin {"idle", "pending"}
      /\ UNCHANGED <<row, policy, limit, line, pc, on, named, result, restarts, overrun>>
    BY DEF Pause
<1>2. TypeOK'
    BY <1>1 DEF IInv, TypeOK
<1>3. OpInv(o)'
    BY <1>1 DEF IInv, OpInv, Holds1
<1>4. Configures(o) /\ NoLine(line')
    BY <1>1 DEF Configures, IInv, NoLine
<1> QED BY <1>1, <1>2, <1>3, <1>4, QuietFrame

LEMMA ResumeKeeps ==
    ASSUME IInv, NEW o \in Ops, Resume(o) PROVE IInv'
<1>1. /\ o \in paused /\ paused' = paused \ {o}
      /\ pc' = IF pc[o] = "parked" THEN [pc EXCEPT ![o] = "pending"] ELSE pc
      /\ UNCHANGED <<row, policy, limit, line, on, named, result, restarts, overrun>>
    BY DEF Resume, Move
<1>2. TypeOK'
    BY <1>1 DEF IInv, TypeOK, Stages
<1>3. OpInv(o)'
    BY <1>1 DEF IInv, TypeOK, OpInv, Routed, Holds1
<1>4. Configures(o) /\ NoLine(line')
    BY <1>1 DEF Configures, IInv, NoLine
<1>5. pc[o] \in Counted => pc'[o] \in Counted
    BY <1>1 DEF Counted, Holds1
<1>6. \A u \in Ops \ {o} : pc'[u] = pc[u]
    BY <1>1 DEF IInv, TypeOK
<1> QED BY <1>1, <1>2, <1>3, <1>4, <1>5, <1>6, QuietFrame

LEMMA CancelKeeps ==
    ASSUME IInv, NEW o \in Ops, Cancel(o) PROVE IInv'
<1>1. UNCHANGED <<row, policy, limit, restarts, overrun>>
    BY DEF Cancel
<1>2. CASE /\ pc[o] \in {"pending", "parked", "planned", "first"} /\ End(o)
           /\ line' = [k \in DOMAIN line |-> IF pc[o] = "first" THEN RemoveFirst(line[k], o)
                                                                ELSE line[k]]
    <2>1. line \in [Identities \cup {Platform} -> Seq(Ops)]
        BY DEF IInv, TypeOK
    <2>2. \A k \in Identities \cup {Platform} :
             /\ line'[k] \in Seq(Ops)
             /\ \A u : In(u, line[k]) /\ u # o => In(u, line'[k])
        BY <1>2, <2>1, RemoveIn
    <2>3. line' \in [Identities \cup {Platform} -> Seq(Ops)]
        BY <1>2, <2>1, <2>2
    <2>4. pc[o] \notin Counted
        BY <1>2 DEF Counted, Holds1
    <2>5. NoLine(line')
        <3>1. RemoveFirst(<<>>, o) = <<>>
            BY DEF RemoveFirst
        <3> QED BY <1>2, <2>1, <3>1 DEF IInv, NoLine
    <2> QED BY <1>1, <1>2, <2>2, <2>3, <2>4, <2>5, EndKeeps
<1>3. CASE /\ pc[o] \in {"running", "closing"}
           /\ Move(o, IF pc[o] = "running" THEN "closing" ELSE "leaving2")
           /\ result' = [result EXCEPT ![o].canceled = TRUE]
           /\ paused' = paused \ {o}
           /\ UNCHANGED <<on, named, line>>
    <2>1. result' \in [Ops -> Results]
        BY <1>3 DEF IInv, TypeOK, Results
    <2>2. paused' \subseteq paused \cup {o}
        BY <1>3
    <2> QED BY <1>1, <1>3, <2>1, <2>2, StageKeeps DEF Counted, Holds1
<1> QED BY <1>2, <1>3 DEF Cancel

LEMMA AbandonKeeps ==
    ASSUME IInv, NEW o \in Ops, Abandon(o) PROVE IInv'
<1>1. /\ pc[o] = "second" /\ pc' = [pc EXCEPT ![o] = "abandoning"]
      /\ line' = [k \in DOMAIN line |-> RemoveFirst(line[k], o)]
      /\ "abandon" \in Events /\ paused' = paused \ {o}
      /\ UNCHANGED <<row, policy, limit, on, named, result, restarts, overrun>>
    BY DEF Abandon, Move
<1>2. line \in [Identities \cup {Platform} -> Seq(Ops)]
    BY DEF IInv, TypeOK
<1>3. \A k \in Identities \cup {Platform} :
         /\ line'[k] \in Seq(Ops)
         /\ \A u : In(u, line[k]) /\ u # o => In(u, line'[k])
    BY <1>1, <1>2, RemoveIn
<1>4. line' \in [Identities \cup {Platform} -> Seq(Ops)]
    BY <1>1, <1>2, <1>3
<1>5. TypeOK'
    BY <1>1, <1>4 DEF IInv, TypeOK, Stages
<1>6. OpInv(o)'
    BY <1>1 DEF IInv, TypeOK, OpInv, Routed, Stages, Holds1
<1>7. NoLine(line') /\ Configures(o)
    <2>1. RemoveFirst(<<>>, o) = <<>>
        BY DEF RemoveFirst
    <2> QED BY <1>1, <1>2, <2>1 DEF IInv, NoLine, Configures
<1>8. pc[o] \in Counted => pc'[o] \in Counted
    BY <1>1 DEF IInv, TypeOK, Counted, Holds1
<1> QED BY <1>1, <1>3, <1>5, <1>6, <1>7, <1>8, QuietFrame DEF IInv, TypeOK

LEMMA RestartKeeps ==
    ASSUME IInv, Restart PROVE IInv'
<1>1. /\ restarts' = restarts + 1 /\ restarts < MaxRestarts
      /\ row' = [i \in Identities |->
                    IF row[i] = None THEN None ELSE [row[i] EXCEPT !.active = 0]]
      /\ limit' = [k \in Identities \cup {Platform} |->
                    IF k = Platform THEN policy
                    ELSE IF row[k] = None THEN 0 ELSE row[k].max]
      /\ line' = [k \in Identities \cup {Platform} |-> <<>>]
      /\ pc' = [o \in Ops |-> IF pc[o] = "idle" THEN "idle"
                              ELSE IF o \in paused THEN "parked" ELSE "pending"]
      /\ on' = [o \in Ops |-> IF o \in named THEN on[o] ELSE None]
      /\ result' = [o \in Ops |-> NoResult]
      /\ overrun' = {}
      /\ UNCHANGED <<policy, named, paused>>
    BY DEF Restart
<1>2. \A i \in Identities :
         IF row[i] = None THEN row'[i] = None
         ELSE /\ row'[i] \in Rows /\ row'[i] # None
              /\ row'[i].max = row[i].max /\ row'[i].active = 0
              /\ row'[i].status = row[i].status /\ row'[i].enabled = row[i].enabled
    <2> TAKE i \in Identities
    <2>1. CASE row[i] = None
        BY <1>1, <2>1
    <2>2. CASE row[i] # None
        <3>1. row[i] \in Rows /\ 0 \in 0..Cardinality(Ops)
            BY <2>2, OperationAssumption, FS_CardinalityType DEF IInv, TypeOK
        <3>2. row'[i] = [row[i] EXCEPT !.active = 0]
            BY <1>1, <2>2
        <3> QED BY <2>2, <3>1, <3>2, RowAssumption DEF Rows
    <2> QED BY <2>1, <2>2
<1>3. row' \in [Identities -> Rows \cup {None}]
    BY <1>1, <1>2
<1>4. limit' \in [Identities \cup {Platform} -> Limits \cup {0}]
    <2>1. policy \in Limits
        BY DEF IInv, TypeOK
    <2>2. \A i \in Identities : row[i] = None \/ row[i].max \in Limits
        BY DEF IInv, TypeOK, Rows
    <2> QED BY <1>1, <2>1, <2>2
<1>5. TypeOK'
    <2>1. restarts' \in 0..MaxRestarts
        BY <1>1, OperationAssumption DEF IInv, TypeOK
    <2>2. /\ line' \in [Identities \cup {Platform} -> Seq(Ops)]
          /\ pc' \in [Ops -> Stages] /\ result' \in [Ops -> Results]
        BY <1>1 DEF Stages, Results, NoResult
    <2>3. on' \in [Ops -> Identities \cup {None}]
        BY <1>1 DEF IInv, TypeOK
    <2> QED BY <1>1, <1>3, <1>4, <2>1, <2>2, <2>3 DEF IInv, TypeOK
<1>6. LimitsMatch'
    <2>1. limit'[Platform] = policy'
        BY <1>1
    <2>2. ASSUME NEW j \in Identities
          PROVE  /\ limit'[j] = 0 <=> row'[j] = None
                 /\ row'[j] # None => limit'[j] = row'[j].max
        <3>1. limit'[j] = IF row[j] = None THEN 0 ELSE row[j].max
            BY <1>1, OperationAssumption
        <3>2. row[j] # None => row[j].max # 0
            <4>1. row[j] # None => row[j].max \in Limits
                BY DEF IInv, TypeOK, Rows
            <4> QED BY <4>1, OperationAssumption
        <3> QED BY <1>2, <3>1, <3>2
    <2> QED BY <2>1, <2>2 DEF LimitsMatch
<1>7. ASSUME NEW o \in Ops PROVE OpInv(o)'
    <2>1. OpInv(o)
        BY DEF IInv
    <2> QED BY <1>1, <2>1 DEF OpInv, Routed, Holds1
<1>8. DisabledShown'
    BY <1>2 DEF IInv, DisabledShown
<1>9. ActiveSettles'
    BY <1>2 DEF ActiveSettles
<1>10. NoLine(line)'
    BY <1>1 DEF NoLine
<1> QED BY <1>5, <1>6, <1>7, <1>8, <1>9, <1>10 DEF IInv

-----------------------------------------------------------------------------
(* The theorems.                                                           *)

LEMMA InitHolds == Init => IInv
<1> SUFFICES ASSUME Init PROVE IInv
    OBVIOUS
<1>1. TypeOK
    <2>1. row \in [Identities -> Rows \cup {None}] /\ policy \in Limits
        BY DEF Init
    <2>2. limit \in [Identities \cup {Platform} -> Limits \cup {0}]
        BY <2>1 DEF Init
    <2>3. restarts \in 0..MaxRestarts
        BY OperationAssumption DEF Init
    <2> QED BY <2>1, <2>2, <2>3 DEF Init, TypeOK, Stages, Results, NoResult
<1>2. LimitsMatch
    BY OperationAssumption DEF Init, LimitsMatch
<1>3. (\A o \in Ops : OpInv(o)) /\ DisabledShown /\ ActiveSettles /\ NoLine(line)
    BY DEF Init, OpInv, Routed, Holds1, DisabledShown, ActiveSettles, NoLine
<1> QED BY <1>1, <1>2, <1>3 DEF IInv

LEMMA StepsKeep == IInv /\ [Next]_vars => IInv'
<1> SUFFICES ASSUME IInv, [Next]_vars PROVE IInv'
    OBVIOUS
<1>1. ASSUME NEW i \in Identities, IdentityRoute(i) PROVE IInv'
    BY <1>1, CreateKeeps, UpdateKeeps, DeleteKeeps, ProbedKeeps, CooldownElapsesKeeps
       DEF IdentityRoute
<1>2. ASSUME NEW o \in Ops, RunOp(o) PROVE IInv'
    BY <1>2, PlanKeeps, BeginKeeps, FirstLeaseKeeps, SecondLeaseKeeps, OperationEndsKeeps,
       RuntimeClosedKeeps, ReleaseKeeps, AccountKeeps, AbandonedKeeps DEF RunOp
<1>3. ASSUME NEW o \in Ops,
             Submit(o) \/ ConfirmTarget(o) \/ Pause(o) \/ Resume(o) \/ Cancel(o) \/ Abandon(o)
      PROVE  IInv'
    BY <1>3, SubmitKeeps, ConfirmTargetKeeps, PauseKeeps, ResumeKeeps, CancelKeeps,
       AbandonKeeps
<1>4. CASE UNCHANGED vars
    BY <1>4 DEF vars, IInv, TypeOK, LimitsMatch, NoLine, OpInv, DisabledShown, ActiveSettles
<1> QED BY <1>1, <1>2, <1>3, <1>4, UpdatePolicyKeeps, RestartKeeps DEF Next

LEMMA Invariance == Spec => []IInv
BY InitHolds, StepsKeep, PTL DEF Spec

\* Every variable has its type (the fields of CollectorOperation).
THEOREM OperationTypeOK == Spec => []TypeOK
<1>1. IInv => TypeOK
    BY DEF IInv
<1> QED BY <1>1, Invariance, PTL

\* The limits in force are the stored ones, but where the create route has
\* overwritten the row of an identity whose lease was in use (overrun), and no
\* delete takes the identity away from an operation that waits for or holds its
\* lease.
THEOREM OperationLeasesMatchRows == Spec => []LeasesMatchRows
<1>1. IInv => LeasesMatchRows
    <2> SUFFICES ASSUME IInv PROVE LeasesMatchRows
        OBVIOUS
    <2> QED BY DEF IInv, LimitsMatch, OpInv, LeasesMatchRows
<1> QED BY <1>1, Invariance, PTL

\* A disabled identity is shown as disabled, and the stored count of active
\* leases falls back to 0 with the last operation.
THEOREM OperationRowsSettle == Spec => []RowsSettle
<1>1. IInv => RowsSettle
    BY DEF IInv, RowsSettle
<1> QED BY <1>1, Invariance, PTL

-----------------------------------------------------------------------------
(* Cooldowns.                                                              *)

\* What one step may do to the cooldown of one identity.
CooldownStep(i) ==
    row[i] # None /\ row'[i] # None =>
        /\ ~Cooled(row[i]) /\ Cooled(row'[i])
              => row'[i].failures = Threshold /\ Accounted(i, Misses)
        /\ Cooled(row[i]) /\ row'[i].cooldown = ""
              => Accounted(i, {r \in Results : r.success})

\* A step that writes one row respects every cooldown when it keeps that of the
\* row, lets it pass, or is the accounting of an operation that says so.
LEMMA OneRow ==
    ASSUME IInv, NEW i \in Identities, NEW r, row' = [row EXCEPT ![i] = r],
           row[i] # None =>
              \/ r.cooldown = row[i].cooldown
              \/ r.cooldown = "past"
              \/ /\ row[i].cooldown # "future" /\ r.cooldown = "future"
                       => r.failures = Threshold /\ Accounted(i, Misses)
                 /\ row[i].cooldown = "future" /\ r.cooldown = ""
                       => Accounted(i, {q \in Results : q.success})
    PROVE  \A j \in Identities : CooldownStep(j)
<1> SUFFICES ASSUME NEW j \in Identities PROVE CooldownStep(j)
    OBVIOUS
<1>1. row'[i] = r /\ (j # i => row'[j] = row[j])
    BY DEF IInv, TypeOK
<1>2. CASE j = i
    BY <1>1, <1>2 DEF CooldownStep, Cooled
<1>3. CASE j # i
    BY <1>1, <1>3 DEF CooldownStep, Cooled
<1> QED BY <1>2, <1>3

\* A step that leaves the rows alone, or only their counts, touches no cooldown.
LEMMA NoCooldown ==
    ASSUME \A i \in Identities : row[i] # None /\ row'[i] # None
                                    => row'[i].cooldown = row[i].cooldown
    PROVE  \A i \in Identities : CooldownStep(i)
BY DEF CooldownStep, Cooled

\* The routes and the probe start no cooldown and clear none.
LEMMA RoutesSpareCooldowns ==
    ASSUME IInv, NEW i \in Identities, IdentityRoute(i)
    PROVE  \A j \in Identities : CooldownStep(j)
<1>1. CASE Create(i)
    <2>1. PICK max \in Limits, enabled \in BOOLEAN :
              row' = [row EXCEPT ![i] = Upserted(row[i], enabled, max)]
        BY <1>1 DEF Create, SetRow
    <2>2. row[i] \in Rows \cup {None}
          /\ (row[i] # None => (row[i].status = "disabled" <=> ~row[i].enabled))
        BY DEF IInv, TypeOK, DisabledShown
    <2>3. row[i] # None => Upserted(row[i], enabled, max).cooldown = row[i].cooldown
        BY <2>2, UpsertedRow
    <2> QED BY <2>1, <2>3, OneRow
<1>2. CASE Update(i)
    <2>1. PICK max \in Limits, enabled \in BOOLEAN :
              row[i] # None /\ row' = [row EXCEPT ![i] = Upserted(row[i], enabled, max)]
        BY <1>2 DEF Update, SetRow
    <2>2. row[i] \in Rows \cup {None} /\ (row[i].status = "disabled" <=> ~row[i].enabled)
        BY <2>1 DEF IInv, TypeOK, DisabledShown
    <2>3. Upserted(row[i], enabled, max).cooldown = row[i].cooldown
        BY <2>1, <2>2, UpsertedRow
    <2> QED BY <2>1, <2>3, OneRow
<1>3. CASE Delete(i)
    <2>1. row' = [row EXCEPT ![i] = None]
        BY <1>3 DEF Delete, SetRow
    <2>2. \A j \in Identities : row'[j] = None \/ row'[j] = row[j]
        BY <2>1 DEF IInv, TypeOK
    <2> QED BY <2>2, NoCooldown
<1>4. CASE Probed(i)
    <2>1. row[i] # None /\ row[i] \in Rows
        BY <1>4 DEF Probed, IInv, TypeOK
    <2>2. CASE ProbeAnswered(i)
        <3> DEFINE r == Saved([row[i] EXCEPT !.status = "pending_check"])
        <3>1. row' = [row EXCEPT ![i] = r] /\ r.cooldown = row[i].cooldown
            BY <2>1, <2>2 DEF ProbeAnswered, SetRow, Saved, Rows
        <3> HIDE DEF r
        <3> QED BY <3>1, OneRow
    <2>3. CASE ProbeFailed(i)
        <3> DEFINE r == Saved([row[i] EXCEPT !.status = "warning", !.failures = Failed(row[i])])
        <3>1. row' = [row EXCEPT ![i] = r] /\ r.cooldown = row[i].cooldown
            BY <2>1, <2>3 DEF ProbeFailed, SetRow, Saved, Rows
        <3> HIDE DEF r
        <3> QED BY <3>1, OneRow
    <2> QED BY <1>4, <2>2, <2>3 DEF Probed
<1>5. CASE CooldownElapses(i)
    <2>1. row[i] # None /\ row[i] \in Rows
        BY <1>5 DEF CooldownElapses, IInv, TypeOK
    <2> DEFINE r == [row[i] EXCEPT !.cooldown = "past"]
    <2>2. row' = [row EXCEPT ![i] = r] /\ r.cooldown = "past"
        BY <1>5, <2>1 DEF CooldownElapses, SetRow, Rows
    <2> HIDE DEF r
    <2> QED BY <2>2, OneRow
<1> QED BY <1>1, <1>2, <1>3, <1>4, <1>5 DEF IdentityRoute

\* An operation that enters has no result yet: it starts and clears nothing.
LEMMA EnterSparesCooldowns ==
    ASSUME IInv, NEW o \in Ops, on[o] \in Identities, row[on[o]] # None, Enter(o)
    PROVE  \A j \in Identities : CooldownStep(j)
<1> DEFINE i == on[o]
           r == Health(row[i], ActiveAfter(o), NoResult)
<1>1. row[i] \in Rows /\ (row[i].status = "disabled" <=> ~row[i].enabled)
    BY DEF IInv, TypeOK, DisabledShown
<1>2. NoResult \in Results /\ NoResult \notin Misses /\ ~NoResult.success
    BY DEF NoResult, Results, Misses
<1>3. /\ row[i].cooldown # "future" => r.cooldown # "future"
      /\ row[i].cooldown = "future" => r.cooldown # ""
    <2>1. ActiveAfter(o) \in 0..Cardinality(Ops)
        BY ActiveAfterCount
    <2> HIDE DEF i
    <2>2. /\ row[i].cooldown # "future" /\ r.cooldown = "future"
                => r.failures = Threshold /\ NoResult \in Misses
          /\ row[i].cooldown = "future" /\ r.cooldown = "" => NoResult.success
        <3>1. NoResult \in Results
            BY <1>2
        <3> QED BY <1>1, <2>1, <3>1, HealthRow
    <2> QED BY <1>2, <2>2
<1>4. row' = [row EXCEPT ![i] = r]
    BY DEF Enter, SetRow
<1> HIDE DEF r
<1> QED BY <1>3, <1>4, OneRow

\* What is accounted for starts a cooldown when the operation failed as a
\* whole, and clears one when it succeeded.
LEMMA AccountRespectsCooldowns ==
    ASSUME IInv, NEW o \in Ops, Account(o)
    PROVE  \A j \in Identities : CooldownStep(j)
<1> DEFINE i == on[o]
           n == Cardinality(Holders(i))
           r == Health(row[i], n, result[o])
<1>1. pc[o] = "accounting" /\ i \in Identities /\ result[o] \in Results
    BY DEF Account, IInv, TypeOK, OpInv, Routed, Stages
<1>2. CASE row[i] = None
    <2>1. row' = row
        BY <1>2 DEF Account
    <2> QED BY <2>1, NoCooldown
<1>3. CASE row[i] # None
    <2>1. row' = [row EXCEPT ![i] = r]
        BY <1>3 DEF Account, SetRow
    <2>2. row[i] \in Rows /\ (row[i].status = "disabled" <=> ~row[i].enabled)
        BY <1>1, <1>3 DEF IInv, TypeOK, DisabledShown
    <2>3. n \in 0..Cardinality(Ops)
        BY HoldersCount
    <2>4. /\ row[i].cooldown # "future" /\ r.cooldown = "future"
                => r.failures = Threshold /\ result[o] \in Misses
          /\ row[i].cooldown = "future" /\ r.cooldown = "" => result[o].success
        <3> HIDE DEF n, i
        <3> QED BY <1>1, <2>2, <2>3, HealthRow
    <2>5. result[o] \in Misses => Accounted(i, Misses)
        BY <1>1 DEF Accounted
    <2>6. result[o].success => Accounted(i, {q \in Results : q.success})
        BY <1>1 DEF Accounted
    <2> HIDE DEF r, n
    <2> QED BY <1>1, <2>1, <2>4, <2>5, <2>6, OneRow
<1> QED BY <1>2, <1>3

\* The other steps of an operation write no row, or enter it.
LEMMA OperationsRespectCooldowns ==
    ASSUME IInv, NEW o \in Ops, RunOp(o) \/ ConfirmTarget(o)
    PROVE  \A j \in Identities : CooldownStep(j)
<1>1. OpInv(o)
    BY DEF IInv
<1>2. CASE Begin(o)
    <2>1. on[o] \in Identities
        BY <1>1, <1>2 DEF Begin, OpInv, Routed, Stages
    <2>2. row' = row \/ (row[on[o]] # None /\ Enter(o))
        BY <1>2 DEF Begin, AskSecond
    <2> QED BY <2>1, <2>2, NoCooldown, EnterSparesCooldowns
<1>3. CASE FirstLease(o)
    <2>1. on[o] \in Identities /\ row[on[o]] # None
        BY <1>1, <1>3 DEF FirstLease, OpInv, Routed, Stages
    <2>2. row' = row \/ Enter(o)
        BY <1>3 DEF FirstLease, AskSecond
    <2> QED BY <2>1, <2>2, NoCooldown, EnterSparesCooldowns
<1>4. CASE SecondLease(o)
    <2>1. on[o] \in Identities /\ row[on[o]] # None /\ Enter(o)
        BY <1>1, <1>4 DEF SecondLease, OpInv, Routed, Stages, Holds1
    <2> QED BY <2>1, EnterSparesCooldowns
<1>5. CASE ConfirmTarget(o)
    <2> DEFINE i == on[o]
               r == [row[i] EXCEPT !.status = "healthy", !.failures = 0]
    <2>1. i \in Identities /\ row[i] # None /\ row[i] \in Rows
        BY <1>1, <1>5 DEF ConfirmTarget, IInv, TypeOK, OpInv, Routed, Stages, Holds1
    <2>2. row' = [row EXCEPT ![i] = r] /\ r.cooldown = row[i].cooldown
        BY <1>5, <2>1 DEF ConfirmTarget, SetRow, Rows
    <2> HIDE DEF r
    <2> QED BY <2>1, <2>2, OneRow
<1>6. CASE Plan(o) \/ OperationEnds(o) \/ RuntimeClosed(o) \/ Release(o) \/ Abandoned(o)
    <2>1. row' = row
        BY <1>6 DEF Plan, OperationEnds, RuntimeClosed, Release, Abandoned
    <2> QED BY <2>1, NoCooldown
<1> QED BY <1>2, <1>3, <1>4, <1>5, <1>6, AccountRespectsCooldowns DEF RunOp

\* Every step, the restart and what leaves all rows alone included.
LEMMA StepsRespectCooldowns ==
    IInv /\ [Next]_vars => \A i \in Identities : CooldownStep(i)
<1> SUFFICES ASSUME IInv, [Next]_vars PROVE \A i \in Identities : CooldownStep(i)
    OBVIOUS
<1>1. CASE Restart
    <2>1. \A i \in Identities : row[i] # None => row'[i].cooldown = row[i].cooldown
        <3> TAKE i \in Identities
        <3> HAVE row[i] # None
        <3>1. row[i] \in Rows /\ row'[i] = [row[i] EXCEPT !.active = 0]
            BY <1>1 DEF Restart, IInv, TypeOK
        <3> QED BY <3>1 DEF Rows
    <2> QED BY <2>1, NoCooldown
<1>2. CASE UNCHANGED row
    BY <1>2, NoCooldown
<1>3. ASSUME NEW o \in Ops,
             Submit(o) \/ Pause(o) \/ Resume(o) \/ Cancel(o) \/ Abandon(o)
      PROVE  UNCHANGED row
    BY <1>3 DEF Submit, Pause, Resume, Cancel, Abandon
<1>4. CASE UpdatePolicy \/ UNCHANGED vars
    BY <1>2, <1>4 DEF UpdatePolicy, vars
<1> QED BY <1>1, <1>2, <1>3, <1>4, RoutesSpareCooldowns, OperationsRespectCooldowns DEF Next

\* A cooldown starts with the accounting of an operation that failed as a whole
\* or whose runtime did not close, after as many failures as the policy says,
\* and only time or the accounting of a success ends it (the risk cooldown of
\* _update_collector_runtime_after_group, whatever the routes, the probe, the
\* kills and the other operations do meanwhile).
THEOREM OperationCooldownDiscipline == Spec => CooldownDiscipline
<1>1. IInv /\ [Next]_vars =>
         [\A i \in Identities : row[i] # None /\ row'[i] # None =>
             /\ ~Cooled(row[i]) /\ Cooled(row'[i])
                   => row'[i].failures = Threshold /\ Accounted(i, Misses)
             /\ Cooled(row[i]) /\ row'[i].cooldown = ""
                   => Accounted(i, {r \in Results : r.success})]_vars
    BY StepsRespectCooldowns DEF CooldownStep
<1> QED BY <1>1, Invariance, PTL DEF Spec, CooldownDiscipline
=============================================================================
