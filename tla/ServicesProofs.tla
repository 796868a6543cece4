---------------------------- MODULE ServicesProofs ----------------------------
(***************************************************************************)
(* The parts of MCServices, each for any values of its constants, and the  *)
(* composition: it is one of the behaviours of every part, so that what is *)
(* proved of a part holds in it.                                           *)
(***************************************************************************)
EXTENDS MCServices, SequenceTheorems, FiniteSetTheorems, NaturalsInduction, WellFoundedInduction,
        TLAPS

-----------------------------------------------------------------------------
(* Numbers and sequences *)

\* The order of the natural numbers is well founded.
LEMMA OrderOfNat ==
    \E R : IsWellFoundedOn(R, Nat) /\ \A x, y \in Nat : y < x => <<y, x>> \in R
<1> DEFINE R == OpToRel(<, Nat)
<1>1. IsWellFoundedOn(R, Nat)
    BY Zenon, NatLessThanWellFounded
<1>2. \A x, y \in Nat : y < x => <<y, x>> \in R
    BY DEF OpToRel
<1> HIDE DEF R
<1> QED BY <1>1, <1>2

\* A set of natural numbers has a least one.
LEMMA LeastNumber ==
    ASSUME NEW T, T \subseteq Nat, T # {}
    PROVE  \E x \in T : \A y \in T : x <= y
<1>1. PICK R : IsWellFoundedOn(R, Nat) /\ \A x, y \in Nat : y < x => <<y, x>> \in R
    BY OrderOfNat
<1>2. PICK x \in T : \A y \in T : ~ (<<y, x>> \in R)
    BY <1>1, WFMin
<1>3. ASSUME NEW y \in T PROVE x <= y
    <2>1. x \in Nat /\ y \in Nat
        OBVIOUS
    <2>2. ~ (y < x)
        BY <1>1, <1>2, <2>1
    <2> QED BY <2>1, <2>2
<1> QED BY <1>3

\* What is left when one element is taken out.
LEMMA RemovedAt ==
    ASSUME NEW S, NEW s \in Seq(S), NEW i \in 1..Len(s)
    PROVE  /\ RemoveAt(s, i) \in Seq(S) /\ Len(RemoveAt(s, i)) = Len(s) - 1
           /\ \A n \in 1..(Len(s) - 1) : RemoveAt(s, i)[n] = s[IF n < i THEN n ELSE n + 1]
<1> DEFINE a == SubSeq(s, 1, i - 1)
           b == SubSeq(s, i + 1, Len(s))
           l == Len(s)
<1>1. /\ a \in Seq(S) /\ Len(a) = i - 1 /\ \A n \in 1..i-1 : a[n] = s[n]
      /\ b \in Seq(S) /\ Len(b) = l - i /\ \A n \in 1..l-i : b[n] = s[i + n]
      /\ l \in Nat /\ i \in 1..l
    OBVIOUS
<1>2. RemoveAt(s, i) = a \o b
    BY DEF RemoveAt
<1> HIDE DEF a, b, l
<1>3. /\ a \o b \in Seq(S) /\ Len(a \o b) = Len(a) + Len(b)
      /\ \A n \in 1..(Len(a) + Len(b)) : (a \o b)[n] = IF n <= Len(a) THEN a[n] ELSE b[n - Len(a)]
    BY <1>1, ConcatProperties
<1>4. Len(a \o b) = l - 1
    BY <1>1, <1>3
<1>5. ASSUME NEW n \in 1..(l - 1) PROVE (a \o b)[n] = s[IF n < i THEN n ELSE n + 1]
    <2>1. n \in 1..(Len(a) + Len(b))
        BY <1>1
    <2>2. CASE n < i
        BY <1>1, <1>3, <2>1, <2>2
    <2>3. CASE ~(n < i)
        <3>1. n - (i - 1) \in 1..(l - i) /\ i + (n - (i - 1)) = n + 1 /\ ~(n <= Len(a))
            BY <1>1, <2>3
        <3> QED BY <1>1, <1>3, <2>1, <2>3, <3>1
    <2> QED BY <2>2, <2>3
<1> QED BY <1>2, <1>3, <1>4, <1>5 DEF l

-----------------------------------------------------------------------------
(* Folds over finite sets and sequences *)

LEMMA CountUp ==
    ASSUME NEW n \in Nat, NEW T, 0 \in T, \A i \in 1..n : i - 1 \in T => i \in T
    PROVE  \A i \in 0..n : i \in T
<1> DEFINE R == {i \in 0..n : i \notin T}
<1>1. SUFFICES ASSUME R # {} PROVE FALSE
    OBVIOUS
<1>2. PICK x \in R : \A y \in R : x <= y
    <2>1. R \subseteq Nat
        OBVIOUS
    <2> HIDE DEF R
    <2> QED BY <1>1, <2>1, LeastNumber
<1>3. x \in 1..n /\ x - 1 \in 0..n /\ ~(x <= x - 1)
    BY <1>2
<1>4. x - 1 \in T
    BY <1>2, <1>3
<1> QED BY <1>2, <1>3, <1>4

LEMMA SmallerSubset ==
    ASSUME NEW D, IsFiniteSet(D), NEW s \in SUBSET D, NEW x \in s
    PROVE  /\ Cardinality(s) \in Nat \ {0} /\ Cardinality(s \ {x}) = Cardinality(s) - 1
           /\ IsFiniteSet(s) /\ s \ {x} \in SUBSET D
<1>1. IsFiniteSet(s)
    BY FS_Subset
<1>2. Cardinality(s) \in Nat /\ Cardinality(s) # 0
    BY <1>1, FS_CardinalityType, FS_EmptySet
<1>3. Cardinality(s \ {x}) = Cardinality(s) - 1
    BY <1>1, FS_RemoveElement
<1> QED BY <1>1, <1>2, <1>3

\* A set of subsets that has the empty one, and every one from which some
\* element can be taken without leaving the set, has them all.
LEMMA SubsetInduction ==
    ASSUME NEW D, IsFiniteSet(D), NEW T, {} \in T,
           \A s \in SUBSET D : s # {} => \E x \in s : s \ {x} \in T => s \in T
    PROVE  \A s \in SUBSET D : s \in T
<1> DEFINE N == {n \in Nat : \A s \in SUBSET D : Cardinality(s) = n => s \in T}
<1>1. 0 \in N
    <2>1. ASSUME NEW s \in SUBSET D, Cardinality(s) = 0 PROVE s \in T
        <3>1. IsFiniteSet(s)
            BY FS_Subset
        <3>2. s = {}
            BY <2>1, <3>1, FS_EmptySet
        <3> QED BY <3>2
    <2> QED BY <2>1
<1>2. Cardinality(D) \in Nat
    BY FS_CardinalityType
<1>3. ASSUME NEW n \in 1..Cardinality(D), n - 1 \in N PROVE n \in N
    <2>1. ASSUME NEW s \in SUBSET D, Cardinality(s) = n PROVE s \in T
        <3>1. IsFiniteSet(s) /\ s # {}
            BY <1>2, <2>1, FS_Subset, FS_EmptySet
        <3>2. PICK x \in s : s \ {x} \in T => s \in T
            BY <3>1
        <3>3. Cardinality(s \ {x}) = n - 1 /\ s \ {x} \in SUBSET D
            BY <2>1, SmallerSubset
        <3>4. s \ {x} \in T
            BY <1>3, <3>3
        <3> QED BY <3>2, <3>4
    <2>2. n \in Nat
        BY <1>2
    <2> QED BY <2>1, <2>2
<1> HIDE DEF N
<1>4. \A n \in 0..Cardinality(D) : n \in N
    BY <1>1, <1>2, <1>3, CountUp
<1>5. ASSUME NEW s \in SUBSET D PROVE s \in T
    <2>1. IsFiniteSet(s) /\ Cardinality(s) <= Cardinality(D)
        BY FS_Subset
    <2>2. Cardinality(s) \in 0..Cardinality(D)
        BY <1>2, <2>1, FS_CardinalityType
    <2>3. Cardinality(s) \in N
        BY <1>4, <2>2
    <2> QED BY <2>3 DEF N
<1> QED BY <1>5

\* A function of the subsets of D up to a size is given by what it is of the
\* empty set and how it follows from the subset without the element chosen.
Small(D, n) == {s \in SUBSET D : Cardinality(s) <= n}
Unfolds(f, base, c, go, subsets) ==
    \A s \in subsets : f[s] = IF s = {} THEN base ELSE go[<<s, f[s \ {c[s]}]>>]

LEMMA SetRecursion ==
    ASSUME NEW D, IsFiniteSet(D), NEW T, NEW base \in T,
           NEW c, \A s \in SUBSET D : s # {} => c[s] \in s,
           NEW go \in [(SUBSET D) \X T -> T]
    PROVE  \E f \in [SUBSET D -> T] : Unfolds(f, base, c, go, SUBSET D)
<1> DEFINE N == {n \in Nat : \E f \in [Small(D, n) -> T] : Unfolds(f, base, c, go, Small(D, n))}
<1>1. Cardinality(D) \in Nat
    BY FS_CardinalityType
<1>2. 0 \in N
    <2> DEFINE f == [s \in Small(D, 0) |-> base]
    <2>1. \A s \in Small(D, 0) : s = {}
        <3> TAKE s \in Small(D, 0)
        <3>1. IsFiniteSet(s) /\ Cardinality(s) <= 0
            BY FS_Subset DEF Small
        <3>2. Cardinality(s) = 0
            BY <3>1, FS_CardinalityType
        <3> QED BY <3>1, <3>2, FS_EmptySet
    <2>2. f \in [Small(D, 0) -> T] /\ Unfolds(f, base, c, go, Small(D, 0))
        BY <2>1 DEF Unfolds
    <2> QED BY <2>2
<1>3. ASSUME NEW n \in 1..Cardinality(D), n - 1 \in N PROVE n \in N
    <2>1. n \in Nat /\ n - 1 \in Nat
        BY <1>1
    <2>2. PICK f \in [Small(D, n - 1) -> T] : Unfolds(f, base, c, go, Small(D, n - 1))
        BY <1>3
    <2> DEFINE g == [s \in Small(D, n) |-> IF s = {} THEN base ELSE go[<<s, f[s \ {c[s]}]>>]]
    <2>3. ASSUME NEW s \in Small(D, n), s # {}
          PROVE  s \ {c[s]} \in Small(D, n - 1) /\ s \ {c[s]} \in Small(D, n)
        <3>1. s \in SUBSET D /\ Cardinality(s) <= n /\ c[s] \in s
            BY <2>3 DEF Small
        <3>2. /\ Cardinality(s) \in Nat \ {0} /\ Cardinality(s \ {c[s]}) = Cardinality(s) - 1
              /\ s \ {c[s]} \in SUBSET D
            <4>1. PICK x \in s : x = c[s]
                BY <3>1
            <4>2. /\ Cardinality(s) \in Nat \ {0} /\ Cardinality(s \ {x}) = Cardinality(s) - 1
                  /\ s \ {x} \in SUBSET D
                BY <3>1, SmallerSubset
            <4> QED BY <4>1, <4>2
        <3>3. Cardinality(s) - 1 <= n - 1 /\ Cardinality(s) - 1 <= n
            BY <2>1, <3>1, <3>2
        <3> QED BY <3>2, <3>3 DEF Small
    <2>4. ASSUME NEW s \in Small(D, n) PROVE g[s] \in T
        <3>1. CASE s = {}
            BY <3>1
        <3>2. CASE s # {}
            <4>1. f[s \ {c[s]}] \in T /\ s \in SUBSET D
                BY <2>2, <2>3, <3>2 DEF Small
            <4> QED BY <3>2, <4>1
        <3> QED BY <3>1, <3>2
    <2>5. ASSUME NEW s \in Small(D, n - 1) PROVE g[s] = f[s]
        <3>1. s \in Small(D, n)
            <4>1. Cardinality(s) \in Nat /\ Cardinality(s) <= n - 1 /\ s \in SUBSET D
                BY FS_Subset, FS_CardinalityType DEF Small
            <4> QED BY <2>1, <4>1 DEF Small
        <3>2. f[s] = IF s = {} THEN base ELSE go[<<s, f[s \ {c[s]}]>>]
            BY <2>2 DEF Unfolds
        <3> QED BY <3>1, <3>2
    <2>6. ASSUME NEW s \in Small(D, n)
          PROVE  g[s] = IF s = {} THEN base ELSE go[<<s, g[s \ {c[s]}]>>]
        <3>1. CASE s = {}
            BY <3>1
        <3>2. CASE s # {}
            <4>1. g[s \ {c[s]}] = f[s \ {c[s]}]
                BY <2>3, <2>5, <3>2
            <4> QED BY <3>2, <4>1
        <3> QED BY <3>1, <3>2
    <2> HIDE DEF g
    <2>7. g \in [Small(D, n) -> T]
        BY <2>4 DEF g
    <2>8. Unfolds(g, base, c, go, Small(D, n))
        BY <2>6 DEF Unfolds
    <2> QED BY <2>1, <2>7, <2>8
<1>4. \A n \in 0..Cardinality(D) : n \in N
    <2> HIDE DEF N
    <2> QED BY <1>1, <1>2, <1>3, CountUp
<1>5. Cardinality(D) \in N
    <2> HIDE DEF N
    <2>1. Cardinality(D) \in 0..Cardinality(D)
        BY <1>1
    <2> QED BY <1>4, <2>1
<1>6. Small(D, Cardinality(D)) = SUBSET D
    <2>1. ASSUME NEW s \in SUBSET D PROVE Cardinality(s) <= Cardinality(D)
        BY FS_Subset
    <2> QED BY <2>1 DEF Small
<1> QED BY ZenonT(60), <1>5, <1>6

LEMMA GreatestIs ==
    ASSUME NEW n \in Nat, NEW s \in SUBSET (1..n), s # {}
    PROVE  Max(s) \in s /\ \A y \in s : y <= Max(s)
<1> DEFINE R == {n - x : x \in s}
<1>1. R \subseteq Nat /\ R # {}
    <2>1. PICK x \in s : TRUE
        OBVIOUS
    <2>2. n - x \in R
        BY <2>1
    <2>3. \A y \in s : n - y \in Nat
        OBVIOUS
    <2> QED BY <2>2, <2>3
<1> HIDE DEF R
<1>2. PICK r \in R : \A y \in R : r <= y
    BY <1>1, LeastNumber
<1>3. PICK x \in s : r = n - x
    BY <1>2 DEF R
<1>4. ASSUME NEW y \in s PROVE x >= y
    <2>1. r <= n - y
        BY <1>2 DEF R
    <2> QED BY <1>3, <2>1
<1>5. \E z \in s : \A y \in s : z >= y
    BY <1>4
<1>6. Max(s) \in s /\ \A y \in s : Max(s) >= y
    BY <1>5 DEF Max
<1> QED BY <1>6

LEMMA GreatestUpTo == ASSUME NEW n \in Nat \ {0} PROVE Max(1..n) = n /\ (1..n) \ {n} = 1..(n - 1)
<1>1. 1..n \in SUBSET (1..n) /\ n \in 1..n
    OBVIOUS
<1>2. Max(1..n) \in 1..n /\ \A y \in 1..n : y <= Max(1..n)
    BY <1>1, GreatestIs
<1>3. Max(1..n) = n
    BY <1>1, <1>2
<1> QED BY <1>3

\* The works that join from a page, one after the other.
PageChain(h, got, page, W) ==
    /\ h[0] = got /\ h[Len(page)] = WithPage(got, page)
    /\ \A n \in 0..Len(page) : h[n] \in Seq(W)
    /\ \A n \in 1..Len(page) : h[n] = Joined(h[n - 1], page[n])

LEMMA PageSteps ==
    ASSUME NEW W, NEW got \in Seq(W), NEW page \in Seq(W),
           \A g \in Seq(W), w \in W : Joined(g, w) \in Seq(W)
    PROVE  \E h : PageChain(h, got, page, W)
<1> DEFINE D == DOMAIN page
<1> DEFINE Unfolded(it) ==
        it = [s \in SUBSET D |-> IF s = {} THEN got ELSE Joined(it[s \ {Max(s)}], page[Max(s)])]
<1>1. Len(page) \in Nat /\ D = 1..Len(page)
    OBVIOUS
<1>2. IsFiniteSet(D)
    BY <1>1, FS_Interval
<1>3. ASSUME NEW s \in SUBSET D, s # {} PROVE Max(s) \in s /\ page[Max(s)] \in W
    <2>1. Max(s) \in s
        BY <1>1, <1>3, GreatestIs
    <2> QED BY <1>1, <2>1
<1>4. \E it : Unfolded(it)
    <2> DEFINE c == [s \in SUBSET D |-> Max(s)]
    <2> DEFINE go == [x \in (SUBSET D) \X Seq(W) |->
                          IF x[1] = {} THEN got ELSE Joined(x[2], page[Max(x[1])])]
    <2>1. \A s \in SUBSET D : s # {} => c[s] \in s
        BY <1>3
    <2>2. go \in [(SUBSET D) \X Seq(W) -> Seq(W)]
        <3>1. ASSUME NEW x \in (SUBSET D) \X Seq(W) PROVE go[x] \in Seq(W)
            <4>1. CASE x[1] = {}
                BY <4>1
            <4>2. CASE x[1] # {}
                <5>1. x[1] \in SUBSET D /\ x[2] \in Seq(W)
                    OBVIOUS
                <5>2. page[Max(x[1])] \in W
                    BY <1>3, <4>2, <5>1
                <5>3. Joined(x[2], page[Max(x[1])]) \in Seq(W)
                    BY <5>1, <5>2
                <5> QED BY <4>2, <5>3
            <4> QED BY <4>1, <4>2
        <3> QED BY <3>1
    <2> HIDE DEF D
    <2>3. PICK f \in [SUBSET D -> Seq(W)] : Unfolds(f, got, c, go, SUBSET D)
        <3> HIDE DEF c, go
        <3> QED BY <1>2, <2>1, <2>2, SetRecursion
    <2>4. ASSUME NEW s \in SUBSET D
          PROVE  f[s] = IF s = {} THEN got ELSE Joined(f[s \ {Max(s)}], page[Max(s)])
        <3>1. f[s] = IF s = {} THEN got ELSE go[<<s, f[s \ {c[s]}]>>]
            BY <2>3 DEF Unfolds
        <3>2. ASSUME s # {} PROVE go[<<s, f[s \ {c[s]}]>>] = Joined(f[s \ {Max(s)}], page[Max(s)])
            <4>1. c[s] = Max(s)
                OBVIOUS
            <4>2. <<s, f[s \ {Max(s)}]>> \in (SUBSET D) \X Seq(W)
                OBVIOUS
            <4> HIDE DEF c
            <4> QED BY <3>2, <4>1, <4>2
        <3> QED BY <3>1, <3>2
    <2>5. f = [s \in SUBSET D |-> IF s = {} THEN got ELSE Joined(f[s \ {Max(s)}], page[Max(s)])]
        BY <2>4
    <2> QED BY <2>5
<1> DEFINE It == CHOOSE it : Unfolded(it)
<1>5. WithPage(got, page) = It[D]
    BY DEF WithPage, FoldLeft, MapThenFoldSet
<1>6. Unfolded(It)
    <2> HIDE DEF Unfolded
    <2> QED BY <1>4
<1> HIDE DEF It
<1>7. \A s \in SUBSET D : It[s] = IF s = {} THEN got ELSE Joined(It[s \ {Max(s)}], page[Max(s)])
    <2> HIDE DEF D
    <2> QED BY <1>6, Zenon
<1> HIDE DEF Unfolded, D
<1> DEFINE h == [n \in 0..Len(page) |-> It[1..n]]
<1>8. h[0] = got
    <2>1. {} \in SUBSET D /\ 1..0 = {} /\ 0 \in 0..Len(page)
        BY <1>1
    <2> QED BY <1>7, <2>1
<1>9. ASSUME NEW n \in 1..Len(page) PROVE h[n] = Joined(h[n - 1], page[n])
    <2>1. /\ n \in Nat \ {0} /\ 1..n \in SUBSET D /\ 1..n # {}
          /\ n \in 0..Len(page) /\ n - 1 \in 0..Len(page)
        <3>1. n \in Nat \ {0} /\ n \in 0..Len(page) /\ n - 1 \in 0..Len(page) /\ n \in 1..n
            <4>1. \A m \in Nat : \A i \in 1..m :
                      i \in Nat \ {0} /\ i \in 0..m /\ i - 1 \in 0..m /\ i \in 1..i
                OBVIOUS
            <4> QED BY <1>1, <4>1
        <3>2. \A k \in 1..n : k \in 1..Len(page)
            BY <1>1
        <3>3. 1..n \in SUBSET D /\ 1..n # {}
            BY <1>1, <3>1, <3>2
        <3> QED BY <3>1, <3>3
    <2>2. Max(1..n) = n /\ (1..n) \ {n} = 1..(n - 1)
        BY <2>1, GreatestUpTo
    <2>3. It[1..n] = Joined(It[(1..n) \ {n}], page[n])
        BY <1>7, <2>1, <2>2
    <2> QED BY <2>1, <2>2, <2>3
<1>10. h[Len(page)] = WithPage(got, page)
    BY <1>1, <1>5
<1> HIDE DEF h
<1> DEFINE T == {n \in Nat : h[n] \in Seq(W)}
<1>11. \A n \in 0..Len(page) : n \in T
    <2>1. 0 \in T
        BY <1>8
    <2>2. ASSUME NEW n \in 1..Len(page), n - 1 \in T PROVE n \in T
        <3>1. page[n] \in W /\ n \in Nat
            BY <1>1
        <3>2. Joined(h[n - 1], page[n]) \in Seq(W)
            BY <2>2, <3>1
        <3> QED BY <1>9, <3>1, <3>2
    <2> HIDE DEF T
    <2> QED BY <1>1, <2>1, <2>2, CountUp
<1>12. \A n \in 0..Len(page) : h[n] \in Seq(W)
    BY <1>11
<1> QED BY <1>8, <1>9, <1>10, <1>12 DEF PageChain

-----------------------------------------------------------------------------
(* TikTokRisk *)

\* A pause that is not over is a cooldown that has its end.
Paused == \A k \in RiskKeys :
             pausedAt[k] = 0 \/ now >= pausedAt[k] + Pause \/ cooldown[k] = pausedAt[k] + Pause
RiskInv == RiskTypeOK /\ Paused

LEMMA RiskBegins == RiskInit => RiskInv
<1> SUFFICES ASSUME RiskInit PROVE RiskInv
    OBVIOUS
<1>1. Pause \in Nat /\ MaxTicks \in Nat \ {0} /\ 1 \in 1..MaxTicks /\ 0 \in 0..(MaxTicks + Pause)
    BY RiskAssumption
<1>2. RiskTypeOK
    <2>1. cooldown \in [RiskKeys -> 0..(MaxTicks + Pause)] /\ pausedAt \in [RiskKeys -> 0..MaxTicks]
        BY <1>1 DEF RiskInit
    <2>2. request \in [Callers -> [at : {"rest", "bridge", "asking"}, what : Whats, label : Labels]]
        BY DEF RiskInit, Resting, Whats, Labels
    <2> QED BY <1>1, <2>1, <2>2 DEF RiskInit, RiskTypeOK
<1>3. Paused
    BY DEF RiskInit, Paused
<1> QED BY <1>2, <1>3 DEF RiskInv

\* A signal that calls for a pause keeps it for its key.
LEMMA ApplyKeeps ==
    ASSUME RiskInv, NEW signal, signal.scope \in {"account", "session"}, NEW label \in Labels,
           Apply(signal, label), now' = now
    PROVE  /\ cooldown' \in [RiskKeys -> 0..(MaxTicks + Pause)]
           /\ pausedAt' \in [RiskKeys -> 0..MaxTicks] /\ Paused'
<1> DEFINE k == StorageKey(signal, label)
<1>1. k \in RiskKeys /\ (IF signal.scope = "account" THEN label ELSE "session") = k
    BY DEF StorageKey, RiskKeys
<1>2. /\ now \in 1..MaxTicks /\ Pause \in Nat /\ MaxTicks \in Nat
      /\ cooldown \in [RiskKeys -> 0..(MaxTicks + Pause)] /\ pausedAt \in [RiskKeys -> 0..MaxTicks]
    BY RiskAssumption DEF RiskInv, RiskTypeOK
<1>3. CASE Applies(signal)
    <2>1. /\ cooldown' = [cooldown EXCEPT ![k] = IF Pause > 0 THEN now + Pause ELSE 0]
          /\ pausedAt' = [pausedAt EXCEPT ![k] = now]
        BY <1>1, <1>3 DEF Apply
    <2> HIDE DEF k
    <2>2. now \in 0..MaxTicks /\ now + Pause \in 0..(MaxTicks + Pause) /\ 0 \in 0..(MaxTicks + Pause)
        BY <1>2
    <2>3. /\ cooldown' \in [RiskKeys -> 0..(MaxTicks + Pause)]
          /\ pausedAt' \in [RiskKeys -> 0..MaxTicks]
        BY <1>1, <1>2, <2>1, <2>2
    <2>4. cooldown'[k] = (IF Pause > 0 THEN now + Pause ELSE 0) /\ pausedAt'[k] = now
        BY <1>1, <1>2, <2>1
    <2>5. \A j \in RiskKeys \ {k} : cooldown'[j] = cooldown[j] /\ pausedAt'[j] = pausedAt[j]
        BY <1>1, <1>2, <2>1
    <2>6. \A j \in RiskKeys : pausedAt'[j] = 0 \/ now >= pausedAt'[j] + Pause
                                             \/ cooldown'[j] = pausedAt'[j] + Pause
        BY <1>2, <2>4, <2>5 DEF RiskInv, Paused
    <2> QED BY <2>3, <2>6 DEF Paused
<1>4. CASE ~Applies(signal)
    <2>1. cooldown' = cooldown /\ pausedAt' = pausedAt
        BY <1>4 DEF Apply
    <2> QED BY <1>2, <2>1 DEF RiskInv, Paused
<1> QED BY <1>3, <1>4

LEMMA ClearKeeps ==
    ASSUME RiskInv, NEW label \in Labels, ClearAccount(label), now' = now
    PROVE  /\ cooldown' \in [RiskKeys -> 0..(MaxTicks + Pause)]
           /\ pausedAt' \in [RiskKeys -> 0..MaxTicks] /\ Paused'
<1>1. /\ label \in RiskKeys /\ Pause \in Nat /\ MaxTicks \in Nat
      /\ cooldown \in [RiskKeys -> 0..(MaxTicks + Pause)] /\ pausedAt \in [RiskKeys -> 0..MaxTicks]
      /\ 0 \in 0..(MaxTicks + Pause) /\ 0 \in 0..MaxTicks
    BY RiskAssumption DEF RiskInv, RiskTypeOK, RiskKeys
<1>2. \A j \in RiskKeys : IF j = label THEN pausedAt'[j] = 0
                          ELSE cooldown'[j] = cooldown[j] /\ pausedAt'[j] = pausedAt[j]
    BY <1>1 DEF ClearAccount
<1> QED BY <1>1, <1>2 DEF ClearAccount, RiskInv, Paused

LEMMA SignalsScoped ==
    /\ \A fault, what : FaultSignal(fault, what).scope \in {"account", "session"}
    /\ \A answer \in Answers : \A what : AnswerSignal(answer, what).scope \in {"account", "session"}
BY DEF FaultSignal, AnswerSignal, NoSignal, Answers

\* A request names its account by a label, and keeps it when it moves on.
LEMMA MovesKeeps ==
    ASSUME RiskInv, NEW c \in Callers, NEW at \in {"rest", "bridge", "asking"}, Moves(c, at)
    PROVE  /\ request' \in [Callers -> [at : {"rest", "bridge", "asking"}, what : Whats, label : Labels]]
           /\ request[c].label \in Labels
           /\ \A o \in Callers : request'[o].label = request[o].label
BY DEF RiskInv, RiskTypeOK, Moves

LEMMA RiskKeeps == RiskInv /\ [RiskNext]_riskVars => RiskInv'
<1> SUFFICES ASSUME RiskInv, [RiskNext]_riskVars PROVE RiskInv'
    OBVIOUS
<1> DEFINE Requests == [Callers -> [at : {"rest", "bridge", "asking"}, what : Whats, label : Labels]]
<1>1. CASE UNCHANGED riskVars
    BY <1>1 DEF RiskInv, RiskTypeOK, Paused, riskVars
<1>2. CASE RiskTick
    <2>1. /\ now \in 1..MaxTicks /\ Pause \in Nat /\ MaxTicks \in Nat /\ now' = now + 1 /\ now < MaxTicks
          /\ cooldown' = cooldown /\ pausedAt' = pausedAt /\ pausedAt \in [RiskKeys -> 0..MaxTicks]
        BY <1>2, RiskAssumption DEF RiskTick, RiskInv, RiskTypeOK
    <2>2. now' \in 1..MaxTicks
        BY <2>1
    <2>3. Paused'
        BY <2>1 DEF RiskInv, Paused
    <2> QED BY <1>2, <2>2, <2>3 DEF RiskTick, RiskInv, RiskTypeOK
<1>3. ASSUME NEW c \in Callers, NEW what \in Whats, NEW labels \in SUBSET Labels,
             Falls(c, what, labels)
      PROVE  RiskInv'
    BY <1>3 DEF Falls, RiskInv, RiskTypeOK, Paused
<1>4. ASSUME NEW c \in Callers, BridgeAsks(c) PROVE RiskInv'
    <2>1. /\ now \in 1..MaxTicks /\ Pause \in Nat /\ MaxTicks \in Nat
          /\ cooldown \in [RiskKeys -> 0..(MaxTicks + Pause)] /\ pausedAt \in [RiskKeys -> 0..MaxTicks]
        BY RiskAssumption DEF RiskInv, RiskTypeOK
    <2>2. /\ cooldown' \in [RiskKeys -> 0..(MaxTicks + Pause)]
          /\ \A k \in RiskKeys : cooldown'[k] = IF now < cooldown[k] THEN cooldown[k] ELSE 0
        BY <1>4, <2>1 DEF BridgeAsks, Pruned
    <2>3. Paused'
        BY <1>4, <2>1, <2>2 DEF BridgeAsks, RiskInv, Paused
    <2>4. request' \in Requests
        BY <1>4, MovesKeeps DEF BridgeAsks
    <2> QED BY <1>4, <2>2, <2>3, <2>4 DEF BridgeAsks, RiskInv, RiskTypeOK
<1>5. ASSUME NEW c \in Callers, Moves(c, "rest"), UNCHANGED <<now, skipOnRisk>>,
             worksKnown' \in BOOLEAN, NEW signal, signal.scope \in {"account", "session"},
             \/ Apply(signal, request[c].label) \/ ClearAccount(request[c].label)
             \/ UNCHANGED <<cooldown, pausedAt>>
      PROVE  RiskInv'
    <2>1. request' \in Requests /\ request[c].label \in Labels
        BY <1>5, MovesKeeps
    <2>2. /\ cooldown' \in [RiskKeys -> 0..(MaxTicks + Pause)]
          /\ pausedAt' \in [RiskKeys -> 0..MaxTicks] /\ Paused'
        <3>1. CASE Apply(signal, request[c].label)
            BY <1>5, <2>1, <3>1, ApplyKeeps
        <3>2. CASE ClearAccount(request[c].label)
            BY <1>5, <2>1, <3>2, ClearKeeps
        <3>3. CASE UNCHANGED <<cooldown, pausedAt>>
            BY <1>5, <3>3 DEF RiskInv, RiskTypeOK, Paused
        <3> QED BY <1>5, <3>1, <3>2, <3>3
    <2> QED BY <1>5, <2>1, <2>2 DEF RiskInv, RiskTypeOK
<1>6. ASSUME NEW c \in Callers, BridgeFails(c) PROVE RiskInv'
    <2>1. PICK fault \in Faults : Apply(FaultSignal(fault, request[c].what), request[c].label)
        BY <1>6 DEF BridgeFails
    <2> QED BY <1>5, <1>6, <2>1, SignalsScoped DEF BridgeFails, RiskInv, RiskTypeOK
<1>7. ASSUME NEW c \in Callers,
             InfoAnswered(c) \/ ItemsAnswered(c) \/ DetailAnswered(c) \/ Downloaded(c)
      PROVE  RiskInv'
    <2>1. Moves(c, "rest") /\ UNCHANGED <<now, skipOnRisk>> /\ worksKnown' \in BOOLEAN
        BY <1>7 DEF InfoAnswered, ItemsAnswered, DetailAnswered, Downloaded, Ends, RiskInv, RiskTypeOK
    <2>2. \/ Well(c) \/ UNCHANGED <<cooldown, pausedAt>>
          \/ \E answer \in Answers, what \in Whats : Apply(AnswerSignal(answer, what), request[c].label)
        BY <1>7 DEF InfoAnswered, ItemsAnswered, DetailAnswered, Downloaded, Whats
    <2>3. CASE Well(c) \/ UNCHANGED <<cooldown, pausedAt>>
        <3>1. NoSignal.scope \in {"account", "session"}
            BY DEF NoSignal
        <3> QED BY <1>5, <2>1, <2>3, <3>1 DEF Well
    <2>4. CASE \E answer \in Answers, what \in Whats : Apply(AnswerSignal(answer, what), request[c].label)
        BY <1>5, <2>1, <2>4, SignalsScoped
    <2> QED BY <2>2, <2>3, <2>4
<1>8. ASSUME NEW c \in Callers, InfoFails(c) \/ ItemsFail(c) \/ DetailFails(c) \/ DownloadForbidden(c)
      PROVE  RiskInv'
    BY <1>3, <1>8 DEF InfoFails, ItemsFail, DetailFails, DownloadForbidden, Whats, Labels
<1> QED BY <1>1, <1>2, <1>4, <1>6, <1>7, <1>8 DEF RiskNext

\* A request that goes out finds no pause of its account or of the session.
LEMMA AsksAfterPause ==
    ASSUME RiskInv, [RiskNext]_riskVars, NEW c \in Callers,
           request[c].at = "bridge", request'[c].at = "asking",
           NEW k \in {request[c].label, "session"}
    PROVE  pausedAt[k] = 0 \/ now >= pausedAt[k] + Pause
<1>1. ASSUME NEW o \in Callers, NEW at, Moves(o, at), o # c \/ at = "rest" PROVE FALSE
    BY <1>1 DEF Moves, RiskInv, RiskTypeOK
<1>2. BridgeAsks(c)
    <2>1. ~UNCHANGED riskVars /\ ~RiskTick
        <3>1. request' # request
            OBVIOUS
        <3> QED BY <3>1 DEF riskVars, RiskTick
    <2>2. ASSUME NEW o \in Callers, NEW what, NEW labels, Falls(o, what, labels) PROVE FALSE
        BY <2>2 DEF Falls, RiskInv, RiskTypeOK
    <2>3. ASSUME NEW o \in Callers, BridgeAsks(o), o # c PROVE FALSE
        BY <1>1, <2>3 DEF BridgeAsks
    <2>4. ASSUME NEW o \in Callers, NEW what, Ends(o, what) PROVE FALSE
        BY <1>1, <2>4 DEF Ends
    <2>5. ASSUME NEW o \in Callers, BridgeFails(o) PROVE FALSE
        BY <1>1, <2>5 DEF BridgeFails
    <2> QED BY <2>1, <2>2, <2>3, <2>4, <2>5 DEF RiskNext, InfoFails, ItemsFail, DetailFails,
               DownloadForbidden, InfoAnswered, ItemsAnswered, DetailAnswered, Downloaded
<1>3. ~InCooldown(request[c].label)
    BY <1>1, <1>2 DEF BridgeAsks
<1>4. /\ request[c].label \in Labels /\ k \in RiskKeys /\ now \in Nat /\ cooldown[k] \in Nat
      /\ pausedAt[k] \in Nat /\ Pause \in Nat
    BY RiskAssumption DEF RiskInv, RiskTypeOK, RiskKeys
<1>5. now >= cooldown[k]
    BY <1>3, <1>4 DEF InCooldown
<1> QED BY <1>4, <1>5 DEF RiskInv, Paused

\* Pauses, requests and the clock of the bridge keep their types, for every
\* number of callers (tiktok_api.py).
THEOREM RiskTypeCorrect == RiskSpec => []RiskTypeOK
<1>1. RiskInv => RiskTypeOK
    BY DEF RiskInv
<1> QED BY <1>1, RiskBegins, RiskKeeps, PTL DEF RiskSpec

\* A pause that one caller's failure called for holds for every caller.
THEOREM RiskPausesKept == RiskSpec => PausesKept
<1>1. RiskInv /\ [RiskNext]_riskVars =>
        [\A c \in Callers :
           (request[c].at = "bridge" /\ request'[c].at = "asking") =>
               \A k \in {request[c].label, "session"} :
                   pausedAt[k] = 0 \/ now >= pausedAt[k] + Pause]_riskVars
    BY AsksAfterPause
<1> QED BY <1>1, RiskBegins, RiskKeeps, PTL DEF RiskSpec, PausesKept

-----------------------------------------------------------------------------
(* FeedComments *)

\* Who asks for comments stands in the line, once, and its first is inside.
InSlot(v) == \E n \in 1..Len(slot) : slot[n] = v
OneInside ==
    /\ \A m, n \in 1..Len(slot) : slot[m] = slot[n] => m = n
    /\ \A v \in Viewers : viewer[v].at # "idle" <=> InSlot(v)
    /\ \A v \in Viewers : viewer[v].at \in Inside => Len(slot) > 0 /\ slot[1] = v
Spacing ==
    /\ lastFetch <= commentClock /\ lastRequest <= commentClock /\ earlier <= lastFetch
    /\ \A v \in Viewers : viewer[v].at = "asking" => commentClock >= lastFetch + viewer[v].gap
\* The cache has answers only, and none that is promised for longer.
KeptAnswers ==
    /\ Len(cache) <= CacheSize
    /\ \A e \in 1..Len(cache) : /\ cache[e].expires <= commentClock + Fresh
                                /\ cache[e].reply \in {"comments", "empty"}
ShownAnswers == shown.age > 0 => shown.age <= Fresh /\ shown.reply \in {"comments", "empty"}
CommentsInv == CommentsTypeOK /\ OneInside /\ Spacing /\ KeptAnswers /\ ShownAnswers

ViewerRows == [at : {"idle", "queued"} \cup Inside, wants : CommentPages, gap : Delays,
               gone : BOOLEAN]
ShownRows == [reply : Replies \cup {"nothing"}, age : Nat]
CacheEntries == [page : CommentPages, expires : Nat, reply : Replies]
GoodCache(c) ==
    /\ c \in Seq(CacheEntries) /\ Len(c) <= CacheSize
    /\ \A e \in 1..Len(c) : /\ c[e].expires <= commentClock + Fresh
                            /\ c[e].reply \in {"comments", "empty"}

LEMMA CommentsConstants ==
    /\ Delays \subseteq Nat /\ Fresh \in Nat /\ CacheSize \in Nat /\ CacheSize > 0
    /\ MaxTime \in Nat
BY CommentsAssumption

LEMMA CommentsTypes ==
    CommentsTypeOK <=>
        /\ commentClock \in 0..MaxTime /\ lastFetch \in 0..MaxTime /\ lastRequest \in 0..MaxTime
        /\ earlier \in 0..MaxTime /\ delay \in Delays
        /\ cache \in Seq(CacheEntries) /\ slot \in Seq(Viewers)
        /\ viewer \in [Viewers -> ViewerRows] /\ shown \in ShownRows
BY DEF CommentsTypeOK, CacheEntries, ViewerRows, ShownRows

LEMMA NoRequestTyped == NoRequest \in ViewerRows /\ NoRequest.at = "idle"
<1>1. (CHOOSE p \in CommentPages : TRUE) \in CommentPages /\ (CHOOSE d \in Delays : TRUE) \in Delays
    BY CommentsAssumption
<1> QED BY <1>1 DEF NoRequest, ViewerRows

LEMMA CommentsBegin == CommentsInit => CommentsInv
<1> SUFFICES ASSUME CommentsInit PROVE CommentsInv
    OBVIOUS
<1>1. /\ commentClock = 0 /\ lastFetch = 0 /\ lastRequest = 0 /\ earlier = 0
      /\ cache = <<>> /\ slot = <<>> /\ viewer = [v \in Viewers |-> NoRequest]
      /\ shown = [reply |-> "nothing", age |-> 0] /\ delay = CHOOSE d \in Delays : TRUE
    BY DEF CommentsInit
<1>2. viewer \in [Viewers -> ViewerRows] /\ \A v \in Viewers : viewer[v].at = "idle"
    BY <1>1, NoRequestTyped
<1>3. Len(<<>>) = 0 /\ 1..0 = {}
    OBVIOUS
<1>4. CommentsTypeOK
    <2>1. 0 \in 0..MaxTime
        BY CommentsConstants
    <2>2. shown \in ShownRows /\ delay \in Delays
        BY <1>1, CommentsAssumption DEF ShownRows
    <2> QED BY <1>1, <1>2, <2>1, <2>2, CommentsTypes
<1>5. OneInside
    BY <1>1, <1>2, <1>3 DEF OneInside, InSlot, Inside
<1>6. Spacing /\ KeptAnswers /\ ShownAnswers
    BY <1>1, <1>2, <1>3, CommentsConstants DEF Spacing, KeptAnswers, ShownAnswers
<1> QED BY <1>4, <1>5, <1>6 DEF CommentsInv

LEMMA CacheElements ==
    ASSUME CommentsInv
    PROVE  \A e \in 1..Len(cache) : /\ cache[e] \in CacheEntries /\ cache[e].expires \in Nat
                                    /\ cache[e].expires <= commentClock + Fresh
                                    /\ cache[e].reply \in {"comments", "empty"}
<1>1. cache \in Seq(CacheEntries)
    BY DEF CommentsInv, CommentsTypeOK, CacheEntries
<1>2. \A e \in 1..Len(cache) : cache[e] \in CacheEntries
    BY <1>1, ElementOfSeq
<1>3. \A x \in CacheEntries : x.expires \in Nat
    BY DEF CacheEntries
<1> QED BY <1>2, <1>3 DEF CommentsInv, KeptAnswers

\* Without a page's entry the cache is as good, and shorter if it had one.
LEMMA ExceptIs ==
    ASSUME CommentsInv, NEW p \in CommentPages
    PROVE  GoodCache(Except(p)) /\ (Entry(p) # {} => Len(Except(p)) + 1 <= CacheSize)
<1>1. cache \in Seq(CacheEntries) /\ GoodCache(cache) /\ Len(cache) \in Nat
    BY DEF CommentsInv, CommentsTypeOK, KeptAnswers, GoodCache, CacheEntries
<1>2. CASE Entry(p) = {}
    BY <1>1, <1>2 DEF Except
<1>3. CASE Entry(p) # {}
    <2> DEFINE i == CHOOSE e \in Entry(p) : TRUE
               r == RemoveAt(cache, i)
    <2>1. i \in 1..Len(cache) /\ Except(p) = r
        BY <1>3 DEF Except, Entry
    <2> HIDE DEF i
    <2>2. /\ r \in Seq(CacheEntries) /\ Len(r) = Len(cache) - 1
          /\ \A n \in 1..(Len(cache) - 1) : r[n] = cache[IF n < i THEN n ELSE n + 1]
        BY <1>1, <2>1, RemovedAt
    <2> HIDE DEF r
    <2>3. \A n \in 1..(Len(cache) - 1) : \E m \in 1..Len(cache) : r[n] = cache[m]
        <3>1. \A n \in 1..(Len(cache) - 1) : (IF n < i THEN n ELSE n + 1) \in 1..Len(cache)
            BY <1>1, <2>1
        <3> QED BY <2>2, <3>1
    <2>4. GoodCache(r)
        BY <1>1, <2>2, <2>3, CommentsConstants DEF GoodCache
    <2> QED BY <1>1, <2>1, <2>2, <2>4, CommentsConstants DEF GoodCache
<1> QED BY <1>2, <1>3

LEMMA GoodAppend ==
    ASSUME NEW c, GoodCache(c), NEW e \in CacheEntries, e.expires <= commentClock + Fresh,
           e.reply \in {"comments", "empty"}, Len(c) + 1 <= CacheSize
    PROVE  GoodCache(Append(c, e))
<1>1. /\ Append(c, e) \in Seq(CacheEntries) /\ Len(Append(c, e)) = Len(c) + 1
      /\ \A i \in 1..Len(c) : Append(c, e)[i] = c[i]
      /\ Append(c, e)[Len(c) + 1] = e /\ Len(c) \in Nat
    BY AppendProperties DEF GoodCache
<1>2. \A i \in 1..(Len(c) + 1) : i \in 1..Len(c) \/ i = Len(c) + 1
    BY <1>1
<1> QED BY <1>1, <1>2 DEF GoodCache

LEMMA RememberIs ==
    ASSUME CommentsInv, NEW p \in CommentPages, NEW said \in Replies
    PROVE  GoodCache(Remember(p, said))
<1>1. CASE said \in {"refused", "unavailable"}
    BY <1>1 DEF Remember, CommentsInv, CommentsTypeOK, KeptAnswers, GoodCache, CacheEntries
<1>2. CASE said \notin {"refused", "unavailable"}
    <2> DEFINE e == [page |-> p, expires |-> commentClock + Fresh, reply |-> said]
               x == Except(p)
               kept == Append(x, e)
    <2>1. /\ e \in CacheEntries /\ e.expires = commentClock + Fresh
          /\ e.reply \in {"comments", "empty"} /\ commentClock + Fresh \in Nat
        <3>1. commentClock + Fresh \in Nat
            BY CommentsConstants DEF CommentsInv, CommentsTypeOK
        <3> QED BY <1>2, <3>1 DEF CacheEntries, Replies
    <2>2. GoodCache(x)
        BY ExceptIs
    <2>3. Remember(p, said) = IF Len(kept) > CacheSize THEN Tail(kept) ELSE kept
        BY <1>2 DEF Remember
    <2> HIDE DEF e, x
    <2>4. /\ kept \in Seq(CacheEntries) /\ Len(kept) = Len(x) + 1 /\ Len(x) \in Nat
          /\ \A i \in 1..Len(x) : kept[i] = x[i]
          /\ kept[Len(x) + 1] = e
        BY <2>1, <2>2, AppendProperties DEF GoodCache
    <2> HIDE DEF kept
    <2>5. \A i \in 1..(Len(x) + 1) : /\ kept[i].expires <= commentClock + Fresh
                                     /\ kept[i].reply \in {"comments", "empty"}
        <3>1. \A i \in 1..(Len(x) + 1) : i \in 1..Len(x) \/ i = Len(x) + 1
            BY <2>4
        <3> QED BY <2>1, <2>2, <2>4, <3>1 DEF GoodCache
    <2>6. CASE Len(kept) > CacheSize
        <3>1. kept # <<>>
            BY <2>4
        <3>2. /\ Tail(kept) \in Seq(CacheEntries) /\ Len(Tail(kept)) = Len(x)
              /\ \A i \in 1..Len(x) : Tail(kept)[i] = kept[i + 1]
            BY <2>4, <3>1, HeadTailProperties
        <3>3. \A i \in 1..Len(x) : i + 1 \in 1..(Len(x) + 1)
            BY <2>4
        <3> QED BY <2>2, <2>3, <2>5, <2>6, <3>2, <3>3 DEF GoodCache
    <2>7. CASE ~(Len(kept) > CacheSize)
        BY <2>3, <2>4, <2>5, <2>7, CommentsConstants DEF GoodCache
    <2> QED BY <2>6, <2>7
<1> QED BY <1>1, <1>2

\* A viewer's request goes on, or is over; nothing else happens to viewers.
RowTurns(v, row) == row \in ViewerRows /\ viewer' = [viewer EXCEPT ![v] = row]

LEMMA RowTurnsIs ==
    ASSUME CommentsInv, NEW v \in Viewers, NEW row, RowTurns(v, row)
    PROVE  /\ viewer' \in [Viewers -> ViewerRows]
           /\ \A o \in Viewers : viewer'[o] = IF o = v THEN row ELSE viewer[o]
BY CommentsTypes DEF RowTurns, CommentsInv

\* A viewer without a request joins the end of the line.
LEMMA SlotJoined ==
    ASSUME CommentsInv, NEW v \in Viewers, viewer[v].at = "idle",
           NEW row, RowTurns(v, row), row.at = "queued", slot' = Append(slot, v)
    PROVE  OneInside' /\ slot' \in Seq(Viewers)
<1>1. /\ slot \in Seq(Viewers) /\ Len(slot) \in Nat
      /\ \A o \in Viewers : viewer'[o].at = IF o = v THEN "queued" ELSE viewer[o].at
    <2>1. \A o \in Viewers : viewer'[o] = IF o = v THEN row ELSE viewer[o]
        BY RowTurnsIs
    <2> QED BY <2>1, CommentsTypes DEF CommentsInv
<1>2. /\ slot' \in Seq(Viewers) /\ Len(slot') = Len(slot) + 1
      /\ \A n \in 1..Len(slot) : slot'[n] = slot[n]
      /\ slot'[Len(slot) + 1] = v
    BY <1>1, AppendProperties
<1>3. \A n \in 1..Len(slot') : n \in 1..Len(slot) \/ n = Len(slot) + 1
    BY <1>1, <1>2
<1>4. \A n \in 1..Len(slot) : slot[n] # v
    BY DEF CommentsInv, OneInside, InSlot
<1>5. \A m, n \in 1..Len(slot') : slot'[m] = slot'[n] => m = n
    BY <1>2, <1>3, <1>4 DEF CommentsInv, OneInside
<1>6. \A n \in 1..Len(slot) : n \in 1..Len(slot')
    BY <1>1, <1>2
<1>7. \A o \in Viewers : viewer'[o].at # "idle" <=> InSlot(o)'
    <2> SUFFICES ASSUME NEW o \in Viewers
                 PROVE  viewer'[o].at # "idle" <=> \E n \in 1..Len(slot') : slot'[n] = o
        BY DEF InSlot
    <2>1. CASE o = v
        BY <1>1, <1>2, <2>1
    <2>2. CASE o # v
        BY <1>1, <1>2, <1>3, <1>6, <2>2 DEF CommentsInv, OneInside, InSlot
    <2> QED BY <2>1, <2>2
<1>8. \A o \in Viewers : viewer'[o].at \in Inside => Len(slot') > 0 /\ slot'[1] = o
    <2> SUFFICES ASSUME NEW o \in Viewers, viewer'[o].at \in Inside
                 PROVE  Len(slot') > 0 /\ slot'[1] = o
        OBVIOUS
    <2>1. viewer[o].at \in Inside
        BY <1>1 DEF Inside
    <2>2. Len(slot) > 0 /\ slot[1] = o
        BY <2>1 DEF CommentsInv, OneInside
    <2> QED BY <1>1, <1>2, <2>2
<1> QED BY <1>2, <1>5, <1>7, <1>8 DEF OneInside

\* Who is inside leaves, and nobody is.
LEMMA SlotLeft ==
    ASSUME CommentsInv, NEW v \in Viewers, viewer[v].at \in Inside,
           RowTurns(v, NoRequest), slot' = Tail(slot)
    PROVE  /\ OneInside' /\ slot' \in Seq(Viewers)
           /\ \A o \in Viewers : viewer'[o].at \notin Inside
<1>1. /\ slot \in Seq(Viewers) /\ Len(slot) \in Nat /\ Len(slot) > 0 /\ slot[1] = v
      /\ \A o \in Viewers : viewer'[o].at = IF o = v THEN "idle" ELSE viewer[o].at
    <2>1. \A o \in Viewers : viewer'[o] = IF o = v THEN NoRequest ELSE viewer[o]
        BY RowTurnsIs
    <2>2. \A o \in Viewers : viewer'[o].at = IF o = v THEN "idle" ELSE viewer[o].at
        BY <2>1, NoRequestTyped
    <2> QED BY <2>2, CommentsTypes DEF CommentsInv, OneInside
<1>2. slot # <<>>
    BY <1>1
<1>3. /\ slot' \in Seq(Viewers) /\ Len(slot') = Len(slot) - 1
      /\ \A n \in 1..Len(slot') : slot'[n] = slot[n + 1]
    BY <1>1, <1>2, HeadTailProperties
<1>4. \A n \in 1..Len(slot') : n + 1 \in 1..Len(slot) /\ n + 1 # 1
    BY <1>1, <1>3
<1>5. 1 \in 1..Len(slot)
    BY <1>1
<1>6. \A m, n \in 1..Len(slot') : slot'[m] = slot'[n] => m = n
    <2> SUFFICES ASSUME NEW m \in 1..Len(slot'), NEW n \in 1..Len(slot'), slot'[m] = slot'[n]
                 PROVE  m = n
        OBVIOUS
    <2>1. m + 1 = n + 1
        BY <1>3, <1>4 DEF CommentsInv, OneInside
    <2> QED BY <2>1
<1>7. ASSUME NEW o \in Viewers PROVE viewer'[o].at # "idle" <=> InSlot(o)'
    <2> SUFFICES viewer'[o].at # "idle" <=> \E n \in 1..Len(slot') : slot'[n] = o
        BY DEF InSlot
    <2>1. CASE o = v
        <3>1. \A n \in 1..Len(slot') : slot'[n] # v
            BY <1>1, <1>3, <1>4, <1>5 DEF CommentsInv, OneInside
        <3> QED BY <1>1, <2>1, <3>1
    <2>2. CASE o # v
        <3>1. ASSUME NEW n \in 1..Len(slot), slot[n] = o PROVE \E m \in 1..Len(slot') : slot'[m] = o
            <4>1. n - 1 \in 1..Len(slot') /\ (n - 1) + 1 = n
                BY <1>1, <1>3, <2>2, <3>1
            <4> QED BY <1>3, <3>1, <4>1
        <3>2. ASSUME NEW m \in 1..Len(slot'), slot'[m] = o PROVE InSlot(o)
            BY <1>3, <1>4, <3>2 DEF InSlot
        <3> QED BY <1>1, <2>2, <3>1, <3>2 DEF CommentsInv, OneInside, InSlot
    <2> QED BY <2>1, <2>2
<1>8. \A o \in Viewers : viewer'[o].at \notin Inside
    BY <1>1 DEF CommentsInv, OneInside, Inside
<1> QED BY <1>3, <1>6, <1>7, <1>8 DEF OneInside

\* The viewer at hand moves on within the line.
LEMMA SlotKept ==
    ASSUME CommentsInv, NEW v \in Viewers, viewer[v].at # "idle", NEW row, RowTurns(v, row),
           row.at \in Inside, slot' = slot, Head(slot) = v
    PROVE  OneInside' /\ \A o \in Viewers : o # v => viewer'[o].at \notin Inside
<1>1. /\ slot \in Seq(Viewers) /\ Len(slot) \in Nat
      /\ \A o \in Viewers : viewer'[o].at = IF o = v THEN row.at ELSE viewer[o].at
    <2>1. \A o \in Viewers : viewer'[o] = IF o = v THEN row ELSE viewer[o]
        BY RowTurnsIs
    <2> QED BY <2>1, CommentsTypes DEF CommentsInv
<1>2. Len(slot) > 0 /\ slot[1] = v
    <2>1. PICK n \in 1..Len(slot) : slot[n] = v
        BY DEF CommentsInv, OneInside, InSlot
    <2> QED BY <1>1, <2>1
<1>3. \A o \in Viewers : InSlot(o)' <=> InSlot(o)
    BY DEF InSlot
<1>4. \A o \in Viewers : viewer'[o].at # "idle" <=> viewer[o].at # "idle"
    BY <1>1 DEF Inside
<1>5. \A o \in Viewers : o # v => viewer[o].at \notin Inside
    BY <1>2 DEF CommentsInv, OneInside
<1> QED BY <1>1, <1>2, <1>3, <1>4, <1>5 DEF CommentsInv, OneInside

LEMMA HeadInside ==
    ASSUME CommentsInv, NEW v \in Viewers, viewer[v].at \in Inside
    PROVE  Head(slot) = v /\ viewer[v].at # "idle"
<1>1. slot \in Seq(Viewers) /\ Len(slot) > 0 /\ slot[1] = v
    BY CommentsTypes DEF CommentsInv, OneInside
<1> QED BY <1>1 DEF Inside

\* A kept answer is as old as it is shown to be, and that is young enough.
LEMMA SaysKeeps ==
    ASSUME CommentsInv, NEW said \in Replies \cup {"nothing"}, NEW age \in Nat,
           age > 0 => age <= Fresh /\ said \in {"comments", "empty"},
           shown' = [reply |-> said, age |-> age]
    PROVE  ShownAnswers' /\ shown' \in ShownRows
BY DEF ShownAnswers, ShownRows

LEMMA RequestKeeps ==
    ASSUME CommentsInv, NEW v \in Viewers, NEW p \in CommentPages, Request(v, p)
    PROVE  CommentsInv'
<1>1. UNCHANGED <<commentClock, delay, lastFetch, lastRequest, earlier>> /\ viewer[v].at = "idle"
    BY DEF Request
<1>2. CASE \E e \in Entry(p) :
             /\ commentClock < cache[e].expires
             /\ cache' = Append(Except(p), cache[e])
             /\ Says(v, cache[e].reply, commentClock + Fresh - cache[e].expires)
             /\ UNCHANGED slot
    <2>1. PICK e \in Entry(p) :
             /\ commentClock < cache[e].expires
             /\ cache' = Append(Except(p), cache[e])
             /\ Says(v, cache[e].reply, commentClock + Fresh - cache[e].expires)
             /\ UNCHANGED slot
        BY <1>2
    <2>2. e \in 1..Len(cache) /\ Entry(p) # {}
        BY DEF Entry
    <2>3. /\ cache[e] \in CacheEntries /\ cache[e].expires <= commentClock + Fresh
          /\ cache[e].reply \in {"comments", "empty"} /\ commentClock \in Nat
        BY <2>2, CacheElements, CommentsTypes DEF CommentsInv
    <2>4. GoodCache(Except(p)) /\ Len(Except(p)) + 1 <= CacheSize
        BY <2>2, ExceptIs
    <2>5. GoodCache(cache')
        BY <2>1, <2>3, <2>4, GoodAppend
    <2>6. /\ cache[e].expires \in Nat /\ cache[e].reply \in Replies
        BY <2>3 DEF CacheEntries
    <2>7. LET age == commentClock + Fresh - cache[e].expires IN age \in Nat /\ age <= Fresh
        BY <2>1, <2>3, <2>6, CommentsConstants
    <2>8. ShownAnswers' /\ shown' \in ShownRows
        BY <2>1, <2>3, <2>6, <2>7, SaysKeeps DEF Says
    <2>9. viewer' \in [Viewers -> ViewerRows]
          /\ \A o \in Viewers : viewer'[o] = IF o = v THEN NoRequest ELSE viewer[o]
        BY <2>1, NoRequestTyped, RowTurnsIs DEF Says, RowTurns
    <2>10. \A o \in Viewers : viewer'[o].at = viewer[o].at
        BY <1>1, <2>9, NoRequestTyped
    <2>11. OneInside'
        <3>1. slot' = slot /\ \A o \in Viewers : InSlot(o)' <=> InSlot(o)
            BY <2>1 DEF InSlot
        <3> QED BY <2>10, <3>1 DEF CommentsInv, OneInside
    <2>12. Spacing'
        <3>1. \A o \in Viewers : viewer'[o].at = "asking" => viewer'[o] = viewer[o]
            BY <2>9, NoRequestTyped
        <3> QED BY <1>1, <3>1 DEF CommentsInv, Spacing
    <2>13. KeptAnswers' /\ cache' \in Seq(CacheEntries)
        BY <1>1, <2>5 DEF KeptAnswers, GoodCache
    <2>14. CommentsTypeOK'
        BY <1>1, <2>1, <2>8, <2>9, <2>13 DEF CommentsInv, CommentsTypeOK, ViewerRows, ShownRows,
                                             CacheEntries
    <2> QED BY <2>8, <2>11, <2>12, <2>13, <2>14 DEF CommentsInv
<1>3. CASE /\ \A e \in Entry(p) : commentClock >= cache[e].expires
           /\ cache' = Except(p)
           /\ viewer' = [viewer EXCEPT ![v] =
                 [at |-> "queued", wants |-> p, gap |-> delay, gone |-> FALSE]]
           /\ slot' = Append(slot, v) /\ UNCHANGED shown
    <2> DEFINE row == [at |-> "queued", wants |-> p, gap |-> delay, gone |-> FALSE]
    <2>1. row \in ViewerRows /\ row.at = "queued"
        BY CommentsTypes DEF CommentsInv, ViewerRows
    <2>2. RowTurns(v, row)
        BY <1>3, <2>1 DEF RowTurns
    <2> HIDE DEF row
    <2>3. OneInside' /\ slot' \in Seq(Viewers)
        BY <1>1, <1>3, <2>1, <2>2, SlotJoined
    <2>4. GoodCache(cache')
        BY <1>3, ExceptIs
    <2>5. /\ viewer' \in [Viewers -> ViewerRows]
          /\ \A o \in Viewers : viewer'[o] = IF o = v THEN row ELSE viewer[o]
        BY <2>2, RowTurnsIs
    <2>6. Spacing'
        <3>1. \A o \in Viewers : viewer'[o].at = "asking" => viewer'[o] = viewer[o]
            BY <2>1, <2>5
        <3> QED BY <1>1, <3>1 DEF CommentsInv, Spacing
    <2>7. KeptAnswers' /\ cache' \in Seq(CacheEntries)
        BY <1>1, <2>4 DEF KeptAnswers, GoodCache
    <2>8. CommentsTypeOK'
        BY <1>1, <1>3, <2>3, <2>5, <2>7 DEF CommentsInv, CommentsTypeOK, ViewerRows, CacheEntries
    <2> QED BY <1>3, <2>3, <2>6, <2>7, <2>8 DEF CommentsInv, ShownAnswers
<1> QED BY <1>2, <1>3 DEF Request

LEMMA MovesOnKeeps == ASSUME CommentsInv, NEW v \in Viewers, MovesOn(v) PROVE CommentsInv'
<1> DEFINE row == [viewer[v] EXCEPT !.gone = TRUE]
<1>1. /\ viewer' = [viewer EXCEPT ![v] = row]
      /\ UNCHANGED <<commentClock, cache, slot, delay, lastFetch, shown, lastRequest, earlier>>
    BY DEF MovesOn
<1>2. row \in ViewerRows /\ row.at = viewer[v].at /\ row.gap = viewer[v].gap
    BY CommentsTypes DEF CommentsInv, ViewerRows
<1> HIDE DEF row
<1>3. /\ viewer' \in [Viewers -> ViewerRows]
      /\ \A o \in Viewers : viewer'[o] = IF o = v THEN row ELSE viewer[o]
    BY <1>1, <1>2, RowTurnsIs DEF RowTurns
<1>4. \A o \in Viewers : viewer'[o].at = viewer[o].at /\ viewer'[o].gap = viewer[o].gap
    BY <1>2, <1>3
<1>5. OneInside'
    <2>1. \A o \in Viewers : InSlot(o)' <=> InSlot(o)
        BY <1>1 DEF InSlot
    <2> QED BY <1>1, <1>4, <2>1 DEF CommentsInv, OneInside
<1>6. Spacing'
    BY <1>1, <1>4 DEF CommentsInv, Spacing
<1>7. CommentsTypeOK'
    BY <1>1, <1>3 DEF CommentsInv, CommentsTypeOK, ViewerRows
<1> QED BY <1>1, <1>5, <1>6, <1>7 DEF CommentsInv, KeptAnswers, ShownAnswers

LEMMA MovesInLine ==
    ASSUME CommentsInv, NEW v \in Viewers, Enters(v) \/ Spaced(v)
    PROVE  CommentsInv'
<1>1. /\ UNCHANGED <<commentClock, cache, slot, delay, lastFetch, shown, lastRequest, earlier>>
      /\ viewer[v].at # "idle" /\ Head(slot) = v
    BY HeadInside DEF Enters, Spaced, Inside
<1>2. PICK at \in {"spacing", "asking"} :
            /\ viewer' = [viewer EXCEPT ![v].at = at]
            /\ at = "asking" => commentClock >= lastFetch + viewer[v].gap
    BY DEF Enters, Spaced
<1> DEFINE row == [viewer[v] EXCEPT !.at = at]
<1>3. row \in ViewerRows /\ row.at = at /\ row.gap = viewer[v].gap
    BY CommentsTypes DEF CommentsInv, ViewerRows, Inside
<1>4. RowTurns(v, row)
    BY <1>2, <1>3 DEF RowTurns
<1> HIDE DEF row
<1>5. OneInside'
    BY <1>1, <1>2, <1>3, <1>4, SlotKept DEF Inside
<1>6. /\ viewer' \in [Viewers -> ViewerRows]
      /\ \A o \in Viewers : viewer'[o] = IF o = v THEN row ELSE viewer[o]
    BY <1>4, RowTurnsIs
<1>7. Spacing'
    <2>1. \A o \in Viewers : viewer'[o].at = "asking" => commentClock >= lastFetch + viewer'[o].gap
        BY <1>2, <1>3, <1>6 DEF CommentsInv, Spacing
    <2> QED BY <1>1, <2>1 DEF CommentsInv, Spacing
<1>8. CommentsTypeOK'
    BY <1>1, <1>6 DEF CommentsInv, CommentsTypeOK, ViewerRows
<1> QED BY <1>1, <1>5, <1>7, <1>8 DEF CommentsInv, KeptAnswers, ShownAnswers

LEMMA BeginsKeeps ==
    ASSUME CommentsInv, NEW v \in Viewers, Begins(v)
    PROVE  CommentsInv'
<1>1. viewer[v].at \in Inside /\ UNCHANGED <<commentClock, cache, delay, lastRequest>>
    BY DEF Begins, Inside
<1>2. CASE viewer[v].gone
    <2>1. /\ RowTurns(v, NoRequest) /\ slot' = Tail(slot)
          /\ UNCHANGED <<lastFetch, earlier>> /\ shown' = [reply |-> "nothing", age |-> 0]
        BY <1>2, NoRequestTyped DEF Begins, Says, RowTurns
    <2>2. OneInside' /\ slot' \in Seq(Viewers) /\ \A o \in Viewers : viewer'[o].at \notin Inside
        BY <1>1, <2>1, SlotLeft
    <2>3. ShownAnswers' /\ shown' \in ShownRows
        BY <2>1, SaysKeeps
    <2>4. viewer' \in [Viewers -> ViewerRows]
        BY <2>1, RowTurnsIs
    <2>5. Spacing'
        BY <1>1, <2>1, <2>2 DEF CommentsInv, Spacing, Inside
    <2>6. CommentsTypeOK'
        BY <1>1, <2>1, <2>2, <2>3, <2>4 DEF CommentsInv, CommentsTypeOK, ViewerRows, ShownRows
    <2> QED BY <1>1, <2>2, <2>3, <2>5, <2>6 DEF CommentsInv, KeptAnswers
<1>3. CASE ~viewer[v].gone
    <2> DEFINE row == [viewer[v] EXCEPT !.at = "leasing"]
    <2>1. /\ viewer' = [viewer EXCEPT ![v] = row] /\ lastFetch' = commentClock
          /\ earlier' = lastRequest /\ UNCHANGED <<slot, shown>>
        BY <1>3 DEF Begins
    <2>2. row \in ViewerRows /\ row.at = "leasing"
        BY CommentsTypes DEF CommentsInv, ViewerRows, Inside
    <2> HIDE DEF row
    <2>3. RowTurns(v, row)
        BY <2>1, <2>2 DEF RowTurns
    <2>4. OneInside' /\ \A o \in Viewers : o # v => viewer'[o].at \notin Inside
        BY <1>1, <2>1, <2>2, <2>3, HeadInside, SlotKept DEF Inside
    <2>5. /\ viewer' \in [Viewers -> ViewerRows]
          /\ \A o \in Viewers : viewer'[o] = IF o = v THEN row ELSE viewer[o]
        BY <2>3, RowTurnsIs
    <2>6. \A o \in Viewers : viewer'[o].at # "asking"
        BY <2>2, <2>4, <2>5 DEF Inside
    <2>7. commentClock <= commentClock /\ lastRequest <= commentClock
        BY CommentsTypes DEF CommentsInv, Spacing
    <2>8. Spacing'
        BY <1>1, <2>1, <2>6, <2>7 DEF Spacing
    <2>9. CommentsTypeOK'
        BY <1>1, <2>1, <2>5 DEF CommentsInv, CommentsTypeOK, ViewerRows
    <2> QED BY <1>1, <2>1, <2>4, <2>8, <2>9 DEF CommentsInv, KeptAnswers, ShownAnswers
<1> QED BY <1>2, <1>3

LEMMA AsksKeeps == ASSUME CommentsInv, NEW v \in Viewers, Asks(v) PROVE CommentsInv'
<1> DEFINE row == [viewer[v] EXCEPT !.at = "fetching"]
<1>1. /\ viewer[v].at \in Inside /\ viewer' = [viewer EXCEPT ![v] = row] /\ lastRequest' = commentClock
      /\ UNCHANGED <<commentClock, cache, slot, delay, lastFetch, shown, earlier>>
    BY DEF Asks, Inside
<1>2. row \in ViewerRows /\ row.at = "fetching"
    BY CommentsTypes DEF CommentsInv, ViewerRows, Inside
<1> HIDE DEF row
<1>3. RowTurns(v, row)
    BY <1>1, <1>2 DEF RowTurns
<1>4. OneInside'
    BY <1>1, <1>2, <1>3, HeadInside, SlotKept DEF Inside
<1>5. /\ viewer' \in [Viewers -> ViewerRows]
      /\ \A o \in Viewers : viewer'[o] = IF o = v THEN row ELSE viewer[o]
    BY <1>3, RowTurnsIs
<1>6. Spacing'
    <2>1. \A o \in Viewers : viewer'[o].at = "asking" => viewer'[o] = viewer[o]
        BY <1>2, <1>5
    <2>2. commentClock <= commentClock
        BY CommentsTypes DEF CommentsInv
    <2> QED BY <1>1, <2>1, <2>2 DEF CommentsInv, Spacing
<1>7. CommentsTypeOK'
    BY <1>1, <1>5 DEF CommentsInv, CommentsTypeOK, ViewerRows
<1> QED BY <1>1, <1>4, <1>6, <1>7 DEF CommentsInv, KeptAnswers, ShownAnswers

LEMMA FetchedKeeps ==
    ASSUME CommentsInv, NEW v \in Viewers, NEW said \in Replies, Fetched(v, said)
    PROVE  CommentsInv'
<1>1. /\ viewer[v].at \in Inside /\ UNCHANGED <<commentClock, delay, lastFetch, lastRequest, earlier>>
      /\ slot' = Tail(slot) /\ cache' = Remember(viewer[v].wants, said)
      /\ shown' = [reply |-> said, age |-> 0] /\ RowTurns(v, NoRequest)
    BY NoRequestTyped DEF Fetched, Inside, Says, RowTurns
<1>2. OneInside' /\ slot' \in Seq(Viewers) /\ \A o \in Viewers : viewer'[o].at \notin Inside
    BY <1>1, SlotLeft
<1>3. ShownAnswers' /\ shown' \in ShownRows
    <2>1. 0 \in Nat /\ ~(0 > 0) /\ said \in Replies \cup {"nothing"}
        OBVIOUS
    <2> QED BY <1>1, <2>1, SaysKeeps
<1>4. viewer' \in [Viewers -> ViewerRows]
    BY <1>1, RowTurnsIs
<1>5. GoodCache(cache')
    <2>1. viewer[v].wants \in CommentPages
        BY CommentsTypes DEF CommentsInv, ViewerRows
    <2> QED BY <1>1, <2>1, RememberIs
<1>6. Spacing'
    BY <1>1, <1>2 DEF CommentsInv, Spacing, Inside
<1>7. KeptAnswers' /\ cache' \in Seq(CacheEntries)
    BY <1>1, <1>5 DEF KeptAnswers, GoodCache
<1>8. CommentsTypeOK'
    BY <1>1, <1>2, <1>3, <1>4, <1>7 DEF CommentsInv, CommentsTypeOK, ViewerRows, ShownRows,
                                        CacheEntries
<1> QED BY <1>2, <1>3, <1>6, <1>7, <1>8 DEF CommentsInv

LEMMA CommentsKeep == CommentsInv /\ [CommentsNext]_commentVars => CommentsInv'
<1> SUFFICES ASSUME CommentsInv, [CommentsNext]_commentVars PROVE CommentsInv'
    OBVIOUS
<1>1. CASE UNCHANGED commentVars
    BY <1>1 DEF CommentsInv, CommentsTypeOK, OneInside, InSlot, Spacing, KeptAnswers, ShownAnswers,
                commentVars
<1>2. CASE SetDelay
    BY <1>2 DEF CommentsInv, CommentsTypeOK, OneInside, InSlot, Spacing, KeptAnswers, ShownAnswers,
                SetDelay
<1>3. CASE CommentTick
    <2>1. /\ commentClock \in 0..MaxTime /\ lastFetch \in 0..MaxTime /\ commentClock < MaxTime
          /\ lastRequest \in 0..MaxTime /\ earlier \in 0..MaxTime
          /\ commentClock' = commentClock + 1 /\ MaxTime \in Nat /\ Fresh \in Nat
          /\ \A v \in Viewers : viewer[v].gap \in Nat
        BY <1>3, CommentsConstants, CommentsTypes DEF CommentTick, CommentsInv, ViewerRows
    <2>2. commentClock' \in 0..MaxTime
        BY <2>1
    <2>3. Spacing'
        BY <1>3, <2>1 DEF CommentTick, CommentsInv, Spacing
    <2>4. \A e \in 1..Len(cache) : cache[e].expires <= commentClock' + Fresh
        <3>1. \A e \in 1..Len(cache) : cache[e].expires \in Nat /\ cache[e].expires <= commentClock + Fresh
            BY CacheElements
        <3> QED BY <2>1, <3>1
    <2> QED BY <1>3, <2>2, <2>3, <2>4 DEF CommentTick, CommentsInv, CommentsTypeOK, OneInside,
               InSlot, KeptAnswers, ShownAnswers
<1> QED BY <1>1, <1>2, <1>3, RequestKeeps, MovesOnKeeps, MovesInLine, BeginsKeeps, AsksKeeps,
           FetchedKeeps DEF CommentsNext

\* Nobody else is inside when a fetch begins, and the delay is over.
LEMMA FetchBegins ==
    ASSUME CommentsInv, [CommentsNext]_commentVars, NEW v \in Viewers,
           ~Begun(v), Begun(v)'
    PROVE  /\ commentClock - lastFetch >= viewer[v].gap
           /\ commentClock - earlier >= viewer[v].gap
           /\ ~viewer[v].gone /\ \A other \in Viewers : ~Begun(other)
<1>1. viewer[v].at \notin {"leasing", "fetching"} /\ viewer'[v].at \in {"leasing", "fetching"}
    BY DEF Begun
<1>2. viewer \in [Viewers -> ViewerRows]
    BY CommentsTypes DEF CommentsInv
<1>3. Begins(v) /\ ~viewer[v].gone
    <2>1. viewer' # viewer
        BY <1>1
    <2>2. ASSUME NEW o \in Viewers, NEW row, viewer' = [viewer EXCEPT ![o] = row]
          PROVE  o = v /\ row.at \in {"leasing", "fetching"}
        BY <1>1, <1>2, <2>2
    <2>3. ASSUME NEW o \in Viewers, Begins(o) PROVE o = v /\ ~viewer[v].gone
        <3>1. CASE viewer[o].gone
            <4>1. viewer' = [viewer EXCEPT ![o] = NoRequest]
                BY <2>3, <3>1 DEF Begins, Says
            <4> QED BY <2>2, <4>1, NoRequestTyped
        <3>2. CASE ~viewer[o].gone
            <4>1. viewer' = [viewer EXCEPT ![o] = [viewer[o] EXCEPT !.at = "leasing"]]
                BY <2>3, <3>2 DEF Begins
            <4> QED BY <2>2, <3>2, <4>1
        <3> QED BY <3>1, <3>2
    <2>4. ASSUME NEW o \in Viewers, NEW p \in CommentPages, Request(o, p) PROVE FALSE
        <3> DEFINE queued == [at |-> "queued", wants |-> p, gap |-> delay, gone |-> FALSE]
        <3>1. \/ viewer' = [viewer EXCEPT ![o] = NoRequest]
              \/ viewer' = [viewer EXCEPT ![o] = queued]
            BY <2>4 DEF Request, Says
        <3>2. queued.at = "queued"
            OBVIOUS
        <3> HIDE DEF queued
        <3> QED BY <2>2, <3>1, <3>2, NoRequestTyped
    <2>5. ASSUME NEW o \in Viewers, MovesOn(o) PROVE FALSE
        <3>1. viewer' = [viewer EXCEPT ![o] = [viewer[o] EXCEPT !.gone = TRUE]]
            BY <2>5 DEF MovesOn
        <3>2. [viewer[o] EXCEPT !.gone = TRUE].at = viewer[o].at
            BY <1>2 DEF ViewerRows
        <3> QED BY <1>1, <2>2, <3>1, <3>2
    <2>6. ASSUME NEW o \in Viewers, Enters(o) \/ Spaced(o) PROVE FALSE
        <3>1. PICK at \in {"spacing", "asking"} : viewer' = [viewer EXCEPT ![o].at = at]
            BY <2>6 DEF Enters, Spaced
        <3>2. [viewer[o] EXCEPT !.at = at].at = at
            BY <1>2 DEF ViewerRows
        <3> QED BY <2>2, <3>1, <3>2
    <2>7. ASSUME NEW o \in Viewers, Asks(o) PROVE FALSE
        <3>1. viewer' = [viewer EXCEPT ![o] = [viewer[o] EXCEPT !.at = "fetching"]]
            BY <2>7 DEF Asks
        <3>2. o = v /\ viewer[o].at \in {"leasing", "fetching"}
            BY <2>2, <2>7, <3>1 DEF Asks
        <3> QED BY <1>1, <3>2
    <2>8. ASSUME NEW o \in Viewers, NEW said \in Replies, Fetched(o, said) PROVE FALSE
        <3>1. viewer' = [viewer EXCEPT ![o] = NoRequest]
            BY <2>8 DEF Fetched, Says
        <3> QED BY <2>2, <3>1, NoRequestTyped
    <2>9. ~SetDelay /\ ~CommentTick /\ ~UNCHANGED commentVars
        BY <2>1 DEF SetDelay, CommentTick, commentVars
    <2> QED BY <2>3, <2>4, <2>5, <2>6, <2>7, <2>8, <2>9 DEF CommentsNext
<1>4. viewer[v].at = "asking" /\ commentClock >= lastFetch + viewer[v].gap /\ earlier <= lastFetch
    <2>1. viewer[v].at = "asking"
        BY <1>3 DEF Begins
    <2> QED BY <2>1 DEF CommentsInv, Spacing
<1>5. \A other \in Viewers : ~Begun(other)
    <2>1. viewer[v].at \in Inside
        BY <1>4 DEF Inside
    <2>2. \A other \in Viewers : viewer[other].at \in Inside => other = v
        BY <2>1 DEF CommentsInv, OneInside
    <2>3. \A other \in Viewers : Begun(other) => viewer[other].at \in Inside
        BY DEF Inside, Begun
    <2> QED BY <1>1, <2>2, <2>3 DEF Begun
<1>6. /\ commentClock \in Nat /\ lastFetch \in Nat /\ earlier \in Nat /\ viewer[v].gap \in Nat
    <2>1. commentClock \in 0..MaxTime /\ lastFetch \in 0..MaxTime /\ earlier \in 0..MaxTime
        BY CommentsTypes DEF CommentsInv
    <2>2. viewer[v].gap \in Delays
        BY <1>2 DEF ViewerRows
    <2>3. viewer[v].gap \in Nat
        BY <2>2, CommentsConstants
    <2>4. commentClock \in Nat /\ lastFetch \in Nat /\ earlier \in Nat
        BY <2>1, CommentsConstants
    <2> QED BY <2>3, <2>4
<1>7. commentClock - lastFetch >= viewer[v].gap /\ commentClock - earlier >= viewer[v].gap
    BY <1>4, <1>6
<1> QED BY <1>3, <1>5, <1>7

\* The slot, the cache and what viewers see keep their types, for every size of
\* the cache (feed_routes.py).
THEOREM CommentsTypeCorrect == CommentsSpec => []CommentsTypeOK
<1>1. CommentsInv => CommentsTypeOK
    BY DEF CommentsInv
<1> QED BY <1>1, CommentsBegin, CommentsKeep, PTL DEF CommentsSpec

\* However viewers queue and leave and the request delay is set: fetches of
\* comments begin one at a time, the delay apart, and for nobody who had gone,
\* and two fetches later the delay has passed since the last request.
THEOREM CommentsArePaced == CommentsSpec => CommentsPaced
<1>1. CommentsInv /\ CommentsInv' /\ [CommentsNext]_commentVars =>
        [/\ \A v \in Viewers : (~Begun(v) /\ Begun(v)') =>
              /\ commentClock - lastFetch >= viewer[v].gap
              /\ commentClock - earlier >= viewer[v].gap
              /\ ~viewer[v].gone /\ \A other \in Viewers : ~Begun(other)
         /\ shown'.age > 0 => shown'.age <= Fresh /\ shown'.reply \in {"comments", "empty"}
         /\ Len(cache') <= CacheSize]_commentVars
    BY FetchBegins DEF CommentsInv, ShownAnswers, KeptAnswers
<1> QED BY <1>1, CommentsBegin, CommentsKeep, PTL DEF CommentsSpec, CommentsPaced

-----------------------------------------------------------------------------
(* BoardCovers *)

\* A selection that is under way is one for what the card showed, or for a
\* cover that was pending, or missing.
Founded ==
    \A s \in Selectors :
        LET job == selecting[s] IN
        job.at \in {"face", "found"} =>
            /\ job.mode = "auto" => job.before.source = "pending"
            /\ job.mode = "replace" => job.before = NoPin \/ job.before.path = job.current
            /\ job.mode = "scrape" => job.current = NoMedia \/ job.before.source = "pending"
CoverInv == CoverTypeOK /\ Founded

CoverJobs == [at : {"rest", "slot", "face", "found"}, mode : {"auto", "replace", "scrape"},
              current : Media \cup {NoMedia}, before : Pins, found : Media \cup {NoMedia}]
FoundedJob(job) ==
    job.at \in {"face", "found"} =>
        /\ job.mode = "auto" => job.before.source = "pending"
        /\ job.mode = "replace" => job.before = NoPin \/ job.before.path = job.current
        /\ job.mode = "scrape" => job.current = NoMedia \/ job.before.source = "pending"

LEMMA UnmadeIsFounded == Unmade \in CoverJobs /\ FoundedJob(Unmade) /\ NoPin \in Pins
<1>1. NoPin \in Pins
    BY DEF Pins
<1> QED BY <1>1 DEF Unmade, CoverJobs, FoundedJob

LEMMA CoverBegins == CoverInit => CoverInv
<1> SUFFICES ASSUME CoverInit PROVE CoverInv
    OBVIOUS
<1>1. CoverTypeOK
    BY UnmadeIsFounded DEF CoverInit, CoverTypeOK, CoverJobs
<1>2. Founded
    BY UnmadeIsFounded DEF CoverInit, Founded, FoundedJob
<1> QED BY <1>1, <1>2 DEF CoverInv

LEMMA CoverJobIs ==
    ASSUME CoverInv, NEW s \in Selectors
    PROVE  selecting[s] \in CoverJobs /\ FoundedJob(selecting[s])
BY DEF CoverInv, CoverTypeOK, Founded, CoverJobs, FoundedJob

\* A selection goes on.
LEMMA GoingKeeps ==
    ASSUME CoverInv, NEW s \in Selectors, NEW job \in CoverJobs, FoundedJob(job), Going(s, job),
           folderMedia' \subseteq Media, standing' \in {"on", "off", "gone"}, pin' \in Pins
    PROVE  CoverInv'
<1>1. selecting \in [Selectors -> CoverJobs] /\ selecting' = [selecting EXCEPT ![s] = job]
    BY DEF CoverInv, CoverTypeOK, CoverJobs, Going
<1>2. selecting' \in [Selectors -> CoverJobs]
    BY <1>1
<1>3. \A o \in Selectors : FoundedJob(selecting'[o])
    BY <1>1, CoverJobIs
<1> QED BY <1>2, <1>3 DEF CoverInv, CoverTypeOK, CoverJobs, Founded, FoundedJob

LEMMA StillKeeps ==
    ASSUME CoverInv, UNCHANGED selecting,
           folderMedia' \subseteq Media, standing' \in {"on", "off", "gone"}, pin' \in Pins
    PROVE  CoverInv'
BY DEF CoverInv, CoverTypeOK, Founded

LEMMA CoverKeeps == CoverInv /\ [CoverNext]_coverVars => CoverInv'
<1> SUFFICES ASSUME CoverInv, [CoverNext]_coverVars PROVE CoverInv'
    OBVIOUS
<1>1. folderMedia \subseteq Media /\ standing \in {"on", "off", "gone"} /\ pin \in Pins
    BY DEF CoverInv, CoverTypeOK
<1>2. CASE UNCHANGED coverVars
    BY <1>1, <1>2, StillKeeps DEF coverVars
<1>3. ASSUME NEW m \in Media, PinShown(m) \/ RandomPin(m) \/ MediaChanges(m) PROVE CoverInv'
    <2>1. [path |-> m, source |-> "manual"] \in Pins
        BY DEF Pins
    <2> QED BY <1>1, <1>3, <2>1, StillKeeps DEF PinShown, RandomPin, MediaChanges
<1>4. CASE PageShows
    <2>1. \A m \in folderMedia : [path |-> m, source |-> "pending"] \in Pins
        BY <1>1 DEF Pins
    <2> QED BY <1>1, <1>4, <2>1, StillKeeps DEF PageShows
<1>5. ASSUME NEW to \in {"on", "off", "gone"}, RowChanges(to) PROVE CoverInv'
    BY <1>1, <1>5, StillKeeps DEF RowChanges
<1>6. ASSUME NEW s \in Selectors, NEW mode \in {"auto", "replace"}, NEW m \in Media \cup {NoMedia},
             Ask(s, mode, m)
      PROVE  CoverInv'
    <2> DEFINE job == [Unmade EXCEPT !.at = "slot", !.mode = mode, !.current = m, !.before = pin]
    <2>1. job \in CoverJobs /\ job.at = "slot"
        BY <1>1 DEF Unmade, CoverJobs
    <2> HIDE DEF job
    <2>2. FoundedJob(job)
        BY <2>1 DEF FoundedJob
    <2> QED BY <1>1, <1>6, <2>1, <2>2, GoingKeeps DEF Ask, job
<1>7. ASSUME NEW s \in Selectors, SlotTaken(s) PROVE CoverInv'
    <2> DEFINE job == selecting[s]
               next == [job EXCEPT !.at = "face"]
    <2>1. job \in CoverJobs
        BY CoverJobIs
    <2>2. UNCHANGED <<folderMedia, standing, pin>>
        BY <1>7 DEF SlotTaken
    <2>3. CASE Going(s, Unmade)
        BY <1>1, <2>2, <2>3, UnmadeIsFounded, GoingKeeps
    <2>4. CASE ~Going(s, Unmade)
        <3>1. /\ Going(s, next) /\ pin = job.before /\ (pin # NoPin => pin.path = job.current)
              /\ (job.mode = "auto" => pin.source = "pending") /\ job.mode # "scrape"
            BY <1>7, <2>4 DEF SlotTaken
        <3> HIDE DEF job
        <3>2. /\ next \in CoverJobs /\ next.mode = job.mode /\ next.before = job.before
              /\ next.current = job.current
            BY <2>1 DEF CoverJobs
        <3> HIDE DEF next
        <3>3. FoundedJob(next)
            BY <3>1, <3>2 DEF FoundedJob
        <3> QED BY <1>1, <2>2, <3>1, <3>2, <3>3, GoingKeeps
    <2> QED BY <2>3, <2>4
<1>8. ASSUME NEW s \in Selectors, Scrape(s) PROVE CoverInv'
    <2> DEFINE job == [Unmade EXCEPT !.at = "slot", !.mode = "scrape"]
    <2>1. job \in CoverJobs /\ job.at = "slot"
        BY UnmadeIsFounded DEF Unmade, CoverJobs
    <2> HIDE DEF job
    <2>2. FoundedJob(job)
        BY <2>1 DEF FoundedJob
    <2> QED BY <1>1, <1>8, <2>1, <2>2, GoingKeeps DEF Scrape, job
<1>9. ASSUME NEW s \in Selectors, ScrapeStarts(s) PROVE CoverInv'
    <2> DEFINE job == selecting[s]
               current == IF There(pin.path) THEN pin.path ELSE NoMedia
               next == [job EXCEPT !.at = "face", !.current = current, !.before = pin]
    <2>1. job \in CoverJobs
        BY CoverJobIs
    <2>2. UNCHANGED <<folderMedia, standing, pin>> /\ job.mode = "scrape"
        BY <1>9 DEF ScrapeStarts
    <2>3. CASE Going(s, Unmade)
        BY <1>1, <2>2, <2>3, UnmadeIsFounded, GoingKeeps
    <2>4. CASE ~Going(s, Unmade)
        <3>1. Going(s, next) /\ (current = NoMedia \/ pin.source = "pending")
            BY <1>9, <2>4 DEF ScrapeStarts
        <3>2. current \in Media \cup {NoMedia}
            BY <1>1 DEF There
        <3> HIDE DEF job, current
        <3>3. /\ next \in CoverJobs /\ next.mode = "scrape" /\ next.before = pin
              /\ next.current = current
            BY <1>1, <2>1, <2>2, <3>2 DEF CoverJobs
        <3> HIDE DEF next
        <3>4. FoundedJob(next)
            BY <3>1, <3>3 DEF FoundedJob
        <3> QED BY <1>1, <2>2, <3>1, <3>3, <3>4, GoingKeeps
    <2> QED BY <2>3, <2>4
<1>10. ASSUME NEW s \in Selectors, NEW m \in Media \cup {NoMedia}, Selects(s, m) PROVE CoverInv'
    <2> DEFINE job == selecting[s]
               next == [job EXCEPT !.at = "found", !.found = m]
    <2>1. job \in CoverJobs /\ FoundedJob(job)
        BY CoverJobIs
    <2>2. Going(s, next) /\ UNCHANGED <<folderMedia, standing, pin>> /\ job.at = "face"
        BY <1>10 DEF Selects
    <2> HIDE DEF job
    <2>3. /\ next \in CoverJobs /\ next.mode = job.mode /\ next.before = job.before
          /\ next.current = job.current
        BY <2>1 DEF CoverJobs
    <2> HIDE DEF next
    <2>4. FoundedJob(next)
        BY <2>1, <2>2, <2>3 DEF FoundedJob
    <2> QED BY <1>1, <2>2, <2>3, <2>4, GoingKeeps
<1>11. ASSUME NEW s \in Selectors, Store(s) \/ StoreScraped(s) PROVE CoverInv'
    <2> DEFINE job == selecting[s]
    <2>1. job \in CoverJobs /\ FoundedJob(job)
        BY CoverJobIs
    <2>2. Going(s, Unmade) /\ UNCHANGED <<folderMedia, standing>>
        BY <1>11 DEF Store, StoreScraped
    <2>3. pin' \in Pins
        <3>1. \A m \in Media : [path |-> m, source |-> "chosen"] \in Pins
            BY DEF Pins
        <3>2. job.found \in Media \cup {NoMedia}
            BY <2>1 DEF CoverJobs
        <3>3. pin.source = "pending" => [pin EXCEPT !.source = "chosen"] \in Pins
            BY <1>1 DEF Pins, NoPin
        <3>4. CASE Store(s)
            <4>1. /\ job.at = "found" /\ job.mode # "scrape"
                  /\ pin' = IF pin # job.before THEN pin
                            ELSE IF job.found # NoMedia THEN [path |-> job.found, source |-> "chosen"]
                            ELSE IF job.mode = "auto" THEN [pin EXCEPT !.source = "chosen"] ELSE pin
                BY <3>4 DEF Store
            <4> HIDE DEF job
            <4>2. job.mode = "auto" => job.before.source = "pending"
                BY <2>1, <4>1 DEF FoundedJob
            <4> QED BY <1>1, <3>1, <3>2, <3>3, <4>1, <4>2
        <3>5. CASE StoreScraped(s)
            <4>1. pin' = pin \/ (There(job.found) /\ pin' = [path |-> job.found, source |-> "chosen"])
                BY <3>5 DEF StoreScraped
            <4> QED BY <1>1, <3>1, <4>1 DEF There
        <3> QED BY <1>11, <3>4, <3>5
    <2> QED BY <1>1, <2>2, <2>3, UnmadeIsFounded, GoingKeeps
<1> QED BY <1>2, <1>3, <1>4, <1>5, <1>6, <1>7, <1>8, <1>9, <1>10, <1>11 DEF CoverNext

\* Who replaces a manual cover that is there.
LEMMA ManualReplaced ==
    ASSUME CoverInv, [CoverNext]_coverVars, pin.source = "manual", pin.path \in folderMedia,
           pin' # pin
    PROVE  \/ \E m \in Media : PinShown(m)
           \/ \E s \in Selectors :
                 LET job == selecting[s]
                 IN  /\ job.at = "found" /\ selecting'[s].at = "rest" /\ job.before = pin
                     /\ \/ job.mode = "replace" /\ job.current = pin.path
                        \/ job.mode = "scrape" /\ job.current = NoMedia
<1>1. (\E m \in Media : PinShown(m)) \/ \E s \in Selectors : Store(s) \/ StoreScraped(s)
    BY DEF CoverNext, coverVars, RandomPin, MediaChanges, PageShows, There, RowChanges, Ask,
           SlotTaken, Scrape, ScrapeStarts, Selects
<1>2. ASSUME NEW s \in Selectors, Store(s) \/ StoreScraped(s)
      PROVE  LET job == selecting[s]
             IN  /\ job.at = "found" /\ selecting'[s].at = "rest" /\ job.before = pin
                 /\ \/ job.mode = "replace" /\ job.current = pin.path
                    \/ job.mode = "scrape" /\ job.current = NoMedia
    <2> DEFINE job == selecting[s]
    <2>1. job \in CoverJobs /\ FoundedJob(job)
        BY CoverJobIs
    <2>2. job.at = "found" /\ job.before = pin
        BY <1>2 DEF Store, StoreScraped
    <2>3. selecting'[s].at = "rest"
        BY <1>2 DEF Store, StoreScraped, Going, Unmade, CoverInv, CoverTypeOK
    <2> HIDE DEF job
    <2>4. pin # NoPin
        BY DEF NoPin
    <2>5. job.mode \in {"auto", "replace", "scrape"}
        BY <2>1 DEF CoverJobs
    <2>6. \/ job.mode = "replace" /\ job.current = pin.path
          \/ job.mode = "scrape" /\ job.current = NoMedia
        BY <2>1, <2>2, <2>4, <2>5 DEF FoundedJob
    <2> QED BY <2>2, <2>3, <2>6 DEF job
<1> QED BY <1>1, <1>2

\* Covers, pins and what is under way keep their types, for every number of
\* media files (main_server.py, server_routes.py).
THEOREM CoverTypeCorrect == CoverSpec => []CoverTypeOK
<1>1. CoverInv => CoverTypeOK
    BY DEF CoverInv
<1> QED BY <1>1, CoverBegins, CoverKeeps, PTL DEF CoverSpec

\* A cover that the user has pinned is replaced by the user alone.
THEOREM CoversAreKept == CoverSpec => CoversKept
<1>1. ASSUME NEW s \in Selectors, StoreScraped(s), pin' # pin
      PROVE  standing = "on" /\ pin'.path \in folderMedia
    BY <1>1 DEF StoreScraped, There
<1>2. CoverInv /\ [CoverNext]_coverVars =>
        [/\ pin.source = "manual" /\ pin.path \in folderMedia /\ pin' # pin =>
             \/ \E m \in Media : PinShown(m)
             \/ \E s \in Selectors :
                   LET job == selecting[s]
                   IN  /\ job.at = "found" /\ selecting'[s].at = "rest" /\ job.before = pin
                       /\ \/ job.mode = "replace" /\ job.current = pin.path
                          \/ job.mode = "scrape" /\ job.current = NoMedia
         /\ \A s \in Selectors :
             StoreScraped(s) /\ pin' # pin => standing = "on" /\ pin'.path \in folderMedia]_coverVars
    BY <1>1, ManualReplaced
<1> QED BY <1>2, CoverBegins, CoverKeeps, PTL DEF CoverSpec, CoversKept

-----------------------------------------------------------------------------
(* AvatarBatch *)

Unsettled == {a \in chosen : journalRow[a] \notin Finals}
AvatarTallies == [success : Nat, failed : Nat, skipped : Nat]
\* What an execution knows agrees with the rows.
Drawn ==
    /\ early \subseteq Having
    /\ drawing.at = "loop" \/ Working =>
          drawing.count = Counts /\ drawing.left = Unsettled /\ early \subseteq drawing.known
    /\ Working => drawing.left # {}
    /\ drawing.at = "noted" => Upcoming \in noted \/ picture[Upcoming] = "none"
    /\ drawing.at = "done" =>
          drawing.count = Counts /\ drawing.response = Counts /\ Unsettled = {}
AvatarInv == AvatarTypeOK /\ Drawn

JournalRows == {"none", "pending", "running"} \cup Finals
DrawnPictures == [Portraits -> {"none", "made", "pinned"}]
Drawings == [at : {"stopped", "loop", "item", "drawn", "noted", "done", "over"},
             left : SUBSET Portraits, known : SUBSET Portraits,
             count : AvatarTallies, response : AvatarTallies]

LEMMA AvatarTypes ==
    AvatarTypeOK <=>
        /\ noted \subseteq Portraits /\ picture \in DrawnPictures /\ skips \in BOOLEAN
        /\ journalRow \in [Portraits -> JournalRows] /\ drawing \in Drawings
        /\ early \subseteq Portraits /\ chosen \subseteq Portraits /\ former \subseteq Portraits
BY DEF AvatarTypeOK, DrawnPictures, JournalRows, Drawings, AvatarTallies

LEMMA CountsTyped == Counts \in AvatarTallies
<1>1. \A s : IsFiniteSet(Marked(s))
    <2> TAKE s
    <2>1. Marked(s) \in SUBSET Portraits
        BY DEF Marked
    <2> QED BY <2>1, AvatarAssumption, FS_Subset
<1>2. \A s : Cardinality(Marked(s)) \in Nat
    BY <1>1, FS_CardinalityType
<1> QED BY <1>2 DEF Counts, AvatarTallies

\* Rows that are final before and after are counted alike.
LEMMA SameCounts ==
    ASSUME \A a \in Portraits : \A s \in Finals : journalRow'[a] = s <=> journalRow[a] = s
    PROVE  Counts' = Counts
<1>1. \A s \in Finals : Marked(s)' = Marked(s)
    BY DEF Marked
<1>2. /\ Marked("success")' = Marked("success") /\ Marked("failed")' = Marked("failed")
      /\ Marked("skipped")' = Marked("skipped")
    BY <1>1 DEF Finals
<1> QED BY <1>2 DEF Counts

LEMMA StoppedTyped == Stopped \in Drawings /\ Zero \in AvatarTallies /\ Stopped.at = "stopped"
<1>1. Zero \in AvatarTallies
    BY DEF Zero, AvatarTallies
<1> QED BY <1>1 DEF Stopped, Drawings

LEMMA AvatarBegins == AvatarInit => AvatarInv
<1> SUFFICES ASSUME AvatarInit PROVE AvatarInv
    OBVIOUS
<1>1. AvatarTypeOK
    BY AvatarTypes, StoppedTyped DEF AvatarInit, JournalRows, Having, DrawnPictures
<1>2. Drawn
    BY StoppedTyped DEF AvatarInit, Drawn, Working
<1> QED BY <1>1, <1>2 DEF AvatarInv

\* The rows of a task are made once.
LEMMA PreparedIs ==
    ASSUME AvatarTypeOK
    PROVE  /\ Prepared \in [Portraits -> JournalRows]
           /\ \A a \in Portraits : \A s \in Finals : Prepared[a] = s <=> journalRow[a] = s
BY AvatarTypes DEF Prepared, JournalRows, Finals

LEMMA UpcomingIs ==
    ASSUME AvatarTypeOK, drawing.left # {} PROVE Upcoming \in drawing.left
<1>1. Cardinality(Portraits) \in Nat
    BY AvatarAssumption, FS_CardinalityType
<1>2. Portraits \subseteq Nat
    BY <1>1, AvatarAssumption
<1>3. drawing.left \subseteq Nat
    BY <1>2, AvatarTypes DEF Drawings
<1>4. \E a \in drawing.left : \A b \in drawing.left : a <= b
    BY <1>3, LeastNumber
<1> QED BY <1>4 DEF Upcoming

LEMMA UpcomingStays == ASSUME drawing'.left = drawing.left PROVE Upcoming' = Upcoming
BY Zenon DEF Upcoming

LEMMA DrawKeeps == ASSUME AvatarInv, Draw PROVE AvatarInv'
<1> DEFINE next == [Stopped EXCEPT !.at = "loop", !.count = Counts, !.known = Having,
                                  !.left = {a \in chosen : Prepared[a] \notin Finals}]
<1>1. /\ journalRow' = Prepared /\ drawing' = next
      /\ UNCHANGED <<noted, picture, chosen, skips, early, former>>
    BY DEF Draw
<1>2. Having \subseteq Portraits /\ {a \in chosen : Prepared[a] \notin Finals} \subseteq Portraits
    BY AvatarTypes DEF AvatarInv, Having
<1>3. /\ next \in Drawings /\ next.at = "loop" /\ next.count = Counts /\ next.known = Having
      /\ next.left = {a \in chosen : Prepared[a] \notin Finals}
    <2> DEFINE C == Counts
               L == {a \in chosen : Prepared[a] \notin Finals}
               H == Having
    <2>1. C \in AvatarTallies /\ L \subseteq Portraits /\ H \subseteq Portraits
        BY <1>2, CountsTyped
    <2> HIDE DEF C, L, H
    <2> SUFFICES LET n == [Stopped EXCEPT !.at = "loop", !.count = C, !.known = H, !.left = L]
                 IN  n \in Drawings /\ n.at = "loop" /\ n.count = C /\ n.known = H /\ n.left = L
        BY DEF C, L, H
    <2> QED BY <2>1, StoppedTyped DEF Stopped, Drawings
<1> HIDE DEF next
<1>4. Counts' = Counts
    BY <1>1, PreparedIs, SameCounts DEF AvatarInv
<1>5. AvatarTypeOK'
    BY <1>1, <1>3, PreparedIs, AvatarTypes DEF AvatarInv, AvatarTypeOK, JournalRows, Drawings, AvatarTallies
<1>6. Having' = Having /\ Unsettled' = {a \in chosen : Prepared[a] \notin Finals}
    BY <1>1 DEF Having, Unsettled
<1>7. Drawn'
    BY <1>1, <1>3, <1>4, <1>6 DEF AvatarInv, Drawn, Working
<1> QED BY <1>5, <1>7 DEF AvatarInv

LEMMA StartItemKeeps == ASSUME AvatarInv, StartItem PROVE AvatarInv'
<1> DEFINE a == Upcoming
<1>1. /\ drawing.at = "loop" /\ drawing.left # {}
      /\ journalRow' = [journalRow EXCEPT ![a] = "running"]
      /\ drawing' = [drawing EXCEPT !.at = "item"]
      /\ UNCHANGED <<noted, picture, chosen, skips, early, former>>
    BY DEF StartItem
<1>2. a \in drawing.left
    BY <1>1, UpcomingIs DEF AvatarInv
<1> HIDE DEF a
<1>3. /\ drawing \in Drawings /\ journalRow \in [Portraits -> JournalRows]
      /\ chosen \subseteq Portraits /\ drawing.left = Unsettled /\ drawing.count = Counts
      /\ early \subseteq Having /\ early \subseteq drawing.known
    BY <1>1, AvatarTypes DEF AvatarInv, Drawn
<1>4. a \in chosen /\ journalRow[a] \notin Finals /\ "running" \notin Finals
    BY <1>2, <1>3 DEF Unsettled, Finals
<1>5. /\ journalRow' \in [Portraits -> JournalRows]
      /\ \A b \in Portraits : journalRow'[b] = IF b = a THEN "running" ELSE journalRow[b]
    BY <1>1, <1>3 DEF JournalRows
<1>6. Counts' = Counts
    BY <1>3, <1>4, <1>5, SameCounts
<1>7. Unsettled' = Unsettled /\ Having' = Having
    BY <1>1, <1>3, <1>4, <1>5 DEF Unsettled, Having
<1>8. /\ drawing' \in Drawings /\ drawing'.at = "item" /\ drawing'.left = drawing.left
      /\ drawing'.count = drawing.count /\ drawing'.known = drawing.known
    BY <1>1, <1>3 DEF Drawings
<1>9. AvatarTypeOK'
    BY <1>1, <1>5, <1>8, AvatarTypes DEF AvatarInv, AvatarTypeOK, JournalRows, Drawings, AvatarTallies
<1>10. Drawn'
    BY <1>1, <1>3, <1>6, <1>7, <1>8 DEF Drawn, Working
<1> QED BY <1>9, <1>10 DEF AvatarInv

\* A step within an account, before its row is written.
LEMMA WithinKeeps ==
    ASSUME AvatarInv, Working, UNCHANGED <<chosen, skips, journalRow, former, early>>,
           noted' \subseteq Portraits, picture' \in DrawnPictures, early \subseteq Having',
           drawing' \in Drawings, Working', drawing'.left = drawing.left,
           drawing'.count = drawing.count, drawing.known \subseteq drawing'.known,
           drawing'.at = "noted" => Upcoming \in noted' \/ picture'[Upcoming] = "none"
    PROVE  AvatarInv'
<1>1. AvatarTypeOK'
    BY AvatarTypes DEF AvatarInv, AvatarTypeOK, DrawnPictures, Drawings, AvatarTallies
<1>2. Counts' = Counts /\ Unsettled' = Unsettled
    BY DEF Counts, Marked, Unsettled
<1>3. drawing'.at # "done"
    BY DEF Working
<1>4. Upcoming' = Upcoming
    BY UpcomingStays
<1>5. Drawn'
    BY <1>2, <1>3, <1>4 DEF AvatarInv, Drawn
<1> QED BY <1>1, <1>5 DEF AvatarInv

LEMMA DrawPictureKeeps == ASSUME AvatarInv, DrawPicture PROVE AvatarInv'
<1>1. /\ drawing.at = "item" /\ drawing \in Drawings /\ drawing' = [drawing EXCEPT !.at = "drawn"]
      /\ picture \in DrawnPictures /\ picture' = [picture EXCEPT ![Upcoming] = "made"]
      /\ noted \subseteq Portraits /\ early \subseteq Having
      /\ UNCHANGED <<noted, chosen, skips, journalRow, early, former>>
    BY AvatarTypes DEF DrawPicture, AvatarInv, Drawn
<1>2. /\ drawing' \in Drawings /\ drawing'.at = "drawn" /\ drawing'.left = drawing.left
      /\ drawing'.count = drawing.count /\ drawing'.known = drawing.known
    BY <1>1 DEF Drawings
<1>3. picture' \in DrawnPictures
    BY <1>1 DEF DrawnPictures
<1>4. Having \subseteq Having'
    BY <1>1 DEF Having, DrawnPictures
<1>5. Working /\ Working'
    BY <1>1, <1>2 DEF Working
<1> QED BY <1>1, <1>2, <1>3, <1>4, <1>5, WithinKeeps

LEMMA NoteAvatarKeeps == ASSUME AvatarInv, NoteAvatar PROVE AvatarInv'
<1>1. /\ drawing.at = "drawn" /\ drawing \in Drawings /\ noted \subseteq Portraits
      /\ noted' = IF picture[Upcoming] = "none" THEN noted ELSE Saved(Upcoming)
      /\ drawing' = [drawing EXCEPT !.at = "noted", !.known = drawing.known \cup {Upcoming}]
      /\ early \subseteq Having /\ picture \in DrawnPictures
      /\ UNCHANGED <<picture, chosen, skips, journalRow, early, former>>
    BY AvatarTypes DEF NoteAvatar, AvatarInv, Drawn, Drawings
<1>2. Working
    BY <1>1 DEF Working
<1>3. Upcoming \in drawing.left
    BY <1>2, UpcomingIs DEF AvatarInv, Drawn
<1>4. Upcoming \in Portraits
    BY <1>1, <1>3 DEF Drawings
<1>5. /\ drawing' \in Drawings /\ drawing'.at = "noted" /\ drawing'.left = drawing.left
      /\ drawing'.count = drawing.count /\ drawing.known \subseteq drawing'.known
    BY <1>1, <1>4 DEF Drawings
<1>6. /\ noted' \subseteq Portraits /\ Having \subseteq Having'
      /\ Upcoming \in noted' \/ picture'[Upcoming] = "none"
    BY <1>1, <1>4 DEF Saved, Having
<1>7. Working'
    BY <1>5 DEF Working
<1> QED BY <1>1, <1>2, <1>5, <1>6, <1>7, WithinKeeps

\* A write of the file of avatars that fails leaves no avatar in it that was not.
LEMMA UnsavedKeeps ==
    ASSUME AvatarInv, UNCHANGED picture, Unsaved \/ UNCHANGED <<noted, early>>
    PROVE  /\ noted' \subseteq Portraits /\ early' \subseteq Portraits
           /\ early' \subseteq early /\ early' \subseteq Having'
<1>1. noted \subseteq Portraits /\ early \subseteq Portraits /\ early \subseteq Having
    BY AvatarTypes DEF AvatarInv, Drawn
<1> QED BY <1>1 DEF Unsaved, Having

LEMMA EndItemKeeps == ASSUME AvatarInv, NEW status \in Finals, EndItem(status) PROVE AvatarInv'
<1> DEFINE a == Upcoming
<1>1. /\ Working /\ drawing.left # {}
      /\ journalRow' = [journalRow EXCEPT ![a] = status]
      /\ Unsaved \/ UNCHANGED <<noted, early>>
      /\ drawing' = [drawing EXCEPT !.at = "loop", !.left = @ \ {a}, !.count[status] = @ + 1]
      /\ UNCHANGED <<picture, chosen, skips, former>>
    BY DEF EndItem, ItemEnds, AvatarInv, Drawn, Working
<1>2. a \in drawing.left
    BY <1>1, UpcomingIs DEF AvatarInv
<1> HIDE DEF a
<1>3. /\ drawing \in Drawings /\ journalRow \in [Portraits -> JournalRows]
      /\ chosen \subseteq Portraits /\ drawing.left = Unsettled /\ drawing.count = Counts
      /\ early \subseteq Having /\ early \subseteq drawing.known
    BY <1>1, AvatarTypes DEF AvatarInv, Drawn
<1>4. a \in chosen /\ a \in Portraits /\ journalRow[a] \notin Finals
    BY <1>2, <1>3 DEF Unsettled
<1>5. /\ journalRow' \in [Portraits -> JournalRows]
      /\ \A b \in Portraits : journalRow'[b] = IF b = a THEN status ELSE journalRow[b]
    BY <1>1, <1>3 DEF JournalRows
<1>6. \A s \in Finals : Cardinality(Marked(s)') = Cardinality(Marked(s)) + (IF s = status THEN 1 ELSE 0)
    <2> TAKE s \in Finals
    <2>1. Marked(s) \in SUBSET Portraits /\ a \notin Marked(s)
        BY <1>4 DEF Marked
    <2>2. IsFiniteSet(Marked(s)) /\ Cardinality(Marked(s)) \in Nat
        BY <2>1, AvatarAssumption, FS_Subset, FS_CardinalityType
    <2>3. Marked(s)' = IF s = status THEN Marked(s) \cup {a} ELSE Marked(s)
        BY <1>4, <1>5 DEF Marked
    <2>4. CASE s = status
        BY <2>1, <2>2, <2>3, <2>4, FS_AddElement
    <2>5. CASE s # status
        BY <2>2, <2>3, <2>5
    <2> QED BY <2>4, <2>5
<1>7. Counts' = [Counts EXCEPT ![status] = @ + 1]
    <2>1. Finals = {"success", "failed", "skipped"}
        BY DEF Finals
    <2>2. \A s \in Finals : Cardinality(Marked(s)) \in Nat
        BY CountsTyped DEF Counts, AvatarTallies, Finals
    <2> QED BY <1>6, <2>1, <2>2 DEF Counts
<1>8. Unsettled' = Unsettled \ {a}
    BY <1>1, <1>3, <1>4, <1>5 DEF Unsettled
<1>9. /\ noted' \subseteq Portraits /\ early' \subseteq Portraits
      /\ early' \subseteq early /\ early' \subseteq Having'
    BY <1>1, UnsavedKeeps
<1>10. /\ drawing' \in Drawings /\ drawing'.at = "loop" /\ drawing'.left = drawing.left \ {a}
       /\ drawing'.count = [drawing.count EXCEPT ![status] = @ + 1] /\ drawing'.known = drawing.known
    <2>1. [drawing.count EXCEPT ![status] = @ + 1] \in AvatarTallies
        <3> DEFINE c == drawing.count
        <3>1. c \in AvatarTallies
            BY <1>3 DEF Drawings
        <3> HIDE DEF c
        <3>2. status \in {"success", "failed", "skipped"}
            BY DEF Finals
        <3>3. [c EXCEPT ![status] = @ + 1] \in AvatarTallies
            BY <3>1, <3>2 DEF AvatarTallies
        <3> QED BY <3>3 DEF c
    <2>2. /\ drawing' = [drawing EXCEPT !.at = "loop", !.left = drawing.left \ {a},
                           !.count = [drawing.count EXCEPT ![status] = @ + 1]]
        BY <1>1, <1>3 DEF Drawings
    <2> DEFINE C == [drawing.count EXCEPT ![status] = @ + 1]
    <2> HIDE DEF C
    <2>4. /\ drawing' = [drawing EXCEPT !.at = "loop", !.left = drawing.left \ {a}, !.count = C]
          /\ C \in AvatarTallies
        BY <2>1, <2>2 DEF C
    <2>5. /\ drawing' \in Drawings /\ drawing'.at = "loop" /\ drawing'.left = drawing.left \ {a}
          /\ drawing'.count = C /\ drawing'.known = drawing.known
        BY <1>3, <2>4 DEF Drawings
    <2> QED BY <2>5 DEF C
<1>12. AvatarTypeOK'
    BY <1>1, <1>5, <1>9, <1>10, AvatarTypes
       DEF AvatarInv, AvatarTypeOK, DrawnPictures, JournalRows, Drawings, AvatarTallies
<1>13. Drawn'
    BY <1>1, <1>3, <1>7, <1>8, <1>9, <1>10 DEF Drawn, Working
<1> QED BY <1>12, <1>13 DEF AvatarInv

\* A step that leaves the rows and the execution alone.
LEMMA BesideKeeps ==
    ASSUME AvatarInv, UNCHANGED <<chosen, skips, journalRow, drawing>>, former' \subseteq former,
           noted' \subseteq Portraits, picture' \in DrawnPictures, early' \subseteq early,
           early' \subseteq Having',
           drawing.at = "noted" => Upcoming \in noted' \/ picture'[Upcoming] = "none"
    PROVE  AvatarInv'
<1>1. AvatarTypeOK'
    BY AvatarTypes DEF AvatarInv, AvatarTypeOK, DrawnPictures
<1>2. Counts' = Counts /\ Unsettled' = Unsettled /\ Upcoming' = Upcoming /\ Working' = Working
    BY UpcomingStays DEF Counts, Marked, Unsettled, Working
<1>3. Drawn'
    BY <1>2 DEF AvatarInv, Drawn
<1> QED BY <1>1, <1>3 DEF AvatarInv

\* A picture is set: a new one, that is noted, or could not be.
LEMMA PictureKeeps ==
    ASSUME AvatarInv, NEW a \in Portraits, NEW by \in {"made", "pinned"}, Sets(a, by),
           former' \subseteq former
    PROVE  AvatarInv'
<1>1. /\ picture \in DrawnPictures /\ early \subseteq Having /\ noted \subseteq Portraits
      /\ picture' = [picture EXCEPT ![a] = by] /\ ~Working
      /\ \/ noted' = {b \in noted \cup {a} : picture'[b] # "none"} /\ UNCHANGED early
         \/ noted' \in {noted, {}} /\ early' = early \cap noted'
      /\ UNCHANGED <<chosen, skips, journalRow, drawing>>
    BY AvatarTypes DEF Sets, Unsaved, AvatarInv, Drawn
<1>2. /\ picture' \in DrawnPictures
      /\ \A b \in Portraits : picture[b] # "none" => picture'[b] # "none"
    BY <1>1 DEF DrawnPictures
<1>3. noted' \subseteq Portraits /\ early' \subseteq early
    BY <1>1
<1>4. early' \subseteq Having'
    <2>1. CASE noted' = {b \in noted \cup {a} : picture'[b] # "none"} /\ UNCHANGED early
        BY <1>1, <1>2, <2>1 DEF Having
    <2>2. CASE noted' \in {noted, {}} /\ early' = early \cap noted'
        BY <1>1, <1>2, <2>2 DEF Having
    <2> QED BY <1>1, <2>1, <2>2
<1>5. drawing.at # "noted"
    BY <1>1 DEF Working
<1> QED BY <1>1, <1>2, <1>3, <1>4, <1>5, BesideKeeps

LEMMA AvatarKeeps == AvatarInv /\ [AvatarNext]_avatarVars => AvatarInv'
<1> SUFFICES ASSUME AvatarInv, [AvatarNext]_avatarVars PROVE AvatarInv'
    OBVIOUS
<1>1. CASE UNCHANGED avatarVars
    <2>1. /\ noted' \subseteq Portraits /\ picture' \in DrawnPictures /\ early' \subseteq early
          /\ Having' = Having /\ early \subseteq Having
          /\ UNCHANGED <<chosen, skips, journalRow, drawing, former, noted, picture, early>>
          /\ drawing.at = "noted" => Upcoming \in noted \/ picture[Upcoming] = "none"
        BY <1>1, AvatarTypes DEF avatarVars, AvatarInv, Drawn, Having
    <2> QED BY <2>1, BesideKeeps
<1>2. CASE Respond
    <2>1. /\ drawing.at = "loop" /\ drawing.left = {} /\ drawing \in Drawings
          /\ drawing' = [drawing EXCEPT !.at = "done", !.response = drawing.count]
          /\ UNCHANGED <<noted, picture, chosen, skips, journalRow, early, former>>
        BY <1>2, AvatarTypes DEF Respond, AvatarInv
    <2>2. /\ drawing' \in Drawings /\ drawing'.at = "done" /\ drawing'.count = drawing.count
          /\ drawing'.response = drawing.count
        BY <2>1 DEF Drawings
    <2>3. Counts' = Counts /\ Unsettled' = Unsettled /\ Having' = Having
        BY <2>1 DEF Counts, Marked, Unsettled, Having
    <2>4. Drawn'
        BY <2>1, <2>2, <2>3 DEF AvatarInv, Drawn, Working
    <2> QED BY <2>1, <2>2, <2>4, AvatarTypes
               DEF AvatarInv, AvatarTypeOK, DrawnPictures, Drawings, AvatarTallies
<1>3. CASE Aborted
    <2>1. /\ drawing \in Drawings /\ drawing' = [drawing EXCEPT !.at = "over"]
          /\ UNCHANGED <<noted, picture, chosen, skips, journalRow, early, former>>
        BY <1>3, AvatarTypes DEF Aborted, AvatarInv
    <2>2. drawing' \in Drawings /\ drawing'.at = "over"
        BY <2>1 DEF Drawings
    <2>3. Drawn'
        BY <2>1, <2>2 DEF AvatarInv, Drawn, Having, Working
    <2> QED BY <2>1, <2>2, <2>3, AvatarTypes
               DEF AvatarInv, AvatarTypeOK, DrawnPictures, Drawings, AvatarTallies
<1>4. CASE DrawingKilled
    <2>1. /\ journalRow' \in [Portraits -> JournalRows] /\ drawing' = Stopped
          /\ Unsaved \/ UNCHANGED <<noted, early>>
          /\ UNCHANGED <<picture, chosen, skips, former>>
        BY <1>4, AvatarTypes DEF DrawingKilled, AvatarInv, JournalRows
    <2>2. noted' \subseteq Portraits /\ early' \subseteq Portraits /\ early' \subseteq Having'
        BY <2>1, UnsavedKeeps
    <2>3. Drawn'
        BY <2>1, <2>2, StoppedTyped DEF Drawn, Working
    <2> QED BY <2>1, <2>2, <2>3, StoppedTyped, AvatarTypes DEF AvatarInv, AvatarTypeOK, Drawings,
               AvatarTallies, JournalRows, DrawnPictures
<1>5. CASE RetryFailed
    <2>1. /\ journalRow' \in [Portraits -> JournalRows] /\ drawing' = Stopped
          /\ chosen' \subseteq Portraits /\ former' \subseteq Portraits /\ early' = Having
          /\ noted \subseteq Portraits /\ UNCHANGED <<noted, picture, skips>>
        BY <1>5, AvatarTypes DEF RetryFailed, AvatarInv, JournalRows, Marked
    <2>2. Having' = Having /\ Having \subseteq Portraits
        BY <2>1 DEF Having
    <2>3. Drawn'
        BY <2>1, <2>2, StoppedTyped DEF Drawn, Working
    <2> QED BY <2>1, <2>2, <2>3, StoppedTyped, AvatarTypes DEF AvatarInv, AvatarTypeOK, Drawings,
               AvatarTallies, JournalRows, DrawnPictures
<1>6. ASSUME NEW a \in Portraits, FormerDraws(a) \/ PinAvatar(a) \/ GenerateAvatar(a) PROVE AvatarInv'
    <2>1. PICK by \in {"made", "pinned"} : Sets(a, by)
        BY <1>6 DEF FormerDraws, PinAvatar, GenerateAvatar
    <2>2. former' \subseteq former
        BY <1>6 DEF FormerDraws, PinAvatar, GenerateAvatar
    <2> QED BY <2>1, <2>2, PictureKeeps
<1>7. ASSUME NEW a \in Portraits, AvatarLost(a) PROVE AvatarInv'
    <2>1. /\ picture \in DrawnPictures /\ early \subseteq Having /\ noted \subseteq Portraits
          /\ picture' = [picture EXCEPT ![a] = "none"] /\ early' = early \ {a}
          /\ UNCHANGED <<noted, chosen, skips, journalRow, drawing, former>>
          /\ drawing.at = "noted" => Upcoming \in noted \/ picture[Upcoming] = "none"
        BY <1>7, AvatarTypes DEF AvatarLost, AvatarInv, Drawn
    <2>2. picture' \in DrawnPictures /\ early' \subseteq Having'
        BY <2>1 DEF Having, DrawnPictures
    <2>3. drawing.at = "noted" => Upcoming \in noted' \/ picture'[Upcoming] = "none"
        <3> SUFFICES ASSUME drawing.at = "noted"
                     PROVE  Upcoming \in noted' \/ picture'[Upcoming] = "none"
            OBVIOUS
        <3>1. Upcoming \in drawing.left
            BY UpcomingIs DEF AvatarInv, Drawn, Working
        <3>2. Upcoming \in Portraits
            BY <3>1, AvatarTypes DEF AvatarInv, Drawings
        <3> QED BY <2>1, <3>2 DEF DrawnPictures
    <2> QED BY <2>1, <2>2, <2>3, BesideKeeps
<1> QED BY <1>1, <1>2, <1>3, <1>4, <1>5, <1>6, <1>7, DrawKeeps, StartItemKeeps, DrawPictureKeeps,
           NoteAvatarKeeps, EndItemKeeps DEF AvatarNext

\* A row that is final stays, success is said of a noted avatar, and an avatar
\* from before the task is left.
LEMMA SettledOnce ==
    ASSUME AvatarInv, [AvatarNext]_avatarVars, NEW a \in Portraits
    PROVE  /\ journalRow[a] \in Finals => journalRow'[a] = journalRow[a] \/ RetryFailed
           /\ journalRow'[a] = "success" =>
                  journalRow[a] = "success" \/ a \in noted \/ picture[a] = "none"
           /\ skips /\ a \in early /\ picture'[a] = "made" => picture[a] = "made" \/ FormerDraws(a)
<1>1. /\ picture \in DrawnPictures /\ journalRow \in [Portraits -> JournalRows]
    BY AvatarTypes DEF AvatarInv
<1>2. CASE Draw
    BY <1>1, <1>2, PreparedIs DEF Draw, AvatarInv, Finals
<1>3. CASE StartItem
    <2>1. Upcoming \in Unsettled
        BY <1>3, UpcomingIs DEF StartItem, AvatarInv, Drawn
    <2> QED BY <1>1, <1>3, <2>1 DEF StartItem, Unsettled
<1>4. ASSUME NEW status \in Finals, EndItem(status)
      PROVE  /\ journalRow[a] \in Finals => journalRow'[a] = journalRow[a]
             /\ journalRow'[a] = "success" =>
                    journalRow[a] = "success" \/ a \in noted \/ picture[a] = "none"
             /\ UNCHANGED picture
    <2>1. Working /\ UNCHANGED picture /\ journalRow' = [journalRow EXCEPT ![Upcoming] = status]
        BY <1>4 DEF EndItem, ItemEnds, Working
    <2>2. Upcoming \in Unsettled
        BY <2>1, UpcomingIs DEF AvatarInv, Drawn
    <2>3. journalRow[a] \in Finals => journalRow'[a] = journalRow[a]
        BY <1>1, <2>1, <2>2 DEF Unsettled
    <2>4. status = "success" => drawing.at = "noted"
        BY <1>4 DEF EndItem, ItemEnds
    <2>5. status = "success" => Upcoming \in noted \/ picture[Upcoming] = "none"
        BY <2>4 DEF AvatarInv, Drawn
    <2>6. journalRow'[a] = IF a = Upcoming THEN status ELSE journalRow[a]
        BY <1>1, <2>1
    <2> QED BY <2>1, <2>3, <2>5, <2>6
<1>5. CASE DrawPicture
    <2>1. drawing.at = "item" /\ ~Skipped(Upcoming) /\ early \subseteq drawing.known /\ early \subseteq Having
        BY <1>5 DEF DrawPicture, AvatarInv, Drawn, Working
    <2>2. ~(skips /\ Upcoming \in early)
        BY <2>1 DEF Skipped, Having
    <2>3. picture'[a] = IF a = Upcoming THEN "made" ELSE picture[a]
        BY <1>1, <1>5 DEF DrawPicture, DrawnPictures
    <2>4. UNCHANGED journalRow
        BY <1>5 DEF DrawPicture
    <2> QED BY <2>2, <2>3, <2>4
<1>6. ASSUME NEW b \in Portraits,
             FormerDraws(b) \/ PinAvatar(b) \/ GenerateAvatar(b) \/ AvatarLost(b)
      PROVE  /\ journalRow' = journalRow
             /\ picture'[a] = "made" => picture[a] = "made" \/ FormerDraws(a)
    BY <1>1, <1>6 DEF FormerDraws, PinAvatar, GenerateAvatar, AvatarLost, Sets, DrawnPictures
<1>7. CASE UNCHANGED avatarVars \/ NoteAvatar \/ Respond \/ Aborted
    BY <1>7 DEF avatarVars, NoteAvatar, Respond, Aborted
<1>8. CASE DrawingKilled
    BY <1>1, <1>8 DEF DrawingKilled, Finals
<1>9. CASE RetryFailed
    BY <1>1, <1>9 DEF RetryFailed
<1> QED BY <1>2, <1>3, <1>4, <1>5, <1>6, <1>7, <1>8, <1>9 DEF AvatarNext

\* The task and the portraits keep their types, for every number of accounts
\* (main_server.py).
THEOREM AvatarTypeCorrect == AvatarSpec => []AvatarTypeOK
<1>1. AvatarInv => AvatarTypeOK
    BY DEF AvatarInv
<1> QED BY <1>1, AvatarBegins, AvatarKeeps, PTL DEF AvatarSpec

\* Every account is settled once in a task, over kills between any two of its
\* writes and restarts (_run_ui_avatar_batch).
THEOREM AvatarsDrawnOnce == AvatarSpec => AvatarsOnce
<1>1. AvatarInv =>
        /\ drawing.at \in {"loop", "done"} => drawing.count = Counts
        /\ drawing.at = "done" =>
              /\ drawing.response = Counts
              /\ \A a \in chosen : journalRow[a] \in Finals
    BY DEF AvatarInv, Drawn, Unsettled
<1>2. AvatarInv /\ [AvatarNext]_avatarVars =>
        [\A a \in Portraits :
             /\ journalRow[a] \in Finals => journalRow'[a] = journalRow[a] \/ RetryFailed
             /\ journalRow'[a] = "success" =>
                    journalRow[a] = "success" \/ a \in noted \/ picture[a] = "none"
             /\ skips /\ a \in early /\ picture'[a] = "made" =>
                    picture[a] = "made" \/ FormerDraws(a)]_avatarVars
    BY SettledOnce
<1> QED BY <1>1, <1>2, AvatarBegins, AvatarKeeps, PTL DEF AvatarSpec, AvatarsOnce

-----------------------------------------------------------------------------
(* AccountActivity *)

\* A time in a row is the time of the work that is named with it.
Timed(at, id) == at = IF id = None THEN 0 ELSE TextOf(id)
RowTimed(r) ==
    /\ Timed(r.seenAt, r.seen) /\ Timed(r.savedAt, r.saved)
    /\ ~turnsBack => r.saved <= r.seen
\* What a visit came to is in the row, under a newer work maybe, or it is
\* waiting to be written.
SeenSafe(t) == \/ activity # Blank /\ t <= activity.seen
               \/ \E c \in Crawlers : errand[c].at = "visited" /\ t <= errand[c].seen
SavedSafe(t) == \/ activity # Blank /\ t <= activity.saved
                \/ \E c \in Crawlers : errand[c].at = "visited" /\ t <= errand[c].saved
Known ==
    /\ activity # Blank =>
          /\ RowTimed(activity)
          /\ ~turnsBack => /\ activity.seen \in told.seen \cup {None}
                           /\ activity.saved \in told.saved \cup {None}
    /\ \A c \in Crawlers : errand[c].at = "visited" =>
          /\ errand[c].saved <= errand[c].seen
          /\ errand[c].seen \in told.seen \cup {None} /\ errand[c].saved \in told.saved \cup {None}
    /\ (~turnsBack /\ ~dropped) =>
          (\A t \in told.seen : SeenSafe(t)) /\ (\A t \in told.saved : SavedSafe(t))
ActivityInv == ActivityTypeOK /\ Known

Errands == [at : {"rest", "visiting", "visited"}, seen : 0..MaxPosts, saved : 0..MaxPosts,
            status : Outcomes]

LEMMA ActivityTypes ==
    ActivityTypeOK <=>
        /\ published \in 0..MaxPosts /\ turnsBack \in BOOLEAN /\ dropped \in BOOLEAN
        /\ errand \in [Crawlers -> Errands] /\ activity \in ActivityRows \cup {Blank}
        /\ told \in [seen : SUBSET (1..MaxPosts), saved : SUBSET (1..MaxPosts)]
BY DEF ActivityTypeOK, Errands

LEMMA TextIs ==
    ASSUME NEW w \in Nat
    PROVE  /\ TextOf(w) \in Nat /\ (TextOf(w) = 0 <=> w = 0)
           /\ ~turnsBack => TextOf(w) = w
<1>1. CASE turnsBack /\ w \in {1, 2}
    BY <1>1 DEF TextOf
<1>2. CASE ~(turnsBack /\ w \in {1, 2})
    BY <1>2 DEF TextOf
<1> QED BY <1>1, <1>2

\* The newest of some works is one of them, and there is one.
LEMMA LatestIs ==
    ASSUME NEW n \in Nat, NEW works \in SUBSET (1..n)
    PROVE  /\ Latest(works) \in works \cup {None} /\ \A w \in works : w <= Latest(works)
           /\ Latest(works) \in 0..n
           /\ works # {} => Latest(works) \in works
<1> DEFINE T == works \cup {None}
           U == {n - w : w \in T}
<1>1. T \subseteq 0..n /\ T # {}
    BY DEF None
<1>2. U \subseteq Nat /\ U # {}
    BY <1>1
<1>3. PICK u \in U : \A v \in U : u <= v
    <2> HIDE DEF U
    <2> QED BY <1>2, LeastNumber
<1>4. PICK m \in T : u = n - m
    OBVIOUS
<1>5. \A w \in T : m >= w
    <2> SUFFICES ASSUME NEW w \in T PROVE m >= w
        OBVIOUS
    <2>1. n - w \in U /\ w \in 0..n /\ m \in 0..n
        BY <1>1
    <2>2. n - m <= n - w
        BY <1>3, <1>4, <2>1
    <2> QED BY <2>1, <2>2
<1>6. Max(T) \in T /\ \A w \in T : Max(T) >= w
    <2> HIDE DEF T
    <2> QED BY <1>5 DEF Max
<1>7. Latest(works) = Max(T)
    BY DEF Latest
<1> DEFINE l == Latest(works)
<1>8. l \in T /\ \A w \in T : l >= w
    BY <1>6, <1>7
<1> HIDE DEF l
<1>9. l \in 0..n /\ \A w \in works : w <= l
    BY <1>1, <1>8
<1>10. works # {} => l \in works
    BY <1>8, <1>9 DEF None
<1> QED BY <1>8, <1>9, <1>10 DEF l

\* The later of two works, under its own time.
LEMMA NewerIs ==
    ASSUME NEW at \in Nat, NEW id \in 0..MaxPosts, NEW w \in 0..MaxPosts, Timed(at, id)
    PROVE  LET n == Newer(at, id, w) IN
           /\ n.at \in Nat /\ n.id \in 0..MaxPosts /\ Timed(n.at, n.id)
           /\ ~turnsBack => n.id = IF w > id THEN w ELSE id
<1>0. MaxPosts \in Nat /\ id \in Nat /\ w \in Nat
    BY ActivityAssumption
<1>1. /\ TextOf(w) \in Nat /\ (TextOf(w) = 0 <=> w = 0) /\ (~turnsBack => TextOf(w) = w)
      /\ TextOf(id) \in Nat /\ (TextOf(id) = 0 <=> id = 0) /\ (~turnsBack => TextOf(id) = id)
    BY <1>0, TextIs
<1>2. CASE TextOf(w) > at
    <2>1. Newer(at, id, w).at = TextOf(w) /\ Newer(at, id, w).id = w
        BY <1>2 DEF Newer
    <2>2. w # 0
        BY <1>1, <1>2
    <2>3. ~turnsBack => w > id
        BY <1>0, <1>1, <1>2 DEF Timed, None
    <2> QED BY <1>1, <2>1, <2>2, <2>3 DEF Timed, None
<1>3. CASE ~(TextOf(w) > at)
    <2>1. Newer(at, id, w).at = at /\ Newer(at, id, w).id = IF id = None THEN w ELSE id
        BY <1>3 DEF Newer
    <2>2. id = 0 => w = 0
        BY <1>1, <1>3 DEF Timed, None
    <2>3. Newer(at, id, w).id = id
        BY <2>1, <2>2 DEF None
    <2>4. ~turnsBack => ~(w > id)
        BY <1>0, <1>1, <1>3, <2>2 DEF Timed, None
    <2> QED BY <2>1, <2>3, <2>4
<1> QED BY <1>2, <1>3

LEMMA RowAfterIs ==
    ASSUME ActivityInv, NEW c \in Crawlers, errand[c].at = "visited"
    PROVE  LET r == RowAfter(errand[c]) IN
           /\ r \in ActivityRows /\ RowTimed(r)
           /\ ~turnsBack =>
                 /\ r.seen \in told.seen \cup {None} /\ r.saved \in told.saved \cup {None}
                 /\ errand[c].seen <= r.seen /\ errand[c].saved <= r.saved
                 /\ activity # Blank => activity.seen <= r.seen /\ activity.saved <= r.saved
<1> DEFINE e == errand[c]
           old == IF activity = Blank
                  THEN [seenAt |-> 0, seen |-> None, savedAt |-> 0, saved |-> None,
                        status |-> e.status, succeeded |-> FALSE]
                  ELSE activity
           seen == Newer(old.seenAt, old.seen, e.seen)
           saved == Newer(old.savedAt, old.saved, e.saved)
           r == RowAfter(e)
<1>1. /\ e \in Errands /\ e.saved <= e.seen
      /\ e.seen \in told.seen \cup {None} /\ e.saved \in told.saved \cup {None}
    BY ActivityTypes DEF ActivityInv, Known
<1>2. r = [seenAt |-> seen.at, seen |-> seen.id, savedAt |-> saved.at, saved |-> saved.id,
           status |-> e.status, succeeded |-> old.succeeded \/ e.status = "success"]
    BY DEF RowAfter
<1> HIDE DEF e, r
<1>0. MaxPosts \in Nat
    BY ActivityAssumption
<1>3. /\ old.seenAt \in Nat /\ old.seen \in 0..MaxPosts /\ old.savedAt \in Nat
      /\ old.saved \in 0..MaxPosts /\ RowTimed(old)
      /\ activity # Blank => old = activity
      /\ ~turnsBack => old.seen \in told.seen \cup {None} /\ old.saved \in told.saved \cup {None}
    <2>1. CASE activity = Blank
        <3> HIDE DEF old
        <3>1. old.seenAt = 0 /\ old.seen = 0 /\ old.savedAt = 0 /\ old.saved = 0
            BY <2>1 DEF old, None
        <3> QED BY <1>0, <2>1, <3>1 DEF RowTimed, Timed, None
    <2>2. CASE activity # Blank
        <3>1. activity \in ActivityRows /\ old = activity
            BY <2>2, ActivityTypes DEF ActivityInv
        <3> HIDE DEF old
        <3> QED BY <2>2, <3>1 DEF ActivityInv, Known, ActivityRows
    <2> QED BY <2>1, <2>2
<1> HIDE DEF old
<1>4. e.seen \in 0..MaxPosts /\ e.saved \in 0..MaxPosts /\ e.status \in Outcomes
    BY <1>1 DEF Errands
<1>5. /\ seen.at \in Nat /\ seen.id \in 0..MaxPosts /\ Timed(seen.at, seen.id)
      /\ ~turnsBack => seen.id = IF e.seen > old.seen THEN e.seen ELSE old.seen
    BY <1>3, <1>4, NewerIs DEF RowTimed
<1>6. /\ saved.at \in Nat /\ saved.id \in 0..MaxPosts /\ Timed(saved.at, saved.id)
      /\ ~turnsBack => saved.id = IF e.saved > old.saved THEN e.saved ELSE old.saved
    BY <1>3, <1>4, NewerIs DEF RowTimed
<1> HIDE DEF seen, saved
<1>7. (old.succeeded \/ e.status = "success") \in BOOLEAN
    <2>1. old.succeeded \in BOOLEAN
        <3>1. CASE activity = Blank
            <4>1. old.succeeded = FALSE
                BY <3>1 DEF old
            <4> QED BY <4>1
        <3>2. CASE activity # Blank
            BY <3>2, ActivityTypes DEF old, ActivityInv, ActivityRows
        <3> QED BY <3>1, <3>2
    <2>2. \A x, y \in BOOLEAN : (x \/ y) \in BOOLEAN
        OBVIOUS
    <2> QED BY <2>1, <2>2
<1>8. /\ r.seen = seen.id /\ r.saved = saved.id /\ r.seenAt = seen.at /\ r.savedAt = saved.at
    BY <1>2
<1>9. r \in ActivityRows
    BY <1>2, <1>4, <1>5, <1>6, <1>7 DEF ActivityRows
<1>10. ~turnsBack => r.saved <= r.seen
    <2>1. ~turnsBack => old.saved <= old.seen
        BY <1>3 DEF RowTimed
    <2> QED BY <1>0, <1>1, <1>3, <1>4, <1>5, <1>6, <1>8, <2>1
<1>11. ~turnsBack =>
          /\ r.seen \in told.seen \cup {None} /\ r.saved \in told.saved \cup {None}
          /\ e.seen <= r.seen /\ e.saved <= r.saved
          /\ activity # Blank => activity.seen <= r.seen /\ activity.saved <= r.saved
    BY <1>0, <1>1, <1>3, <1>4, <1>5, <1>6, <1>8
<1>12. RowTimed(r)
    BY <1>5, <1>6, <1>8, <1>10 DEF RowTimed
<1> QED BY <1>9, <1>11, <1>12 DEF e, r

LEMMA ActivityBegins == ActivityInit => ActivityInv
<1> SUFFICES ASSUME ActivityInit PROVE ActivityInv
    OBVIOUS
<1>0. MaxPosts \in Nat \ {0}
    BY ActivityAssumption
<1>1. AtRest \in Errands /\ AtRest.at = "rest"
    BY <1>0 DEF AtRest, Errand, Errands, None, Outcomes
<1>2. errand = [c \in Crawlers |-> AtRest] /\ told = [seen |-> {}, saved |-> {}]
    BY DEF ActivityInit
<1> HIDE DEF AtRest
<1>3. errand \in [Crawlers -> Errands] /\ \A c \in Crawlers : errand[c].at = "rest"
    BY <1>1, <1>2
<1>4. ActivityTypeOK
    <2>1. told \in [seen : SUBSET (1..MaxPosts), saved : SUBSET (1..MaxPosts)]
        BY <1>2
    <2>2. published \in 0..MaxPosts
        BY <1>0 DEF ActivityInit
    <2>3. activity \in ActivityRows \cup {Blank} /\ turnsBack \in BOOLEAN /\ dropped \in BOOLEAN
        BY Zenon DEF ActivityInit
    <2> QED BY <1>3, <2>1, <2>2, <2>3, ActivityTypes
<1>5. told.seen = {} /\ told.saved = {} /\ activity = Blank
    BY <1>2 DEF ActivityInit
<1>6. Known
    BY <1>3, <1>5 DEF Known
<1> QED BY <1>4, <1>6 DEF ActivityInv

\* What an invariant of the errands has to say of one that is replaced.
LEMMA ErrandReplaced ==
    ASSUME ActivityInv, NEW c \in Crawlers, NEW e \in Errands, errand' = [errand EXCEPT ![c] = e]
    PROVE  /\ errand' \in [Crawlers -> Errands] /\ errand'[c] = e
           /\ \A d \in Crawlers : d # c => errand'[d] = errand[d]
BY ActivityTypes DEF ActivityInv

LEMMA PublishesKeeps == ASSUME ActivityInv, PublishesWork PROVE ActivityInv'
<1>0. MaxPosts \in Nat
    BY ActivityAssumption
<1>1. published' \in 0..MaxPosts
    BY <1>0, ActivityTypes DEF ActivityInv, PublishesWork
<1>2. UNCHANGED <<turnsBack, errand, activity, told, dropped>>
    BY DEF PublishesWork
<1>3. ActivityTypeOK'
    BY <1>1, <1>2 DEF ActivityInv, ActivityTypeOK
<1>4. Known'
    BY <1>2 DEF ActivityInv, Known, SeenSafe, SavedSafe, RowTimed, Timed, TextOf
<1> QED BY <1>3, <1>4 DEF ActivityInv

\* An errand that begins changes nothing of what is known.
LEMMA VisitKeeps == ASSUME ActivityInv, NEW c \in Crawlers, VisitsAccount(c) PROVE ActivityInv'
<1> DEFINE e == [errand[c] EXCEPT !.at = "visiting"]
<1>1. errand[c] \in Errands /\ errand[c].at = "rest"
    BY ActivityTypes DEF ActivityInv, VisitsAccount
<1>2. e \in Errands /\ e.at = "visiting"
    BY <1>1 DEF Errands
<1>3. errand' = [errand EXCEPT ![c] = e]
    BY DEF VisitsAccount
<1>4. UNCHANGED <<published, turnsBack, activity, told, dropped>>
    BY DEF VisitsAccount
<1> HIDE DEF e
<1>5. /\ errand' \in [Crawlers -> Errands] /\ errand'[c] = e
      /\ \A d \in Crawlers : d # c => errand'[d] = errand[d]
    BY <1>2, <1>3, ErrandReplaced
<1>6. \A d \in Crawlers : /\ errand'[d].at = "visited" <=> errand[d].at = "visited"
                          /\ errand[d].at = "visited" => errand'[d] = errand[d]
    BY <1>1, <1>2, <1>5
<1>7. ActivityTypeOK'
    BY <1>4, <1>5 DEF ActivityInv, ActivityTypeOK, Errands
<1>8. Known'
    BY <1>4, <1>6 DEF ActivityInv, Known, SeenSafe, SavedSafe, RowTimed, Timed, TextOf
<1> QED BY <1>7, <1>8 DEF ActivityInv

\* What a visit came to: it has seen what it has told, and it waits.
LEMMA OutcomeKeeps ==
    ASSUME ActivityInv, NEW c \in Crawlers, NEW e \in Errands, errand[c].at # "visited",
           e.at = "visited", e.saved <= e.seen,
           e.seen \in told'.seen \cup {None}, e.saved \in told'.saved \cup {None},
           told' \in [seen : SUBSET (1..MaxPosts), saved : SUBSET (1..MaxPosts)],
           told.seen \subseteq told'.seen /\ told'.seen \subseteq told.seen \cup {e.seen},
           told.saved \subseteq told'.saved /\ told'.saved \subseteq told.saved \cup {e.saved},
           errand' = [errand EXCEPT ![c] = e],
           UNCHANGED <<published, turnsBack, activity, dropped>>
    PROVE  ActivityInv'
<1>1. /\ errand' \in [Crawlers -> Errands] /\ errand'[c] = e
      /\ \A d \in Crawlers : d # c => errand'[d] = errand[d]
    BY ErrandReplaced
<1>2. ActivityTypeOK'
    BY <1>1 DEF ActivityInv, ActivityTypeOK, Errands
<1>3. (activity # Blank =>
          /\ RowTimed(activity)
          /\ ~turnsBack => /\ activity.seen \in told.seen \cup {None}
                           /\ activity.saved \in told.saved \cup {None})'
    BY DEF ActivityInv, Known, RowTimed, Timed, TextOf
<1>4. (\A d \in Crawlers : errand[d].at = "visited" =>
          /\ errand[d].saved <= errand[d].seen
          /\ errand[d].seen \in told.seen \cup {None}
          /\ errand[d].saved \in told.saved \cup {None})'
    <2> SUFFICES ASSUME NEW d \in Crawlers, errand'[d].at = "visited"
                 PROVE  /\ errand'[d].saved <= errand'[d].seen
                        /\ errand'[d].seen \in told'.seen \cup {None}
                        /\ errand'[d].saved \in told'.saved \cup {None}
        OBVIOUS
    <2>1. CASE d = c
        BY <1>1, <2>1
    <2>2. CASE d # c
        <3>1. errand'[d] = errand[d]
            BY <1>1, <2>2
        <3> QED BY <3>1 DEF ActivityInv, Known
    <2> QED BY <2>1, <2>2
<1>5. MaxPosts \in Nat /\ e.seen \in 0..MaxPosts /\ e.saved \in 0..MaxPosts
    BY ActivityAssumption DEF Errands
<1>6. ASSUME ~turnsBack', ~dropped', NEW t \in told'.seen PROVE SeenSafe(t)'
    <2>1. CASE t \in told.seen
        <3>1. SeenSafe(t)
            BY <1>6, <2>1 DEF ActivityInv, Known
        <3> QED BY <1>1, <3>1 DEF SeenSafe
    <2>2. CASE t = e.seen
        BY <1>1, <1>5, <2>2 DEF SeenSafe
    <2> QED BY <1>6, <2>1, <2>2
<1>7. ASSUME ~turnsBack', ~dropped', NEW t \in told'.saved PROVE SavedSafe(t)'
    <2>1. CASE t \in told.saved
        <3>1. SavedSafe(t)
            BY <1>7, <2>1 DEF ActivityInv, Known
        <3> QED BY <1>1, <3>1 DEF SavedSafe
    <2>2. CASE t = e.saved
        BY <1>1, <1>5, <2>2 DEF SavedSafe
    <2> QED BY <1>7, <2>1, <2>2
<1>8. Known'
    BY <1>3, <1>4, <1>6, <1>7 DEF Known
<1> QED BY <1>2, <1>8 DEF ActivityInv

LEMMA ListKeeps == ASSUME ActivityInv, NEW c \in Crawlers, ListCome(c) PROVE ActivityInv'
<1>1. PICK came \in SUBSET (1..published) : \E dated \in SUBSET came :
          /\ came # {}
          /\ \E status \in {"success", "failed"} :
                errand' = [errand EXCEPT ![c] =
                              Errand("visited", Latest(came), Latest(dated), status)]
          /\ told' = [seen |-> told.seen \cup {Latest(came)},
                      saved |-> (told.saved \cup {Latest(dated)}) \ {None}]
    BY DEF ListCome
<1>2. PICK dated \in SUBSET came :
          /\ came # {}
          /\ \E status \in {"success", "failed"} :
                errand' = [errand EXCEPT ![c] =
                              Errand("visited", Latest(came), Latest(dated), status)]
          /\ told' = [seen |-> told.seen \cup {Latest(came)},
                      saved |-> (told.saved \cup {Latest(dated)}) \ {None}]
    BY <1>1
<1>3. PICK status \in {"success", "failed"} :
          errand' = [errand EXCEPT ![c] =
                        Errand("visited", Latest(came), Latest(dated), status)]
    BY <1>2
<1>4. /\ errand[c].at = "visiting" /\ UNCHANGED <<published, turnsBack, activity, dropped>>
    BY DEF ListCome
<1>5. MaxPosts \in Nat /\ published \in 0..MaxPosts
    BY ActivityAssumption, ActivityTypes DEF ActivityInv
<1>6. published \in Nat /\ came \in SUBSET (1..published) /\ dated \in SUBSET (1..published)
    BY <1>5
<1> DEFINE a == Latest(came)
           b == Latest(dated)
           e == Errand("visited", Latest(came), Latest(dated), status)
<1>7. /\ a \in came /\ (\A w \in came : w <= a) /\ a \in 0..published
      /\ b \in dated \cup {None} /\ b \in 0..published
    BY <1>2, <1>6, LatestIs
<1>8. told' = [seen |-> told.seen \cup {a}, saved |-> (told.saved \cup {b}) \ {None}]
    BY <1>2
<1>9. e = [at |-> "visited", seen |-> a, saved |-> b, status |-> status]
    BY DEF Errand
<1>10. errand' = [errand EXCEPT ![c] = e]
    BY <1>3
<1> HIDE DEF a, b, e
<1>11. b <= a /\ a \in 1..MaxPosts /\ b \in 0..MaxPosts /\ a \in 0..MaxPosts
    BY <1>5, <1>6, <1>7 DEF None
<1>12. /\ e \in Errands /\ e.at = "visited" /\ e.seen = a /\ e.saved = b
    BY <1>9, <1>11 DEF Errands, Outcomes
<1>13. told.seen \in SUBSET (1..MaxPosts) /\ told.saved \in SUBSET (1..MaxPosts)
    BY ActivityTypes DEF ActivityInv
<1>14. told'.seen = told.seen \cup {a} /\ told'.saved = (told.saved \cup {b}) \ {None}
    BY <1>8
<1>15. None \notin told.saved
    BY <1>5, <1>13 DEF None
<1>16. told' \in [seen : SUBSET (1..MaxPosts), saved : SUBSET (1..MaxPosts)]
    <2>1. told.seen \cup {a} \in SUBSET (1..MaxPosts)
        BY <1>11, <1>13
    <2>2. (told.saved \cup {b}) \ {None} \in SUBSET (1..MaxPosts)
        BY <1>5, <1>11, <1>13 DEF None
    <2> QED BY <1>8, <2>1, <2>2
<1>17. e.seen \in told'.seen \cup {None} /\ e.saved \in told'.saved \cup {None}
    BY <1>12, <1>14
<1>18. /\ told.seen \subseteq told'.seen /\ told'.seen \subseteq told.seen \cup {e.seen}
       /\ told.saved \subseteq told'.saved /\ told'.saved \subseteq told.saved \cup {e.saved}
    BY <1>12, <1>14, <1>15
<1> QED BY <1>4, <1>10, <1>11, <1>12, <1>16, <1>17, <1>18, OutcomeKeeps

LEMMA NothingKeeps == ASSUME ActivityInv, NEW c \in Crawlers, NothingComes(c) PROVE ActivityInv'
<1>1. PICK status \in {"failed", "skipped"} :
          errand' = [errand EXCEPT ![c] = Errand("visited", None, None, status)]
    BY DEF NothingComes
<1>2. errand[c].at = "visiting" /\ UNCHANGED <<published, turnsBack, activity, told, dropped>>
    BY DEF NothingComes
<1> DEFINE e == Errand("visited", None, None, status)
<1>3. /\ e \in Errands /\ e.at = "visited" /\ e.seen = None /\ e.saved = None
    BY ActivityAssumption DEF Errands, Errand, Outcomes, None
<1>4. errand' = [errand EXCEPT ![c] = e]
    BY <1>1
<1> HIDE DEF e
<1>5. e.saved <= e.seen
    BY <1>3 DEF None
<1>6. told' \in [seen : SUBSET (1..MaxPosts), saved : SUBSET (1..MaxPosts)]
    BY <1>2, ActivityTypes DEF ActivityInv
<1> QED BY <1>2, <1>3, <1>4, <1>5, <1>6, OutcomeKeeps

\* A batch that saves: what its visit came to is under the row it leaves.
LEMMA SaveKeeps == ASSUME ActivityInv, NEW c \in Crawlers, SavesActivity(c) PROVE ActivityInv'
<1> DEFINE r == RowAfter(errand[c])
<1>1. /\ r \in ActivityRows /\ RowTimed(r)
      /\ ~turnsBack =>
            /\ r.seen \in told.seen \cup {None} /\ r.saved \in told.saved \cup {None}
            /\ errand[c].seen <= r.seen /\ errand[c].saved <= r.saved
            /\ activity # Blank => activity.seen <= r.seen /\ activity.saved <= r.saved
    BY RowAfterIs DEF SavesActivity
<1>2. /\ errand[c].at = "visited" /\ activity' = r /\ errand' = [errand EXCEPT ![c] = AtRest]
      /\ UNCHANGED <<published, turnsBack, told, dropped>>
    BY DEF SavesActivity
<1> HIDE DEF r
<1>3. AtRest \in Errands /\ AtRest.at = "rest" /\ MaxPosts \in Nat
    BY ActivityAssumption DEF AtRest, Errand, Errands, None, Outcomes
<1> HIDE DEF AtRest
<1>4. /\ errand' \in [Crawlers -> Errands] /\ errand'[c] = AtRest
      /\ \A d \in Crawlers : d # c => errand'[d] = errand[d]
    BY <1>2, <1>3, ErrandReplaced
<1>5. r # Blank
    BY <1>1, BlankAssumption
<1>6. ActivityTypeOK'
    BY <1>1, <1>2, <1>4 DEF ActivityInv, ActivityTypeOK, Errands
<1>7. (activity # Blank =>
          /\ RowTimed(activity)
          /\ ~turnsBack => /\ activity.seen \in told.seen \cup {None}
                           /\ activity.saved \in told.saved \cup {None})'
    BY <1>1, <1>2 DEF RowTimed, Timed, TextOf
<1>8. (\A d \in Crawlers : errand[d].at = "visited" =>
          /\ errand[d].saved <= errand[d].seen
          /\ errand[d].seen \in told.seen \cup {None}
          /\ errand[d].saved \in told.saved \cup {None})'
    BY <1>2, <1>3, <1>4 DEF ActivityInv, Known
<1>9. \A d \in Crawlers : errand[d].seen \in Nat /\ errand[d].saved \in Nat
    BY <1>3, ActivityTypes DEF ActivityInv, Errands
<1>10. r.seen \in Nat /\ r.saved \in Nat
    BY <1>1, <1>3 DEF ActivityRows
<1>11. activity # Blank => activity.seen \in Nat /\ activity.saved \in Nat
    BY <1>3, ActivityTypes DEF ActivityInv, ActivityRows
<1>12. told.seen \subseteq Nat /\ told.saved \subseteq Nat
    BY <1>3, ActivityTypes DEF ActivityInv
<1>13. ASSUME ~turnsBack', ~dropped', NEW t \in told'.seen PROVE SeenSafe(t)'
    <2>1. SeenSafe(t) /\ t \in Nat
        BY <1>2, <1>12, <1>13 DEF ActivityInv, Known
    <2>2. CASE activity # Blank /\ t <= activity.seen
        BY <1>1, <1>2, <1>5, <1>10, <1>11, <1>13, <2>1, <2>2 DEF SeenSafe
    <2>3. ASSUME NEW d \in Crawlers, errand[d].at = "visited", t <= errand[d].seen
          PROVE  SeenSafe(t)'
        <3>1. CASE d = c
            BY <1>1, <1>2, <1>5, <1>9, <1>10, <1>13, <2>1, <2>3, <3>1 DEF SeenSafe
        <3>2. CASE d # c
            BY <1>4, <2>3, <3>2 DEF SeenSafe
        <3> QED BY <3>1, <3>2
    <2> QED BY <2>1, <2>2, <2>3 DEF SeenSafe
<1>14. ASSUME ~turnsBack', ~dropped', NEW t \in told'.saved PROVE SavedSafe(t)'
    <2>1. SavedSafe(t) /\ t \in Nat
        BY <1>2, <1>12, <1>14 DEF ActivityInv, Known
    <2>2. CASE activity # Blank /\ t <= activity.saved
        BY <1>1, <1>2, <1>5, <1>10, <1>11, <1>14, <2>1, <2>2 DEF SavedSafe
    <2>3. ASSUME NEW d \in Crawlers, errand[d].at = "visited", t <= errand[d].saved
          PROVE  SavedSafe(t)'
        <3>1. CASE d = c
            BY <1>1, <1>2, <1>5, <1>9, <1>10, <1>14, <2>1, <2>3, <3>1 DEF SavedSafe
        <3>2. CASE d # c
            BY <1>4, <2>3, <3>2 DEF SavedSafe
        <3> QED BY <3>1, <3>2
    <2> QED BY <2>1, <2>2, <2>3 DEF SavedSafe
<1>15. Known'
    BY <1>7, <1>8, <1>13, <1>14 DEF Known
<1> QED BY <1>6, <1>15 DEF ActivityInv

\* An errand that is dropped had seen nothing, or the drop is on record.
LEMMA DropKeeps == ASSUME ActivityInv, NEW c \in Crawlers, DropsActivity(c) PROVE ActivityInv'
<1>1. /\ errand' = [errand EXCEPT ![c] = AtRest]
      /\ dropped' = (dropped \/ errand[c].seen # None)
      /\ UNCHANGED <<published, turnsBack, activity, told>>
    BY DEF DropsActivity
<1>3. AtRest \in Errands /\ AtRest.at = "rest" /\ MaxPosts \in Nat
    BY ActivityAssumption DEF AtRest, Errand, Errands, None, Outcomes
<1> HIDE DEF AtRest
<1>4. /\ errand' \in [Crawlers -> Errands] /\ errand'[c] = AtRest
      /\ \A d \in Crawlers : d # c => errand'[d] = errand[d]
    BY <1>1, <1>3, ErrandReplaced
<1>5. dropped' \in BOOLEAN
    <2>1. \A x, y \in BOOLEAN : (x \/ y) \in BOOLEAN
        OBVIOUS
    <2>2. dropped \in BOOLEAN /\ (errand[c].seen # None) \in BOOLEAN
        BY DEF ActivityInv, ActivityTypeOK
    <2> QED BY <1>1, <2>1, <2>2
<1>6. ActivityTypeOK'
    BY <1>1, <1>4, <1>5 DEF ActivityInv, ActivityTypeOK, Errands
<1>7. (activity # Blank =>
          /\ RowTimed(activity)
          /\ ~turnsBack => /\ activity.seen \in told.seen \cup {None}
                           /\ activity.saved \in told.saved \cup {None})'
    BY <1>1 DEF ActivityInv, Known, RowTimed, Timed, TextOf
<1>8. (\A d \in Crawlers : errand[d].at = "visited" =>
          /\ errand[d].saved <= errand[d].seen
          /\ errand[d].seen \in told.seen \cup {None}
          /\ errand[d].saved \in told.saved \cup {None})'
    BY <1>1, <1>3, <1>4 DEF ActivityInv, Known
<1>9. \A d \in Crawlers : errand[d].seen \in Nat /\ errand[d].saved \in Nat
    BY <1>3, ActivityTypes DEF ActivityInv, Errands
<1>10. told.seen \subseteq 1..MaxPosts /\ told.saved \subseteq 1..MaxPosts
    BY ActivityTypes DEF ActivityInv
<1>11. ASSUME ~dropped' PROVE ~dropped /\ errand[c].seen = 0
    BY <1>1, <1>11 DEF None
<1>12. ASSUME ~turnsBack', ~dropped', NEW t \in told'.seen PROVE SeenSafe(t)'
    <2>1. SeenSafe(t) /\ t \in 1..MaxPosts
        BY <1>1, <1>10, <1>11, <1>12 DEF ActivityInv, Known
    <2>2. CASE activity # Blank /\ t <= activity.seen
        BY <1>1, <2>2 DEF SeenSafe
    <2>3. ASSUME NEW d \in Crawlers, errand[d].at = "visited", t <= errand[d].seen
          PROVE  SeenSafe(t)'
        <3>1. d # c
            BY <1>3, <1>11, <1>12, <2>1, <2>3
        <3> QED BY <1>4, <2>3, <3>1 DEF SeenSafe
    <2> QED BY <2>1, <2>2, <2>3 DEF SeenSafe
<1>13. ASSUME ~turnsBack', ~dropped', NEW t \in told'.saved PROVE SavedSafe(t)'
    <2>1. SavedSafe(t) /\ t \in 1..MaxPosts
        BY <1>1, <1>10, <1>11, <1>13 DEF ActivityInv, Known
    <2>2. CASE activity # Blank /\ t <= activity.saved
        BY <1>1, <2>2 DEF SavedSafe
    <2>3. ASSUME NEW d \in Crawlers, errand[d].at = "visited", t <= errand[d].saved
          PROVE  SavedSafe(t)'
        <3>1. CASE d = c
            <4>1. errand[c].saved <= errand[c].seen /\ errand[c].seen = 0
                BY <1>11, <1>13, <2>3, <3>1 DEF ActivityInv, Known
            <4> QED BY <1>3, <1>9, <2>1, <2>3, <3>1, <4>1
        <3>2. CASE d # c
            BY <1>4, <2>3, <3>2 DEF SavedSafe
        <3> QED BY <3>1, <3>2
    <2> QED BY <2>1, <2>2, <2>3 DEF SavedSafe
<1>14. Known'
    BY <1>7, <1>8, <1>12, <1>13 DEF Known
<1> QED BY <1>6, <1>14 DEF ActivityInv

LEMMA ActivityKeeps == ActivityInv /\ [ActivityNext]_activityVars => ActivityInv'
<1> SUFFICES ASSUME ActivityInv, [ActivityNext]_activityVars PROVE ActivityInv'
    OBVIOUS
<1>1. CASE PublishesWork
    BY <1>1, PublishesKeeps
<1>2. ASSUME NEW c \in Crawlers, VisitsAccount(c) PROVE ActivityInv'
    BY <1>2, VisitKeeps
<1>3. ASSUME NEW c \in Crawlers, ListCome(c) PROVE ActivityInv'
    BY <1>3, ListKeeps
<1>4. ASSUME NEW c \in Crawlers, NothingComes(c) PROVE ActivityInv'
    BY <1>4, NothingKeeps
<1>5. ASSUME NEW c \in Crawlers, SavesActivity(c) PROVE ActivityInv'
    BY <1>5, SaveKeeps
<1>6. ASSUME NEW c \in Crawlers, DropsActivity(c) PROVE ActivityInv'
    BY <1>6, DropKeeps
<1>7. CASE UNCHANGED activityVars
    <2>1. UNCHANGED <<published, turnsBack, errand, activity, told, dropped>>
        BY <1>7 DEF activityVars
    <2>2. ActivityTypeOK'
        BY <2>1 DEF ActivityInv, ActivityTypeOK
    <2>3. Known'
        BY <2>1 DEF ActivityInv, Known, SeenSafe, SavedSafe, RowTimed, Timed, TextOf
    <2> QED BY <2>2, <2>3 DEF ActivityInv
<1> QED BY <1>1, <1>2, <1>3, <1>4, <1>5, <1>6, <1>7 DEF ActivityNext

\* The state's part of the promise: what is told and no longer waits is named.
LEMMA KnownNamesNewest ==
    ASSUME ActivityInv, activity # Blank
    PROVE  /\ activity.seen # None => activity.seenAt = TextOf(activity.seen)
           /\ activity.saved # None => activity.savedAt = TextOf(activity.saved)
           /\ (~turnsBack /\ ~dropped /\ \A c \in Crawlers : errand[c].at # "visited") =>
                 /\ activity.seen = Latest(told.seen) /\ activity.saved = Latest(told.saved)
                 /\ OnCard = activity.seen
<1>0. MaxPosts \in Nat
    BY ActivityAssumption
<1>1. Timed(activity.seenAt, activity.seen) /\ Timed(activity.savedAt, activity.saved)
    BY DEF ActivityInv, Known, RowTimed
<1>2. /\ told.seen \in SUBSET (1..MaxPosts) /\ told.saved \in SUBSET (1..MaxPosts)
      /\ activity.seen \in 0..MaxPosts /\ activity.saved \in 0..MaxPosts
    BY ActivityTypes DEF ActivityInv, ActivityRows
<1>3. ASSUME ~turnsBack, ~dropped, \A c \in Crawlers : errand[c].at # "visited"
      PROVE  /\ activity.seen = Latest(told.seen) /\ activity.saved = Latest(told.saved)
             /\ OnCard = activity.seen
    <2>1. /\ activity.seen \in told.seen \cup {None} /\ activity.saved \in told.saved \cup {None}
          /\ activity.saved <= activity.seen
        BY <1>3 DEF ActivityInv, Known, RowTimed
    <2>2. /\ \A t \in told.seen : t <= activity.seen
          /\ \A t \in told.saved : t <= activity.saved
        BY <1>3 DEF ActivityInv, Known, SeenSafe, SavedSafe
    <2>3. /\ Latest(told.seen) \in told.seen \cup {None} /\ Latest(told.seen) \in 0..MaxPosts
          /\ \A w \in told.seen : w <= Latest(told.seen)
        BY <1>0, <1>2, LatestIs
    <2>4. /\ Latest(told.saved) \in told.saved \cup {None} /\ Latest(told.saved) \in 0..MaxPosts
          /\ \A w \in told.saved : w <= Latest(told.saved)
        BY <1>0, <1>2, LatestIs
    <2> HIDE DEF Latest
    <2>5. activity.seen = Latest(told.seen)
        BY <1>0, <1>2, <2>1, <2>2, <2>3 DEF None
    <2>6. activity.saved = Latest(told.saved)
        BY <1>0, <1>2, <2>1, <2>2, <2>4 DEF None
    <2>7. activity.seenAt = activity.seen /\ activity.savedAt = activity.saved
        <3>1. activity.seen \in Nat /\ activity.saved \in Nat
            BY <1>0, <1>2
        <3>2. TextOf(activity.seen) = activity.seen /\ TextOf(activity.saved) = activity.saved
            BY <1>3, <3>1, TextIs
        <3> QED BY <1>1, <3>2 DEF Timed, None
    <2>8. OnCard = activity.seen
        BY <1>0, <1>2, <2>1, <2>7 DEF OnCard
    <2> QED BY <2>5, <2>6, <2>8
<1> QED BY <1>1, <1>3 DEF Timed

\* The step's part: a row is followed by itself or by one that is no older.
LEMMA RowNeverOlder ==
    ASSUME ActivityInv, [ActivityNext]_activityVars, activity # Blank, ~turnsBack
    PROVE  activity'.seen >= activity.seen /\ activity'.saved >= activity.saved
<1>0. activity.seen \in Nat /\ activity.saved \in Nat
    BY ActivityTypes, ActivityAssumption DEF ActivityInv, ActivityRows
<1>1. CASE activity' = activity
    BY <1>0, <1>1
<1>2. ASSUME NEW c \in Crawlers, SavesActivity(c)
      PROVE  activity'.seen >= activity.seen /\ activity'.saved >= activity.saved
    <2> DEFINE r == RowAfter(errand[c])
    <2>1. r \in ActivityRows /\ activity.seen <= r.seen /\ activity.saved <= r.saved
        BY <1>2, RowAfterIs DEF SavesActivity
    <2>2. activity' = r
        BY <1>2 DEF SavesActivity
    <2> HIDE DEF r
    <2>3. r.seen \in Nat /\ r.saved \in Nat
        BY <2>1, ActivityAssumption DEF ActivityRows
    <2> QED BY <1>0, <2>1, <2>2, <2>3
<1> QED BY <1>1, <1>2 DEF ActivityNext, activityVars, PublishesWork, VisitsAccount, ListCome,
        NothingComes, DropsActivity

\* The variables of the account's row and of the errands of its batches keep
\* their types, however long texts and numbers get (ui_account_activity).
THEOREM ActivityTypeCorrect == ActivitySpec => []ActivityTypeOK
<1>1. ActivityInv => ActivityTypeOK
    BY DEF ActivityInv
<1> QED BY <1>1, ActivityBegins, ActivityKeeps, PTL DEF ActivitySpec

\* For every number of overlapping batches: in whatever order they write, the
\* row never goes back to an older work and in the end names the newest one
\* that any of them has seen, as the card does (save_account_activity).
THEOREM NewestStaysKnown == ActivitySpec => NewestIsKnown
<1>1. ActivityInv =>
          (activity # Blank =>
             /\ activity.seen # None => activity.seenAt = TextOf(activity.seen)
             /\ activity.saved # None => activity.savedAt = TextOf(activity.saved)
             /\ (~turnsBack /\ ~dropped /\ \A c \in Crawlers : errand[c].at # "visited") =>
                   /\ activity.seen = Latest(told.seen) /\ activity.saved = Latest(told.saved)
                   /\ OnCard = activity.seen)
    BY KnownNamesNewest
<1>2. ActivityInv /\ [ActivityNext]_activityVars =>
          [activity # Blank /\ ~turnsBack =>
             activity'.seen >= activity.seen /\ activity'.saved >= activity.saved]_activityVars
    BY RowNeverOlder
<1> QED BY <1>1, <1>2, ActivityBegins, ActivityKeeps, PTL DEF ActivitySpec, NewestIsKnown

-----------------------------------------------------------------------------
(* IdentityStore *)

\* What the tables say of one identity, and what it was given.
HeldOf(e) == IF e = Absent THEN {} ELSE e.holds
RowOk(r, e, g) ==
    /\ e # Absent => r # Absent
    /\ r # Absent => r.flags = HeldOf(e)
    /\ HeldOf(e) = g
RowsSound == \A i \in Stored : RowOk(identity[i], envelope[i], given[i])
NamesOne == \A p \in Platforms : \A i \in {default[p], bound[p]} \ {Absent} : OfPlatform(i, p)
\* A start that fills the pool finds it empty, and writes a policy when the
\* identity it names is there.
Founding ==
    /\ start = "id douyin" => \A i \in Stored : ~Exists(i)
    /\ start = "id tiktok" => OfPlatform("ld", "douyin") /\ ~Exists("lt")
    /\ start \in {"policy douyin", "policy tiktok"} =>
          OfPlatform("ld", "douyin") /\ OfPlatform("lt", "tiktok")
StoreInv == StoreTypeOK /\ RowsSound /\ NamesOne /\ Founding

LEMMA SoundIs == RowsSound /\ NamesOne <=> StoreSound
BY DEF RowsSound, NamesOne, StoreSound, RowOk, HeldOf, Held, Exists

LEMMA StoreNames == /\ Absent \notin IdentityRows /\ Absent \notin Envelopes
                    /\ "ld" \in Stored /\ "lt" \in Stored /\ Edited \subseteq Stored
                    /\ NoKey \notin Keys
BY AbsentAssumption, StoreAssumption DEF Stored

LEMMA StoreBegins == StoreInit => StoreInv
<1> SUFFICES ASSUME StoreInit PROVE StoreInv
    OBVIOUS
<1>1. /\ \A i \in Stored : identity[i] = Absent /\ envelope[i] = Absent /\ given[i] = {}
      /\ \A p \in Platforms : default[p] = Absent /\ bound[p] = Absent
      /\ start = "down"
    BY DEF StoreInit
<1>2. StoreTypeOK
    <2>1. /\ identity \in [Stored -> IdentityRows \cup {Absent}]
          /\ envelope \in [Stored -> Envelopes \cup {Absent}]
          /\ default \in [Platforms -> Stored \cup {Absent}]
          /\ bound \in [Platforms -> Stored \cup {Absent}]
        BY DEF StoreInit
    <2>2. /\ key \in Keys \cup {NoKey} /\ start \in Starts
          /\ editing \in [id : Edited, platform : Platforms] \cup {Absent}
        BY DEF StoreInit, Starts
    <2>3. given \in [Stored -> Credentials]
        BY DEF StoreInit, Credentials
    <2>4. emptied \in BOOLEAN
        BY Zenon DEF StoreInit
    <2> QED BY <2>1, <2>2, <2>3, <2>4 DEF StoreTypeOK
<1>3. RowsSound
    BY <1>1 DEF RowsSound, RowOk, HeldOf
<1>4. NamesOne /\ Founding
    BY <1>1 DEF NamesOne, Founding
<1> QED BY <1>2, <1>3, <1>4 DEF StoreInv

\* The tables after the row of one identity is replaced: it agrees with
\* itself, and stays an identity of its platform or is not referred to.
LEMMA RowReplaced ==
    ASSUME StoreInv, NEW i \in Stored, NEW r \in IdentityRows \cup {Absent},
           NEW e \in Envelopes \cup {Absent}, NEW g \in Credentials,
           identity' = [identity EXCEPT ![i] = r], envelope' = [envelope EXCEPT ![i] = e],
           given' = [given EXCEPT ![i] = g], UNCHANGED <<default, bound>>, RowOk(r, e, g),
           \/ Exists(i) => r # Absent /\ r.platform = identity[i].platform
           \/ Unreferenced(i)
    PROVE  /\ identity' \in [Stored -> IdentityRows \cup {Absent}]
           /\ envelope' \in [Stored -> Envelopes \cup {Absent}]
           /\ given' \in [Stored -> Credentials]
           /\ RowsSound' /\ NamesOne'
           /\ identity'[i] = r /\ \A j \in Stored : j # i => identity'[j] = identity[j]
<1>1. /\ identity \in [Stored -> IdentityRows \cup {Absent}]
      /\ envelope \in [Stored -> Envelopes \cup {Absent}] /\ given \in [Stored -> Credentials]
      /\ default \in [Platforms -> Stored \cup {Absent}]
      /\ bound \in [Platforms -> Stored \cup {Absent}]
    BY DEF StoreInv, StoreTypeOK
<1>2. /\ identity' \in [Stored -> IdentityRows \cup {Absent}]
      /\ envelope' \in [Stored -> Envelopes \cup {Absent}] /\ given' \in [Stored -> Credentials]
      /\ identity'[i] = r /\ envelope'[i] = e /\ given'[i] = g
      /\ \A j \in Stored : j # i => /\ identity'[j] = identity[j] /\ envelope'[j] = envelope[j]
                                    /\ given'[j] = given[j]
    BY <1>1
<1>3. RowsSound'
    <2> SUFFICES ASSUME NEW j \in Stored PROVE RowOk(identity'[j], envelope'[j], given'[j])
        BY DEF RowsSound, RowOk, HeldOf
    <2>1. CASE j = i
        BY <1>2, <2>1
    <2>2. CASE j # i
        <3>1. RowOk(identity[j], envelope[j], given[j])
            BY DEF StoreInv, RowsSound
        <3> QED BY <1>2, <2>2, <3>1
    <2> QED BY <2>1, <2>2
<1>4. NamesOne'
    <2> SUFFICES ASSUME NEW p \in Platforms, NEW j \in {default[p], bound[p]}, j # Absent
                 PROVE  identity'[j] # Absent /\ identity'[j].platform = p
        BY DEF NamesOne, OfPlatform, Exists
    <2>1. j \in Stored /\ identity[j] # Absent /\ identity[j].platform = p
        BY <1>1 DEF StoreInv, NamesOne, OfPlatform, Exists
    <2>2. CASE j # i
        BY <1>2, <2>1, <2>2
    <2>3. CASE j = i
        <3>1. ~Unreferenced(i)
            BY <2>3 DEF Unreferenced
        <3>2. r # Absent /\ r.platform = identity[i].platform
            BY <2>1, <2>3, <3>1 DEF Exists
        <3> QED BY <1>2, <2>1, <2>3, <3>2
    <2> QED BY <2>2, <2>3
<1> QED BY <1>2, <1>3, <1>4

\* Credentials are sealed, or cleared, with the flags that say so.
LEMMA SealKeeps ==
    ASSUME StoreInv, NEW i \in Stored, Exists(i), NEW c \in Credentials,
           c # {} => key \in Keys, Seal(i, c), given' = [given EXCEPT ![i] = c],
           UNCHANGED <<default, bound>>
    PROVE  /\ identity' \in [Stored -> IdentityRows \cup {Absent}]
           /\ envelope' \in [Stored -> Envelopes \cup {Absent}]
           /\ given' \in [Stored -> Credentials]
           /\ RowsSound' /\ NamesOne'
           /\ \A j \in Stored, p \in Platforms : OfPlatform(j, p)' <=> OfPlatform(j, p)
<1> DEFINE r == [identity[i] EXCEPT !.flags = c]
           e == IF c = {} THEN Absent ELSE [key |-> key, holds |-> c]
<1>1. identity[i] \in IdentityRows
    BY DEF StoreInv, StoreTypeOK, Exists
<1>2. r \in IdentityRows /\ r.platform = identity[i].platform /\ r.flags = c
    BY <1>1 DEF IdentityRows
<1>3. /\ e \in Envelopes \cup {Absent} /\ HeldOf(e) = c
    <2>1. CASE c = {}
        <3>1. e = Absent
            BY <2>1
        <3> QED BY <2>1, <3>1 DEF HeldOf
    <2>2. CASE c # {}
        <3>1. e = [key |-> key, holds |-> c] /\ e \in Envelopes
            BY <2>2 DEF Envelopes
        <3>2. e # Absent
            BY <3>1, StoreNames
        <3> QED BY <3>1, <3>2 DEF HeldOf
    <2> QED BY <2>1, <2>2
<1>4. identity' = [identity EXCEPT ![i] = r] /\ envelope' = [envelope EXCEPT ![i] = e]
    BY DEF Seal
<1> HIDE DEF r, e
<1>5. r # Absent /\ RowOk(r, e, c)
    BY <1>2, <1>3, StoreNames DEF RowOk
<1>6. /\ identity' \in [Stored -> IdentityRows \cup {Absent}]
      /\ envelope' \in [Stored -> Envelopes \cup {Absent}]
      /\ given' \in [Stored -> Credentials]
      /\ RowsSound' /\ NamesOne'
      /\ identity'[i] = r /\ \A j \in Stored : j # i => identity'[j] = identity[j]
    BY <1>2, <1>3, <1>4, <1>5, RowReplaced
<1>7. \A j \in Stored, p \in Platforms : OfPlatform(j, p)' <=> OfPlatform(j, p)
    <2> SUFFICES ASSUME NEW j \in Stored, NEW p \in Platforms
                 PROVE  OfPlatform(j, p)' <=> OfPlatform(j, p)
        OBVIOUS
    <2>1. CASE j = i
        BY <1>2, <1>5, <1>6, <2>1 DEF OfPlatform, Exists
    <2>2. CASE j # i
        BY <1>6, <2>2 DEF OfPlatform, Exists
    <2> QED BY <2>1, <2>2
<1> QED BY <1>6, <1>7

\* A row that is inserted has no credentials, and had none before.
LEMMA UpsertKeeps ==
    ASSUME StoreInv, NEW i \in Stored, NEW p \in Platforms, identity' = Upserted(i, p),
           UNCHANGED <<envelope, given, default, bound>>
    PROVE  /\ identity' \in [Stored -> IdentityRows \cup {Absent}]
           /\ RowsSound' /\ NamesOne'
           /\ identity'[i] # Absent /\ (~Exists(i) => identity'[i].platform = p)
           /\ \A j \in Stored : j # i => identity'[j] = identity[j]
<1> DEFINE r == IF identity[i] = Absent THEN [platform |-> p, flags |-> {}] ELSE identity[i]
<1>1. /\ identity \in [Stored -> IdentityRows \cup {Absent}]
      /\ envelope \in [Stored -> Envelopes \cup {Absent}] /\ given \in [Stored -> Credentials]
    BY DEF StoreInv, StoreTypeOK
<1>2. identity' = [identity EXCEPT ![i] = r]
    BY <1>1 DEF Upserted
<1>3. /\ r \in IdentityRows /\ r # Absent
      /\ Exists(i) => r = identity[i]
      /\ ~Exists(i) => r.platform = p /\ r.flags = {}
    <2>1. CASE Exists(i)
        BY <1>1, <2>1 DEF Exists
    <2>2. CASE ~Exists(i)
        <3>1. r = [platform |-> p, flags |-> {}]
            BY <2>2 DEF Exists
        <3>2. r \in IdentityRows
            BY <3>1 DEF IdentityRows, Credentials
        <3> QED BY <2>2, <3>1, <3>2, StoreNames
    <2> QED BY <2>1, <2>2
<1> HIDE DEF r
<1>4. RowOk(identity[i], envelope[i], given[i])
    BY DEF StoreInv, RowsSound
<1>5. RowOk(r, envelope[i], given[i])
    <2>1. CASE Exists(i)
        BY <1>3, <1>4, <2>1
    <2>2. CASE ~Exists(i)
        BY <1>3, <1>4, <2>2 DEF RowOk, HeldOf, Exists
    <2> QED BY <2>1, <2>2
<1>6. /\ envelope' = [envelope EXCEPT ![i] = envelope[i]]
      /\ given' = [given EXCEPT ![i] = given[i]]
    BY <1>1
<1>7. envelope[i] \in Envelopes \cup {Absent} /\ given[i] \in Credentials
    BY <1>1
<1>8. /\ identity' \in [Stored -> IdentityRows \cup {Absent}]
      /\ RowsSound' /\ NamesOne'
      /\ identity'[i] = r /\ \A j \in Stored : j # i => identity'[j] = identity[j]
    BY <1>2, <1>3, <1>5, <1>6, <1>7, RowReplaced DEF Exists
<1> QED BY <1>3, <1>8

LEMMA StoreTypes ==
    StoreInv => /\ identity \in [Stored -> IdentityRows \cup {Absent}]
                /\ envelope \in [Stored -> Envelopes \cup {Absent}]
                /\ default \in [Platforms -> Stored \cup {Absent}]
                /\ bound \in [Platforms -> Stored \cup {Absent}]
                /\ key \in Keys \cup {NoKey} /\ start \in Starts
                /\ editing \in [id : Edited, platform : Platforms] \cup {Absent}
                /\ given \in [Stored -> Credentials] /\ emptied \in BOOLEAN
BY DEF StoreInv, StoreTypeOK

\* Steps of the start, and kills, that leave the tables alone.
LEMMA TablesAlone ==
    ASSUME StoreInv, UNCHANGED <<identity, envelope, default, bound, given, emptied>>,
           key' \in Keys \cup {NoKey}, start' \in Starts,
           editing' \in [id : Edited, platform : Platforms] \cup {Absent}, Founding'
    PROVE  StoreInv'
BY DEF StoreInv, StoreTypeOK, RowsSound, RowOk, HeldOf, NamesOne, OfPlatform, Exists

LEMMA StartKeeps ==
    ASSUME StoreInv,
           ServerStart \/ LooksForIdentities \/ ServerUp \/ ServerKilled \/ BeginsUpdate
    PROVE  StoreInv'
<1>1. CASE ServerStart
    <2>1. Founding' /\ start' \in Starts
        BY <1>1 DEF ServerStart, Founding, Starts
    <2> QED BY <1>1, <2>1, StoreTypes, TablesAlone DEF ServerStart
<1>2. CASE LooksForIdentities
    <2>1. start' = "secrets" \/ (start' = "id douyin" /\ \A i \in Stored : ~Exists(i))
        BY <1>2 DEF LooksForIdentities, Started
    <2>2. UNCHANGED <<identity, envelope, default, bound, key, given, editing, emptied>>
        BY <1>2 DEF LooksForIdentities, Started
    <2>3. Founding' /\ start' \in Starts
        BY <2>1, <2>2 DEF Founding, Starts, Exists
    <2> QED BY <2>2, <2>3, StoreTypes, TablesAlone
<1>3. CASE ServerUp
    <2>1. Founding' /\ start' \in Starts
        BY <1>3 DEF ServerUp, Started, Founding, Starts
    <2> QED BY <1>3, <2>1, StoreTypes, TablesAlone DEF ServerUp, Started
<1>4. CASE ServerKilled
    <2>1. Founding' /\ start' \in Starts
        BY <1>4 DEF ServerKilled, Founding, Starts
    <2> QED BY <1>4, <2>1, StoreTypes, TablesAlone DEF ServerKilled
<1>5. CASE BeginsUpdate
    <2>1. Founding' /\ start' \in Starts
        BY <1>5 DEF BeginsUpdate, Founding, Starts
    <2>2. editing' \in [id : Edited, platform : Platforms] \cup {Absent}
        <3>1. PICK i \in Edited :
                  Exists(i) /\ editing' = [id |-> i, platform |-> identity[i].platform]
            BY <1>5 DEF BeginsUpdate
        <3>2. identity[i].platform \in Platforms
            BY <3>1, StoreTypes, StoreNames DEF Exists, IdentityRows
        <3> QED BY <3>1, <3>2
    <2> QED BY <1>5, <2>1, <2>2, StoreTypes, TablesAlone DEF BeginsUpdate
<1> QED BY <1>1, <1>2, <1>3, <1>4, <1>5

LEMMA WritesIdentityKeeps == ASSUME StoreInv, WritesIdentity PROVE StoreInv'
<1>0. UNCHANGED <<envelope, default, bound, key, given, editing, emptied>>
    BY DEF WritesIdentity, Started
<1>1. CASE start = "id douyin"
    <2>1. start' = "id tiktok" /\ identity' = Upserted("ld", "douyin")
        BY <1>1 DEF WritesIdentity, Started
    <2>2. "ld" \in Stored /\ "lt" \in Stored /\ "ld" # "lt" /\ "douyin" \in Platforms
        BY StoreNames DEF Platforms
    <2>3. ~Exists("ld") /\ ~Exists("lt")
        BY <1>1, <2>2 DEF StoreInv, Founding
    <2>4. /\ identity' \in [Stored -> IdentityRows \cup {Absent}] /\ RowsSound' /\ NamesOne'
          /\ identity'["ld"] # Absent /\ identity'["ld"].platform = "douyin"
          /\ identity'["lt"] = identity["lt"]
        BY <1>0, <2>1, <2>2, <2>3, UpsertKeeps
    <2>5. Founding'
        BY <2>1, <2>3, <2>4 DEF Founding, OfPlatform, Exists
    <2>6. StoreTypeOK'
        BY <1>0, <2>1, <2>4 DEF StoreInv, StoreTypeOK, Starts
    <2> QED BY <2>4, <2>5, <2>6 DEF StoreInv
<1>2. CASE start = "id tiktok"
    <2>1. start' = "policy douyin" /\ identity' = Upserted("lt", "tiktok")
        BY <1>2 DEF WritesIdentity, Started
    <2>2. "ld" \in Stored /\ "lt" \in Stored /\ "ld" # "lt" /\ "tiktok" \in Platforms
        BY StoreNames DEF Platforms
    <2>3. OfPlatform("ld", "douyin") /\ ~Exists("lt")
        BY <1>2 DEF StoreInv, Founding
    <2>4. /\ identity' \in [Stored -> IdentityRows \cup {Absent}] /\ RowsSound' /\ NamesOne'
          /\ identity'["lt"] # Absent /\ identity'["lt"].platform = "tiktok"
          /\ identity'["ld"] = identity["ld"]
        BY <1>0, <2>1, <2>2, <2>3, UpsertKeeps
    <2>5. Founding'
        BY <2>1, <2>3, <2>4 DEF Founding, OfPlatform, Exists
    <2>6. StoreTypeOK'
        BY <1>0, <2>1, <2>4 DEF StoreInv, StoreTypeOK, Starts
    <2> QED BY <2>4, <2>5, <2>6 DEF StoreInv
<1> QED BY <1>1, <1>2 DEF WritesIdentity

\* What refers to an identity is written when one of its platform is there.
LEMMA ReferenceKeeps ==
    ASSUME StoreInv, NEW p \in Platforms, NEW i \in Stored \cup {Absent},
           i # Absent => OfPlatform(i, p),
           \/ default' = [default EXCEPT ![p] = i] /\ bound' = bound
           \/ bound' = [bound EXCEPT ![p] = i] /\ default' = default,
           UNCHANGED <<identity, envelope, given>>
    PROVE  /\ default' \in [Platforms -> Stored \cup {Absent}]
           /\ bound' \in [Platforms -> Stored \cup {Absent}]
           /\ RowsSound' /\ NamesOne'
<1>1. /\ default' \in [Platforms -> Stored \cup {Absent}]
      /\ bound' \in [Platforms -> Stored \cup {Absent}]
      /\ \A q \in Platforms : /\ default'[q] = default[q] \/ (q = p /\ default'[q] = i)
                              /\ bound'[q] = bound[q] \/ (q = p /\ bound'[q] = i)
    BY StoreTypes
<1>2. RowsSound'
    BY DEF StoreInv, RowsSound, RowOk, HeldOf
<1>3. NamesOne'
    <2> SUFFICES ASSUME NEW q \in Platforms, NEW j \in {default'[q], bound'[q]}, j # Absent
                 PROVE  OfPlatform(j, q)
        BY DEF NamesOne, OfPlatform, Exists
    <2>1. CASE q = p /\ j = i
        BY <2>1
    <2>2. CASE j \in {default[q], bound[q]}
        BY <2>2 DEF StoreInv, NamesOne
    <2> QED BY <1>1, <2>1, <2>2
<1> QED BY <1>1, <1>2, <1>3

LEMMA WritesPolicyKeeps == ASSUME StoreInv, WritesPolicy PROVE StoreInv'
<1>0. UNCHANGED <<identity, envelope, bound, key, editing, given, emptied>>
    BY DEF WritesPolicy
<1>1. "ld" \in Stored /\ "lt" \in Stored /\ "tiktok" \in Platforms /\ "douyin" \in Platforms
    BY StoreNames DEF Platforms
<1>2. OfPlatform("ld", "douyin") /\ OfPlatform("lt", "tiktok")
    BY DEF StoreInv, Founding, WritesPolicy
<1>3. /\ default' \in [Platforms -> Stored \cup {Absent}] /\ RowsSound' /\ NamesOne'
    <2>1. CASE start = "policy douyin"
        <3>1. default' = [default EXCEPT !["douyin"] = "ld"]
            BY <2>1 DEF WritesPolicy
        <3> QED BY <1>0, <1>1, <1>2, <3>1, ReferenceKeeps
    <2>2. CASE start = "policy tiktok"
        <3>1. default' = [default EXCEPT !["tiktok"] = "lt"]
            BY <2>2 DEF WritesPolicy
        <3> QED BY <1>0, <1>1, <1>2, <3>1, ReferenceKeeps
    <2> QED BY <2>1, <2>2 DEF WritesPolicy
<1>4. start' \in {"policy tiktok", "secrets"}
    BY DEF WritesPolicy
<1>5. Founding'
    BY <1>0, <1>2, <1>4 DEF Founding, OfPlatform, Exists
<1>6. StoreTypeOK'
    BY <1>0, <1>3, <1>4 DEF StoreInv, StoreTypeOK, Starts
<1> QED BY <1>3, <1>5, <1>6 DEF StoreInv

LEMMA ReferencesKeep == ASSUME StoreInv, SavePolicy \/ SaveBinding PROVE StoreInv'
<1>0. UNCHANGED <<identity, envelope, key, start, editing, given, emptied>>
    BY DEF SavePolicy, SaveBinding
<1>1. PICK p \in Platforms, i \in Stored \cup {Absent} :
          /\ i # Absent => OfPlatform(i, p)
          /\ \/ default' = [default EXCEPT ![p] = i] /\ bound' = bound
             \/ bound' = [bound EXCEPT ![p] = i] /\ default' = default
    BY DEF SavePolicy, SaveBinding, Choose, Bind
<1>2. /\ default' \in [Platforms -> Stored \cup {Absent}]
      /\ bound' \in [Platforms -> Stored \cup {Absent}] /\ RowsSound' /\ NamesOne'
    BY <1>0, <1>1, ReferenceKeeps
<1>3. Founding'
    BY <1>0 DEF StoreInv, Founding, OfPlatform, Exists
<1>4. StoreTypeOK'
    BY <1>0, <1>2 DEF StoreInv, StoreTypeOK
<1> QED BY <1>2, <1>3, <1>4 DEF StoreInv

\* The routes that insert a row: the server is up, so no pool is being filled.
LEMMA InsertsKeep == ASSUME StoreInv, CreateIdentity \/ SavesUpdate PROVE StoreInv'
<1>0. UNCHANGED <<envelope, default, bound, key, start, given>> /\ start = "up"
    BY DEF CreateIdentity, SavesUpdate
<1>1. emptied' = FALSE /\ editing' \in {editing, Absent}
    BY DEF CreateIdentity, SavesUpdate
<1>2. identity' = identity \/ \E i \in Stored, p \in Platforms : identity' = Upserted(i, p)
    <2>1. CASE CreateIdentity
        BY <2>1 DEF CreateIdentity
    <2>2. CASE SavesUpdate
        <3>1. editing.id \in Stored /\ editing.platform \in Platforms
            BY <2>2, StoreTypes, StoreNames DEF SavesUpdate
        <3> QED BY <2>2, <3>1 DEF SavesUpdate
    <2> QED BY <2>1, <2>2
<1>3. identity' \in [Stored -> IdentityRows \cup {Absent}] /\ RowsSound' /\ NamesOne'
    <2>1. CASE identity' = identity
        <3>1. RowsSound'
            BY <1>0, <2>1 DEF StoreInv, RowsSound, RowOk, HeldOf
        <3>2. NamesOne'
            BY <1>0, <2>1 DEF StoreInv, NamesOne, OfPlatform, Exists
        <3> QED BY <2>1, <3>1, <3>2, StoreTypes
    <2>2. ASSUME NEW i \in Stored, NEW p \in Platforms, identity' = Upserted(i, p)
          PROVE  identity' \in [Stored -> IdentityRows \cup {Absent}] /\ RowsSound' /\ NamesOne'
        BY <1>0, <2>2, UpsertKeeps
    <2> QED BY <1>2, <2>1, <2>2
<1>4. Founding'
    BY <1>0 DEF Founding
<1>5. emptied' \in BOOLEAN
    BY <1>1, Zenon
<1>6. StoreTypeOK'
    BY <1>0, <1>1, <1>3, <1>5 DEF StoreInv, StoreTypeOK
<1> QED BY <1>3, <1>4, <1>6 DEF StoreInv

LEMMA DeleteKeeps == ASSUME StoreInv, DeleteIdentity PROVE StoreInv'
<1>0. UNCHANGED <<default, bound, key, start, editing>> /\ start = "up"
    BY DEF DeleteIdentity
<1>1. PICK i \in Stored :
          /\ Exists(i) /\ Unreferenced(i)
          /\ identity' = [identity EXCEPT ![i] = Absent]
          /\ envelope' = [envelope EXCEPT ![i] = Absent]
          /\ given' = [given EXCEPT ![i] = {}]
          /\ emptied' = (\A j \in Stored \ {i} : ~Exists(j))
    BY DEF DeleteIdentity
<1>2. RowOk(Absent, Absent, {}) /\ {} \in Credentials
    BY DEF RowOk, HeldOf, Credentials
<1>3. /\ identity' \in [Stored -> IdentityRows \cup {Absent}]
      /\ envelope' \in [Stored -> Envelopes \cup {Absent}]
      /\ given' \in [Stored -> Credentials] /\ RowsSound' /\ NamesOne'
    <2>1. Absent \in IdentityRows \cup {Absent} /\ Absent \in Envelopes \cup {Absent}
        OBVIOUS
    <2> QED BY <1>0, <1>1, <1>2, <2>1, RowReplaced
<1>4. Founding'
    BY <1>0 DEF Founding
<1>5. emptied' \in BOOLEAN
    BY <1>1, Zenon
<1>6. StoreTypeOK'
    BY <1>0, <1>3, <1>5 DEF StoreInv, StoreTypeOK
<1> QED BY <1>3, <1>4, <1>6 DEF StoreInv

\* What follows from a seal, in whatever state of the server.
LEMMA SealedIs ==
    ASSUME StoreInv, NEW i \in Stored, Exists(i), NEW c \in Credentials,
           c # {} => key \in Keys, Seal(i, c), given' = [given EXCEPT ![i] = c],
           UNCHANGED <<default, bound, key, start, editing, emptied>>, start \in {"up", "secrets"}
    PROVE  StoreInv'
<1>1. /\ identity' \in [Stored -> IdentityRows \cup {Absent}]
      /\ envelope' \in [Stored -> Envelopes \cup {Absent}]
      /\ given' \in [Stored -> Credentials] /\ RowsSound' /\ NamesOne'
    BY SealKeeps
<1>2. Founding'
    BY DEF Founding
<1>3. StoreTypeOK'
    BY <1>1 DEF StoreInv, StoreTypeOK
<1> QED BY <1>1, <1>2, <1>3 DEF StoreInv

LEMMA SealsKeep ==
    ASSUME StoreInv, WritesSecret \/ PutCredentials \/ ClearCredentials PROVE StoreInv'
<1>1. CASE WritesSecret
    <2>1. PICK i \in {"ld", "lt"} :
              Exists(i) /\ Seal(i, Old) /\ given' = [given EXCEPT ![i] = Old]
        BY <1>1 DEF WritesSecret
    <2>2. i \in Stored /\ Old \in Credentials /\ Old # {}
        BY StoreNames DEF Old, Credentials, Fields
    <2>3. key \in Keys
        BY <1>1, StoreTypes DEF WritesSecret
    <2>4. UNCHANGED <<default, bound, key, start, editing, emptied>> /\ start = "secrets"
        BY <1>1 DEF WritesSecret
    <2> QED BY <2>1, <2>2, <2>3, <2>4, SealedIs
<1>2. CASE PutCredentials
    <2>1. PICK i \in Stored, named \in SUBSET Fields, set \in Credentials :
              /\ Exists(i) /\ (key = NoKey => (Held(i) \ named) \cup set = {})
              /\ Seal(i, (Held(i) \ named) \cup set)
              /\ given' = [given EXCEPT ![i] = (given[i] \ named) \cup set]
        BY <1>2, StoreTypes DEF PutCredentials
    <2>2. UNCHANGED <<default, bound, key, start, editing, emptied>> /\ start = "up"
        BY <1>2 DEF PutCredentials
    <2> DEFINE c == (Held(i) \ named) \cup set
    <2>3. Held(i) = given[i] /\ given[i] \in Credentials
        BY StoreTypes DEF StoreInv, RowsSound, RowOk, HeldOf, Held
    <2>4. c \in Credentials
        BY <2>3 DEF Credentials
    <2>5. c # {} => key \in Keys
        BY <2>1, StoreTypes
    <2>6. Seal(i, c) /\ given' = [given EXCEPT ![i] = c]
        BY <2>1, <2>3
    <2> HIDE DEF c
    <2> QED BY <2>1, <2>2, <2>4, <2>5, <2>6, SealedIs
<1>3. CASE ClearCredentials
    <2>1. PICK i \in Stored :
              Exists(i) /\ Seal(i, {}) /\ given' = [given EXCEPT ![i] = {}]
        BY <1>3 DEF ClearCredentials
    <2>2. {} \in Credentials
        BY DEF Credentials
    <2>3. UNCHANGED <<default, bound, key, start, editing, emptied>> /\ start = "up"
        BY <1>3 DEF ClearCredentials
    <2> QED BY <2>1, <2>2, <2>3, SealedIs
<1> QED BY <1>1, <1>2, <1>3

LEMMA StoreKeeps == StoreInv /\ [StoreNext]_storeVars => StoreInv'
<1> SUFFICES ASSUME StoreInv, [StoreNext]_storeVars PROVE StoreInv'
    OBVIOUS
<1>1. CASE UNCHANGED storeVars
    <2>1. UNCHANGED <<identity, envelope, default, bound, key, start, editing, given, emptied>>
        BY <1>1 DEF storeVars
    <2>2. Founding'
        BY <2>1 DEF StoreInv, Founding, OfPlatform, Exists
    <2> QED BY <2>1, <2>2, StoreTypes, TablesAlone
<1> QED BY <1>1, StartKeeps, WritesIdentityKeeps, WritesPolicyKeeps, ReferencesKeep, InsertsKeep,
        DeleteKeeps, SealsKeep DEF StoreNext

\* Every row of the store's tables has its type, for every set of identities.
THEOREM StoreTypeCorrect == StoreSpec => []StoreTypeOK
<1>1. StoreInv => StoreTypeOK
    BY DEF StoreInv
<1> QED BY <1>1, StoreBegins, StoreKeeps, PTL DEF StoreSpec

\* The tables of the store agree whatever is killed or refused, and an envelope
\* holds what its identity was given last (store.py, migration.py).
THEOREM StoreStaysSound == StoreSpec => []StoreSound
<1>1. StoreInv => StoreSound
    BY SoundIs DEF StoreInv
<1> QED BY <1>1, StoreBegins, StoreKeeps, PTL DEF StoreSpec

-----------------------------------------------------------------------------
(* FeedMarks *)

OneLike == \A d, e \in DOMAIN likes : likes[d].post = likes[e].post => d = e
\* What a viewer has leafed through is what comes before the cursor.
LeafedSoFar ==
    /\ \A p \in steady : owner[p] # Nowhere
    /\ ~touched =>
          /\ \A p \in Posts : leafed[p] <= 1
          /\ \A e \in OfScope : Place(e) <= offset =>
                (likes[e].post \in steady => leafed[likes[e].post] = 1)
          /\ \A e \in OfScope : Place(e) > offset => leafed[likes[e].post] = 0
          /\ ~leafing /\ offset > 0 => Cardinality(OfScope) <= offset
MarksInv == MarksTypeOK /\ OneLike /\ LeafedSoFar

MarkRows == [post : Posts, account : Owners \cup {Nowhere}]
TapRows == [post : Posts, on : BOOLEAN, account : Owners \cup {Nowhere}] \cup {NoTap}

LEMMA MarksTypes ==
    MarksTypeOK <=>
        /\ owner \in [Posts -> Owners \cup {Nowhere}] /\ likes \in Seq(MarkRows)
        /\ tap \in [Taps -> TapRows] /\ scope \in Owners \cup {Nowhere}
        /\ offset \in Nat /\ leafing \in BOOLEAN /\ touched \in BOOLEAN
        /\ leafed \in [Posts -> Nat] /\ steady \subseteq Posts
BY DEF MarksTypeOK, MarkRows, TapRows

LEMMA NoTapTyped == NoTap \in TapRows
BY DEF TapRows

LEMMA MarksBegin == MarksInit => MarksInv
<1> SUFFICES ASSUME MarksInit PROVE MarksInv
    OBVIOUS
<1>1. /\ owner = [p \in Posts |-> CHOOSE a \in Owners : TRUE] /\ likes = <<>>
      /\ tap = [t \in Taps |-> NoTap] /\ scope = Nowhere /\ offset = 0
      /\ leafed = [p \in Posts |-> 0] /\ steady = {}
    BY DEF MarksInit
<1>2. (CHOOSE a \in Owners : TRUE) \in Owners
    BY MarksAssumption
<1>3. owner \in [Posts -> Owners \cup {Nowhere}]
    BY <1>1, <1>2
<1>4. tap \in [Taps -> TapRows]
    BY <1>1, NoTapTyped
<1>5. leafing \in BOOLEAN /\ touched \in BOOLEAN
    BY Zenon DEF MarksInit
<1>6. leafed \in [Posts -> Nat] /\ likes \in Seq(MarkRows) /\ offset \in Nat
    BY <1>1
<1>7. MarksTypeOK
    BY <1>1, <1>3, <1>4, <1>5, <1>6, MarksTypes
<1>8. DOMAIN likes = {}
    BY <1>1
<1>9. OfScope = {}
    BY <1>8 DEF OfScope
<1>10. OneLike
    BY <1>8 DEF OneLike
<1>11. LeafedSoFar
    BY <1>1, <1>9 DEF LeafedSoFar
<1> QED BY <1>7, <1>10, <1>11 DEF MarksInv

LEMMA CountsBefore ==
    ASSUME NEW n \in Nat, NEW S \in SUBSET (1..n), NEW e \in S
    PROVE  Cardinality({d \in S : d <= e}) \in Nat \ {0}
<1> DEFINE before == {d \in S : d <= e}
<1>0. S \subseteq 1..n /\ e \in 1..n
    OBVIOUS
<1>1. before \subseteq 1..n
    BY <1>0
<1>2. e \in before
    <2>1. e <= e
        BY <1>0
    <2> QED BY <2>1
<1>3. IsFiniteSet(before)
    BY <1>1, FS_Interval, FS_Subset
<1>4. Cardinality(before) \in Nat /\ Cardinality(before) # 0
    BY <1>2, <1>3, FS_CardinalityType, FS_EmptySet
<1> QED BY <1>4

\* A row comes at some place among those that are asked for, and none comes
\* behind their number.
LEMMA PlaceIs ==
    ASSUME MarksTypeOK
    PROVE  /\ DOMAIN likes = 1..Len(likes) /\ Len(likes) \in Nat
           /\ \A e \in DOMAIN likes : likes[e] \in MarkRows
           /\ IsFiniteSet(OfScope) /\ Cardinality(OfScope) \in Nat
           /\ \A e \in OfScope : e \in DOMAIN likes /\ Place(e) \in Nat
                                 /\ Place(e) <= Cardinality(OfScope)
<1>1. likes \in Seq(MarkRows)
    BY MarksTypes
<1>2. DOMAIN likes = 1..Len(likes) /\ Len(likes) \in Nat /\ \A e \in DOMAIN likes : likes[e] \in MarkRows
    BY <1>1
<1>3. OfScope \subseteq 1..Len(likes)
    BY <1>2 DEF OfScope
<1>4. IsFiniteSet(1..Len(likes))
    BY <1>2, FS_Interval
<1>5. IsFiniteSet(OfScope)
    BY <1>3, <1>4, FS_Subset
<1>6. Cardinality(OfScope) \in Nat
    BY <1>5, FS_CardinalityType
<1>7. ASSUME NEW e \in OfScope PROVE Place(e) \in Nat /\ Place(e) <= Cardinality(OfScope)
    <2> DEFINE before == {d \in OfScope : d <= e}
    <2>1. before \subseteq OfScope
        OBVIOUS
    <2>2. IsFiniteSet(before) /\ Cardinality(before) <= Cardinality(OfScope)
        BY <1>5, <2>1, FS_Subset
    <2>3. Cardinality(before) \in Nat
        BY <2>2, FS_CardinalityType
    <2> QED BY <2>2, <2>3 DEF Place
<1>8. \A e \in OfScope : e \in DOMAIN likes
    BY DEF OfScope
<1> QED BY <1>2, <1>5, <1>6, <1>7, <1>8

\* Steps that neither the marks nor the viewer take part in.
LEMMA MarksAlone ==
    ASSUME MarksInv, UNCHANGED <<likes, scope, offset, leafing, leafed>>,
           owner' \in [Posts -> Owners \cup {Nowhere}], tap' \in [Taps -> TapRows],
           touched' \in BOOLEAN, ~touched' => ~touched,
           steady' \subseteq steady, \A p \in steady' : owner'[p] # Nowhere
    PROVE  MarksInv'
<1>1. MarksTypeOK'
    BY MarksTypes DEF MarksInv, MarksTypeOK, MarkRows, TapRows
<1>2. OneLike'
    BY DEF MarksInv, OneLike
<1>3. OfScope' = OfScope
    BY DEF OfScope
<1>4. \A e : Place(e)' = Place(e)
    BY <1>3 DEF Place
<1>5. LeafedSoFar'
    BY <1>3, <1>4 DEF MarksInv, LeafedSoFar
<1> QED BY <1>1, <1>2, <1>5 DEF MarksInv

LEMMA TapsKeeps == ASSUME MarksInv, NEW t \in Taps, TapsMark(t) PROVE MarksInv'
<1>1. UNCHANGED <<owner, likes, scope, offset, leafing, leafed, touched, steady>>
    BY DEF TapsMark
<1>2. PICK p \in Posts, on \in BOOLEAN :
          tap' = [tap EXCEPT ![t] = [post |-> p, on |-> on, account |-> owner[p]]]
    BY DEF TapsMark
<1>3. owner \in [Posts -> Owners \cup {Nowhere}] /\ tap \in [Taps -> TapRows]
      /\ touched \in BOOLEAN
    BY MarksTypes DEF MarksInv
<1>4. [post |-> p, on |-> on, account |-> owner[p]] \in TapRows
    BY <1>3 DEF TapRows
<1>5. tap' \in [Taps -> TapRows]
    BY <1>2, <1>3, <1>4
<1> QED BY <1>1, <1>3, <1>5, MarksAlone DEF MarksInv, LeafedSoFar

LEMMA ReindexedKeeps == ASSUME MarksInv, Reindexed PROVE MarksInv'
<1>1. UNCHANGED <<likes, tap, scope, offset, leafing, leafed, touched>>
    BY DEF Reindexed
<1>2. PICK p \in Posts, a \in Owners \cup {Nowhere} :
          /\ owner' = [owner EXCEPT ![p] = a]
          /\ steady' = IF a = Nowhere THEN steady \ {p} ELSE steady
    BY DEF Reindexed
<1>3. /\ owner \in [Posts -> Owners \cup {Nowhere}] /\ tap \in [Taps -> TapRows]
      /\ touched \in BOOLEAN /\ steady \subseteq Posts
    BY MarksTypes DEF MarksInv
<1>4. owner' \in [Posts -> Owners \cup {Nowhere}]
    BY <1>2, <1>3
<1>5. \A q \in steady' : owner'[q] # Nowhere
    BY <1>2, <1>3 DEF MarksInv, LeafedSoFar
<1> QED BY <1>1, <1>2, <1>3, <1>4, <1>5, MarksAlone

\* One like is added in front, or taken out.
LEMMA LikesAfter ==
    ASSUME MarksInv, NEW p \in Posts, NEW a \in Owners \cup {Nowhere}
    PROVE  /\ LikedOnce(p, a) \in Seq(MarkRows) /\ Others(p) \in Seq(MarkRows)
           /\ \A d, e \in DOMAIN LikedOnce(p, a) :
                 LikedOnce(p, a)[d].post = LikedOnce(p, a)[e].post => d = e
           /\ \A d, e \in DOMAIN Others(p) : Others(p)[d].post = Others(p)[e].post => d = e
<1>1. likes \in Seq(MarkRows) /\ DOMAIN likes = 1..Len(likes) /\ Len(likes) \in Nat
    BY MarksTypes, PlaceIs DEF MarksInv
<1>2. \A d, e \in 1..Len(likes) : likes[d].post = likes[e].post => d = e
    BY <1>1 DEF MarksInv, OneLike
<1>3. /\ LikedOnce(p, a) \in Seq(MarkRows)
      /\ \A d, e \in DOMAIN LikedOnce(p, a) :
            LikedOnce(p, a)[d].post = LikedOnce(p, a)[e].post => d = e
    <2>1. CASE Liked(p)
        <3>1. LikedOnce(p, a) = likes
            BY <2>1 DEF LikedOnce
        <3> QED BY <1>1, <1>2, <3>1
    <2>2. CASE ~Liked(p)
        <3> DEFINE x == [post |-> p, account |-> a]
                   s == <<x>> \o likes
        <3>1. LikedOnce(p, a) = s
            BY <2>2 DEF LikedOnce
        <3>2. x \in MarkRows /\ x.post = p
            BY DEF MarkRows
        <3> HIDE DEF x
        <3>3. /\ s \in Seq(MarkRows) /\ Len(s) = Len(likes) + 1 /\ DOMAIN s = 1..(Len(likes) + 1)
              /\ s[1] = x /\ \A n \in 2..(Len(likes) + 1) : s[n] = likes[n - 1]
            BY <1>1, <3>2
        <3> HIDE DEF s
        <3>4. \A n \in 2..(Len(likes) + 1) : s[n].post # p
            <4> TAKE n \in 2..(Len(likes) + 1)
            <4>1. n - 1 \in DOMAIN likes /\ s[n] = likes[n - 1]
                BY <1>1, <3>3
            <4> QED BY <2>2, <4>1 DEF Liked
        <3>5. ASSUME NEW d \in DOMAIN s, NEW e \in DOMAIN s, s[d].post = s[e].post PROVE d = e
            <4>1. CASE d = 1 \/ e = 1
                BY <1>1, <3>2, <3>3, <3>4, <3>5, <4>1
            <4>2. CASE d # 1 /\ e # 1
                <5>1. d \in 2..(Len(likes) + 1) /\ e \in 2..(Len(likes) + 1)
                    BY <1>1, <3>3, <4>2
                <5>2. likes[d - 1].post = likes[e - 1].post
                    BY <3>3, <3>5, <5>1
                <5>3. d - 1 \in 1..Len(likes) /\ e - 1 \in 1..Len(likes)
                    BY <1>1, <5>1
                <5>4. d - 1 = e - 1
                    BY <1>2, <5>2, <5>3
                <5> QED BY <5>1, <5>4
            <4> QED BY <4>1, <4>2
        <3> QED BY <3>1, <3>3, <3>5
    <2> QED BY <2>1, <2>2
<1>4. /\ Others(p) \in Seq(MarkRows)
      /\ \A d, e \in DOMAIN Others(p) : Others(p)[d].post = Others(p)[e].post => d = e
    <2>1. CASE ~Liked(p)
        <3>1. Others(p) = likes
            BY <2>1 DEF Others
        <3> QED BY <1>1, <1>2, <3>1
    <2>2. CASE Liked(p)
        <3> DEFINE i == CHOOSE e \in DOMAIN likes : likes[e].post = p
                   s == RemoveAt(likes, i)
        <3>1. Others(p) = s
            BY <2>2 DEF Others
        <3>2. i \in 1..Len(likes)
            BY <1>1, <2>2 DEF Liked
        <3> HIDE DEF i
        <3>3. /\ s \in Seq(MarkRows) /\ Len(s) = Len(likes) - 1
              /\ \A n \in 1..(Len(likes) - 1) : s[n] = likes[IF n < i THEN n ELSE n + 1]
            BY <1>1, <3>2, RemovedAt
        <3> HIDE DEF s
        <3>4. DOMAIN s = 1..(Len(likes) - 1)
            BY <3>3
        <3>5. ASSUME NEW d \in DOMAIN s, NEW e \in DOMAIN s, s[d].post = s[e].post PROVE d = e
            <4> DEFINE dd == IF d < i THEN d ELSE d + 1
                       ee == IF e < i THEN e ELSE e + 1
            <4>1. dd \in 1..Len(likes) /\ ee \in 1..Len(likes)
                BY <1>1, <3>2, <3>4
            <4>2. likes[dd].post = likes[ee].post
                BY <3>3, <3>4, <3>5
            <4>3. dd = ee
                <5> HIDE DEF dd, ee
                <5> QED BY <1>2, <4>1, <4>2
            <4> QED BY <1>1, <3>2, <3>4, <4>3
        <3> QED BY <3>1, <3>3, <3>5
    <2> QED BY <2>1, <2>2
<1> QED BY <1>3, <1>4

\* A tap that is done: a like comes or goes, which is on record, or nothing
\* moves.
LEMMA SetsKeeps == ASSUME MarksInv, NEW t \in Taps, SetsMark(t) PROVE MarksInv'
<1> DEFINE p == tap[t].post
           on == tap[t].on
           a == tap[t].account
<1>1. UNCHANGED <<owner, scope, offset, leafing, leafed, steady>>
    BY DEF SetsMark
<1>2. /\ owner \in [Posts -> Owners \cup {Nowhere}] /\ tap \in [Taps -> TapRows]
      /\ touched \in BOOLEAN /\ steady \subseteq Posts /\ leafing \in BOOLEAN
      /\ likes \in Seq(MarkRows) /\ scope \in Owners \cup {Nowhere} /\ offset \in Nat
      /\ leafed \in [Posts -> Nat]
    BY MarksTypes DEF MarksInv
<1>3. tap' = [tap EXCEPT ![t] = NoTap]
    BY DEF SetsMark
<1>4. tap' \in [Taps -> TapRows]
    BY <1>2, <1>3, NoTapTyped
<1>5. /\ likes' = IF on THEN LikedOnce(p, a) ELSE Others(p)
      /\ touched' = (touched \/ Liked(p) # on)
    BY DEF SetsMark
<1>6. tap[t] \in [post : Posts, on : BOOLEAN, account : Owners \cup {Nowhere}]
    BY <1>2 DEF TapRows, SetsMark
<1>7. p \in Posts /\ on \in BOOLEAN /\ a \in Owners \cup {Nowhere}
    BY <1>6
<1> HIDE DEF p, on, a
<1>8. touched' \in BOOLEAN
    <2>1. \A x, y \in BOOLEAN : (x \/ y) \in BOOLEAN
        OBVIOUS
    <2>2. (Liked(p) # on) \in BOOLEAN
        OBVIOUS
    <2> QED BY <1>2, <1>5, <2>1, <2>2
<1>9. CASE likes' = likes
    <2>1. ~touched' => ~touched
        BY <1>5
    <2>2. \A q \in steady' : owner'[q] # Nowhere
        BY <1>1 DEF MarksInv, LeafedSoFar
    <2> QED BY <1>1, <1>2, <1>4, <1>8, <1>9, <2>1, <2>2, MarksAlone
<1>10. CASE likes' # likes
    <2>1. touched'
        <3>1. CASE Liked(p)
            <4>1. ~on
                BY <1>5, <1>10, <3>1 DEF LikedOnce
            <4> QED BY <1>5, <3>1, <4>1
        <3>2. CASE ~Liked(p)
            <4>1. on
                BY <1>5, <1>7, <1>10, <3>2 DEF Others
            <4> QED BY <1>5, <3>2, <4>1
        <3> QED BY <3>1, <3>2
    <2>2. /\ likes' \in Seq(MarkRows)
          /\ \A d, e \in DOMAIN likes' : likes'[d].post = likes'[e].post => d = e
        BY <1>5, <1>7, LikesAfter
    <2>3. MarksTypeOK'
        BY <1>1, <1>2, <1>4, <1>8, <2>2 DEF MarksTypeOK, MarkRows, TapRows
    <2>4. OneLike'
        BY <2>2 DEF OneLike
    <2>5. LeafedSoFar'
        BY <1>1, <2>1 DEF MarksInv, LeafedSoFar
    <2> QED BY <2>3, <2>4, <2>5 DEF MarksInv
<1> QED BY <1>9, <1>10

LEMMA OpensKeeps == ASSUME MarksInv, OpensLikes PROVE MarksInv'
<1>1. /\ leafing' = TRUE /\ touched' = FALSE /\ scope' \in Owners \cup {Nowhere} /\ offset' = 0
      /\ leafed' = [p \in Posts |-> 0] /\ steady' = {p \in Posts : owner[p] # Nowhere}
      /\ UNCHANGED <<owner, likes, tap>>
    BY DEF OpensLikes
<1>2. leafing' \in BOOLEAN /\ touched' \in BOOLEAN
    BY Zenon DEF OpensLikes
<1>3. leafed' \in [Posts -> Nat] /\ steady' \subseteq Posts /\ offset' \in Nat
    BY <1>1
<1>4. MarksTypeOK'
    BY <1>1, <1>2, <1>3 DEF MarksInv, MarksTypeOK
<1>5. OneLike'
    BY <1>1 DEF MarksInv, OneLike
<1>6. likes \in Seq(MarkRows) /\ DOMAIN likes = 1..Len(likes) /\ Len(likes) \in Nat
    BY MarksTypes, PlaceIs DEF MarksInv
<1>7. OfScope' \subseteq 1..Len(likes)
    BY <1>1, <1>6 DEF OfScope
<1>8. ASSUME NEW e \in OfScope'
      PROVE  likes'[e].post \in Posts /\ Place(e)' \in Nat \ {0}
    <2>1. likes[e] \in MarkRows
        BY <1>6, <1>7
    <2>2. Cardinality({d \in OfScope' : d <= e}) \in Nat \ {0}
        BY <1>6, <1>7, CountsBefore
    <2> QED BY <1>1, <2>1, <2>2 DEF MarkRows, Place
<1>9. \A p \in steady' : owner'[p] # Nowhere
    BY <1>1
<1>10. \A p \in Posts : leafed'[p] = 0
    BY <1>1
<1>11. LeafedSoFar'
    <2>1. \A p \in Posts : leafed'[p] <= 1
        BY <1>10
    <2>2. \A e \in OfScope' : ~(Place(e)' <= offset')
        BY <1>1, <1>8
    <2>3. \A e \in OfScope' : leafed'[likes'[e].post] = 0
        BY <1>8, <1>10
    <2>4. ~(offset' > 0)
        BY <1>1
    <2> QED BY <1>9, <2>1, <2>2, <2>3, <2>4 DEF LeafedSoFar
<1> QED BY <1>4, <1>5, <1>11 DEF MarksInv

\* How often a page shows a post: once when its like is on it, and the post
\* in the index.
ListedAs(p) == {e \in Page : likes[e].post = p /\ owner[p] # Nowhere}

LEMMA ShownIs ==
    ASSUME MarksInv, NEW p \in Posts
    PROVE  /\ Cardinality(ListedAs(p)) \in {0, 1}
           /\ ListedAs(p) # {} => Cardinality(ListedAs(p)) = 1
           /\ ListedAs(p) = {} => Cardinality(ListedAs(p)) = 0
<1>1. CASE ListedAs(p) = {}
    BY <1>1, FS_EmptySet
<1>2. CASE ListedAs(p) # {}
    <2>1. PICK e \in ListedAs(p) : TRUE
        BY <1>2
    <2>2. \A d \in ListedAs(p) : d \in DOMAIN likes /\ likes[d].post = p
        BY DEF ListedAs, Page, OfScope
    <2>3. ListedAs(p) = {e}
        BY <2>1, <2>2 DEF ListedAs, MarksInv, OneLike
    <2>4. Cardinality(ListedAs(p)) = 1
        BY <2>3, FS_Singleton
    <2> QED BY <1>2, <2>4
<1> QED BY <1>1, <1>2

LEMMA LeafsKeeps == ASSUME MarksInv, LeafsOn PROVE MarksInv'
<1>1. /\ leafing /\ leafed' = [p \in Posts |-> leafed[p] + Cardinality(ListedAs(p))]
      /\ offset' = offset + PerPage /\ leafing' = (offset + PerPage < Cardinality(OfScope))
      /\ UNCHANGED <<owner, likes, tap, scope, touched, steady>>
    BY DEF LeafsOn, ListedAs
<1>2. /\ leafed \in [Posts -> Nat] /\ offset \in Nat /\ PerPage \in Nat \ {0}
      /\ touched \in BOOLEAN
    BY MarksTypes, MarksAssumption DEF MarksInv
<1>3. \A p \in Posts : /\ Cardinality(ListedAs(p)) \in {0, 1}
                       /\ ListedAs(p) # {} => Cardinality(ListedAs(p)) = 1
                       /\ ListedAs(p) = {} => Cardinality(ListedAs(p)) = 0
    BY ShownIs
<1>4. \A p \in Posts : leafed[p] \in Nat /\ leafed'[p] = leafed[p] + Cardinality(ListedAs(p))
    BY <1>1, <1>2
<1>5. leafed' \in [Posts -> Nat]
    BY <1>1, <1>2, <1>3
<1>6. leafing' \in BOOLEAN
    BY <1>1
<1>7. MarksTypeOK'
    BY <1>1, <1>2, <1>5, <1>6 DEF MarksInv, MarksTypeOK
<1>8. OneLike'
    BY <1>1 DEF MarksInv, OneLike
<1>9. OfScope' = OfScope
    BY <1>1 DEF OfScope
<1>10. \A e : Place(e)' = Place(e)
    BY <1>9 DEF Place
<1>11. /\ Cardinality(OfScope) \in Nat
       /\ \A e \in OfScope : e \in DOMAIN likes /\ likes[e].post \in Posts /\ Place(e) \in Nat
    BY PlaceIs DEF MarksInv, MarkRows
<1>12. ASSUME ~touched, NEW p \in Posts PROVE leafed'[p] <= 1
    <2>1. CASE ListedAs(p) = {}
        BY <1>2, <1>3, <1>4, <1>12, <2>1 DEF MarksInv, LeafedSoFar
    <2>2. CASE ListedAs(p) # {}
        <3>1. PICK e \in OfScope : Place(e) > offset /\ likes[e].post = p
            BY <1>2, <1>11, <2>2 DEF ListedAs, Page
        <3>2. leafed[p] = 0
            BY <1>12, <3>1 DEF MarksInv, LeafedSoFar
        <3> QED BY <1>3, <1>4, <2>2, <3>2
    <2> QED BY <2>1, <2>2
<1>13. ASSUME ~touched, NEW e \in OfScope, Place(e) <= offset + PerPage, likes[e].post \in steady
       PROVE  leafed'[likes[e].post] = 1
    <2> DEFINE p == likes[e].post
    <2>1. p \in Posts /\ Place(e) \in Nat /\ e \in DOMAIN likes
        BY <1>11
    <2>2. CASE Place(e) <= offset
        <3>1. leafed[p] = 1
            BY <1>13, <2>2 DEF MarksInv, LeafedSoFar
        <3>2. ListedAs(p) = {}
            <4>1. ASSUME NEW d \in ListedAs(p) PROVE FALSE
                <5>1. d \in DOMAIN likes /\ likes[d].post = p /\ ~(Place(d) <= offset)
                    BY <1>2, <1>11 DEF ListedAs, Page
                <5>2. d = e
                    BY <2>1, <5>1 DEF MarksInv, OneLike
                <5> QED BY <2>2, <5>1, <5>2
            <4> QED BY <4>1
        <3> QED BY <1>3, <1>4, <2>1, <3>1, <3>2
    <2>3. CASE ~(Place(e) <= offset)
        <3>1. leafed[p] = 0
            BY <1>2, <1>13, <2>1, <2>3 DEF MarksInv, LeafedSoFar
        <3>2. e \in Page
            BY <1>2, <1>13, <2>1, <2>3 DEF Page
        <3>3. owner[p] # Nowhere
            BY <1>13 DEF MarksInv, LeafedSoFar
        <3>4. e \in ListedAs(p)
            BY <3>2, <3>3 DEF ListedAs
        <3> QED BY <1>3, <1>4, <2>1, <3>1, <3>4
    <2> QED BY <2>2, <2>3
<1>14. ASSUME ~touched, NEW e \in OfScope, Place(e) > offset + PerPage
       PROVE  leafed'[likes[e].post] = 0
    <2> DEFINE p == likes[e].post
    <2>1. p \in Posts /\ Place(e) \in Nat /\ e \in DOMAIN likes
        BY <1>11
    <2>2. leafed[p] = 0
        <3>1. Place(e) > offset
            BY <1>2, <1>14, <2>1
        <3> QED BY <1>14, <3>1 DEF MarksInv, LeafedSoFar
    <2>3. ListedAs(p) = {}
        <3>1. ASSUME NEW d \in ListedAs(p) PROVE FALSE
            <4>1. d \in DOMAIN likes /\ likes[d].post = p /\ Place(d) <= offset + PerPage
                BY <1>11 DEF ListedAs, Page
            <4>2. d = e
                BY <2>1, <4>1 DEF MarksInv, OneLike
            <4> QED BY <1>2, <1>14, <2>1, <4>1, <4>2
        <3> QED BY <3>1
    <2> QED BY <1>3, <1>4, <2>1, <2>2, <2>3
<1>15. ~leafing' => Cardinality(OfScope) <= offset'
    <2> DEFINE all == Cardinality(OfScope)
    <2>1. ~leafing' => ~(offset' < all)
        BY <1>1
    <2>2. offset' \in Nat /\ all \in Nat
        BY <1>1, <1>2, <1>11
    <2> HIDE DEF all
    <2>3. ~(offset' < all) => all <= offset'
        BY <2>2
    <2> QED BY <2>1, <2>3 DEF all
<1>16. touched' = touched /\ steady' = steady /\ likes' = likes
    BY <1>1
<1>17. ~leafing' /\ offset' > 0 => Cardinality(OfScope) <= offset'
    BY <1>15
<1>18. LeafedSoFar'
    <2>1. \A p \in steady' : owner'[p] # Nowhere
        BY <1>1 DEF MarksInv, LeafedSoFar
    <2>2. ASSUME ~touched' PROVE \A p \in Posts : leafed'[p] <= 1
        BY <1>12, <1>16, <2>2
    <2>3. ASSUME ~touched', NEW e \in OfScope', Place(e)' <= offset', likes'[e].post \in steady'
          PROVE  leafed'[likes'[e].post] = 1
        <3>1. e \in OfScope /\ Place(e) <= offset + PerPage /\ likes[e].post \in steady
            BY <1>1, <1>9, <1>10, <1>16, <2>3
        <3> QED BY <1>13, <1>16, <2>3, <3>1
    <2>4. ASSUME ~touched', NEW e \in OfScope', Place(e)' > offset'
          PROVE  leafed'[likes'[e].post] = 0
        <3>1. e \in OfScope /\ Place(e) > offset + PerPage
            BY <1>1, <1>9, <1>10, <2>4
        <3> QED BY <1>14, <1>16, <2>4, <3>1
    <2> QED BY <1>9, <1>17, <2>1, <2>2, <2>3, <2>4 DEF LeafedSoFar
<1> QED BY <1>7, <1>8, <1>18 DEF MarksInv

LEMMA MarksKeep == MarksInv /\ [MarksNext]_markVars => MarksInv'
<1> SUFFICES ASSUME MarksInv, [MarksNext]_markVars PROVE MarksInv'
    OBVIOUS
<1>1. ASSUME NEW t \in Taps, TapsMark(t) PROVE MarksInv'
    BY <1>1, TapsKeeps
<1>2. ASSUME NEW t \in Taps, SetsMark(t) PROVE MarksInv'
    BY <1>2, SetsKeeps
<1>3. CASE UNCHANGED markVars
    <2>1. UNCHANGED <<owner, likes, tap, scope, offset, leafing, leafed, touched, steady>>
        BY <1>3 DEF markVars
    <2>2. /\ owner' \in [Posts -> Owners \cup {Nowhere}] /\ tap' \in [Taps -> TapRows]
          /\ touched' \in BOOLEAN
        BY <2>1, MarksTypes DEF MarksInv
    <2> QED BY <2>1, <2>2, MarksAlone DEF MarksInv, LeafedSoFar
<1> QED BY <1>1, <1>2, <1>3, ReindexedKeeps, OpensKeeps, LeafsKeeps DEF MarksNext

\* The marks, the taps and the viewer keep their types, for every set of posts.
THEOREM MarksTypeCorrect == MarksSpec => []MarksTypeOK
<1>1. MarksInv => MarksTypeOK
    BY DEF MarksInv
<1> QED BY <1>1, MarksBegin, MarksKeep, PTL DEF MarksSpec

\* A viewer who leafs through the likes sees none twice and misses none that
\* stayed, for every number of likes and every size of the page
\* (feed_state.py: page, set_mark).
THEOREM LikesStayListed == MarksSpec => []LikesListed
<1>1. MarksInv => LikesListed
    <2> SUFFICES ASSUME MarksInv PROVE LikesListed
        OBVIOUS
    <2>1. Cardinality(OfScope) \in Nat /\ \A e \in OfScope : Place(e) \in Nat
                                           /\ Place(e) <= Cardinality(OfScope)
        BY PlaceIs DEF MarksInv
    <2>2. offset \in Nat
        BY MarksTypes DEF MarksInv
    <2>3. ASSUME ~touched, ~leafing, offset > 0, NEW e \in OfScope, likes[e].post \in steady
          PROVE  leafed[likes[e].post] = 1
        <3>1. Cardinality(OfScope) <= offset
            BY <2>3 DEF MarksInv, LeafedSoFar
        <3>2. Place(e) <= offset
            BY <2>1, <2>2, <3>1
        <3> QED BY <2>3, <3>2 DEF MarksInv, LeafedSoFar
    <2> QED BY <2>3 DEF MarksInv, OneLike, LeafedSoFar, LikesListed
<1> QED BY <1>1, MarksBegin, MarksKeep, PTL DEF MarksSpec

-----------------------------------------------------------------------------
(* FolderNames *)

VisitRows == [at : {"rest", "extracted", "marking", "naming", "checked", "mapped"}, tab : Tabs,
              name : Titles \cup {NoTitle}, mark : Titles \cup {NoTitle}, todo : SUBSET Paths]

\* A file is in a folder that is there; and as long as no rename went astray,
\* the text that tells works apart is its work's own, and a work that was
\* fetched has a file.
WorksKept ==
    /\ \A f \in files : f.at.in \in folders
    /\ ~strayed => /\ \A f \in files : f.at.text = f.item
                   /\ \A w \in fetched : \E f \in files : f.item = w
\* Folders and files carry these names.
MarksAre(m) == Carries("mark") => \A f \in files : f.at.mark = m
NamesAre(n) == Carries("name") => \A f \in files : f.at.name = n
Carry(n, m) == (\A d \in folders : d.mark = m) /\ NamesAre(n) /\ MarksAre(m)
\* Of the files that are to be renamed, those that are have the new name.
HalfMarked(v) ==
    /\ Carries("mark") /\ NamesAre(mapping.name) /\ \A d \in folders : d.mark = visit[v].mark
    /\ \A p \in visit[v].todo : p.mark = mapping.mark
    /\ \A f \in files : f.at \in visit[v].todo \/ f.at.mark = visit[v].mark
HalfNamed(v) ==
    /\ Carries("name") /\ MarksAre(visit[v].mark) /\ \A d \in folders : d.mark = visit[v].mark
    /\ \A p \in visit[v].todo : p.name = mapping.name
    /\ \A f \in files : f.at \in visit[v].todo \/ f.at.name = visit[v].name
\* One visit at a time, of the one tab there are folders of: it has the files
\* renamed, one after the other, before it says so in the row.
OneVisit ==
    /\ ~strayed
    /\ \A u, v \in Visits : visit[u].at # "rest" /\ visit[v].at # "rest" => u = v
    /\ \A v \in Visits : visit[v].at # "rest" => \A d \in folders : d.tab = visit[v].tab
    /\ (\A v \in Visits : visit[v].at \notin {"marking", "naming", "checked"}) =>
          Carry(mapping.name, mapping.mark)
    /\ \A v \in Visits : visit[v].at = "marking" => HalfMarked(v)
    /\ \A v \in Visits : visit[v].at = "naming" => HalfNamed(v)
    /\ \A v \in Visits : visit[v].at = "checked" => Carry(visit[v].name, visit[v].mark)
    /\ \A v \in Visits : visit[v].at = "mapped" =>
          mapping.name = visit[v].name /\ mapping.mark = visit[v].mark
NamesInv ==
    /\ NamesTypeOK /\ WorksKept
    /\ \A v \in Visits : visit[v].at # "rest" => visit[v].name \in Titles /\ visit[v].mark \in Titles
    /\ \A v \in Visits : visit[v].at \in {"marking", "naming"} => mapping \in [name : Titles, mark : Titles]
    /\ clean => OneVisit

LEMMA NamesTypes ==
    NamesTypeOK <=>
        /\ order \in Formats
        /\ mapping \in [name : Titles, mark : Titles] \cup {NoRow}
        /\ folders \subseteq Folders /\ files \subseteq Files
        /\ fetched \subseteq Items /\ strayed \in BOOLEAN /\ clean \in BOOLEAN
        /\ visit \in [Visits -> VisitRows]
BY DEF NamesTypeOK, VisitRows

LEMMA NoVisitTyped == NoVisit \in VisitRows /\ NoVisit.at = "rest"
<1>1. (CHOOSE t \in Tabs : TRUE) \in Tabs
    BY NamesAssumption
<1> QED BY <1>1 DEF NoVisit, VisitRows

\* A place in a file's name holds a field.
LEMMA PlaceHolds ==
    ASSUME order \in Formats
    PROVE  /\ \A place \in DOMAIN order : order[place] \in {"text", "name", "mark"}
           /\ \A field \in {"text", "name", "mark"} :
                 Carries(field) <=> \E place \in DOMAIN order : order[place] = field
<1>1. PICK n \in 1..3 : order \in [1..n -> {"text", "name", "mark"}]
    BY DEF Formats
<1>2. \A place \in DOMAIN order : order[place] \in {"text", "name", "mark"}
    BY <1>1
<1>3. \A field \in {"text", "name", "mark"} :
          Carries(field) <=> \E place \in DOMAIN order : order[place] = field
    BY Zenon DEF Carries, Range
<1> QED BY <1>2, <1>3

LEMMA NamesBegin == NamesInit => NamesInv
<1> SUFFICES ASSUME NamesInit PROVE NamesInv
    OBVIOUS
<1>1. /\ order \in Formats /\ mapping = NoRow
      /\ folders = {} /\ files = {} /\ fetched = {} /\ visit = [v \in Visits |-> NoVisit]
    BY DEF NamesInit
<1>2. strayed = FALSE /\ clean = TRUE
    BY DEF NamesInit
<1>3. visit \in [Visits -> VisitRows] /\ \A v \in Visits : visit[v].at = "rest"
    BY <1>1, NoVisitTyped
<1>4. NamesTypeOK
    BY <1>1, <1>2, <1>3, NamesTypes
<1>5. WorksKept
    BY <1>1 DEF WorksKept
<1>6. Carry(mapping.name, mapping.mark)
    BY <1>1 DEF Carry, NamesAre, MarksAre
<1>7. OneVisit
    BY <1>2, <1>3, <1>6 DEF OneVisit
<1> QED BY <1>3, <1>4, <1>5, <1>7 DEF NamesInv

\* A folder that is renamed takes its files along.
Carried(e, m, fault, d) ==
    /\ m.folders \subseteq Folders /\ m.files \in SUBSET Files
    /\ \A f \in files : \E g \in m.files : g.item = f.item
    /\ \A g \in m.files :
          /\ g.at.in \in m.folders
          /\ \E f \in files : /\ g.item = f.item /\ g.at.text = f.at.text
                              /\ g.at.name = f.at.name /\ g.at.mark = f.at.mark
    /\ (~fault /\ folders = {d}) => m.folders = {e} /\ \A g \in m.files : g.at.in = e

LEMMA StayedIs ==
    ASSUME files \subseteq Files, folders \subseteq Folders, WorksKept,
           NEW d \in folders, NEW fault \in BOOLEAN
    PROVE  Carried(d, [folders |-> folders, files |-> files], fault, d)
BY DEF Carried, WorksKept

LEMMA MovedIs ==
    ASSUME files \subseteq Files, folders \subseteq Folders, WorksKept,
           NEW d \in folders, NEW e \in Folders, e # d, NEW fault \in BOOLEAN
    PROVE  Carried(e, Moved(d, e, fault), fault, d)
<1> DEFINE with(f) == IF f.at.in = d THEN [f EXCEPT !.at.in = e] ELSE f
           moved == {with(f) : f \in files}
<1>1. CASE fault \/ \E f \in files : f.at.in = e
    <2>1. Moved(d, e, fault) = [folders |-> folders, files |-> files]
        BY <1>1 DEF Moved
    <2>2. folders = {d} => fault
        BY <1>1 DEF WorksKept
    <2> QED BY <2>1, <2>2 DEF Carried, WorksKept
<1>2. CASE ~(fault \/ \E f \in files : f.at.in = e)
    <2>1. Moved(d, e, fault).folders = (folders \ {d}) \cup {e} /\ Moved(d, e, fault).files = moved
        BY <1>2 DEF Moved
    <2>2. ASSUME NEW f \in files
          PROVE  /\ with(f) \in Files /\ with(f).item = f.item /\ with(f).at.text = f.at.text
                 /\ with(f).at.name = f.at.name /\ with(f).at.mark = f.at.mark
                 /\ with(f).at.in = IF f.at.in = d THEN e ELSE f.at.in
        <3>1. f \in Files /\ f.at \in Paths
            BY DEF Files
        <3> QED BY <3>1 DEF Files, Paths
    <2> HIDE DEF with
    <2>3. moved \subseteq Files /\ \A f \in files : with(f) \in moved /\ with(f).item = f.item
        BY <2>2
    <2>4. ASSUME NEW g \in moved
          PROVE  /\ g.at.in \in (folders \ {d}) \cup {e}
                 /\ folders = {d} => g.at.in = e
                 /\ \E f \in files : /\ g.item = f.item /\ g.at.text = f.at.text
                                     /\ g.at.name = f.at.name /\ g.at.mark = f.at.mark
        <3>1. PICK f \in files : g = with(f)
            OBVIOUS
        <3>2. f.at.in \in folders
            BY DEF WorksKept
        <3> QED BY <2>2, <3>1, <3>2
    <2> HIDE DEF moved
    <2>5. Moved(d, e, fault).folders \subseteq Folders
        BY <2>1
    <2>6. folders = {d} => Moved(d, e, fault).folders = {e} /\ \A g \in Moved(d, e, fault).files : g.at.in = e
        BY <2>1, <2>4
    <2>7. \A f \in files : \E g \in Moved(d, e, fault).files : g.item = f.item
        BY <2>1, <2>3
    <2> QED BY <2>1, <2>3, <2>4, <2>5, <2>6, <2>7 DEF Carried
<1> QED BY <1>1, <1>2

\* Where files are called alike, a visit that nothing disturbs finds the one
\* folder there may be under the old mark.
LEMMA AloneFolder ==
    ASSUME NamesInv, clean, NEW v \in Visits, visit[v].at = "extracted"
    PROVE  /\ Carry(mapping.name, mapping.mark)
           /\ \A d \in folders : d = [tab |-> visit[v].tab, mark |-> mapping.mark]
           /\ \A u \in Visits : u # v => visit[u].at = "rest"
<1>1. OneVisit
    BY DEF NamesInv
<1>2. \A u \in Visits : u # v => visit[u].at = "rest"
    BY <1>1 DEF OneVisit
<1>3. Carry(mapping.name, mapping.mark)
    BY <1>1, <1>2 DEF OneVisit
<1>4. ASSUME NEW d \in folders PROVE d = [tab |-> visit[v].tab, mark |-> mapping.mark]
    <2>1. d \in Folders /\ d.mark = mapping.mark /\ d.tab = visit[v].tab
        BY <1>1, <1>3, NamesTypes DEF NamesInv, OneVisit, Carry
    <2> QED BY <2>1 DEF Folders
<1> QED BY <1>2, <1>3, <1>4

\* The state after a visit has gone on: what is left to show of it.
LEMMA VisitGoesOn ==
    ASSUME NamesInv, NEW v \in Visits, NEW r \in VisitRows, visit' = [visit EXCEPT ![v] = r],
           r.at # "rest" => r.name \in Titles /\ r.mark \in Titles
    PROVE  /\ visit' \in [Visits -> VisitRows] /\ visit'[v] = r
           /\ \A u \in Visits : u # v => visit'[u] = visit[u]
           /\ \A u \in Visits : visit'[u].at # "rest" =>
                 visit'[u].name \in Titles /\ visit'[u].mark \in Titles
<1>1. visit \in [Visits -> VisitRows]
    BY NamesTypes DEF NamesInv
<1>2. /\ visit' \in [Visits -> VisitRows] /\ visit'[v] = r
      /\ \A u \in Visits : u # v => visit'[u] = visit[u]
    BY <1>1
<1>3. ASSUME NEW u \in Visits, visit'[u].at # "rest"
      PROVE  visit'[u].name \in Titles /\ visit'[u].mark \in Titles
    <2>1. CASE u = v
        BY <1>2, <1>3, <2>1
    <2>2. CASE u # v
        BY <1>2, <1>3, <2>2 DEF NamesInv
    <2> QED BY <2>1, <2>2
<1> QED BY <1>2, <1>3

\* A visit that goes on, of whose row this much is kept.
GoesOn(v, r) ==
    /\ r \in VisitRows /\ visit' = [visit EXCEPT ![v] = r]
    /\ r.tab = visit[v].tab
    /\ r.at # "rest" => r.name = visit[v].name /\ r.mark = visit[v].mark

\* What one step of one visit has to show of itself for all to hold after it.
StepSound(v, r) ==
    /\ folders' \subseteq Folders /\ files' \subseteq Files /\ fetched' \subseteq Items
    /\ strayed' \in BOOLEAN /\ clean' \in BOOLEAN
    /\ WorksKept'
    /\ r.at \in {"marking", "naming"} => mapping' \in [name : Titles, mark : Titles]
    /\ clean' =>
          /\ clean /\ ~strayed'
          /\ \A d \in folders' : d.tab = visit[v].tab
          /\ r.at \in {"rest", "mapped"} => Carry(mapping.name, mapping.mark)'
          /\ r.at = "mapped" => mapping'.name = r.name /\ mapping'.mark = r.mark
          /\ r.at = "marking" => HalfMarked(v)'
          /\ r.at = "naming" => HalfNamed(v)'
          /\ r.at = "checked" => Carry(visit[v].name, visit[v].mark)'

LEMMA StepKeeps ==
    ASSUME NamesInv, NEW v \in Visits, visit[v].at # "rest", NEW r, GoesOn(v, r), StepSound(v, r),
           r.at # "extracted", order' = order,
           mapping' = mapping \/ (Free /\ mapping' \in [name : Titles, mark : Titles])
    PROVE  NamesInv'
<1>1. /\ visit[v] \in VisitRows /\ visit[v].name \in Titles /\ visit[v].mark \in Titles
      /\ mapping \in [name : Titles, mark : Titles] \cup {NoRow}
    BY NamesTypes DEF NamesInv
<1>2. /\ visit' \in [Visits -> VisitRows] /\ visit'[v] = r
      /\ \A u \in Visits : u # v => visit'[u] = visit[u]
      /\ \A u \in Visits : visit'[u].at # "rest" =>
            visit'[u].name \in Titles /\ visit'[u].mark \in Titles
    BY <1>1, VisitGoesOn DEF GoesOn
<1>3. r.tab = visit[v].tab /\ (r.at # "rest" => r.name = visit[v].name /\ r.mark = visit[v].mark)
    BY DEF GoesOn
<1>4. NamesTypeOK'
    <2>1. mapping' \in [name : Titles, mark : Titles] \cup {NoRow}
        BY <1>1
    <2> QED BY <1>2, <2>1 DEF NamesInv, NamesTypeOK, VisitRows, StepSound
<1>5. ASSUME NEW u \in Visits, visit'[u].at \in {"marking", "naming"}
      PROVE  mapping' \in [name : Titles, mark : Titles]
    <2>1. CASE u = v
        BY <1>2, <1>5, <2>1 DEF StepSound
    <2>2. CASE u # v
        BY <1>2, <1>5, <2>2 DEF NamesInv, Free, Scanning
    <2> QED BY <2>1, <2>2
<1>6. ASSUME clean' PROVE OneVisit'
    <2>1. clean /\ OneVisit
        BY <1>6 DEF StepSound, NamesInv
    <2>2. \A u \in Visits : u # v => visit'[u].at = "rest"
        BY <1>2, <2>1 DEF OneVisit
    <2>3. \A u \in Visits : visit'[u].at # "rest" => u = v /\ visit'[u] = r
        BY <1>2, <2>2
    <2>4. /\ ~strayed' /\ \A d \in folders' : d.tab = visit[v].tab
          /\ r.at \in {"rest", "mapped"} => Carry(mapping.name, mapping.mark)'
          /\ r.at = "mapped" => mapping'.name = r.name /\ mapping'.mark = r.mark
          /\ r.at = "marking" => HalfMarked(v)'
          /\ r.at = "naming" => HalfNamed(v)'
          /\ r.at = "checked" => Carry(visit[v].name, visit[v].mark)'
        BY <1>6 DEF StepSound
    <2>5. \A u \in Visits : visit'[u].at # "rest" => \A d \in folders' : d.tab = visit'[u].tab
        BY <1>3, <2>3, <2>4
    <2>6. r.at \in {"rest", "marking", "naming", "checked", "mapped"}
        BY DEF GoesOn, VisitRows
    <2>7. (\A u \in Visits : visit'[u].at \notin {"marking", "naming", "checked"}) =>
              Carry(mapping.name, mapping.mark)'
        BY <1>2, <2>4, <2>6
    <2>8. \A u \in Visits : /\ visit'[u].at = "marking" => HalfMarked(u)'
                            /\ visit'[u].at = "naming" => HalfNamed(u)'
        BY <2>3, <2>4
    <2>9. \A u \in Visits : visit'[u].at = "checked" => Carry(visit[u].name, visit[u].mark)'
        BY <2>3, <2>4
    <2>10. \A u \in Visits : visit'[u].at = "mapped" =>
               mapping'.name = visit'[u].name /\ mapping'.mark = visit'[u].mark
        BY <2>3, <2>4
    <2>11. \A u, w \in Visits : visit'[u].at # "rest" /\ visit'[w].at # "rest" => u = w
        BY <2>3
    <2> QED BY <2>4, <2>5, <2>7, <2>8, <2>9, <2>10, <2>11 DEF OneVisit
<1>7. WorksKept'
    BY DEF StepSound
<1> QED BY <1>2, <1>4, <1>5, <1>6, <1>7 DEF NamesInv

LEMMA BeginVisitKeeps ==
    ASSUME NamesInv, NEW v \in Visits, NEW tab \in Tabs, BeginVisit(v, tab) PROVE NamesInv'
<1>1. PICK name \in Titles, mark \in Titles \cup {NoTitle} :
          visit' = [visit EXCEPT ![v] =
              [at |-> "extracted", tab |-> tab, name |-> name,
               mark |-> IF mark = NoTitle THEN name ELSE mark, todo |-> {}]]
    BY DEF BeginVisit
<1> DEFINE r == [at |-> "extracted", tab |-> tab, name |-> name,
                 mark |-> IF mark = NoTitle THEN name ELSE mark, todo |-> {}]
<1>2. /\ visit[v].at = "rest" /\ visit' = [visit EXCEPT ![v] = r]
      /\ clean' = (/\ clean /\ \A u \in Visits : visit[u].at = "rest"
                   /\ \A f \in folders : f.tab = tab)
      /\ UNCHANGED <<order, mapping, folders, files, fetched, strayed>>
    BY <1>1 DEF BeginVisit
<1>3. r \in VisitRows /\ r.at = "extracted" /\ r.tab = tab /\ r.name \in Titles /\ r.mark \in Titles
    BY DEF VisitRows
<1> HIDE DEF r
<1>4. /\ visit' \in [Visits -> VisitRows] /\ visit'[v] = r
      /\ \A u \in Visits : u # v => visit'[u] = visit[u]
      /\ \A u \in Visits : visit'[u].at # "rest" =>
            visit'[u].name \in Titles /\ visit'[u].mark \in Titles
    BY <1>2, <1>3, VisitGoesOn
<1>5. clean' \in BOOLEAN
    BY <1>2
<1>6. NamesTypeOK'
    BY <1>2, <1>4, <1>5 DEF NamesInv, NamesTypeOK, VisitRows
<1>7. WorksKept'
    BY <1>2 DEF NamesInv, WorksKept
<1>8. ASSUME NEW u \in Visits, visit'[u].at \in {"marking", "naming"}
      PROVE  mapping' \in [name : Titles, mark : Titles]
    BY <1>2, <1>3, <1>4, <1>8 DEF NamesInv
<1>9. ASSUME clean' PROVE OneVisit'
    <2>1. /\ OneVisit /\ \A u \in Visits : visit[u].at = "rest"
          /\ \A f \in folders : f.tab = tab
        BY <1>2, <1>9 DEF NamesInv
    <2>2. \A u \in Visits : visit'[u].at = "rest" \/ (u = v /\ visit'[u] = r)
        BY <1>4, <2>1
    <2>3. Carry(mapping.name, mapping.mark) /\ ~strayed'
        BY <1>2, <2>1 DEF OneVisit
    <2>4. Carry(mapping.name, mapping.mark)'
        BY <1>2, <2>3 DEF Carry, NamesAre, MarksAre, Carries
    <2> QED BY <1>2, <1>3, <2>1, <2>2, <2>3, <2>4 DEF OneVisit
<1> QED BY <1>4, <1>6, <1>7, <1>8, <1>9 DEF NamesInv

LEMMA WriteRowKeeps == ASSUME NamesInv, NEW v \in Visits, WriteRow(v) PROVE NamesInv'
<1> DEFINE r == [visit[v] EXCEPT !.at = "mapped"]
<1>1. /\ visit[v].at = "checked" /\ Free /\ visit' = [visit EXCEPT ![v] = r]
      /\ mapping' = [name |-> visit[v].name, mark |-> visit[v].mark]
      /\ UNCHANGED <<order, folders, files, fetched, strayed, clean>>
    BY DEF WriteRow
<1>2. visit[v] \in VisitRows /\ visit[v].name \in Titles /\ visit[v].mark \in Titles
    BY <1>1, NamesTypes DEF NamesInv
<1>3. /\ r \in VisitRows /\ r.at = "mapped" /\ r.tab = visit[v].tab
      /\ r.name = visit[v].name /\ r.mark = visit[v].mark
    BY <1>2 DEF VisitRows
<1> HIDE DEF r
<1>4. GoesOn(v, r)
    BY <1>1, <1>3 DEF GoesOn
<1>5. mapping' \in [name : Titles, mark : Titles]
    BY <1>1, <1>2
<1>6. ASSUME clean'
      PROVE  /\ clean /\ ~strayed' /\ \A d \in folders' : d.tab = visit[v].tab
             /\ Carry(mapping.name, mapping.mark)'
    <2>1. OneVisit
        BY <1>1, <1>6 DEF NamesInv
    <2>2. Carry(visit[v].name, visit[v].mark)
        BY <1>1, <2>1 DEF OneVisit
    <2>3. mapping'.name = visit[v].name /\ mapping'.mark = visit[v].mark
        BY <1>1
    <2>4. Carry(mapping.name, mapping.mark)'
        BY <1>1, <2>2, <2>3 DEF Carry, NamesAre, MarksAre, Carries
    <2> QED BY <1>1, <1>6, <2>1, <2>4 DEF OneVisit
<1>7. StepSound(v, r)
    BY <1>1, <1>3, <1>5, <1>6, NamesTypes DEF StepSound, NamesInv, WorksKept
<1> QED BY <1>1, <1>3, <1>4, <1>5, <1>7, StepKeeps

LEMMA KillKeeps == ASSUME NamesInv, KillVisits PROVE NamesInv'
<1>1. /\ visit' = [v \in Visits |-> NoVisit]
      /\ clean' = (clean /\ Free /\ \A v \in Visits : visit[v].at # "checked")
      /\ UNCHANGED <<order, mapping, folders, files, fetched, strayed>>
    BY DEF KillVisits
<1>2. visit' \in [Visits -> VisitRows] /\ \A v \in Visits : visit'[v].at = "rest"
    BY <1>1, NoVisitTyped
<1>3. clean' \in BOOLEAN
    BY <1>1
<1>4. NamesTypeOK'
    BY <1>1, <1>2, <1>3 DEF NamesInv, NamesTypeOK, VisitRows
<1>5. WorksKept'
    BY <1>1 DEF NamesInv, WorksKept
<1>6. ASSUME clean' PROVE OneVisit'
    <2>1. OneVisit /\ \A v \in Visits : visit[v].at \notin {"marking", "naming", "checked"}
        BY <1>1, <1>6 DEF NamesInv, Free, Scanning
    <2>2. Carry(mapping.name, mapping.mark) /\ ~strayed'
        BY <1>1, <2>1 DEF OneVisit
    <2>3. Carry(mapping.name, mapping.mark)'
        BY <1>1, <2>2 DEF Carry, NamesAre, MarksAre, Carries
    <2> QED BY <1>2, <2>2, <2>3 DEF OneVisit
<1> QED BY <1>2, <1>4, <1>5, <1>6 DEF NamesInv

LEMMA LoadKeeps == ASSUME NamesInv, NEW v \in Visits, LoadItems(v) PROVE NamesInv'
<1>1. PICK W \in SUBSET {w \in Items \ fetched : \A f \in files : f.at # PathOf(v, w)} :
          /\ fetched' = fetched \cup W
          /\ folders' = folders \cup (IF W = {} THEN {} ELSE {Root(v)})
          /\ files' = files \cup {[at |-> PathOf(v, w), item |-> w] : w \in W}
    BY DEF LoadItems
<1> DEFINE r == NoVisit
           file(w) == [at |-> PathOf(v, w), item |-> w]
<1>2. /\ visit[v].at = "mapped" /\ visit' = [visit EXCEPT ![v] = NoVisit]
      /\ UNCHANGED <<order, mapping, strayed, clean>>
    BY DEF LoadItems
<1>3. visit[v] \in VisitRows /\ visit[v].name \in Titles /\ visit[v].mark \in Titles
    BY <1>2, NamesTypes DEF NamesInv
<1>4. Root(v) \in Folders /\ Root(v).tab = visit[v].tab /\ Root(v).mark = visit[v].mark
    BY <1>3 DEF Root, Folders, VisitRows
<1>5. ASSUME NEW w \in Items
      PROVE  /\ file(w) \in Files /\ file(w).item = w /\ file(w).at.in = Root(v) /\ file(w).at.text = w
             /\ Carries("name") => file(w).at.name = visit[v].name
             /\ Carries("mark") => file(w).at.mark = visit[v].mark
    <2>1. PathOf(v, w) \in Paths
        BY <1>3, <1>4 DEF PathOf, Paths, Pieces
    <2> QED BY <2>1 DEF Files, PathOf
<1> HIDE DEF file
<1>6. W \subseteq Items
    OBVIOUS
<1>7. files' = files \cup {file(w) : w \in W}
    BY <1>1 DEF file
<1>8. /\ visit' \in [Visits -> VisitRows] /\ visit'[v] = NoVisit
      /\ \A u \in Visits : u # v => visit'[u] = visit[u]
      /\ \A u \in Visits : visit'[u].at # "rest" =>
            visit'[u].name \in Titles /\ visit'[u].mark \in Titles
    BY <1>2, NoVisitTyped, VisitGoesOn
<1>9. NamesTypeOK'
    <2>1. files' \subseteq Files /\ folders' \subseteq Folders /\ fetched' \subseteq Items
        BY <1>1, <1>4, <1>5, <1>6, <1>7 DEF NamesInv, NamesTypeOK
    <2> QED BY <1>2, <1>8, <2>1 DEF NamesInv, NamesTypeOK, VisitRows
<1>10. WorksKept'
    <2>1. \A f \in files' : f.at.in \in folders'
        BY <1>1, <1>5, <1>6, <1>7 DEF NamesInv, WorksKept
    <2>2. ASSUME ~strayed'
          PROVE  /\ \A f \in files' : f.at.text = f.item
                 /\ \A w \in fetched' : \E f \in files' : f.item = w
        <3>1. /\ \A f \in files : f.at.text = f.item
              /\ \A w \in fetched : \E f \in files : f.item = w
            BY <1>2, <2>2 DEF NamesInv, WorksKept
        <3>2. \A f \in files' : f.at.text = f.item
            BY <1>5, <1>6, <1>7, <3>1
        <3>3. \A w \in W : file(w) \in files' /\ file(w).item = w
            BY <1>5, <1>6, <1>7
        <3>4. \A w \in fetched' : \E f \in files' : f.item = w
            BY <1>1, <1>7, <3>1, <3>3
        <3> QED BY <3>2, <3>4
    <2> QED BY <2>1, <2>2 DEF WorksKept
<1>11. ASSUME NEW u \in Visits, visit'[u].at \in {"marking", "naming"}
       PROVE  mapping' \in [name : Titles, mark : Titles]
    BY <1>2, <1>8, <1>11, NoVisitTyped DEF NamesInv
<1>12. ASSUME clean' PROVE OneVisit'
    <2>1. OneVisit
        BY <1>2, <1>12 DEF NamesInv
    <2>2. \A u \in Visits : u # v => visit[u].at = "rest"
        BY <1>2, <2>1 DEF OneVisit
    <2>3. \A u \in Visits : visit'[u].at = "rest"
        BY <1>8, <2>2, NoVisitTyped
    <2>4. mapping.name = visit[v].name /\ mapping.mark = visit[v].mark
        BY <1>2, <2>1 DEF OneVisit
    <2>5. Carry(mapping.name, mapping.mark) /\ ~strayed'
        BY <1>2, <2>1, <2>2 DEF OneVisit
    <2>6. Carry(mapping.name, mapping.mark)'
        <3>1. \A d \in folders' : d.mark = mapping.mark
            BY <1>1, <1>4, <2>4, <2>5 DEF Carry
        <3>2. \A f \in files' : /\ Carries("name") => f.at.name = mapping.name
                                /\ Carries("mark") => f.at.mark = mapping.mark
            BY <1>5, <1>6, <1>7, <2>4, <2>5 DEF Carry, NamesAre, MarksAre
        <3> QED BY <1>2, <3>1, <3>2 DEF Carry, NamesAre, MarksAre, Carries
    <2> QED BY <2>3, <2>5, <2>6 DEF OneVisit
<1> QED BY <1>8, <1>9, <1>10, <1>11, <1>12 DEF NamesInv

\* The files are listed when the one folder there is has moved.
LEMMA ListedIs ==
    ASSUME NEW F \in SUBSET Files, NEW d, \A f \in F : f.at.in = d
    PROVE  PathsIn(F, d) = {f.at : f \in F}
BY DEF PathsIn

LEMMA ListTyped == ASSUME NEW F \in SUBSET Files, NEW d PROVE PathsIn(F, d) \in SUBSET Paths
<1>1. \A f \in F : f.at \in Paths
    BY DEF Files
<1> QED BY <1>1 DEF PathsIn

LEMMA CheckNamesKeeps == ASSUME NamesInv, NEW v \in Visits, CheckNames(v) PROVE NamesInv'
<1> DEFINE old == [tab |-> visit[v].tab, mark |-> mapping.mark]
           new == Root(v)
           moves == mapping.mark # visit[v].mark
           m(fault) == IF moves THEN Moved(old, [old EXCEPT !.mark = visit[v].mark], fault)
                                ELSE [folders |-> folders, files |-> files]
           marks == moves /\ Carries("mark")
           goes == IF marks THEN "marking" ELSE IF ToName(v) THEN "naming" ELSE "checked"
           row(fault) == IF goes = "checked" THEN [visit[v] EXCEPT !.at = goes]
                         ELSE IF new \notin m(fault).folders THEN NoVisit
                         ELSE [visit[v] EXCEPT !.at = goes, !.todo = PathsIn(m(fault).files, new)]
<1>1. visit[v].at = "extracted" /\ Free /\ UNCHANGED <<order, mapping, fetched, strayed>>
    BY DEF CheckNames
<1>2. /\ visit[v] \in VisitRows /\ visit[v].name \in Titles /\ visit[v].mark \in Titles
      /\ folders \subseteq Folders /\ files \subseteq Files /\ clean \in BOOLEAN
      /\ visit \in [Visits -> VisitRows] /\ fetched \subseteq Items /\ strayed \in BOOLEAN
      /\ mapping \in [name : Titles, mark : Titles] \cup {NoRow} /\ WorksKept
    BY <1>1, NamesTypes DEF NamesInv
<1>3. PICK fault \in BOOLEAN :
          IF mapping = NoRow \/ old \notin folders
          THEN /\ visit' = [visit EXCEPT ![v].at = "checked"]
               /\ UNCHANGED <<folders, files, clean>>
          ELSE /\ folders' = m(fault).folders /\ files' = m(fault).files
               /\ clean' = (clean /\ ~fault)
               /\ visit' = [visit EXCEPT ![v] = row(fault)]
    BY <1>2 DEF CheckNames
<1>4. new \in Folders /\ new = [tab |-> visit[v].tab, mark |-> visit[v].mark]
    BY <1>2 DEF Root, Folders, VisitRows
<1>5. [old EXCEPT !.mark = visit[v].mark] = new
    BY <1>4
<1>6. clean => /\ Carry(mapping.name, mapping.mark)
               /\ \A d \in folders : d = old
               /\ ~strayed
    BY <1>1, AloneFolder DEF NamesInv, OneVisit
<1>7. moves => old # new
    BY <1>4
<1>8. CASE mapping = NoRow \/ old \notin folders
    <2> DEFINE r == [visit[v] EXCEPT !.at = "checked"]
    <2>1. visit' = [visit EXCEPT ![v] = r] /\ UNCHANGED <<folders, files, clean>>
        BY <1>3, <1>8
    <2>2. clean => folders = {}
        <3>1. CASE old \notin folders
            BY <1>6, <3>1
        <3>2. CASE mapping = NoRow
            <4>1. mapping.mark = NoTitle
                BY <3>2 DEF NoRow
            <4>2. \A d \in folders : d.mark \in Titles
                BY <1>2 DEF Folders
            <4> QED BY <1>6, <4>1, <4>2, NamesAssumption DEF Carry
        <3> QED BY <1>8, <3>1, <3>2
    <2>3. clean => files = {}
        BY <1>2, <2>2 DEF WorksKept
    <2>4. /\ r \in VisitRows /\ r.at = "checked" /\ r.tab = visit[v].tab
          /\ r.name = visit[v].name /\ r.mark = visit[v].mark
        BY <1>2 DEF VisitRows
    <2> HIDE DEF r
    <2>5. GoesOn(v, r)
        BY <2>1, <2>4 DEF GoesOn
    <2>6. WorksKept'
        BY <1>1, <1>2, <2>1 DEF WorksKept
    <2>7. clean' => clean /\ ~strayed' /\ folders' = {} /\ files' = {}
        BY <1>1, <1>6, <2>1, <2>2, <2>3
    <2>8. clean' => Carry(visit[v].name, visit[v].mark)'
        BY <2>7 DEF Carry, NamesAre, MarksAre
    <2>9. StepSound(v, r)
        BY <1>1, <1>2, <2>1, <2>4, <2>6, <2>7, <2>8 DEF StepSound
    <2> QED BY <1>1, <2>4, <2>5, <2>9, StepKeeps
<1>9. CASE ~(mapping = NoRow \/ old \notin folders)
    <2> DEFINE n == m(fault)
               r == row(fault)
    <2>1. /\ folders' = n.folders /\ files' = n.files /\ clean' = (clean /\ ~fault)
          /\ visit' = [visit EXCEPT ![v] = r]
        BY <1>3, <1>9
    <2>2. Carried(new, n, fault, old)
        <3>1. CASE moves
            <4>1. n = Moved(old, new, fault)
                BY <1>5, <3>1
            <4> HIDE DEF n, m, old, new
            <4> QED BY <1>2, <1>4, <1>7, <1>9, <3>1, <4>1, MovedIs
        <3>2. CASE ~moves
            <4>1. n = [folders |-> folders, files |-> files] /\ new = old
                BY <1>4, <3>2
            <4> HIDE DEF n, m, old, new
            <4> QED BY <1>2, <1>9, <4>1, StayedIs
        <3> QED BY <3>1, <3>2
    <2>3. r = IF goes = "checked" THEN [visit[v] EXCEPT !.at = goes]
              ELSE IF new \notin n.folders THEN NoVisit
              ELSE [visit[v] EXCEPT !.at = goes, !.todo = PathsIn(n.files, new)]
        OBVIOUS
    <2>4. goes \in {"marking", "naming", "checked"}
        OBVIOUS
    <2>5. /\ goes = "marking" => mapping.mark # visit[v].mark /\ Carries("mark")
          /\ goes # "marking" => (Carries("mark") => mapping.mark = visit[v].mark)
          /\ goes = "naming" => mapping.name # visit[v].name /\ Carries("name")
          /\ goes = "checked" => (Carries("name") => mapping.name = visit[v].name)
        BY DEF ToName
    <2>6. clean => folders = {old}
        BY <1>6, <1>9
    <2>7. mapping \in [name : Titles, mark : Titles]
        BY <1>2, <1>9
    <2>8. /\ n.folders \subseteq Folders /\ n.files \in SUBSET Files
          /\ \A f \in files : \E g \in n.files : g.item = f.item
          /\ \A g \in n.files :
                /\ g.at.in \in n.folders
                /\ \E f \in files : /\ g.item = f.item /\ g.at.text = f.at.text
                                    /\ g.at.name = f.at.name /\ g.at.mark = f.at.mark
          /\ (~fault /\ folders = {old}) => n.folders = {new} /\ \A g \in n.files : g.at.in = new
        BY <2>2 DEF Carried
    <2>9. new.tab = visit[v].tab /\ new.mark = visit[v].mark
        BY <1>4
    <2> HIDE DEF n, m, old, new, goes, r, row
    <2>10. PathsIn(n.files, new) \in SUBSET Paths
        BY <2>8, ListTyped
    <2>11. /\ r \in VisitRows
           /\ \/ r = NoVisit /\ new \notin n.folders
              \/ /\ r.at = goes /\ r.tab = visit[v].tab
                 /\ r.name = visit[v].name /\ r.mark = visit[v].mark
                 /\ goes # "checked" => r.todo = PathsIn(n.files, new)
        <3>1. CASE goes = "checked"
            BY <1>2, <2>3, <3>1 DEF VisitRows
        <3>2. CASE goes # "checked" /\ new \notin n.folders
            BY <2>3, <3>2, NoVisitTyped
        <3>3. CASE goes # "checked" /\ new \in n.folders
            <4>1. r = [visit[v] EXCEPT !.at = goes, !.todo = PathsIn(n.files, new)]
                BY <2>3, <3>3
            <4> QED BY <1>2, <2>4, <2>10, <4>1 DEF VisitRows
        <3> QED BY <3>1, <3>2, <3>3
    <2>12. WorksKept'
        <3>1. \A f \in files' : f.at.in \in folders'
            BY <2>1, <2>8
        <3>2. ASSUME ~strayed' PROVE \A f \in files' : f.at.text = f.item
            BY <1>1, <1>2, <2>1, <2>8, <3>2 DEF WorksKept
        <3>3. ASSUME ~strayed', NEW w \in fetched' PROVE \E f \in files' : f.item = w
            BY <1>1, <1>2, <2>1, <2>8, <3>3 DEF WorksKept
        <3> QED BY <3>1, <3>2, <3>3 DEF WorksKept
    <2>13. clean' \in BOOLEAN /\ (clean' => clean /\ ~fault)
        BY <2>1
    <2>14. ASSUME clean'
           PROVE  /\ n.folders = {new} /\ \A g \in n.files : g.at.in = new
                  /\ \A d \in folders' : d.tab = visit[v].tab /\ d.mark = visit[v].mark
                  /\ NamesAre(mapping.name)' /\ MarksAre(mapping.mark)'
        <3>1. n.folders = {new} /\ \A g \in n.files : g.at.in = new
            BY <2>6, <2>8, <2>13, <2>14
        <3>2. NamesAre(mapping.name) /\ MarksAre(mapping.mark)
            BY <1>6, <2>13, <2>14 DEF Carry
        <3>3. NamesAre(mapping.name)' /\ MarksAre(mapping.mark)'
            BY <1>1, <2>1, <2>8, <3>2 DEF NamesAre, MarksAre, Carries
        <3> QED BY <2>1, <2>9, <3>1, <3>3
    <2>15. CASE r = NoVisit /\ new \notin n.folders
        <3>1. ~clean'
            BY <2>14, <2>15
        <3>2. /\ visit' \in [Visits -> VisitRows] /\ visit'[v] = NoVisit
              /\ \A u \in Visits : u # v => visit'[u] = visit[u]
              /\ \A u \in Visits : visit'[u].at # "rest" =>
                    visit'[u].name \in Titles /\ visit'[u].mark \in Titles
            BY <2>1, <2>15, NoVisitTyped, VisitGoesOn
        <3>3. NamesTypeOK'
            BY <1>1, <2>1, <2>8, <2>13, <3>2 DEF NamesInv, NamesTypeOK, VisitRows
        <3> QED BY <1>1, <2>7, <2>12, <3>1, <3>2, <3>3 DEF NamesInv
    <2>16. CASE /\ r.at = goes /\ r.tab = visit[v].tab
                /\ r.name = visit[v].name /\ r.mark = visit[v].mark
                /\ goes # "checked" => r.todo = PathsIn(n.files, new)
        <3>1. GoesOn(v, r)
            BY <2>1, <2>11, <2>16 DEF GoesOn
        <3>2. visit'[v] = r
            BY <1>2, <2>1
        <3>3. ASSUME clean', goes = "marking" PROVE HalfMarked(v)'
            <4>1. r.todo = {f.at : f \in n.files}
                BY <2>8, <2>14, <2>16, <3>3, ListedIs
            <4>2. Carries("mark") /\ Carries("mark")'
                BY <1>1, <2>5, <3>3 DEF Carries
            <4>3. \A f \in n.files : f.at.mark = mapping.mark
                BY <2>1, <2>14, <3>3, <4>2, <1>1 DEF MarksAre
            <4>4. \A p \in r.todo : p.mark = mapping.mark
                BY <4>1, <4>3
            <4>5. \A d \in folders' : d.mark = r.mark
                BY <2>14, <2>16, <3>3
            <4>6. \A f \in files' : f.at \in r.todo
                BY <2>1, <4>1
            <4>7. NamesAre(mapping.name)' /\ mapping' = mapping
                BY <1>1, <2>14, <3>3
            <4> QED BY <3>2, <4>2, <4>4, <4>5, <4>6, <4>7 DEF HalfMarked
        <3>4. ASSUME clean', goes = "naming" PROVE HalfNamed(v)'
            <4>1. r.todo = {f.at : f \in n.files}
                BY <2>8, <2>14, <2>16, <3>4, ListedIs
            <4>2. Carries("name") /\ Carries("name")'
                BY <1>1, <2>5, <3>4 DEF Carries
            <4>3. \A f \in n.files : f.at.name = mapping.name
                BY <2>1, <2>14, <3>4, <4>2, <1>1 DEF NamesAre
            <4>4. \A p \in r.todo : p.name = mapping.name
                BY <4>1, <4>3
            <4>5. \A d \in folders' : d.mark = r.mark
                BY <2>14, <2>16, <3>4
            <4>6. \A f \in files' : f.at \in r.todo
                BY <2>1, <4>1
            <4>7. mapping' = mapping /\ (Carries("mark")' => mapping.mark = r.mark)
                BY <1>1, <2>5, <2>16, <3>4 DEF Carries
            <4>8. \A f \in files' : Carries("mark")' => f.at.mark = r.mark
                BY <2>14, <3>4, <4>7 DEF MarksAre
            <4>9. MarksAre(visit[v].mark)'
                BY <3>2, <4>8 DEF MarksAre
            <4> QED BY <3>2, <4>2, <4>4, <4>5, <4>6, <4>7, <4>9 DEF HalfNamed
        <3>5. ASSUME clean', goes = "checked" PROVE Carry(visit[v].name, visit[v].mark)'
            <4>1. mapping' = mapping /\ (Carries("mark")' => mapping.mark = r.mark)
                                     /\ (Carries("name")' => mapping.name = r.name)
                BY <1>1, <2>5, <2>16, <3>5 DEF Carries
            <4>2. /\ \A f \in files' : Carries("mark")' => f.at.mark = r.mark
                  /\ \A f \in files' : Carries("name")' => f.at.name = r.name
                BY <2>14, <3>5, <4>1 DEF MarksAre, NamesAre
            <4>3. \A d \in folders' : d.mark = r.mark
                BY <2>14, <2>16, <3>5
            <4> QED BY <3>2, <4>2, <4>3 DEF Carry, MarksAre, NamesAre
        <3>6. clean' => clean /\ ~strayed' /\ \A d \in folders' : d.tab = visit[v].tab
            BY <1>1, <1>6, <2>13, <2>14
        <3>7. StepSound(v, r)
            BY <1>1, <1>2, <2>1, <2>4, <2>7, <2>8, <2>12, <2>13, <2>16, <3>3, <3>4, <3>5, <3>6
               DEF StepSound
        <3> QED BY <1>1, <2>4, <2>16, <3>1, <3>7, StepKeeps
    <2> QED BY <2>11, <2>15, <2>16
<1> QED BY <1>8, <1>9

LEMMA RenameFileKeeps == ASSUME NamesInv, NEW v \in Visits, RenameFile(v) PROVE NamesInv'
<1>1. /\ visit[v].at \in {"marking", "naming"} /\ UNCHANGED <<order, mapping, folders, fetched>>
    BY DEF RenameFile, Scanning
<1>2. PICK f \in files, place \in DOMAIN order :
          /\ f.at \in visit[v].todo
          /\ \A p \in DOMAIN order : p < place => f.at[order[p]] # OldName(v)
          /\ \E t \in Replaced(v, f.at[order[place]]) :
                Puts(f, [f.at EXCEPT ![order[place]] = t])
          /\ Without(v, f.at)
          /\ strayed' = (strayed \/ order[place] # Field(v))
          /\ clean' = (clean /\ order[place] = Field(v))
    BY DEF RenameFile
<1> DEFINE x == order[place]
<1>3. PICK t \in Replaced(v, f.at[x]) : Puts(f, [f.at EXCEPT ![x] = t])
    BY <1>2
<1> DEFINE q == [f.at EXCEPT ![x] = t]
           h == [f EXCEPT !.at = q]
           r == [visit[v] EXCEPT !.todo = @ \ {f.at}]
<1>4. /\ visit[v] \in VisitRows /\ visit[v].name \in Titles /\ visit[v].mark \in Titles
      /\ folders \subseteq Folders /\ files \subseteq Files /\ clean \in BOOLEAN
      /\ visit \in [Visits -> VisitRows] /\ fetched \subseteq Items /\ strayed \in BOOLEAN
      /\ mapping \in [name : Titles, mark : Titles] /\ WorksKept /\ order \in Formats
    BY <1>1, NamesTypes DEF NamesInv
<1>5. /\ x \in {"text", "name", "mark"}
      /\ Field(v) \in {"name", "mark"}
    BY <1>4, PlaceHolds DEF Field
<1>6. /\ visit' = [visit EXCEPT ![v] = r] /\ strayed' = (strayed \/ x # Field(v))
      /\ clean' = (clean /\ x = Field(v))
      /\ files' = {g \in files : g.at \notin {f.at, q}} \cup {h}
    BY <1>2, <1>3 DEF Without, Puts
<1>7. t \in Pieces
    BY <1>3, <1>4, <1>5 DEF Replaced, Pieces, Field
<1>8. f \in Files /\ f.at \in Paths /\ f.item \in Items
    BY <1>4 DEF Files
<1>9. /\ q \in Paths /\ q.in = f.at.in
      /\ x # "text" => q.text = f.at.text
      /\ x # "name" => q.name = f.at.name
      /\ x # "mark" => q.mark = f.at.mark
      /\ x = "name" => q.name = t
      /\ x = "mark" => q.mark = t
    <2>1. CASE x = "text"
        BY <1>7, <1>8, <2>1 DEF Paths
    <2>2. CASE x = "name"
        BY <1>7, <1>8, <2>2 DEF Paths
    <2>3. CASE x = "mark"
        BY <1>7, <1>8, <2>3 DEF Paths
    <2> QED BY <1>5, <2>1, <2>2, <2>3
<1> HIDE DEF q
<1>10. h \in Files /\ h.at = q /\ h.item = f.item
    BY <1>8, <1>9 DEF Files
<1>11. /\ r \in VisitRows /\ r.at = visit[v].at /\ r.tab = visit[v].tab
       /\ r.name = visit[v].name /\ r.mark = visit[v].mark /\ r.todo = visit[v].todo \ {f.at}
    BY <1>4 DEF VisitRows
<1> HIDE DEF h, r
<1>12. GoesOn(v, r) /\ visit'[v] = r
    BY <1>4, <1>6, <1>11 DEF GoesOn
<1>13. files' \subseteq Files
    BY <1>4, <1>6, <1>10
<1>14. WorksKept'
    <2>1. \A g \in files' : g.at.in \in folders'
        BY <1>1, <1>4, <1>6, <1>9, <1>10 DEF WorksKept
    <2>2. ASSUME ~strayed'
          PROVE  /\ \A g \in files' : g.at.text = g.item
                 /\ \A w \in fetched' : \E g \in files' : g.item = w
        <3>1. x # "text" /\ ~strayed
            BY <1>5, <1>6, <2>2
        <3>2. /\ \A g \in files : g.at.text = g.item
              /\ \A w \in fetched : \E g \in files : g.item = w
            BY <1>4, <3>1 DEF WorksKept
        <3>3. q.text = f.item
            BY <1>9, <3>1, <3>2
        <3>4. \A g \in files' : g.at.text = g.item
            BY <1>6, <1>10, <3>2, <3>3
        <3>5. \A g \in files : g.at \in {f.at, q} => g.item = h.item
            BY <1>10, <3>2, <3>3
        <3>6. \A g \in files : g \in files' \/ (h \in files' /\ g.item = h.item)
            BY <1>6, <3>5
        <3>7. \A w \in fetched' : \E g \in files' : g.item = w
            BY <1>1, <3>2, <3>6
        <3> QED BY <3>4, <3>7
    <2> QED BY <2>1, <2>2 DEF WorksKept
<1>15. ASSUME clean'
       PROVE  /\ clean /\ OneVisit /\ x = Field(v) /\ ~strayed'
              /\ \A d \in folders' : d.tab = visit[v].tab
    <2>1. clean /\ OneVisit /\ x = Field(v)
        BY <1>6, <1>15 DEF NamesInv
    <2> QED BY <1>1, <1>6, <2>1 DEF OneVisit
<1>16. ASSUME clean', visit[v].at = "marking" PROVE HalfMarked(v)'
    <2>1. HalfMarked(v) /\ x = "mark"
        BY <1>15, <1>16 DEF OneVisit, Field
    <2>2. f.at.mark = mapping.mark
        BY <1>2, <2>1 DEF HalfMarked
    <2>3. t = visit[v].mark
        BY <1>3, <1>16, <2>1, <2>2 DEF Replaced, OldName, Field
    <2>4. NamesAre(mapping.name)'
        <3>1. ASSUME Carries("name") PROVE \A g \in files' : g.at.name = mapping.name
            BY <1>6, <1>9, <1>10, <2>1, <3>1 DEF HalfMarked, NamesAre
        <3> QED BY <1>1, <3>1 DEF NamesAre, Carries
    <2>5. \A g \in files' : g.at \in r.todo \/ g.at.mark = visit[v].mark
        BY <1>6, <1>9, <1>10, <1>11, <2>1, <2>3 DEF HalfMarked
    <2>6. \A p \in r.todo : p.mark = mapping.mark
        BY <1>11, <2>1 DEF HalfMarked
    <2>7. Carries("mark")' /\ \A d \in folders' : d.mark = visit[v].mark
        BY <1>1, <2>1 DEF HalfMarked, Carries
    <2> QED BY <1>1, <1>11, <1>12, <2>4, <2>5, <2>6, <2>7 DEF HalfMarked
<1>17. ASSUME clean', visit[v].at = "naming" PROVE HalfNamed(v)'
    <2>1. HalfNamed(v) /\ x = "name"
        BY <1>15, <1>17 DEF OneVisit, Field
    <2>2. f.at.name = mapping.name
        BY <1>2, <2>1 DEF HalfNamed
    <2>3. t = visit[v].name
        BY <1>3, <1>17, <2>1, <2>2 DEF Replaced, OldName, Field
    <2>4. MarksAre(visit[v].mark)'
        <3>1. ASSUME Carries("mark") PROVE \A g \in files' : g.at.mark = visit[v].mark
            BY <1>6, <1>9, <1>10, <2>1, <3>1 DEF HalfNamed, MarksAre
        <3> QED BY <1>1, <1>11, <1>12, <3>1 DEF MarksAre, Carries
    <2>5. \A g \in files' : g.at \in r.todo \/ g.at.name = visit[v].name
        BY <1>6, <1>9, <1>10, <1>11, <2>1, <2>3 DEF HalfNamed
    <2>6. \A p \in r.todo : p.name = mapping.name
        BY <1>11, <2>1 DEF HalfNamed
    <2>7. Carries("name")' /\ \A d \in folders' : d.mark = visit[v].mark
        BY <1>1, <2>1 DEF HalfNamed, Carries
    <2> QED BY <1>1, <1>11, <1>12, <2>4, <2>5, <2>6, <2>7 DEF HalfNamed
<1>18. strayed' \in BOOLEAN /\ clean' \in BOOLEAN
    BY <1>6
<1> HIDE DEF x
<1>19. StepSound(v, r)
    BY <1>1, <1>4, <1>11, <1>13, <1>14, <1>15, <1>16, <1>17, <1>18 DEF StepSound
<1> QED BY <1>1, <1>11, <1>12, <1>19, StepKeeps

\* What a visit that renames has found, and what it leaves alone.
LEMMA ScanningIs ==
    ASSUME NamesInv, NEW v \in Visits, visit[v].at \in {"marking", "naming"}
    PROVE  /\ visit[v] \in VisitRows /\ visit \in [Visits -> VisitRows]
           /\ folders \subseteq Folders /\ files \subseteq Files /\ fetched \subseteq Items
           /\ strayed \in BOOLEAN /\ clean \in BOOLEAN /\ order \in Formats
           /\ mapping \in [name : Titles, mark : Titles] /\ WorksKept
           /\ clean => OneVisit
BY NamesTypes DEF NamesInv

LEMMA RenameFailsKeeps == ASSUME NamesInv, NEW v \in Visits, RenameFails(v) PROVE NamesInv'
<1>1. PICK p \in visit[v].todo : Without(v, p)
    BY DEF RenameFails
<1> DEFINE r == [visit[v] EXCEPT !.todo = @ \ {p}]
<1>2. /\ visit[v].at \in {"marking", "naming"} /\ visit' = [visit EXCEPT ![v] = r]
      /\ clean' = FALSE /\ UNCHANGED <<order, mapping, folders, files, fetched, strayed>>
    BY <1>1 DEF RenameFails, Scanning, Without
<1>3. /\ visit[v] \in VisitRows
      /\ folders \subseteq Folders /\ files \subseteq Files /\ fetched \subseteq Items
      /\ strayed \in BOOLEAN /\ mapping \in [name : Titles, mark : Titles] /\ WorksKept
    BY <1>2, ScanningIs
<1>4. /\ r \in VisitRows /\ r.at = visit[v].at /\ r.tab = visit[v].tab
      /\ r.name = visit[v].name /\ r.mark = visit[v].mark
    BY <1>3 DEF VisitRows
<1> HIDE DEF r
<1>5. GoesOn(v, r)
    BY <1>2, <1>4 DEF GoesOn
<1>6. StepSound(v, r)
    BY <1>2, <1>3 DEF StepSound, WorksKept
<1> QED BY <1>2, <1>4, <1>5, <1>6, StepKeeps

LEMMA ScanBreaksKeeps == ASSUME NamesInv, NEW v \in Visits, ScanBreaks(v) PROVE NamesInv'
<1>1. PICK p \in visit[v].todo : \A place \in DOMAIN order : p[order[place]] # OldName(v)
    BY DEF ScanBreaks
<1> DEFINE r == [visit[v] EXCEPT !.todo = {}]
<1>2. /\ visit[v].at \in {"marking", "naming"} /\ visit' = [visit EXCEPT ![v] = r]
      /\ UNCHANGED <<order, mapping, folders, files, fetched, strayed, clean>>
    BY DEF ScanBreaks, Scanning
<1>3. /\ visit[v] \in VisitRows
      /\ folders \subseteq Folders /\ files \subseteq Files /\ fetched \subseteq Items
      /\ strayed \in BOOLEAN /\ clean \in BOOLEAN /\ order \in Formats
      /\ mapping \in [name : Titles, mark : Titles] /\ WorksKept
      /\ clean => OneVisit
    BY <1>2, ScanningIs
<1>4. /\ r \in VisitRows /\ r.at = visit[v].at /\ r.tab = visit[v].tab
      /\ r.name = visit[v].name /\ r.mark = visit[v].mark
    BY <1>3 DEF VisitRows
<1> HIDE DEF r
<1>5. GoesOn(v, r)
    BY <1>2, <1>4 DEF GoesOn
<1>6. ~clean
    <2> SUFFICES ASSUME clean PROVE FALSE
        OBVIOUS
    <2>1. CASE visit[v].at = "marking"
        <3>1. p.mark = mapping.mark /\ Carries("mark")
            BY <1>1, <1>3, <2>1 DEF OneVisit, HalfMarked
        <3>2. PICK place \in DOMAIN order : order[place] = "mark"
            BY <1>3, <3>1, PlaceHolds
        <3>3. OldName(v) = mapping.mark
            BY <2>1 DEF OldName, Field
        <3>4. p["mark"] # OldName(v)
            BY <1>1, <3>2
        <3> QED BY <3>1, <3>3, <3>4
    <2>2. CASE visit[v].at = "naming"
        <3>1. p.name = mapping.name /\ Carries("name")
            BY <1>1, <1>3, <2>2 DEF OneVisit, HalfNamed
        <3>2. PICK place \in DOMAIN order : order[place] = "name"
            BY <1>3, <3>1, PlaceHolds
        <3>3. OldName(v) = mapping.name
            BY <2>2 DEF OldName, Field
        <3>4. p["name"] # OldName(v)
            BY <1>1, <3>2
        <3> QED BY <3>1, <3>3, <3>4
    <2> QED BY <1>2, <2>1, <2>2
<1>7. StepSound(v, r)
    BY <1>2, <1>3, <1>6 DEF StepSound, WorksKept
<1> QED BY <1>2, <1>4, <1>5, <1>7, StepKeeps

LEMMA ScanEndsKeeps == ASSUME NamesInv, NEW v \in Visits, ScanEnds(v) PROVE NamesInv'
<1> DEFINE follows == visit[v].at = "marking" /\ ToName(v)
           r == IF follows THEN [visit[v] EXCEPT !.at = "naming", !.todo = PathsIn(files, Root(v))]
                ELSE [visit[v] EXCEPT !.at = "checked"]
<1>1. /\ visit[v].at \in {"marking", "naming"} /\ visit[v].todo = {}
      /\ visit' = [visit EXCEPT ![v] =
            IF @.at = "marking" /\ ToName(v)
            THEN [@ EXCEPT !.at = "naming", !.todo = PathsIn(files, Root(v))]
            ELSE [@ EXCEPT !.at = "checked"]]
      /\ UNCHANGED <<order, mapping, folders, files, fetched, strayed, clean>>
    BY DEF ScanEnds, Scanning
<1>2. /\ visit[v] \in VisitRows /\ visit \in [Visits -> VisitRows]
      /\ folders \subseteq Folders /\ files \subseteq Files /\ fetched \subseteq Items
      /\ strayed \in BOOLEAN /\ clean \in BOOLEAN /\ order \in Formats
      /\ mapping \in [name : Titles, mark : Titles] /\ WorksKept
      /\ clean => OneVisit
    BY <1>1, ScanningIs
<1>3. visit' = [visit EXCEPT ![v] = r]
    BY <1>1, <1>2
<1>4. PathsIn(files, Root(v)) \in SUBSET Paths
    BY <1>2, ListTyped
<1>5. /\ r \in VisitRows /\ r.at = (IF follows THEN "naming" ELSE "checked") /\ r.tab = visit[v].tab
      /\ r.name = visit[v].name /\ r.mark = visit[v].mark
      /\ follows => r.todo = PathsIn(files, Root(v))
    <2>1. CASE follows
        BY <1>2, <1>4, <2>1 DEF VisitRows
    <2>2. CASE ~follows
        BY <1>2, <2>2 DEF VisitRows
    <2> QED BY <2>1, <2>2
<1> HIDE DEF r
<1>6. GoesOn(v, r) /\ visit'[v] = r
    BY <1>2, <1>3, <1>5 DEF GoesOn
<1>7. ASSUME clean
      PROVE  /\ \A d \in folders : d.mark = visit[v].mark /\ d.tab = visit[v].tab
             /\ MarksAre(visit[v].mark) /\ ~strayed
             /\ visit[v].at = "marking" => NamesAre(mapping.name)
             /\ visit[v].at = "naming" => NamesAre(visit[v].name)
    <2>1. CASE visit[v].at = "marking"
        <3>1. HalfMarked(v)
            BY <1>2, <1>7, <2>1 DEF OneVisit
        <3>2. \A f \in files : f.at.mark = visit[v].mark
            BY <1>1, <3>1 DEF HalfMarked
        <3> QED BY <1>2, <1>7, <2>1, <3>1, <3>2 DEF HalfMarked, MarksAre, OneVisit
    <2>2. CASE visit[v].at = "naming"
        <3>1. HalfNamed(v)
            BY <1>2, <1>7, <2>2 DEF OneVisit
        <3>2. \A f \in files : f.at.name = visit[v].name
            BY <1>1, <3>1 DEF HalfNamed
        <3> QED BY <1>2, <1>7, <2>2, <3>1, <3>2 DEF HalfNamed, NamesAre, OneVisit
    <2> QED BY <1>1, <2>1, <2>2
<1>8. ASSUME clean', follows PROVE HalfNamed(v)'
    <2>1. \A d \in folders : d = Root(v)
        BY <1>1, <1>2, <1>7, <1>8 DEF Root, Folders
    <2>2. \A f \in files : f.at.in = Root(v)
        BY <1>2, <2>1 DEF WorksKept
    <2>3. r.todo = {f.at : f \in files}
        BY <1>2, <1>5, <1>8, <2>2, ListedIs
    <2>4. Carries("name") /\ Carries("name")' /\ NamesAre(mapping.name)
        BY <1>1, <1>7, <1>8 DEF ToName, Carries
    <2>5. \A p \in r.todo : p.name = mapping.name
        BY <2>3, <2>4 DEF NamesAre
    <2>6. \A f \in files : f.at \in r.todo
        BY <2>3
    <2>7. MarksAre(visit[v].mark)' /\ \A d \in folders' : d.mark = r.mark
        <3>1. MarksAre(r.mark) /\ \A d \in folders : d.mark = r.mark
            BY <1>1, <1>5, <1>7, <1>8
        <3> QED BY <1>1, <1>6, <3>1 DEF MarksAre, Carries
    <2> QED BY <1>1, <1>6, <2>4, <2>5, <2>6, <2>7 DEF HalfNamed
<1>9. ASSUME clean', ~follows PROVE Carry(visit[v].name, visit[v].mark)'
    <2>1. MarksAre(r.mark) /\ \A d \in folders : d.mark = r.mark
        BY <1>1, <1>5, <1>7, <1>9
    <2>2. NamesAre(r.name)
        <3>1. CASE visit[v].at = "marking"
            <4>1. NamesAre(mapping.name)
                BY <1>1, <1>7, <1>9, <3>1
            <4>2. Carries("name") => mapping.name = visit[v].name
                BY <1>9, <3>1 DEF ToName
            <4> QED BY <1>5, <4>1, <4>2 DEF NamesAre
        <3>2. CASE visit[v].at = "naming"
            BY <1>1, <1>5, <1>7, <1>9, <3>2
        <3> QED BY <1>1, <3>1, <3>2
    <2> QED BY <1>1, <1>6, <2>1, <2>2 DEF Carry, NamesAre, MarksAre, Carries
<1>10. WorksKept'
    BY <1>1, <1>2 DEF WorksKept
<1>11. clean' => clean /\ ~strayed' /\ \A d \in folders' : d.tab = visit[v].tab
    BY <1>1, <1>7
<1> HIDE DEF follows
<1>12. StepSound(v, r)
    BY <1>1, <1>2, <1>5, <1>8, <1>9, <1>10, <1>11 DEF StepSound
<1> QED BY <1>1, <1>5, <1>6, <1>12, StepKeeps

LEMMA NamesKeep == NamesInv /\ [NamesNext]_namesVars => NamesInv'
<1> SUFFICES ASSUME NamesInv, [NamesNext]_namesVars PROVE NamesInv'
    OBVIOUS
<1>1. ASSUME NEW v \in Visits, NEW tab \in Tabs, BeginVisit(v, tab) PROVE NamesInv'
    BY <1>1, BeginVisitKeeps
<1>2. ASSUME NEW v \in Visits, CheckNames(v) PROVE NamesInv'
    BY <1>2, CheckNamesKeeps
<1>3. ASSUME NEW v \in Visits, RenameFile(v) \/ RenameFails(v) \/ ScanBreaks(v) \/ ScanEnds(v)
      PROVE  NamesInv'
    BY <1>3, RenameFileKeeps, RenameFailsKeeps, ScanBreaksKeeps, ScanEndsKeeps
<1>4. ASSUME NEW v \in Visits, WriteRow(v) \/ LoadItems(v) PROVE NamesInv'
    BY <1>4, WriteRowKeeps, LoadKeeps
<1>5. CASE UNCHANGED namesVars
    <2>1. UNCHANGED <<order, mapping, folders, files, fetched, visit, strayed, clean>>
        BY <1>5 DEF namesVars
    <2> QED BY <2>1 DEF NamesInv, NamesTypeOK, WorksKept, OneVisit, Carry, NamesAre, MarksAre, Carries,
                        HalfMarked, HalfNamed
<1> QED BY <1>1, <1>2, <1>3, <1>4, <1>5, KillKeeps DEF NamesNext

\* The row, the folders, the files and the visits keep their types, for every
\* number of visits, tabs and works.
THEOREM NamesTypeCorrect == NamesSpec => []NamesTypeOK
<1>1. NamesInv => NamesTypeOK
    BY DEF NamesInv
<1> QED BY <1>1, NamesBegin, NamesKeep, PTL DEF NamesSpec

\* Renaming loses no work, and the folder and the files of an account carry the
\* names of its last visit, however often both change, unless a rename has hit
\* another field than its own (manager/cache.py).
THEOREM NamesKeepUp == NamesSpec => []NamesFollow
<1>1. NamesInv => NamesFollow
    <2> SUFFICES ASSUME NamesInv PROVE NamesFollow
        OBVIOUS
    <2>1. WorksKept
        BY DEF NamesInv
    <2>2. (clean /\ Free /\ \A v \in Visits : visit[v].at # "checked") =>
              Carry(mapping.name, mapping.mark) /\ ~strayed
        BY DEF NamesInv, OneVisit, Free, Scanning
    <2> QED BY <2>1, <2>2 DEF NamesFollow, WorksKept, Carry, NamesAre, MarksAre
<1> QED BY <1>1, NamesBegin, NamesKeep, PTL DEF NamesSpec

-----------------------------------------------------------------------------
(* EndpointPages *)

Replying == loop.at \in {"replies", "thread"}

\* What the loop and the Reply at hand say of each other and of what failed.
LoopAgrees ==
    /\ loop.shows = loop.cursor
    /\ loop.at = "lookup" => loop.cursor = 0
    /\ loop.at \in {"lookup", "page"} => ~loop.finished /\ loop.left > 0
    /\ Replying => kind.replies
    /\ loop.at = "thread" => loop.next <= Threads /\ loop.shows > 0
    /\ loop.at # "thread" => thread = NoThread
    /\ loop.at = "done" /\ ~broken => loop.finished \/ loop.left <= 1
    /\ loop.finished /\ ~broken => loop.cursor = Pages
    /\ ~loop.finished /\ loop.cursor = Pages /\ loop.cursor > 0 => hints
    /\ thread.finished /\ ~broken => thread.cursor = ReplyPages

\* The page of replies is still to be asked for in this round of the callback.
Coming(k) ==
    /\ Replying
    /\ k[2] > loop.next \/ (k[2] = loop.next /\ k[3] > thread.cursor)

\* The callback may run, or have run, for the page it ran for before.
Again == loop.finished /\ loop.at \in {"replies", "thread", "done"} /\ (broken \/ hints)

PagesCounted == \A p \in 1..Pages : listed[p] = IF p <= loop.cursor THEN 1 ELSE 0

KeyCounted(k) ==
    /\ k[1] > loop.cursor => replied[k] = 0
    /\ k[1] < loop.cursor => replied[k] <= 1
    /\ k[1] = loop.cursor =>
           \/ replied[k] <= (IF Coming(k) THEN 0 ELSE 1)
           \/ Again /\ replied[k] <= (IF Coming(k) THEN 1 ELSE 2)

\* A limit that is given is not lost while the requests count it down.
BudgetKept ==
    kind.limited =>
        /\ asked + loop.left >= budget
        /\ loop.at = "thread" => asked + thread.left >= budget

Whole == kind.replies /\ ~broken /\ asked + 1 < budget
KeyThere(k) == k[1] < loop.cursor \/ (k[1] = loop.cursor /\ ~Coming(k)) => replied[k] >= 1

EndpointInv ==
    /\ EndpointTypeOK
    /\ LoopAgrees
    /\ PagesCounted
    /\ \A k \in ReplyKeys : KeyCounted(k)
    /\ BudgetKept
    /\ Whole => \A k \in ReplyKeys : KeyThere(k)

LoopRows == [at : {"lookup", "page", "replies", "thread", "done"}, left : Nat,
             cursor : 0..Pages, finished : BOOLEAN, shows : 0..Pages, next : 1..(Threads + 1)]
ThreadRows == [left : Nat, cursor : 0..ReplyPages, finished : BOOLEAN]

LEMMA KindFacts ==
    ASSUME NEW e \in Kinds
    PROVE  /\ e.limited \in BOOLEAN /\ e.lookup \in BOOLEAN /\ e.replies \in BOOLEAN
           /\ e.replies => e.limited
<1>1. \A a, b, c \in BOOLEAN : /\ Kind(a, b, c).limited = a /\ Kind(a, b, c).lookup = b
                               /\ Kind(a, b, c).replies = c
    BY DEF Kind
<1>2. TRUE \in BOOLEAN /\ FALSE \in BOOLEAN
    OBVIOUS
<1>3. e \in {Kind(TRUE, FALSE, TRUE), Kind(TRUE, FALSE, FALSE), Kind(FALSE, FALSE, FALSE),
             Kind(FALSE, TRUE, FALSE)}
    BY DEF Kinds, Comment, CommentAlone, Search, Collection, CollectsDetail, Collects,
           CollectsMix, CollectsSeries, CollectsMusic, Mix, MixTikTok
<1>4. \A x \in {Kind(TRUE, FALSE, TRUE), Kind(TRUE, FALSE, FALSE), Kind(FALSE, FALSE, FALSE),
                Kind(FALSE, TRUE, FALSE)} :
          /\ x.limited \in BOOLEAN /\ x.lookup \in BOOLEAN /\ x.replies \in BOOLEAN
          /\ x.replies => x.limited
    BY <1>1, <1>2, Zenon
<1> QED BY <1>3, <1>4

LEMMA KeyParts ==
    ASSUME NEW k \in ReplyKeys
    PROVE  /\ k[1] \in 1..Pages /\ k[2] \in 1..Threads /\ k[3] \in 1..ReplyPages
           /\ k = <<k[1], k[2], k[3]>>
BY DEF ReplyKeys

LEMMA EndpointTypes ==
    ASSUME EndpointTypeOK
    PROVE  /\ loop \in LoopRows /\ thread \in ThreadRows
           /\ Pages \in Nat /\ Threads \in Nat /\ ReplyPages \in Nat /\ budget \in Nat \ {0}
           /\ MaxPages \in Nat \ {0} /\ asked \in Nat
           /\ broken \in BOOLEAN /\ hints \in BOOLEAN
           /\ kind.limited \in BOOLEAN /\ kind.replies \in BOOLEAN
           /\ kind.replies => kind.limited
           /\ replied \in [ReplyKeys -> Nat] /\ listed \in [1..Pages -> Nat]
<1>1. kind \in Kinds /\ budget \in Budgets
    BY DEF EndpointTypeOK
<1>2. /\ kind.limited \in BOOLEAN /\ kind.replies \in BOOLEAN
      /\ kind.replies => kind.limited
    BY <1>1, KindFacts
<1>3. loop \in LoopRows /\ thread \in ThreadRows
    BY DEF EndpointTypeOK, LoopRows, ThreadRows
<1> QED BY <1>1, <1>2, <1>3, PagesAssumption DEF EndpointTypeOK

LEMMA EndpointTypesKeep ==
    ASSUME EndpointTypeOK, UNCHANGED <<kind, budget, hints>>, broken' \in BOOLEAN,
           loop' \in LoopRows, thread' \in ThreadRows, asked' \in Nat,
           listed' \in [1..Pages -> Nat], replied' \in [ReplyKeys -> Nat]
    PROVE  EndpointTypeOK'
<1>1. kind \in Kinds /\ budget \in Budgets /\ hints \in BOOLEAN
    BY DEF EndpointTypeOK
<1>2. kind' \in Kinds /\ budget' \in Budgets /\ hints' \in BOOLEAN
    BY <1>1
<1> QED BY <1>2, Zenon DEF EndpointTypeOK, LoopRows, ThreadRows

LEMMA MoreBoolean == \A c, last : More(c, last) \in BOOLEAN /\ (~More(c, last)) \in BOOLEAN
BY DEF More

\* The fields of a loop that has read one more page, or has found the end.
Read(l, c, over) == [l EXCEPT !.cursor = c, !.shows = c, !.finished = over]

LEMMA ReadFields ==
    ASSUME NEW l \in LoopRows, NEW c \in 0..Pages, NEW over \in BOOLEAN
    PROVE  /\ Read(l, c, over) \in LoopRows /\ Read(l, c, over).left = l.left
           /\ Read(l, c, over).cursor = c /\ Read(l, c, over).shows = c
           /\ Read(l, c, over).finished = over
BY DEF LoopRows, Read

\* The fields of the loop when a page has been asked for.
LEMMA AfterPageFields ==
    ASSUME EndpointTypeOK, NEW l \in LoopRows, l.left > 0
    PROVE  /\ AfterPage(l) \in LoopRows
           /\ AfterPage(l).left = l.left - 1 /\ AfterPage(l).next = 1
           /\ AfterPage(l).cursor = l.cursor /\ AfterPage(l).shows = l.shows
           /\ AfterPage(l).finished = l.finished
           /\ AfterPage(l).at = IF kind.replies THEN "replies"
                                ELSE IF l.finished \/ l.left = 1 THEN "done" ELSE "page"
<1>1. Threads \in Nat
    BY PagesAssumption
<1>2. l.left \in Nat /\ l.left - 1 \in Nat
    BY DEF LoopRows
<1> DEFINE at == IF kind.replies THEN "replies"
                 ELSE IF l.finished \/ l.left = 1 THEN "done" ELSE "page"
<1>3. at \in {"lookup", "page", "replies", "thread", "done"}
    OBVIOUS
<1>4. 1 \in 1..(Threads + 1)
    BY <1>1
<1>5. AfterPage(l) = [l EXCEPT !.left = l.left - 1, !.next = 1, !.at = at]
    BY DEF AfterPage, LoopRows
<1> HIDE DEF at
<1>6. /\ AfterPage(l) \in LoopRows
      /\ AfterPage(l).left = l.left - 1 /\ AfterPage(l).next = 1
      /\ AfterPage(l).cursor = l.cursor /\ AfterPage(l).shows = l.shows
      /\ AfterPage(l).finished = l.finished /\ AfterPage(l).at = at
    BY <1>2, <1>3, <1>4, <1>5 DEF LoopRows
<1> QED BY <1>6 DEF at

LEMMA NextPageFields ==
    ASSUME NEW l \in LoopRows
    PROVE  /\ NextPage(l) \in LoopRows
           /\ NextPage(l).left = l.left /\ NextPage(l).next = l.next
           /\ NextPage(l).cursor = l.cursor /\ NextPage(l).shows = l.shows
           /\ NextPage(l).finished = l.finished
           /\ NextPage(l).at = IF l.finished \/ l.left = 0 THEN "done" ELSE "page"
BY DEF NextPage, LoopRows

LEMMA EndpointBegins == EndpointInit => EndpointInv
<1> SUFFICES ASSUME EndpointInit PROVE EndpointInv
    OBVIOUS
<1>1. /\ kind \in Kinds /\ budget \in Budgets /\ hints \in BOOLEAN /\ broken = FALSE
      /\ loop = Loop(IF kind.lookup THEN "lookup" ELSE "page",
                     IF kind.limited THEN budget ELSE Endless)
      /\ thread = NoThread /\ asked = 0
      /\ listed = [p \in 1..Pages |-> 0] /\ replied = [k \in ReplyKeys |-> 0]
    BY DEF EndpointInit
<1>2. Pages \in Nat /\ Threads \in Nat /\ ReplyPages \in Nat /\ budget \in Nat \ {0}
    BY <1>1, PagesAssumption
<1>3. /\ loop.at \in {"lookup", "page"} /\ loop.left \in Nat /\ loop.left > 0 /\ loop.cursor = 0
      /\ loop.finished = FALSE /\ loop.shows = 0 /\ loop.next = 1
      /\ kind.limited => loop.left = budget
    BY <1>1, <1>2 DEF Loop, Endless
<1>4. loop \in LoopRows
    BY <1>1, <1>2 DEF Loop, LoopRows, Endless
<1>5. thread \in ThreadRows /\ thread.finished = FALSE
    BY <1>1, <1>2 DEF NoThread, ThreadRows
<1>6. EndpointTypeOK
    BY <1>1, <1>2, <1>4, <1>5 DEF EndpointTypeOK, LoopRows, ThreadRows
<1>7. LoopAgrees
    BY <1>1, <1>3, <1>5 DEF LoopAgrees, Replying
<1>8. PagesCounted
    BY <1>1, <1>3 DEF PagesCounted
<1>9. \A k \in ReplyKeys : KeyCounted(k) /\ KeyThere(k)
    BY <1>1, <1>2, <1>3, KeyParts DEF KeyCounted, KeyThere
<1>10. BudgetKept
    BY <1>1, <1>2, <1>3 DEF BudgetKept
<1> QED BY <1>6, <1>7, <1>8, <1>9, <1>10 DEF EndpointInv

LEMMA LookupKeeps == EndpointInv /\ MixLookup => EndpointInv'
<1> SUFFICES ASSUME EndpointInv, MixLookup PROVE EndpointInv'
    OBVIOUS
<1>1. EndpointTypeOK
    BY DEF EndpointInv
<1>2. /\ loop.at = "lookup" /\ asked' = asked + 1
      /\ UNCHANGED <<kind, budget, hints, thread, listed, replied>>
    BY DEF MixLookup, Requested
<1>3. \/ loop' = [loop EXCEPT !.at = "page"] /\ broken' = broken
      \/ loop' = [loop EXCEPT !.at = "done"] /\ broken' = TRUE
    BY DEF MixLookup
<1>4. /\ loop' \in LoopRows /\ loop'.left = loop.left /\ loop'.cursor = loop.cursor
      /\ loop'.shows = loop.shows /\ loop'.finished = loop.finished /\ loop'.next = loop.next
      /\ \/ loop'.at = "page" /\ broken' = broken
         \/ loop'.at = "done" /\ broken' = TRUE
    BY <1>1, <1>3, EndpointTypes DEF LoopRows
<1>5. EndpointTypeOK'
    <2>1. broken' \in BOOLEAN
        BY <1>1, <1>3, EndpointTypes, Zenon
    <2>2. asked' \in Nat
        BY <1>1, <1>2, EndpointTypes
    <2> QED BY <1>1, <1>2, <1>4, <2>1, <2>2, EndpointTypes, EndpointTypesKeep
<1>6. /\ loop.shows = loop.cursor /\ loop.cursor = 0 /\ ~loop.finished /\ loop.left > 0
      /\ thread = NoThread
    BY <1>2 DEF EndpointInv, LoopAgrees
<1>7. LoopAgrees'
    BY <1>1, <1>2, <1>4, <1>6, EndpointTypes DEF LoopAgrees, Replying, NoThread
<1>8. PagesCounted'
    BY <1>2, <1>4 DEF EndpointInv, PagesCounted
<1>9. \A k \in ReplyKeys : KeyCounted(k)' /\ KeyThere(k)'
    BY <1>1, <1>2, <1>4, <1>6, EndpointTypes, KeyParts DEF EndpointInv, KeyCounted, KeyThere
<1>10. BudgetKept'
    BY <1>1, <1>2, <1>4, EndpointTypes DEF EndpointInv, BudgetKept, LoopRows
<1> QED BY <1>5, <1>7, <1>8, <1>9, <1>10 DEF EndpointInv

\* A page with items.
LEMMA PageListedKeeps == EndpointInv /\ PageListed => EndpointInv'
<1> SUFFICES ASSUME EndpointInv, PageListed PROVE EndpointInv'
    OBVIOUS
<1> DEFINE c == loop.cursor + 1
<1> DEFINE over == ~More(c, Pages)
<1> DEFINE read == Read(loop, c, over)
<1>1. EndpointTypeOK
    BY DEF EndpointInv
<1>2. /\ loop.at = "page" /\ c <= Pages /\ asked' = asked + 1
      /\ listed' = [listed EXCEPT ![c] = @ + 1]
      /\ loop' = AfterPage(read)
      /\ UNCHANGED <<kind, budget, hints, thread, replied, broken>>
    BY Zenon DEF PageListed, Requested, Shown, Read
<1>3. /\ loop.shows = loop.cursor /\ ~loop.finished /\ loop.left > 0 /\ thread = NoThread
    BY <1>2 DEF EndpointInv, LoopAgrees
<1>4. loop.cursor \in Nat /\ c \in 1..Pages /\ c \in 0..Pages
    BY <1>1, <1>2, EndpointTypes DEF LoopRows
<1>5. over \in BOOLEAN
    BY MoreBoolean
<1>6. over <=> ~(c < Pages \/ hints)
    BY DEF More
<1> HIDE DEF c, over
<1>7. /\ read \in LoopRows /\ read.left = loop.left /\ read.cursor = c /\ read.shows = c
      /\ read.finished = over
    BY <1>1, <1>4, <1>5, EndpointTypes, ReadFields
<1> HIDE DEF read
<1>8. /\ loop' \in LoopRows /\ loop'.left = loop.left - 1 /\ loop'.next = 1
      /\ loop'.cursor = c /\ loop'.shows = c /\ (loop'.finished <=> ~(c < Pages \/ hints))
      /\ loop'.at = IF kind.replies THEN "replies"
                    ELSE IF read.finished \/ loop.left = 1 THEN "done" ELSE "page"
    BY <1>1, <1>2, <1>3, <1>6, <1>7, AfterPageFields
<1>9. read.finished <=> loop'.finished
    BY <1>1, <1>2, <1>3, <1>7, AfterPageFields
<1>10. listed' \in [1..Pages -> Nat]
    BY SMTT(60), <1>1, <1>2, <1>4, EndpointTypes
<1>11. EndpointTypeOK'
    BY <1>1, <1>2, <1>8, <1>10, EndpointTypes, EndpointTypesKeep
<1>12. LoopAgrees'
    BY SMTT(60), <1>1, <1>2, <1>3, <1>4, <1>8, <1>9, EndpointTypes
    DEF LoopAgrees, Replying, NoThread, LoopRows
<1>13. PagesCounted'
    BY <1>1, <1>2, <1>4, <1>8, EndpointTypes DEF EndpointInv, PagesCounted, c
<1>14. \A k \in ReplyKeys : KeyCounted(k)'
    <2> TAKE k \in ReplyKeys
    <2>1. /\ k[1] \in 1..Pages /\ k[2] \in 1..Threads /\ k[3] \in 1..ReplyPages
        BY KeyParts
    <2>2. KeyCounted(k) /\ ~Coming(k) /\ ~Again
        BY <1>2 DEF EndpointInv, Coming, Replying, Again
    <2>3. replied[k] \in Nat
        BY <1>1, EndpointTypes
    <2>4. k[1] = c => replied[k] = 0
        BY <1>4, <2>1, <2>2 DEF KeyCounted, c
    <2>5. k[1] < c => replied[k] <= 1
        BY <1>4, <2>1, <2>2, <2>3 DEF KeyCounted, c
    <2>6. k[1] > c => replied[k] = 0
        BY <1>4, <2>1, <2>2 DEF KeyCounted, c
    <2> QED BY <1>2, <1>8, <2>4, <2>5, <2>6 DEF KeyCounted
<1>15. BudgetKept'
    <2>1. loop'.at # "thread"
        BY <1>8
    <2> QED BY <1>1, <1>2, <1>8, <2>1, EndpointTypes DEF EndpointInv, BudgetKept, LoopRows
<1>16. ASSUME Whole', NEW k \in ReplyKeys PROVE KeyThere(k)'
    <2>1. Whole /\ kind.replies
        BY <1>1, <1>2, <1>16, EndpointTypes DEF Whole
    <2>2. KeyThere(k) /\ ~Coming(k)
        BY <1>2, <2>1 DEF EndpointInv, Coming, Replying
    <2>3. /\ k[1] \in 1..Pages /\ k[2] \in 1..Threads /\ k[3] \in 1..ReplyPages
        BY KeyParts
    <2>4. thread'.cursor = 0 /\ loop'.at = "replies"
        BY <1>2, <1>3, <1>8, <2>1 DEF NoThread
    <2>5. Coming(k)'
        BY <1>8, <2>3, <2>4 DEF Coming, Replying
    <2> QED BY <1>2, <1>4, <1>8, <2>2, <2>3, <2>5 DEF KeyThere, c
<1> QED BY <1>11, <1>12, <1>13, <1>14, <1>15, <1>16 DEF EndpointInv

\* A page without items, or none: the loop is over for the pages, and the
\* callback has the page before it once more.
LEMMA PageOverKeeps ==
    ASSUME EndpointInv, loop.at = "page", asked' = asked + 1, broken' \in BOOLEAN,
           broken => broken', broken' \/ loop.cursor = Pages,
           loop' = AfterPage([loop EXCEPT !.finished = TRUE]),
           UNCHANGED <<kind, budget, hints, thread, listed, replied>>
    PROVE  EndpointInv'
<1> DEFINE read == [loop EXCEPT !.finished = TRUE]
<1>1. EndpointTypeOK
    BY DEF EndpointInv
<1>2. /\ loop.shows = loop.cursor /\ ~loop.finished /\ loop.left > 0 /\ thread = NoThread
      /\ loop.cursor = Pages /\ loop.cursor > 0 => hints
    BY DEF EndpointInv, LoopAgrees
<1>3. /\ read \in LoopRows /\ read.left = loop.left /\ read.cursor = loop.cursor
      /\ read.shows = loop.shows /\ read.finished
    BY <1>1, EndpointTypes DEF LoopRows
<1> HIDE DEF read
<1>4. loop' = AfterPage(read)
    BY DEF read
<1>5. /\ loop' \in LoopRows /\ loop'.left = loop.left - 1 /\ loop'.next = 1
      /\ loop'.cursor = loop.cursor /\ loop'.shows = loop.shows /\ loop'.finished
      /\ loop'.at = IF kind.replies THEN "replies" ELSE "done"
    BY <1>1, <1>2, <1>3, <1>4, AfterPageFields
<1>6. EndpointTypeOK'
    BY <1>1, <1>5, EndpointTypes, EndpointTypesKeep
<1>7. LoopAgrees'
    BY <1>1, <1>2, <1>5, EndpointTypes DEF LoopAgrees, Replying, NoThread, LoopRows
<1>8. PagesCounted'
    BY <1>5 DEF EndpointInv, PagesCounted
<1>9. \A k \in ReplyKeys : KeyCounted(k)'
    <2> TAKE k \in ReplyKeys
    <2>1. /\ k[1] \in 1..Pages /\ k[2] \in 1..Threads /\ k[3] \in 1..ReplyPages
        BY KeyParts
    <2>2. KeyCounted(k) /\ ~Coming(k) /\ ~Again
        BY DEF EndpointInv, Coming, Replying, Again
    <2>3. replied[k] \in Nat /\ loop.cursor \in Nat
        BY <1>1, EndpointTypes DEF LoopRows
    <2>4. k[1] = loop.cursor => Again' /\ replied[k] <= 1
        <3> HAVE k[1] = loop.cursor
        <3>1. broken' \/ hints'
            BY <1>2, <2>1
        <3> QED BY <1>5, <2>2, <3>1 DEF KeyCounted, Again
    <2> QED BY <1>5, <2>2, <2>3, <2>4 DEF KeyCounted
<1>10. BudgetKept'
    <2>1. loop'.at # "thread"
        BY <1>5
    <2> QED BY <1>1, <1>5, <2>1, EndpointTypes DEF EndpointInv, BudgetKept, LoopRows
<1>11. ASSUME Whole', NEW k \in ReplyKeys PROVE KeyThere(k)'
    <2>1. Whole
        BY <1>1, <1>11, EndpointTypes DEF Whole
    <2>2. KeyThere(k) /\ ~Coming(k)
        BY <2>1 DEF EndpointInv, Coming, Replying
    <2> QED BY <1>5, <2>2 DEF KeyThere
<1> QED BY <1>6, <1>7, <1>8, <1>9, <1>10, <1>11 DEF EndpointInv

LEMMA PageEmptyKeeps == EndpointInv /\ PageEmpty => EndpointInv'
<1> SUFFICES ASSUME EndpointInv, PageEmpty PROVE EndpointInv'
    OBVIOUS
<1>1. broken \in BOOLEAN
    BY DEF EndpointInv, EndpointTypeOK
<1> QED BY <1>1, PageOverKeeps DEF PageEmpty, Requested

LEMMA PageFailsKeeps == EndpointInv /\ PageFails => EndpointInv'
BY PageOverKeeps DEF PageFails, Requested

\* When the callback is over nothing of its round is still to come, and the
\* counts stand as they are.
LEMMA RoundOverKeeps ==
    ASSUME EndpointInv, Replying, loop' = NextPage(loop), thread' = NoThread,
           UNCHANGED <<kind, budget, hints, listed, replied, asked, broken>>,
           \A k \in ReplyKeys : Whole /\ k[1] = loop.cursor => ~Coming(k)
    PROVE  EndpointInv'
<1>1. EndpointTypeOK
    BY DEF EndpointInv
<1>2. loop.shows = loop.cursor /\ kind.replies
    BY DEF EndpointInv, LoopAgrees
<1>3. /\ loop' \in LoopRows /\ loop'.left = loop.left /\ loop'.next = loop.next
      /\ loop'.cursor = loop.cursor /\ loop'.shows = loop.shows
      /\ loop'.finished = loop.finished
      /\ loop'.at = IF loop.finished \/ loop.left = 0 THEN "done" ELSE "page"
    BY <1>1, EndpointTypes, NextPageFields
<1>4. thread' \in ThreadRows /\ thread'.finished = FALSE
    BY <1>1, EndpointTypes DEF NoThread, ThreadRows
<1>5. EndpointTypeOK'
    BY <1>1, <1>3, <1>4, EndpointTypes, EndpointTypesKeep
<1>6. /\ loop.finished /\ ~broken => loop.cursor = Pages
      /\ ~loop.finished /\ loop.cursor = Pages /\ loop.cursor > 0 => hints
    BY DEF EndpointInv, LoopAgrees
<1>7. LoopAgrees'
    BY <1>1, <1>2, <1>3, <1>4, <1>6, EndpointTypes DEF LoopAgrees, Replying, LoopRows
<1>8. PagesCounted'
    BY <1>3 DEF EndpointInv, PagesCounted
<1>9. \A k \in ReplyKeys : KeyCounted(k)'
    <2> TAKE k \in ReplyKeys
    <2>1. KeyCounted(k) /\ replied[k] \in Nat
        BY <1>1, EndpointTypes DEF EndpointInv
    <2>2. ~Coming(k)'
        BY <1>3 DEF Coming, Replying
    <2>3. Again => Again'
        BY <1>3 DEF Again
    <2> QED BY <1>3, <2>1, <2>2, <2>3 DEF KeyCounted
<1>10. BudgetKept'
    BY <1>1, <1>3, EndpointTypes DEF EndpointInv, BudgetKept, LoopRows
<1>11. ASSUME Whole', NEW k \in ReplyKeys PROVE KeyThere(k)'
    <2>1. Whole
        BY <1>11 DEF Whole
    <2>2. KeyThere(k)
        BY <2>1 DEF EndpointInv
    <2>3. k[1] = loop.cursor => ~Coming(k)
        BY <2>1
    <2> QED BY <1>3, <2>2, <2>3 DEF KeyThere
<1> QED BY <1>5, <1>7, <1>8, <1>9, <1>10, <1>11 DEF EndpointInv

LEMMA ThreadBeginsKeeps == EndpointInv /\ ThreadBegins => EndpointInv'
<1> SUFFICES ASSUME EndpointInv, ThreadBegins PROVE EndpointInv'
    OBVIOUS
<1>1. EndpointTypeOK
    BY DEF EndpointInv
<1>2. /\ loop.at = "replies"
      /\ UNCHANGED <<kind, budget, hints, listed, replied, asked, broken>>
    BY DEF ThreadBegins
<1>3. loop.shows = loop.cursor /\ thread = NoThread
    BY <1>2 DEF EndpointInv, LoopAgrees
<1>4. thread \in ThreadRows /\ thread.cursor = 0 /\ thread.finished = FALSE
    BY <1>1, <1>3, EndpointTypes DEF NoThread
<1>5. CASE loop.shows > 0 /\ loop.next <= Threads
    <2> DEFINE room == IF loop.left = 0 THEN MaxPages ELSE loop.left
    <2>1. /\ thread' = [NoThread EXCEPT !.left = room]
          /\ loop' = [loop EXCEPT !.at = "thread"]
        BY <1>5 DEF ThreadBegins
    <2>2. room \in Nat /\ room >= loop.left
        BY <1>1, EndpointTypes DEF LoopRows
    <2> HIDE DEF room
    <2>3. /\ thread' \in ThreadRows /\ thread'.left = room /\ thread'.cursor = 0
          /\ thread'.finished = FALSE
        <3>1. thread' = [left |-> room, cursor |-> 0, finished |-> FALSE]
            BY <2>1 DEF NoThread
        <3>2. 0 \in 0..ReplyPages /\ FALSE \in BOOLEAN
            BY <1>1, EndpointTypes
        <3> QED BY <2>2, <3>1, <3>2 DEF ThreadRows
    <2>4. /\ loop' \in LoopRows /\ loop'.left = loop.left /\ loop'.next = loop.next
          /\ loop'.cursor = loop.cursor /\ loop'.shows = loop.shows
          /\ loop'.finished = loop.finished /\ loop'.at = "thread"
        BY <1>1, <2>1, EndpointTypes DEF LoopRows
    <2>5. EndpointTypeOK'
        BY <1>1, <1>2, <2>3, <2>4, EndpointTypes, EndpointTypesKeep
    <2>6. LoopAgrees'
        BY <1>2, <1>5, <2>3, <2>4 DEF EndpointInv, LoopAgrees, Replying
    <2>7. PagesCounted'
        BY <1>2, <2>4 DEF EndpointInv, PagesCounted
    <2>8. \A k \in ReplyKeys : (Coming(k)' <=> Coming(k)) /\ (Again' <=> Again)
        BY <1>2, <1>4, <2>3, <2>4 DEF Coming, Replying, Again
    <2>9. \A k \in ReplyKeys : KeyCounted(k)'
        BY <1>2, <2>4, <2>8 DEF EndpointInv, KeyCounted
    <2>10. BudgetKept'
        BY <1>1, <1>2, <2>2, <2>3, <2>4, EndpointTypes DEF EndpointInv, BudgetKept, LoopRows
    <2>11. Whole' => \A k \in ReplyKeys : KeyThere(k)'
        BY <1>2, <2>4, <2>8 DEF EndpointInv, Whole, KeyThere
    <2> QED BY <2>5, <2>6, <2>7, <2>9, <2>10, <2>11 DEF EndpointInv
<1>6. CASE ~(loop.shows > 0 /\ loop.next <= Threads)
    <2>1. loop' = NextPage(loop) /\ thread' = NoThread
        BY <1>3, <1>6 DEF ThreadBegins
    <2>2. ASSUME NEW k \in ReplyKeys, k[1] = loop.cursor PROVE ~Coming(k)
        <3>1. k[1] \in 1..Pages /\ k[2] \in 1..Threads
            BY KeyParts
        <3>2. loop.next > Threads
            BY <1>1, <1>3, <1>6, <2>2, <3>1, EndpointTypes DEF LoopRows
        <3> QED BY <1>1, <3>1, <3>2, EndpointTypes DEF Coming, LoopRows
    <2> QED BY <1>2, <2>1, <2>2, RoundOverKeeps DEF Replying
<1> QED BY <1>5, <1>6

\* One request of a thread: the loop stays, at most one page of replies joins.
LEMMA ReplyAskedKeeps ==
    ASSUME EndpointInv, loop.at = "thread", thread.left > 0, ~thread.finished,
           asked' = asked + 1, broken' \in BOOLEAN, broken => broken',
           thread' \in ThreadRows, thread'.left = thread.left - 1,
           thread'.finished /\ ~broken' => thread'.cursor = ReplyPages,
           replied' \in [ReplyKeys -> Nat],
           \A k \in ReplyKeys : k[1] = loop.cursor /\ Coming(k) =>
               \/ Coming(k)' /\ replied'[k] = replied[k]
               \/ ~Coming(k)' /\ replied'[k] = replied[k] + 1,
           \A k \in ReplyKeys : k[1] # loop.cursor \/ ~Coming(k) =>
               (k[1] = loop.cursor => ~Coming(k)') /\ replied'[k] = replied[k],
           UNCHANGED <<kind, budget, hints, loop, listed>>
    PROVE  EndpointInv'
<1>1. EndpointTypeOK
    BY DEF EndpointInv
<1>2. EndpointTypeOK'
    BY <1>1, EndpointTypes, EndpointTypesKeep
<1>3. LoopAgrees'
    BY DEF EndpointInv, LoopAgrees, Replying
<1>4. PagesCounted'
    BY DEF EndpointInv, PagesCounted
<1>5. Again => Again'
    BY DEF Again
<1>6. ASSUME NEW k \in ReplyKeys PROVE KeyCounted(k)'
    <2>1. KeyCounted(k) /\ replied[k] \in Nat /\ replied'[k] \in Nat
        BY <1>1, EndpointTypes DEF EndpointInv
    <2>2. CASE k[1] = loop.cursor /\ Coming(k)
        <3>1. \/ Coming(k)' /\ replied'[k] = replied[k]
              \/ ~Coming(k)' /\ replied'[k] = replied[k] + 1
            BY <2>2
        <3>2. replied[k] <= 0 \/ (Again /\ replied[k] <= 1)
            BY <2>1, <2>2 DEF KeyCounted
        <3>3. k[1] = loop'.cursor /\ loop.cursor \in Nat
            BY <1>1, <2>2, EndpointTypes DEF LoopRows
        <3> QED BY <1>5, <2>1, <3>1, <3>2, <3>3 DEF KeyCounted
    <2>3. CASE k[1] = loop.cursor /\ ~Coming(k)
        <3>1. ~Coming(k)' /\ replied'[k] = replied[k]
            BY <2>3
        <3>2. k[1] = loop'.cursor /\ loop.cursor \in Nat
            BY <1>1, <2>3, EndpointTypes DEF LoopRows
        <3> QED BY <1>5, <2>1, <2>3, <3>1, <3>2 DEF KeyCounted
    <2>4. CASE k[1] # loop.cursor
        <3>1. replied'[k] = replied[k] /\ loop'.cursor = loop.cursor
            BY <2>4
        <3> QED BY <2>1, <2>4, <3>1 DEF KeyCounted
    <2> QED BY <2>2, <2>3, <2>4
<1>7. BudgetKept'
    <2>1. /\ loop.left \in Nat /\ thread.left \in Nat /\ asked \in Nat /\ budget \in Nat
          /\ kind' = kind /\ loop' = loop /\ budget' = budget
        BY <1>1, EndpointTypes DEF LoopRows, ThreadRows
    <2>2. kind.limited => asked + loop.left >= budget /\ asked + thread.left >= budget
        BY DEF EndpointInv, BudgetKept
    <2>3. kind.limited => asked' + loop.left >= budget /\ asked' + thread'.left >= budget
        BY <2>1, <2>2
    <2> QED BY <2>1, <2>3 DEF BudgetKept
<1>8. ASSUME Whole', NEW k \in ReplyKeys PROVE KeyThere(k)'
    <2>1. Whole
        BY <1>1, <1>8, EndpointTypes DEF Whole
    <2>2. KeyThere(k) /\ replied[k] \in Nat /\ replied'[k] \in Nat
        BY <1>1, <2>1, EndpointTypes DEF EndpointInv
    <2>3. CASE k[1] = loop.cursor /\ Coming(k)
        <3>1. \/ Coming(k)' /\ replied'[k] = replied[k]
              \/ ~Coming(k)' /\ replied'[k] = replied[k] + 1
            BY <2>3
        <3>2. ~(k[1] < loop'.cursor)
            BY <1>1, <2>3, EndpointTypes DEF LoopRows
        <3> QED BY <2>2, <3>1, <3>2 DEF KeyThere
    <2>4. CASE ~(k[1] = loop.cursor /\ Coming(k))
        <3>1. replied'[k] = replied[k] /\ loop'.cursor = loop.cursor
            BY <2>4
        <3> QED BY <2>2, <2>4, <3>1 DEF KeyThere
    <2> QED BY <2>3, <2>4
<1> QED BY <1>2, <1>3, <1>4, <1>6, <1>7, <1>8 DEF EndpointInv

\* A thread whose cursor stays has the same pages still to come.
LEMMA ReplyPageKeeps == EndpointInv /\ ReplyPage => EndpointInv'
<1> SUFFICES ASSUME EndpointInv, ReplyPage PROVE EndpointInv'
    OBVIOUS
<1> DEFINE c == thread.cursor + 1
<1> DEFINE over == ~More(c, ReplyPages)
<1>1. EndpointTypeOK
    BY DEF EndpointInv
<1>2. /\ loop.at = "thread" /\ ~thread.finished /\ thread.left > 0 /\ asked' = asked + 1
      /\ UNCHANGED <<kind, budget, hints, loop, listed>>
    BY DEF ReplyPage, Requested
<1>3. loop.shows = loop.cursor /\ loop.shows > 0 /\ loop.next <= Threads
    BY <1>2 DEF EndpointInv, LoopAgrees
<1>4. /\ thread.left \in Nat /\ thread.left - 1 \in Nat /\ thread.cursor \in 0..ReplyPages
      /\ loop.shows \in 1..Pages /\ loop.next \in 1..Threads
    BY <1>1, <1>2, <1>3, EndpointTypes DEF LoopRows, ThreadRows
<1>5. over \in BOOLEAN
    BY MoreBoolean
<1>6. over <=> ~(c < ReplyPages \/ hints)
    BY DEF More
<1>7. CASE /\ c <= ReplyPages
           /\ thread' = [left |-> thread.left - 1, cursor |-> c, finished |-> over]
           /\ replied' = [replied EXCEPT ![<<loop.shows, loop.next, c>>] = @ + 1]
           /\ UNCHANGED broken
    <2>1. c \in 1..ReplyPages
        BY SMTT(60), <1>1, <1>4, <1>7, EndpointTypes
    <2>2. PICK pair \in ReplyKeys : pair = <<loop.shows, loop.next, c>>
        BY <1>4, <2>1 DEF ReplyKeys
    <2> HIDE DEF over
    <2>3. /\ thread' \in ThreadRows /\ thread'.left = thread.left - 1 /\ thread'.cursor = c
          /\ thread'.finished = over
        BY <1>4, <1>5, <1>7, <2>1 DEF ThreadRows
    <2>4. thread'.finished /\ ~broken' => thread'.cursor = ReplyPages
        <3>1. over => c = ReplyPages
            BY <1>1, <1>4, <1>6, <1>7, EndpointTypes
        <3> HIDE DEF c
        <3> QED BY <2>3, <3>1
    <2>5. replied' \in [ReplyKeys -> Nat]
        BY <1>1, <1>7, <2>2, EndpointTypes
    <2>6. broken' \in BOOLEAN /\ (broken => broken')
        BY <1>1, <1>7, EndpointTypes
    <2>7. ASSUME NEW k \in ReplyKeys, k # pair
          PROVE  /\ replied'[k] = replied[k]
                 /\ k[1] = loop.cursor => (Coming(k)' <=> Coming(k))
        <3>1. replied'[k] = replied[k]
            BY <1>1, <1>7, <2>2, <2>7, EndpointTypes
        <3>2. /\ k[1] \in 1..Pages /\ k[2] \in 1..Threads /\ k[3] \in 1..ReplyPages
              /\ k = <<k[1], k[2], k[3]>>
            BY KeyParts
        <3>3. ~(k[1] = loop.shows /\ k[2] = loop.next /\ k[3] = c)
            BY <2>2, <2>7, <3>2
        <3>4. ASSUME k[1] = loop.cursor, k[2] = loop.next
              PROVE  k[3] > thread'.cursor <=> k[3] > thread.cursor
            BY <1>3, <1>4, <2>3, <3>2, <3>3, <3>4
        <3>5. k[1] = loop.cursor => (Coming(k)' <=> Coming(k))
            BY <1>2, <3>4 DEF Coming, Replying
        <3> QED BY <3>1, <3>5
    <2>8. Coming(pair) /\ ~Coming(pair)' /\ replied'[pair] = replied[pair] + 1 /\ pair[1] = loop.cursor
        <3>1. pair[1] = loop.cursor /\ pair[2] = loop.next /\ pair[3] = c
            BY <1>3, <2>2
        <3>2. replied'[pair] = replied[pair] + 1
            BY <1>1, <1>7, <2>2, EndpointTypes
        <3>3. c > thread.cursor /\ ~(c > thread'.cursor) /\ ~(loop.next > loop.next)
            BY <1>4, <2>3
        <3> HIDE DEF c
        <3> QED BY <1>2, <3>1, <3>2, <3>3 DEF Coming, Replying
    <2> HIDE DEF c
    <2>9. \A k \in ReplyKeys : k[1] = loop.cursor /\ Coming(k) =>
               \/ Coming(k)' /\ replied'[k] = replied[k]
               \/ ~Coming(k)' /\ replied'[k] = replied[k] + 1
        BY <2>7, <2>8
    <2>10. \A k \in ReplyKeys : k[1] # loop.cursor \/ ~Coming(k) =>
               (k[1] = loop.cursor => ~Coming(k)') /\ replied'[k] = replied[k]
        BY <2>7, <2>8
    <2> QED BY <1>2, <2>3, <2>4, <2>5, <2>6, <2>9, <2>10, ReplyAskedKeeps
<1>8. CASE /\ thread' = [thread EXCEPT !.left = @ - 1, !.finished = TRUE]
           /\ UNCHANGED replied
           /\ (c > ReplyPages /\ UNCHANGED broken) \/ broken' = TRUE
    <2>1. /\ thread' \in ThreadRows /\ thread'.left = thread.left - 1
          /\ thread'.cursor = thread.cursor /\ thread'.finished
        BY <1>1, <1>4, <1>8, EndpointTypes DEF ThreadRows
    <2>2. broken' \in BOOLEAN /\ (broken => broken')
        <3>1. broken \in BOOLEAN
            BY <1>1, EndpointTypes
        <3>2. broken' = broken \/ broken' = TRUE
            BY <1>8
        <3> QED BY <3>1, <3>2, Zenon
    <2>3. ~broken' => thread'.cursor = ReplyPages
        BY <1>1, <1>4, <1>8, <2>1, EndpointTypes
    <2>4. \A k \in ReplyKeys : Coming(k)' <=> Coming(k)
        BY <1>2, <2>1 DEF Coming, Replying
    <2>5. replied' \in [ReplyKeys -> Nat] /\ replied' = replied
        BY <1>1, <1>8, EndpointTypes
    <2> QED BY <1>2, <2>1, <2>2, <2>3, <2>4, <2>5, ReplyAskedKeeps
<1> QED BY <1>7, <1>8 DEF ReplyPage

LEMMA ThreadEndsKeeps == EndpointInv /\ ThreadEnds => EndpointInv'
<1> SUFFICES ASSUME EndpointInv, ThreadEnds PROVE EndpointInv'
    OBVIOUS
<1>1. EndpointTypeOK
    BY DEF EndpointInv
<1>2. /\ loop.at = "thread" /\ (thread.finished \/ thread.left = 0) /\ thread' = NoThread
      /\ UNCHANGED <<kind, budget, hints, listed, replied, asked, broken>>
    BY DEF ThreadEnds
<1>3. /\ loop.shows = loop.cursor /\ loop.next <= Threads /\ kind.replies
      /\ thread.finished /\ ~broken => thread.cursor = ReplyPages
    BY <1>2 DEF EndpointInv, LoopAgrees, Replying
<1>4. /\ thread.left \in Nat /\ loop.next \in Nat /\ loop.next + 1 \in 1..(Threads + 1)
      /\ thread.cursor \in Nat
    BY <1>1, <1>3, EndpointTypes DEF LoopRows, ThreadRows
<1>5. thread' \in ThreadRows /\ thread'.finished = FALSE /\ thread'.cursor = 0
    BY <1>1, <1>2, EndpointTypes DEF NoThread, ThreadRows
<1>6. CASE thread.left > 1
    <2>1. loop' = [loop EXCEPT !.left = thread.left, !.at = "replies", !.next = loop.next + 1]
        BY <1>1, <1>6, EndpointTypes DEF ThreadEnds, LoopRows
    <2>2. /\ loop' \in LoopRows /\ loop'.left = thread.left /\ loop'.next = loop.next + 1
          /\ loop'.cursor = loop.cursor /\ loop'.shows = loop.shows
          /\ loop'.finished = loop.finished /\ loop'.at = "replies"
        BY <1>1, <1>4, <2>1, EndpointTypes DEF LoopRows
    <2>3. EndpointTypeOK'
        BY <1>1, <1>2, <1>5, <2>2, EndpointTypes, EndpointTypesKeep
    <2>4. LoopAgrees'
        BY <1>2, <1>3, <1>5, <2>2 DEF EndpointInv, LoopAgrees, Replying
    <2>5. PagesCounted'
        BY <1>2, <2>2 DEF EndpointInv, PagesCounted
    <2>6. ASSUME NEW k \in ReplyKeys
          PROVE  /\ Coming(k)' => Coming(k)
                 /\ ~broken /\ Coming(k) => Coming(k)'
        <3>1. k[2] \in Nat /\ k[3] \in 1..ReplyPages
            BY <1>1, EndpointTypes, KeyParts
        <3>2. Coming(k)' <=> k[2] > loop.next
            BY <1>4, <1>5, <2>2, <3>1 DEF Coming, Replying
        <3>3. Coming(k) <=> k[2] > loop.next \/ (k[2] = loop.next /\ k[3] > thread.cursor)
            BY <1>2 DEF Coming, Replying
        <3>4. ~broken => thread.cursor = ReplyPages
            BY <1>2, <1>3, <1>6
        <3>5. ~broken => ~(k[3] > thread.cursor)
            BY <1>1, <3>1, <3>4, EndpointTypes
        <3> QED BY <3>2, <3>3, <3>5
    <2>7. Again' <=> Again
        BY <1>2, <2>2 DEF Again
    <2>8. ASSUME NEW k \in ReplyKeys PROVE KeyCounted(k)'
        <3>1. KeyCounted(k) /\ replied[k] \in Nat
            BY <1>1, EndpointTypes DEF EndpointInv
        <3>2. Coming(k)' => Coming(k)
            BY <2>6
        <3> QED BY <1>2, <2>2, <2>7, <3>1, <3>2 DEF KeyCounted
    <2>9. BudgetKept'
        BY <1>2, <2>2 DEF EndpointInv, BudgetKept
    <2>10. ASSUME Whole', NEW k \in ReplyKeys PROVE KeyThere(k)'
        <3>1. Whole /\ ~broken
            BY <1>2, <2>10 DEF Whole
        <3>2. KeyThere(k)
            BY <3>1 DEF EndpointInv
        <3>3. Coming(k) <=> Coming(k)'
            BY <2>6, <3>1
        <3> QED BY <1>2, <2>2, <3>2, <3>3 DEF KeyThere
    <2> QED BY <2>3, <2>4, <2>5, <2>8, <2>9, <2>10 DEF EndpointInv
<1>7. CASE ~(thread.left > 1)
    <2>1. loop' = NextPage(loop)
        BY <1>7 DEF ThreadEnds
    <2>2. ~Whole
        <3>1. kind.limited /\ asked \in Nat /\ budget \in Nat
            BY <1>1, <1>3, EndpointTypes
        <3>2. asked + thread.left >= budget
            BY <1>2, <3>1 DEF EndpointInv, BudgetKept
        <3>3. ~(asked + 1 < budget)
            BY <1>4, <1>7, <3>1, <3>2
        <3> QED BY <3>3 DEF Whole
    <2> QED BY <1>2, <2>1, <2>2, RoundOverKeeps DEF Replying
<1> QED BY <1>6, <1>7

LEMMA EndpointKeeps == EndpointInv /\ [EndpointNext]_endpointVars => EndpointInv'
<1> SUFFICES ASSUME EndpointInv, [EndpointNext]_endpointVars PROVE EndpointInv'
    OBVIOUS
<1>1. CASE UNCHANGED endpointVars
    <2>1. UNCHANGED <<kind, budget, hints, loop, thread, listed, replied, asked, broken>>
        BY <1>1 DEF endpointVars
    <2> QED BY <2>1 DEF EndpointInv, EndpointTypeOK, LoopAgrees, Replying, PagesCounted, KeyCounted,
               Coming, Again, BudgetKept, Whole, KeyThere
<1> QED BY <1>1, LookupKeeps, PageListedKeeps, PageEmptyKeeps, PageFailsKeeps, ThreadBeginsKeeps,
           ReplyPageKeeps, ThreadEndsKeeps DEF EndpointNext

\* An endpoint's loop, its Reply and its counts keep their types, for every
\* number of pages, threads and pages of replies.
THEOREM EndpointTypeCorrect == EndpointSpec => []EndpointTypeOK
<1>1. EndpointInv => EndpointTypeOK
    BY DEF EndpointInv
<1> QED BY <1>1, EndpointBegins, EndpointKeeps, PTL DEF EndpointSpec

\* A listing has neither gap nor double, the replies neither but for the round
\* after an empty or failed page, and what ends without a failure and with
\* requests left is complete (interface/template.py, comment.py).
THEOREM ListingsStayWhole == EndpointSpec => []ListingsWhole
<1>1. EndpointInv => ListingsWhole
    <2> SUFFICES ASSUME EndpointInv PROVE ListingsWhole
        OBVIOUS
    <2>1. EndpointTypeOK /\ PagesCounted
        BY DEF EndpointInv
    <2>2. ASSUME NEW k \in ReplyKeys
          PROVE  replied[k] <= IF k[1] = loop.cursor /\ loop.finished /\ (broken \/ hints)
                               THEN 2 ELSE 1
        <3>1. KeyCounted(k) /\ replied[k] \in Nat
            BY <2>1, EndpointTypes DEF EndpointInv
        <3>2. k[1] \in Nat /\ loop.cursor \in Nat
            BY <2>1, EndpointTypes, KeyParts DEF LoopRows
        <3>3. Again => loop.finished /\ (broken \/ hints)
            BY DEF Again
        <3> QED BY <3>1, <3>2, <3>3 DEF KeyCounted
    <2>3. ASSUME loop.at = "done", ~broken, ~Exhausted
          PROVE  /\ loop.cursor = Pages
                 /\ kind.replies => \A k \in ReplyKeys : replied[k] >= 1
        <3>1. ~(loop.left <= 1) /\ (kind.limited => ~(asked + 1 >= budget))
            BY <2>3 DEF Exhausted
        <3>2. loop.cursor = Pages
            BY <2>3, <3>1 DEF EndpointInv, LoopAgrees
        <3>3. ASSUME kind.replies, NEW k \in ReplyKeys PROVE replied[k] >= 1
            <4>1. Whole
                BY <2>1, <2>3, <3>1, <3>3, EndpointTypes DEF Whole
            <4>2. KeyThere(k)
                BY <4>1 DEF EndpointInv
            <4>3. k[1] \in 1..Pages
                BY KeyParts
            <4>4. k[1] < loop.cursor \/ k[1] = loop.cursor
                BY <2>1, <3>2, <4>3, EndpointTypes
            <4>5. ~Coming(k)
                BY <2>3 DEF Coming, Replying
            <4> QED BY <4>2, <4>4, <4>5 DEF KeyThere
        <3> QED BY <3>2, <3>3
    <2> QED BY <2>1, <2>2, <2>3 DEF ListingsWhole, PagesCounted
<1> QED BY <1>1, EndpointBegins, EndpointKeeps, PTL DEF EndpointSpec

-----------------------------------------------------------------------------
(* CollectionAudit *)

\* No work comes twice, save for works that cannot be recognised.
Once(s) == \A p, r \in DOMAIN s : p # r /\ s[p] = s[r] => s[p] \in nameless

\* The last work collected is the first of the shelf; while nothing was taken
\* out, every work collected is on it.
ShelfOrder ==
    /\ \A p, r \in DOMAIN shelf : p < r => shelf[r] < shelf[p]
    /\ \A p \in DOMAIN shelf : shelf[p] <= collected
    /\ ~taken => Len(shelf) = collected /\ \A p \in DOMAIN shelf : shelf[p] = collected + 1 - p

\* What was fetched so far: of the works that were there when the walk began,
\* all that the cursor has passed.
WorksFetched ==
    /\ Len(items) <= ask.limit
    /\ IF transport = "direct" THEN Once(items)
       ELSE \A p, r \in DOMAIN items : items[p] = items[r] => p = r
    /\ step \in {"direct", "browser"} => transport = "direct"
    /\ \A w \in FirstShelf : w <= collected
    /\ (step = "direct" /\ ~taken /\ Len(items) < ask.limit) =>
           \A w \in FirstShelf : w + cursor > collected => w \in ToSet(items)
    /\ (step \in {"fetched", "reported", "aligned"} /\ ~taken /\ ~cutShort
            /\ Len(items) < ask.limit) =>
           FirstShelf \subseteq ToSet(items)

ReportRows == [status : Statuses, works : Nat]
ReportMade ==
    step \in {"reported", "aligned"} =>
        /\ \E known \in SUBSET Authors : report \in [known -> ReportRows]
        /\ ~edited => \A a \in DOMAIN report : report[a].status = "active" <=> a \in RowKeys

AlignmentIs ==
    [rows |-> [k \in DOMAIN report \cup RowKeys |->
                  IF k \notin DOMAIN report THEN "configured_only"
                  ELSE IF k \in RowKeys THEN "both" ELSE "dk_only"],
     previouslyDeleted |-> Cardinality(DOMAIN report \cap deleted),
     invalid |-> Cardinality({p \in DOMAIN active : active[p] = NoAuthor}),
     duplicates |-> Cardinality({p \in DOMAIN active : active[p] # NoAuthor})
                        - Cardinality(RowKeys)]

AuditInv ==
    /\ AuditTypeOK /\ ShelfOrder /\ WorksFetched /\ ReportMade
    /\ step = "aligned" => alignment = AlignmentIs

LEMMA AuditConstants ==
    /\ NoAuthor \notin Authors /\ MaxWorks \in Nat \ {0} /\ MaxRows \in Nat
    /\ Work = 1..MaxWorks
BY AuditAssumption DEF Work

\* One work of a page joins.
LEMMA WorkJoins ==
    ASSUME NEW g \in Seq(Work), NEW w \in Work, ask.limit \in Nat, Len(g) <= ask.limit, Once(g)
    PROVE  /\ Joined(g, w) \in Seq(Work) /\ Len(Joined(g, w)) <= ask.limit /\ Once(Joined(g, w))
           /\ ToSet(g) \subseteq ToSet(Joined(g, w))
           /\ Len(g) <= Len(Joined(g, w))
           /\ Len(Joined(g, w)) < ask.limit => w \in ToSet(Joined(g, w))
<1>1. Len(g) \in Nat /\ DOMAIN g = 1..Len(g)
    OBVIOUS
<1>2. CASE Len(g) >= ask.limit \/ Seen(g, w)
    <2>1. Joined(g, w) = g
        BY <1>2 DEF Joined
    <2>2. Len(g) < ask.limit => w \in ToSet(g)
        BY <1>1, <1>2 DEF Seen
    <2> QED BY <2>1, <2>2
<1>3. CASE ~(Len(g) >= ask.limit \/ Seen(g, w))
    <2>1. Joined(g, w) = Append(g, w)
        BY <1>3 DEF Joined
    <2> DEFINE h == Append(g, w)
    <2>2. /\ h \in Seq(Work) /\ Len(h) = Len(g) + 1 /\ DOMAIN h = 1..(Len(g) + 1)
          /\ \A n \in 1..Len(g) : h[n] = g[n]
          /\ h[Len(g) + 1] = w
        BY <1>1
    <2> HIDE DEF h
    <2>3. ASSUME NEW p \in DOMAIN h, NEW r \in DOMAIN h, p # r, h[p] = h[r] PROVE h[p] \in nameless
        <3>1. CASE p \in 1..Len(g) /\ r \in 1..Len(g)
            BY <1>1, <2>2, <2>3, <3>1 DEF Once
        <3>2. CASE p = Len(g) + 1 \/ r = Len(g) + 1
            <4>1. PICK q \in 1..Len(g) : g[q] = w
                BY <1>1, <2>2, <2>3, <3>2
            <4>2. w \in ToSet(g)
                BY <1>1, <4>1 DEF ToSet
            <4>3. w \in nameless
                BY <1>3, <4>2 DEF Seen
            <4>4. h[p] = w
                BY <2>2, <2>3, <3>2
            <4> QED BY <4>3, <4>4
        <3> QED BY <1>1, <2>2, <3>1, <3>2
    <2>4. Once(h)
        BY <2>3 DEF Once
    <2>5. ToSet(g) \subseteq ToSet(h) /\ w \in ToSet(h)
        BY <1>1, <2>2 DEF ToSet
    <2> QED BY <1>1, <1>3, <2>1, <2>2, <2>4, <2>5 DEF h
<1> QED BY <1>2, <1>3

\* A whole page joins: no work is left out as long as there is room.
LEMMA PageJoins ==
    ASSUME NEW g \in Seq(Work), NEW page \in Seq(Work), ask.limit \in Nat,
           Len(g) <= ask.limit, Once(g)
    PROVE  /\ WithPage(g, page) \in Seq(Work) /\ Len(WithPage(g, page)) <= ask.limit
           /\ Once(WithPage(g, page))
           /\ ToSet(g) \subseteq ToSet(WithPage(g, page)) /\ Len(g) <= Len(WithPage(g, page))
           /\ Len(WithPage(g, page)) < ask.limit =>
                  \A p \in DOMAIN page : page[p] \in ToSet(WithPage(g, page))
<1>1. \A x \in Seq(Work), w \in Work : Joined(x, w) \in Seq(Work)
    BY DEF Joined
<1>2. PICK h : /\ h[0] = g /\ h[Len(page)] = WithPage(g, page)
               /\ \A n \in 0..Len(page) : h[n] \in Seq(Work)
               /\ \A n \in 1..Len(page) : h[n] = Joined(h[n - 1], page[n])
    <2>1. \E h : PageChain(h, g, page, Work)
        BY <1>1, PageSteps
    <2> QED BY <2>1 DEF PageChain
<1> DEFINE After(x, n) ==
        /\ x \in Seq(Work) /\ Len(x) <= ask.limit /\ Once(x)
        /\ ToSet(g) \subseteq ToSet(x) /\ Len(g) <= Len(x)
        /\ Len(x) < ask.limit => \A p \in 1..n : page[p] \in ToSet(x)
<1> DEFINE T == {n \in Nat : After(h[n], n)}
<1>3. Len(page) \in Nat /\ DOMAIN page = 1..Len(page)
    OBVIOUS
<1>4. 0 \in T
    <2>1. Len(g) \in Nat /\ Len(g) <= Len(g)
        OBVIOUS
    <2>2. After(g, 0)
        BY <2>1
    <2> QED BY <1>2, <2>2
<1>5. ASSUME NEW n \in 1..Len(page), n - 1 \in T PROVE n \in T
    <2>1. /\ n \in Nat /\ page[n] \in Work /\ h[n] = Joined(h[n - 1], page[n])
          /\ After(h[n - 1], n - 1)
        BY <1>2, <1>3, <1>5
    <2> DEFINE x == h[n - 1]
    <2>2. /\ h[n] \in Seq(Work) /\ Len(h[n]) <= ask.limit /\ Once(h[n])
          /\ ToSet(x) \subseteq ToSet(h[n]) /\ Len(x) <= Len(h[n])
          /\ Len(h[n]) < ask.limit => page[n] \in ToSet(h[n])
        BY <2>1, WorkJoins
    <2>3. /\ x \in Seq(Work) /\ ToSet(g) \subseteq ToSet(x) /\ Len(g) <= Len(x)
          /\ Len(x) < ask.limit => \A p \in 1..(n - 1) : page[p] \in ToSet(x)
        BY <2>1
    <2> HIDE DEF x
    <2>4. ToSet(g) \subseteq ToSet(h[n]) /\ Len(g) <= Len(h[n])
        <3>1. Len(g) \in Nat /\ Len(x) \in Nat /\ Len(h[n]) \in Nat
            BY <2>2, <2>3
        <3> QED BY <2>2, <2>3, <3>1
    <2>5. ASSUME Len(h[n]) < ask.limit, NEW p \in 1..n PROVE page[p] \in ToSet(h[n])
        <3>1. Len(x) \in Nat /\ Len(h[n]) \in Nat
            BY <2>2, <2>3
        <3>2. Len(x) < ask.limit
            BY <2>2, <2>5, <3>1
        <3>3. p = n \/ p \in 1..(n - 1)
            BY <2>1
        <3> QED BY <2>2, <2>3, <2>5, <3>2, <3>3
    <2> QED BY <2>1, <2>2, <2>4, <2>5
<1>6. \A n \in 0..Len(page) : n \in T
    <2> HIDE DEF T
    <2> QED BY <1>3, <1>4, <1>5, CountUp
<1>7. After(h[Len(page)], Len(page))
    BY <1>3, <1>6
<1> QED BY <1>2, <1>3, <1>7

LEMMA AuditTypes ==
    ASSUME AuditTypeOK
    PROVE  /\ ask.limit \in Nat \ {0} /\ ask.size \in Nat \ {0}
           /\ shelf \in Seq(Work) /\ items \in Seq(Work) /\ active \in Seq(Authors \cup {NoAuthor})
           /\ collected \in Nat /\ collected <= MaxWorks /\ MaxWorks \in Nat /\ cursor \in Nat
           /\ Len(shelf) \in Nat /\ DOMAIN shelf = 1..Len(shelf) /\ Len(items) \in Nat
           /\ \A p \in DOMAIN shelf : shelf[p] \in Nat
BY AuditConstants DEF AuditTypeOK

LEMMA AuditBegins == AuditInit => AuditInv
<1> SUFFICES ASSUME AuditInit PROVE AuditInv
    OBVIOUS
<1>1. /\ author \in [Work -> Authors \cup {NoAuthor}] /\ nameless \in {{}, {1}}
      /\ collected = MaxWorks - 1
      /\ shelf = [p \in 1..collected |-> MaxWorks - p] /\ taken = FALSE
      /\ ask \in [limit : 2..MaxWorks, size : 1..2, browser : BOOLEAN]
      /\ active = <<>> /\ deleted = {} /\ step \in {"browser", "direct"}
      /\ items = <<>> /\ cursor = 0 /\ pageIndex = 0 /\ transport = "direct"
      /\ cutShort = FALSE
      /\ report = NoReport /\ edited = FALSE /\ alignment = NoReport
    BY DEF AuditInit
<1>2. collected \in Nat /\ collected = MaxWorks - 1 /\ collected <= MaxWorks /\ MaxWorks \in Nat \ {0}
    BY <1>1, AuditConstants
<1>3. /\ Len(shelf) = collected /\ DOMAIN shelf = 1..collected
      /\ \A p \in 1..collected : shelf[p] = MaxWorks - p /\ shelf[p] \in Work
      /\ shelf \in Seq(Work)
    <2>1. \A p \in 1..collected : MaxWorks - p \in Work
        BY <1>2, AuditConstants
    <2>2. shelf \in [1..collected -> Work]
        BY <1>1, <2>1
    <2>3. shelf \in Seq(Work) /\ Len(shelf) = collected
        BY <1>2, <2>2
    <2> QED BY <1>1, <2>1, <2>2, <2>3
<1>4. ask \in [limit : Nat \ {0}, size : Nat \ {0}, browser : BOOLEAN]
    BY <1>1, <1>2
<1>5. AuditTypeOK
    <2>1. nameless \subseteq Work
        BY <1>1, <1>2, AuditConstants
    <2>2. collected \in 0..MaxWorks /\ active \in Seq(Authors \cup {NoAuthor}) /\ items \in Seq(Work)
        BY <1>1, <1>2
    <2> QED BY <1>1, <1>3, <1>4, <2>1, <2>2 DEF AuditTypeOK
<1>6. ShelfOrder
    BY <1>1, <1>2, <1>3 DEF ShelfOrder
<1>7. WorksFetched
    <2>1. Len(items) = 0 /\ DOMAIN items = {} /\ ask.limit \in Nat
        BY <1>1, <1>4
    <2>2. Once(items)
        BY <2>1 DEF Once
    <2>3. \A w \in FirstShelf : w <= collected /\ ~(w + cursor > collected)
        BY <1>1, <1>2 DEF FirstShelf
    <2> QED BY <1>1, <2>1, <2>2, <2>3 DEF WorksFetched
<1>8. ReportMade /\ step # "aligned"
    BY <1>1 DEF ReportMade
<1> QED BY <1>5, <1>6, <1>7, <1>8 DEF AuditInv

LEMMA CollectsKeeps == AuditInv /\ CollectsWork => AuditInv'
<1> SUFFICES ASSUME AuditInv, CollectsWork PROVE AuditInv'
    OBVIOUS
<1>1. AuditTypeOK /\ ShelfOrder /\ WorksFetched
    BY DEF AuditInv
<1>2. /\ step = "direct" /\ collected < MaxWorks /\ collected' = collected + 1
      /\ shelf' = <<collected + 1>> \o shelf
      /\ UNCHANGED <<author, nameless, taken, ask, active, deleted, step, items, cursor, pageIndex,
                     transport, cutShort, report, edited, alignment>>
    BY DEF CollectsWork, Walking, walk
<1>3. /\ shelf \in Seq(Work) /\ Len(shelf) \in Nat /\ DOMAIN shelf = 1..Len(shelf)
      /\ collected \in Nat /\ MaxWorks \in Nat /\ Work = 1..MaxWorks
      /\ \A p \in 1..Len(shelf) : shelf[p] \in Nat
    BY <1>1, AuditTypes, AuditConstants
<1>4. <<collected + 1>> \in Seq(Work) /\ Len(<<collected + 1>>) = 1 /\ <<collected + 1>>[1] = collected + 1
    BY <1>2, <1>3
<1>5. /\ shelf' \in Seq(Work) /\ Len(shelf') = 1 + Len(shelf)
      /\ \A n \in 1..(1 + Len(shelf)) :
             shelf'[n] = IF n <= 1 THEN <<collected + 1>>[n] ELSE shelf[n - 1]
    BY <1>2, <1>3, <1>4, ConcatProperties
<1>6. /\ DOMAIN shelf' = 1..(1 + Len(shelf)) /\ shelf'[1] = collected + 1
      /\ \A n \in 2..(1 + Len(shelf)) : shelf'[n] = shelf[n - 1] /\ n - 1 \in 1..Len(shelf)
    BY <1>3, <1>4, <1>5
<1>7. AuditTypeOK'
    <2>1. collected' \in 0..MaxWorks
        BY <1>2, <1>3
    <2> QED BY <1>1, <1>2, <1>5, <2>1 DEF AuditTypeOK
<1>8. ShelfOrder'
    <2>1. ASSUME NEW p \in 1..(1 + Len(shelf)), NEW r \in 1..(1 + Len(shelf)), p < r
          PROVE  shelf'[r] < shelf'[p]
        <3>1. r \in 2..(1 + Len(shelf)) /\ shelf[r - 1] <= collected
            <4>1. r \in 2..(1 + Len(shelf))
                BY <1>3, <2>1
            <4>2. r - 1 \in DOMAIN shelf
                BY <1>3, <1>6, <4>1
            <4> QED BY <1>1, <4>1, <4>2 DEF ShelfOrder
        <3>2. CASE p = 1
            BY <1>3, <1>6, <3>1, <3>2
        <3>3. CASE p # 1
            <4>1. p - 1 < r - 1 /\ p \in 2..(1 + Len(shelf))
                BY <1>3, <2>1, <3>3
            <4>2. shelf[r - 1] < shelf[p - 1]
                BY <1>1, <1>3, <1>6, <3>1, <4>1 DEF ShelfOrder
            <4> QED BY <1>6, <3>1, <4>1, <4>2
        <3> QED BY <3>2, <3>3
    <2>2. ASSUME NEW p \in 1..(1 + Len(shelf)) PROVE shelf'[p] <= collected'
        <3>1. CASE p = 1
            BY <1>2, <1>3, <1>6, <3>1
        <3>2. CASE p # 1
            <4>1. p \in 2..(1 + Len(shelf))
                BY <1>3, <3>2
            <4>2. shelf[p - 1] <= collected /\ shelf[p - 1] \in Nat
                BY <1>1, <1>3, <1>6, <4>1 DEF ShelfOrder
            <4> QED BY <1>2, <1>3, <1>6, <4>1, <4>2
        <3> QED BY <3>1, <3>2
    <2>3. ASSUME ~taken, NEW p \in 1..(1 + Len(shelf)) PROVE shelf'[p] = collected' + 1 - p
        <3>1. CASE p = 1
            BY <1>2, <1>3, <1>6, <3>1
        <3>2. CASE p # 1
            <4>1. p \in 2..(1 + Len(shelf))
                BY <1>3, <3>2
            <4>2. shelf[p - 1] = collected + 1 - (p - 1)
                BY <1>1, <1>3, <1>6, <2>3, <4>1 DEF ShelfOrder
            <4> QED BY <1>2, <1>3, <1>6, <4>1, <4>2
        <3> QED BY <3>1, <3>2
    <2>4. ~taken => Len(shelf') = collected'
        BY <1>1, <1>2, <1>3, <1>5 DEF ShelfOrder
    <2> QED BY <1>2, <1>6, <2>1, <2>2, <2>3, <2>4 DEF ShelfOrder
<1>9. WorksFetched'
    <2>1. \A w \in FirstShelf : w \in Nat
        BY <1>3 DEF FirstShelf
    <2>2. \A w \in FirstShelf : w <= collected' /\ (w + cursor > collected' => w + cursor > collected)
        BY <1>1, <1>2, <1>3, <2>1, AuditTypes DEF WorksFetched
    <2> QED BY <1>1, <1>2, <2>2 DEF WorksFetched, Once
<1>10. ReportMade' /\ step' # "aligned"
    BY <1>2 DEF ReportMade
<1> QED BY <1>7, <1>8, <1>9, <1>10 DEF AuditInv

LEMMA TakesOutKeeps == AuditInv /\ TakesOut => AuditInv'
<1> SUFFICES ASSUME AuditInv, TakesOut PROVE AuditInv'
    OBVIOUS
<1>1. AuditTypeOK /\ ShelfOrder /\ WorksFetched
    BY DEF AuditInv
<1>2. PICK q \in DOMAIN shelf : shelf' = RemoveAt(shelf, q)
    BY DEF TakesOut
<1>3. /\ step = "direct" /\ taken' = TRUE
      /\ UNCHANGED <<author, nameless, collected, ask, active, deleted, step, items, cursor,
                     pageIndex, transport, cutShort, report, edited, alignment>>
    BY DEF TakesOut, Walking, walk
<1>4. /\ shelf \in Seq(Work) /\ Len(shelf) \in Nat /\ DOMAIN shelf = 1..Len(shelf)
      /\ q \in 1..Len(shelf) /\ \A p \in 1..Len(shelf) : shelf[p] \in Nat
    BY <1>1, AuditTypes
<1>5. /\ shelf' \in Seq(Work) /\ Len(shelf') = Len(shelf) - 1
      /\ \A n \in 1..(Len(shelf) - 1) : shelf'[n] = shelf[IF n < q THEN n ELSE n + 1]
    BY <1>2, <1>4, RemovedAt
<1>6. AuditTypeOK'
    BY <1>1, <1>3, <1>5 DEF AuditTypeOK
<1>7. ShelfOrder'
    <2> DEFINE was(n) == IF n < q THEN n ELSE n + 1
    <2>1. \A n \in 1..(Len(shelf) - 1) : was(n) \in 1..Len(shelf)
        BY <1>4
    <2>2. \A p, r \in 1..(Len(shelf) - 1) : p < r => was(p) < was(r)
        BY <1>4
    <2>3. \A n \in 1..(Len(shelf) - 1) : shelf'[n] = shelf[was(n)]
        BY <1>5
    <2> HIDE DEF was
    <2>4. DOMAIN shelf' = 1..(Len(shelf) - 1)
        BY <1>5
    <2>5. \A p, r \in 1..(Len(shelf) - 1) : p < r => shelf'[r] < shelf'[p]
        BY <1>1, <1>4, <2>1, <2>2, <2>3 DEF ShelfOrder
    <2>6. \A p \in 1..(Len(shelf) - 1) : shelf'[p] <= collected
        BY <1>1, <1>4, <2>1, <2>3 DEF ShelfOrder
    <2> QED BY <1>3, <2>4, <2>5, <2>6 DEF ShelfOrder
<1>8. WorksFetched'
    BY <1>1, <1>3 DEF WorksFetched, Once
<1>9. ReportMade' /\ step' # "aligned"
    BY <1>3 DEF ReportMade
<1> QED BY <1>6, <1>7, <1>8, <1>9 DEF AuditInv

LEMMA EditsKeeps == AuditInv /\ EditsAccounts => AuditInv'
<1> SUFFICES ASSUME AuditInv, EditsAccounts PROVE AuditInv'
    OBVIOUS
<1>1. AuditTypeOK /\ ShelfOrder /\ WorksFetched /\ ReportMade
    BY DEF AuditInv
<1>2. /\ step \in {"fetched", "reported"} /\ edited' = (step = "reported")
      /\ UNCHANGED <<author, nameless, shelf, collected, taken, ask, step, items, cursor, pageIndex,
                     transport, cutShort, report, alignment>>
    BY DEF EditsAccounts, world, walk
<1>3. active' \in Seq(Authors \cup {NoAuthor}) /\ deleted' \subseteq Authors
    <2>1. CASE /\ \E a \in Authors \cup {NoAuthor} : active' = Append(active, a)
               /\ UNCHANGED deleted
        <3>1. PICK a \in Authors \cup {NoAuthor} : active' = Append(active, a)
            BY <2>1
        <3>2. active' \in Seq(Authors \cup {NoAuthor})
            BY <1>1, <3>1, AuditTypes, AppendProperties
        <3> QED BY <1>1, <2>1, <3>2 DEF AuditTypeOK
    <2>2. CASE \E p \in DOMAIN active :
                   /\ active[p] # NoAuthor
                   /\ active' = RemoveAt(active, p) /\ deleted' = deleted \cup {active[p]}
        <3>1. PICK p \in DOMAIN active :
                   /\ active[p] # NoAuthor
                   /\ active' = RemoveAt(active, p) /\ deleted' = deleted \cup {active[p]}
            BY <2>2
        <3>2. active \in Seq(Authors \cup {NoAuthor}) /\ p \in 1..Len(active)
            BY <1>1, AuditTypes
        <3>3. active[p] \in Authors
            BY <3>1, <3>2
        <3>4. active' \in Seq(Authors \cup {NoAuthor})
            BY <3>1, <3>2, RemovedAt
        <3> QED BY <1>1, <3>1, <3>3, <3>4 DEF AuditTypeOK
    <2> QED BY <2>1, <2>2 DEF EditsAccounts
<1>4. edited' \in BOOLEAN /\ (step = "reported" => edited')
    BY <1>2, Zenon
<1>5. AuditTypeOK'
    BY <1>1, <1>2, <1>3, <1>4 DEF AuditTypeOK
<1>6. ShelfOrder'
    BY <1>1, <1>2 DEF ShelfOrder
<1>7. WorksFetched'
    BY <1>1, <1>2 DEF WorksFetched, Once
<1>8. ReportMade' /\ step' # "aligned"
    BY <1>1, <1>2, <1>4 DEF ReportMade
<1> QED BY <1>5, <1>6, <1>7, <1>8 DEF AuditInv

\* A slice holds what the sequence holds in between.
LEMMA SliceIs ==
    ASSUME NEW S, NEW s \in Seq(S), NEW a \in Nat, NEW b \in Nat, b <= Len(s)
    PROVE  /\ SubSeq(s, a + 1, b) \in Seq(S)
           /\ Len(SubSeq(s, a + 1, b)) = IF a + 1 <= b THEN b - a ELSE 0
           /\ \A n \in (a + 1)..b : \E p \in DOMAIN SubSeq(s, a + 1, b) : SubSeq(s, a + 1, b)[p] = s[n]
           /\ \A p \in 1..(b - a) : SubSeq(s, a + 1, b)[p] = s[a + p]
<1> DEFINE t == SubSeq(s, a + 1, b)
<1>1. /\ a + 1 \in Int /\ b \in Int /\ \A i \in (a + 1)..b : s[i] \in S
    OBVIOUS
<1>2. /\ t \in Seq(S) /\ Len(t) = IF a + 1 <= b THEN b - (a + 1) + 1 ELSE 0
      /\ \A i \in 1..(b - (a + 1) + 1) : t[i] = s[(a + 1) + i - 1]
    BY <1>1, SubSeqProperties
<1> HIDE DEF t
<1>3. DOMAIN t = 1..Len(t) /\ b - (a + 1) + 1 = b - a
    BY <1>2
<1>4. \A p \in 1..(b - a) : t[p] = s[a + p]
    <2>1. \A p \in 1..(b - a) : (a + 1) + p - 1 = a + p
        OBVIOUS
    <2> QED BY <1>2, <1>3, <2>1
<1>5. ASSUME NEW n \in (a + 1)..b PROVE \E p \in DOMAIN t : t[p] = s[n]
    <2>1. n - a \in 1..(b - a) /\ a + (n - a) = n /\ a + 1 <= b
        OBVIOUS
    <2>2. n - a \in DOMAIN t
        BY <1>2, <1>3, <2>1
    <2>3. t[n - a] = s[n]
        BY <1>4, <2>1
    <2> QED BY <2>2, <2>3
<1> QED BY <1>2, <1>3, <1>4, <1>5 DEF t

\* A page was read: nothing that was there before is lost by the cursor.
LEMMA PageComesKeeps == AuditInv /\ PageComes => AuditInv'
<1> SUFFICES ASSUME AuditInv, PageComes PROVE AuditInv'
    OBVIOUS
<1>1. AuditTypeOK /\ ShelfOrder /\ WorksFetched
    BY DEF AuditInv
<1> DEFINE upto == Smaller(cursor + ask.size, Len(shelf))
           page == SubSeq(shelf, cursor + 1, upto)
           ends == cursor + ask.size >= Len(shelf)
<1>2. /\ step = "direct"
      /\ UNCHANGED <<author, nameless, shelf, collected, taken, ask, active, deleted, transport,
                     report, edited, alignment>>
    BY DEF PageComes, world
<1>3. PICK next \in {cursor, cursor + ask.size}, closes \in BOOLEAN :
          /\ items' = WithPage(items, page)
          /\ step' = IF \/ Len(items') >= ask.limit \/ closes
                        \/ next = cursor \/ pageIndex + 1 >= PageBudget
                     THEN "fetched" ELSE "direct"
          /\ pageIndex' = IF step' = "direct" THEN pageIndex + 1 ELSE 0
          /\ cursor' = IF step' = "direct" THEN next ELSE 0
          /\ cutShort' = (step' = "fetched" /\ ~ends)
    BY DEF PageComes
<1>4. /\ ask.limit \in Nat /\ ask.size \in Nat \ {0} /\ shelf \in Seq(Work) /\ items \in Seq(Work)
      /\ cursor \in Nat /\ collected \in Nat /\ Len(shelf) \in Nat /\ DOMAIN shelf = 1..Len(shelf)
    BY <1>1, AuditTypes
<1>5. /\ Len(items) <= ask.limit /\ Once(items) /\ transport = "direct"
      /\ \A w \in FirstShelf : w <= collected
      /\ ~taken /\ Len(items) < ask.limit =>
             \A w \in FirstShelf : w + cursor > collected => w \in ToSet(items)
    BY <1>1, <1>2 DEF WorksFetched
<1>6. upto \in Nat /\ upto <= Len(shelf) /\ (upto = cursor + ask.size \/ (ends /\ upto = Len(shelf)))
    BY <1>4 DEF Smaller
<1> HIDE DEF upto, ends
<1>7. page \in Seq(Work) /\ \A n \in (cursor + 1)..upto : \E p \in DOMAIN page : page[p] = shelf[n]
    <2>1. upto \in Nat /\ upto <= Len(shelf) /\ cursor \in Nat /\ shelf \in Seq(Work)
        BY <1>4, <1>6
    <2> QED BY ZenonT(60), <2>1, SliceIs
<1> HIDE DEF page
<1>8. /\ items' \in Seq(Work) /\ Len(items') <= ask.limit /\ Once(items')
      /\ ToSet(items) \subseteq ToSet(items') /\ Len(items) <= Len(items')
      /\ Len(items') < ask.limit => \A p \in DOMAIN page : page[p] \in ToSet(items')
    <2>1. page \in Seq(Work) /\ items \in Seq(Work) /\ ask.limit \in Nat /\ items' = WithPage(items, page)
        BY <1>3, <1>4, <1>7
    <2> DEFINE r == WithPage(items, page)
    <2>2. /\ r \in Seq(Work) /\ Len(r) <= ask.limit /\ Once(r)
          /\ ToSet(items) \subseteq ToSet(r) /\ Len(items) <= Len(r)
          /\ Len(r) < ask.limit => \A p \in DOMAIN page : page[p] \in ToSet(r)
        BY <1>5, <2>1, PageJoins
    <2>3. items' = r
        BY <2>1
    <2> HIDE DEF r
    <2> QED BY <2>2, <2>3
<1>9. cursor' \in Nat /\ (step' = "direct" => cursor' = cursor + ask.size)
    BY <1>3, <1>4
<1>10. step' \in {"direct", "fetched"} /\ cutShort' = (step' = "fetched" /\ ~ends)
    BY <1>3
<1>11. AuditTypeOK'
    <2>1. pageIndex' \in Nat /\ cutShort' \in BOOLEAN
        BY <1>1, <1>3, <1>10 DEF AuditTypeOK
    <2> QED BY <1>1, <1>2, <1>8, <1>9, <1>10, <2>1 DEF AuditTypeOK
<1>12. ASSUME ~taken, Len(items') < ask.limit, NEW w \in FirstShelf, w + (cursor + ask.size) > collected \/ ends
       PROVE  w \in ToSet(items')
    <2>1. w \in Nat /\ w >= 1 /\ w <= collected
        BY <1>5 DEF FirstShelf
    <2>2. Len(items) < ask.limit
        BY <1>4, <1>8, <1>12
    <2>3. CASE w + cursor > collected
        BY <1>5, <1>8, <1>12, <2>2, <2>3
    <2>4. CASE ~(w + cursor > collected)
        <3>1. /\ Len(shelf) = collected
              /\ \A p \in 1..Len(shelf) : shelf[p] = collected + 1 - p
            BY <1>1, <1>4, <1>12 DEF ShelfOrder
        <3> DEFINE n == collected + 1 - w
        <3>2. n \in (cursor + 1)..Len(shelf) /\ collected + 1 - n = w
            BY <1>4, <2>1, <2>4, <3>1
        <3>3. n <= upto
            <4>1. CASE upto = cursor + ask.size /\ ~ends
                <5>1. w + (cursor + ask.size) > collected
                    BY <1>12, <4>1
                <5> QED BY <1>4, <2>1, <4>1, <5>1
            <4>2. CASE ends
                <5>1. upto = Len(shelf) \/ (upto = cursor + ask.size /\ cursor + ask.size >= Len(shelf))
                    BY <1>6, <4>2 DEF ends
                <5>2. upto \in Nat /\ Len(shelf) \in Nat
                    BY <1>4, <1>6
                <5>3. upto >= Len(shelf)
                    <6>1. CASE upto = Len(shelf)
                        BY <5>2, <6>1
                    <6>2. CASE upto = cursor + ask.size /\ cursor + ask.size >= Len(shelf)
                        BY <6>2
                    <6> QED BY <5>1, <6>1, <6>2
                <5>4. n \in Nat /\ n <= Len(shelf)
                    BY <1>4, <3>2
                <5> HIDE DEF n
                <5> QED BY <5>2, <5>3, <5>4
            <4> QED BY <1>6, <4>1, <4>2
        <3>4. n \in (cursor + 1)..upto /\ shelf[n] = w
            <4>1. n \in 1..Len(shelf)
                BY <1>4, <3>2
            <4> QED BY <1>4, <1>6, <3>1, <3>2, <3>3, <4>1
        <3> HIDE DEF n
        <3>5. PICK p \in DOMAIN page : page[p] = w
            BY <1>7, <3>4
        <3> QED BY <1>8, <1>12, <3>5
    <2> QED BY <2>3, <2>4
<1>13. WorksFetched'
    <2>1. Len(items') <= ask.limit' /\ Once(items)'
        BY <1>2, <1>8 DEF Once
    <2>2. \A w \in FirstShelf : w <= collected'
        BY <1>2, <1>5
    <2>3. ASSUME step' = "direct", ~taken, Len(items') < ask.limit, NEW w \in FirstShelf, w + cursor' > collected
          PROVE  w \in ToSet(items')
        BY <1>3, <1>9, <1>12, <2>3
    <2>4. ASSUME step' = "fetched", ~taken, ~cutShort', Len(items') < ask.limit, NEW w \in FirstShelf
          PROVE  w \in ToSet(items')
        <3>1. ends
            BY <1>10, <2>4
        <3> QED BY <1>12, <2>4, <3>1
    <2>5. transport' = "direct"
        BY <1>2, <1>5
    <2> QED BY <1>2, <1>10, <2>1, <2>2, <2>3, <2>4, <2>5 DEF WorksFetched
<1>14. ShelfOrder'
    BY <1>1, <1>2 DEF ShelfOrder
<1>15. ReportMade' /\ step' # "aligned"
    BY <1>10 DEF ReportMade
<1> QED BY <1>11, <1>13, <1>14, <1>15 DEF AuditInv

\* An answer closed the walk: at the last page, or the walk was cut short.
LEMMA PageLostKeeps == AuditInv /\ PageLost => AuditInv'
<1> SUFFICES ASSUME AuditInv, PageLost PROVE AuditInv'
    OBVIOUS
<1>1. AuditTypeOK /\ ShelfOrder /\ WorksFetched
    BY DEF AuditInv
<1>2. /\ step = "direct" /\ step' = "fetched" /\ pageIndex' = 0 /\ cursor' = 0
      /\ cutShort' = (cursor < Len(shelf))
      /\ UNCHANGED <<author, nameless, shelf, collected, taken, ask, active, deleted, items,
                     transport, report, edited, alignment>>
    BY DEF PageLost, world
<1>3. AuditTypeOK'
    <2>1. pageIndex' \in Nat /\ cursor' \in Nat /\ cutShort' \in BOOLEAN
        BY <1>1, <1>2 DEF AuditTypeOK
    <2> QED BY <1>1, <1>2, <2>1 DEF AuditTypeOK
<1>4. ShelfOrder'
    BY <1>1, <1>2 DEF ShelfOrder
<1>5. ASSUME ~taken, ~cutShort', Len(items) < ask.limit, NEW w \in FirstShelf
      PROVE  w \in ToSet(items)
    <2>1. Len(shelf) = collected /\ ~(cursor < Len(shelf))
        BY <1>1, <1>2, <1>5 DEF ShelfOrder
    <2>2. cursor \in Nat /\ collected \in Nat /\ w \in Nat /\ w >= 1
        BY <1>1, AuditTypes DEF FirstShelf
    <2>3. w + cursor > collected
        BY <2>1, <2>2
    <2> QED BY <1>1, <1>2, <1>5, <2>3 DEF WorksFetched
<1>6. WorksFetched'
    BY <1>1, <1>2, <1>5 DEF WorksFetched, Once
<1>7. ReportMade' /\ step' # "aligned"
    BY <1>2 DEF ReportMade
<1> QED BY <1>3, <1>4, <1>6, <1>7 DEF AuditInv

LEMMA DirectFailsKeeps == AuditInv /\ DirectFails => AuditInv'
<1> SUFFICES ASSUME AuditInv, DirectFails PROVE AuditInv'
    OBVIOUS
<1>1. AuditTypeOK /\ ShelfOrder /\ WorksFetched
    BY DEF AuditInv
<1>2. /\ step = "direct" /\ step' = "browser"
      /\ items' = <<>> /\ cursor' = 0 /\ pageIndex' = 0
      /\ UNCHANGED <<author, nameless, shelf, collected, taken, ask, active, deleted, transport,
                      cutShort, report, edited, alignment>>
    BY DEF DirectFails, world, walk
<1>3. AuditTypeOK'
    <2>1. items' \in Seq(Work) /\ cursor' \in Nat /\ pageIndex' \in Nat
        BY <1>2
    <2> QED BY <1>1, <1>2, <2>1 DEF AuditTypeOK
<1>4. ShelfOrder'
    BY <1>1, <1>2 DEF ShelfOrder
<1>5. WorksFetched'
    <2>1. Len(items') = 0 /\ DOMAIN items' = {} /\ ask.limit \in Nat
        BY <1>1, <1>2, AuditTypes
    <2>2. Once(items)'
        BY <2>1 DEF Once
    <2> QED BY <1>1, <1>2, <2>1, <2>2 DEF WorksFetched
<1>6. ReportMade' /\ step' # "aligned"
    BY <1>2 DEF ReportMade
<1> QED BY <1>3, <1>4, <1>5, <1>6 DEF AuditInv

LEMMA FailsKeeps == AuditInv /\ AuditFails => AuditInv'
<1> SUFFICES ASSUME AuditInv, AuditFails PROVE AuditInv'
    OBVIOUS
<1>1. AuditTypeOK /\ ShelfOrder /\ WorksFetched
    BY DEF AuditInv
<1>2. /\ step' = "failed"
      /\ UNCHANGED <<author, nameless, shelf, collected, taken, ask, active, deleted, items, cursor,
                     pageIndex, transport, cutShort, report, edited, alignment>>
    BY DEF AuditFails, world, walk
<1>3. AuditTypeOK'
    BY <1>1, <1>2 DEF AuditTypeOK
<1>4. ShelfOrder'
    BY <1>1, <1>2 DEF ShelfOrder
<1>5. WorksFetched'
    BY <1>1, <1>2 DEF WorksFetched, Once
<1>6. ReportMade' /\ step' # "aligned"
    BY <1>2 DEF ReportMade
<1> QED BY <1>3, <1>4, <1>5, <1>6 DEF AuditInv

\* The first works of a sequence.
LEMMA UptoIs ==
    ASSUME NEW S, NEW s \in Seq(S), NEW n \in Nat
    PROVE  /\ Upto(s, n) \in Seq(S) /\ Len(Upto(s, n)) <= n /\ Len(Upto(s, n)) <= Len(s)
           /\ \A p \in 1..Len(Upto(s, n)) : Upto(s, n)[p] = s[p]
<1> DEFINE b == Smaller(n, Len(s))
<1>1. b \in Nat /\ b <= n /\ b <= Len(s) /\ 0 \in Nat
    BY DEF Smaller
<1> HIDE DEF b
<1>2. /\ SubSeq(s, 0 + 1, b) \in Seq(S)
      /\ Len(SubSeq(s, 0 + 1, b)) = IF 0 + 1 <= b THEN b - 0 ELSE 0
      /\ \A p \in 1..(b - 0) : SubSeq(s, 0 + 1, b)[p] = s[0 + p]
    BY <1>1, SliceIs
<1>3. Upto(s, n) = SubSeq(s, 0 + 1, b)
    BY DEF Upto, b
<1>4. Len(Upto(s, n)) = b
    BY <1>1, <1>2, <1>3
<1>5. \A p \in 1..b : Upto(s, n)[p] = s[p]
    <2>1. \A p \in 1..b : p \in 1..(b - 0) /\ 0 + p = p
        BY <1>1
    <2> QED BY <1>2, <1>3, <2>1
<1> QED BY <1>1, <1>2, <1>3, <1>4, <1>5

LEMMA BrowserFetchesKeeps == AuditInv /\ BrowserFetches => AuditInv'
<1> SUFFICES ASSUME AuditInv, BrowserFetches PROVE AuditInv'
    OBVIOUS
<1>1. AuditTypeOK /\ ShelfOrder
    BY DEF AuditInv
<1>2. PICK n \in 0..Len(shelf) : items' = Upto(Upto(shelf, n), ask.limit)
    BY DEF BrowserFetches
<1>3. /\ step' = "fetched" /\ transport' = "browser" /\ cutShort' = TRUE
      /\ UNCHANGED <<author, nameless, shelf, collected, taken, ask, active, deleted, cursor,
                     pageIndex, report, edited, alignment>>
    BY DEF BrowserFetches, world
<1>4. ask.limit \in Nat /\ shelf \in Seq(Work) /\ n \in Nat /\ Len(shelf) \in Nat
      /\ DOMAIN shelf = 1..Len(shelf) /\ \A p \in 1..Len(shelf) : shelf[p] \in Nat
    BY <1>1, AuditTypes
<1> DEFINE seen == Upto(shelf, n)
<1>5. /\ seen \in Seq(Work) /\ Len(seen) <= Len(shelf) /\ \A p \in 1..Len(seen) : seen[p] = shelf[p]
    BY <1>4, UptoIs
<1> HIDE DEF seen
<1>6. /\ items' \in Seq(Work) /\ Len(items') <= ask.limit /\ Len(items') <= Len(seen)
      /\ \A p \in 1..Len(items') : items'[p] = seen[p]
    <2>1. items' = Upto(seen, ask.limit)
        BY <1>2 DEF seen
    <2> QED BY <1>4, <1>5, <2>1, UptoIs
<1>7. /\ Len(items') \in Nat /\ DOMAIN items' = 1..Len(items')
      /\ \A p \in 1..Len(items') : p \in 1..Len(shelf) /\ items'[p] = shelf[p]
    <2>1. Len(items') \in Nat /\ DOMAIN items' = 1..Len(items') /\ Len(seen) \in Nat
        BY <1>5, <1>6
    <2>2. \A p \in 1..Len(items') : p \in 1..Len(seen) /\ p \in 1..Len(shelf)
        BY <1>4, <1>5, <1>6, <2>1
    <2> QED BY <1>5, <1>6, <2>1, <2>2
<1>8. ASSUME NEW p \in DOMAIN items', NEW r \in DOMAIN items', items'[p] = items'[r] PROVE p = r
    <2>1. p \in 1..Len(shelf) /\ r \in 1..Len(shelf) /\ shelf[p] = shelf[r]
        BY <1>7, <1>8
    <2>2. p < r => shelf[r] < shelf[p]
        BY <1>1, <1>4, <2>1 DEF ShelfOrder
    <2>3. r < p => shelf[p] < shelf[r]
        BY <1>1, <1>4, <2>1 DEF ShelfOrder
    <2> QED BY <1>4, <2>1, <2>2, <2>3
<1>9. AuditTypeOK'
    BY <1>1, <1>3, <1>6 DEF AuditTypeOK
<1>10. ShelfOrder'
    BY <1>1, <1>3 DEF ShelfOrder
<1>11. WorksFetched'
    <2>1. Len(items') <= ask.limit' /\ cutShort' /\ transport' = "browser" /\ step' = "fetched"
        BY <1>3, <1>6
    <2>2. \A w \in FirstShelf : w <= collected'
        BY <1>3 DEF AuditInv, WorksFetched
    <2> QED BY <1>8, <2>1, <2>2 DEF WorksFetched
<1>12. ReportMade' /\ step' # "aligned"
    BY <1>3 DEF ReportMade
<1> QED BY <1>9, <1>10, <1>11, <1>12 DEF AuditInv

\* The rows that have something in common are finitely many.
LEMMA SomeAreFinite ==
    ASSUME NEW S, NEW s \in Seq(S), NEW T \in SUBSET (DOMAIN s)
    PROVE  IsFiniteSet(DOMAIN s) /\ IsFiniteSet(T) /\ Cardinality(T) \in Nat
<1>1. Len(s) \in Nat /\ DOMAIN s = 1..Len(s) /\ 1 \in Int /\ Len(s) \in Int
    OBVIOUS
<1>2. IsFiniteSet(DOMAIN s)
    BY <1>1, FS_Interval
<1> QED BY <1>2, FS_Subset, FS_CardinalityType

LEMMA ReportsKeeps == AuditInv /\ Reports => AuditInv'
<1> SUFFICES ASSUME AuditInv, Reports PROVE AuditInv'
    OBVIOUS
<1>1. AuditTypeOK /\ ShelfOrder /\ WorksFetched
    BY DEF AuditInv
<1> DEFINE known == {author[w] : w \in ToSet(items)} \ {NoAuthor}
<1>2. /\ step = "fetched" /\ step' = "reported"
      /\ report' = [a \in known |-> [status |-> Status(a), works |-> WorksOf(a)]]
      /\ UNCHANGED <<author, nameless, shelf, collected, taken, ask, active, deleted, items, cursor,
                     pageIndex, transport, cutShort, edited, alignment>>
    BY DEF Reports, world, walk
<1>3. known \in SUBSET Authors
    <2>1. \A w \in ToSet(items) : w \in Work
        BY <1>1, AuditTypes DEF ToSet
    <2>2. author \in [Work -> Authors \cup {NoAuthor}]
        BY <1>1 DEF AuditTypeOK
    <2> QED BY <2>1, <2>2
<1> HIDE DEF known
<1>4. \A a \in known : WorksOf(a) \in Nat
    BY <1>1, AuditTypes, SomeAreFinite DEF WorksOf
<1>5. \A a \in known : Status(a) \in Statuses /\ (Status(a) = "active" <=> a \in RowKeys)
    BY DEF Status, Statuses
<1>6. report' \in [known -> ReportRows] /\ DOMAIN report' = known
    BY <1>2, <1>4, <1>5 DEF ReportRows
<1>7. \A a \in known : report'[a].status = "active" <=> a \in RowKeys
    BY <1>2, <1>5
<1>8. AuditTypeOK'
    <2>1. \E k \in SUBSET Authors : report' \in [k -> [status : Statuses, works : Nat]]
        BY <1>3, <1>6 DEF ReportRows
    <2> QED BY <1>1, <1>2, <2>1 DEF AuditTypeOK
<1>9. ShelfOrder'
    BY <1>1, <1>2 DEF ShelfOrder
<1>10. WorksFetched'
    BY <1>1, <1>2 DEF WorksFetched, Once
<1>11. ReportMade' /\ step' # "aligned"
    <2>1. RowKeys' = RowKeys
        BY <1>2 DEF RowKeys
    <2> QED BY <1>2, <1>3, <1>6, <1>7, <2>1 DEF ReportMade
<1> QED BY <1>8, <1>9, <1>10, <1>11 DEF AuditInv

LEMMA AlignsKeeps == AuditInv /\ Aligns => AuditInv'
<1> SUFFICES ASSUME AuditInv, Aligns PROVE AuditInv'
    OBVIOUS
<1>1. AuditTypeOK /\ ShelfOrder /\ WorksFetched /\ ReportMade
    BY DEF AuditInv
<1>2. /\ step = "reported" /\ step' = "aligned"
      /\ UNCHANGED <<author, nameless, shelf, collected, taken, ask, active, deleted, items, cursor,
                     pageIndex, transport, cutShort, report, edited>>
    BY DEF Aligns, world, walk
<1>3. alignment' = AlignmentIs
    BY DEF Aligns, AlignmentIs
<1>4. RowKeys' = RowKeys /\ AlignmentIs' = AlignmentIs
    BY <1>2 DEF RowKeys, AlignmentIs
<1>5. AuditTypeOK'
    BY <1>1, <1>2 DEF AuditTypeOK
<1>6. ShelfOrder'
    BY <1>1, <1>2 DEF ShelfOrder
<1>7. WorksFetched'
    BY <1>1, <1>2 DEF WorksFetched, Once
<1>8. ReportMade'
    BY <1>1, <1>2, <1>4 DEF ReportMade
<1> QED BY <1>3, <1>4, <1>5, <1>6, <1>7, <1>8 DEF AuditInv

LEMMA AuditKeep == AuditInv /\ [AuditNext]_auditVars => AuditInv'
<1> SUFFICES ASSUME AuditInv, [AuditNext]_auditVars PROVE AuditInv'
    OBVIOUS
<1>1. CASE AuditNext
    BY <1>1, CollectsKeeps, TakesOutKeeps, EditsKeeps, PageComesKeeps, PageLostKeeps, DirectFailsKeeps,
       BrowserFetchesKeeps, FailsKeeps, ReportsKeeps, AlignsKeeps DEF AuditNext
<1>2. CASE UNCHANGED auditVars
    <2>1. AuditTypeOK /\ ShelfOrder /\ WorksFetched /\ ReportMade
        BY DEF AuditInv
    <2>2. UNCHANGED <<author, nameless, shelf, collected, taken, ask, active, deleted, step, items,
                      cursor, pageIndex, transport, cutShort, report, edited, alignment>>
        BY <1>2 DEF auditVars
    <2>3. AuditTypeOK'
        BY <2>1, <2>2 DEF AuditTypeOK
    <2>4. ShelfOrder'
        BY <2>1, <2>2 DEF ShelfOrder
    <2>5. WorksFetched'
        BY <2>1, <2>2 DEF WorksFetched, Once
    <2>6. RowKeys' = RowKeys /\ AlignmentIs' = AlignmentIs
        BY <2>2 DEF RowKeys, AlignmentIs
    <2>7. ReportMade'
        BY <2>1, <2>2, <2>6 DEF ReportMade
    <2>8. step' = "aligned" => alignment' = AlignmentIs'
        BY <2>2, <2>6 DEF AuditInv
    <2> QED BY <2>3, <2>4, <2>5, <2>7, <2>8 DEF AuditInv
<1> QED BY <1>1, <1>2

\* The walk, the report and the alignment keep their types, for every bound on
\* works and rows (collection_audit.py, collection_alignment.py).
THEOREM AuditTypeCorrect == AuditSpec => []AuditTypeOK
<1>1. AuditInv => AuditTypeOK
    BY DEF AuditInv
<1> QED BY <1>1, AuditBegins, AuditKeep, PTL DEF AuditSpec

\* For every bound on works, pages and rows: a work with an id is counted once,
\* a walk that came to the last page, and was not cut short by an answer that
\* only looked like it, has missed none that was there all the time, and
\* the alignment accounts for every row (collection_audit.py,
\* collection_alignment.py).
THEOREM AuditIsExact == AuditSpec => []AuditExact
<1>1. AuditInv => AuditExact
    <2> SUFFICES ASSUME AuditInv PROVE AuditExact
        OBVIOUS
    <2>1. AuditTypeOK /\ WorksFetched /\ ReportMade
        BY DEF AuditInv
    <2>2. Made =>
              /\ Len(items) <= ask.limit
              /\ \A p, r \in DOMAIN items :
                    (p # r /\ items[p] = items[r]) =>
                        (items[p] \in nameless /\ transport = "direct")
              /\ (~taken /\ ~cutShort /\ Len(items) < ask.limit) => FirstShelf \subseteq ToSet(items)
        <3>1. CASE transport = "direct"
            BY <2>1, <3>1 DEF WorksFetched, Once, Made
        <3>2. CASE transport # "direct"
            BY <2>1, <3>2 DEF WorksFetched, Made
        <3> QED BY <3>1, <3>2
    <2>3. ASSUME step = "aligned"
          PROVE  /\ Len(active) = Cardinality(RowsAre("both")) + Cardinality(RowsAre("configured_only"))
                                      + alignment.invalid + alignment.duplicates
                 /\ DOMAIN report = RowsAre("both") \cup RowsAre("dk_only")
                 /\ ~edited =>
                        \A a \in DOMAIN report :
                            alignment.rows[a] = "both" <=> report[a].status = "active"
        <3> DEFINE D == DOMAIN report
                   K == RowKeys
                   invalid == {p \in DOMAIN active : active[p] = NoAuthor}
                   valid == {p \in DOMAIN active : active[p] # NoAuthor}
        <3>1. /\ alignment.rows = [k \in D \cup K |->
                                      IF k \notin D THEN "configured_only"
                                      ELSE IF k \in K THEN "both" ELSE "dk_only"]
              /\ alignment.invalid = Cardinality(invalid)
              /\ alignment.duplicates = Cardinality(valid) - Cardinality(K)
            BY <2>3 DEF AuditInv, AlignmentIs
        <3>2. active \in Seq(Authors \cup {NoAuthor}) /\ Len(active) \in Nat /\ DOMAIN active = 1..Len(active)
            BY <2>1, AuditTypes
        <3>3. /\ IsFiniteSet(DOMAIN active) /\ Cardinality(DOMAIN active) = Len(active)
              /\ IsFiniteSet(invalid) /\ Cardinality(invalid) \in Nat
              /\ IsFiniteSet(valid) /\ Cardinality(valid) \in Nat
            BY <3>2, FS_Interval, SomeAreFinite
        <3>4. Cardinality(invalid) + Cardinality(valid) = Len(active)
            <4>1. invalid \cup valid = DOMAIN active /\ invalid \cap valid = {}
                OBVIOUS
            <4>2. Cardinality(invalid \cap valid) = 0
                BY <4>1, FS_EmptySet
            <4> HIDE DEF invalid, valid
            <4>3. Cardinality(invalid \cup valid)
                      = Cardinality(invalid) + Cardinality(valid) - Cardinality(invalid \cap valid)
                BY <3>3, FS_Union
            <4>4. Len(active) = Cardinality(invalid) + Cardinality(valid) - 0
                BY <3>3, <4>1, <4>2, <4>3
            <4>5. Cardinality(invalid) \in Nat /\ Cardinality(valid) \in Nat
                BY <3>3
            <4> QED BY <4>4, <4>5
        <3>5. IsFiniteSet(K) /\ Cardinality(K) \in Nat
            <4>1. IsFiniteSet(ToSet(active))
                <5> DEFINE f == [p \in DOMAIN active |-> active[p]]
                <5>1. f \in Surjection(DOMAIN active, ToSet(active))
                    BY DEF Surjection, ToSet
                <5> HIDE DEF f
                <5> QED BY <3>3, <5>1, FS_Surjection
            <4>2. K \in SUBSET ToSet(active)
                BY DEF RowKeys
            <4> HIDE DEF K
            <4> QED BY <4>1, <4>2, FS_Subset, FS_CardinalityType
        <3>6. /\ RowsAre("both") = K \cap D /\ RowsAre("configured_only") = K \ D
              /\ RowsAre("dk_only") = D \ K
            BY <3>1 DEF RowsAre
        <3>7. /\ Cardinality(K \cap D) + Cardinality(K \ D) = Cardinality(K)
              /\ Cardinality(K \cap D) \in Nat /\ Cardinality(K \ D) \in Nat
            <4> HIDE DEF K
            <4>1. /\ IsFiniteSet(K \ D) /\ Cardinality(K \ D) = Cardinality(K) - Cardinality(K \cap D)
                  /\ IsFiniteSet(K \cap D)
                BY <3>5, FS_Difference, FS_Subset
            <4>2. Cardinality(K \cap D) \in Nat /\ Cardinality(K \ D) \in Nat
                BY <4>1, FS_CardinalityType
            <4> QED BY <3>5, <4>1, <4>2
        <3>8. Len(active) = Cardinality(RowsAre("both")) + Cardinality(RowsAre("configured_only"))
                                + alignment.invalid + alignment.duplicates
            <4>1. /\ alignment.invalid = Cardinality(invalid)
                  /\ alignment.duplicates = Cardinality(valid) - Cardinality(K)
                BY <3>1
            <4> DEFINE i == Cardinality(invalid)
                       v == Cardinality(valid)
                       k == Cardinality(K)
                       b == Cardinality(K \cap D)
                       o == Cardinality(K \ D)
            <4>2. /\ alignment.invalid = i /\ alignment.duplicates = v - k
                  /\ Cardinality(RowsAre("both")) = b /\ Cardinality(RowsAre("configured_only")) = o
                BY <3>6, <4>1
            <4>3. i + v = Len(active) /\ b + o = k
                BY <3>4, <3>7
            <4>4. i \in Nat /\ v \in Nat /\ k \in Nat /\ b \in Nat /\ o \in Nat
                BY <3>3, <3>5, <3>7
            <4> HIDE DEF i, v, k, b, o
            <4>5. Len(active) = b + o + i + (v - k)
                BY <4>3, <4>4
            <4> QED BY <4>2, <4>5
        <3>9. D = RowsAre("both") \cup RowsAre("dk_only")
            BY <3>6
        <3>10. ASSUME ~edited, NEW a \in D PROVE alignment.rows[a] = "both" <=> report[a].status = "active"
            <4>1. alignment.rows[a] = IF a \in K THEN "both" ELSE "dk_only"
                BY <3>1, <3>10
            <4>2. report[a].status = "active" <=> a \in K
                BY <2>1, <2>3, <3>10 DEF ReportMade
            <4> QED BY <4>1, <4>2
        <3> QED BY <3>8, <3>9, <3>10
    <2> QED BY <2>2, <2>3 DEF AuditExact
<1> QED BY <1>1, AuditBegins, AuditKeep, PTL DEF AuditSpec

-----------------------------------------------------------------------------
(* DetailLinks *)

\* What the sums over the subsets of D are, taken element by element.
Pick(t) == CHOOSE x \in t : TRUE
SumsOf(f, D, n) ==
    /\ f \in [SUBSET D -> Nat] /\ f[{}] = 0
    /\ \A t \in SUBSET D : t # {} => f[t] = n[Pick(t)] + f[t \ {Pick(t)}]

LEMMA SumsThere ==
    ASSUME NEW D, IsFiniteSet(D), NEW n, \A x \in D : n[x] \in Nat
    PROVE  \E f : SumsOf(f, D, n)
<1> DEFINE c == [t \in SUBSET D |-> Pick(t)]
           go == [x \in (SUBSET D) \X Nat |-> IF x[1] = {} THEN 0 ELSE n[Pick(x[1])] + x[2]]
<1>1. \A t \in SUBSET D : t # {} => Pick(t) \in t
    BY DEF Pick
<1>2. \A t \in SUBSET D : t # {} => c[t] \in t
    BY <1>1
<1>3. go \in [(SUBSET D) \X Nat -> Nat]
    <2>1. ASSUME NEW x \in (SUBSET D) \X Nat, x[1] # {} PROVE n[Pick(x[1])] + x[2] \in Nat
        <3>1. x[1] \in SUBSET D /\ x[2] \in Nat
            OBVIOUS
        <3>2. n[Pick(x[1])] \in Nat
            BY <1>1, <2>1, <3>1
        <3> QED BY <3>1, <3>2
    <2> QED BY <2>1
<1>4. PICK f \in [SUBSET D -> Nat] : Unfolds(f, 0, c, go, SUBSET D)
    <2> HIDE DEF c, go
    <2> QED BY <1>2, <1>3, SetRecursion
<1>5. f[{}] = 0
    BY <1>4 DEF Unfolds
<1>6. ASSUME NEW t \in SUBSET D, t # {} PROVE f[t] = n[Pick(t)] + f[t \ {Pick(t)}]
    <2>1. f[t] = go[<<t, f[t \ {c[t]}]>>]
        BY <1>4, <1>6 DEF Unfolds
    <2>2. c[t] = Pick(t)
        OBVIOUS
    <2>3. <<t, f[t \ {Pick(t)}]>> \in (SUBSET D) \X Nat
        OBVIOUS
    <2> HIDE DEF c
    <2> QED BY <1>6, <2>1, <2>2, <2>3
<1>7. SumsOf(f, D, n)
    BY <1>4, <1>5, <1>6 DEF SumsOf
<1> QED BY <1>7

LEMMA TotalIs ==
    ASSUME NEW D, IsFiniteSet(D), NEW n, NEW f, SumsOf(f, D, n), NEW s \in SUBSET D
    PROVE  Total(n, s) = f[s]
<1> DEFINE Unfolded(it) ==
        it = [t \in SUBSET s |-> IF t = {} THEN 0
                                 ELSE n[CHOOSE x \in t : TRUE] + it[t \ {CHOOSE x \in t : TRUE}]]
<1> DEFINE It == CHOOSE it : Unfolded(it)
<1>1. Total(n, s) = It[s]
    BY DEF Total, MapThenSumSet, MapThenFoldSet
<1>2. \A t \in SUBSET s : /\ t \in SUBSET D
                          /\ f[t] = IF t = {} THEN 0 ELSE n[Pick(t)] + f[t \ {Pick(t)}]
    BY DEF SumsOf
<1>3. \E it : Unfolded(it)
    <2> DEFINE g == [t \in SUBSET s |-> f[t]]
    <2>1. ASSUME NEW t \in SUBSET s
          PROVE  g[t] = IF t = {} THEN 0
                        ELSE n[CHOOSE x \in t : TRUE] + g[t \ {CHOOSE x \in t : TRUE}]
        <3>1. t \ {Pick(t)} \in SUBSET s
            OBVIOUS
        <3> QED BY <1>2, <3>1 DEF Pick
    <2>2. g = [t \in SUBSET s |-> g[t]]
        OBVIOUS
    <2> HIDE DEF g
    <2>3. g = [t \in SUBSET s |-> IF t = {} THEN 0
                                  ELSE n[CHOOSE x \in t : TRUE] + g[t \ {CHOOSE x \in t : TRUE}]]
        BY <2>1, <2>2
    <2>4. Unfolded(g)
        BY <2>3
    <2> HIDE DEF Unfolded
    <2> QED BY <2>4
<1>4. Unfolded(It)
    <2> HIDE DEF Unfolded
    <2> QED BY <1>3
<1> HIDE DEF It
<1>5. \A t \in SUBSET s : It[t] = IF t = {} THEN 0 ELSE n[Pick(t)] + It[t \ {Pick(t)}]
    BY <1>4, Zenon DEF Pick
<1> HIDE DEF Unfolded
<1> DEFINE T == {t \in SUBSET s : It[t] = f[t]}
<1>6. IsFiniteSet(s)
    BY FS_Subset
<1>7. {} \in T
    BY <1>2, <1>5
<1>8. ASSUME NEW t \in SUBSET s, t # {} PROVE \E x \in t : t \ {x} \in T => t \in T
    <2>1. Pick(t) \in t
        BY <1>8 DEF Pick
    <2>2. ASSUME t \ {Pick(t)} \in T PROVE t \in T
        <3>1. It[t \ {Pick(t)}] = f[t \ {Pick(t)}]
            BY <2>2
        <3> QED BY <1>2, <1>5, <1>8, <3>1
    <2> QED BY <2>1, <2>2
<1>9. \A t \in SUBSET s : t \in T
    <2> HIDE DEF T
    <2> QED BY <1>6, <1>7, <1>8, SubsetInduction
<1>10. It[s] = f[s]
    BY <1>9
<1> QED BY <1>1, <1>10

\* A sum is a number, and any element may be taken out of it.
LEMMA TotalTakes ==
    ASSUME NEW D, IsFiniteSet(D), NEW n, \A x \in D : n[x] \in Nat
    PROVE  /\ Total(n, {}) = 0
           /\ \A s \in SUBSET D : Total(n, s) \in Nat
           /\ \A s \in SUBSET D : \A x \in s : Total(n, s) = n[x] + Total(n, s \ {x})
<1>1. PICK f : SumsOf(f, D, n)
    BY SumsThere
<1>2. /\ f \in [SUBSET D -> Nat] /\ f[{}] = 0
      /\ \A t \in SUBSET D : t # {} => f[t] = n[Pick(t)] + f[t \ {Pick(t)}]
    BY <1>1 DEF SumsOf
<1>3. \A s \in SUBSET D : Total(n, s) = f[s]
    BY <1>1, TotalIs
<1> DEFINE T == {s \in SUBSET D : \A x \in s : f[s] = n[x] + f[s \ {x}]}
<1>4. {} \in T
    OBVIOUS
<1>5. ASSUME NEW s \in SUBSET D, s # {}, \A x \in s : s \ {x} \in T PROVE s \in T
    <2>1. PICK y \in s : y = Pick(s)
        BY <1>5 DEF Pick
    <2>2. f[s] = n[y] + f[s \ {y}]
        BY <1>2, <1>5, <2>1
    <2>3. ASSUME NEW x \in s, x # y PROVE f[s] = n[x] + f[s \ {x}]
        <3>1. /\ s \ {y} \in T /\ x \in s \ {y} /\ s \ {x} \in T /\ y \in s \ {x}
            BY <1>5, <2>3
        <3>2. f[s \ {y}] = n[x] + f[(s \ {y}) \ {x}]
            BY <3>1
        <3>3. f[s \ {x}] = n[y] + f[(s \ {x}) \ {y}]
            BY <3>1
        <3>4. (s \ {y}) \ {x} = (s \ {x}) \ {y} /\ (s \ {x}) \ {y} \in SUBSET D
            OBVIOUS
        <3>5. PICK rest \in Nat : rest = f[(s \ {x}) \ {y}] /\ rest = f[(s \ {y}) \ {x}]
            BY <1>2, <3>4
        <3>6. n[x] \in Nat /\ n[y] \in Nat
            OBVIOUS
        <3> QED BY <2>2, <3>2, <3>3, <3>5, <3>6
    <2> QED BY <2>2, <2>3
<1>6. \A s \in SUBSET D : s \in T
    <2> HIDE DEF T
    <2>1. ASSUME NEW s \in SUBSET D, s # {} PROVE \E x \in s : s \ {x} \in T => s \in T
        BY <1>5, <2>1
    <2> QED BY <1>4, <2>1, SubsetInduction
<1>7. \A s \in SUBSET D : \A x \in s : f[s] = n[x] + f[s \ {x}] /\ s \ {x} \in SUBSET D
    BY <1>6
<1> HIDE DEF T
<1> QED BY <1>2, <1>3, <1>7

LEMMA TotalOrder ==
    ASSUME NEW D, IsFiniteSet(D), NEW n, \A x \in D : n[x] \in Nat, NEW s \in SUBSET D
    PROVE  \A r \in SUBSET s : Total(n, r) <= Total(n, s)
<1>1. /\ \A t \in SUBSET D : Total(n, t) \in Nat
      /\ \A t \in SUBSET D : \A x \in t : Total(n, t) = n[x] + Total(n, t \ {x})
    BY TotalTakes
<1> DEFINE T == {t \in SUBSET D : \A r \in SUBSET t : Total(n, r) <= Total(n, t)}
<1>2. {} \in T
    <2>1. Total(n, {}) \in Nat
        BY <1>1
    <2>2. \A r \in SUBSET {} : r = {}
        OBVIOUS
    <2>3. Total(n, {}) <= Total(n, {})
        BY <2>1
    <2> QED BY <2>2, <2>3
<1>3. ASSUME NEW t \in SUBSET D, t # {}, \A x \in t : t \ {x} \in T PROVE t \in T
    <2>1. ASSUME NEW r \in SUBSET t, r # t PROVE Total(n, r) <= Total(n, t)
        <3>1. PICK x \in t : x \notin r
            BY <2>1
        <3>2. r \in SUBSET (t \ {x}) /\ t \ {x} \in SUBSET D /\ r \in SUBSET D
            BY <3>1
        <3>3. Total(n, r) <= Total(n, t \ {x})
            BY <1>3, <3>2
        <3>4. Total(n, t) = n[x] + Total(n, t \ {x})
            BY <1>1
        <3>5. Total(n, r) \in Nat /\ Total(n, t \ {x}) \in Nat /\ n[x] \in Nat
            BY <1>1, <3>2
        <3> QED BY <3>3, <3>4, <3>5
    <2>2. Total(n, t) <= Total(n, t)
        <3>1. Total(n, t) \in Nat
            BY <1>1
        <3> QED BY <3>1
    <2> QED BY <2>1, <2>2
<1>4. \A t \in SUBSET D : t \in T
    <2> HIDE DEF T
    <2>1. ASSUME NEW t \in SUBSET D, t # {} PROVE \E x \in t : t \ {x} \in T => t \in T
        BY <1>3, <2>1
    <2> QED BY <1>2, <2>1, SubsetInduction
<1> QED BY <1>4

LEMMA TotalBelow ==
    ASSUME NEW D, IsFiniteSet(D), NEW n, NEW m,
           \A x \in D : n[x] \in Nat /\ m[x] \in Nat /\ n[x] <= m[x]
    PROVE  \A s \in SUBSET D : Total(n, s) <= Total(m, s)
<1>1. /\ Total(n, {}) = 0 /\ \A t \in SUBSET D : Total(n, t) \in Nat
      /\ \A t \in SUBSET D : \A x \in t : Total(n, t) = n[x] + Total(n, t \ {x})
    <2>1. \A x \in D : n[x] \in Nat
        OBVIOUS
    <2> QED BY <2>1, TotalTakes
<1>2. /\ Total(m, {}) = 0 /\ \A t \in SUBSET D : Total(m, t) \in Nat
      /\ \A t \in SUBSET D : \A x \in t : Total(m, t) = m[x] + Total(m, t \ {x})
    <2>1. \A x \in D : m[x] \in Nat
        OBVIOUS
    <2> QED BY <2>1, TotalTakes
<1> DEFINE T == {t \in SUBSET D : Total(n, t) <= Total(m, t)}
<1>3. {} \in T
    BY <1>1, <1>2
<1>4. ASSUME NEW t \in SUBSET D, t # {} PROVE \E x \in t : t \ {x} \in T => t \in T
    <2>1. PICK x \in t : TRUE
        BY <1>4
    <2>2. /\ Total(n, t) = n[x] + Total(n, t \ {x}) /\ Total(m, t) = m[x] + Total(m, t \ {x})
          /\ t \ {x} \in SUBSET D /\ n[x] \in Nat /\ m[x] \in Nat /\ n[x] <= m[x]
        BY <1>1, <1>2, <2>1
    <2>3. Total(n, t \ {x}) \in Nat /\ Total(m, t \ {x}) \in Nat
        BY <1>1, <1>2, <2>2
    <2>4. Total(n, t \ {x}) <= Total(m, t \ {x}) => Total(n, t) <= Total(m, t)
        BY <2>2, <2>3
    <2> QED BY <2>1, <2>4
<1>5. \A t \in SUBSET D : t \in T
    <2> HIDE DEF T
    <2> QED BY <1>3, <1>4, SubsetInduction
<1> QED BY <1>5

\* The works that a link adds, one after the other.
NamesChain(h, got, page, W) ==
    /\ h[0] = got /\ h[Len(page)] = AddNew(got, page)
    /\ \A n \in 0..Len(page) : h[n] \in Seq(W)
    /\ \A n \in 1..Len(page) : h[n] = AddOne(h[n - 1], page[n])

LEMMA NamesSteps ==
    ASSUME NEW W, NEW got \in Seq(W), NEW page \in Seq(W),
           \A g \in Seq(W), w \in W : AddOne(g, w) \in Seq(W)
    PROVE  \E h : NamesChain(h, got, page, W)
<1> DEFINE D == DOMAIN page
<1> DEFINE Unfolded(it) ==
        it = [s \in SUBSET D |-> IF s = {} THEN got ELSE AddOne(it[s \ {Max(s)}], page[Max(s)])]
<1>1. Len(page) \in Nat /\ D = 1..Len(page)
    OBVIOUS
<1>2. IsFiniteSet(D)
    BY <1>1, FS_Interval
<1>3. ASSUME NEW s \in SUBSET D, s # {} PROVE Max(s) \in s /\ page[Max(s)] \in W
    <2>1. Max(s) \in s
        BY <1>1, <1>3, GreatestIs
    <2> QED BY <1>1, <2>1
<1>4. \E it : Unfolded(it)
    <2> DEFINE c == [s \in SUBSET D |-> Max(s)]
    <2> DEFINE go == [x \in (SUBSET D) \X Seq(W) |->
                          IF x[1] = {} THEN got ELSE AddOne(x[2], page[Max(x[1])])]
    <2>1. \A s \in SUBSET D : s # {} => c[s] \in s
        BY <1>3
    <2>2. go \in [(SUBSET D) \X Seq(W) -> Seq(W)]
        <3>1. ASSUME NEW x \in (SUBSET D) \X Seq(W) PROVE go[x] \in Seq(W)
            <4>1. CASE x[1] = {}
                BY <4>1
            <4>2. CASE x[1] # {}
                <5>1. x[1] \in SUBSET D /\ x[2] \in Seq(W)
                    OBVIOUS
                <5>2. page[Max(x[1])] \in W
                    BY <1>3, <4>2, <5>1
                <5>3. AddOne(x[2], page[Max(x[1])]) \in Seq(W)
                    BY <5>1, <5>2
                <5> QED BY <4>2, <5>3
            <4> QED BY <4>1, <4>2
        <3> QED BY <3>1
    <2> HIDE DEF D
    <2>3. PICK f \in [SUBSET D -> Seq(W)] : Unfolds(f, got, c, go, SUBSET D)
        <3> HIDE DEF c, go
        <3> QED BY <1>2, <2>1, <2>2, SetRecursion
    <2>4. ASSUME NEW s \in SUBSET D
          PROVE  f[s] = IF s = {} THEN got ELSE AddOne(f[s \ {Max(s)}], page[Max(s)])
        <3>1. f[s] = IF s = {} THEN got ELSE go[<<s, f[s \ {c[s]}]>>]
            BY <2>3 DEF Unfolds
        <3>2. ASSUME s # {} PROVE go[<<s, f[s \ {c[s]}]>>] = AddOne(f[s \ {Max(s)}], page[Max(s)])
            <4>1. c[s] = Max(s)
                OBVIOUS
            <4>2. <<s, f[s \ {Max(s)}]>> \in (SUBSET D) \X Seq(W)
                OBVIOUS
            <4> HIDE DEF c
            <4> QED BY <3>2, <4>1, <4>2
        <3> QED BY <3>1, <3>2
    <2>5. f = [s \in SUBSET D |-> IF s = {} THEN got ELSE AddOne(f[s \ {Max(s)}], page[Max(s)])]
        BY <2>4
    <2> QED BY <2>5
<1> DEFINE It == CHOOSE it : Unfolded(it)
<1>5. AddNew(got, page) = It[D]
    BY DEF AddNew, FoldLeft, MapThenFoldSet
<1>6. Unfolded(It)
    <2> HIDE DEF Unfolded
    <2> QED BY <1>4
<1> HIDE DEF It
<1>7. \A s \in SUBSET D : It[s] = IF s = {} THEN got ELSE AddOne(It[s \ {Max(s)}], page[Max(s)])
    <2> HIDE DEF D
    <2> QED BY <1>6, Zenon
<1> HIDE DEF Unfolded, D
<1> DEFINE h == [n \in 0..Len(page) |-> It[1..n]]
<1>8. h[0] = got
    <2>1. {} \in SUBSET D /\ 1..0 = {} /\ 0 \in 0..Len(page)
        BY <1>1
    <2> QED BY <1>7, <2>1
<1>9. ASSUME NEW n \in 1..Len(page) PROVE h[n] = AddOne(h[n - 1], page[n])
    <2>1. /\ n \in Nat \ {0} /\ 1..n \in SUBSET D /\ 1..n # {}
          /\ n \in 0..Len(page) /\ n - 1 \in 0..Len(page)
        <3>1. n \in Nat \ {0} /\ n \in 0..Len(page) /\ n - 1 \in 0..Len(page) /\ n \in 1..n
            <4>1. \A m \in Nat : \A i \in 1..m :
                      i \in Nat \ {0} /\ i \in 0..m /\ i - 1 \in 0..m /\ i \in 1..i
                OBVIOUS
            <4> QED BY <1>1, <4>1
        <3>2. \A k \in 1..n : k \in 1..Len(page)
            BY <1>1
        <3>3. 1..n \in SUBSET D /\ 1..n # {}
            BY <1>1, <3>1, <3>2
        <3> QED BY <3>1, <3>3
    <2>2. Max(1..n) = n /\ (1..n) \ {n} = 1..(n - 1)
        BY <2>1, GreatestUpTo
    <2>3. It[1..n] = AddOne(It[(1..n) \ {n}], page[n])
        BY <1>7, <2>1, <2>2
    <2> QED BY <2>1, <2>2, <2>3
<1>10. h[Len(page)] = AddNew(got, page)
    BY <1>1, <1>5
<1> HIDE DEF h
<1> DEFINE T == {n \in Nat : h[n] \in Seq(W)}
<1>11. \A n \in 0..Len(page) : n \in T
    <2>1. 0 \in T
        BY <1>8
    <2>2. ASSUME NEW n \in 1..Len(page), n - 1 \in T PROVE n \in T
        <3>1. page[n] \in W /\ n \in Nat
            BY <1>1
        <3>2. AddOne(h[n - 1], page[n]) \in Seq(W)
            BY <2>2, <3>1
        <3> QED BY <1>9, <3>1, <3>2
    <2> HIDE DEF T
    <2> QED BY <1>1, <2>1, <2>2, CountUp
<1>12. \A n \in 0..Len(page) : h[n] \in Seq(W)
    BY <1>11
<1> QED BY <1>8, <1>9, <1>10, <1>12 DEF NamesChain

Stages == Ended \cup {"waiting", "parsing", "details", "loading"}
GroupRows == [at : Stages, next : Nat, parsed : Seq(DetailTargets),
              got : SUBSET DetailTargets, loaded : SUBSET DetailTargets]

NoneTwice(s) == \A i, j \in DOMAIN s : s[i] = s[j] => i = j

\* Nothing is fetched that was not named, nor loaded that was not fetched.
GroupSound(g) ==
    /\ NoneTwice(g.parsed)
    /\ g.got \subseteq ToSet(g.parsed) /\ g.loaded \subseteq g.got
    /\ g.at = "details" => g.parsed # <<>> /\ g.next >= 1
    /\ g.at \in {"waiting", "parsing"} => g.got = {}
    /\ g.at \notin Ended => g.loaded = {}

GroupsSound == group \in [Servers -> GroupRows] /\ \A s \in Servers : GroupSound(group[s])

\* What the answer to a list of links says.
ReplyWhole ==
    (asks.at = "answered" /\ asks.what = "links") =>
          /\ Len(reply.rows) = Cardinality(Links)
          /\ \A l \in Links :
                /\ reply.rows[l].link = l
                /\ (l \in reply.invalid <=> reply.rows[l].parsed = 0)
                /\ (group[route[l]].at = "done" /\ names[l] # <<>> => l \notin reply.invalid)
                /\ reply.by \in {Own, route[l]}
          /\ reply.downloaded <= reply.parsed
          /\ reply.downloaded <= Total(LoadedBy, Servers)
          /\ (reply.message = "complete" => reply.invalid = {} /\ reply.downloaded > 0)
          /\ (reply.message = "partly" => reply.invalid # {} /\ reply.downloaded > 0)

AskRows == [what : {"links", "one"}, at : {"new", "running", "answered", "refused", "raised", "cancelled"}]

\* While a request runs every link has a group; when it ended, none runs.
LinksInv ==
    /\ names \in [Links -> Texts] /\ asks \in AskRows /\ route \in [Links -> Servers]
    /\ GroupsSound
    /\ asks.at = "new" => \A s \in Servers : group[s].at = "none"
    /\ asks.at = "running" => \A l \in Links : group[route[l]].at # "none"
    /\ asks.at \notin {"new", "running"} => \A s \in Servers : group[s].at \in Ended
    /\ asks.at # "answered" => reply = NoReply
    /\ ReplyWhole

LEMMA LinksConstants ==
    /\ Cardinality(Links) \in Nat /\ Links = 1..Cardinality(Links) /\ Links # {} /\ 1 \in Links
    /\ IsFiniteSet(Links) /\ IsFiniteSet(Servers) /\ Own \in Servers
    /\ \A t \in Texts : t \in Seq(DetailTargets) /\ Len(t) \in Nat /\ (Len(t) = 0 <=> t = <<>>)
<1>1. Cardinality(Links) \in Nat
    BY LinksAssumption, FS_CardinalityType
<1>2. 1 \in Links
    BY <1>1, LinksAssumption
<1>3. IsFiniteSet(Routes \cup {Own})
    BY LinksAssumption, FS_AddElement
<1>4. ASSUME NEW t \in Texts PROVE t \in Seq(DetailTargets) /\ Len(t) \in Nat /\ (Len(t) = 0 <=> t = <<>>)
    <2>1. CASE t = <<>>
        BY <2>1
    <2>2. CASE \E w \in DetailTargets : t = <<w>>
        BY <2>2
    <2>3. CASE \E v, w \in DetailTargets : t = <<v, w>>
        BY <2>3
    <2> QED BY <2>1, <2>2, <2>3 DEF Texts
<1> QED BY <1>1, <1>2, <1>3, <1>4, LinksAssumption DEF Servers

LEMMA LinksHave == LinksInv => LinksTypeOK
<1> SUFFICES ASSUME LinksInv PROVE LinksTypeOK
    OBVIOUS
<1>1. \A s \in Servers : group[s] \in GroupRows /\ GroupSound(group[s])
    BY DEF LinksInv, GroupsSound
<1>2. \A g \in GroupRows : /\ g.at \in Stages /\ g.next \in Nat /\ g.parsed \in Seq(DetailTargets)
                           /\ g.got \subseteq DetailTargets
    BY DEF GroupRows
<1>3. \A s \in Servers : /\ group[s].at \in Stages /\ group[s].next \in Nat
                         /\ group[s].parsed \in Seq(DetailTargets) /\ group[s].got \subseteq DetailTargets
                         /\ group[s].loaded \subseteq group[s].got
    BY <1>1, <1>2 DEF GroupSound
<1> QED BY <1>3 DEF LinksInv, LinksTypeOK, AskRows, Stages

LEMMA IdleSound == Idle \in GroupRows /\ GroupSound(Idle) /\ GroupSound([Idle EXCEPT !.at = "waiting"])
                   /\ [Idle EXCEPT !.at = "waiting"] \in GroupRows
<1>1. <<>> \in Seq(DetailTargets) /\ DOMAIN <<>> = {} /\ ToSet(<<>>) = {}
    BY DEF ToSet
<1>2. NoneTwice(<<>>)
    BY <1>1 DEF NoneTwice
<1>3. "waiting" \notin Ended /\ "none" \in Ended
    BY DEF Ended
<1> DEFINE g == [Idle EXCEPT !.at = "waiting"]
<1>4. /\ Idle.at = "none" /\ Idle.parsed = <<>> /\ Idle.got = {} /\ Idle.loaded = {} /\ Idle \in GroupRows
    BY <1>1, <1>3 DEF Idle, GroupRows, Stages
<1>5. /\ g.at = "waiting" /\ g.parsed = <<>> /\ g.got = {} /\ g.loaded = {} /\ g \in GroupRows
    BY <1>1 DEF Idle, GroupRows, Stages
<1> HIDE DEF g
<1>6. GroupSound(Idle)
    BY <1>1, <1>2, <1>3, <1>4 DEF GroupSound
<1>7. GroupSound(g)
    BY <1>1, <1>2, <1>5 DEF GroupSound
<1> QED BY <1>4, <1>5, <1>6, <1>7 DEF g

LEMMA LinksBegin == LinksInit => LinksInv
<1> SUFFICES ASSUME LinksInit PROVE LinksInv
    OBVIOUS
<1>1. /\ names \in [Links -> Texts] /\ asks = [what |-> "links", at |-> "new"]
      /\ route = [l \in Links |-> Own] /\ group = [s \in Servers |-> Idle] /\ reply = NoReply
    BY DEF LinksInit
<1>2. GroupsSound
    BY <1>1, IdleSound DEF GroupsSound
<1>3. asks \in AskRows /\ route \in [Links -> Servers] /\ asks.at = "new"
    BY <1>1, LinksConstants DEF AskRows
<1>4. \A s \in Servers : group[s].at = "none"
    BY <1>1 DEF Idle
<1> QED BY <1>1, <1>2, <1>3, <1>4 DEF LinksInv, ReplyWhole

\* A group makes a step while the request runs.
LEMMA TurnKeeps ==
    ASSUME LinksInv, NEW s \in Servers, asks.at = "running",
           NEW g \in GroupRows, GroupSound(g), g.at # "none", Turns(s, g)
    PROVE  LinksInv'
<1>1. group' = [group EXCEPT ![s] = g] /\ UNCHANGED <<names, asks, route, reply>>
    BY DEF Turns
<1>2. /\ group \in [Servers -> GroupRows] /\ \A o \in Servers : GroupSound(group[o])
      /\ route \in [Links -> Servers] /\ \A l \in Links : group[route[l]].at # "none"
    BY DEF LinksInv, GroupsSound
<1>3. /\ group' \in [Servers -> GroupRows]
      /\ \A o \in Servers : group'[o] = IF o = s THEN g ELSE group[o]
    BY <1>1, <1>2
<1>4. GroupsSound'
    BY <1>2, <1>3 DEF GroupsSound
<1>5. \A l \in Links : group'[route[l]].at # "none"
    BY <1>2, <1>3
<1>6. asks'.at = "running"
    BY <1>1
<1>7. ReplyWhole'
    BY <1>6 DEF ReplyWhole
<1> QED BY <1>1, <1>4, <1>5, <1>6, <1>7 DEF LinksInv

\* A group that has not ended belongs to a request that runs.
LEMMA TurnsRun ==
    ASSUME LinksInv, NEW s \in Servers, group[s].at \notin Ended
    PROVE  asks.at = "running"
BY DEF LinksInv, Ended

LEMMA GroupIs ==
    ASSUME LinksInv, NEW s \in Servers
    PROVE  /\ group[s] \in GroupRows /\ GroupSound(group[s])
           /\ group[s].at \in Stages /\ group[s].next \in Nat /\ group[s].parsed \in Seq(DetailTargets)
           /\ group[s].got \in SUBSET DetailTargets /\ group[s].loaded \in SUBSET DetailTargets
<1>1. group[s] \in GroupRows /\ GroupSound(group[s])
    BY DEF LinksInv, GroupsSound
<1>2. \A g \in GroupRows : /\ g.at \in Stages /\ g.next \in Nat /\ g.parsed \in Seq(DetailTargets)
                           /\ g.got \in SUBSET DetailTargets /\ g.loaded \in SUBSET DetailTargets
    BY DEF GroupRows
<1> QED BY <1>1, <1>2

\* Another stage, without anything new.
LEMMA StageKeeps ==
    ASSUME LinksInv, NEW s \in Servers, asks.at = "running", NEW r \in GroupRows,
           r.parsed = group[s].parsed, r.got = group[s].got,
           r.loaded = group[s].loaded \/ (r.loaded = r.got /\ r.at \in Ended),
           r.at # "none", r.at = "details" => r.parsed # <<>> /\ r.next >= 1,
           r.at \in Ended \/ group[s].at \notin Ended,
           r.at \in {"waiting", "parsing"} => group[s].at \in {"waiting", "parsing"},
           Turns(s, r)
    PROVE  LinksInv'
<1>1. GroupSound(group[s])
    BY GroupIs
<1>2. GroupSound(r)
    BY <1>1 DEF GroupSound
<1> QED BY <1>2, TurnKeeps

LEMMA BeginGroupKeeps == LinksInv /\ (\E s \in Servers : BeginGroup(s)) => LinksInv'
<1> SUFFICES ASSUME LinksInv, NEW s \in Servers, BeginGroup(s) PROVE LinksInv'
    OBVIOUS
<1> DEFINE r == [group[s] EXCEPT !.at = "parsing"]
<1>1. group[s].at = "waiting" /\ Turns(s, r)
    BY DEF BeginGroup
<1>2. group[s] \in GroupRows /\ asks.at = "running"
    BY <1>1, GroupIs, TurnsRun DEF Ended
<1>3. /\ r \in GroupRows /\ r.at = "parsing" /\ r.parsed = group[s].parsed
      /\ r.got = group[s].got /\ r.loaded = group[s].loaded
    BY <1>2 DEF GroupRows, Stages
<1> HIDE DEF r
<1> QED BY <1>1, <1>2, <1>3, StageKeeps DEF Ended

LEMMA WorkAdds ==
    ASSUME NEW g \in Seq(DetailTargets), NEW w \in DetailTargets, NoneTwice(g)
    PROVE  /\ AddOne(g, w) \in Seq(DetailTargets) /\ NoneTwice(AddOne(g, w))
           /\ ToSet(g) \subseteq ToSet(AddOne(g, w))
<1>1. Len(g) \in Nat /\ DOMAIN g = 1..Len(g)
    OBVIOUS
<1>2. CASE Contains(g, w)
    BY <1>2 DEF AddOne
<1>3. CASE ~Contains(g, w)
    <2> DEFINE h == Append(g, w)
    <2>1. AddOne(g, w) = h
        BY <1>3 DEF AddOne
    <2>2. /\ h \in Seq(DetailTargets) /\ DOMAIN h = 1..(Len(g) + 1) /\ h[Len(g) + 1] = w
          /\ \A n \in 1..Len(g) : h[n] = g[n] /\ h[n] # w
        BY <1>1, <1>3 DEF Contains
    <2> HIDE DEF h
    <2>3. ASSUME NEW i \in DOMAIN h, NEW j \in DOMAIN h, h[i] = h[j] PROVE i = j
        <3>1. /\ i \in 1..Len(g) \/ i = Len(g) + 1
              /\ j \in 1..Len(g) \/ j = Len(g) + 1
            BY <1>1, <2>2
        <3> QED BY <1>1, <2>2, <2>3, <3>1 DEF NoneTwice
    <2>4. NoneTwice(h)
        BY <2>3 DEF NoneTwice
    <2>5. ToSet(g) \subseteq ToSet(h)
        BY <1>1, <2>2 DEF ToSet
    <2> QED BY <2>1, <2>2, <2>4, <2>5
<1> QED BY <1>2, <1>3

LEMMA NamesAdd ==
    ASSUME NEW g \in Seq(DetailTargets), NEW t \in Seq(DetailTargets), NoneTwice(g)
    PROVE  /\ AddNew(g, t) \in Seq(DetailTargets) /\ NoneTwice(AddNew(g, t))
           /\ ToSet(g) \subseteq ToSet(AddNew(g, t))
<1>1. \A x \in Seq(DetailTargets), w \in DetailTargets : AddOne(x, w) \in Seq(DetailTargets)
    BY DEF AddOne
<1>2. PICK h : /\ h[0] = g /\ h[Len(t)] = AddNew(g, t)
               /\ \A n \in 0..Len(t) : h[n] \in Seq(DetailTargets)
               /\ \A n \in 1..Len(t) : h[n] = AddOne(h[n - 1], t[n])
    <2>1. \E h : NamesChain(h, g, t, DetailTargets)
        BY <1>1, NamesSteps
    <2> QED BY <2>1 DEF NamesChain
<1> DEFINE T == {n \in Nat : /\ h[n] \in Seq(DetailTargets) /\ NoneTwice(h[n])
                             /\ ToSet(g) \subseteq ToSet(h[n])}
<1>3. Len(t) \in Nat /\ DOMAIN t = 1..Len(t)
    OBVIOUS
<1>4. 0 \in T
    BY <1>2
<1>5. ASSUME NEW n \in 1..Len(t), n - 1 \in T PROVE n \in T
    <2>1. /\ n \in Nat /\ t[n] \in DetailTargets /\ h[n] = AddOne(h[n - 1], t[n])
          /\ h[n - 1] \in Seq(DetailTargets) /\ NoneTwice(h[n - 1]) /\ ToSet(g) \subseteq ToSet(h[n - 1])
        BY <1>2, <1>3, <1>5
    <2>2. /\ h[n] \in Seq(DetailTargets) /\ NoneTwice(h[n]) /\ ToSet(h[n - 1]) \subseteq ToSet(h[n])
        BY <2>1, WorkAdds
    <2> QED BY <2>1, <2>2
<1>6. \A n \in 0..Len(t) : n \in T
    <2> HIDE DEF T
    <2> QED BY <1>3, <1>4, <1>5, CountUp
<1>7. Len(t) \in T
    <2> HIDE DEF T
    <2> QED BY <1>3, <1>6
<1> QED BY <1>2, <1>7

LEMMA ParseLinkKeeps == LinksInv /\ (\E s \in Servers : ParseLink(s)) => LinksInv'
<1> SUFFICES ASSUME LinksInv, NEW s \in Servers, ParseLink(s) PROVE LinksInv'
    OBVIOUS
<1> DEFINE l == Min(ToParse(s))
           p == AddNew(group[s].parsed, names[l])
           r == [group[s] EXCEPT !.next = l + 1, !.parsed = p]
<1>1. group[s].at = "parsing" /\ ToParse(s) # {} /\ Turns(s, r)
    BY DEF ParseLink
<1>2. /\ group[s] \in GroupRows /\ GroupSound(group[s]) /\ asks.at = "running"
      /\ group[s].parsed \in Seq(DetailTargets)
    BY <1>1, GroupIs, TurnsRun DEF Ended
<1>3. l \in Links /\ l \in Nat
    <2>1. ToParse(s) \subseteq Links
        BY LinksConstants DEF ToParse, Mine, Asked
    <2>2. ToParse(s) \subseteq Nat
        BY <2>1, LinksConstants
    <2>3. \E x \in ToParse(s) : \A y \in ToParse(s) : x <= y
        BY <1>1, <2>2, LeastNumber
    <2>4. l \in ToParse(s)
        BY <2>3 DEF Min
    <2> QED BY <2>1, <2>2, <2>4
<1> HIDE DEF l
<1>4. names[l] \in Seq(DetailTargets)
    <2>1. names[l] \in Texts
        BY <1>3 DEF LinksInv
    <2> QED BY <2>1, LinksConstants
<1>5. p \in Seq(DetailTargets) /\ NoneTwice(p) /\ ToSet(group[s].parsed) \subseteq ToSet(p)
    BY <1>2, <1>4, NamesAdd DEF GroupSound
<1> HIDE DEF p
<1>6. /\ r \in GroupRows /\ r.at = "parsing" /\ r.parsed = p
      /\ r.got = group[s].got /\ r.loaded = group[s].loaded
    <2>1. PICK n \in Nat : n = l + 1
        BY <1>3
    <2>2. r = [group[s] EXCEPT !.next = n, !.parsed = p]
        BY <2>1
    <2> HIDE DEF r
    <2> QED BY <1>1, <1>2, <1>5, <2>2 DEF GroupRows
<1> HIDE DEF r
<1>7. GroupSound(r)
    <2>1. "parsing" \notin Ended
        BY DEF Ended
    <2> QED BY <1>1, <1>2, <1>5, <1>6, <2>1 DEF GroupSound
<1> QED BY <1>1, <1>2, <1>6, <1>7, TurnKeeps

LEMMA ParseOneKeeps == LinksInv /\ (\E s \in Servers : ParseOne(s)) => LinksInv'
<1> SUFFICES ASSUME LinksInv, NEW s \in Servers, ParseOne(s) PROVE LinksInv'
    OBVIOUS
<1> DEFINE w == Head(names[1])
           r == [group[s] EXCEPT !.at = "details", !.next = 2, !.parsed = <<w>>]
<1>1. group[s].at = "parsing" /\ names[1] # <<>> /\ Turns(s, r)
    BY DEF ParseOne
<1>2. group[s] \in GroupRows /\ GroupSound(group[s]) /\ asks.at = "running"
    BY <1>1, GroupIs, TurnsRun DEF Ended
<1>3. w \in DetailTargets
    <2>1. names[1] \in Texts
        BY LinksConstants DEF LinksInv
    <2>2. names[1] \in Seq(DetailTargets)
        BY <2>1, LinksConstants
    <2> QED BY <1>1, <2>2, HeadTailProperties
<1> HIDE DEF w
<1>4. /\ <<w>> \in Seq(DetailTargets) /\ NoneTwice(<<w>>) /\ <<w>> # <<>> /\ ToSet(<<w>>) = {w}
    BY <1>3 DEF NoneTwice, ToSet
<1> DEFINE p == <<w>>
<1> HIDE DEF p
<1>5. /\ r \in GroupRows /\ r.at = "details" /\ r.parsed = <<w>> /\ r.next = 2
      /\ r.got = group[s].got /\ r.loaded = group[s].loaded
    BY <1>2, <1>4 DEF GroupRows, Stages
<1> HIDE DEF r
<1> QED BY <1>1, <1>2, <1>4, <1>5, TurnKeeps DEF GroupSound, Ended

LEMMA ParsedKeeps == LinksInv /\ (\E s \in Servers : Parsed(s)) => LinksInv'
<1> SUFFICES ASSUME LinksInv, NEW s \in Servers, Parsed(s) PROVE LinksInv'
    OBVIOUS
<1> DEFINE a == IF group[s].parsed = <<>> THEN "done" ELSE "details"
           r == [group[s] EXCEPT !.next = 1, !.at = a]
<1>1. group[s].at = "parsing" /\ Turns(s, r)
    BY DEF Parsed
<1>2. group[s] \in GroupRows /\ asks.at = "running"
    BY <1>1, GroupIs, TurnsRun DEF Ended
<1>3. a \in {"done", "details"} /\ (a = "details" => group[s].parsed # <<>>)
    OBVIOUS
<1> HIDE DEF a
<1>4. /\ r \in GroupRows /\ r.at = a /\ r.next = 1 /\ r.parsed = group[s].parsed
      /\ r.got = group[s].got /\ r.loaded = group[s].loaded
    BY <1>2, <1>3 DEF GroupRows, Stages, Ended
<1> HIDE DEF r
<1>5. /\ r.at # "none" /\ (r.at = "details" => r.parsed # <<>> /\ r.next >= 1)
      /\ group[s].at \notin Ended
    BY <1>1, <1>3, <1>4 DEF Ended
<1> QED BY <1>1, <1>2, <1>3, <1>4, <1>5, StageKeeps

LEMMA DetailKeeps == LinksInv /\ (\E s \in Servers : Detail(s)) => LinksInv'
<1> SUFFICES ASSUME LinksInv, NEW s \in Servers, Detail(s) PROVE LinksInv'
    OBVIOUS
<1> DEFINE g == group[s]
<1>1. PICK ok \in BOOLEAN :
          Turns(s, [g EXCEPT !.next = @ + 1, !.got = IF ok THEN @ \cup {g.parsed[g.next]} ELSE @])
    BY DEF Detail
<1>2. g.at = "details" /\ g.next <= Len(g.parsed)
    BY DEF Detail
<1>3. /\ g \in GroupRows /\ GroupSound(g) /\ asks.at = "running" /\ g.next \in Nat
      /\ g.parsed \in Seq(DetailTargets) /\ g.got \in SUBSET DetailTargets
    BY <1>2, GroupIs, TurnsRun DEF Ended
<1> HIDE DEF g
<1> DEFINE c == IF ok THEN g.got \cup {g.parsed[g.next]} ELSE g.got
           n == g.next + 1
           r == [g EXCEPT !.next = n, !.got = c]
<1>4. Turns(s, r)
    BY <1>1
<1>5. g.next \in DOMAIN g.parsed /\ g.parsed[g.next] \in ToSet(g.parsed) /\ g.parsed[g.next] \in DetailTargets
    <2>1. g.next >= 1
        BY <1>2, <1>3 DEF GroupSound
    <2>2. g.next \in DOMAIN g.parsed
        BY <1>2, <1>3, <2>1
    <2> QED BY <1>3, <2>2 DEF ToSet
<1>6. c \in SUBSET DetailTargets /\ c \subseteq ToSet(g.parsed) /\ g.got \subseteq c
    BY <1>3, <1>5 DEF GroupSound
<1>7. n \in Nat /\ n >= 1
    BY <1>3
<1> HIDE DEF c, n
<1>8. /\ r \in GroupRows /\ r.at = g.at /\ r.next = n /\ r.parsed = g.parsed
      /\ r.got = c /\ r.loaded = g.loaded
    BY <1>3, <1>6, <1>7 DEF GroupRows
<1> HIDE DEF r
<1>9. GroupSound(r)
    BY <1>2, <1>3, <1>6, <1>7, <1>8 DEF GroupSound
<1>10. r.at # "none"
    BY <1>2, <1>8
<1> QED BY <1>3, <1>4, <1>8, <1>9, <1>10, TurnKeeps

LEMMA DetailsDoneKeeps == LinksInv /\ (\E s \in Servers : DetailsDone(s)) => LinksInv'
<1> SUFFICES ASSUME LinksInv, NEW s \in Servers, DetailsDone(s) PROVE LinksInv'
    OBVIOUS
<1> DEFINE a == IF group[s].got = {} THEN "done" ELSE "loading"
           r == [group[s] EXCEPT !.at = a]
<1>1. group[s].at = "details" /\ Turns(s, r)
    BY DEF DetailsDone
<1>2. group[s] \in GroupRows /\ asks.at = "running"
    BY <1>1, GroupIs, TurnsRun DEF Ended
<1>3. a \in {"done", "loading"}
    OBVIOUS
<1> HIDE DEF a
<1>4. /\ r \in GroupRows /\ r.at = a /\ r.parsed = group[s].parsed
      /\ r.got = group[s].got /\ r.loaded = group[s].loaded
    BY <1>2, <1>3 DEF GroupRows, Stages, Ended
<1> HIDE DEF r
<1>5. r.at \notin {"none", "details", "waiting", "parsing"} /\ group[s].at \notin Ended
    BY <1>1, <1>3, <1>4 DEF Ended
<1> QED BY <1>1, <1>2, <1>4, <1>5, StageKeeps

LEMMA DownloadsKeeps == LinksInv /\ (\E s \in Servers : Load(s)) => LinksInv'
<1> SUFFICES ASSUME LinksInv, NEW s \in Servers, Load(s) PROVE LinksInv'
    OBVIOUS
<1> DEFINE r == [group[s] EXCEPT !.at = "done", !.loaded = group[s].got]
<1>1. group[s].at = "loading" /\ Turns(s, r)
    BY DEF Load
<1>2. group[s] \in GroupRows /\ asks.at = "running"
    BY <1>1, GroupIs, TurnsRun DEF Ended
<1>3. /\ r \in GroupRows /\ r.at = "done" /\ r.parsed = group[s].parsed
      /\ r.got = group[s].got /\ r.loaded = group[s].got
    BY <1>2 DEF GroupRows, Stages, Ended
<1> HIDE DEF r
<1> QED BY <1>1, <1>2, <1>3, StageKeeps DEF Ended

LEMMA OneDoneKeeps == LinksInv /\ (\E s \in Servers : OneDone(s)) => LinksInv'
<1> SUFFICES ASSUME LinksInv, NEW s \in Servers, OneDone(s) PROVE LinksInv'
    OBVIOUS
<1>1. PICK ok \in BOOLEAN :
          Turns(s, [group[s] EXCEPT !.at = "done", !.got = IF ok THEN {group[s].parsed[1]} ELSE {}])
    BY DEF OneDone
<1> DEFINE g == group[s]
           c == IF ok THEN {g.parsed[1]} ELSE {}
           r == [g EXCEPT !.at = "done", !.got = c]
<1>2. g.at = "details" /\ Turns(s, r)
    BY <1>1 DEF OneDone
<1>3. g \in GroupRows /\ GroupSound(g) /\ asks.at = "running" /\ g.parsed \in Seq(DetailTargets)
    BY <1>2, GroupIs, TurnsRun DEF Ended
<1> HIDE DEF g
<1>4. 1 \in DOMAIN g.parsed
    <2>1. g.parsed # <<>>
        BY <1>2, <1>3 DEF GroupSound
    <2>2. Len(g.parsed) \in Nat /\ Len(g.parsed) # 0 /\ DOMAIN g.parsed = 1..Len(g.parsed)
        BY <1>3, <2>1
    <2> QED BY <2>2
<1>5. g.parsed[1] \in DetailTargets /\ g.parsed[1] \in ToSet(g.parsed)
    BY <1>3, <1>4 DEF ToSet
<1>6. c \in SUBSET DetailTargets /\ c \subseteq ToSet(g.parsed)
    BY <1>5
<1> HIDE DEF c
<1>7. /\ r \in GroupRows /\ r.at = "done" /\ r.parsed = g.parsed /\ r.got = c /\ r.loaded = g.loaded
    BY <1>3, <1>6 DEF GroupRows, Stages, Ended
<1> HIDE DEF r
<1>8. g.loaded = {}
    BY <1>2, <1>3 DEF GroupSound, Ended
<1>9. GroupSound(r)
    BY <1>3, <1>6, <1>7, <1>8 DEF GroupSound, Ended
<1> QED BY <1>2, <1>3, <1>7, <1>9, TurnKeeps

LEMMA FailKeeps == LinksInv /\ (\E s \in Servers : Fail(s)) => LinksInv'
<1> SUFFICES ASSUME LinksInv, NEW s \in Servers, Fail(s) PROVE LinksInv'
    OBVIOUS
<1> DEFINE r == [group[s] EXCEPT !.at = "failed"]
<1>1. group[s].at \notin Ended /\ Turns(s, r)
    BY DEF Fail, Ended
<1>2. group[s] \in GroupRows /\ asks.at = "running"
    BY <1>1, GroupIs, TurnsRun
<1>3. /\ r \in GroupRows /\ r.at = "failed" /\ r.parsed = group[s].parsed
      /\ r.got = group[s].got /\ r.loaded = group[s].loaded
    BY <1>2 DEF GroupRows, Stages, Ended
<1> HIDE DEF r
<1> QED BY <1>1, <1>2, <1>3, StageKeeps DEF Ended

LEMMA CloseFailsKeeps == LinksInv /\ (\E s \in Servers : CloseFails(s)) => LinksInv'
<1> SUFFICES ASSUME LinksInv, NEW s \in Servers, CloseFails(s) PROVE LinksInv'
    OBVIOUS
<1> DEFINE r == [group[s] EXCEPT !.at = "failed"]
<1>1. asks.at = "running" /\ Turns(s, r)
    BY DEF CloseFails
<1>2. group[s] \in GroupRows
    BY GroupIs
<1>3. /\ r \in GroupRows /\ r.at = "failed" /\ r.parsed = group[s].parsed
      /\ r.got = group[s].got /\ r.loaded = group[s].loaded
    BY <1>2 DEF GroupRows, Stages, Ended
<1> HIDE DEF r
<1> QED BY <1>1, <1>2, <1>3, StageKeeps DEF Ended

LEMMA CancelKeeps == LinksInv /\ Cancel => LinksInv'
<1> SUFFICES ASSUME LinksInv, Cancel PROVE LinksInv'
    OBVIOUS
<1> DEFINE r(s) == IF group[s].at \in Ended THEN group[s] ELSE [group[s] EXCEPT !.at = "cancelled"]
<1>1. /\ asks.at = "running" /\ group' = [s \in Servers |-> r(s)]
      /\ UNCHANGED <<names, asks, route, reply>>
    BY DEF Cancel
<1>2. ASSUME NEW s \in Servers
      PROVE  /\ r(s) \in GroupRows /\ GroupSound(r(s))
             /\ group[s].at # "none" => r(s).at # "none"
    <2>1. group[s] \in GroupRows /\ GroupSound(group[s])
        BY GroupIs
    <2> DEFINE c == [group[s] EXCEPT !.at = "cancelled"]
    <2>2. /\ c \in GroupRows /\ c.at = "cancelled" /\ c.parsed = group[s].parsed
          /\ c.got = group[s].got /\ c.loaded = group[s].loaded
        BY <2>1 DEF GroupRows, Stages, Ended
    <2> HIDE DEF c
    <2>3. GroupSound(c)
        BY <2>1, <2>2 DEF GroupSound, Ended
    <2>4. r(s) = IF group[s].at \in Ended THEN group[s] ELSE c
        BY DEF c
    <2> HIDE DEF r
    <2> QED BY <2>1, <2>2, <2>3, <2>4
<1> HIDE DEF r
<1>3. group' \in [Servers -> GroupRows] /\ \A s \in Servers : group'[s] = r(s)
    BY <1>1, <1>2
<1>4. GroupsSound'
    BY <1>2, <1>3 DEF GroupsSound
<1>5. \A l \in Links : group'[route[l]].at # "none"
    BY <1>1, <1>2, <1>3 DEF LinksInv
<1>6. asks'.at = "running"
    BY <1>1
<1>7. ReplyWhole'
    BY <1>6 DEF ReplyWhole
<1> QED BY <1>1, <1>4, <1>5, <1>6, <1>7 DEF LinksInv

LEMMA SomeOfThem ==
    ASSUME NEW S, NEW p \in Seq(S), NEW c \in SUBSET ToSet(p)
    PROVE  IsFiniteSet(c) /\ Cardinality(c) \in Nat /\ Cardinality(c) <= Len(p)
<1> DEFINE f == [i \in DOMAIN p |-> p[i]]
<1>1. f \in Surjection(DOMAIN p, ToSet(p))
    BY DEF Surjection, ToSet
<1>2. Len(p) \in Nat /\ DOMAIN p = 1..Len(p)
    OBVIOUS
<1>3. IsFiniteSet(DOMAIN p) /\ Cardinality(DOMAIN p) = Len(p)
    BY <1>2, FS_Interval
<1> HIDE DEF f
<1>4. IsFiniteSet(ToSet(p)) /\ Cardinality(ToSet(p)) <= Len(p)
    BY <1>1, <1>3, FS_Surjection
<1>5. IsFiniteSet(c) /\ Cardinality(c) <= Cardinality(ToSet(p))
    BY <1>4, FS_Subset
<1>6. Cardinality(c) \in Nat /\ Cardinality(ToSet(p)) \in Nat
    BY <1>4, <1>5, FS_CardinalityType
<1> QED BY <1>2, <1>4, <1>5, <1>6

\* What is downloaded was parsed.
LEMMA TotalsAre ==
    ASSUME LinksInv
    PROVE  /\ Total(LoadedBy, Delivered) \in Nat
           /\ Total(LoadedBy, Delivered) <= Total(NamedBy, Delivered)
           /\ Total(LoadedBy, Delivered) <= Total(LoadedBy, Servers)
<1>1. ASSUME NEW s \in Servers
      PROVE  LoadedBy[s] \in Nat /\ NamedBy[s] \in Nat /\ LoadedBy[s] <= NamedBy[s]
    <2>1. /\ group[s].parsed \in Seq(DetailTargets) /\ group[s].loaded \in SUBSET ToSet(group[s].parsed)
        BY GroupIs DEF GroupSound
    <2>2. /\ Cardinality(group[s].loaded) \in Nat
          /\ Cardinality(group[s].loaded) <= Len(group[s].parsed)
        BY <2>1, SomeOfThem
    <2>3. LoadedBy[s] = Cardinality(group[s].loaded) /\ NamedBy[s] = Len(group[s].parsed)
        BY DEF LoadedBy, NamedBy
    <2> QED BY <2>1, <2>2, <2>3
<1>2. /\ Delivered \in SUBSET Servers /\ Servers \in SUBSET Servers /\ IsFiniteSet(Servers)
    BY LinksConstants DEF Delivered, Groups
<1>3. \A s \in Servers : LoadedBy[s] \in Nat
    BY <1>1
<1>4. Total(LoadedBy, Delivered) \in Nat
    BY <1>2, <1>3, TotalTakes
<1>5. Total(LoadedBy, Delivered) <= Total(NamedBy, Delivered)
    BY <1>1, <1>2, TotalBelow
<1>6. Total(LoadedBy, Delivered) <= Total(LoadedBy, Servers)
    BY <1>2, <1>3, TotalOrder
<1> QED BY <1>4, <1>5, <1>6

LEMMA AnswerKeeps == LinksInv /\ Answer => LinksInv'
<1> SUFFICES ASSUME LinksInv, Answer PROVE LinksInv'
    OBVIOUS
<1> DEFINE parsed == Total(NamedBy, Delivered)
           loaded == Total(LoadedBy, Delivered)
           invalid == UNION {InvalidOf(s) : s \in Groups}
           who == IF Cardinality(Groups) = 1 THEN CHOOSE s \in Groups : TRUE ELSE Own
           said == IF loaded = 0 THEN IF parsed > 0 THEN "failed" ELSE "unparsed"
                   ELSE IF invalid # {} THEN "partly" ELSE "complete"
<1>1. /\ asks.at = "running" /\ asks.what = "links"
      /\ \A s \in Servers : group[s].at \in Ended
      /\ asks' = [asks EXCEPT !.at = "answered"]
      /\ reply' = [message |-> said, downloaded |-> loaded, parsed |-> parsed, invalid |-> invalid,
                   rows |-> Rows, by |-> who]
      /\ UNCHANGED <<names, route, group>>
    BY DEF Answer, AllEnded
<1>2. /\ names \in [Links -> Texts] /\ asks \in AskRows /\ route \in [Links -> Servers]
      /\ \A l \in Links : group[route[l]].at # "none"
    BY <1>1 DEF LinksInv
<1>3. asks' \in AskRows /\ asks'.at = "answered" /\ asks'.what = "links"
    BY <1>1, <1>2 DEF AskRows
<1>4. loaded \in Nat /\ loaded <= parsed /\ loaded <= Total(LoadedBy, Servers)
    BY TotalsAre
<1>5. \A l \in Links : l \in invalid <=> group[route[l]].at = "failed" \/ names[l] = <<>>
    <2>1. \A l \in Links : route[l] \in Groups
        BY <1>2 DEF Groups
    <2>2. Asked = Links
        BY <1>1 DEF Asked
    <2>3. \A l \in Links, s \in Groups :
              l \in InvalidOf(s) <=> route[l] = s /\ (group[s].at = "failed" \/ names[l] = <<>>)
        BY <2>2 DEF InvalidOf, Mine
    <2> QED BY <2>1, <2>3
<1>6. /\ Rows = [l \in 1..Cardinality(Links) |-> Row(l)] /\ Len(Rows) = Cardinality(Links)
    <2>1. Rows = [l \in 1..Cardinality(Links) |-> Row(l)]
        BY LinksConstants DEF Rows
    <2> QED BY <2>1, LinksConstants
<1>7. ASSUME NEW l \in Links
      PROVE  Rows[l].link = l /\ (Rows[l].parsed = 0 <=> group[route[l]].at = "failed" \/ names[l] = <<>>)
    <2>1. Rows[l] = Row(l)
        BY DEF Rows
    <2>2. Len(names[l]) = 0 <=> names[l] = <<>>
        BY <1>2, LinksConstants
    <2> QED BY <2>1, <2>2 DEF Row
<1>8. \A l \in Links : who \in {Own, route[l]}
    <2>1. ASSUME NEW l \in Links, Cardinality(Groups) = 1 PROVE who = route[l]
        <3>1. IsFiniteSet(Groups)
            <4>1. Groups \in SUBSET Servers
                BY DEF Groups
            <4> QED BY <4>1, LinksConstants, FS_Subset
        <3>2. PICK x : Groups = {x}
            BY <2>1, <3>1, FS_Singleton
        <3>3. route[l] \in Groups
            BY <1>2 DEF Groups
        <3> QED BY <2>1, <3>2, <3>3
    <2> QED BY <2>1
<1>9. /\ said = "complete" => invalid = {} /\ loaded > 0
      /\ said = "partly" => invalid # {} /\ loaded > 0
    <2>1. loaded # 0 => loaded > 0
        BY <1>4
    <2> HIDE DEF loaded, parsed, invalid
    <2> QED BY <2>1
<1> HIDE DEF parsed, loaded, invalid, who, said
<1>10. /\ reply'.rows = Rows /\ reply'.invalid = invalid /\ reply'.by = who
       /\ reply'.downloaded = loaded /\ reply'.parsed = parsed /\ reply'.message = said
    BY <1>1
<1>11. LoadedBy' = LoadedBy
    BY <1>1 DEF LoadedBy
<1>12. ReplyWhole'
    <2>1. Total(LoadedBy, Servers)' = Total(LoadedBy, Servers)
        BY <1>11
    <2>2. \A l \in Links :
              /\ reply'.rows[l].link = l
              /\ (l \in reply'.invalid <=> reply'.rows[l].parsed = 0)
              /\ (group'[route'[l]].at = "done" /\ names'[l] # <<>> => l \notin reply'.invalid)
              /\ reply'.by \in {Own, route'[l]}
        BY <1>1, <1>5, <1>7, <1>8, <1>10
    <2>3. /\ Len(reply'.rows) = Cardinality(Links)
          /\ reply'.downloaded <= reply'.parsed
          /\ reply'.downloaded <= Total(LoadedBy, Servers)'
          /\ (reply'.message = "complete" => reply'.invalid = {} /\ reply'.downloaded > 0)
          /\ (reply'.message = "partly" => reply'.invalid # {} /\ reply'.downloaded > 0)
        BY <1>4, <1>6, <1>9, <1>10, <2>1
    <2> QED BY <2>2, <2>3 DEF ReplyWhole
<1>13. GroupsSound'
    BY <1>1 DEF LinksInv, GroupsSound
<1> QED BY <1>1, <1>2, <1>3, <1>12, <1>13 DEF LinksInv

\* The request ends without an answer to a list of links.
LEMMA EndsKeeps ==
    ASSUME LinksInv, UNCHANGED <<names, route, group>>, NEW how,
           asks' = [asks EXCEPT !.at = how], how \in {"answered", "refused", "raised", "cancelled"},
           \A s \in Servers : group[s].at \in Ended,
           IF how = "answered" THEN asks.what = "one" ELSE reply' = NoReply
    PROVE  LinksInv'
<1>1. asks \in AskRows
    BY DEF LinksInv
<1>2. asks' \in AskRows /\ asks'.at = how /\ asks'.what = asks.what
    BY <1>1 DEF AskRows
<1>3. ReplyWhole'
    BY <1>2 DEF ReplyWhole
<1>4. GroupsSound'
    BY DEF LinksInv, GroupsSound
<1> QED BY <1>2, <1>3, <1>4 DEF LinksInv

LEMMA OthersEndKeeps == LinksInv /\ (AnswerOne \/ RaiseOne \/ RaiseCancelled) => LinksInv'
<1> SUFFICES ASSUME LinksInv, AnswerOne \/ RaiseOne \/ RaiseCancelled PROVE LinksInv'
    OBVIOUS
<1>1. CASE AnswerOne
    <2>1. /\ UNCHANGED <<names, route, group>> /\ asks' = [asks EXCEPT !.at = "answered"]
          /\ asks.what = "one" /\ \A s \in Servers : group[s].at \in Ended
        BY <1>1 DEF AnswerOne, AllEnded
    <2> QED BY <2>1, EndsKeeps
<1>2. CASE RaiseOne
    <2>1. /\ UNCHANGED <<names, route, group>> /\ asks' = [asks EXCEPT !.at = "raised"]
          /\ reply' = reply /\ asks.at = "running" /\ \A s \in Servers : group[s].at \in Ended
        BY <1>2 DEF RaiseOne, AllEnded
    <2>2. reply' = NoReply
        BY <2>1 DEF LinksInv
    <2> QED BY <2>1, <2>2, EndsKeeps
<1>3. CASE RaiseCancelled
    <2>1. /\ UNCHANGED <<names, route, group>> /\ asks' = [asks EXCEPT !.at = "cancelled"]
          /\ reply' = reply /\ asks.at = "running" /\ \A s \in Servers : group[s].at \in Ended
        BY <1>3 DEF RaiseCancelled, AllEnded
    <2>2. reply' = NoReply
        BY <2>1 DEF LinksInv
    <2> QED BY <2>1, <2>2, EndsKeeps
<1> QED BY <1>1, <1>2, <1>3

LEMMA RunsKeeps ==
    ASSUME LinksInv, NEW what \in {"links", "one"}, asks.at = "new", NEW r \in [Links -> Servers],
           Runs(what, r)
    PROVE  LinksInv'
<1> DEFINE g(s) == IF \E l \in Links : r[l] = s THEN [Idle EXCEPT !.at = "waiting"] ELSE Idle
<1>1. /\ asks' = [what |-> what, at |-> "running"] /\ route' = r
      /\ group' = [s \in Servers |-> g(s)] /\ UNCHANGED <<names, reply>>
    BY DEF Runs
<1>2. \A s \in Servers : g(s) \in GroupRows /\ GroupSound(g(s))
    BY IdleSound
<1>3. \A l \in Links : g(r[l]).at # "none"
    BY DEF Idle
<1> HIDE DEF g
<1>4. GroupsSound'
    BY <1>1, <1>2 DEF GroupsSound
<1>5. \A l \in Links : group'[route'[l]].at # "none"
    BY <1>1, <1>3
<1>6. asks' \in AskRows /\ asks'.at = "running"
    BY <1>1 DEF AskRows
<1>7. ReplyWhole'
    BY <1>6 DEF ReplyWhole
<1> QED BY <1>1, <1>4, <1>5, <1>6, <1>7 DEF LinksInv

LEMMA SpreadsKeeps == LinksInv /\ Endpoint => LinksInv'
<1> SUFFICES ASSUME LinksInv, NEW what \in {"links", "one"}, OnOwn(what) \/ Planned(what) \/ Refuse(what)
             PROVE  LinksInv'
    BY DEF Endpoint
<1>1. CASE OnOwn(what)
    <2>1. [l \in Links |-> Own] \in [Links -> Servers]
        BY LinksConstants
    <2> QED BY <1>1, <2>1, RunsKeeps DEF OnOwn
<1>2. CASE Planned(what)
    <2>1. PICK r \in [Links -> Routes] : Runs(what, IF what = "one" THEN [l \in Links |-> r[1]] ELSE r)
        BY <1>2 DEF Planned
    <2> DEFINE q == IF what = "one" THEN [l \in Links |-> r[1]] ELSE r
    <2>2. q \in [Links -> Servers]
        BY LinksConstants DEF Servers
    <2>3. Runs(what, q)
        BY <2>1
    <2> HIDE DEF q
    <2> QED BY <1>2, <2>2, <2>3, RunsKeeps DEF Planned
<1>3. CASE Refuse(what)
    <2>1. /\ asks.at = "new" /\ asks' = [what |-> what, at |-> "refused"]
          /\ UNCHANGED <<names, route, group, reply>>
        BY <1>3 DEF Refuse
    <2>2. \A s \in Servers : group[s].at \in Ended
        BY <2>1 DEF LinksInv, Ended
    <2>3. asks' \in AskRows /\ asks'.at = "refused" /\ reply' = NoReply
        BY <2>1 DEF LinksInv, AskRows
    <2>4. ReplyWhole'
        BY <2>3 DEF ReplyWhole
    <2>5. GroupsSound'
        BY <2>1 DEF LinksInv, GroupsSound
    <2> QED BY <2>1, <2>2, <2>3, <2>4, <2>5 DEF LinksInv
<1> QED BY <1>1, <1>2, <1>3

LEMMA LinksKeep == LinksInv /\ [LinksNext]_linksVars => LinksInv'
<1> SUFFICES ASSUME LinksInv, [LinksNext]_linksVars PROVE LinksInv'
    OBVIOUS
<1>1. CASE LinksNext
    BY <1>1, SpreadsKeeps, BeginGroupKeeps, ParseLinkKeeps, ParseOneKeeps, ParsedKeeps, DetailKeeps,
       DetailsDoneKeeps, DownloadsKeeps, OneDoneKeeps, FailKeeps, CloseFailsKeeps, CancelKeeps,
       AnswerKeeps, OthersEndKeeps DEF LinksNext
<1>2. CASE UNCHANGED linksVars
    <2>1. UNCHANGED <<names, asks, route, group, reply>>
        BY <1>2 DEF linksVars
    <2>2. GroupsSound'
        BY <2>1 DEF LinksInv, GroupsSound
    <2>3. LoadedBy' = LoadedBy
        BY <2>1 DEF LoadedBy
    <2>4. ReplyWhole'
        BY <2>1, <2>3 DEF LinksInv, ReplyWhole
    <2> QED BY <2>1, <2>2, <2>4 DEF LinksInv
<1> QED BY <1>1, <1>2

\* The plan, the groups and the answer keep their types, for every number of
\* links and identities (main_server.py).
THEOREM LinksTypeCorrect == LinksSpec => []LinksTypeOK
BY LinksBegin, LinksKeep, LinksHave, PTL DEF LinksSpec

\* The answer accounts for every link once and in its order, in whatever order
\* the groups end and whichever of them fail; nothing runs behind the answer.
THEOREM LinksAreAnswered == LinksSpec => []LinksAnswered
<1>1. LinksInv => LinksAnswered
    <2> SUFFICES ASSUME LinksInv PROVE LinksAnswered
        OBVIOUS
    <2>1. \A s \in Servers : NoneTwice(group[s].parsed)
        BY DEF LinksInv, GroupsSound, GroupSound
    <2>2. \A s \in Servers : \A i, j \in DOMAIN group[s].parsed :
              group[s].parsed[i] = group[s].parsed[j] => i = j
        BY <2>1 DEF NoneTwice
    <2>3. asks.at \notin {"new", "running"} => \A s \in Servers : group[s].at \in Ended
        BY DEF LinksInv
    <2>4. asks.at \in {"raised", "refused", "cancelled"} => reply = NoReply
        BY DEF LinksInv
    <2>5. ReplyWhole
        BY DEF LinksInv
    <2>6. \A s \in Servers : \A i, j \in DOMAIN group[s].parsed :
              (i # j /\ group[s].parsed[i].id = group[s].parsed[j].id) =>
                  group[s].parsed[i].url # group[s].parsed[j].url
        <3>1. ASSUME NEW s \in Servers, NEW i \in DOMAIN group[s].parsed,
                     NEW j \in DOMAIN group[s].parsed, i # j
              PROVE  ~(/\ group[s].parsed[i].id = group[s].parsed[j].id
                       /\ group[s].parsed[i].url = group[s].parsed[j].url)
            <4>1. group[s].parsed[i] # group[s].parsed[j]
                BY <2>2, <3>1
            <4>2. group[s].parsed \in Seq(DetailTargets)
                BY DEF LinksInv, GroupsSound, GroupRows
            <4>3. group[s].parsed[i] \in DetailTargets /\ group[s].parsed[j] \in DetailTargets
                BY <4>2
            <4>4. \A v, w \in DetailTargets : v.id = w.id /\ v.url = w.url => v = w
                BY DEF DetailTargets
            <4> QED BY <4>1, <4>3, <4>4
        <3> QED BY <3>1
    <2> QED BY <2>3, <2>4, <2>5, <2>6 DEF LinksAnswered, ReplyWhole
<1> QED BY <1>1, LinksBegin, LinksKeep, PTL DEF LinksSpec

-----------------------------------------------------------------------------
(* The parts side by side *)

\* No part starts or steps otherwise than its own specification says.
LEMMA ServicesBegin ==
    Init => /\ CoverInit /\ AvatarInit /\ RiskInit /\ EndpointInit /\ LinksInit /\ NamesInit
            /\ StoreInit /\ AuditInit /\ CommentsInit /\ MarksInit /\ ActivityInit
BY DEF Init

LEMMA ServicesStep ==
    [Next]_vars =>
        /\ [CoverNext]_coverVars
        /\ [AvatarNext]_avatarVars
        /\ [RiskNext]_riskVars
        /\ [EndpointNext]_endpointVars
        /\ [LinksNext]_linksVars
        /\ [NamesNext]_namesVars
        /\ [StoreNext]_storeVars
        /\ [AuditNext]_auditVars
        /\ [CommentsNext]_commentVars
        /\ [MarksNext]_markVars
        /\ [ActivityNext]_activityVars
<1>1. ASSUME UNCHANGED vars
      PROVE  UNCHANGED <<coverVars, avatarVars, riskVars, endpointVars, linksVars, namesVars,
                         storeVars, auditVars, commentVars, markVars, activityVars>>
    BY <1>1 DEF vars
<1>2. ASSUME Next PROVE [CoverNext]_coverVars
    BY <1>2 DEF Next
<1>3. ASSUME Next PROVE [AvatarNext]_avatarVars
    BY <1>3 DEF Next
<1>4. ASSUME Next PROVE [RiskNext]_riskVars
    BY <1>4 DEF Next
<1>5. ASSUME Next PROVE [EndpointNext]_endpointVars
    BY <1>5 DEF Next
<1>6. ASSUME Next PROVE [LinksNext]_linksVars
    BY <1>6 DEF Next
<1>7. ASSUME Next PROVE [NamesNext]_namesVars
    BY <1>7 DEF Next
<1>8. ASSUME Next PROVE [StoreNext]_storeVars
    BY <1>8 DEF Next
<1>9. ASSUME Next PROVE [AuditNext]_auditVars
    BY <1>9 DEF Next
<1>10. ASSUME Next PROVE [CommentsNext]_commentVars
    BY <1>10 DEF Next
<1>11. ASSUME Next PROVE [MarksNext]_markVars
    BY <1>11 DEF Next
<1>12. ASSUME Next PROVE [ActivityNext]_activityVars
    BY <1>12 DEF Next
<1> QED BY <1>1, <1>2, <1>3, <1>4, <1>5, <1>6, <1>7, <1>8, <1>9, <1>10, <1>11, <1>12

\* The parts side by side do nothing that is not a behaviour of each of them.
THEOREM ServicesImplement ==
    Spec => /\ CoverSpec /\ AvatarSpec /\ RiskSpec /\ EndpointSpec /\ LinksSpec /\ NamesSpec
            /\ StoreSpec /\ AuditSpec /\ CommentsSpec /\ MarksSpec /\ ActivitySpec
<1>1. Spec => Init /\ [][Next]_vars
    BY PTL DEF Spec
<1>2. Spec => CoverSpec
    BY <1>1, ServicesBegin, ServicesStep, PTL DEF CoverSpec
<1>3. Spec => AvatarSpec
    BY <1>1, ServicesBegin, ServicesStep, PTL DEF AvatarSpec
<1>4. Spec => RiskSpec
    BY <1>1, ServicesBegin, ServicesStep, PTL DEF RiskSpec
<1>5. Spec => EndpointSpec
    BY <1>1, ServicesBegin, ServicesStep, PTL DEF EndpointSpec
<1>6. Spec => LinksSpec
    BY <1>1, ServicesBegin, ServicesStep, PTL DEF LinksSpec
<1>7. Spec => NamesSpec
    BY <1>1, ServicesBegin, ServicesStep, PTL DEF NamesSpec
<1>8. Spec => StoreSpec
    BY <1>1, ServicesBegin, ServicesStep, PTL DEF StoreSpec
<1>9. Spec => AuditSpec
    BY <1>1, ServicesBegin, ServicesStep, PTL DEF AuditSpec
<1>10. Spec => CommentsSpec
    BY <1>1, ServicesBegin, ServicesStep, PTL DEF CommentsSpec
<1>11. Spec => MarksSpec
    BY <1>1, ServicesBegin, ServicesStep, PTL DEF MarksSpec
<1>12. Spec => ActivitySpec
    BY <1>1, ServicesBegin, ServicesStep, PTL DEF ActivitySpec
<1> QED BY <1>2, <1>3, <1>4, <1>5, <1>6, <1>7, <1>8, <1>9, <1>10, <1>11, <1>12, PTL

\* Requests keep their distance however callers overlap: no request while a
\* pause for risk holds (TikTokRisk), one fetch of comments at a time, and the
\* delay between the beginnings of two (FeedComments).
THEOREM RequestsArePaced == Spec => RequestsPaced
BY ServicesImplement, RiskPausesKept, CommentsArePaced DEF RequestsPaced

\* What the board shows stands: pinned covers (BoardCovers), avatars over
\* restarts (AvatarBatch) and the newest work seen (AccountActivity).
THEOREM BoardAlwaysStands == Spec => BoardStands
BY ServicesImplement, CoversAreKept, AvatarsDrawnOnce, NewestStaysKnown DEF BoardStands

\* What is written stands: the identity store over kills between two writes,
\* the works of a renamed account, the listing of the likes.
THEOREM RecordsAlwaysStand == Spec => []RecordsStand
<1>1. StoreSound /\ NamesFollow /\ LikesListed => RecordsStand
    BY DEF RecordsStand
<1> QED BY <1>1, ServicesImplement, StoreStaysSound, NamesKeepUp, LikesStayListed, PTL

\* The answers are whole: what the endpoints list, what a list of links is
\* answered with and what the audit reports, whatever fails or changes on the way.
THEOREM AnswersAreWhole == Spec => []AnswersWhole
<1>1. ListingsWhole /\ LinksAnswered /\ AuditExact => AnswersWhole
    BY DEF AnswersWhole
<1> QED BY <1>1, ServicesImplement, ListingsStayWhole, LinksAreAnswered, AuditIsExact, PTL

\* Every part keeps what is of its kind.
THEOREM ServicesTypeCorrect == Spec => []TypeOK
<1>1. CoverTypeOK /\ AvatarTypeOK /\ RiskTypeOK /\ EndpointTypeOK /\ LinksTypeOK /\ NamesTypeOK
          /\ StoreTypeOK /\ AuditTypeOK /\ CommentsTypeOK /\ MarksTypeOK /\ ActivityTypeOK
      => TypeOK
    BY DEF TypeOK
<1> QED BY <1>1, ServicesImplement, CoverTypeCorrect, AvatarTypeCorrect, RiskTypeCorrect,
           EndpointTypeCorrect, LinksTypeCorrect, NamesTypeCorrect, StoreTypeCorrect,
           AuditTypeCorrect, CommentsTypeCorrect, MarksTypeCorrect, ActivityTypeCorrect, PTL
=============================================================================
