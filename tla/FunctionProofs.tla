---------------------------- MODULE FunctionProofs ----------------------------
(***************************************************************************)
(* What the functions of the program compute for every input: sums, the     *)
(* maintenance windows, the purchases in the dream shop, the command filter,  *)
(* the reading of a capture file.                                            *)
(***************************************************************************)
EXTENDS Totals, FunctionInputs,
        FiniteSetTheorems, WellFoundedInduction, TLAPS

-----------------------------------------------------------------------------
(* Totals: one member changes, one member comes, one goes.                  *)

\* The units of a finite family are finitely many.
LEMMA UnitsFinite ==
    ASSUME NEW K, IsFiniteSet(K), NEW f \in [K -> Nat]
    PROVE  IsFiniteSet(Units(f)) /\ Total(f) \in Nat
<1> DEFINE Of == [k \in K |-> {k} \X (1 .. f[k])]
           Parts == {{k} \X (1 .. f[k]) : k \in DOMAIN f}
<1>1. Of \in Surjection(K, Parts)
  BY DEF Surjection
<1>2. IsFiniteSet(Parts)
  BY <1>1, FS_Surjection
<1>3. \A T \in Parts : IsFiniteSet(T)
  <2>1. ASSUME NEW k \in K PROVE IsFiniteSet({k} \X (1 .. f[k]))
    <3>1. IsFiniteSet({k})
      BY FS_Singleton
    <3>2. IsFiniteSet(1 .. f[k])
      BY FS_Interval
    <3>3. QED
      BY <3>1, <3>2, FS_Product
  <2>2. QED
    BY <2>1
<1> HIDE DEF Of
<1>4. IsFiniteSet(UNION Parts)
  <2> HIDE DEF Parts
  <2>1. QED
    BY <1>2, <1>3, FS_UNION
<1>5. QED
  BY <1>4, FS_CardinalityType DEF Units, Total

\* A member that comes adds its own number.
LEMMA TotalAdds ==
    ASSUME NEW K, IsFiniteSet(K), NEW f \in [K -> Nat], NEW k, k \notin K,
           NEW g \in [K \cup {k} -> Nat], \A x \in K : g[x] = f[x]
    PROVE  Total(g) = Total(f) + g[k]
<1> DEFINE one == {k} \X (1 .. g[k])
<1>1. Units(g) = Units(f) \cup one
  BY DEF Units
<1>2. Units(f) \cap one = {}
  BY DEF Units
<1>3. g[k] \in Nat
  OBVIOUS
<1>4. IsFiniteSet(one) /\ Cardinality(one) = g[k]
  <2>1. IsFiniteSet(1 .. g[k]) /\ Cardinality(1 .. g[k]) = g[k]
    BY <1>3, FS_Interval
  <2>2. IsFiniteSet({k}) /\ Cardinality({k}) = 1
    BY FS_Singleton
  <2>3. IsFiniteSet(one) /\ Cardinality(one) = Cardinality({k}) * Cardinality(1 .. g[k])
    BY <2>1, <2>2, FS_Product
  <2>4. QED
    BY <1>3, <2>1, <2>2, <2>3
<1> HIDE DEF one
<1>5. IsFiniteSet(Units(f)) /\ Cardinality(Units(f)) \in Nat
  BY UnitsFinite DEF Total
<1>6. Cardinality(Units(f) \cup one) = Cardinality(Units(f)) + g[k] - 0
  <2>1. Cardinality(Units(f) \cup one)
          = Cardinality(Units(f)) + Cardinality(one) - Cardinality(Units(f) \cap one)
    BY <1>4, <1>5, FS_Union
  <2>2. QED
    BY <1>2, <1>4, <2>1, FS_EmptySet
<1>7. QED
  BY <1>1, <1>3, <1>5, <1>6 DEF Total

\* A member that goes takes its own number with it.
LEMMA TotalRemoves ==
    ASSUME NEW K, IsFiniteSet(K), NEW f \in [K -> Nat], NEW k \in K,
           NEW g \in [K \ {k} -> Nat], \A x \in K \ {k} : g[x] = f[x]
    PROVE  Total(g) = Total(f) - f[k]
<1>1. IsFiniteSet(K \ {k})
  BY FS_RemoveElement
<1>2. (K \ {k}) \cup {k} = K
  OBVIOUS
<1>3. Total(f) = Total(g) + f[k]
  <2>1. f \in [(K \ {k}) \cup {k} -> Nat]
    BY <1>2
  <2>2. \A x \in K \ {k} : f[x] = g[x]
    OBVIOUS
  <2>3. k \notin K \ {k}
    OBVIOUS
  <2>4. QED
    BY <1>1, <2>1, <2>2, <2>3, TotalAdds
<1>4. QED
  BY <1>1, <1>3, UnitsFinite

\* A member that changes makes its own difference.
LEMMA TotalChanges ==
    ASSUME NEW K, IsFiniteSet(K), NEW f \in [K -> Nat], NEW k \in K,
           NEW g \in [K -> Nat], \A x \in K \ {k} : g[x] = f[x]
    PROVE  Total(g) = Total(f) - f[k] + g[k]
<1> DEFINE rest == [x \in K \ {k} |-> f[x]]
<1>1. rest \in [K \ {k} -> Nat] /\ IsFiniteSet(K \ {k})
  BY FS_RemoveElement
<1>2. \A x \in K \ {k} : rest[x] = f[x] /\ rest[x] = g[x]
  OBVIOUS
<1> HIDE DEF rest
<1>3. Total(rest) = Total(f) - f[k]
  BY <1>1, <1>2, TotalRemoves
<1>4. Total(rest) = Total(g) - g[k]
  BY <1>1, <1>2, TotalRemoves
<1>5. QED
  BY <1>3, <1>4, UnitsFinite

\* A total of nothing, or of zeros, is zero.
LEMMA TotalOfZeros ==
    ASSUME NEW f, \A k \in DOMAIN f : f[k] = 0
    PROVE  Total(f) = 0
<1>1. Units(f) = {}
  BY DEF Units
<1>2. QED
  BY <1>1, FS_EmptySet DEF Total

-----------------------------------------------------------------------------
(* Loops and sorting.                                                       *)

\* A set of natural numbers has a smallest one.
LEMMA Smallest ==
    ASSUME NEW T \in SUBSET Nat, T # {}
    PROVE  \E n \in T : \A m \in T : n <= m
<1> DEFINE R == OpToRel(<, Nat)
<1>1. IsWellFoundedOn(R, Nat)
  BY NatLessThanWellFounded
<1>2. \A x, y \in Nat : x < y => <<x, y>> \in R
  BY DEF OpToRel
<1> HIDE DEF R
<1>3. PICK n \in T : \A m \in T : ~(<<m, n>> \in R)
  BY <1>1, WFMin
<1>4. ASSUME NEW m \in T PROVE n <= m
  <2>1. n \in Nat /\ m \in Nat /\ ~(<<m, n>> \in R)
    BY <1>3
  <2>2. ~(m < n)
    BY <1>2, <2>1
  <2>3. QED
    BY <2>1, <2>2
<1>5. QED
  BY <1>4

\* Induction, over a set instead of a predicate: the facts of the library that take
\* a predicate cannot be used by the provers.
LEMMA Induction ==
    ASSUME NEW T, 0 \in T, \A n \in Nat : n \in T => n + 1 \in T
    PROVE  Nat \subseteq T
<1>1. SUFFICES ASSUME Nat \ T # {} PROVE FALSE
  OBVIOUS
<1>2. PICK n \in Nat \ T : \A m \in Nat \ T : n <= m
  BY <1>1, Smallest
<1>3. n # 0 /\ n - 1 \in Nat
  BY <1>2
<1>4. n - 1 \in T
  BY <1>2, <1>3
<1>5. QED
  BY <1>2, <1>3, <1>4

\* A loop of n steps has a run: step i turns x into F[<<x, i>>].
IsRun(g, n, a, F) == g[0] = a /\ \A i \in 1..n : g[i] = F[<<g[i - 1], i>>]

LEMMA LoopRuns ==
    ASSUME NEW n \in Nat, NEW X, NEW a \in X, NEW F \in [X \X (1..n) -> X]
    PROVE  \E g \in [0..n -> X] : IsRun(g, n, a, F)
<1> DEFINE Runs(k, g) == g[0] = a /\ \A i \in 1..k : g[i] = F[<<g[i - 1], i>>]
           T == {k \in Nat : k <= n => \E g \in [0..k -> X] : Runs(k, g)}
<1>1. 0 \in T
  <2>1. [i \in 0..0 |-> a] \in [0..0 -> X] /\ Runs(0, [i \in 0..0 |-> a])
    OBVIOUS
  <2>2. QED
    BY <2>1
<1>2. ASSUME NEW k \in Nat, k \in T PROVE k + 1 \in T
  <2>1. SUFFICES ASSUME k + 1 <= n PROVE \E g \in [0..(k + 1) -> X] : Runs(k + 1, g)
    OBVIOUS
  <2>2. PICK g \in [0..k -> X] : Runs(k, g)
    BY <1>2, <2>1
  <2> DEFINE h == [i \in 0..(k + 1) |-> IF i <= k THEN g[i] ELSE F[<<g[k], k + 1>>]]
  <2>3. g[k] \in X /\ k + 1 \in 1..n /\ F[<<g[k], k + 1>>] \in X
    BY <2>1
  <2>4. h \in [0..(k + 1) -> X]
    BY <2>3
  <2>5. h[0] = a /\ \A i \in 1..(k + 1) : h[i] = F[<<h[i - 1], i>>]
    <3>1. h[0] = a
      BY <2>2
    <3>2. ASSUME NEW i \in 1..(k + 1) PROVE h[i] = F[<<h[i - 1], i>>]
      <4>1. i - 1 \in 0..k /\ h[i - 1] = g[i - 1]
        OBVIOUS
      <4>2. CASE i \in 1..k
        <5>1. h[i] = g[i] /\ g[i] = F[<<g[i - 1], i>>]
          BY <2>2, <4>2
        <5>2. QED
          BY <4>1, <5>1
      <4>3. CASE i = k + 1
        <5>1. h[k + 1] = F[<<g[k], k + 1>>] /\ h[i - 1] = g[k]
          BY <4>1, <4>3
        <5> HIDE DEF h
        <5>2. QED
          BY <4>3, <5>1
      <4>4. QED
        BY <4>2, <4>3
    <3>3. QED
      BY <3>1, <3>2
  <2>6. QED
    BY <2>4, <2>5
<1>3. Nat \subseteq T
  <2> HIDE DEF T
  <2>1. QED
    BY <1>1, <1>2, Induction
<1>4. n \in T
  BY <1>3
<1>5. QED
  BY <1>4 DEF IsRun

\* The number of members in P[i] is the place of i among the members of I.
Ranked(I, P) ==
    /\ Cardinality(I) \in Nat
    /\ \A i \in I : Cardinality(P[i]) \in 1..Cardinality(I)
    /\ \A i, k \in I : k \notin P[i] => Cardinality(P[i]) < Cardinality(P[k])
    /\ \A i, k \in I : Cardinality(P[i]) = Cardinality(P[k]) => i = k
    /\ \A r \in 1..Cardinality(I) : \E i \in I : Cardinality(P[i]) = r

\* Sorting by counting: P[i] is the set of members up to i, one more for each.
LEMMA Ranks ==
    ASSUME NEW I, IsFiniteSet(I), NEW P \in [I -> SUBSET I], \A i \in I : i \in P[i],
           \A i, k \in I : i # k => \/ P[i] \subseteq P[k] /\ k \notin P[i]
                                    \/ P[k] \subseteq P[i] /\ i \notin P[k]
    PROVE  Ranked(I, P)
<1> DEFINE n == Cardinality(I)
           f == [i \in I |-> Cardinality(P[i])]
<1>1. n \in Nat
  BY FS_CardinalityType
<1>2. ASSUME NEW i \in I
      PROVE  IsFiniteSet(P[i]) /\ Cardinality(P[i]) \in 1..n
  <2>1. P[i] \in SUBSET I /\ P[i] # {}
    OBVIOUS
  <2>2. IsFiniteSet(P[i]) /\ Cardinality(P[i]) <= n
    BY <2>1, FS_Subset
  <2>3. Cardinality(P[i]) \in Nat /\ Cardinality(P[i]) # 0
    BY <2>1, <2>2, FS_CardinalityType, FS_EmptySet
  <2>4. QED
    BY <1>1, <2>2, <2>3
<1>3. ASSUME NEW i \in I, NEW k \in I, k \notin P[i]
      PROVE  Cardinality(P[i]) < Cardinality(P[k])
  <2>1. P[i] \in SUBSET P[k] /\ P[k] # P[i]
    BY <1>3
  <2>2. Cardinality(P[i]) <= Cardinality(P[k]) /\ Cardinality(P[k]) # Cardinality(P[i])
    BY <1>2, <2>1, FS_Subset
  <2>3. Cardinality(P[i]) \in Nat /\ Cardinality(P[k]) \in Nat
    BY <1>2
  <2>4. QED
    BY <2>2, <2>3
<1>4. ASSUME NEW i \in I, NEW k \in I, Cardinality(P[i]) = Cardinality(P[k]) PROVE i = k
  <2>1. Cardinality(P[i]) \in Nat /\ Cardinality(P[k]) \in Nat
    BY <1>2
  <2>2. CASE k \notin P[i]
    BY <1>3, <1>4, <2>1, <2>2
  <2>3. CASE i \notin P[k]
    BY <1>3, <1>4, <2>1, <2>3
  <2>4. QED
    BY <2>2, <2>3
<1>5. f \in Injection(I, 1..n)
  <2>1. f \in [I -> 1..n]
    BY <1>2
  <2>2. \A i, k \in I : f[i] = f[k] => i = k
    BY <1>4
  <2>3. QED
    BY <2>1, <2>2 DEF Injection, IsInjective
<1>6. IsFiniteSet(1..n) /\ Cardinality(1..n) = n
  BY <1>1, FS_Interval
<1>7. f \in Surjection(I, 1..n)
  <2> HIDE DEF f, n
  <2>1. QED
    BY <1>5, <1>6, FS_Injection DEF n
<1>8. \A r \in 1..n : \E i \in I : f[i] = r
  BY <1>7 DEF Surjection
<1>9. \A r \in 1..n : \E i \in I : Cardinality(P[i]) = r
  BY <1>8
<1>10. QED
  BY <1>1, <1>2, <1>3, <1>4, <1>9 DEF Ranked

-----------------------------------------------------------------------------
(* MaintenanceWindows.                                                      *)

\* A time of day is a number of minutes.
LEMMA MinutesType == ASSUME NEW t \in Time PROVE Minutes(t) \in Nat
<1>1. t.h \in Nat /\ t.m \in Nat
  BY DEF Time
<1>2. QED
  BY <1>1 DEF Minutes

\* The windows I in their places.
LEMMA Places ==
    ASSUME NEW ws \in Seq(ConfigWindow), NEW I \in SUBSET (1..Len(ws))
    PROVE  /\ Cardinality(I) \in Nat
           /\ \A i \in I : \E r \in 1..Cardinality(I) : AtPlace(ws, I, r) = i
           /\ \A r \in 1..Cardinality(I) : AtPlace(ws, I, r) \in I
           /\ \A r, q \in 1..Cardinality(I) : r < q =>
                 Minutes(ws[AtPlace(ws, I, r)].start) <= Minutes(ws[AtPlace(ws, I, q)].start)
<1> DEFINE key(i) == Minutes(ws[i].start)
           P == [i \in I |-> {j \in I : ~Precedes(ws, i, j)}]
           n == Cardinality(I)
<1>1. \A i \in I : key(i) \in Nat /\ i \in Nat
  <2>1. \A i \in I : i \in Nat /\ ws[i] \in ConfigWindow
    OBVIOUS
  <2>2. \A i \in I : ws[i].start \in Time
    BY <2>1 DEF ConfigWindow
  <2>3. QED
    BY <2>1, <2>2, MinutesType
<1>2. \A i, j \in I : Precedes(ws, i, j) <=> key(i) < key(j) \/ (key(i) = key(j) /\ i < j)
  BY DEF Precedes
<1> HIDE DEF key
<1>3. IsFiniteSet(I)
  <2>1. IsFiniteSet(1..Len(ws))
    BY FS_Interval
  <2>2. QED
    BY <2>1, FS_Subset
<1>4. P \in [I -> SUBSET I] /\ \A i, k \in I : k \in P[i] <=> ~Precedes(ws, i, k)
  OBVIOUS
<1>5. \A i \in I : Place(ws, I, i) = Cardinality(P[i])
  BY DEF Place
<1> HIDE DEF P, n
<1>6. ASSUME NEW i \in I, NEW k \in I, Precedes(ws, i, k)
      PROVE  P[i] \subseteq P[k] /\ k \notin P[i]
  <2>1. \A j \in I : ~Precedes(ws, i, j) => ~Precedes(ws, k, j)
    BY <1>1, <1>2, <1>6
  <2>2. QED
    BY <1>4, <1>6, <2>1
<1>7. \A i, k \in I : i # k => Precedes(ws, i, k) \/ Precedes(ws, k, i)
  BY <1>1, <1>2
<1>8. \A i, k \in I : i # k => \/ P[i] \subseteq P[k] /\ k \notin P[i]
                               \/ P[k] \subseteq P[i] /\ i \notin P[k]
  BY <1>6, <1>7
<1>9. \A i \in I : i \in P[i]
  BY <1>1, <1>2, <1>4
<1>10. /\ n \in Nat
       /\ \A i \in I : Cardinality(P[i]) \in 1..n
       /\ \A i, k \in I : k \notin P[i] => Cardinality(P[i]) < Cardinality(P[k])
       /\ \A i, k \in I : Cardinality(P[i]) = Cardinality(P[k]) => i = k
       /\ \A r \in 1..n : \E i \in I : Cardinality(P[i]) = r
  <2>1. P \in [I -> SUBSET I]
    BY <1>4
  <2>2. Ranked(I, P)
    BY <1>3, <2>1, <1>8, <1>9, Ranks
  <2>3. QED
    BY <2>2 DEF Ranked, n
<1>11. \A r \in 1..n : AtPlace(ws, I, r) \in I /\ Place(ws, I, AtPlace(ws, I, r)) = r
  BY <1>5, <1>10 DEF AtPlace
<1>12. ASSUME NEW i \in I PROVE \E r \in 1..n : AtPlace(ws, I, r) = i
  <2>1. Place(ws, I, i) \in 1..n
    BY <1>5, <1>10
  <2>2. AtPlace(ws, I, Place(ws, I, i)) = i
    <3> DEFINE k == AtPlace(ws, I, Place(ws, I, i))
    <3>1. k \in I /\ Place(ws, I, k) = Place(ws, I, i)
      BY <1>11, <2>1
    <3> HIDE DEF k
    <3>2. k = i
      BY <1>5, <1>10, <3>1
    <3>3. QED
      BY <3>2 DEF k
  <2>3. QED
    BY <2>1, <2>2
<1>13. ASSUME NEW r \in 1..n, NEW q \in 1..n, r < q
       PROVE  key(AtPlace(ws, I, r)) <= key(AtPlace(ws, I, q))
  <2> DEFINE i == AtPlace(ws, I, r)    k == AtPlace(ws, I, q)
  <2>1. i \in I /\ k \in I /\ Cardinality(P[i]) = r /\ Cardinality(P[k]) = q
    BY <1>5, <1>11
  <2> HIDE DEF i, k
  <2>2. ~Precedes(ws, k, i)
    <3>1. Cardinality(P[k]) < Cardinality(P[i]) => FALSE
      BY <1>1, <1>10, <1>13, <2>1
    <3>2. QED
      BY <1>4, <1>10, <2>1, <3>1
  <2>3. key(i) <= key(k)
    BY <1>1, <1>2, <2>1, <2>2
  <2>4. QED
    BY <2>3 DEF i, k
<1>14. QED
  BY <1>10, <1>11, <1>12, <1>13 DEF key, n

-----------------------------------------------------------------------------
\* The intervals of a day and what they cover.
OfDay == 0..1439
Span == [start : OfDay, end : OfDay]
InSpan(x, t) == x.start <= t /\ t < x.end
Covers(s, n, t) == \E j \in 1..n : InSpan(s[j], t)
Proper(s) == \A j \in 1..Len(s) : s[j].start < s[j].end
Separated(s) == \A j, k \in 1..Len(s) : j < k => s[j].end < s[k].start

\* The fields of an interval, also after its end was moved.
LEMMA SpanFacts ==
    ASSUME NEW x \in Span
    PROVE  /\ x.start \in OfDay /\ x.end \in OfDay /\ x.start \in Nat /\ x.end \in Nat
           /\ \A e \in OfDay : [start |-> x.start, end |-> e] \in Span
<1>1. x.start \in OfDay /\ x.end \in OfDay
  BY DEF Span
<1>2. OfDay \subseteq Nat
  BY DEF OfDay
<1>3. \A e \in OfDay : [start |-> x.start, end |-> e] \in Span
  BY <1>1 DEF Span
<1>4. QED
  BY <1>1, <1>2, <1>3

\* Merging one more interval, which begins no earlier than the last: what is covered
\* gains that interval, and what is merged stays separated.
LEMMA MergeStep ==
    ASSUME NEW m \in Seq(Span), Proper(m), Separated(m), NEW x \in Span, x.start < x.end,
           \A j \in 1..Len(m) : m[j].start <= x.start,
           NEW g, g = merge_last(m, x)
    PROVE  /\ g \in Seq(Span) /\ Proper(g) /\ Separated(g)
           /\ \A j \in 1..Len(g) : g[j].start <= x.start
           /\ \A t \in Int : Covers(g, Len(g), t) <=> Covers(m, Len(m), t) \/ InSpan(x, t)
<1> DEFINE n == Len(m)
<1>1. /\ n \in Nat /\ x.start \in Nat /\ x.end \in Nat
      /\ \A j \in 1..n : m[j] \in Span /\ m[j].start \in Nat /\ m[j].end \in Nat
  <2>1. n \in Nat /\ \A j \in 1..n : m[j] \in Span
    OBVIOUS
  <2>2. QED
    BY <2>1, SpanFacts
<1>2. CASE n > 0 /\ x.start <= m[n].end
  <2> DEFINE y == [start |-> m[n].start, end |-> IF x.end > m[n].end THEN x.end ELSE m[n].end]
  <2>1. n \in 1..n
    BY <1>1, <1>2
  <2>2. y \in Span /\ y.start = m[n].start /\ y.end \in {x.end, m[n].end}
        /\ y.end >= x.end /\ y.end >= m[n].end
    BY <1>1, <2>1, SpanFacts
  <2>3. g = [m EXCEPT ![n] = y]
    BY <1>2 DEF merge_last
  <2> HIDE DEF y
  <2>4. /\ g \in Seq(Span) /\ Len(g) = n /\ g[n] = y
        /\ \A j \in 1..n : j # n => g[j] = m[j]
    BY <2>1, <2>2, <2>3
  <2>5. m[n].start <= x.start /\ m[n].start < m[n].end
    BY <2>1 DEF Proper
  <2>6. \A j \in 1..Len(g) : g[j].start = m[j].start
    BY <2>2, <2>4
  <2>7. Proper(g)
    BY <1>1, <2>1, <2>2, <2>4, <2>5 DEF Proper
  <2>8. Separated(g)
    <3>1. ASSUME NEW j \in 1..n, NEW k \in 1..n, j < k PROVE g[j].end < g[k].start
      <4>1. m[j].end < m[k].start /\ g[j] = m[j]
        BY <1>1, <2>4, <3>1 DEF Separated
      <4>2. g[k].start = m[k].start
        BY <2>4, <2>6
      <4>3. QED
        BY <4>1, <4>2
    <3>2. QED
      BY <2>4, <3>1 DEF Separated
  <2>9. ASSUME NEW t \in Int
        PROVE  Covers(g, n, t) <=> Covers(m, n, t) \/ InSpan(x, t)
    <3>1. InSpan(y, t) <=> InSpan(m[n], t) \/ InSpan(x, t)
      BY <1>1, <1>2, <2>1, <2>2, <2>5 DEF InSpan
    <3>2. QED
      BY <2>1, <2>4, <3>1 DEF Covers
  <2>10. QED
    BY <2>4, <2>6, <2>7, <2>8, <2>9
<1>3. CASE ~(n > 0 /\ x.start <= m[n].end)
  <2>1. g = Append(m, x)
    BY <1>3 DEF merge_last
  <2>2. /\ g \in Seq(Span) /\ Len(g) = n + 1 /\ g[n + 1] = x
        /\ \A j \in 1..n : g[j] = m[j]
    BY <2>1
  <2>3. \A j \in 1..(n + 1) : j \in 1..n \/ j = n + 1
    BY <1>1
  <2>4. \A j \in 1..n : m[j].end < x.start
    <3>1. ASSUME NEW j \in 1..n PROVE m[j].end < x.start
      <4>1. n \in 1..n /\ m[n].end < x.start /\ m[n].start < m[n].end
        BY <1>1, <1>3 DEF Proper
      <4>2. CASE j = n
        BY <4>1, <4>2
      <4>3. CASE j < n
        <5>1. m[j].end < m[n].start
          BY <4>1, <4>3 DEF Separated
        <5>2. QED
          BY <1>1, <4>1, <5>1
      <4>4. QED
        BY <1>1, <4>2, <4>3
    <3>2. QED
      BY <3>1
  <2>5. Proper(g) /\ \A j \in 1..Len(g) : g[j].start <= x.start
    <3>1. \A j \in 1..(n + 1) : g[j].start < g[j].end /\ g[j].start <= x.start
      BY <1>1, <2>2, <2>3 DEF Proper
    <3>2. QED
      BY <2>2, <3>1 DEF Proper
  <2>6. Separated(g)
    <3>1. ASSUME NEW j \in 1..(n + 1), NEW k \in 1..(n + 1), j < k PROVE g[j].end < g[k].start
      <4>1. j \in 1..n /\ g[j] = m[j]
        BY <1>1, <2>2, <3>1
      <4>2. CASE k \in 1..n
        <5>1. m[j].end < m[k].start /\ g[k] = m[k]
          BY <2>2, <3>1, <4>1, <4>2 DEF Separated
        <5>2. QED
          BY <4>1, <5>1
      <4>3. CASE k = n + 1
        BY <2>2, <2>4, <4>1, <4>3
      <4>4. QED
        BY <2>3, <4>2, <4>3
    <3>2. QED
      BY <2>2, <3>1 DEF Separated
  <2>7. ASSUME NEW t \in Int
        PROVE  Covers(g, n + 1, t) <=> Covers(m, n, t) \/ InSpan(x, t)
    <3>1. n + 1 \in 1..(n + 1) /\ 1..n \subseteq 1..(n + 1)
      BY <1>1
    <3>2. QED
      BY <2>2, <2>3, <3>1 DEF Covers
  <2>8. QED
    BY <2>2, <2>5, <2>6, <2>7
<1>4. QED
  BY <1>2, <1>3

\* The loop runs.
LEMMA MergingRuns ==
    ASSUME NEW s \in Seq(Span)
    PROVE  /\ merging(s)[0] = <<>>
           /\ \A i \in 1..Len(s) : merging(s)[i] = merge_last(merging(s)[i - 1], s[i])
<1> DEFINE n == Len(s)
           X == Seq(Span)
           none == <<>>
           F == [q \in X \X (1..n) |-> merge_last(q[1], s[q[2]])]
           Is(g) == g = [i \in 0..n |-> IF i = 0 THEN <<>> ELSE merge_last(g[i - 1], s[i])]
<1>1. n \in Nat /\ <<>> \in X
  OBVIOUS
<1>2. ASSUME NEW m \in X, NEW x \in Span PROVE merge_last(m, x) \in X
  <2> DEFINE k == Len(m)
             y == [start |-> m[k].start, end |-> IF x.end > m[k].end THEN x.end ELSE m[k].end]
  <2>1. CASE k > 0 /\ x.start <= m[k].end
    <3>1. m[k] \in Span /\ k \in 1..k
      BY <2>1
    <3>2. y \in Span
      BY <3>1, SpanFacts
    <3>3. merge_last(m, x) = [m EXCEPT ![k] = y]
      BY <2>1 DEF merge_last
    <3> HIDE DEF y
    <3>4. QED
      BY <3>1, <3>2, <3>3
  <2>2. CASE ~(k > 0 /\ x.start <= m[k].end)
    BY <2>2 DEF merge_last
  <2>3. QED
    BY <2>1, <2>2
<1>3. F \in [X \X (1..n) -> X]
  <2>1. ASSUME NEW q \in X \X (1..n) PROVE merge_last(q[1], s[q[2]]) \in X
    <3>1. q[1] \in X /\ q[2] \in 1..n
      OBVIOUS
    <3>2. s[q[2]] \in Span
      BY <3>1
    <3> HIDE DEF X
    <3>3. QED
      BY <1>2, <3>1, <3>2
  <2> HIDE DEF X
  <2>2. QED
    BY <2>1
<1>4. \A m \in X, i \in 1..n : F[<<m, i>>] = merge_last(m, s[i])
  OBVIOUS
<1>a. none \in X
  BY <1>1
<1> HIDE DEF F, X, n, Is, none
<1>b. PICK g \in [0..n -> X] : IsRun(g, n, none, F)
  <2>1. n \in Nat
    BY <1>1
  <2>2. QED
    BY <1>3, <1>a, <2>1, LoopRuns
<1>5. g[0] = none /\ \A i \in 1..n : g[i] = F[<<g[i - 1], i>>]
  BY <1>b DEF IsRun
<1>6. \A i \in 1..n : g[i] = merge_last(g[i - 1], s[i])
  <2>1. \A i \in 1..n : i - 1 \in 0..n
    BY <1>1
  <2>2. \A i \in 1..n : g[i - 1] \in X
    BY <2>1
  <2>3. QED
    BY <1>4, <1>5, <2>2
<1>7. Is(g)
  <2>1. \A i \in 0..n : i # 0 => i \in 1..n
    BY <1>1
  <2>2. \A i \in 0..n : g[i] = IF i = 0 THEN <<>> ELSE merge_last(g[i - 1], s[i])
    BY <1>5, <1>6, <2>1 DEF none
  <2>3. QED
    BY <2>2 DEF Is
<1>8. merging(s) = CHOOSE f : Is(f)
  BY DEF merging, n, Is
<1>9. Is(merging(s))
  BY <1>7, <1>8
<1>10. \A i \in 0..n : merging(s)[i] = IF i = 0 THEN <<>> ELSE merge_last(merging(s)[i - 1], s[i])
  BY <1>9 DEF Is
<1>11. 0 \in 0..n /\ \A i \in 1..n : i \in 0..n /\ i # 0
  BY <1>1
<1>12. QED
  BY <1>10, <1>11 DEF n

SpansOrdered(s) == \A j, k \in 1..Len(s) : j < k => s[j].start <= s[k].start

\* What the loop has made of the first i intervals.
MergedFirst(s, i, m) ==
    /\ m \in Seq(Span) /\ Proper(m) /\ Separated(m)
    /\ \A j \in 1..Len(m), k \in 1..Len(s) : i < k => m[j].start <= s[k].start
    /\ \A t \in Int : Covers(m, Len(m), t) <=> Covers(s, i, t)

\* The whole loop covers what its intervals cover, and leaves gaps between.
LEMMA MergedRight ==
    ASSUME NEW s \in Seq(Span), Proper(s), SpansOrdered(s)
    PROVE  MergedFirst(s, Len(s), merging(s)[Len(s)])
<1> DEFINE n == Len(s)
           T == {i \in Nat : i <= n => MergedFirst(s, i, merging(s)[i])}
<1>1. n \in Nat
  OBVIOUS
<1>2. 0 \in T
  <2>1. merging(s)[0] = <<>>
    BY MergingRuns
  <2>2. <<>> \in Seq(Span) /\ Len(<<>>) = 0 /\ 1..0 = {}
    OBVIOUS
  <2>3. MergedFirst(s, 0, <<>>)
    BY <2>2 DEF MergedFirst, Proper, Separated, Covers
  <2>4. QED
    BY <2>1, <2>3
<1>3. ASSUME NEW i \in Nat, i \in T PROVE i + 1 \in T
  <2>1. SUFFICES ASSUME i + 1 <= n PROVE MergedFirst(s, i + 1, merging(s)[i + 1])
    BY <1>3
  <2> DEFINE m == merging(s)[i]    g == merging(s)[i + 1]    x == s[i + 1]
  <2>2. i + 1 \in 1..n /\ i + 1 - 1 = i
    BY <1>1, <2>1
  <2>3. g = merge_last(m, x)
    BY <2>2, MergingRuns
  <2>4. x \in Span /\ x.start < x.end /\ x.start \in Nat
    BY <2>2, SpanFacts DEF Proper
  <2>5. MergedFirst(s, i, m)
    BY <1>1, <1>3, <2>1
  <2>6. \A k \in 1..n : i + 1 < k => x.start <= s[k].start
    BY <2>2 DEF SpansOrdered
  <2>7. \A t \in Int : Covers(s, i + 1, t) <=> Covers(s, i, t) \/ InSpan(x, t)
    <3>1. \A j \in 1..(i + 1) : j \in 1..i \/ j = i + 1
      OBVIOUS
    <3>2. i + 1 \in 1..(i + 1) /\ 1..i \subseteq 1..(i + 1)
      OBVIOUS
    <3>3. QED
      BY <3>1, <3>2 DEF Covers
  <2> HIDE DEF m, g, x, n
  <2>8. \A j \in 1..Len(m) : m[j].start <= x.start
    BY <2>2, <2>5 DEF MergedFirst, x, n
  <2>9. /\ g \in Seq(Span) /\ Proper(g) /\ Separated(g)
        /\ \A j \in 1..Len(g) : g[j].start <= x.start
        /\ \A t \in Int : Covers(g, Len(g), t) <=> Covers(m, Len(m), t) \/ InSpan(x, t)
    <3>1. m \in Seq(Span) /\ Proper(m) /\ Separated(m)
      BY <2>5 DEF MergedFirst
    <3>2. QED
      BY <2>3, <2>4, <2>8, <3>1, MergeStep
  <2>10. \A j \in 1..Len(g), k \in 1..n : i + 1 < k => g[j].start <= s[k].start
    <3>1. \A j \in 1..Len(g) : g[j].start \in Nat /\ g[j].start <= x.start
      BY <2>9, SpanFacts
    <3>2. \A k \in 1..n : s[k].start \in Nat
      BY SpanFacts DEF n
    <3>3. QED
      BY <2>4, <2>6, <3>1, <3>2
  <2>11. \A t \in Int : Covers(g, Len(g), t) <=> Covers(s, i + 1, t)
    BY <2>5, <2>7, <2>9 DEF MergedFirst
  <2>12. MergedFirst(s, i + 1, g)
    BY <2>9, <2>10, <2>11 DEF MergedFirst, n
  <2>13. QED
    BY <2>12 DEF g
<1>4. n \in T
  <2> HIDE DEF T
  <2>1. QED
    BY <1>1, <1>2, <1>3, Induction
<1>5. QED
  BY <1>4

\* A valid window stands for a span of its day.
LEMMA ValidSpan ==
    ASSUME NEW w \in ConfigWindow, ValidWindow(w)
    PROVE  /\ Minutes(w.start) \in OfDay /\ Minutes(w.end) \in OfDay
           /\ Minutes(w.start) < Minutes(w.end) /\ OfDay \subseteq Nat
<1>1. ASSUME NEW t \in Time, parse_hhmm_strict(t) PROVE Minutes(t) \in OfDay
  <2>1. t.h \in 0..23 /\ t.m \in 0..59
    BY <1>1 DEF parse_hhmm_strict
  <2>2. QED
    BY <2>1 DEF Minutes, OfDay
<1>2. w.start \in Time /\ w.end \in Time
  BY DEF ConfigWindow
<1>3. OfDay \subseteq Nat
  BY DEF OfDay
<1>4. QED
  BY <1>1, <1>2, <1>3 DEF ValidWindow

\* The times written back are the ones that were read.
LEMMA TimeWritten ==
    ASSUME NEW n \in OfDay
    PROVE  /\ minutes_to_hhmm(n) \in Time /\ parse_hhmm_strict(minutes_to_hhmm(n))
           /\ Minutes(minutes_to_hhmm(n)) = n
<1>1. n \in Nat /\ n <= 1439
  BY DEF OfDay
<1>2. n \div 60 \in 0..23 /\ n % 60 \in 0..59 /\ (n \div 60) * 60 + (n % 60) = n
  BY <1>1
<1>3. minutes_to_hhmm(n) = [h |-> n \div 60, m |-> n % 60]
  BY DEF minutes_to_hhmm, Hhmm
<1> DEFINE q == n \div 60    r == n % 60
<1> HIDE DEF q, r
<1>4. q \in 0..23 /\ r \in 0..59 /\ q * 60 + r = n /\ minutes_to_hhmm(n) = [h |-> q, m |-> r]
  BY <1>2, <1>3 DEF q, r
<1>5. QED
  BY <1>4 DEF Time, parse_hhmm_strict, Minutes

\* The minute is in a window of the list.
HitBy(ws, day, t) ==
    \E i \in 1..Len(ws) : /\ ValidWindow(ws[i]) /\ ws[i].weekday = day
                          /\ Minutes(ws[i].start) <= t /\ t < Minutes(ws[i].end)

\* Only a valid window is hit.
LEMMA HitIsValid ==
    ASSUME NEW ws \in Seq(ConfigWindow), NEW day, NEW t \in Int
    PROVE  maintenance_hit(ws, day, t) <=> HitBy(ws, day, t)
<1>1. \A i \in 1..Len(ws) : Minutes(ws[i].start) \in Nat /\ Minutes(ws[i].end) \in Nat
  <2>1. \A i \in 1..Len(ws) : ws[i] \in ConfigWindow
    OBVIOUS
  <2>2. \A i \in 1..Len(ws) : ws[i].start \in Time /\ ws[i].end \in Time
    BY <2>1 DEF ConfigWindow
  <2>3. QED
    BY <2>2, MinutesType
<1>2. \A i \in 1..Len(ws) :
         Minutes(ws[i].start) <= t /\ t < Minutes(ws[i].end)
           => Minutes(ws[i].start) < Minutes(ws[i].end)
  BY <1>1
<1>3. QED
  BY <1>2, Zenon DEF maintenance_hit, ValidWindow, HitBy

\* The intervals of a day: in order, and all of its windows.
LEMMA IntervalsRight ==
    ASSUME NEW ws \in Seq(ConfigWindow), NEW day, NEW s, s = intervals(ws, day)
    PROVE  /\ s \in Seq(Span) /\ Proper(s) /\ SpansOrdered(s)
           /\ \A t \in Int : Covers(s, Len(s), t) <=> maintenance_hit(ws, day, t)
<1> DEFINE I == grouped(ws, day)
           n == Cardinality(I)
           at(r) == AtPlace(ws, I, r)
<1>1. /\ I \in SUBSET (1..Len(ws)) /\ \A i \in 1..Len(ws) : i \in I <=> ValidWindow(ws[i]) /\ ws[i].weekday = day
  BY DEF grouped
<1>2. s = [r \in 1..n |-> [start |-> Minutes(ws[at(r)].start), end |-> Minutes(ws[at(r)].end)]]
  BY DEF intervals
<1> HIDE DEF I
<1>3. /\ n \in Nat
      /\ \A i \in I : \E r \in 1..n : at(r) = i
      /\ \A r \in 1..n : at(r) \in I
      /\ \A r, q \in 1..n : r < q => Minutes(ws[at(r)].start) <= Minutes(ws[at(q)].start)
  BY <1>1, Places
<1> HIDE DEF n, at
<1>4. \A i \in I : /\ Minutes(ws[i].start) \in OfDay /\ Minutes(ws[i].end) \in OfDay
                   /\ Minutes(ws[i].start) < Minutes(ws[i].end)
  BY <1>1, ValidSpan
<1>5. \A r \in 1..n : [start |-> Minutes(ws[at(r)].start), end |-> Minutes(ws[at(r)].end)] \in Span
  BY <1>3, <1>4 DEF Span
<1>6. /\ s \in Seq(Span) /\ Len(s) = n
      /\ \A r \in 1..n : s[r].start = Minutes(ws[at(r)].start) /\ s[r].end = Minutes(ws[at(r)].end)
  BY <1>2, <1>3, <1>5
<1>7. Proper(s) /\ SpansOrdered(s)
  <2>1. \A r \in 1..n : s[r].start < s[r].end
    BY <1>3, <1>4, <1>6
  <2>2. \A r, q \in 1..n : r < q => s[r].start <= s[q].start
    BY <1>3, <1>6
  <2>3. QED
    BY <1>6, <2>1, <2>2 DEF Proper, SpansOrdered
<1>8. ASSUME NEW t \in Int PROVE Covers(s, Len(s), t) <=> maintenance_hit(ws, day, t)
  <2> DEFINE In(i) == Minutes(ws[i].start) <= t /\ t < Minutes(ws[i].end)
  <2>1. maintenance_hit(ws, day, t) <=> \E i \in I : In(i)
    <3>1. maintenance_hit(ws, day, t) <=> HitBy(ws, day, t)
      BY HitIsValid
    <3>2. QED
      BY <1>1, <3>1 DEF HitBy
  <2>2. \A r \in 1..n : InSpan(s[r], t) <=> In(at(r))
    BY <1>6 DEF InSpan
  <2> HIDE DEF In
  <2>3. QED
    BY <1>3, <1>6, <2>1, <2>2 DEF Covers
<1>9. QED
  BY <1>6, <1>7, <1>8

\* out holds what is meant by the windows of the days D of ws.
Days(ws, D, out) ==
    /\ out \in Seq(ConfigWindow)
    /\ \A i \in 1..Len(out) : ValidWindow(out[i]) /\ out[i].weekday \in D
    /\ \A i, j \in 1..Len(out) : i < j /\ out[i].weekday = out[j].weekday
                                   => Minutes(out[i].end) < Minutes(out[j].start)
    /\ \A day \in 0..6, t \in Int :
          maintenance_hit(out, day, t) <=> day \in D /\ maintenance_hit(ws, day, t)

\* The windows written back for one day.
LEMMA OneDayRight ==
    ASSUME NEW ws \in Seq(ConfigWindow), NEW d \in 0..6
    PROVE  Days(ws, {d}, NormalizedDay(ws, d))
<1> DEFINE s == intervals(ws, d)
           m == merging(s)[Len(s)]
           out == NormalizedDay(ws, d)
<1>1. /\ s \in Seq(Span) /\ Proper(s) /\ SpansOrdered(s)
      /\ \A t \in Int : Covers(s, Len(s), t) <=> maintenance_hit(ws, d, t)
  BY IntervalsRight
<1> HIDE DEF s
<1>2. MergedFirst(s, Len(s), m)
  BY <1>1, MergedRight
<1>3. out = [i \in 1..Len(m) |->
               [weekday |-> d, start |-> minutes_to_hhmm(m[i].start),
                end |-> minutes_to_hhmm(m[i].end)]]
  BY DEF NormalizedDay, s
<1> HIDE DEF m, out
<1>4. /\ m \in Seq(Span) /\ Proper(m) /\ Separated(m)
      /\ \A t \in Int : Covers(m, Len(m), t) <=> maintenance_hit(ws, d, t)
  BY <1>1, <1>2 DEF MergedFirst
<1> DEFINE n == Len(m)
<1>5. n \in Nat /\ \A i \in 1..n : m[i] \in Span
  BY <1>4
<1>6. \A i \in 1..n : m[i].start \in OfDay /\ m[i].end \in OfDay
  BY <1>5, SpanFacts
<1>7. \A i \in 1..n : [weekday |-> d, start |-> minutes_to_hhmm(m[i].start),
                       end |-> minutes_to_hhmm(m[i].end)] \in ConfigWindow
  BY <1>6, TimeWritten DEF ConfigWindow
<1>8. /\ out \in Seq(ConfigWindow) /\ Len(out) = n
      /\ \A i \in 1..n : /\ out[i].weekday = d /\ out[i].start = minutes_to_hhmm(m[i].start)
                          /\ out[i].end = minutes_to_hhmm(m[i].end)
  BY <1>3, <1>5, <1>7
<1> HIDE DEF n
<1>9. \A i \in 1..n : /\ Minutes(out[i].start) = m[i].start /\ Minutes(out[i].end) = m[i].end
                      /\ parse_hhmm_strict(out[i].start) /\ parse_hhmm_strict(out[i].end)
  BY <1>6, <1>8, TimeWritten
<1>10. \A i \in 1..n : ValidWindow(out[i])
  <2>1. \A i \in 1..n : m[i].start < m[i].end
    BY <1>4 DEF Proper, n
  <2>2. QED
    BY <1>8, <1>9, <2>1 DEF ValidWindow, parse_weekday
<1>11. \A i, j \in 1..n : i < j => Minutes(out[i].end) < Minutes(out[j].start)
  <2>1. \A i, j \in 1..n : i < j => m[i].end < m[j].start
    BY <1>4 DEF Separated, n
  <2>2. QED
    BY <1>9, <2>1
<1>12. ASSUME NEW day \in 0..6, NEW t \in Int
       PROVE  maintenance_hit(out, day, t) <=> day \in {d} /\ maintenance_hit(ws, day, t)
  <2>1. maintenance_hit(out, day, t) <=>
          \E i \in 1..n : /\ ValidWindow(out[i]) /\ out[i].weekday = day
                          /\ Minutes(out[i].start) <= t /\ t < Minutes(out[i].end)
    BY <1>8, HitIsValid DEF HitBy
  <2>2. \A i \in 1..n : InSpan(m[i], t) <=> Minutes(out[i].start) <= t /\ t < Minutes(out[i].end)
    BY <1>9 DEF InSpan
  <2>3. maintenance_hit(out, day, t) <=> day = d /\ Covers(m, n, t)
    BY <1>8, <1>10, <2>1, <2>2 DEF Covers
  <2>4. QED
    BY <1>4, <2>3 DEF n
<1>13. Days(ws, {d}, out)
  BY <1>8, <1>10, <1>11, <1>12 DEF Days
<1>14. QED
  BY <1>13 DEF out

\* The windows of the next day behind the ones before it.
LEMMA DayAdded ==
    ASSUME NEW ws \in Seq(ConfigWindow), NEW d \in 0..5, NEW a, Days(ws, 0..d, a),
           NEW b, Days(ws, {d + 1}, b)
    PROVE  Days(ws, 0..(d + 1), a \o b)
<1> DEFINE n == Len(a)    k == Len(b)    c == a \o b
<1>1. a \in Seq(ConfigWindow) /\ b \in Seq(ConfigWindow) /\ n \in Nat /\ k \in Nat
  BY DEF Days
<1>2. /\ c \in Seq(ConfigWindow) /\ Len(c) = n + k
      /\ \A i \in 1..n : c[i] = a[i]
      /\ \A i \in 1..k : c[n + i] = b[i]
  BY <1>1
<1>3. \A i \in 1..(n + k) : i \in 1..n \/ (i - n \in 1..k /\ c[i] = b[i - n])
  BY <1>1, <1>2
<1>4. \A i \in 1..n : ValidWindow(a[i]) /\ a[i].weekday \in 0..d
  BY DEF Days
<1>5. \A i \in 1..k : ValidWindow(b[i]) /\ b[i].weekday = d + 1
  BY DEF Days
<1> HIDE DEF n, k, c
<1>6. \A i \in 1..(n + k) : ValidWindow(c[i]) /\ c[i].weekday \in 0..(d + 1)
  <2>1. ASSUME NEW i \in 1..(n + k) PROVE ValidWindow(c[i]) /\ c[i].weekday \in 0..(d + 1)
    <3>1. CASE i \in 1..n
      BY <1>2, <1>4, <3>1
    <3>2. CASE i - n \in 1..k /\ c[i] = b[i - n]
      BY <1>5, <3>2
    <3>3. QED
      BY <1>3, <3>1, <3>2
  <2>2. QED
    BY <2>1
<1>7. ASSUME NEW i \in 1..(n + k), NEW j \in 1..(n + k), i < j, c[i].weekday = c[j].weekday
      PROVE  Minutes(c[i].end) < Minutes(c[j].start)
  <2>1. CASE i \in 1..n /\ j \in 1..n
    <3>1. a[i].weekday = a[j].weekday
      BY <1>2, <1>7, <2>1
    <3>2. Minutes(a[i].end) < Minutes(a[j].start)
      BY <1>7, <2>1, <3>1 DEF Days, n
    <3>3. QED
      BY <1>2, <2>1, <3>2
  <2>2. CASE i \in 1..n /\ j \notin 1..n
    <3>1. c[j].weekday = d + 1 /\ c[i].weekday \in 0..d
      BY <1>2, <1>3, <1>4, <1>5, <2>2
    <3>2. QED
      BY <1>7, <3>1
  <2>3. CASE i \notin 1..n
    <3>1. i - n \in 1..k /\ c[i] = b[i - n]
      BY <1>3, <2>3
    <3>2. j - n \in 1..k /\ c[j] = b[j - n] /\ i - n < j - n
      BY <1>1, <1>3, <1>7, <2>3
    <3>3. Minutes(b[i - n].end) < Minutes(b[j - n].start)
      BY <1>5, <3>1, <3>2 DEF Days, k
    <3>4. QED
      BY <3>1, <3>2, <3>3
  <2>4. QED
    BY <2>1, <2>2, <2>3
<1>8. ASSUME NEW day \in 0..6, NEW t \in Int
      PROVE  maintenance_hit(c, day, t) <=> day \in 0..(d + 1) /\ maintenance_hit(ws, day, t)
  <2> DEFINE Hit(w) == /\ ValidWindow(w) /\ w.weekday = day
                       /\ Minutes(w.start) <= t /\ t < Minutes(w.end)
  <2>1. /\ maintenance_hit(a, day, t) <=> \E i \in 1..n : Hit(a[i])
        /\ maintenance_hit(b, day, t) <=> \E i \in 1..k : Hit(b[i])
        /\ maintenance_hit(c, day, t) <=> \E i \in 1..(n + k) : Hit(c[i])
    <3>1. /\ maintenance_hit(a, day, t) <=> HitBy(a, day, t)
          /\ maintenance_hit(b, day, t) <=> HitBy(b, day, t)
          /\ maintenance_hit(c, day, t) <=> HitBy(c, day, t)
      BY <1>1, <1>2, HitIsValid
    <3>2. /\ HitBy(a, day, t) <=> \E i \in 1..n : Hit(a[i])
          /\ HitBy(b, day, t) <=> \E i \in 1..k : Hit(b[i])
          /\ HitBy(c, day, t) <=> \E i \in 1..Len(c) : Hit(c[i])
      BY DEF HitBy, n, k
    <3> HIDE DEF Hit
    <3>3. QED
      BY <1>2, <3>1, <3>2
  <2> HIDE DEF Hit
  <2>2. (\E i \in 1..(n + k) : Hit(c[i])) <=> (\E i \in 1..n : Hit(a[i])) \/ (\E i \in 1..k : Hit(b[i]))
    <3>1. \A i \in 1..n : i \in 1..(n + k)
      BY <1>1
    <3>2. \A i \in 1..k : n + i \in 1..(n + k)
      BY <1>1
    <3>3. QED
      BY <1>2, <1>3, <3>1, <3>2
  <2>3. /\ maintenance_hit(a, day, t) <=> day \in 0..d /\ maintenance_hit(ws, day, t)
        /\ maintenance_hit(b, day, t) <=> day \in {d + 1} /\ maintenance_hit(ws, day, t)
    BY DEF Days
  <2>4. day \in 0..(d + 1) <=> day \in 0..d \/ day \in {d + 1}
    OBVIOUS
  <2>5. QED
    BY <2>1, <2>2, <2>3, <2>4
<1>9. QED
  BY <1>2, <1>6, <1>7, <1>8 DEF Days, c

\* All seven days.
LEMMA WeekRight ==
    ASSUME NEW ws \in Seq(ConfigWindow)
    PROVE  Days(ws, 0..6, NormalizedDay(ws, 0) \o NormalizedDay(ws, 1) \o NormalizedDay(ws, 2)
                   \o NormalizedDay(ws, 3) \o NormalizedDay(ws, 4) \o NormalizedDay(ws, 5)
                   \o NormalizedDay(ws, 6))
<1>1. \A d \in 0..6 : Days(ws, {d}, NormalizedDay(ws, d))
  BY OneDayRight
<1> DEFINE x0 == NormalizedDay(ws, 0)        x1 == x0 \o NormalizedDay(ws, 1)
           x2 == x1 \o NormalizedDay(ws, 2)  x3 == x2 \o NormalizedDay(ws, 3)
           x4 == x3 \o NormalizedDay(ws, 4)  x5 == x4 \o NormalizedDay(ws, 5)
           x6 == x5 \o NormalizedDay(ws, 6)
<1>2. Days(ws, 0..0, x0)
  <2>1. 0..0 = {0}
    OBVIOUS
  <2>2. QED
    BY <1>1, <2>1
<1>3. \A d \in 0..5 : \A a : Days(ws, 0..d, a) => Days(ws, 0..(d + 1), a \o NormalizedDay(ws, d + 1))
  <2>1. \A d \in 0..5 : d + 1 \in 0..6
    OBVIOUS
  <2>2. QED
    BY <1>1, <2>1, DayAdded
<1> HIDE DEF x0, x1, x2, x3, x4, x5, x6
<1>4. Days(ws, 0..1, x1)
  BY <1>2, <1>3 DEF x1
<1>5. Days(ws, 0..2, x2)
  BY <1>4, <1>3 DEF x2
<1>6. Days(ws, 0..3, x3)
  BY <1>5, <1>3 DEF x3
<1>7. Days(ws, 0..4, x4)
  BY <1>6, <1>3 DEF x4
<1>8. Days(ws, 0..5, x5)
  BY <1>7, <1>3 DEF x5
<1>9. Days(ws, 0..6, x6)
  BY <1>8, <1>3 DEF x6
<1>10. QED
  BY <1>9 DEF x0, x1, x2, x3, x4, x5, x6

\* normalize_maintenance_windows, for every list of configured windows and at every
\* minute: the scheduler stands still exactly when the windows that are configured,
\* or else the default ones, say so, and the windows of a day have gaps between them.
LEMMA MinutesAlwaysKept ==
    ASSUME NEW ws \in Seq(ConfigWindow), NEW minutes \in SUBSET Int
    PROVE  MinutesKept(ws, minutes)
<1> DEFINE week == NormalizedDay(ws, 0) \o NormalizedDay(ws, 1) \o NormalizedDay(ws, 2)
                   \o NormalizedDay(ws, 3) \o NormalizedDay(ws, 4) \o NormalizedDay(ws, 5)
                   \o NormalizedDay(ws, 6)
           out == normalize_maintenance_windows(ws)
           default == default_maintenance_windows
<1>1. Days(ws, 0..6, week)
  BY WeekRight
<1>2. out = IF week = <<>> THEN default ELSE week
  BY DEF normalize_maintenance_windows
<1> HIDE DEF week, out
<1>3. week \in Seq(ConfigWindow) /\ Len(week) \in Nat /\ (week = <<>> <=> Len(week) = 0)
  BY <1>1 DEF Days
<1>4. (\E i \in 1..Len(ws) : ValidWindow(ws[i])) <=> week # <<>>
  <2>1. ASSUME NEW v \in Seq(ConfigWindow), NEW i \in 1..Len(v), ValidWindow(v[i])
        PROVE  maintenance_hit(v, v[i].weekday, Minutes(v[i].start)) /\ Minutes(v[i].start) \in Int
               /\ v[i].weekday \in 0..6
    <3>1. v[i] \in ConfigWindow
      OBVIOUS
    <3>2. Minutes(v[i].start) \in Nat /\ Minutes(v[i].start) < Minutes(v[i].end)
      BY <2>1, <3>1, ValidSpan
    <3>3. v[i].weekday \in 0..6
      BY <2>1 DEF ValidWindow, parse_weekday
    <3>4. QED
      BY <2>1, <3>2, <3>3 DEF ValidWindow, maintenance_hit
  <2>2. ASSUME NEW i \in 1..Len(ws), ValidWindow(ws[i]) PROVE week # <<>>
    <3>1. maintenance_hit(week, ws[i].weekday, Minutes(ws[i].start))
      BY <1>1, <2>1, <2>2 DEF Days
    <3>2. \E j \in 1..Len(week) : TRUE
      BY <3>1 DEF maintenance_hit
    <3>3. QED
      BY <1>3, <3>2
  <2>3. ASSUME week # <<>> PROVE \E i \in 1..Len(ws) : ValidWindow(ws[i])
    <3>1. 1 \in 1..Len(week)
      BY <1>3, <2>3
    <3>2. ValidWindow(week[1])
      BY <1>1, <3>1 DEF Days
    <3>3. maintenance_hit(ws, week[1].weekday, Minutes(week[1].start)) /\ Minutes(week[1].start) \in Int
      BY <1>1, <1>3, <2>1, <3>1, <3>2 DEF Days
    <3>4. QED
      BY <3>3, HitIsValid DEF HitBy
  <2>4. QED
    BY <2>2, <2>3
<1>5. CASE week # <<>>
  <2>1. out = week /\ Meant(ws) = ws
    BY <1>2, <1>4, <1>5 DEF Meant
  <2>2. QED
    BY <1>1, <2>1 DEF MinutesKept, Days, out
<1>6. CASE week = <<>>
  <2>1. out = default /\ Meant(ws) = default
    BY <1>2, <1>4, <1>6 DEF Meant
  <2>2. Len(default) = 3 /\ default[1].weekday = 4 /\ default[2].weekday = 5 /\ default[3].weekday = 6
    BY DEF default_maintenance_windows
  <2> HIDE DEF default
  <2>3. \A i, j \in 1..3 : i < j => default[i].weekday # default[j].weekday
    BY <2>2
  <2>4. QED
    BY <2>1, <2>2, <2>3 DEF MinutesKept, out
<1>7. QED
  BY <1>5, <1>6

-----------------------------------------------------------------------------
(* DreamShop.                                                               *)

\* What is left of the goods.
IsTakenOut(g, goods, pos) ==
    /\ goods # <<>> => Len(g) = Len(goods) - 1
    /\ \A p \in 1..(Len(goods) - 1) : g[p] = IF p < pos THEN goods[p] ELSE goods[p + 1]

\* One good less, and the others in their order.
LEMMA TakenOutFacts ==
    ASSUME NEW goods \in Seq(Nat), NEW pos \in Nat, NEW g, g = TakenOut(goods, pos)
    PROVE  g \in Seq(Nat) /\ IsTakenOut(g, goods, pos)
<1> DEFINE n == IF Len(goods) = 0 THEN 0 ELSE Len(goods) - 1
<1>1. n \in Nat /\ 1..(Len(goods) - 1) = 1..n /\ (goods # <<>> => n = Len(goods) - 1)
  OBVIOUS
<1>2. \A p \in 1..n : p \in Nat /\ p \in 1..Len(goods) /\ p + 1 \in 1..Len(goods)
  OBVIOUS
<1>3. g = [p \in 1..n |-> IF p < pos THEN goods[p] ELSE goods[p + 1]]
  BY <1>1 DEF TakenOut
<1> HIDE DEF n
<1>4. g \in [1..n -> Nat]
  BY <1>2, <1>3
<1>5. g \in Seq(Nat) /\ Len(g) = n
  BY <1>1, <1>4
<1>6. QED
  BY <1>1, <1>3, <1>5 DEF IsTakenOut

\* The shop during the purchases.
IsPurchasing(after, shop, ops, ok) ==
    /\ after[0] = shop
    /\ \A i \in 1..Len(ops) :
          /\ after[i - 1] \in [DOMAIN shop -> Seq(Nat)]
          /\ after[i] = IF ok[i] THEN dungeon_buymerchant(after[i - 1], ops[i]) ELSE after[i - 1]

\* The loop over the purchases has a run.
LEMMA PurchasingRuns ==
    ASSUME NEW M, NEW shop \in [M -> Seq(Nat)], NEW ops, Len(ops) \in Nat,
           NEW ok \in [1..Len(ops) -> BOOLEAN], \A i \in 1..Len(ops) : ops[i].pos \in Nat
    PROVE  IsPurchasing(purchasing(shop, ops, ok), shop, ops, ok)
<1> DEFINE n == Len(ops)
           X == [M -> Seq(Nat)]
           Step(x, i) == IF ok[i] THEN dungeon_buymerchant(x, ops[i]) ELSE x
           F == [q \in X \X (1..n) |-> Step(q[1], q[2])]
           Is(g) == g = [i \in 0..n |-> IF i = 0 THEN shop ELSE Step(g[i - 1], i)]
<1>1. n \in Nat /\ shop \in X
  OBVIOUS
<1>2. ASSUME NEW x \in X, NEW i \in 1..n PROVE Step(x, i) \in X
  <2>1. ASSUME NEW y \in X PROVE dungeon_buymerchant(y, ops[i]) \in X
    <3>1. \A m \in M : TakenOut(y[m], ops[i].pos) \in Seq(Nat)
      BY TakenOutFacts
    <3>2. QED
      BY <3>1 DEF dungeon_buymerchant
  <2>2. QED
    BY <2>1
<1>3. F \in [X \X (1..n) -> X]
  <2>1. ASSUME NEW q \in X \X (1..n) PROVE Step(q[1], q[2]) \in X
    <3> HIDE DEF X, Step
    <3>1. q[1] \in X /\ q[2] \in 1..n
      OBVIOUS
    <3>2. QED
      BY <1>2, <3>1
  <2> HIDE DEF X, Step
  <2>2. QED
    BY <2>1
<1>4. \A x \in X, i \in 1..n : F[<<x, i>>] = Step(x, i)
  <2> HIDE DEF X, Step
  <2>1. QED
    OBVIOUS
<1> HIDE DEF F, X, n, Is, Step
<1>5. PICK g \in [0..n -> X] : IsRun(g, n, shop, F)
  BY <1>1, <1>3, LoopRuns
<1>6. g[0] = shop /\ \A i \in 1..n : g[i] = F[<<g[i - 1], i>>]
  BY <1>5 DEF IsRun
<1>7. \A i \in 1..n : i - 1 \in 0..n /\ g[i - 1] \in X
  <2>1. \A i \in 1..n : i - 1 \in 0..n
    BY <1>1
  <2>2. QED
    BY <2>1
<1>8. \A i \in 1..n : g[i] = Step(g[i - 1], i)
  BY <1>4, <1>6, <1>7
<1>9. Is(g)
  <2>1. \A i \in 0..n : i # 0 => i \in 1..n
    BY <1>1
  <2>2. \A i \in 0..n : g[i] = IF i = 0 THEN shop ELSE Step(g[i - 1], i)
    BY <1>6, <1>8, <2>1
  <2>3. QED
    BY <2>2 DEF Is
<1>10. purchasing(shop, ops, ok) = CHOOSE f : Is(f)
  BY DEF purchasing, n, Is, Step
<1>11. Is(purchasing(shop, ops, ok))
  BY <1>9, <1>10
<1> DEFINE P == purchasing(shop, ops, ok)
<1> HIDE DEF P
<1>12. \A i \in 0..n : P[i] = IF i = 0 THEN shop ELSE Step(P[i - 1], i)
  BY <1>11 DEF Is, P
<1>13. P[0] = shop /\ \A i \in 1..n : P[i] = Step(P[i - 1], i)
  <2>1. 0 \in 0..n /\ \A i \in 1..n : i \in 0..n /\ i # 0
    BY <1>1
  <2>2. QED
    BY <1>12, <2>1
<1>14. \A i \in 0..n : P[i] \in X
  <2> DEFINE T == {i \in Nat : i <= n => P[i] \in X}
  <2>1. 0 \in T
    BY <1>1, <1>13
  <2>2. ASSUME NEW i \in Nat, i \in T PROVE i + 1 \in T
    <3>1. SUFFICES ASSUME i + 1 <= n PROVE P[i + 1] \in X
      BY <2>2
    <3>2. i + 1 \in 1..n /\ i + 1 - 1 = i /\ P[i] \in X
      BY <1>1, <2>2, <3>1
    <3>3. QED
      BY <1>2, <1>13, <3>2
  <2>3. Nat \subseteq T
    <3> HIDE DEF T
    <3>1. QED
      BY <2>1, <2>2, Induction
  <2>4. QED
    BY <1>1, <2>3
<1>15. \A i \in 1..n : P[i - 1] \in X
  BY <1>1, <1>14
<1>16. QED
  BY <1>13, <1>15 DEF P, X, n, Step, IsPurchasing

\* What the list stands for, by members.
IsMatch(shop, list, k) ==
    /\ k[1] \in 1..Len(list) /\ list[k[1]] \in Nat \X Nat /\ list[k[1]] # <<>>
    /\ list[k[1]][1] \in DOMAIN shop
    /\ k[2] \in 1..Len(shop[list[k[1]][1]]) /\ shop[list[k[1]][1]][k[2]] = list[k[1]][2]
    /\ k = <<k[1], k[2]>> /\ k[1] \in Nat /\ k[2] \in Nat

\* The list stands for finitely many purchases, of goods that are there.
LEMMA MatchingFacts ==
    ASSUME NEW M \in SUBSET Nat, NEW shop \in [M -> Seq(Nat)], NEW list \in Seq(Entry)
    PROVE  /\ IsFiniteSet(matching(shop, list))
           /\ \A k \in matching(shop, list) : IsMatch(shop, list, k)
<1> DEFINE E == {e \in 1..Len(list) : list[e] # <<>> /\ list[e][1] \in DOMAIN shop}
           G(e) == {p \in 1..Len(shop[list[e][1]]) : shop[list[e][1]][p] = list[e][2]}
           Parts == {{e} \X G(e) : e \in E}
           Of == [e \in E |-> {e} \X G(e)]
<1>1. matching(shop, list) = UNION Parts
  BY DEF matching
<1>2. \A e \in E : /\ e \in 1..Len(list) /\ list[e] \in Nat \X Nat /\ list[e][1] \in M
                   /\ list[e] # <<>>
                   /\ Len(shop[list[e][1]]) \in Nat
  BY DEF Entry
<1>3. \A e \in E : IsFiniteSet({e} \X G(e))
  <2>1. ASSUME NEW e \in E PROVE IsFiniteSet({e} \X G(e))
    <3>1. IsFiniteSet({e})
      BY FS_Singleton
    <3>2. IsFiniteSet(1..Len(shop[list[e][1]]))
      BY <1>2, FS_Interval
    <3>3. IsFiniteSet(G(e))
      BY <3>2, FS_Subset
    <3> HIDE DEF G, E
    <3>4. QED
      BY <3>1, <3>3, FS_Product
  <2>2. QED
    BY <2>1
<1>4. IsFiniteSet(E)
  <2>1. IsFiniteSet(1..Len(list))
    BY FS_Interval
  <2>2. QED
    BY <2>1, FS_Subset
<1>5. ASSUME NEW k \in UNION Parts PROVE IsMatch(shop, list, k)
  <2>1. PICK e \in E : k \in {e} \X G(e)
    OBVIOUS
  <2>2. k[1] = e /\ k[2] \in G(e) /\ k = <<k[1], k[2]>>
    <3> HIDE DEF G, E
    <3>1. QED
      BY <2>1
  <2>3. e \in Nat /\ \A p \in G(e) : p \in Nat
    BY <1>2
  <2>4. QED
    BY <1>2, <2>2, <2>3 DEF IsMatch
<1> HIDE DEF G, E
<1>6. Of \in Surjection(E, Parts)
  BY DEF Surjection
<1>7. IsFiniteSet(Parts)
  <2> HIDE DEF Of, Parts
  <2>1. QED
    BY <1>4, <1>6, FS_Surjection
<1>8. \A T \in Parts : IsFiniteSet(T)
  BY <1>3
<1>9. IsFiniteSet(UNION Parts)
  <2> HIDE DEF Parts
  <2>1. QED
    BY <1>7, <1>8, FS_UNION
<1>10. QED
  BY <1>1, <1>5, <1>9

\* The order of the purchases, by merchant, place and entry.
ComesBefore(list, j, k) ==
    \/ list[j[1]][1] < list[k[1]][1]
    \/ list[j[1]][1] = list[k[1]][1] /\ j[2] > k[2]
    \/ list[j[1]][1] = list[k[1]][1] /\ j[2] = k[2] /\ j[1] < k[1]

\* The comparison of the sort is this order.
LEMMA SentBeforeIs ==
    ASSUME NEW M \in SUBSET Nat, NEW shop \in [M -> Seq(Nat)], NEW list \in Seq(Entry),
           NEW j \in matching(shop, list), NEW k \in matching(shop, list)
    PROVE  /\ list[j[1]][1] \in Nat /\ j[1] \in Nat /\ j[2] \in Nat
           /\ SentBefore(list, j, k) <=> ComesBefore(list, j, k)
<1>1. IsMatch(shop, list, j) /\ IsMatch(shop, list, k)
  BY MatchingFacts
<1> DEFINE mj == list[j[1]][1]
           mk == list[k[1]][1]
<1>2. mj \in M /\ mj \in Nat /\ mk \in M /\ mk \in Nat /\ j[1] \in Nat /\ j[2] \in Nat /\ k[1] \in Nat /\ k[2] \in Nat
  <2>1. DOMAIN shop = M
    OBVIOUS
  <2>2. mj \in M /\ mk \in M
    BY <1>1, <2>1 DEF IsMatch
  <2>3. QED
    BY <1>1, <2>2 DEF IsMatch
<1>3. SentBefore(list, j, k)
        <=> \/ mj < mk \/ (mj = mk /\ j[2] > k[2])
            \/ ~(mk < mj \/ (mk = mj /\ k[2] > j[2])) /\ j[1] < k[1]
  BY DEF SentBefore, Operation, earlier
<1> HIDE DEF mj, mk
<1>4. SentBefore(list, j, k)
        <=> \/ mj < mk \/ (mj = mk /\ j[2] > k[2])
            \/ mj = mk /\ j[2] = k[2] /\ j[1] < k[1]
  BY <1>2, <1>3
<1>5. QED
  BY <1>2, <1>4 DEF mj, mk, ComesBefore

\* The places of a merchant bought by the first i purchases.
Bought(ops, i, m) == {p \in Nat : \E j \in 1..i : ops[j].merchant = m /\ ops[j].pos = p}

\* What is sent: purchases of goods that are there, and for one merchant from the
\* last place to the first.
SentInOrder(shop, list, ops) ==
    /\ Len(ops) \in Nat
    /\ \A i \in 1..Len(ops) :
          /\ ops[i].merchant \in DOMAIN shop /\ ops[i].pos \in Nat
          /\ ops[i].pos \in 1..Len(shop[ops[i].merchant])
          /\ shop[ops[i].merchant][ops[i].pos] = ops[i].item
    /\ \A i, j \in 1..Len(ops) :
          i < j /\ ops[i].merchant = ops[j].merchant => ops[j].pos < ops[i].pos
    /\ \A m \in DOMAIN shop : Bought(ops, Len(ops), m) = Listed(shop, list, m)

\* The stable sort by merchant and falling place has this order.
LEMMA OperationsFacts ==
    ASSUME NEW M \in SUBSET Nat, NEW shop \in [M -> Seq(Nat)], NEW list \in Seq(Entry),
           NamesNoneTwice(list),
           NEW ops, ops = operations(shop, list)
    PROVE  SentInOrder(shop, list, ops)
<1> DEFINE K == matching(shop, list)
           P == [k \in K |-> {j \in K : ~SentBefore(list, k, j)}]
           n == Cardinality(K)
<1>1. IsFiniteSet(K) /\ \A k \in K : IsMatch(shop, list, k)
  BY MatchingFacts
<1> DEFINE m(k) == list[k[1]][1]
<1>2. \A j, k \in K : /\ m(j) \in Nat /\ j[1] \in Nat /\ j[2] \in Nat /\ j = <<j[1], j[2]>>
                      /\ SentBefore(list, j, k)
                           <=> \/ m(j) < m(k)
                               \/ m(j) = m(k) /\ j[2] > k[2]
                               \/ m(j) = m(k) /\ j[2] = k[2] /\ j[1] < k[1]
  <2>1. \A j \in K : j = <<j[1], j[2]>>
    BY <1>1 DEF IsMatch
  <2>2. \A j, k \in K : /\ list[j[1]][1] \in Nat /\ j[1] \in Nat /\ j[2] \in Nat
                        /\ SentBefore(list, j, k) <=> ComesBefore(list, j, k)
    BY SentBeforeIs
  <2> HIDE DEF K
  <2>3. QED
    BY <2>1, <2>2 DEF ComesBefore
<1> HIDE DEF K, m
<1>3. P \in [K -> SUBSET K] /\ \A k \in K : k \in P[k]
  BY <1>2
<1>4. ASSUME NEW i \in K, NEW k \in K, i # k
      PROVE  \/ P[i] \subseteq P[k] /\ k \notin P[i]
             \/ P[k] \subseteq P[i] /\ i \notin P[k]
  <2>1. SentBefore(list, i, k) \/ SentBefore(list, k, i)
    <3>1. ~(i[1] = k[1] /\ i[2] = k[2])
      BY <1>2, <1>4
    <3>2. QED
      BY <1>2, <3>1
  <2>2. \A a, b, c \in K : SentBefore(list, a, b) /\ SentBefore(list, b, c) => SentBefore(list, a, c)
    <3>1. SUFFICES ASSUME NEW a \in K, NEW b \in K, NEW c \in K,
                          SentBefore(list, a, b), SentBefore(list, b, c)
                   PROVE  SentBefore(list, a, c)
      OBVIOUS
    <3>2. /\ m(a) \in Nat /\ m(b) \in Nat /\ m(c) \in Nat
          /\ a[1] \in Nat /\ b[1] \in Nat /\ c[1] \in Nat
          /\ a[2] \in Nat /\ b[2] \in Nat /\ c[2] \in Nat
      BY <1>2
    <3>3. m(a) < m(b) \/ (m(a) = m(b) /\ a[2] > b[2]) \/ (m(a) = m(b) /\ a[2] = b[2] /\ a[1] < b[1])
      BY <1>2, <3>1
    <3>4. m(b) < m(c) \/ (m(b) = m(c) /\ b[2] > c[2]) \/ (m(b) = m(c) /\ b[2] = c[2] /\ b[1] < c[1])
      BY <1>2, <3>1
    <3>5. m(a) < m(c) \/ (m(a) = m(c) /\ a[2] > c[2]) \/ (m(a) = m(c) /\ a[2] = c[2] /\ a[1] < c[1])
      BY <3>2, <3>3, <3>4
    <3>6. QED
      BY <1>2, <3>5
  <2>3. ASSUME NEW a \in K, NEW b \in K, SentBefore(list, a, b)
        PROVE  P[a] \subseteq P[b] /\ b \notin P[a]
    \* what is not sent after a is not sent after b
    <3>1. \A j \in K : ~SentBefore(list, a, j) => ~SentBefore(list, b, j)
      BY <2>2, <2>3
    <3>2. QED
      BY <2>3, <3>1
  <2>4. QED
    BY <2>1, <2>3
<1> DEFINE C == [k \in K |-> Cardinality(P[k])]
<1> HIDE DEF P
<1>5. /\ n \in Nat
      /\ \A i \in K : Cardinality(P[i]) \in 1..n
      /\ \A i, k \in K : k \notin P[i] => Cardinality(P[i]) < Cardinality(P[k])
      /\ \A i, k \in K : Cardinality(P[i]) = Cardinality(P[k]) => i = k
      /\ \A r \in 1..n : \E i \in K : Cardinality(P[i]) = r
  <2>1. Ranked(K, P)
    BY <1>1, <1>3, <1>4, Ranks
  <2>2. QED
    BY <2>1 DEF Ranked
<1>6. \A k \in K : Turn(list, K, k) = Cardinality(P[k])
  BY DEF P, Turn
<1> DEFINE Sent(r) == AtTurn(list, K, r)
<1>7. \A r \in 1..n : Sent(r) \in K /\ Cardinality(P[Sent(r)]) = r
  <2>1. ASSUME NEW r \in 1..n PROVE Sent(r) \in K /\ Turn(list, K, Sent(r)) = r
    <3>1. \E k \in K : Turn(list, K, k) = r
      BY <1>5, <1>6
    <3>2. QED
      BY <3>1 DEF AtTurn
  <2>2. QED
    BY <1>6, <2>1
<1> HIDE DEF Sent
<1>8. ops = [r \in 1..n |-> Operation(list, Sent(r))]
  BY DEF operations, K, Sent
<1>9. Len(ops) = n /\ \A r \in 1..n : ops[r] = Operation(list, Sent(r))
  BY <1>5, <1>8
<1>10. \A r \in 1..n : /\ ops[r].merchant = m(Sent(r)) /\ ops[r].pos = Sent(r)[2]
                       /\ ops[r].item = list[Sent(r)[1]][2]
  BY <1>9 DEF Operation, m
<1> HIDE DEF n
<1>11. ASSUME NEW i \in 1..n
       PROVE  /\ ops[i].merchant \in M /\ ops[i].pos \in Nat
              /\ ops[i].pos \in 1..Len(shop[ops[i].merchant])
              /\ shop[ops[i].merchant][ops[i].pos] = ops[i].item
  <2>1. IsMatch(shop, list, Sent(i)) /\ Sent(i)[2] \in Nat
    BY <1>1, <1>2, <1>7
  <2>2. QED
    BY <2>1, <1>10 DEF IsMatch, m
<1>12. ASSUME NEW i \in 1..n, NEW j \in 1..n, i < j, ops[i].merchant = ops[j].merchant
       PROVE  ops[j].pos < ops[i].pos
  <2> DEFINE a == Sent(i)
             b == Sent(j)
  <2>1. a \in K /\ b \in K /\ Cardinality(P[a]) = i /\ Cardinality(P[b]) = j
    BY <1>7
  <2> HIDE DEF a, b
  <2>2. i \in Nat /\ j \in Nat /\ a # b
    BY <1>5, <1>12, <2>1
  <2>3. ~(b \in P[a])
    <3>1. ~(Cardinality(P[b]) < Cardinality(P[a]))
      BY <1>12, <2>1, <2>2
    <3>2. a \in P[b]
      BY <1>5, <2>1, <3>1
    <3>3. QED
      BY <1>4, <2>1, <2>2, <3>2
  <2>4. SentBefore(list, a, b) /\ m(a) = m(b)
    <3>1. SentBefore(list, a, b)
      BY <2>1, <2>3 DEF P
    <3>2. QED
      BY <3>1, <1>10, <1>12 DEF a, b
  <2>5. m(a) \in Nat /\ a[1] \in Nat /\ a[2] \in Nat /\ b[1] \in Nat /\ b[2] \in Nat
    BY <1>2, <2>1
  <2>6. a[2] > b[2] \/ (a[2] = b[2] /\ a[1] < b[1])
    <3>1. m(a) < m(b) \/ (m(a) = m(b) /\ a[2] > b[2]) \/ (m(a) = m(b) /\ a[2] = b[2] /\ a[1] < b[1])
      BY <1>2, <2>1, <2>4
    <3>2. QED
      BY <2>4, <2>5, <3>1
  \* the same place of the same merchant would be the same entry
  <2>7. ~(a[2] = b[2] /\ a[1] < b[1])
    <3>1. SUFFICES ASSUME a[2] = b[2], a[1] < b[1] PROVE FALSE
      OBVIOUS
    <3>2. IsMatch(shop, list, a) /\ IsMatch(shop, list, b)
      BY <1>1, <2>1
    <3>3. list[a[1]][1] = list[b[1]][1] /\ list[a[1]][2] = list[b[1]][2]
      BY <2>4, <3>1, <3>2 DEF IsMatch, m
    <3>4. list[a[1]] \in Nat \X Nat /\ list[b[1]] \in Nat \X Nat
          /\ a[1] \in 1..Len(list) /\ b[1] \in 1..Len(list)
      BY <3>2 DEF IsMatch
    <3>5. list[a[1]] = list[b[1]] /\ list[a[1]] # <<>>
      <4>1. \A x, y \in Nat \X Nat : x[1] = y[1] /\ x[2] = y[2] => x = y
        OBVIOUS
      <4>2. list[a[1]] = list[b[1]]
        BY <3>3, <3>4, <4>1
      <4>3. QED
        BY <3>2, <4>2 DEF IsMatch
    <3>6. a[1] # b[1]
      BY <2>5, <3>1
    <3>7. QED
      BY <3>4, <3>5, <3>6 DEF NamesNoneTwice
  <2>8. QED
    BY <1>10, <2>6, <2>7 DEF a, b
<1>13. ASSUME NEW mm \in M, NEW p \in Nat
       PROVE  p \in Listed(shop, list, mm)
                <=> \E i \in 1..n : ops[i].merchant = mm /\ ops[i].pos = p
  <2>1. ASSUME p \in Listed(shop, list, mm)
        PROVE  \E i \in 1..n : ops[i].merchant = mm /\ ops[i].pos = p
    <3>1. PICK e \in 1..Len(list) : list[e] = <<mm, shop[mm][p]>> /\ p \in 1..Len(shop[mm])
      BY <2>1 DEF Listed
    <3> DEFINE k == <<e, p>>
    <3>2. k \in K
      BY <3>1 DEF K, matching
    <3>3. m(k) = mm /\ k[2] = p
      BY <3>1 DEF m
    <3> HIDE DEF k
    <3> DEFINE r == Cardinality(P[k])
    <3>4. r \in 1..n /\ Sent(r) = k
      BY <1>5, <1>7, <3>2
    <3> HIDE DEF r
    <3>5. QED
      BY <1>10, <3>3, <3>4
  <2>2. ASSUME NEW i \in 1..n, ops[i].merchant = mm, ops[i].pos = p
        PROVE  p \in Listed(shop, list, mm)
    <3> DEFINE k == Sent(i)
    <3>1. IsMatch(shop, list, k) /\ m(k) = mm /\ k[2] = p
      BY <1>1, <1>7, <1>10, <2>2
    <3> HIDE DEF k
    <3>2. /\ k[1] \in 1..Len(list) /\ list[k[1]] \in Nat \X Nat /\ list[k[1]][1] = mm
          /\ p \in 1..Len(shop[mm]) /\ shop[mm][p] = list[k[1]][2]
      BY <3>1 DEF IsMatch, m
    <3>3. list[k[1]] = <<mm, shop[mm][p]>>
      BY <3>2
    <3>4. QED
      BY <3>2, <3>3 DEF Listed
  <2>3. QED
    BY <2>1, <2>2
<1>14. QED
  <2>1. DOMAIN shop = M /\ Len(ops) = n /\ n \in Nat
    BY <1>5, <1>9
  <2>2. \A i \in 1..Len(ops) :
           /\ ops[i].merchant \in DOMAIN shop /\ ops[i].pos \in Nat
           /\ ops[i].pos \in 1..Len(shop[ops[i].merchant])
           /\ shop[ops[i].merchant][ops[i].pos] = ops[i].item
    BY <1>11, <2>1
  <2>3. \A i, j \in 1..Len(ops) :
           i < j /\ ops[i].merchant = ops[j].merchant => ops[j].pos < ops[i].pos
    BY <1>12, <2>1
  <2>4. ASSUME NEW mm \in DOMAIN shop
        PROVE  Bought(ops, Len(ops), mm) = Listed(shop, list, mm)
    <3>1. mm \in M /\ \A p \in Listed(shop, list, mm) : p \in Nat
      <4>1. mm \in M
        BY <2>1
      <4>2. shop[mm] \in Seq(Nat)
        BY <4>1
      <4>3. QED
        BY <4>1, <4>2 DEF Listed
    <3>2. \A p \in Nat : p \in Listed(shop, list, mm) <=> p \in Bought(ops, n, mm)
      BY <1>13, <3>1 DEF Bought
    <3>3. \A p \in Bought(ops, n, mm) : p \in Nat
      BY DEF Bought
    <3>4. Bought(ops, n, mm) = Listed(shop, list, mm)
      BY <3>1, <3>2, <3>3
    <3>5. QED
      BY <2>1, <3>4
  <2>5. QED
    BY <2>1, <2>2, <2>3, <2>4, Zenon DEF SentInOrder

\* In front of every place bought so far the shop is as it was.
FrontKept(shop, cur, ops, i) ==
    \A m \in DOMAIN shop : \A p \in 1..Len(shop[m]) :
        (\A j \in 1..i : ops[j].merchant = m => p < ops[j].pos)
          => p \in 1..Len(cur[m]) /\ cur[m][p] = shop[m][p]

\* A purchase in front of all before it leaves what is in front of it alone.
LEMMA FrontStaysKept ==
    ASSUME NEW M \in SUBSET Nat, NEW shop \in [M -> Seq(Nat)], NEW cur \in [M -> Seq(Nat)],
           NEW ops, NEW i \in Nat, FrontKept(shop, cur, ops, i),
           ops[i + 1].merchant \in M, ops[i + 1].pos \in 1..Len(shop[ops[i + 1].merchant]),
           \A j \in 1..i : ops[j].merchant = ops[i + 1].merchant => ops[i + 1].pos < ops[j].pos
    PROVE  FrontKept(shop, dungeon_buymerchant(cur, ops[i + 1]), ops, i + 1)
<1> DEFINE op == ops[i + 1]
           next == dungeon_buymerchant(cur, op)
<1>1. SUFFICES ASSUME NEW m \in M, NEW p \in 1..Len(shop[m]),
                      \A j \in 1..(i + 1) : ops[j].merchant = m => p < ops[j].pos
               PROVE  p \in 1..Len(next[m]) /\ next[m][p] = shop[m][p]
  BY DEF FrontKept
<1>2. p \in 1..Len(cur[m]) /\ cur[m][p] = shop[m][p]
  <2>1. \A j \in 1..i : j \in 1..(i + 1)
    OBVIOUS
  <2>2. \A j \in 1..i : ops[j].merchant = m => p < ops[j].pos
    BY <1>1, <2>1
  <2>3. QED
    BY <2>2 DEF FrontKept
<1>3. CASE m # op.merchant
  <2>1. next[m] = cur[m]
    BY <1>3 DEF dungeon_buymerchant
  <2>2. QED
    BY <1>2, <2>1
<1>4. CASE m = op.merchant
  <2>1. next[m] = TakenOut(cur[m], op.pos)
    BY <1>4 DEF dungeon_buymerchant
  <2>2. i + 1 \in 1..(i + 1)
    OBVIOUS
  <2>3. p < op.pos
    BY <1>1, <1>4, <2>2
  <2>4. op.pos \in 1..Len(cur[m])
    BY <1>4 DEF FrontKept
  <2> DEFINE goods == cur[m]
             pos == op.pos
             g == TakenOut(goods, pos)
  <2>5. goods \in Seq(Nat) /\ Len(goods) \in Nat
    <3>1. goods \in Seq(Nat)
      OBVIOUS
    <3> HIDE DEF goods
    <3>2. QED
      BY <3>1
  <2>6. pos \in 1..Len(goods) /\ p < pos /\ p \in 1..Len(goods)
    BY <1>2, <2>3, <2>4
  <2> HIDE DEF goods, pos
  <2>7. pos \in Nat /\ goods # <<>> /\ p \in 1..(Len(goods) - 1)
    BY <2>5, <2>6
  <2>8. Len(g) = Len(goods) - 1 /\ g[p] = goods[p]
    <3>1. IsTakenOut(g, goods, pos)
      BY <2>5, <2>7, TakenOutFacts
    <3>2. QED
      BY <2>6, <2>7, <3>1 DEF IsTakenOut
  <2>9. next[m] = g
    BY <2>1 DEF goods, pos
  <2>10. p \in 1..Len(g) /\ g[p] = shop[m][p]
    <3>1. goods[p] = shop[m][p]
      BY <1>2 DEF goods
    <3>2. QED
      BY <2>7, <2>8, <3>1
  <2>11. QED
    BY <2>9, <2>10
<1>5. QED
  BY <1>3, <1>4

\* Every purchase finds its item.
LEMMA ItemsFound ==
    ASSUME NEW M \in SUBSET Nat, NEW shop \in [M -> Seq(Nat)], NEW list,
           NEW ops, SentInOrder(shop, list, ops), NEW ok \in [1..Len(ops) -> BOOLEAN]
    PROVE  FindsItsItem(shop, ops, ok)
<1> DEFINE n == Len(ops)
           B == purchasing(shop, ops, ok)
<1>1. /\ n \in Nat
      /\ \A i \in 1..n : /\ ops[i].merchant \in M /\ ops[i].pos \in Nat
                         /\ ops[i].pos \in 1..Len(shop[ops[i].merchant])
                         /\ shop[ops[i].merchant][ops[i].pos] = ops[i].item
      /\ \A i, j \in 1..n : i < j /\ ops[i].merchant = ops[j].merchant => ops[j].pos < ops[i].pos
  BY DEF SentInOrder
<1>2. ok \in [1..n -> BOOLEAN]
  OBVIOUS
<1>3. /\ B[0] = shop
      /\ \A i \in 1..n : /\ B[i - 1] \in [M -> Seq(Nat)]
                         /\ B[i] = IF ok[i] THEN dungeon_buymerchant(B[i - 1], ops[i]) ELSE B[i - 1]
  <2>1. \A i \in 1..Len(ops) : ops[i].pos \in Nat
    BY <1>1
  <2>2. Len(ops) \in Nat /\ ok \in [1..Len(ops) -> BOOLEAN]
    BY <1>1, <1>2
  <2>3. IsPurchasing(purchasing(shop, ops, ok), shop, ops, ok)
    BY <2>1, <2>2, PurchasingRuns
  <2>4. QED
    BY <2>3 DEF IsPurchasing
<1> HIDE DEF n, B
<1> DEFINE T == {i \in Nat : i <= n => FrontKept(shop, B[i], ops, i)}
<1>4. 0 \in T
  BY <1>3 DEF FrontKept
<1>5. ASSUME NEW i \in Nat, i \in T PROVE i + 1 \in T
  <2>1. SUFFICES ASSUME i + 1 <= n PROVE FrontKept(shop, B[i + 1], ops, i + 1)
    OBVIOUS
  <2>2. i + 1 \in 1..n /\ (i + 1) - 1 = i /\ FrontKept(shop, B[i], ops, i)
        /\ \A j \in 1..i : j \in 1..n /\ j < i + 1 /\ j \in 1..(i + 1)
    BY <1>1, <1>5, <2>1
  <2>3. B[i] \in [M -> Seq(Nat)]
        /\ B[i + 1] = IF ok[i + 1] THEN dungeon_buymerchant(B[i], ops[i + 1]) ELSE B[i]
    BY <1>3, <2>2
  <2>4. FrontKept(shop, dungeon_buymerchant(B[i], ops[i + 1]), ops, i + 1)
    <3>1. /\ ops[i + 1].merchant \in M /\ ops[i + 1].pos \in 1..Len(shop[ops[i + 1].merchant])
          /\ \A j \in 1..i : ops[j].merchant = ops[i + 1].merchant => ops[i + 1].pos < ops[j].pos
      BY <1>1, <2>2
    <3>2. QED
      BY <2>2, <2>3, <3>1, FrontStaysKept
  <2>5. FrontKept(shop, B[i], ops, i + 1)
    BY <2>2 DEF FrontKept
  <2>6. QED
    BY <2>3, <2>4, <2>5
<1>6. Nat \subseteq T
  <2> HIDE DEF T
  <2>1. QED
    BY <1>4, <1>5, Induction
<1>7. ASSUME NEW i \in 1..n
      PROVE  /\ ops[i].pos \in 1..Len(B[i - 1][ops[i].merchant])
             /\ B[i - 1][ops[i].merchant][ops[i].pos] = ops[i].item
  <2>1. i - 1 \in Nat /\ i - 1 <= n /\ \A j \in 1..(i - 1) : j \in 1..n /\ j < i
    BY <1>1
  <2>2. FrontKept(shop, B[i - 1], ops, i - 1)
    BY <1>6, <2>1
  <2> DEFINE m == ops[i].merchant
             p == ops[i].pos
  <2>3. m \in M /\ p \in 1..Len(shop[m]) /\ shop[m][p] = ops[i].item
    BY <1>1
  <2>4. \A j \in 1..(i - 1) : ops[j].merchant = m => p < ops[j].pos
    BY <1>1, <2>1
  <2>5. p \in 1..Len(B[i - 1][m]) /\ B[i - 1][m][p] = shop[m][p]
    <3> HIDE DEF m, p
    <3>1. QED
      BY <2>2, <2>3, <2>4 DEF FrontKept
  <2>6. QED
    BY <2>3, <2>5
<1>8. QED
  BY <1>7 DEF FindsItsItem, n, B

\* One more good taken out, in front of the others.
LEMMA TakenLeaves ==
    ASSUME NEW goods \in Seq(Nat), NEW cur \in Seq(Nat), NEW B \in SUBSET (1..Len(goods)),
           NEW q \in 1..Len(goods), \A b \in B : q < b, IsWithout(cur, goods, B),
           NEW g, g = TakenOut(cur, q)
    PROVE  IsWithout(g, goods, B \cup {q})
<1> DEFINE C == B \cup {q}
           Up(D, p) == Cardinality({b \in D : b < p})
<1>1. /\ Len(goods) \in Nat /\ Len(cur) \in Nat /\ q \in Nat /\ q >= 1 /\ q <= Len(goods)
      /\ \A b \in B : b \in Nat /\ b >= 1 /\ b <= Len(goods) /\ q < b
  OBVIOUS
<1>2. IsFiniteSet(B) /\ Cardinality(B) \in Nat /\ Cardinality(C) = Cardinality(B) + 1
  <2>1. IsFiniteSet(1..Len(goods))
    BY FS_Interval
  <2>2. IsFiniteSet(B)
    BY <2>1, FS_Subset
  <2>3. q \notin B
    BY <1>1
  <2>4. QED
    BY <2>2, <2>3, FS_AddElement, FS_CardinalityType
<1>3. ASSUME NEW lo \in Nat, NEW hi \in Nat, lo <= hi + 1, NEW S, S \subseteq lo..hi
      PROVE  IsFiniteSet(S) /\ Cardinality(S) \in Nat /\ Cardinality(S) <= hi - lo + 1
  <2>1. IsFiniteSet(lo..hi) /\ Cardinality(lo..hi) = hi - lo + 1
    BY <1>3, FS_Interval
  <2>2. IsFiniteSet(S) /\ Cardinality(S) <= Cardinality(lo..hi)
    BY <1>3, <2>1, FS_Subset
  <2>3. QED
    BY <2>1, <2>2, FS_CardinalityType
<1>4. Len(cur) = Len(goods) - Cardinality(B)
  BY DEF IsWithout
<1>5. Len(cur) >= q
  <2>1. B \subseteq (q + 1)..Len(goods)
    BY <1>1
  <2>2. q + 1 \in Nat /\ q + 1 <= Len(goods) + 1
    BY <1>1
  <2>3. Cardinality(B) <= Len(goods) - (q + 1) + 1
    BY <1>1, <1>3, <2>1, <2>2
  <2>4. QED
    BY <1>1, <1>2, <1>4, <2>3
<1>6. /\ Len(g) = Len(cur) - 1
      /\ \A p \in 1..(Len(cur) - 1) : g[p] = IF p < q THEN cur[p] ELSE cur[p + 1]
  <2>1. cur # <<>>
    BY <1>1, <1>5
  <2>2. IsTakenOut(g, cur, q)
    BY <1>1, TakenOutFacts
  <2>3. QED
    BY <2>1, <2>2 DEF IsTakenOut
<1>7. ASSUME NEW p \in (1..Len(goods)) \ B
      PROVE  p - Up(B, p) \in 1..Len(cur) /\ cur[p - Up(B, p)] = goods[p]
  BY DEF IsWithout
<1>8. ASSUME NEW p \in (1..Len(goods)) \ C
      PROVE  p - Up(C, p) \in 1..Len(g) /\ g[p - Up(C, p)] = goods[p]
  <2>1. p \in Nat /\ p \in (1..Len(goods)) \ B /\ p # q /\ p >= 1
    OBVIOUS
  <2>2. CASE p < q
    <3>1. {b \in B : b < p} = {} /\ {b \in C : b < p} = {}
      <4>1. \A b \in B : ~(b < p)
        BY <1>1, <2>1, <2>2
      <4>2. ~(q < p)
        BY <1>1, <2>1, <2>2
      <4>3. QED
        BY <4>1, <4>2
    <3>2. Up(B, p) = 0 /\ Up(C, p) = 0
      BY <3>1, FS_EmptySet
    <3> HIDE DEF Up
    <3>3. p - 0 = p /\ p \in 1..(Len(cur) - 1)
      BY <1>1, <1>5, <2>1, <2>2
    <3>4. cur[p] = goods[p]
      BY <1>7, <2>1, <3>2, <3>3
    <3>5. g[p] = cur[p] /\ p \in 1..Len(g)
      BY <1>6, <2>2, <3>3
    <3>6. QED
      BY <3>2, <3>3, <3>4, <3>5
  <2>3. CASE p > q
    <3> DEFINE S == {b \in B : b < p}
               u == Cardinality(S)
               x == p - u
    <3>1. S \subseteq (q + 1)..(p - 1)
      <4>1. \A b \in B : b < p => b \in (q + 1)..(p - 1)
        BY <1>1, <2>1
      <4>2. QED
        BY <4>1
    <3>2. q + 1 \in Nat /\ p - 1 \in Nat /\ q + 1 <= (p - 1) + 1
      BY <1>1, <2>1, <2>3
    <3>3. IsFiniteSet(S) /\ u \in Nat /\ u <= (p - 1) - (q + 1) + 1
      BY <1>3, <3>1, <3>2
    <3>4. {b \in C : b < p} = S \cup {q} /\ q \notin S
      BY <1>1, <2>3
    <3>5. Up(C, p) = u + 1
      <4>1. Cardinality(S \cup {q}) = u + 1
        <5> HIDE DEF S
        <5>1. QED
          BY <3>3, <3>4, FS_AddElement
      <4>2. QED
        BY <3>4, <4>1
    <3>6. x \in 1..Len(cur) /\ cur[x] = goods[p]
      BY <1>7, <2>1
    <3> HIDE DEF u, S
    <3>7. x \in Nat /\ x >= q + 1 /\ x - 1 = p - (u + 1)
      BY <1>1, <2>1, <3>3
    <3> HIDE DEF x
    <3>8. x - 1 \in 1..(Len(cur) - 1) /\ ~(x - 1 < q) /\ (x - 1) + 1 = x
      BY <1>1, <3>6, <3>7
    <3>9. g[x - 1] = cur[x] /\ x - 1 \in 1..Len(g)
      BY <1>6, <3>8
    <3> HIDE DEF Up
    <3>10. QED
      BY <3>5, <3>6, <3>7, <3>9
  <2>4. QED
    BY <1>1, <2>1, <2>2, <2>3
<1>9. Len(g) = Len(goods) - Cardinality(C)
  BY <1>1, <1>2, <1>4, <1>6
<1>10. QED
  BY <1>8, <1>9 DEF IsWithout

\* What is left after all purchases.
LEMMA RestLeft ==
    ASSUME NEW M \in SUBSET Nat, NEW shop \in [M -> Seq(Nat)], NEW list,
           NEW ops, SentInOrder(shop, list, ops)
    PROVE  LeavesTheRest(shop, list, ops)
<1> DEFINE n == Len(ops)
           ok == [i \in 1..n |-> TRUE]
           P == purchasing(shop, ops, ok)
           LeftAfter(i) == \A m \in M : IsWithout(P[i][m], shop[m], Bought(ops, i, m))
           T == {i \in Nat : i <= n => LeftAfter(i)}
<1>1. n \in Nat /\ \A i \in 1..n : ops[i].pos \in Nat
  BY DEF SentInOrder
<1>2. ok \in [1..n -> BOOLEAN] /\ \A i \in 1..n : ok[i] = TRUE
  OBVIOUS
<1> HIDE DEF ok
<1>3. IsPurchasing(P, shop, ops, ok)
  BY <1>1, <1>2, PurchasingRuns
<1>4. /\ P[0] = shop
      /\ \A i \in 1..n : P[i - 1] \in [M -> Seq(Nat)] /\ P[i] = dungeon_buymerchant(P[i - 1], ops[i])
  <2> HIDE DEF P
  <2>1. DOMAIN shop = M
    OBVIOUS
  <2>2. QED
    BY <1>2, <1>3, <2>1 DEF IsPurchasing
<1> HIDE DEF P
<1>5. \A m \in M : shop[m] \in Seq(Nat) /\ Len(shop[m]) \in Nat
  <2>1. \A m \in M : shop[m] \in Seq(Nat)
    OBVIOUS
  <2>2. QED
    BY <2>1
<1>6. 0 \in T
  <2>1. ASSUME NEW m \in M PROVE IsWithout(shop[m], shop[m], Bought(ops, 0, m))
    <3> DEFINE goods == shop[m]
    <3>1. goods \in Seq(Nat) /\ Len(goods) \in Nat
      BY <1>5
    <3>2. Bought(ops, 0, m) = {}
      BY DEF Bought
    <3>3. Cardinality({}) = 0
      BY FS_EmptySet
    <3>4. \A p \in 1..Len(goods) : {b \in {} : b < p} = {} /\ p - 0 = p
      BY <3>1
    <3> HIDE DEF goods
    <3>5. IsWithout(goods, goods, {})
      BY <3>1, <3>3, <3>4 DEF IsWithout
    <3>6. QED
      BY <3>2, <3>5 DEF goods
  <2>2. QED
    BY <1>4, <2>1
<1>7. ASSUME NEW i \in Nat, i \in T PROVE i + 1 \in T
  <2>1. SUFFICES ASSUME i + 1 <= n, NEW m \in M
                 PROVE  IsWithout(P[i + 1][m], shop[m], Bought(ops, i + 1, m))
    OBVIOUS
  <2>2. i + 1 \in 1..n /\ (i + 1) - 1 = i /\ i <= n
    BY <1>1, <2>1
  <2> DEFINE op == ops[i + 1]
  <2>3. IsWithout(P[i][m], shop[m], Bought(ops, i, m))
    BY <1>7, <2>2
  <2>4. P[i] \in [M -> Seq(Nat)] /\ P[i + 1] = dungeon_buymerchant(P[i], op)
    BY <1>4, <2>2
  <2>5. \A j \in 1..(i + 1) : j \in 1..i \/ j = i + 1
    OBVIOUS
  <2>6. \A j \in 1..i : j \in 1..(i + 1) /\ j \in 1..n /\ j < i + 1
    BY <1>1, <2>2
  <2>7. i + 1 \in 1..(i + 1)
    OBVIOUS
  <2>8. CASE m # op.merchant
    <3>1. P[i + 1][m] = P[i][m]
      BY <2>4, <2>8 DEF dungeon_buymerchant
    <3>2. Bought(ops, i + 1, m) = Bought(ops, i, m)
      BY <2>5, <2>6, <2>8 DEF Bought
    <3>3. QED
      BY <2>3, <3>1, <3>2
  <2>9. CASE m = op.merchant
    <3> DEFINE B == Bought(ops, i, m)
               q == op.pos
    <3>1. P[i + 1][m] = TakenOut(P[i][m], q)
      BY <2>4, <2>9 DEF dungeon_buymerchant
    <3>2. q \in Nat /\ q \in 1..Len(shop[m])
      BY <2>2, <2>9 DEF SentInOrder
    <3>3. Bought(ops, i + 1, m) = B \cup {q}
      BY <2>5, <2>6, <2>7, <2>9, <3>2 DEF Bought
    <3>4. \A b \in B : b \in 1..Len(shop[m]) /\ q < b
      <4>1. ASSUME NEW j \in 1..i, ops[j].merchant = m
            PROVE  ops[j].pos \in 1..Len(shop[m]) /\ q < ops[j].pos
        BY <2>2, <2>6, <2>9, <4>1 DEF SentInOrder
      <4>2. QED
        BY <4>1 DEF Bought
    <3>5. P[i][m] \in Seq(Nat) /\ shop[m] \in Seq(Nat)
      BY <2>4
    <3> HIDE DEF B, q, op
    <3>6. B \in SUBSET (1..Len(shop[m])) /\ IsWithout(P[i][m], shop[m], B) /\ \A b \in B : q < b
      BY <2>3, <3>4 DEF B
    <3>7. IsWithout(TakenOut(P[i][m], q), shop[m], B \cup {q})
      BY <3>2, <3>5, <3>6, TakenLeaves
    <3>8. QED
      BY <3>1, <3>3, <3>7
  <2>10. QED
    BY <2>8, <2>9
<1>8. Nat \subseteq T
  <2> HIDE DEF T
  <2>1. QED
    BY <1>6, <1>7, Induction
<1>9. LeftAfter(n)
  BY <1>1, <1>8
<1>10. ASSUME NEW m \in M PROVE Bought(ops, n, m) = Listed(shop, list, m)
  BY DEF SentInOrder
<1>11. \A m \in DOMAIN shop : IsWithout(P[n][m], shop[m], Listed(shop, list, m))
  BY <1>9, <1>10
<1>12. QED
  BY <1>11 DEF LeavesTheRest, P, n, ok

\* run_dream_shop_daily sorts what it found on the list and sends it: for every
\* shop and every list that names no good twice, each purchase finds the item it
\* is meant for whichever of the others fail, and if none fails exactly the goods
\* that are not on the list are left.
LEMMA ListAlwaysBought ==
    ASSUME NEW M \in SUBSET Nat, NEW shop \in [M -> Seq(Nat)],
           NEW list \in Seq(Entry), NamesNoneTwice(list)
    PROVE  ListBought(shop, list)
<1> DEFINE ops == operations(shop, list)
<1>1. SentInOrder(shop, list, ops)
  BY OperationsFacts
<1> HIDE DEF ops
<1>2. \A ok \in [1..Len(ops) -> BOOLEAN] : FindsItsItem(shop, ops, ok)
  BY <1>1, ItemsFound
<1>3. LeavesTheRest(shop, list, ops)
  BY <1>1, RestLeft
<1>4. QED
  BY <1>2, <1>3 DEF ListBought, ops

-----------------------------------------------------------------------------
(* WildcardFilter.                                                          *)

\* The places of the value from which the rest of the pattern matches.
PlacesFrom(p, v, i) ==
    {j \in 1..(Len(v) + 1) :
       \E at \in [i..(Len(p) + 1) -> 1..(Len(v) + 1)] : at[i] = j /\ Fits(p, v, at, i)}

\* After the last character only the end of the value is left.
LEMMA PlacesAtEnd ==
    ASSUME NEW C, NEW p \in Seq(C), NEW v \in Seq(C), NEW j
    PROVE  j \in PlacesFrom(p, v, Len(p) + 1) <=> j = Len(v) + 1
<1> DEFINE n == Len(p)
           l == Len(v)
<1>1. n \in Nat /\ l \in Nat
  OBVIOUS
<1> HIDE DEF n, l
<1> DEFINE at == [q \in (n + 1)..(n + 1) |-> l + 1]
<1>2. at \in [(n + 1)..(n + 1) -> 1..(l + 1)] /\ at[n + 1] = l + 1 /\ (n + 1)..n = {}
  BY <1>1
<1>3. Fits(p, v, at, n + 1)
  BY <1>2 DEF Fits, n, l
<1> HIDE DEF at
<1>4. l + 1 \in PlacesFrom(p, v, n + 1)
  BY <1>1, <1>2, <1>3 DEF PlacesFrom, n, l
<1>5. ASSUME j \in PlacesFrom(p, v, n + 1) PROVE j = l + 1
  BY <1>5 DEF PlacesFrom, Fits, n, l
<1>6. QED
  BY <1>4, <1>5 DEF n, l

\* One character of the pattern leads from place j to a place that matches.
Leads(p, v, i, j) ==
    \E k \in PlacesFrom(p, v, i + 1) :
        IF p[i] = Star THEN j <= k ELSE k = j + 1 /\ v[j] = p[i]

\* From a place the rest matches if it leads to one from which what follows does.
LEMMA PlacesBefore ==
    ASSUME NEW C, NEW p \in Seq(C), NEW v \in Seq(C), NEW i \in 1..Len(p),
           NEW j \in 1..(Len(v) + 1)
    PROVE  j \in PlacesFrom(p, v, i) <=> Leads(p, v, i, j)
<1> DEFINE n == Len(p)
           l == Len(v)
           J == 1..(l + 1)
           One(at, q) == IF p[q] = Star THEN at[q] <= at[q + 1]
                         ELSE at[q + 1] = at[q] + 1 /\ v[at[q]] = p[q]
<1>1. n \in Nat /\ l \in Nat /\ i \in 1..n /\ j \in J
  OBVIOUS
<1>2. \A at, k : Fits(p, v, at, k) <=> at[n + 1] = l + 1 /\ \A q \in k..n : One(at, q)
  BY DEF Fits
<1>3. \A k, x : x \in PlacesFrom(p, v, k)
                  <=> x \in J /\ \E at \in [k..(n + 1) -> J] : at[k] = x /\ Fits(p, v, at, k)
  BY DEF PlacesFrom
<1>4. ASSUME j \in PlacesFrom(p, v, i)
      PROVE  \E k \in PlacesFrom(p, v, i + 1) :
                IF p[i] = Star THEN j <= k ELSE k = j + 1 /\ v[j] = p[i]
  <2>1. PICK at \in [i..(n + 1) -> J] : at[i] = j /\ Fits(p, v, at, i)
    BY <1>3, <1>4
  <2> DEFINE bt == [q \in (i + 1)..(n + 1) |-> at[q]]
             k == at[i + 1]
  <2> HIDE DEF n, l, J, One
  <2>2. /\ i + 1 \in i..(n + 1) /\ i + 1 \in (i + 1)..(n + 1) /\ n + 1 \in (i + 1)..(n + 1)
        /\ \A q \in (i + 1)..(n + 1) : q \in i..(n + 1)
        /\ \A q \in (i + 1)..n : q \in i..n /\ q \in (i + 1)..(n + 1) /\ q + 1 \in (i + 1)..(n + 1)
        /\ i \in i..n
    BY <1>1
  <2>3. bt \in [(i + 1)..(n + 1) -> J] /\ bt[i + 1] = k /\ k \in J
    BY <2>1, <2>2
  <2>4. \A q \in (i + 1)..n : bt[q] = at[q] /\ bt[q + 1] = at[q + 1]
    BY <2>2
  <2>5. at[n + 1] = l + 1 /\ \A q \in i..n : One(at, q)
    BY <1>2, <2>1
  <2>6. \A q \in (i + 1)..n : One(bt, q)
    BY <2>2, <2>4, <2>5 DEF One
  <2>7. bt[n + 1] = l + 1
    BY <2>2, <2>5
  <2> HIDE DEF bt
  <2>8. Fits(p, v, bt, i + 1)
    BY <1>2, <2>6, <2>7
  <2>9. k \in PlacesFrom(p, v, i + 1)
    BY <1>3, <2>3, <2>8
  <2>10. One(at, i)
    BY <2>2, <2>5
  <2>11. IF p[i] = Star THEN j <= k ELSE k = j + 1 /\ v[j] = p[i]
    BY <2>1, <2>10 DEF One
  <2>12. QED
    BY <2>9, <2>11
<1>5. ASSUME NEW k \in PlacesFrom(p, v, i + 1),
             IF p[i] = Star THEN j <= k ELSE k = j + 1 /\ v[j] = p[i]
      PROVE  j \in PlacesFrom(p, v, i)
  <2>1. PICK bt \in [(i + 1)..(n + 1) -> J] : bt[i + 1] = k /\ Fits(p, v, bt, i + 1)
    BY <1>3, <1>5
  <2> DEFINE at == [q \in i..(n + 1) |-> IF q = i THEN j ELSE bt[q]]
  <2> HIDE DEF n, l, J, One
  <2>2. /\ i \in i..(n + 1) /\ i + 1 \in i..(n + 1) /\ i + 1 # i /\ n + 1 \in i..(n + 1) /\ n + 1 # i
        /\ \A q \in i..(n + 1) : q # i => q \in (i + 1)..(n + 1)
        /\ \A q \in i..n : q # i => /\ q \in (i + 1)..n /\ q \in i..(n + 1)
                                    /\ q + 1 \in i..(n + 1) /\ q + 1 # i
    BY <1>1
  <2>3. at \in [i..(n + 1) -> J] /\ at[i] = j /\ at[i + 1] = k
    BY <1>1, <2>1, <2>2
  <2>4. bt[n + 1] = l + 1 /\ \A q \in (i + 1)..n : One(bt, q)
    BY <1>2, <2>1
  <2>5. at[n + 1] = l + 1 /\ \A q \in i..n : q # i => at[q] = bt[q] /\ at[q + 1] = bt[q + 1]
    BY <2>2, <2>4
  <2> HIDE DEF at
  <2>6. ASSUME NEW q \in i..n PROVE One(at, q)
    <3>1. CASE q = i
      BY <1>5, <2>3, <3>1 DEF One
    <3>2. CASE q # i
      <4>1. One(bt, q) /\ at[q] = bt[q] /\ at[q + 1] = bt[q + 1]
        BY <2>2, <2>4, <2>5, <3>2
      <4>2. QED
        BY <4>1 DEF One
    <3>3. QED
      BY <3>1, <3>2
  <2>7. Fits(p, v, at, i)
    BY <1>2, <2>5, <2>6
  <2>8. QED
    BY <1>1, <1>3, <2>3, <2>7
<1>6. QED
  BY <1>4, <1>5 DEF Leads

\* At the end of the value only stars match.
LEMMA PlacesOfStars ==
    ASSUME NEW C, NEW p \in Seq(C), NEW v \in Seq(C), NEW i \in 1..(Len(p) + 1)
    PROVE  Len(v) + 1 \in PlacesFrom(p, v, i) <=> OnlyStars(p, i)
<1> DEFINE n == Len(p)
           l == Len(v)
           T == {d \in Nat : d <= n => (l + 1 \in PlacesFrom(p, v, (n + 1) - d)
                                          <=> OnlyStars(p, (n + 1) - d))}
<1>1. n \in Nat /\ l \in Nat /\ l + 1 \in 1..(l + 1)
  OBVIOUS
<1>2. \A k : k \in PlacesFrom(p, v, n + 1) <=> k = l + 1
  BY PlacesAtEnd
<1>3. \A k, q : k \in PlacesFrom(p, v, q) => k \in 1..(l + 1)
  BY DEF PlacesFrom
<1>4. \A q \in 1..n : l + 1 \in PlacesFrom(p, v, q) <=> Leads(p, v, q, l + 1)
  BY <1>1, PlacesBefore
<1>5. \A q : OnlyStars(p, q) <=> \A k \in q..n : p[k] = Star
  BY DEF OnlyStars
<1>6. 0 \in T
  <2>1. (n + 1) - 0 = n + 1 /\ (n + 1)..n = {}
    BY <1>1
  <2>2. QED
    BY <1>2, <1>5, <2>1
<1> HIDE DEF n, l
<1>7. ASSUME NEW d \in Nat, d \in T PROVE d + 1 \in T
  <2> DEFINE q == n - d
  <2>1. SUFFICES ASSUME d + 1 <= n
                 PROVE  l + 1 \in PlacesFrom(p, v, (n + 1) - (d + 1)) <=> OnlyStars(p, (n + 1) - (d + 1))
    OBVIOUS
  <2>2. q \in 1..n /\ (n + 1) - (d + 1) = q /\ (n + 1) - d = q + 1 /\ d <= n
    BY <1>1, <2>1
  <2> HIDE DEF q
  <2>3. l + 1 \in PlacesFrom(p, v, q + 1) <=> OnlyStars(p, q + 1)
    BY <1>7, <2>2
  <2>4. l + 1 \in PlacesFrom(p, v, q) <=> p[q] = Star /\ l + 1 \in PlacesFrom(p, v, q + 1)
    <3>1. \A k \in PlacesFrom(p, v, q + 1) : k # (l + 1) + 1 /\ (l + 1 <= k <=> k = l + 1)
      BY <1>1, <1>3
    <3>2. l + 1 <= l + 1
      BY <1>1
    <3>3. QED
      BY <1>4, <2>2, <3>1, <3>2 DEF Leads
  <2>5. OnlyStars(p, q) <=> p[q] = Star /\ OnlyStars(p, q + 1)
    <3>1. q \in q..n /\ \A k : k \in q..n <=> k = q \/ k \in (q + 1)..n
      BY <1>1, <2>2
    <3>2. QED
      BY <1>5, <3>1
  <2>6. QED
    BY <2>2, <2>3, <2>4, <2>5
<1>8. Nat \subseteq T
  <2> HIDE DEF T
  <2>1. QED
    BY <1>6, <1>7, Induction
<1>9. (n + 1) - i \in Nat /\ (n + 1) - i <= n /\ (n + 1) - ((n + 1) - i) = i
  BY <1>1 DEF n
<1>10. QED
  BY <1>8, <1>9 DEF l

\* What the scan knows: without a star the rest must match from here; with one,
\* some choice for the star from sv on must make it match, what it has matched
\* since then stands for every choice, and here only for sv.
ScanInv(p, v, s) ==
    /\ s \in Scan /\ s.pi \in 1..(Len(p) + 1) /\ s.vi \in 1..(Len(v) + 1)
    /\ s.star = 0 => s.sv = 0 /\ (Matches(p, v) <=> s.vi \in PlacesFrom(p, v, s.pi))
    /\ s.star # 0 =>
          /\ s.star + 1 <= s.pi /\ s.sv >= 1 /\ s.vi = s.sv + (s.pi - (s.star + 1))
          /\ Matches(p, v) <=> \E k \in PlacesFrom(p, v, s.star + 1) : k >= s.sv
          /\ \A k \in PlacesFrom(p, v, s.star + 1) :
                k + (s.pi - (s.star + 1)) \in PlacesFrom(p, v, s.pi)
          /\ s.vi \in PlacesFrom(p, v, s.pi) => s.sv \in PlacesFrom(p, v, s.star + 1)

\* It holds at the start.
LEMMA ScanBegins ==
    ASSUME NEW C, NEW p \in Seq(C), NEW v \in Seq(C)
    PROVE  ScanInv(p, v, ScanStart)
<1>1. Len(p) \in Nat /\ Len(v) \in Nat /\ 1 \in 1..(Len(p) + 1) /\ 1 \in 1..(Len(v) + 1)
  OBVIOUS
<1>2. Matches(p, v) <=> 1 \in PlacesFrom(p, v, 1)
  BY <1>1 DEF Matches, PlacesFrom
<1>3. ScanStart \in Scan /\ ScanStart.pi = 1 /\ ScanStart.vi = 1 /\ ScanStart.star = 0 /\ ScanStart.sv = 0
  BY DEF ScanStart, ScanAt, Scan
<1>4. QED
  BY <1>1, <1>2, <1>3 DEF ScanInv

\* Where nothing is left to try the rest does not match.
LEMMA NothingFits ==
    ASSUME NEW C, NEW p \in Seq(C), NEW v \in Seq(C), NEW s \in Scan,
           s.pi \in 1..(Len(p) + 1), s.vi \in 1..Len(v), ~Literal(p, v, s), ~AtStar(p, s)
    PROVE  s.vi \notin PlacesFrom(p, v, s.pi)
<1>1. Len(p) \in Nat /\ Len(v) \in Nat /\ s.vi \in 1..(Len(v) + 1) /\ s.vi # Len(v) + 1
  OBVIOUS
<1>2. CASE s.pi = Len(p) + 1
  BY <1>1, <1>2, PlacesAtEnd
<1>3. CASE s.pi \in 1..Len(p)
  <2>1. p[s.pi] # Star /\ p[s.pi] # v[s.vi]
    BY <1>3 DEF Literal, AtStar
  <2>2. s.vi \in PlacesFrom(p, v, s.pi) <=> Leads(p, v, s.pi, s.vi)
    BY <1>1, <1>3, PlacesBefore
  <2>3. QED
    BY <2>1, <2>2 DEF Leads
<1>4. QED
  BY <1>1, <1>2, <1>3

\* The loop's body keeps it.
LEMMA ScanTurns ==
    ASSUME NEW C, NEW p \in Seq(C), NEW v \in Seq(C \ {Star}), NEW s, ScanInv(p, v, s),
           ~LoopLeft(p, v, s), NEW t, t = Turned(p, v, s)
    PROVE  ScanInv(p, v, t)
<1> DEFINE n == Len(p)
           l == Len(v)
           R(i) == PlacesFrom(p, v, i)
           a == s.star + 1
<1>1. n \in Nat /\ l \in Nat /\ v \in Seq(C)
  OBVIOUS
<1>2. /\ s \in Scan /\ s.pi \in Nat /\ s.vi \in Nat /\ s.star \in Nat /\ s.sv \in Nat /\ a \in Nat
      /\ s.pi \in 1..(n + 1) /\ s.vi \in 1..(l + 1)
  BY DEF ScanInv, Scan
<1>3. s.star = 0 => s.sv = 0 /\ (Matches(p, v) <=> s.vi \in R(s.pi))
  BY DEF ScanInv
<1>4. s.star # 0 =>
        /\ a <= s.pi /\ s.sv >= 1 /\ s.vi = s.sv + (s.pi - a)
        /\ Matches(p, v) <=> \E k \in R(a) : k >= s.sv
        /\ \A k \in R(a) : k + (s.pi - a) \in R(s.pi)
        /\ s.vi \in R(s.pi) => s.sv \in R(a)
  BY DEF ScanInv
<1>5. s.vi <= l /\ s.vi \in 1..l /\ (Literal(p, v, s) \/ AtStar(p, s) \/ s.star # 0)
  <2>1. ~(s.vi > l)
    BY DEF LoopLeft
  <2>2. QED
    BY <1>1, <1>2, <2>1 DEF LoopLeft
<1>6. \A i \in 1..n, j \in 1..(l + 1) : j \in R(i) <=> Leads(p, v, i, j)
  BY <1>1, PlacesBefore
<1>7. \A i, k : k \in R(i) => k \in Nat /\ k \in 1..(l + 1)
  BY <1>1 DEF PlacesFrom
<1>8. \A i \in 1..n, j \in 1..(l + 1) :
         p[i] = Star => (j \in R(i) <=> \E k \in R(i + 1) : j <= k)
  BY <1>6 DEF Leads
<1>9. \A i \in 1..n, j \in 1..(l + 1) :
         p[i] # Star => (j \in R(i) <=> (j + 1 \in R(i + 1) /\ v[j] = p[i]))
  <2>1. ASSUME NEW i \in 1..n, NEW j \in 1..(l + 1), p[i] # Star
        PROVE  Leads(p, v, i, j) <=> (j + 1 \in R(i + 1) /\ v[j] = p[i])
    BY <2>1 DEF Leads
  <2> HIDE DEF n, l, R
  <2>2. QED
    BY <1>6, <2>1
<1> HIDE DEF n, l, R
<1>10. CASE Literal(p, v, s)
  <2>1. t = ScanAt(s.pi + 1, s.vi + 1, s.star, s.sv)
    BY <1>10 DEF Turned
  <2>2. t \in Scan /\ t.pi = s.pi + 1 /\ t.vi = s.vi + 1 /\ t.star = s.star /\ t.sv = s.sv
    BY <1>2, <2>1 DEF Scan, ScanAt
  <2>3. s.pi <= n /\ p[s.pi] = v[s.vi]
    BY <1>10 DEF Literal, n
  <2>4. s.pi \in 1..n /\ t.pi \in 1..(n + 1) /\ t.vi \in 1..(l + 1)
    <3>1. s.pi \in 1..n
      BY <1>1, <1>2, <2>3
    <3>2. s.pi + 1 \in 1..(n + 1)
      BY <1>1, <3>1
    <3>3. s.vi + 1 \in 1..(l + 1)
      BY <1>1, <1>5
    <3>4. QED
      BY <2>2, <3>1, <3>2, <3>3
  <2>5. p[s.pi] # Star
    <3>1. v[s.vi] \in C \ {Star}
      BY <1>5 DEF l
    <3>2. QED
      BY <2>3, <3>1
  <2>6. s.vi \in R(s.pi) <=> t.vi \in R(t.pi)
    BY <1>2, <1>9, <2>2, <2>3, <2>4, <2>5
  <2>7. CASE s.star = 0
    BY <1>3, <2>2, <2>4, <2>6, <2>7 DEF ScanInv, R, n, l
  <2>8. CASE s.star # 0
    <3>1. t.pi - a = (s.pi - a) + 1
      BY <1>2, <2>2
    <3>2. a <= t.pi /\ t.sv >= 1 /\ t.vi = t.sv + (t.pi - a)
      <4>1. a <= s.pi /\ s.sv >= 1 /\ s.vi = s.sv + (s.pi - a)
        BY <1>4, <2>8
      <4> HIDE DEF a
      <4>2. a <= s.pi + 1 /\ s.vi + 1 = s.sv + ((s.pi - a) + 1)
        BY <1>2, <4>1
      <4>3. QED
        BY <2>2, <3>1, <4>1, <4>2
    <3>3. ASSUME NEW k \in R(a) PROVE k + (t.pi - a) \in R(t.pi)
      <4> DEFINE j == k + (s.pi - a)
      <4>1. j \in R(s.pi) /\ k \in Nat
        BY <1>4, <1>7, <2>8
      <4> HIDE DEF j
      <4>2. j \in 1..(l + 1) /\ j + 1 \in R(s.pi + 1)
        BY <1>7, <1>9, <2>4, <2>5, <4>1
      <4>3. j + 1 = k + (t.pi - a)
        BY <1>2, <3>1, <4>1 DEF j
      <4>4. QED
        BY <2>2, <4>2, <4>3
    <3>4. Matches(p, v) <=> \E k \in R(a) : k >= t.sv
      BY <1>4, <2>2, <2>8
    <3>5. t.vi \in R(t.pi) => t.sv \in R(a)
      BY <1>4, <2>2, <2>6, <2>8
    <3>6. a = t.star + 1
      BY <2>2
    <3> HIDE DEF a
    <3>7. QED
      BY <2>2, <2>4, <2>8, <3>2, <3>3, <3>4, <3>5, <3>6 DEF ScanInv, R, n, l
  <2>9. QED
    BY <2>7, <2>8
<1>11. CASE ~Literal(p, v, s) /\ AtStar(p, s)
  <2>1. t = ScanAt(s.pi + 1, s.vi, s.pi, s.vi)
    BY <1>11 DEF Turned
  <2>2. t \in Scan /\ t.pi = s.pi + 1 /\ t.vi = s.vi /\ t.star = s.pi /\ t.sv = s.vi
    BY <1>2, <2>1 DEF Scan, ScanAt
  <2>3. s.pi <= n /\ p[s.pi] = Star
    BY <1>11 DEF AtStar, n
  <2>4. s.pi \in 1..n /\ t.pi \in 1..(n + 1) /\ t.vi \in 1..(l + 1) /\ t.star # 0
    BY <1>1, <1>2, <2>2, <2>3
  <2>5. \A j \in 1..(l + 1) : j \in R(s.pi) <=> \E k \in R(s.pi + 1) : j <= k
    BY <1>8, <2>3, <2>4
  <2>6. Matches(p, v) <=> s.vi \in R(s.pi)
    <3>1. CASE s.star = 0
      BY <1>3, <3>1
    <3>2. CASE s.star # 0
      <4>1. ASSUME s.vi \in R(s.pi) PROVE Matches(p, v)
        <5>1. s.sv \in R(a) /\ s.sv >= s.sv
          BY <1>2, <1>4, <3>2, <4>1
        <5>2. QED
          BY <1>4, <3>2, <5>1
      <4>2. ASSUME Matches(p, v) PROVE s.vi \in R(s.pi)
        <5>1. PICK k \in R(a) : k >= s.sv
          BY <1>4, <3>2, <4>2
        <5> DEFINE j == k + (s.pi - a)
        <5>2. j \in R(s.pi) /\ k \in Nat
          BY <1>4, <1>7, <3>2
        <5>3. j \in 1..(l + 1) /\ s.vi <= j
          <6>1. s.vi = s.sv + (s.pi - a) /\ a <= s.pi
            BY <1>4, <3>2
          <6>2. s.vi <= j
            <7> HIDE DEF a
            <7>1. QED
              BY <1>2, <5>1, <5>2, <6>1
          <6>3. j \in 1..(l + 1)
            BY <1>7, <5>2
          <6>4. QED
            BY <6>2, <6>3
        <5> HIDE DEF j
        <5>4. PICK m \in R(s.pi + 1) : j <= m
          BY <2>5, <5>2, <5>3
        <5>5. s.vi <= m
          BY <1>2, <1>7, <5>3, <5>4
        <5>6. QED
          BY <1>2, <2>5, <5>5
      <4>3. QED
        BY <4>1, <4>2
    <3>3. QED
      BY <3>1, <3>2
  <2>7. s.vi \in R(s.pi) <=> \E k \in R(t.pi) : k >= t.sv
    <3>1. \A k \in R(s.pi + 1) : k >= s.vi <=> s.vi <= k
      BY <1>2, <1>7
    <3>2. QED
      BY <1>2, <2>2, <2>5, <3>1
  <2>8. /\ t.pi = t.star + 1 /\ t.pi - t.pi = 0 /\ t.sv >= 1 /\ t.vi = t.sv + (t.pi - t.pi)
        /\ t.pi <= t.pi
    BY <1>2, <2>2
  <2>9. \A k \in R(t.pi) : k + (t.pi - t.pi) \in R(t.pi)
    <3>1. \A k \in R(t.pi) : k + (t.pi - t.pi) = k
      BY <1>7, <2>8
    <3>2. QED
      BY <3>1
  <2>10. t.vi \in R(t.pi) => t.sv \in R(t.pi)
    BY <2>2
  <2>11. QED
    BY <2>2, <2>4, <2>6, <2>7, <2>8, <2>9, <2>10 DEF ScanInv, R, n, l
<1>12. CASE ~Literal(p, v, s) /\ ~AtStar(p, s)
  <2>1. t = ScanAt(s.star + 1, s.sv + 1, s.star, s.sv + 1) /\ s.star # 0
    BY <1>5, <1>12 DEF Turned
  <2>2. t \in Scan /\ t.pi = a /\ t.vi = s.sv + 1 /\ t.star = s.star /\ t.sv = s.sv + 1
    BY <1>2, <2>1 DEF Scan, ScanAt
  <2>3. s.sv <= s.vi /\ a <= s.pi
    BY <1>2, <1>4, <2>1
  <2>4. t.pi \in 1..(n + 1) /\ t.vi \in 1..(l + 1)
    <3>1. a \in 1..(n + 1)
      BY <1>1, <1>2, <2>3
    <3>2. s.sv + 1 \in 1..(l + 1)
      BY <1>1, <1>2, <1>5, <2>3
    <3>3. QED
      BY <2>2, <3>1, <3>2
  <2>5. s.vi \notin R(s.pi)
    <3>1. s.pi \in 1..(Len(p) + 1) /\ s.vi \in 1..Len(v)
      BY <1>2, <1>5 DEF n, l
    <3>2. QED
      BY <1>1, <1>2, <1>12, <3>1, NothingFits DEF R
  <2>6. s.sv \notin R(a)
    <3>1. s.sv \in R(a) => s.sv + (s.pi - a) \in R(s.pi)
      BY <1>4, <2>1
    <3>2. QED
      BY <1>4, <2>1, <2>5, <3>1
  <2>7. Matches(p, v) <=> \E k \in R(a) : k >= t.sv
    <3>1. \A k \in R(a) : k >= s.sv <=> k >= t.sv
      BY <1>2, <1>7, <2>2, <2>6
    <3>2. QED
      BY <1>4, <2>1, <3>1
  <2>8. t.star + 1 = a /\ t.pi - a = 0 /\ t.sv >= 1 /\ t.vi = t.sv + (t.pi - a) /\ a <= t.pi
    BY <1>2, <2>2
  <2>9. \A k \in R(a) : k + (t.pi - a) \in R(t.pi)
    <3>1. \A k \in R(a) : k + (t.pi - a) = k
      BY <1>7, <2>8
    <3>2. QED
      BY <2>2, <3>1
  <2>10. t.vi \in R(t.pi) => t.sv \in R(a)
    BY <2>2
  <2> HIDE DEF a
  <2>11. QED
    BY <2>1, <2>2, <2>4, <2>7, <2>8, <2>9, <2>10 DEF ScanInv, R, n, l
<1>13. QED
  BY <1>10, <1>11, <1>12

\* Where the loop is left the answer is right.
LEMMA ScanEnds ==
    ASSUME NEW C, NEW p \in Seq(C), NEW v \in Seq(C), NEW s, ScanInv(p, v, s), LoopLeft(p, v, s)
    PROVE  (s.vi > Len(v) /\ OnlyStars(p, s.pi)) <=> Matches(p, v)
<1> DEFINE n == Len(p)
           l == Len(v)
           R(i) == PlacesFrom(p, v, i)
           a == s.star + 1
<1>1. n \in Nat /\ l \in Nat
  OBVIOUS
<1>2. /\ s \in Scan /\ s.pi \in Nat /\ s.vi \in Nat /\ s.star \in Nat /\ s.sv \in Nat /\ a \in Nat
      /\ s.pi \in 1..(n + 1) /\ s.vi \in 1..(l + 1)
  BY DEF ScanInv, Scan
<1>3. s.star = 0 => (Matches(p, v) <=> s.vi \in R(s.pi))
  BY DEF ScanInv
<1>4. CASE s.vi > l
  <2>1. s.vi = l + 1
    BY <1>1, <1>2, <1>4
  <2>2. OnlyStars(p, s.pi) <=> s.vi \in R(s.pi)
    BY <1>2, <2>1, PlacesOfStars
  <2>3. CASE s.star = 0
    BY <1>3, <1>4, <2>2, <2>3
  <2>4. CASE s.star # 0
    <3>1. /\ a <= s.pi /\ s.vi = s.sv + (s.pi - a)
          /\ Matches(p, v) <=> \E k \in R(a) : k >= s.sv
          /\ \A k \in R(a) : k + (s.pi - a) \in R(s.pi)
          /\ s.vi \in R(s.pi) => s.sv \in R(a)
      BY <2>4 DEF ScanInv
    <3>2. \A i, k : k \in R(i) => k \in Nat /\ k <= l + 1
      BY <1>1 DEF PlacesFrom
    <3> HIDE DEF R, a, n, l
    <3>3. ASSUME s.vi \in R(s.pi) PROVE Matches(p, v)
      <4>1. s.sv \in R(a) /\ s.sv >= s.sv
        BY <1>2, <3>1, <3>3
      <4>2. QED
        BY <3>1, <4>1
    <3>4. ASSUME Matches(p, v) PROVE s.vi \in R(s.pi)
      <4>1. PICK k \in R(a) : k >= s.sv
        BY <3>1, <3>4
      <4> DEFINE j == k + (s.pi - a)
      <4>2. j \in R(s.pi) /\ k \in Nat
        BY <3>1, <3>2
      <4>3. s.vi <= j
        BY <1>2, <3>1, <4>1, <4>2
      <4>4. j \in Nat /\ j <= l + 1
        BY <3>2, <4>2
      <4> HIDE DEF j
      <4>5. j = s.vi
        BY <1>1, <1>2, <2>1, <4>3, <4>4
      <4>6. QED
        BY <4>2, <4>5
    <3>5. QED
      BY <1>4, <2>2, <3>3, <3>4 DEF l
  <2>5. QED
    BY <2>3, <2>4
<1>5. CASE ~(s.vi > l)
  <2>1. ~Literal(p, v, s) /\ ~AtStar(p, s) /\ s.star = 0
    BY <1>5 DEF LoopLeft
  <2>2. s.vi \in 1..l
    BY <1>1, <1>2, <1>5
  <2>3. s.vi \notin R(s.pi)
    BY <1>2, <2>1, <2>2, NothingFits
  <2>4. QED
    BY <1>3, <1>5, <2>1, <2>3
<1>6. QED
  BY <1>4, <1>5

\* Every turn adds to this number, which has a bound: the loop ends.
Weight(p, s) == s.sv * (Len(p) + 2) + s.pi

\* The bound, and the turn.
LEMMA ScanAdvances ==
    ASSUME NEW C, NEW p \in Seq(C), NEW v \in Seq(C), NEW s, ScanInv(p, v, s)
    PROVE  /\ Weight(p, s) \in Nat /\ Weight(p, s) < MaxTurns(p, v)
           /\ ~LoopLeft(p, v, s) => Weight(p, Turned(p, v, s)) >= Weight(p, s) + 1
<1> DEFINE n == Len(p)
           l == Len(v)
           w == n + 2
           t == Turned(p, v, s)
<1>1. n \in Nat /\ l \in Nat /\ w \in Nat
  OBVIOUS
<1>2. /\ s \in Scan /\ s.pi \in Nat /\ s.vi \in Nat /\ s.star \in Nat /\ s.sv \in Nat
      /\ s.pi \in 1..(n + 1) /\ s.vi \in 1..(l + 1) /\ s.pi >= 1
  BY DEF ScanInv, Scan
<1>3. s.sv <= s.vi
  <2>1. CASE s.star = 0
    BY <1>2, <2>1 DEF ScanInv
  <2>2. CASE s.star # 0
    <3>1. s.star + 1 <= s.pi /\ s.vi = s.sv + (s.pi - (s.star + 1))
      BY <2>2 DEF ScanInv
    <3>2. QED
      BY <1>2, <3>1
  <2>3. QED
    BY <2>1, <2>2
<1>4. Weight(p, s) = s.sv * w + s.pi /\ Weight(p, t) = t.sv * w + t.pi /\ MaxTurns(p, v) = (l + 2) * w
  BY DEF Weight, MaxTurns
<1> HIDE DEF w
<1>5. \A x \in Nat : x * w \in Nat /\ (x + 1) * w = x * w + w
  BY <1>1
<1>6. \A x, y \in Nat : x <= y => x * w <= y * w
  <2>1. SUFFICES ASSUME NEW x \in Nat, NEW y \in Nat, x <= y PROVE x * w <= y * w
    OBVIOUS
  <2>2. y - x \in Nat /\ y = x + (y - x)
    BY <2>1
  <2>3. (x + (y - x)) * w = x * w + (y - x) * w
    BY <1>1, <2>2
  <2>4. (y - x) * w \in Nat /\ x * w \in Nat
    BY <1>5, <2>2
  <2>5. QED
    BY <2>2, <2>3, <2>4
<1>7. Weight(p, s) \in Nat /\ Weight(p, s) < (l + 2) * w
  <2>1. s.sv <= l + 1 /\ l + 1 \in Nat
    BY <1>1, <1>2, <1>3
  <2>2. s.sv * w <= (l + 1) * w /\ s.sv * w \in Nat /\ (l + 1) * w \in Nat
    BY <1>2, <1>5, <1>6, <2>1
  <2>3. (l + 2) * w = (l + 1) * w + w
    <3>1. l + 2 = (l + 1) + 1
      BY <1>1
    <3>2. QED
      BY <1>5, <2>1, <3>1
  <2>4. s.pi < w
    BY <1>1, <1>2 DEF w
  <2>5. QED
    BY <1>1, <1>2, <1>4, <2>2, <2>3, <2>4
<1>8. ASSUME ~LoopLeft(p, v, s) PROVE Weight(p, t) >= Weight(p, s) + 1
  <2>1. CASE Literal(p, v, s)
    <3>1. t.sv = s.sv /\ t.pi = s.pi + 1
      BY <1>8, <2>1 DEF Turned, ScanAt
    <3> HIDE DEF t
    <3>2. s.sv * w \in Nat
      BY <1>2, <1>5
    <3>3. QED
      BY <1>2, <1>4, <3>1, <3>2
  <2>2. CASE ~Literal(p, v, s) /\ AtStar(p, s)
    <3>1. t.sv = s.vi /\ t.pi = s.pi + 1
      BY <1>8, <2>2 DEF Turned, ScanAt
    <3> HIDE DEF t
    <3>2. s.sv * w \in Nat /\ s.vi * w \in Nat /\ s.sv * w <= s.vi * w
      BY <1>2, <1>3, <1>5, <1>6
    <3>3. QED
      BY <1>2, <1>4, <3>1, <3>2
  <2>3. CASE ~Literal(p, v, s) /\ ~AtStar(p, s)
    <3>1. t.sv = s.sv + 1 /\ t.pi = s.star + 1
      BY <1>8, <2>3 DEF Turned, ScanAt
    <3> HIDE DEF t
    <3>2. s.sv * w \in Nat /\ (s.sv + 1) * w = s.sv * w + w
      BY <1>2, <1>5
    <3>3. s.pi + 1 <= w
      BY <1>1, <1>2 DEF w
    <3>4. t.sv * w + t.pi = (s.sv * w + w) + (s.star + 1)
      BY <3>1, <3>2
    <3> DEFINE x == s.sv * w
    <3>5. x \in Nat /\ Weight(p, s) = x + s.pi /\ Weight(p, t) = (x + w) + (s.star + 1)
      BY <1>4, <3>2, <3>4
    <3> HIDE DEF x
    <3>6. (x + w) + (s.star + 1) >= (x + s.pi) + 1
      <4>1. \A y, z, u \in Nat : y + 1 <= u => (x + u) + (z + 1) >= (x + y) + 1
        BY <3>5
      <4>2. QED
        BY <1>1, <1>2, <3>3, <4>1
    <3>7. QED
      BY <3>5, <3>6
  <2>4. QED
    BY <2>1, <2>2, <2>3
<1>9. QED
  BY <1>4, <1>7, <1>8

IsScanning(after, p, v) ==
    after[0] = ScanStart /\ \A i \in 1..MaxTurns(p, v) : after[i] = Turned(p, v, after[i - 1])

\* The loop has a run.
LEMMA ScanningRuns ==
    ASSUME NEW C, NEW p \in Seq(C), NEW v \in Seq(C)
    PROVE  MaxTurns(p, v) \in Nat /\ IsScanning(scanning(p, v), p, v)
<1> DEFINE N == MaxTurns(p, v)
           F == [q \in Scan \X (1..N) |-> Turned(p, v, q[1])]
           Is(g) == g = [i \in 0..N |-> IF i = 0 THEN ScanStart ELSE Turned(p, v, g[i - 1])]
           S == scanning(p, v)
<1>1. N \in Nat
  <2>1. Len(p) + 2 \in Nat /\ Len(v) + 2 \in Nat
    OBVIOUS
  <2>2. QED
    BY <2>1 DEF MaxTurns
<1>2. ScanStart \in Scan /\ \A s \in Scan : Turned(p, v, s) \in Scan
  <2>1. ASSUME NEW s \in Scan PROVE Turned(p, v, s) \in Scan
    <3>1. s.pi \in Nat /\ s.vi \in Nat /\ s.star \in Nat /\ s.sv \in Nat
      BY DEF Scan
    <3>2. \A a, b, c, d \in Nat : ScanAt(a, b, c, d) \in Scan
      BY DEF Scan, ScanAt
    <3>3. /\ s.pi + 1 \in Nat /\ s.vi + 1 \in Nat /\ s.star + 1 \in Nat /\ s.sv + 1 \in Nat
      BY <3>1
    <3>4. /\ ScanAt(s.pi + 1, s.vi + 1, s.star, s.sv) \in Scan
          /\ ScanAt(s.pi + 1, s.vi, s.pi, s.vi) \in Scan
          /\ ScanAt(s.star + 1, s.sv + 1, s.star, s.sv + 1) \in Scan
      BY <3>1, <3>2, <3>3
    <3>5. QED
      BY <3>4 DEF Turned
  <2>2. QED
    BY <2>1 DEF ScanStart, ScanAt, Scan
<1> HIDE DEF N
<1>3. F \in [Scan \X (1..N) -> Scan] /\ \A x \in Scan, i \in 1..N : F[<<x, i>>] = Turned(p, v, x)
  BY <1>2
<1> HIDE DEF F, Is
<1>4. PICK g \in [0..N -> Scan] : IsRun(g, N, ScanStart, F)
  BY <1>1, <1>2, <1>3, LoopRuns
<1>5. g[0] = ScanStart /\ \A i \in 1..N : g[i] = F[<<g[i - 1], i>>]
  BY <1>4 DEF IsRun
<1>6. \A i \in 1..N : i - 1 \in 0..N
  BY <1>1
<1>7. \A i \in 1..N : g[i] = Turned(p, v, g[i - 1])
  BY <1>3, <1>5, <1>6
<1>8. Is(g)
  <2>1. \A i \in 0..N : i # 0 => i \in 1..N
    BY <1>1
  <2>2. \A i \in 0..N : g[i] = IF i = 0 THEN ScanStart ELSE Turned(p, v, g[i - 1])
    BY <1>5, <1>7, <2>1
  <2>3. QED
    BY <2>2 DEF Is
<1>9. S = CHOOSE f : Is(f)
  BY DEF scanning, N, Is
<1>10. Is(S)
  BY <1>8, <1>9
<1> HIDE DEF S
<1>11. \A i \in 0..N : S[i] = IF i = 0 THEN ScanStart ELSE Turned(p, v, S[i - 1])
  BY <1>10 DEF Is
<1>12. 0 \in 0..N /\ \A i \in 1..N : i \in 0..N /\ i # 0
  BY <1>1
<1>13. S[0] = ScanStart /\ \A i \in 1..N : S[i] = Turned(p, v, S[i - 1])
  BY <1>11, <1>12
<1>14. QED
  BY <1>1, <1>13 DEF IsScanning, S, N

\* The inspector's command filter (wildcard_match), for every pattern and every
\* command without a star: its loop ends, and it accepts exactly the commands that
\* some choice of a text for each star makes the pattern match, although it only
\* ever returns to the last star.
LEMMA FilterAlwaysRight ==
    ASSUME NEW C, NEW p \in Seq(C), NEW v \in Seq(C \ {Star})
    PROVE  FilterRight(p, v)
<1> DEFINE N == MaxTurns(p, v)
           S == scanning(p, v)
           T == {i \in Nat : i <= N => /\ ScanInv(p, v, S[i])
                                       /\ LoopLeft(p, v, S[i]) \/ Weight(p, S[i]) >= i}
<1>1. v \in Seq(C)
  OBVIOUS
<1>2. N \in Nat /\ S[0] = ScanStart /\ \A i \in 1..N : S[i] = Turned(p, v, S[i - 1])
  BY <1>1, ScanningRuns DEF IsScanning
<1> HIDE DEF N, S
<1>3. 0 \in T
  <2>1. ScanInv(p, v, ScanStart)
    BY <1>1, ScanBegins
  <2>2. Weight(p, ScanStart) \in Nat
    BY <1>1, <2>1, ScanAdvances
  <2>3. Weight(p, ScanStart) >= 0
    BY <2>2
  <2>4. QED
    BY <1>2, <2>1, <2>3
<1>4. ASSUME NEW i \in Nat, i \in T PROVE i + 1 \in T
  <2>1. SUFFICES ASSUME i + 1 <= N
                 PROVE  ScanInv(p, v, S[i + 1]) /\ (LoopLeft(p, v, S[i + 1]) \/ Weight(p, S[i + 1]) >= i + 1)
    OBVIOUS
  <2> DEFINE s == S[i]
             t == Turned(p, v, s)
  <2>2. i <= N /\ i + 1 \in 1..N /\ (i + 1) - 1 = i
    BY <1>2, <2>1
  <2>3. S[i + 1] = t
    BY <1>2, <2>2
  <2>4. ScanInv(p, v, s) /\ (LoopLeft(p, v, s) \/ Weight(p, s) >= i)
    BY <1>4, <2>2
  <2> HIDE DEF s
  <2>5. CASE LoopLeft(p, v, s)
    <3>1. t = s
      BY <2>5 DEF Turned
    <3>2. QED
      BY <2>3, <2>4, <2>5, <3>1
  <2>6. CASE ~LoopLeft(p, v, s)
    <3>1. ScanInv(p, v, t)
      BY <2>4, <2>6, ScanTurns
    <3>2. Weight(p, s) \in Nat /\ Weight(p, t) >= Weight(p, s) + 1
      BY <1>1, <2>4, <2>6, ScanAdvances
    <3>3. Weight(p, t) \in Nat
      BY <1>1, <3>1, ScanAdvances
    <3>4. Weight(p, t) >= i + 1
      BY <2>4, <2>6, <3>2, <3>3
    <3> HIDE DEF t
    <3>5. QED
      BY <2>3, <3>1, <3>4
  <2>7. QED
    BY <2>5, <2>6
<1>5. Nat \subseteq T
  <2> HIDE DEF T
  <2>1. QED
    BY <1>3, <1>4, Induction
<1> DEFINE z == S[N]
<1>6. ScanInv(p, v, z) /\ (LoopLeft(p, v, z) \/ Weight(p, z) >= N)
  BY <1>2, <1>5
<1> HIDE DEF z
<1>7. LoopLeft(p, v, z)
  <2>1. Weight(p, z) \in Nat /\ Weight(p, z) < N
    BY <1>1, <1>6, ScanAdvances DEF N
  <2>2. QED
    BY <1>2, <1>6, <2>1
<1>8. (z.vi > Len(v) /\ OnlyStars(p, z.pi)) <=> Matches(p, v)
  BY <1>1, <1>6, <1>7, ScanEnds
<1>9. QED
  BY <1>7, <1>8 DEF FilterRight, wildcard_match, z, S, N

-----------------------------------------------------------------------------
(* CaptureText.                                                             *)

\* What is taken of the buffer ends where it must, and holds no newline before.
LEMMA TakenFacts ==
    ASSUME NEW C, NEW text \in Seq(C), NEW ends, NEW at \in Nat, at < Len(text)
    PROVE  LET to == Taken(text, ends, at)
           IN  /\ to \in (at + 1)..Len(text)
               /\ \A i \in (at + 1)..(to - 1) : text[i] # Newline /\ i # Len(text)
<1> DEFINE T == Stops(text, ends, at)
           to == Taken(text, ends, at)
<1>1. Len(text) \in Nat
  OBVIOUS
<1>2. T \in SUBSET Nat /\ Len(text) \in T /\ T \subseteq (at + 1)..Len(text)
  BY <1>1 DEF Stops
<1>3. \E e \in T : \A d \in T : e <= d
  <2> HIDE DEF T
  <2>1. QED
    BY <1>2, Smallest
<1>4. to \in T /\ \A d \in T : to <= d
  BY <1>3 DEF Taken
<1>5. to \in (at + 1)..Len(text)
  BY <1>2, <1>4
<1>6. ASSUME NEW i \in (at + 1)..(to - 1) PROVE text[i] # Newline /\ i # Len(text)
  <2>1. i \in (at + 1)..Len(text) /\ ~(to <= i)
    BY <1>1, <1>5
  <2>2. i \notin T
    BY <1>4, <2>1
  <2>3. QED
    BY <2>1, <2>2 DEF Stops
<1>7. QED
  BY <1>5, <1>6

\* A line begins in one place.
LEMMA LineStartIs ==
    ASSUME NEW C, NEW text \in Seq(C), NEW e \in LineEnds(text),
           NEW b \in {0} \cup LineEnds(text), IsLine(text, b, e)
    PROVE  LineStart(text, e) = b
<1> DEFINE a == LineStart(text, e)
<1>1. a \in {0} \cup LineEnds(text) /\ IsLine(text, a, e)
  BY DEF LineStart
<1>2. \A d \in {0} \cup LineEnds(text) : d \in Nat /\ (d # 0 => d \in LineEnds(text))
  BY DEF LineEnds
<1> HIDE DEF a
<1>3. a \in Nat /\ b \in Nat /\ e \in Nat /\ a < e /\ b < e
  BY <1>1, <1>2 DEF IsLine
<1>4. a # 0 => a <= b
  BY <1>1, <1>2, <1>3 DEF IsLine
<1>5. b # 0 => b <= a
  BY <1>1, <1>2, <1>3 DEF IsLine
<1>6. a = b
  BY <1>3, <1>4, <1>5
<1>7. QED
  BY <1>6 DEF a

\* The lines that end up to place n and are not blank.
EndsUpTo(text, n) == {e \in LineEnds(text) : e <= n /\ ~Blank(LineTo(text, e))}

\* They are finitely many, and one that ends later is the last of them.
LEMMA LineAdded ==
    ASSUME NEW C, NEW text \in Seq(C), NEW n \in Nat, NEW e \in LineEnds(text), IsLine(text, n, e),
           NEW lines \in Seq(Seq(C)), LinesOf(text, lines, EndsUpTo(text, n))
    PROVE  IF Blank(LineTo(text, e)) THEN LinesOf(text, lines, EndsUpTo(text, e))
           ELSE LinesOf(text, Append(lines, LineTo(text, e)), EndsUpTo(text, e))
<1> DEFINE G == EndsUpTo(text, n)
           H == EndsUpTo(text, e)
           Up(S, x) == {d \in S : d <= x}
<1>1. Len(text) \in Nat /\ e \in Nat /\ n < e /\ \A d \in LineEnds(text) : d \in Nat /\ (d <= n \/ e <= d)
  BY DEF LineEnds, IsLine
<1>2. \A d \in LineEnds(text) : d <= e <=> d <= n \/ d = e
  BY <1>1
<1>3. CASE Blank(LineTo(text, e))
  <2>1. H = G
    BY <1>2, <1>3 DEF EndsUpTo
  <2>2. QED
    BY <1>3, <2>1
<1>4. CASE ~Blank(LineTo(text, e))
  <2>1. H = G \cup {e} /\ e \notin G
    <3>1. \A d : d \in H <=> d \in LineEnds(text) /\ d <= e /\ ~Blank(LineTo(text, d))
      BY DEF EndsUpTo
    <3>2. \A d : d \in G <=> d \in LineEnds(text) /\ d <= n /\ ~Blank(LineTo(text, d))
      BY DEF EndsUpTo
    <3> HIDE DEF G, H
    <3>3. \A d : d \in H <=> d \in G \/ d = e
      BY <1>2, <1>4, <3>1, <3>2
    <3>4. e \notin G
      BY <1>1, <3>2
    <3>5. QED
      BY <3>3, <3>4
  <2>2. G \subseteq 1..Len(text) /\ \A d \in G : d \in Nat /\ d <= n /\ d < e
    BY <1>1 DEF EndsUpTo, LineEnds
  <2>3. IsFiniteSet(1..Len(text))
    BY <1>1, FS_Interval
  <2> HIDE DEF G, H
  <2>4. IsFiniteSet(G)
    BY <2>2, <2>3, FS_Subset
  <2>5. Cardinality(G) \in Nat /\ Cardinality(H) = Cardinality(G) + 1
    BY <2>1, <2>4, FS_CardinalityType, FS_AddElement
  <2>6. Len(lines) = Cardinality(G) /\ \A d \in G : lines[Cardinality(Up(G, d))] = LineTo(text, d)
    BY DEF LinesOf, G
  <2> DEFINE longer == Append(lines, LineTo(text, e))
             k == Len(lines)
  <2>7. /\ Len(longer) = k + 1 /\ longer[k + 1] = LineTo(text, e)
        /\ \A i \in 1..k : longer[i] = lines[i]
    OBVIOUS
  <2> HIDE DEF longer, k
  <2>8. Up(H, e) = H
    <3>1. \A d \in H : d <= e
      BY <1>1, <2>1, <2>2
    <3>2. QED
      BY <3>1
  <2>9. ASSUME NEW d \in G PROVE longer[Cardinality(Up(H, d))] = LineTo(text, d)
    <3>1. Up(H, d) = Up(G, d)
      BY <1>1, <2>1, <2>2
    <3>2. Up(G, d) \subseteq G /\ d \in Up(G, d)
      BY <2>2
    <3> HIDE DEF Up
    <3>3. IsFiniteSet(Up(G, d)) /\ Cardinality(Up(G, d)) <= Cardinality(G)
      BY <2>4, <3>2, FS_Subset
    <3>4. Cardinality(Up(G, d)) \in Nat /\ Cardinality(Up(G, d)) # 0
      BY <3>2, <3>3, FS_CardinalityType, FS_EmptySet
    <3>5. Cardinality(Up(G, d)) \in 1..k
      BY <2>5, <2>6, <3>3, <3>4 DEF k
    <3>6. QED
      BY <2>6, <2>7, <3>1, <3>5
  <2>10. longer[Cardinality(Up(H, e))] = LineTo(text, e)
    BY <2>5, <2>6, <2>7, <2>8 DEF k
  <2>11. \A d \in H : longer[Cardinality(Up(H, d))] = LineTo(text, d)
    BY <2>1, <2>9, <2>10
  <2>12. Len(longer) = Cardinality(H)
    BY <2>5, <2>6, <2>7 DEF k
  <2>13. LinesOf(text, longer, H)
    BY <2>11, <2>12 DEF LinesOf
  <2>14. QED
    BY <1>4, <2>13 DEF longer, H
<1>5. QED
  BY <1>3, <1>4

\* What the reader knows: it is in the line that begins after from, the lines before
\* are good and were given to the callback, and the one it stopped at is not.
ReadInv(text, max, s) ==
    /\ s.from \in 0..Len(text) /\ s.at \in s.from..Len(text)
    /\ s.from \in {0} \cup LineEnds(text)
    /\ \A i \in (s.from + 1)..s.at : text[i] # Newline
    /\ s.at - s.from <= max
    /\ \A e \in BadEnds(text, max) : s.from < e
    /\ LinesOf(text, s.lines, EndsUpTo(text, s.from))
    /\ s.done = "end" => s.from = Len(text)
    /\ s.done = "error" => \E e \in BadEnds(text, max) : IsLine(text, s.from, e)

\* It holds at the start.
LEMMA ReadBegins ==
    ASSUME NEW C, NEW text \in Seq(C), NEW max \in Nat
    PROVE  ReadInv(text, max, ReadStart)
<1> DEFINE s == ReadStart
<1>1. s.from = 0 /\ s.at = 0 /\ s.lines = <<>> /\ s.done = "no"
  BY DEF ReadStart
<1>2. Len(text) \in Nat /\ \A e \in LineEnds(text) : e \in Nat /\ 0 < e
  BY DEF LineEnds
<1>3. EndsUpTo(text, 0) = {}
  BY <1>2 DEF EndsUpTo
<1>4. LinesOf(text, <<>>, {})
  BY FS_EmptySet DEF LinesOf
<1>5. \A e \in BadEnds(text, max) : 0 < e
  BY <1>2 DEF BadEnds
<1>6. 0 \in 0..Len(text) /\ (0 + 1)..0 = {} /\ 0 - 0 <= max
  BY <1>2
<1> HIDE DEF s
<1>7. /\ s.from \in 0..Len(text) /\ s.at \in s.from..Len(text)
      /\ s.from \in {0} \cup LineEnds(text)
      /\ \A i \in (s.from + 1)..s.at : text[i] # Newline
      /\ s.at - s.from <= max
  BY <1>1, <1>6
<1>8. /\ \A e \in BadEnds(text, max) : s.from < e
      /\ LinesOf(text, s.lines, EndsUpTo(text, s.from))
      /\ s.done # "end" /\ s.done # "error"
  BY <1>1, <1>3, <1>4, <1>5
<1>9. ReadInv(text, max, s)
  BY <1>7, <1>8 DEF ReadInv
<1>10. QED
  BY <1>9 DEF s

\* A whole line was read.
LEMMA LineReadKeeps ==
    ASSUME NEW C, NEW text \in Seq(C), NEW max \in Nat, NEW s \in LineReading(C),
           ReadInv(text, max, s), s.done = "no",
           NEW e \in LineEnds(text), IsLine(text, s.from, e), e - s.from <= max
    PROVE  LET t == LineRead(text, s, e)
           IN  /\ t \in LineReading(C) /\ ReadInv(text, max, t)
               /\ t.done = "no" => t.from = e /\ t.at = e
<1> DEFINE t == LineRead(text, s, e)
           line == SubSeq(text, s.from + 1, e)
<1>1. /\ s.from \in Nat /\ s.at \in Nat /\ s.lines \in Seq(Seq(C)) /\ Len(text) \in Nat
      /\ s.from \in {0} \cup LineEnds(text) /\ s.from < e /\ e \in 1..Len(text)
  BY DEF LineReading, ReadInv, IsLine, LineEnds
<1>2. LineStart(text, e) = s.from
  BY <1>1, LineStartIs
<1>3. LineTo(text, e) = line
  BY <1>2 DEF LineTo
<1>4. line \in Seq(C)
  BY <1>1
<1> HIDE DEF line
<1>5. CASE Invalid(line)
  <2>1. t = Failed(s)
    BY <1>5 DEF LineRead, line
  <2>2. /\ t.from = s.from /\ t.at = s.at /\ t.lines = s.lines /\ t.done = "error"
        /\ t \in LineReading(C)
    BY <2>1 DEF Failed, LineReading
  <2>3. e \in BadEnds(text, max)
    BY <1>3, <1>5 DEF BadEnds
  <2> HIDE DEF t
  <2>4. ReadInv(text, max, t)
    BY <2>2, <2>3 DEF ReadInv
  <2>5. QED
    BY <2>2, <2>4 DEF t
<1>6. CASE ~Invalid(line)
  <2> DEFINE longer == IF Blank(line) THEN s.lines ELSE Append(s.lines, line)
  <2>1. t = [from |-> e, at |-> e, done |-> "no", lines |-> longer]
    BY <1>6 DEF LineRead, line
  <2>2. longer \in Seq(Seq(C))
    BY <1>1, <1>4
  <2>3. LinesOf(text, longer, EndsUpTo(text, e))
    <3>1. LinesOf(text, s.lines, EndsUpTo(text, s.from))
      BY DEF ReadInv
    <3>2. QED
      BY <1>1, <1>3, <3>1, LineAdded
  <2> HIDE DEF longer
  <2>4. /\ t.from = e /\ t.at = e /\ t.lines = longer /\ t.done = "no" /\ t \in LineReading(C)
    BY <1>1, <2>1, <2>2 DEF LineReading
  <2>5. e \notin BadEnds(text, max)
    BY <1>2, <1>3, <1>6, <1>1 DEF BadEnds
  <2>6. ASSUME NEW d \in BadEnds(text, max) PROVE e < d
    <3>1. d \in LineEnds(text) /\ d \in Nat /\ s.from < d
      BY DEF BadEnds, LineEnds, ReadInv
    <3>2. e <= d
      BY <1>1, <3>1 DEF IsLine
    <3>3. QED
      BY <1>1, <2>5, <3>1, <3>2
  <2> HIDE DEF t
  <2>7. (e + 1)..e = {} /\ e - e = 0 /\ e \in 0..Len(text) /\ e \in e..Len(text)
    BY <1>1
  <2>8. ReadInv(text, max, t)
    BY <2>3, <2>4, <2>6, <2>7 DEF ReadInv
  <2>9. QED
    BY <2>4, <2>8 DEF t
<1>7. QED
  BY <1>5, <1>6

\* One turn of the loop keeps it, and goes on or leaves the loop.
LEMMA ReadTurns ==
    ASSUME NEW C, NEW text \in Seq(C), NEW ends, NEW max \in Nat, NEW s \in LineReading(C),
           ReadInv(text, max, s), s.done = "no"
    PROVE  LET t == read_bounded_line(text, ends, max, s)
           IN  /\ t \in LineReading(C) /\ ReadInv(text, max, t)
               /\ t.done # "no" \/ t.from + t.at >= s.from + s.at + 1
<1> DEFINE t == read_bounded_line(text, ends, max, s)
           to == Taken(text, ends, s.at)
           l == Len(text)
<1>1. /\ s.from \in Nat /\ s.at \in Nat /\ s.from <= s.at /\ s.at <= l /\ l \in Nat
      /\ s.at - s.from <= max
  BY DEF LineReading, ReadInv
<1>2. /\ s.from \in {0} \cup LineEnds(text)
      /\ \A i \in (s.from + 1)..s.at : text[i] # Newline
  BY DEF ReadInv
<1>3. CASE s.at = l /\ s.from = s.at
  <2>1. t = [s EXCEPT !.done = "end"]
    BY <1>3 DEF read_bounded_line
  <2>2. /\ t.from = s.from /\ t.at = s.at /\ t.lines = s.lines /\ t.done = "end"
        /\ t \in LineReading(C)
    BY <2>1 DEF LineReading
  <2> HIDE DEF t
  <2>3. ReadInv(text, max, t)
    BY <1>3, <2>2 DEF ReadInv
  <2>4. QED
    BY <2>2, <2>3 DEF t
<1>4. CASE s.at = l /\ s.from # s.at
  <2>1. t = LineRead(text, s, l)
    BY <1>4 DEF read_bounded_line
  <2>2. l \in LineEnds(text) /\ s.from < l
    BY <1>1, <1>4 DEF LineEnds
  <2>3. ASSUME NEW d \in LineEnds(text) PROVE d <= s.from \/ l <= d
    <3>1. d \in 1..l /\ (text[d] = Newline \/ d = l)
      BY DEF LineEnds
    <3>2. d \in (s.from + 1)..s.at => text[d] # Newline
      BY <1>2
    <3>3. QED
      BY <1>1, <1>4, <3>1, <3>2
  <2>4. IsLine(text, s.from, l)
    BY <2>2, <2>3 DEF IsLine
  <2>5. /\ t \in LineReading(C) /\ ReadInv(text, max, t)
        /\ t.done = "no" => t.from = l /\ t.at = l
    BY <1>1, <1>4, <2>1, <2>2, <2>4, LineReadKeeps
  <2> HIDE DEF t
  <2>6. t.done = "no" => t.from + t.at >= s.from + s.at + 1
    BY <1>1, <1>4, <2>2, <2>5
  <2>7. QED
    BY <2>5, <2>6 DEF t
<1>5. CASE s.at # l
  <2>1. s.at < l
    BY <1>1, <1>5
  <2>2. /\ to \in (s.at + 1)..l
        /\ \A i \in (s.at + 1)..(to - 1) : text[i] # Newline /\ i # l
    BY <1>1, <2>1, TakenFacts
  <2> HIDE DEF to
  <2>3. to \in Nat /\ s.at < to /\ s.from < to /\ to <= l
    BY <1>1, <2>2
  <2>4. ASSUME NEW d \in LineEnds(text) PROVE d <= s.from \/ to <= d
    <3>1. d \in 1..l /\ (text[d] = Newline \/ d = l)
      BY DEF LineEnds
    <3>2. d \in (s.from + 1)..s.at => text[d] # Newline
      BY <1>2
    <3>3. d \notin (s.at + 1)..(to - 1)
      BY <2>2, <3>1
    <3>4. QED
      BY <1>1, <2>1, <2>3, <3>1, <3>2, <3>3
  <2>5. CASE TooLong(s, to, max)
    <3>1. t = Failed(s)
      BY <1>5, <2>5 DEF read_bounded_line, to
    <3>2. /\ t.from = s.from /\ t.at = s.at /\ t.lines = s.lines /\ t.done = "error"
          /\ t \in LineReading(C)
      BY <3>1 DEF Failed, LineReading
    <3> HIDE DEF t
    <3> DEFINE T == {d \in LineEnds(text) : to <= d}
    <3>3. T \in SUBSET Nat /\ l \in T
      BY <1>1, <2>3 DEF LineEnds
    <3>4. PICK e \in T : \A d \in T : e <= d
      <4> HIDE DEF T
      <4>1. QED
        BY <3>3, Smallest
    <3>5. e \in LineEnds(text) /\ e \in Nat /\ to <= e
      BY <3>3, <3>4
    <3>6. \A d \in LineEnds(text) : d <= s.from \/ e <= d
      BY <2>4, <3>4
    <3>7. IsLine(text, s.from, e)
      BY <1>1, <2>3, <3>5, <3>6 DEF IsLine
    <3>8. LineStart(text, e) = s.from
      BY <1>2, <3>5, <3>7, LineStartIs
    <3>9. e - s.from > max
      BY <1>1, <2>3, <2>5, <3>5 DEF TooLong
    <3>10. e \in BadEnds(text, max)
      BY <3>5, <3>8, <3>9 DEF BadEnds
    <3>11. ReadInv(text, max, t)
      BY <3>2, <3>7, <3>10 DEF ReadInv
    <3>12. QED
      BY <3>2, <3>11 DEF t
  <2>6. CASE ~TooLong(s, to, max) /\ text[to] = Newline
    <3>1. t = LineRead(text, s, to)
      BY <1>5, <2>6 DEF read_bounded_line, to
    <3>2. to \in LineEnds(text)
      <4>1. to \in 1..l
        BY <1>1, <2>3
      <4>2. QED
        BY <2>6, <4>1 DEF LineEnds
    <3>3. IsLine(text, s.from, to)
      BY <2>3, <2>4 DEF IsLine
    <3>4. to - s.from <= max
      BY <1>1, <2>3, <2>6 DEF TooLong
    <3>5. /\ t \in LineReading(C) /\ ReadInv(text, max, t)
          /\ t.done = "no" => t.from = to /\ t.at = to
      BY <3>1, <3>2, <3>3, <3>4, LineReadKeeps
    <3> HIDE DEF t
    <3>6. t.done = "no" => t.from + t.at >= s.from + s.at + 1
      BY <1>1, <2>3, <3>5
    <3>7. QED
      BY <3>5, <3>6 DEF t
  <2>7. CASE ~TooLong(s, to, max) /\ text[to] # Newline
    <3>1. t = [s EXCEPT !.at = to]
      BY <1>5, <2>7 DEF read_bounded_line, to
    <3>2. /\ t.from = s.from /\ t.at = to /\ t.lines = s.lines /\ t.done = "no"
          /\ t \in LineReading(C)
      BY <2>3, <3>1 DEF LineReading
    <3> HIDE DEF t
    <3>3. \A i \in (s.from + 1)..to :
             i \in (s.from + 1)..s.at \/ i \in (s.at + 1)..(to - 1) \/ i = to
      BY <1>1, <2>3
    <3>4. \A i \in (s.from + 1)..to : text[i] # Newline
      BY <1>2, <2>2, <2>7, <3>3
    <3>5. to - s.from <= max /\ to \in s.from..l
      BY <1>1, <2>3, <2>7 DEF TooLong
    <3>6. ReadInv(text, max, t)
      BY <3>2, <3>4, <3>5 DEF ReadInv
    <3>7. t.from + t.at >= s.from + s.at + 1
      BY <1>1, <2>3, <3>2
    <3>8. QED
      BY <3>2, <3>6, <3>7 DEF t
  <2>8. QED
    BY <2>5, <2>6, <2>7
<1>6. QED
  BY <1>3, <1>4, <1>5

\* Where the loop was left, the lines given to the callback are the right ones.
LEMMA ReadEnds ==
    ASSUME NEW C, NEW text \in Seq(C), NEW max \in Nat, NEW s \in LineReading(C),
           ReadInv(text, max, s), s.done # "no"
    PROVE  /\ s.done = IF BadEnds(text, max) = {} THEN "end" ELSE "error"
           /\ LinesOf(text, s.lines, GoodEnds(text, max))
<1> DEFINE B == BadEnds(text, max)
           l == Len(text)
<1>1. /\ s.from \in Nat /\ l \in Nat /\ s.done \in {"end", "error"}
      /\ \A e \in LineEnds(text) : e \in Nat /\ e <= l
  BY DEF LineReading, LineEnds
<1>2. /\ \A e \in B : e \in LineEnds(text) /\ e \in Nat /\ s.from < e
      /\ LinesOf(text, s.lines, EndsUpTo(text, s.from))
      /\ s.done = "end" => s.from = l
      /\ s.done = "error" => \E e \in B : IsLine(text, s.from, e)
  BY <1>1 DEF ReadInv, BadEnds
<1> HIDE DEF B, l
<1>3. s.done = IF B = {} THEN "end" ELSE "error"
  <2>1. CASE s.done = "end"
    BY <1>1, <1>2, <2>1
  <2>2. CASE s.done = "error"
    BY <1>2, <2>2
  <2>3. QED
    BY <1>1, <2>1, <2>2
<1>4. ASSUME NEW e \in LineEnds(text) PROVE e <= s.from <=> \A b \in B : e < b
  <2>1. e <= s.from => \A b \in B : e < b
    BY <1>1, <1>2
  <2>2. CASE s.done = "end"
    BY <1>1, <1>2, <2>1, <2>2
  <2>3. CASE s.done = "error"
    <3>1. PICK b \in B : IsLine(text, s.from, b)
      BY <1>2, <2>3
    <3>2. e <= s.from \/ b <= e
      BY <3>1 DEF IsLine
    <3>3. QED
      BY <1>1, <1>2, <2>1, <3>2
  <2>4. QED
    BY <1>1, <2>2, <2>3
<1>5. EndsUpTo(text, s.from) = GoodEnds(text, max)
  <2>1. \A e : e \in EndsUpTo(text, s.from)
                 <=> e \in LineEnds(text) /\ e <= s.from /\ ~Blank(LineTo(text, e))
    BY DEF EndsUpTo
  <2>2. \A e : e \in GoodEnds(text, max)
                 <=> e \in LineEnds(text) /\ (\A b \in B : e < b) /\ ~Blank(LineTo(text, e))
    BY DEF GoodEnds, B
  <2>3. QED
    BY <1>4, <2>1, <2>2
<1>6. QED
  BY <1>2, <1>3, <1>5 DEF B

IsReading(after, text, ends, max) ==
    /\ after[0] = ReadStart
    /\ \A i \in 1..MaxReads(text) : after[i] = read_bounded_line(text, ends, max, after[i - 1])

\* The loop has a run, in which the invariant holds.
LEMMA ReadingRuns ==
    ASSUME NEW C, NEW text \in Seq(C), NEW ends, NEW max \in Nat
    PROVE  /\ MaxReads(text) \in Nat
           /\ IsReading(reading(text, ends, max), text, ends, max)
           /\ \A i \in 0..MaxReads(text) : /\ reading(text, ends, max)[i] \in LineReading(C)
                                           /\ ReadInv(text, max, reading(text, ends, max)[i])
<1> DEFINE N == MaxReads(text)
           Next1(s) == read_bounded_line(text, ends, max, s)
           X == {s \in LineReading(C) : ReadInv(text, max, s)}
           F == [q \in X \X (1..N) |-> Next1(q[1])]
           Is(g) == g = [i \in 0..N |-> IF i = 0 THEN ReadStart ELSE Next1(g[i - 1])]
           S == reading(text, ends, max)
<1>1. N \in Nat
  BY DEF MaxReads
<1>2. ReadStart \in X
  <2>1. ReadStart \in LineReading(C)
    BY DEF ReadStart, LineReading
  <2>2. QED
    BY <2>1, ReadBegins
<1>3. ASSUME NEW s \in X PROVE Next1(s) \in X
  <2>1. CASE s.done = "no"
    <3>1. Next1(s) \in LineReading(C) /\ ReadInv(text, max, Next1(s))
      BY <2>1, ReadTurns
    <3>2. QED
      BY <3>1
  <2>2. CASE s.done # "no"
    BY <2>2 DEF read_bounded_line
  <2>3. QED
    BY <2>1, <2>2
<1> HIDE DEF N, X, Next1
<1>4. F \in [X \X (1..N) -> X] /\ \A x \in X, i \in 1..N : F[<<x, i>>] = Next1(x)
  BY <1>3
<1> HIDE DEF F, Is
<1>5. PICK g \in [0..N -> X] : IsRun(g, N, ReadStart, F)
  BY <1>1, <1>2, <1>4, LoopRuns
<1>6. g[0] = ReadStart /\ \A i \in 1..N : g[i] = F[<<g[i - 1], i>>]
  BY <1>5 DEF IsRun
<1>7. /\ 0 \in 0..N /\ \A i \in 1..N : i - 1 \in 0..N /\ i \in 0..N /\ i # 0
      /\ \A i \in 0..N : i # 0 => i \in 1..N
  BY <1>1
<1>8. \A i \in 1..N : g[i] = Next1(g[i - 1])
  BY <1>4, <1>6, <1>7
<1>9. Is(g)
  <2>1. \A i \in 0..N : g[i] = IF i = 0 THEN ReadStart ELSE Next1(g[i - 1])
    BY <1>6, <1>7, <1>8
  <2>2. QED
    BY <2>1 DEF Is
<1>10. S = CHOOSE f : Is(f)
  BY DEF reading, N, Is, Next1
<1>11. Is(S)
  BY <1>9, <1>10
<1> HIDE DEF S
<1>12. \A i \in 0..N : S[i] = IF i = 0 THEN ReadStart ELSE Next1(S[i - 1])
  BY <1>11 DEF Is
<1>13. S[0] = ReadStart /\ \A i \in 1..N : S[i] = Next1(S[i - 1])
  BY <1>7, <1>12
<1> DEFINE T == {i \in Nat : i <= N => S[i] \in X}
<1>14. 0 \in T
  BY <1>2, <1>13
<1>15. ASSUME NEW i \in Nat, i \in T PROVE i + 1 \in T
  <2>1. SUFFICES ASSUME i + 1 <= N PROVE S[i + 1] \in X
    OBVIOUS
  <2>2. i <= N /\ i + 1 \in 1..N /\ (i + 1) - 1 = i
    BY <1>1, <2>1
  <2>3. S[i] \in X /\ S[i + 1] = Next1(S[i])
    BY <1>13, <1>15, <2>2
  <2>4. QED
    BY <1>3, <2>3
<1>16. Nat \subseteq T
  <2> HIDE DEF T
  <2>1. QED
    BY <1>14, <1>15, Induction
<1>17. \A i \in 0..N : S[i] \in X
  BY <1>1, <1>16
<1>18. QED
  BY <1>1, <1>13, <1>17 DEF IsReading, S, N, X, Next1

\* read_records, for every file, every way its buffers cut it and every limit: it
\* ends, its records are the lines up to the first that is invalid or too long, and
\* it fails exactly when there is such a line.
LEMMA LinesAlwaysRight ==
    ASSUME NEW C, NEW text \in Seq(C), NEW ends, NEW max \in Nat
    PROVE  LinesRight(text, ends, max)
<1> DEFINE N == MaxReads(text)
           S == reading(text, ends, max)
           T == {i \in Nat : i <= N => S[i].done # "no" \/ S[i].from + S[i].at >= i}
<1>1. /\ N \in Nat /\ S[0] = ReadStart
      /\ \A i \in 1..N : S[i] = read_bounded_line(text, ends, max, S[i - 1])
  BY ReadingRuns DEF IsReading
<1>2. \A i \in 0..N : S[i] \in LineReading(C) /\ ReadInv(text, max, S[i])
  BY ReadingRuns
<1>3. N = 2 * Len(text) + 1 /\ Len(text) \in Nat
  BY DEF MaxReads
<1> HIDE DEF N, S
<1>4. 0 \in T
  <2>1. ReadStart.from + ReadStart.at >= 0
    BY DEF ReadStart
  <2>2. QED
    BY <1>1, <2>1
<1>5. ASSUME NEW i \in Nat, i \in T PROVE i + 1 \in T
  <2> DEFINE s == S[i]
             t == S[i + 1]
  <2>1. SUFFICES ASSUME i + 1 <= N PROVE t.done # "no" \/ t.from + t.at >= i + 1
    OBVIOUS
  <2>2. i <= N /\ i \in 0..N /\ i + 1 \in 0..N /\ i + 1 \in 1..N /\ (i + 1) - 1 = i
    BY <1>1, <2>1
  <2>3. t = read_bounded_line(text, ends, max, s)
    BY <1>1, <2>2
  <2>4. s \in LineReading(C) /\ ReadInv(text, max, s) /\ t \in LineReading(C)
    BY <1>2, <2>2
  <2>5. s.done # "no" \/ s.from + s.at >= i
    BY <1>5, <2>2
  <2> HIDE DEF s, t
  <2>6. CASE s.done # "no"
    BY <2>3, <2>6 DEF read_bounded_line
  <2>7. CASE s.done = "no"
    <3>1. t.done # "no" \/ t.from + t.at >= s.from + s.at + 1
      BY <2>3, <2>4, <2>7, ReadTurns
    <3>2. s.from \in Nat /\ s.at \in Nat /\ t.from \in Nat /\ t.at \in Nat
      BY <2>4 DEF LineReading
    <3>3. QED
      BY <2>5, <2>7, <3>1, <3>2
  <2>8. QED
    BY <2>6, <2>7
<1>6. Nat \subseteq T
  <2> HIDE DEF T
  <2>1. QED
    BY <1>4, <1>5, Induction
<1> DEFINE z == S[N]
<1>7. z \in LineReading(C) /\ ReadInv(text, max, z) /\ (z.done # "no" \/ z.from + z.at >= N)
  BY <1>1, <1>2, <1>6
<1> HIDE DEF z
<1>8. z.done # "no"
  <2>1. z.from \in Nat /\ z.at \in Nat /\ z.from <= Len(text) /\ z.at <= Len(text)
    BY <1>3, <1>7 DEF LineReading, ReadInv
  <2>2. QED
    BY <1>3, <1>7, <2>1
<1>9. /\ z.done = IF BadEnds(text, max) = {} THEN "end" ELSE "error"
      /\ LinesOf(text, z.lines, GoodEnds(text, max))
  BY <1>7, <1>8, ReadEnds
<1>10. QED
  BY <1>9 DEF LinesRight, read_records, z, S, N

-----------------------------------------------------------------------------
(* The properties of the inputs.                                            *)

\* normalize_maintenance_windows, for every list of configured windows and at every
\* minute: the scheduler stands still exactly when the windows that are configured,
\* or else the default ones, say so, and the windows of a day have gaps between them.
THEOREM WindowsAlwaysRight == input \in WindowsInput => MaintenanceKept
<1>1. SUFFICES ASSUME input \in WindowsInput PROVE MinutesKept(input.ws, input.minutes)
  BY DEF MaintenanceKept
<1>2. input.ws \in Seq(ConfigWindow) /\ input.minutes \in SUBSET Int
  BY <1>1 DEF WindowsInput
<1>3. QED
  BY <1>2, MinutesAlwaysKept

\* run_dream_shop_daily, for every shop and every list that names no good twice: each
\* purchase finds the item it is meant for whichever of the others fail, and if none
\* fails exactly the goods that are not on the list are left.
THEOREM PurchasesAlwaysRight ==
    ASSUME NEW M \in SUBSET Nat, input \in ShopInput(M)
    PROVE  PurchasesRight
<1>1. /\ input.goods \in [M -> Seq(Nat)] /\ input.list \in Seq(Entry)
      /\ NamesNoneTwice(input.list)
  BY DEF ShopInput
<1>2. ListBought(input.goods, input.list)
  BY <1>1, ListAlwaysBought
<1>3. QED
  BY <1>2 DEF PurchasesRight

\* The inspector's command filter (wildcard_match) and its reader (read_records), for
\* all characters, patterns, commands, files, buffers and limits: the filter ends and
\* accepts what some choice for every star matches, although it only returns to the
\* last one; the reader ends and gives the lines of the file up to the first that is
\* invalid or too long, wherever the buffers cut it.
THEOREM CaptureTextAlwaysRight ==
    ASSUME NEW C, input \in FilterInput(C) \cup FileInput(C)
    PROVE  CaptureTextRight
<1>1. CASE input \in FilterInput(C)
  <2>1. /\ input.of = "filter" /\ input.pattern \in Seq(C)
        /\ input.command \in Seq(C \ {Star})
    BY <1>1 DEF FilterInput
  <2>2. FilterRight(input.pattern, input.command)
    BY <2>1, FilterAlwaysRight
  <2>3. QED
    BY <2>1, <2>2 DEF CaptureTextRight
<1>2. CASE input \in FileInput(C)
  <2>1. input.of = "file" /\ input.text \in Seq(C) /\ input.max \in Nat
    BY <1>2 DEF FileInput
  <2>2. LinesRight(input.text, input.ends, input.max)
    BY <2>1, LinesAlwaysRight
  <2>3. QED
    BY <2>1, <2>2 DEF CaptureTextRight
<1>3. QED
  BY <1>1, <1>2
=============================================================================
