------------------------ MODULE PracticeRulesProofs ------------------------
(***************************************************************************)
(* What the practice rules compute, for every ledger of finitely many      *)
(* sessions: sums of seconds, islands of consecutive dates, and the        *)
(* agreement of the two queries that PracticeRulesCheck compares.          *)
(*                                                                         *)
(* Facts about all finite sets are proved by taking a smallest             *)
(* counterexample: the strict subset ordering on the finite subsets of a   *)
(* set is well founded, and a set without one element is smaller.          *)
(***************************************************************************)
EXTENDS PracticeRulesCheck, FiniteSetTheorems, TLAPS

LEMMA SmallestSet ==
  ASSUME NEW S, IsFiniteSet(S), NEW T \in SUBSET (SUBSET S), T # {}
  PROVE  \E U \in T : IsFiniteSet(U) /\ \A u \in U : U \ {u} \notin T
<1>1. T \subseteq FiniteSubsetsOf(S)
  BY FS_FiniteSubsetsOfFinite
<1>2. PICK U \in T : \A V \in T : ~ <<V, U>> \in StrictSubsetOrdering(S)
  BY <1>1, FS_StrictSubsetOrderingWellFounded, WFMin
<1>3. IsFiniteSet(U)
  BY FS_Subset
<1>4. ASSUME NEW u \in U, U \ {u} \in T PROVE FALSE
  BY <1>2, <1>4 DEF StrictSubsetOrdering
<1> QED
  BY <1>3, <1>4

LEMMA GreatestElement ==
  ASSUME NEW S \in SUBSET Int, IsFiniteSet(S), S # {}
  PROVE  /\ Max(S) \in S
         /\ \A x \in S : x <= Max(S)
<1> DEFINE Top(U) == \E m \in U : \A x \in U : m >= x
           T == {U \in SUBSET S : U # {} /\ ~ Top(U)}
<1>1. ASSUME T # {} PROVE FALSE
  <2>1. PICK U \in T : \A u \in U : U \ {u} \notin T
    <3>1. T \in SUBSET (SUBSET S)
      OBVIOUS
    <3> HIDE DEF T
    <3> QED
      BY <1>1, <3>1, SmallestSet
  <2>2. PICK u \in U : TRUE
    OBVIOUS
  <2>3. U = {u} \/ Top(U \ {u})
    BY <2>1, <2>2
  <2> QED
    BY <2>2, <2>3
<1>2. Top(S)
  BY <1>1
<1>3. Max(S) \in S /\ \A x \in S : Max(S) >= x
  BY <1>2 DEF Max
<1> QED
  BY <1>3

LEMMA LeastElement ==
  ASSUME NEW S \in SUBSET Int, IsFiniteSet(S), S # {}
  PROVE  \E m \in S : \A x \in S : m <= x
<1> DEFINE Bottom(U) == \E m \in U : \A x \in U : m <= x
           T == {U \in SUBSET S : U # {} /\ ~ Bottom(U)}
<1>1. ASSUME T # {} PROVE FALSE
  <2>1. PICK U \in T : \A u \in U : U \ {u} \notin T
    <3>1. T \in SUBSET (SUBSET S)
      OBVIOUS
    <3> HIDE DEF T
    <3> QED
      BY <1>1, <3>1, SmallestSet
  <2>2. PICK u \in U : TRUE
    OBVIOUS
  <2>3. U = {u} \/ Bottom(U \ {u})
    BY <2>1, <2>2
  <2> QED
    BY <2>2, <2>3
<1> QED
  BY <1>1

\* The smaller of two numbers, as ItemProgress takes it.
LEMMA LesserOfTwo ==
  ASSUME NEW a \in Int, NEW b \in Int
  PROVE  /\ a <= b => Min({a, b}) = a
         /\ b <= a => Min({a, b}) = b
  BY DEF Min

LEMMA ImageFinite ==
  ASSUME NEW S, IsFiniteSet(S)
  PROVE  IsFiniteSet({p.date : p \in S})
<1> DEFINE T == {p.date : p \in S}
           f == [p \in S |-> p.date]
<1>1. f \in Surjection(S, T)
  BY DEF Surjection
<1> QED
  BY <1>1, FS_Surjection

-----------------------------------------------------------------------------
(***************************************************************************)
(* Sums of seconds.  MapThenSumSet is a CHOOSE of a recursive function: it *)
(* has to be shown that there is one, and that the order in which it takes *)
(* the elements does not matter.                                           *)
(***************************************************************************)
SecondsOf(S) == MapThenSumSet(LAMBDA p : p.seconds, S)

First(S) == CHOOSE x \in S : TRUE

\* f adds up the seconds of every subset of S.
Adds(f, S) ==
  f = [s \in SUBSET S |->
         IF s = {} THEN 0 ELSE First(s).seconds + f[s \ {First(s)}]]

Adder(S) == CHOOSE f : Adds(f, S)

LEMMA SecondsByAdder ==
  ASSUME NEW S
  PROVE  SecondsOf(S) = Adder(S)[S]
  BY DEF SecondsOf, Adder, Adds, First, MapThenSumSet, MapThenFoldSet

LEMMA AdderAdds ==
  ASSUME NEW S, NEW f, Adds(f, S)
  PROVE  Adds(Adder(S), S)
  BY DEF Adder

LEMMA FirstMember ==
  ASSUME NEW S, S # {}
  PROVE  First(S) \in S
  BY DEF First

LEMMA AddStep ==
  ASSUME NEW S, NEW f, Adds(f, S), NEW s \in SUBSET S
  PROVE  f[s] = IF s = {} THEN 0 ELSE First(s).seconds + f[s \ {First(s)}]
  BY DEF Adds

LEMMA AddsUnique ==
  ASSUME NEW S, NEW f, Adds(f, S), NEW R, NEW g, Adds(g, R),
         NEW W \in SUBSET S, W \in SUBSET R, IsFiniteSet(W)
  PROVE  f[W] = g[W]
<1> DEFINE T == {U \in SUBSET W : f[U] # g[U]}
<1>1. ASSUME T # {} PROVE FALSE
  <2>1. PICK U \in T : \A u \in U : U \ {u} \notin T
    BY <1>1, SmallestSet
  <2>2. /\ f[U] = IF U = {} THEN 0 ELSE First(U).seconds + f[U \ {First(U)}]
        /\ g[U] = IF U = {} THEN 0 ELSE First(U).seconds + g[U \ {First(U)}]
    BY AddStep
  <2>3. CASE U = {}
    BY <2>2, <2>3
  <2>4. CASE U # {}
    <3>1. f[U \ {First(U)}] = g[U \ {First(U)}]
      BY <2>1, <2>4, FirstMember
    <3> QED
      BY <2>2, <2>4, <3>1
  <2> QED
    BY <2>3, <2>4
<1> QED
  BY <1>1

LEMMA AdderExists ==
  ASSUME NEW S, IsFiniteSet(S)
  PROVE  Adds(Adder(S), S)
<1> DEFINE T == {U \in SUBSET S : ~ Adds(Adder(U), U)}
<1>1. ASSUME T # {} PROVE FALSE
  <2>1. PICK U \in SUBSET S : /\ ~ Adds(Adder(U), U)
                              /\ IsFiniteSet(U)
                              /\ \A V \in SUBSET U : V # U => Adds(Adder(V), V)
    <3>1. T \subseteq FiniteSubsetsOf(S)
      BY FS_FiniteSubsetsOfFinite
    <3>2. PICK U \in T : \A V \in T : ~ <<V, U>> \in StrictSubsetOrdering(S)
      BY <1>1, <3>1, FS_StrictSubsetOrderingWellFounded, WFMin
    <3> QED
      BY <3>2, FS_Subset DEF StrictSubsetOrdering
  <2> DEFINE f == [s \in SUBSET U |->
                     IF s # U THEN Adder(s)[s]
                     ELSE IF U = {} THEN 0
                     ELSE First(U).seconds + Adder(U \ {First(U)})[U \ {First(U)}]]
             g == [s \in SUBSET U |->
                     IF s = {} THEN 0 ELSE First(s).seconds + f[s \ {First(s)}]]
  <2>2. ASSUME NEW s \in SUBSET U PROVE f[s] = g[s]
    <3>1. CASE s = U
      <4>1. CASE U = {}
        BY <3>1, <4>1
      <4>2. CASE U # {}
        <5>1. U \ {First(U)} \in SUBSET U /\ U \ {First(U)} # U
          BY <4>2, FirstMember
        <5>2. f[U \ {First(U)}] = Adder(U \ {First(U)})[U \ {First(U)}]
          BY <5>1
        <5> QED
          BY <3>1, <4>2, <5>2
      <4> QED
        BY <4>1, <4>2
    <3>2. CASE s # U
      <4>1. Adds(Adder(s), s) /\ IsFiniteSet(s)
        BY <2>1, <3>2, FS_Subset
      <4>2. Adder(s)[s] = IF s = {} THEN 0
                          ELSE First(s).seconds + Adder(s)[s \ {First(s)}]
        BY <4>1, AddStep
      <4>3. CASE s = {}
        BY <3>2, <4>2, <4>3
      <4>4. CASE s # {}
        <5> DEFINE v == s \ {First(s)}
        <5>1. v \in SUBSET U /\ v \in SUBSET s /\ v # U /\ IsFiniteSet(v)
          BY <4>1, <4>4, FirstMember, FS_Subset
        <5>2. Adds(Adder(v), v)
          BY <2>1, <5>1
        <5>3. Adder(s)[v] = Adder(v)[v]
          BY <4>1, <5>1, <5>2, AddsUnique
        <5>4. f[v] = Adder(v)[v]
          BY <5>1
        <5> QED
          BY <3>2, <4>2, <4>4, <5>3, <5>4
      <4> QED
        BY <4>3, <4>4
    <3> QED
      BY <3>1, <3>2
  <2>3. Adds(f, U)
    BY <2>2 DEF Adds
  <2> QED
    BY <2>1, <2>3, AdderAdds
<1> QED
  BY <1>1

LEMMA SumEmpty == SecondsOf({}) = 0
<1>1. Adds(Adder({}), {})
  BY AdderExists, FS_EmptySet
<1> QED
  BY <1>1, AddStep, SecondsByAdder

LEMMA SumFirst ==
  ASSUME NEW S, IsFiniteSet(S), S # {}
  PROVE  SecondsOf(S) = First(S).seconds + SecondsOf(S \ {First(S)})
<1> DEFINE R == S \ {First(S)}
<1>1. IsFiniteSet(R) /\ R \in SUBSET S /\ R \in SUBSET R
  BY FS_Subset
<1>2. Adds(Adder(S), S) /\ Adds(Adder(R), R)
  BY <1>1, AdderExists
<1>3. Adder(S)[S] = First(S).seconds + Adder(S)[R]
  BY <1>2, AddStep
<1>4. Adder(S)[R] = Adder(R)[R]
  BY <1>1, <1>2, AddsUnique
<1> QED
  BY <1>3, <1>4, SecondsByAdder

LEMMA SumNat ==
  ASSUME NEW S, IsFiniteSet(S), \A p \in S : p.seconds \in Nat
  PROVE  SecondsOf(S) \in Nat
<1> DEFINE T == {U \in SUBSET S : SecondsOf(U) \notin Nat}
<1>1. ASSUME T # {} PROVE FALSE
  <2>1. PICK U \in T : IsFiniteSet(U) /\ \A u \in U : U \ {u} \notin T
    BY <1>1, SmallestSet
  <2>2. U # {}
    BY SumEmpty
  <2>3. First(U) \in U /\ SecondsOf(U) = First(U).seconds + SecondsOf(U \ {First(U)})
    BY <2>1, <2>2, FirstMember, SumFirst
  <2>4. SecondsOf(U \ {First(U)}) \in Nat /\ First(U).seconds \in Nat
    BY <2>1, <2>3
  <2> QED
    BY <2>3, <2>4
<1> QED
  BY <1>1

\* Whichever session is set aside, it counts once.
LEMMA SumRemove ==
  ASSUME NEW S, IsFiniteSet(S), \A p \in S : p.seconds \in Nat, NEW y \in S
  PROVE  SecondsOf(S) = y.seconds + SecondsOf(S \ {y})
<1> DEFINE Fine(U) == \A u \in U : SecondsOf(U) = u.seconds + SecondsOf(U \ {u})
           T == {U \in SUBSET S : ~ Fine(U)}
<1>1. ASSUME T # {} PROVE FALSE
  <2>1. PICK U \in T : IsFiniteSet(U) /\ \A u \in U : U \ {u} \notin T
    <3>1. T \in SUBSET (SUBSET S)
      OBVIOUS
    <3> HIDE DEF T
    <3> QED
      BY <1>1, <3>1, SmallestSet
  <2>2. \A u \in U : Fine(U \ {u})
    BY <2>1
  <2> DEFINE x == First(U)
  <2>3. x \in U /\ SecondsOf(U) = x.seconds + SecondsOf(U \ {x})
    BY <2>1, FirstMember, SumFirst
  <2> HIDE DEF x
  <2>4. ASSUME NEW u \in U, u # x
        PROVE  SecondsOf(U) = u.seconds + SecondsOf(U \ {u})
    <3> DEFINE R == U \ {x, u}
    <3>1. (U \ {x}) \ {u} = R /\ (U \ {u}) \ {x} = R
      OBVIOUS
    <3>2. SecondsOf(U \ {x}) = u.seconds + SecondsOf(R)
      BY <2>2, <2>3, <2>4, <3>1
    <3>3. SecondsOf(U \ {u}) = x.seconds + SecondsOf(R)
      BY <2>2, <2>3, <2>4, <3>1
    <3>4. SecondsOf(R) \in Nat /\ x.seconds \in Nat /\ u.seconds \in Nat
      BY <2>3, SumNat, FS_Subset
    <3> HIDE DEF R
    <3> QED
      BY <2>3, <3>2, <3>3, <3>4
  <2>5. Fine(U)
    BY <2>3, <2>4
  <2> QED
    BY <2>5
<1> QED
  BY <1>1

LEMMA SumDisjoint ==
  ASSUME NEW S, IsFiniteSet(S), NEW R, IsFiniteSet(R), S \cap R = {},
         \A p \in S \cup R : p.seconds \in Nat
  PROVE  SecondsOf(S \cup R) = SecondsOf(S) + SecondsOf(R)
<1> DEFINE Fine(U) == SecondsOf(S \cup U) = SecondsOf(S) + SecondsOf(U)
           T == {U \in SUBSET R : ~ Fine(U)}
<1>1. ASSUME T # {} PROVE FALSE
  <2>1. PICK U \in T : IsFiniteSet(U) /\ \A u \in U : U \ {u} \notin T
    <3>1. T \in SUBSET (SUBSET R)
      OBVIOUS
    <3> HIDE DEF T
    <3> QED
      BY <1>1, <3>1, SmallestSet
  <2>2. CASE U = {}
    <3>1. S \cup U = S /\ SecondsOf(U) = 0 /\ SecondsOf(S) \in Nat
      BY <2>2, SumEmpty, SumNat
    <3> QED
      BY <2>1, <3>1
  <2>3. CASE U # {}
    <3>1. PICK u \in U : TRUE
      BY <2>3
    <3>2. SecondsOf(S \cup (U \ {u})) = SecondsOf(S) + SecondsOf(U \ {u})
      BY <2>1
    <3>3. SecondsOf(U) = u.seconds + SecondsOf(U \ {u})
      BY <2>1, SumRemove
    <3>4. SecondsOf(S \cup U) = u.seconds + SecondsOf(S \cup (U \ {u}))
      <4>1. (S \cup U) \ {u} = S \cup (U \ {u}) /\ u \in S \cup U
        OBVIOUS
      <4>2. IsFiniteSet(S \cup U) /\ \A p \in S \cup U : p.seconds \in Nat
        BY <2>1, FS_Union
      <4> QED
        BY <4>1, <4>2, SumRemove
    <3>5. /\ u.seconds \in Nat
          /\ SecondsOf(S) \in Nat /\ SecondsOf(U \ {u}) \in Nat
      BY <2>1, SumNat, FS_RemoveElement
    <3>6. SecondsOf(S \cup U) = SecondsOf(S) + SecondsOf(U)
      BY <3>2, <3>3, <3>4, <3>5
    <3> QED
      BY <2>1, <3>6
  <2> QED
    BY <2>2, <2>3
<1> QED
  BY <1>1

\* A ledger that only grows never shows fewer seconds.
LEMMA SumGrows ==
  ASSUME NEW S, IsFiniteSet(S), \A p \in S : p.seconds \in Nat, NEW R \in SUBSET S
  PROVE  SecondsOf(R) <= SecondsOf(S)
<1>1. IsFiniteSet(R) /\ IsFiniteSet(S \ R) /\ R \cup (S \ R) = S
  BY FS_Subset, FS_Difference
<1>2. SecondsOf(S) = SecondsOf(R) + SecondsOf(S \ R)
  BY <1>1, SumDisjoint
<1>3. SecondsOf(R) \in Nat /\ SecondsOf(S \ R) \in Nat
  BY <1>1, SumNat
<1> QED
  BY <1>2, <1>3

LEMMA SumOfEqual ==
  ASSUME NEW S, IsFiniteSet(S), NEW n \in Nat, \A p \in S : p.seconds = n
  PROVE  SecondsOf(S) = n * Cardinality(S)
<1> DEFINE Fine(U) == SecondsOf(U) = n * Cardinality(U)
           T == {U \in SUBSET S : ~ Fine(U)}
<1>1. ASSUME T # {} PROVE FALSE
  <2>1. PICK U \in T : IsFiniteSet(U) /\ \A u \in U : U \ {u} \notin T
    <3>1. T \in SUBSET (SUBSET S)
      OBVIOUS
    <3> HIDE DEF T
    <3> QED
      BY <1>1, <3>1, SmallestSet
  <2>2. CASE U = {}
    BY <2>2, SumEmpty, FS_EmptySet
  <2>3. CASE U # {}
    <3>1. PICK u \in U : TRUE
      BY <2>3
    <3> DEFINE c == Cardinality(U \ {u})
    <3>2. SecondsOf(U \ {u}) = n * c
      BY <2>1
    <3>3. SecondsOf(U) = n + SecondsOf(U \ {u})
      BY <2>1, SumRemove
    <3>4. Cardinality(U) = c + 1 /\ c \in Nat
      <4>1. IsFiniteSet(U) /\ IsFiniteSet(U \ {u}) /\ c = Cardinality(U) - 1
        BY <2>1, FS_RemoveElement
      <4>2. Cardinality(U) \in Nat /\ c \in Nat
        BY <4>1, FS_CardinalityType
      <4> QED
        BY <4>1, <4>2
    <3> HIDE DEF c
    <3>5. n * (c + 1) = n + n * c
      BY <3>4
    <3> QED
      BY <3>2, <3>3, <3>4, <3>5
  <2> QED
    BY <2>2, <2>3
<1> QED
  BY <1>1

-----------------------------------------------------------------------------
(***************************************************************************)
(* Islands.  Going from one date to a later one, the row number grows by   *)
(* the dates in between, so date minus row number never falls, and stands  *)
(* still exactly where no day is missing.                                  *)
(***************************************************************************)
LEMMA RowsBetween ==
  ASSUME NEW dates \in SUBSET Int, IsFiniteSet(dates),
         NEW a \in Int, NEW b \in Int, a <= b
  PROVE  /\ RowNumber(dates, a) \in Nat /\ RowNumber(dates, b) \in Nat
         /\ RowNumber(dates, b) =
              RowNumber(dates, a) + Cardinality(dates \cap ((a + 1) .. b))
<1> DEFINE upTo(n) == {e \in dates : e <= n}
           between == dates \cap ((a + 1) .. b)
<1>1. IsFiniteSet(upTo(a)) /\ IsFiniteSet(upTo(b)) /\ IsFiniteSet(between)
  BY FS_Subset, FS_Intersection
<1>2. upTo(b) = upTo(a) \cup between /\ upTo(a) \cap between = {}
  <2>1. \A e \in dates : e <= b <=> e <= a \/ e \in (a + 1) .. b
    OBVIOUS
  <2>2. \A e \in dates : ~ (e <= a /\ e \in (a + 1) .. b)
    OBVIOUS
  <2> QED
    BY <2>1, <2>2, Zenon
<1>3. Cardinality(upTo(b)) =
        Cardinality(upTo(a)) + Cardinality(between) - Cardinality({})
  BY <1>1, <1>2, FS_Union
<1>4. /\ Cardinality(upTo(a)) \in Nat /\ Cardinality(upTo(b)) \in Nat
      /\ Cardinality(between) \in Nat /\ Cardinality({}) = 0
  BY <1>1, FS_CardinalityType, FS_EmptySet
<1> QED
  BY <1>3, <1>4 DEF RowNumber

LEMMA KeyOrder ==
  ASSUME NEW dates \in SUBSET Int, IsFiniteSet(dates),
         NEW a \in Int, NEW b \in Int, a <= b
  PROVE  /\ IslandKey(dates, a) \in Int /\ IslandKey(dates, b) \in Int
         /\ IslandKey(dates, a) <= IslandKey(dates, b)
         /\ IslandKey(dates, a) = IslandKey(dates, b) <=> (a + 1) .. b \subseteq dates
<1> DEFINE days == (a + 1) .. b
           n == Cardinality(dates \cap days)
<1>1. /\ RowNumber(dates, a) \in Nat /\ RowNumber(dates, b) \in Nat
      /\ RowNumber(dates, b) = RowNumber(dates, a) + n
  BY RowsBetween
<1>2. IsFiniteSet(days) /\ Cardinality(days) = b - a
  <2>1. a + 1 \in Int /\ (IF a + 1 > b THEN 0 ELSE b - (a + 1) + 1) = b - a
    OBVIOUS
  <2> QED
    BY <2>1, FS_Interval
<1>3. dates \cap days \in SUBSET days
  OBVIOUS
<1>4. /\ IsFiniteSet(dates \cap days)
      /\ n <= Cardinality(days)
      /\ Cardinality(days) = n => days = dates \cap days
  BY <1>2, <1>3, FS_Subset
<1>5. n \in Nat
  BY <1>4, FS_CardinalityType
<1>6. days \subseteq dates => n = Cardinality(days)
  <2>1. days \subseteq dates => dates \cap days = days
    OBVIOUS
  <2> QED
    BY <2>1
<1>7. n <= b - a /\ (n = b - a <=> days \subseteq dates)
  BY <1>2, <1>4, <1>6
<1> HIDE DEF n, days
<1>8. /\ IslandKey(dates, a) = a - RowNumber(dates, a)
      /\ IslandKey(dates, b) = b - RowNumber(dates, b)
  BY DEF IslandKey
<1>9. IslandKey(dates, a) \in Int /\ IslandKey(dates, b) \in Int
      /\ IslandKey(dates, b) = IslandKey(dates, a) + (b - a) - n
  BY <1>1, <1>5, <1>8
<1> QED
  BY <1>5, <1>7, <1>9 DEF days

\* The island of a date: all days from the first to the last one, and the days
\* on either side are missing.
Island(dates, d) == {e \in dates : IslandKey(dates, e) = IslandKey(dates, d)}

LEMMA IslandIsRun ==
  ASSUME NEW dates \in SUBSET Int, IsFiniteSet(dates), NEW d \in dates
  PROVE  \E f, m \in dates :
           /\ f <= d /\ d <= m
           /\ Island(dates, d) = f .. m
           /\ f - 1 \notin dates /\ m + 1 \notin dates
           /\ Max(Island(dates, d)) = m
           /\ Cardinality(Island(dates, d)) = m - f + 1
<1> DEFINE M == Island(dates, d)
           key(e) == IslandKey(dates, e)
<1>1. M \in SUBSET dates /\ M \in SUBSET Int /\ d \in M /\ IsFiniteSet(M)
  BY FS_Subset DEF Island
<1>2. Max(M) \in M /\ \A x \in M : x <= Max(M)
  BY <1>1, GreatestElement
<1>3. PICK f \in M : \A x \in M : f <= x
  BY <1>1, LeastElement
<1> DEFINE m == Max(M)
<1>4. m \in M /\ \A x \in M : x <= m
  BY <1>2
<1> HIDE DEF m
<1>5. key(f) = key(d) /\ key(m) = key(d) /\ f \in dates /\ m \in dates
  BY <1>3, <1>4 DEF Island
<1>6. f <= d /\ d <= m /\ f \in Int /\ m \in Int /\ d \in Int /\ f <= m
  BY <1>1, <1>3, <1>4
<1>7. (f + 1) .. m \subseteq dates
  BY <1>5, <1>6, KeyOrder
<1>8. f .. m \subseteq dates
  BY <1>5, <1>6, <1>7
<1>9. ASSUME NEW e \in f .. m PROVE e \in M
  <2>1. e \in dates /\ e \in Int /\ f <= e /\ (f + 1) .. e \subseteq dates
    BY <1>6, <1>8
  <2>2. key(f) = key(e)
    BY <1>6, <2>1, KeyOrder
  <2> QED
    BY <1>5, <2>1, <2>2 DEF Island
<1>10. M = f .. m
  <2>1. \A e \in M : e \in f .. m
    BY <1>1, <1>3, <1>4, <1>6
  <2> QED
    BY <2>1, <1>9
<1>11. m + 1 \notin dates
  <2> SUFFICES ASSUME m + 1 \in dates PROVE FALSE
    OBVIOUS
  <2>1. (m + 1) .. (m + 1) \subseteq dates
    BY <1>6
  <2>2. key(m) = key(m + 1)
    BY <1>6, <2>1, KeyOrder
  <2>3. m + 1 \in M
    BY <1>5, <2>2 DEF Island
  <2> QED
    BY <1>4, <1>6, <2>3
<1>12. f - 1 \notin dates
  <2> SUFFICES ASSUME f - 1 \in dates PROVE FALSE
    OBVIOUS
  <2>1. ((f - 1) + 1) .. f \subseteq dates
    BY <1>5, <1>6
  <2>2. key(f - 1) = key(f)
    BY <1>6, <2>1, KeyOrder
  <2>3. f - 1 \in M
    BY <1>5, <2>2 DEF Island
  <2> QED
    BY <1>3, <1>6, <2>3
<1>13. Cardinality(M) = m - f + 1
  <2>1. Cardinality(f .. m) = m - f + 1
    BY <1>6, FS_Interval
  <2> QED
    BY <1>10, <2>1
<1> QED
  BY <1>5, <1>6, <1>10, <1>11, <1>12, <1>13 DEF m

LEMMA IslandsOfDates ==
  ASSUME NEW dates, NEW x
  PROVE  x \in Islands(dates) <=>
           \E d \in dates : x = [last   |-> Max(Island(dates, d)),
                                 length |-> Cardinality(Island(dates, d))]
  BY DEF Islands, Island

LEMMA IslandFigures ==
  ASSUME NEW dates \in SUBSET Int, IsFiniteSet(dates), NEW x \in Islands(dates)
  PROVE  /\ x.last \in dates /\ x.length \in Nat \ {0}
         /\ (x.last - x.length + 1) .. x.last \subseteq dates
         /\ x.last - x.length \notin dates
         /\ x.last + 1 \notin dates
<1>1. PICK d \in dates : x = [last   |-> Max(Island(dates, d)),
                              length |-> Cardinality(Island(dates, d))]
  BY IslandsOfDates
<1>2. PICK f \in dates, m \in dates :
        /\ f <= d /\ d <= m
        /\ Island(dates, d) = f .. m
        /\ f - 1 \notin dates /\ m + 1 \notin dates
        /\ Max(Island(dates, d)) = m
        /\ Cardinality(Island(dates, d)) = m - f + 1
  BY IslandIsRun
<1>3. x.last = m /\ x.length = m - f + 1
  BY <1>1, <1>2
<1>4. f .. m \subseteq dates
  BY <1>2 DEF Island
<1>5. /\ m - f + 1 \in Nat \ {0}
      /\ m - (m - f + 1) + 1 = f /\ m - (m - f + 1) = f - 1
  BY <1>2
<1> QED
  BY <1>2, <1>3, <1>4, <1>5

LEMMA IslandEndingAt ==
  ASSUME NEW dates \in SUBSET Int, IsFiniteSet(dates), NEW d \in dates,
         d + 1 \notin dates
  PROVE  \E x \in Islands(dates) : x.last = d
<1> DEFINE x == [last   |-> Max(Island(dates, d)),
                 length |-> Cardinality(Island(dates, d))]
<1>1. x \in Islands(dates)
  BY IslandsOfDates
<1>2. PICK f \in dates, m \in dates :
        /\ f <= d /\ d <= m
        /\ Island(dates, d) = f .. m
        /\ Max(Island(dates, d)) = m
  BY IslandIsRun
<1>3. f .. m \subseteq dates
  BY <1>2 DEF Island
<1>4. m = d
  <2>1. f \in Int /\ m \in Int /\ d \in Int
    OBVIOUS
  <2>2. d < m => d + 1 \in f .. m
    BY <1>2, <2>1
  <2> QED
    BY <1>2, <1>3, <2>1, <2>2
<1>5. x.last = d
  BY <1>2, <1>4
<1> HIDE DEF x
<1> QED
  BY <1>1, <1>5

LEMMA OneIslandPerEnd ==
  ASSUME NEW dates \in SUBSET Int, IsFiniteSet(dates),
         NEW x \in Islands(dates), NEW y \in Islands(dates), x.last = y.last
  PROVE  x.length = y.length
<1>1. ASSUME NEW u \in Islands(dates), NEW v \in Islands(dates), u.last = v.last
      PROVE  ~ u.length < v.length
  <2>1. /\ u.last \in Int /\ u.length \in Nat /\ v.length \in Nat
        /\ u.last - u.length \notin dates
        /\ (u.last - v.length + 1) .. u.last \subseteq dates
    BY <1>1, IslandFigures
  <2>2. u.length < v.length =>
          u.last - u.length \in (u.last - v.length + 1) .. u.last
    BY <2>1
  <2> QED
    BY <2>1, <2>2
<1>2. x.length \in Nat /\ y.length \in Nat
  BY IslandFigures
<1> QED
  BY <1>1, <1>2

LEMMA LatestLength ==
  ASSUME NEW dates \in SUBSET Int, IsFiniteSet(dates),
         NEW I \in SUBSET Islands(dates), NEW x \in I, \A y \in I : y.last <= x.last
  PROVE  LengthOfLatest(I) = x.length
<1> DEFINE c == CHOOSE i \in I : \A j \in I : j.last <= i.last
<1>1. c \in I /\ \A j \in I : j.last <= c.last
  OBVIOUS
<1>2. LengthOfLatest(I) = c.length
  BY DEF LengthOfLatest
<1> HIDE DEF c
<1>3. x.last \in Int /\ c.last \in Int
  BY <1>1, IslandFigures
<1>4. x.last = c.last
  BY <1>1, <1>3
<1> QED
  BY <1>1, <1>2, <1>4, OneIslandPerEnd

\* With no date ahead of today the two queries select the same islands, and the
\* one they take the length of is the run that ends today or else yesterday.
LEMMA StreakIsRun ==
  ASSUME NEW dates \in SUBSET Int, IsFiniteSet(dates), NEW today \in Int,
         \A d \in dates : d <= today,
         NEW end, end = IF today \in dates THEN today ELSE today - 1
  PROVE  /\ RuleStreak(dates, today) = SummaryStreak(dates, today)
         /\ SummaryStreak(dates, today) \in Nat
         /\ (end - SummaryStreak(dates, today) + 1) .. end \subseteq dates
         /\ end - SummaryStreak(dates, today) \notin dates
<1> DEFINE I == {i \in Islands(dates) : i.last >= today - 1}
           J == {i \in Islands(dates) : i.last \in {today, today - 1}}
<1>1. \A i \in Islands(dates) : i.last \in dates /\ i.last \in Int /\ i.last <= today
  BY IslandFigures
<1>2. I = J
  BY <1>1
<1>3. RuleStreak(dates, today) = SummaryStreak(dates, today)
  BY <1>2 DEF RuleStreak, SummaryStreak
<1>4. SummaryStreak(dates, today) = LengthOfLatest(I)
  BY DEF SummaryStreak
<1>5. CASE end \in dates
  <2>1. end + 1 \notin dates
    BY <1>5
  <2>2. PICK x \in Islands(dates) : x.last = end
    BY <1>5, <2>1, IslandEndingAt
  <2>3. x \in I /\ \A y \in I : y.last <= x.last
    BY <1>1, <2>2
  <2>4. SummaryStreak(dates, today) = x.length
    BY <1>4, <2>3, LatestLength
  <2> QED
    BY <1>3, <2>2, <2>4, IslandFigures
<1>6. CASE end \notin dates
  <2>1. today \notin dates /\ today - 1 \notin dates /\ end = today - 1
    BY <1>6
  <2>2. J = {}
    BY <1>1, <2>1
  <2>3. SummaryStreak(dates, today) = 0
    BY <1>2, <1>4, <2>2 DEF LengthOfLatest
  <2>4. (end - 0 + 1) .. end = {} /\ end - 0 = end
    BY <2>1
  <2> QED
    BY <1>3, <1>6, <2>3, <2>4
<1> QED
  BY <1>5, <1>6

\* A streak of n days that the rule counts is n practised days in a row.
LEMMA RuleStreakIsRun ==
  ASSUME NEW dates \in SUBSET Int, IsFiniteSet(dates), NEW today \in Int,
         NEW n \in Nat \ {0}, RuleStreak(dates, today) >= n
  PROVE  \E d \in dates : d .. (d + n - 1) \subseteq dates
<1> DEFINE J == {i \in Islands(dates) : i.last \in {today, today - 1}}
<1>1. J # {}
  BY DEF RuleStreak, LengthOfLatest
<1>2. PICK x \in J : \A y \in J : y.last <= x.last
  <2>1. PICK y \in J : TRUE
    BY <1>1
  <2>2. CASE \E x \in J : x.last = today
    BY <2>2
  <2>3. CASE ~ \E x \in J : x.last = today
    BY <2>1, <2>3
  <2> QED
    BY <2>2, <2>3
<1>3. RuleStreak(dates, today) = x.length
  BY <1>2, LatestLength DEF RuleStreak
<1>4. /\ x.last \in Int /\ x.length \in Nat
      /\ (x.last - x.length + 1) .. x.last \subseteq dates
  BY IslandFigures
<1> DEFINE d == x.last - n + 1
<1>5. /\ d \in (x.last - x.length + 1) .. x.last
      /\ d .. (d + n - 1) \subseteq (x.last - x.length + 1) .. x.last
  BY <1>3, <1>4
<1> HIDE DEF d
<1> QED
  BY <1>4, <1>5

-----------------------------------------------------------------------------
(***************************************************************************)
(* Counts of practised days.                                               *)
(***************************************************************************)
LEMMA PractisedDaysFinite ==
  ASSUME NEW rows, IsFiniteSet(rows), NEW a, NEW i
  PROVE  /\ IsFiniteSet({p.date : p \in {q \in WeekRows(rows, a) : q.item = i}})
         /\ PractisedDays(rows, a, i) \in Nat
<1>1. {q \in WeekRows(rows, a) : q.item = i} \in SUBSET rows
  BY DEF WeekRows
<1>2. IsFiniteSet({q \in WeekRows(rows, a) : q.item = i})
  BY <1>1, FS_Subset
<1>3. IsFiniteSet({p.date : p \in {q \in WeekRows(rows, a) : q.item = i}})
  BY <1>2, ImageFinite
<1> QED
  BY <1>3, FS_CardinalityType DEF PractisedDays

LEMMA WeeklySecondsAdd ==
  ASSUME NEW rows, NEW a
  PROVE  WeeklySeconds(rows, a) = SecondsOf(WeekRows(rows, a))
  BY DEF WeeklySeconds, SecondsOf

-----------------------------------------------------------------------------
(***************************************************************************)
(* The book of PracticeRulesCheck: finitely many ten-minute sessions of    *)
(* one student, dated within the calendar.                                 *)
(***************************************************************************)
BookOK ==
  /\ IsFiniteSet(log)
  /\ \A p \in log : p.student = Student /\ p.seconds = 600 /\ p.date \in 0..LastDate
  /\ day \in 0..LastDate

LEMMA BlankBookOK == BlankBook => BookOK
  BY CheckAssumption, FS_EmptySet DEF BlankBook, BookOK

LEMMA EntryOK == BookOK /\ [Entry]_book => BookOK'
<1> SUFFICES ASSUME BookOK, [Entry]_book PROVE BookOK'
  OBVIOUS
<1>1. CASE LogSession
  <2>1. PICK i \in LoggedItems, d \in 0..(day + Ahead) :
          /\ d <= LastDate
          /\ log' = log \cup {[id |-> Cardinality(log) + 1, student |-> Student,
                               item |-> i, seconds |-> 600, at |-> d, zone |-> 0,
                               date |-> d]}
    BY <1>1 DEF LogSession
  <2>2. IsFiniteSet(log')
    <3>1. \E r : log' = log \cup {r}
      BY <2>1
    <3> QED
      BY <3>1, FS_AddElement DEF BookOK
  <2>3. d \in 0..LastDate
    BY <2>1, CheckAssumption DEF BookOK
  <2>4. \A p \in log' : p.student = Student /\ p.seconds = 600 /\ p.date \in 0..LastDate
    BY <2>1, <2>3 DEF BookOK
  <2> QED
    BY <1>1, <2>2, <2>4 DEF BookOK, LogSession
<1>2. CASE TickItem
  BY <1>2 DEF TickItem, BookOK
<1>3. CASE NextDay
  BY <1>3, CheckAssumption DEF NextDay, BookOK
<1>4. CASE UNCHANGED book
  BY <1>4 DEF book, BookOK
<1> QED
  BY <1>1, <1>2, <1>3, <1>4 DEF Entry

LEMMA BookStaysOK == BookSpec => []BookOK
  BY BlankBookOK, EntryOK, PTL DEF BookSpec

LEMMA DatesOfBook ==
  ASSUME BookOK
  PROVE  MyDates \in SUBSET (0..LastDate) /\ IsFiniteSet(MyDates)
<1>1. MyDates \in SUBSET (0..LastDate)
  BY DEF BookOK, MyDates, PracticeDates
<1>2. IsFiniteSet(0..LastDate)
  <2>1. LastDate \in Int /\ 0 \in Int
    BY CheckAssumption
  <2> QED
    BY <2>1, FS_Interval
<1> QED
  BY <1>1, <1>2, FS_Subset

LEMMA StreaksInBook == BookOK => StreaksAgree
<1> SUFFICES ASSUME BookOK, \A d \in MyDates : d <= day
             PROVE  /\ SummaryStreak(MyDates, day) = DaysInARow
                    /\ RuleStreak(MyDates, day) = DaysInARow
  BY DEF StreaksAgree
<1> DEFINE end == IF day \in MyDates THEN day ELSE day - 1
           ends(n) == (end - n + 1) .. end \subseteq MyDates
           s == SummaryStreak(MyDates, day)
           c == CHOOSE n \in 0..(LastDate + 1) : ends(n) /\ ~ ends(n + 1)
<1>1. MyDates \in SUBSET Int /\ IsFiniteSet(MyDates) /\ MyDates \in SUBSET (0..LastDate)
  BY DatesOfBook, CheckAssumption
<1>2. day \in 0..LastDate /\ day \in Int /\ LastDate \in Nat
  BY CheckAssumption DEF BookOK
<1>3. end \in Int /\ end <= LastDate
  BY <1>2
<1>4. DaysInARow = c
  BY DEF DaysInARow
<1>5. /\ RuleStreak(MyDates, day) = s /\ s \in Nat
      /\ ends(s) /\ end - s \notin MyDates
  BY <1>1, <1>2, StreakIsRun
<1> HIDE DEF s, end
<1>6. s \in 0..(LastDate + 1)
  <2>1. s > 0 => end - s + 1 \in (end - s + 1) .. end
    BY <1>3, <1>5
  <2>2. s > 0 => end - s + 1 >= 0
    BY <1>1, <1>5, <2>1
  <2> QED
    BY <1>2, <1>3, <1>5, <2>2
<1>7. ~ ends(s + 1)
  <2>1. end - s \in (end - (s + 1) + 1) .. end
    BY <1>3, <1>5
  <2> QED
    BY <1>5, <2>1
<1>8. ASSUME NEW n \in 0..(LastDate + 1), ends(n), ~ ends(n + 1) PROVE n = s
  <2>1. n \in Nat
    BY <1>2
  <2>2. n < s => (end - (n + 1) + 1) .. end \subseteq (end - s + 1) .. end
    BY <1>3, <1>5, <2>1
  <2>3. n > s => end - s \in (end - n + 1) .. end
    BY <1>3, <1>5, <2>1
  <2> QED
    BY <1>5, <1>8, <2>1, <2>2, <2>3
<1>9. c \in 0..(LastDate + 1) /\ ends(c) /\ ~ ends(c + 1)
  BY <1>5, <1>6, <1>7
<1>10. c = s
  BY <1>8, <1>9
<1> QED
  BY <1>4, <1>5, <1>10 DEF s

\* Whatever sessions are entered on whatever days, and however far ahead they
\* are dated: when no date is ahead of today, both queries show the days in a row.
THEOREM StreaksAlwaysAgree == BookSpec => []StreaksAgree
  BY BookStaysOK, StreaksInBook, PTL

LEMMA CompletionInBook == BookOK => CompletionAgrees
<1> SUFFICES ASSUME BookOK PROVE CompletionAgrees
  OBVIOUS
<1> DEFINE days(i) == PractisedDays(log, Week, i)
<1>1. ASSUME NEW i \in Week.items
      PROVE  ItemProgress(log, ticked, Week, i).completed <=>
               ~ \/ i.mode = "one_time" /\ i \notin ticked
                 \/ i.mode = "practice_days" /\ days(i) < i.target
  <2>1. days(i) \in Nat /\ ItemChecked(i)
    BY PractisedDaysFinite, CheckAssumption DEF BookOK
  <2>2. CASE i.mode = "practice_days"
    <3>1. ItemProgress(log, ticked, Week, i).completed <=> days(i) >= i.target
      BY <2>2 DEF ItemProgress
    <3> QED
      BY <2>1, <2>2, <3>1 DEF ItemChecked
  <2>3. CASE i.mode = "one_time"
    BY <2>3 DEF ItemProgress
  <2> QED
    BY <2>1, <2>2, <2>3 DEF ItemChecked
<1>2. SummaryCompleted(log, ticked, Week) <=>
        Week.items # {} /\ \A i \in Week.items : ItemProgress(log, ticked, Week, i).completed
  BY DEF SummaryCompleted
<1> QED
  BY <1>1, <1>2 DEF CompletionAgrees, FactCompleted

\* The flag that the summary shows is the fact that the achievement goes by,
\* for every week and every ledger.
THEOREM CompletionAlwaysAgrees == BookSpec => []CompletionAgrees
  BY BookStaysOK, CompletionInBook, PTL

LEMMA ProgressInBook == BookOK => ProgressCounts
<1> SUFFICES ASSUME BookOK, NEW i \in Week.items,
                    NEW p, p = ItemProgress(log, ticked, Week, i),
                    NEW days, days = {d \in Week.start .. Week.start + 6 :
                                        \E r \in log : r.item = i /\ r.date = d}
             PROVE  /\ p.completed <=> p.current = i.target
                    /\ i.mode = "practice_days" =>
                         p.current = Min({i.target, Cardinality(days)})
  BY DEF ProgressCounts
<1> DEFINE n == PractisedDays(log, Week, i)
<1>1. Week.start \in Int /\ Week.student = Student /\ ItemChecked(i)
  BY CheckAssumption
<1>2. n \in Nat /\ n = Cardinality(days)
  <2>1. ASSUME NEW r \in log
        PROVE  r \in WeekRows(log, Week) <=> r.date \in Week.start .. Week.start + 6
    BY <1>1 DEF WeekRows, InWeek, LastDay, BookOK
  <2>2. WeekRows(log, Week) \subseteq log
    BY DEF WeekRows
  <2>3. {r.date : r \in {q \in WeekRows(log, Week) : q.item = i}} = days
    BY <2>1, <2>2
  <2>4. n = Cardinality(days)
    BY <2>3 DEF PractisedDays
  <2>5. n \in Nat
    BY PractisedDaysFinite DEF BookOK
  <2> QED
    BY <2>4, <2>5
<1> HIDE DEF n
<1>3. CASE i.mode = "practice_days"
  <2>1. i.target \in Int
    BY <1>1, <1>3 DEF ItemChecked
  <2>2. p.current = Min({n, i.target}) /\ (p.completed <=> n >= i.target)
    BY <1>3 DEF ItemProgress, n
  <2>3. {n, i.target} = {i.target, n}
    OBVIOUS
  <2>4. p.completed <=> p.current = i.target
    BY <1>2, <2>1, <2>2, LesserOfTwo
  <2>5. p.current = Min({i.target, Cardinality(days)})
    BY <1>2, <2>2, <2>3
  <2> QED
    BY <2>4, <2>5
<1>4. CASE i.mode = "one_time"
  <2>1. i.target = 1
    BY <1>1, <1>4 DEF ItemChecked
  <2>2. p = [current |-> IF i \in ticked THEN 1 ELSE 0, completed |-> i \in ticked]
    BY <1>4 DEF ItemProgress
  <2>3. p.current = IF i \in ticked THEN 1 ELSE 0
    BY <2>2
  <2>4. p.completed <=> i \in ticked
    BY <1>4 DEF ItemProgress
  <2> QED
    BY <1>4, <2>1, <2>3, <2>4
<1> QED
  BY <1>1, <1>3, <1>4 DEF ItemChecked

LEMMA WeeksInBook == BookOK => WeeklyFigures
<1> SUFFICES ASSUME BookOK PROVE WeeklyFigures
  OBVIOUS
<1> DEFINE following == [Week EXCEPT !.start = @ + 7]
           both == {p \in log : p.date \in Week.start .. Week.start + 13}
           this == Summary(log, ticked, MyDates, Week, day)
           next == Summary(log, ticked, MyDates, following, day)
           A == WeekRows(log, Week)
           B == WeekRows(log, following)
<1>1. /\ Week.start \in Int /\ Week.student = Student
      /\ following.start = Week.start + 7 /\ following.student = Student
  BY CheckAssumption
<1> HIDE DEF following
<1>2. ASSUME NEW p \in log
      PROVE  /\ p \in A <=> p.date \in Week.start .. Week.start + 6
             /\ p \in B <=> p.date \in Week.start + 7 .. Week.start + 13
  <2>1. p.student = Student /\ p.date \in Int
    BY CheckAssumption DEF BookOK
  <2> QED
    BY <1>1, <2>1 DEF WeekRows, InWeek, LastDay
<1>3. A \in SUBSET log /\ B \in SUBSET log
  BY DEF WeekRows
<1>4. /\ IsFiniteSet(A) /\ IsFiniteSet(B) /\ IsFiniteSet(both)
      /\ \A p \in log : p.seconds = 600 /\ p.student = Student /\ p.date \in Int
  BY <1>3, FS_Subset, CheckAssumption DEF BookOK
<1> HIDE DEF A, B
<1>5. A \cup B = both /\ A \cap B = {}
  <2>1. \A p \in log : /\ p \in both <=> p \in A \/ p \in B
                       /\ ~ (p \in A /\ p \in B)
    BY <1>1, <1>2, <1>4
  <2> QED
    BY <1>3, <2>1
<1>6. this.seconds + next.seconds = 600 * Cardinality(both)
  <2>1. this.seconds = SecondsOf(A) /\ next.seconds = SecondsOf(B)
    BY WeeklySecondsAdd DEF Summary, A, B
  <2>2. \A p \in A \cup B : p.seconds = 600 /\ p.seconds \in Nat
    BY <1>3, <1>4
  <2>3. SecondsOf(both) = SecondsOf(A) + SecondsOf(B)
    BY <1>4, <1>5, <2>2, SumDisjoint
  <2>4. SecondsOf(both) = 600 * Cardinality(both)
    BY <1>4, <1>5, <2>2, SumOfEqual
  <2> QED
    BY <2>1, <2>3, <2>4
<1>7. this.days + next.days = Cardinality({p.date : p \in both})
  <2> DEFINE datesA == {p.date : p \in A}
             datesB == {p.date : p \in B}
  <2>1. this.days = Cardinality(datesA)
    <3>1. {q \in A : q.student = Week.student} = A
      BY <1>1, <1>3, <1>4
    <3> QED
      BY <3>1 DEF Summary, DistinctPracticeDays, PracticeDates, A
  <2>2. next.days = Cardinality(datesB)
    <3>1. {q \in B : q.student = following.student} = B
      BY <1>1, <1>3, <1>4
    <3> QED
      BY <3>1 DEF Summary, DistinctPracticeDays, PracticeDates, B
  <2>3. IsFiniteSet(datesA) /\ IsFiniteSet(datesB)
    BY <1>4, ImageFinite
  <2>4. datesA \cup datesB = {p.date : p \in both}
    BY <1>5
  <2>5. datesA \cap datesB = {}
    <3>1. \A d \in datesA : d \in Week.start .. Week.start + 6
      BY <1>2, <1>3
    <3>2. \A d \in datesB : d \in Week.start + 7 .. Week.start + 13
      BY <1>2, <1>3
    <3> HIDE DEF datesA, datesB
    <3> QED
      BY <1>1, <3>1, <3>2
  <2>6. Cardinality(datesA) \in Nat /\ Cardinality(datesB) \in Nat
    BY <2>3, FS_CardinalityType
  <2> HIDE DEF datesA, datesB
  <2>7. Cardinality(datesA \cup datesB) =
          Cardinality(datesA) + Cardinality(datesB) - Cardinality({})
    BY <2>3, <2>5, FS_Union
  <2>8. Cardinality(datesA \cup datesB) = Cardinality(datesA) + Cardinality(datesB)
    BY <2>6, <2>7, FS_EmptySet
  <2> HIDE DEF this, next, both
  <2> QED
    BY <2>1, <2>2, <2>4, <2>8
<1> QED
  BY <1>6, <1>7 DEF WeeklyFigures, following

\* Every figure of a summary is a count of what is in the ledger, for every
\* week, calendar and set of items, on both sides of the seam of two weeks.
THEOREM FiguresAlwaysAddUp == BookSpec => []FiguresAddUp
<1>1. BookOK => FiguresAddUp
  BY ProgressInBook, WeeksInBook DEF FiguresAddUp
<1> QED
  BY <1>1, BookStaysOK, PTL
=============================================================================
