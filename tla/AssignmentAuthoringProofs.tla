---------------------- MODULE AssignmentAuthoringProofs ----------------------
(***************************************************************************)
(* Theorems about AssignmentAuthoring for every draft, stored assignment   *)
(* and file, and every bound on edits and faults: what the page sends is   *)
(* typed, one assignment comes of a page, and the stored week follows the  *)
(* form through edits, lost answers and retries.                           *)
(*                                                                         *)
(* First the data: order, groups, edits, the form of a stored week, its    *)
(* request and its rows.  Then the parts of the invariant, each with the   *)
(* lemma that a step keeps it:                                             *)
(*   Single     one assignment comes of a page                             *)
(*   Typed0     forms are forms of the page with ids told apart            *)
(*   Current    what a form shows as current is stored                     *)
(*   Sending    what the run under way has sent and still sends            *)
(*   Known      an id is of one kind in the forms and in the rows          *)
(*   Originals  a retained upload keeps the file it was stored with        *)
(*   Mirror     the rows are the form's, but for the files still to send   *)
(*   Once       an id has one place                                        *)
(***************************************************************************)
EXTENDS AssignmentAuthoring, FiniteSetTheorems, SequenceTheorems, TLAPS

-----------------------------------------------------------------------------
(*****************************************************************************)
(* Finite sets of numbers in ascending order (InOrder, the order of          *)
(* positions and areas).  The smallest of the subsets that would refute a    *)
(* claim is split, which stands in for an induction on the size.             *)
(*****************************************************************************)

\* A family of subsets of a finite set has a member none of whose elements can be spared.
LEMMA SmallestSet ==
  ASSUME NEW S, IsFiniteSet(S), NEW T \in SUBSET (SUBSET S), T # {}
  PROVE  \E U \in T : IsFiniteSet(U) /\ \A u \in U : U \ {u} \notin T
<1>1. T \subseteq FiniteSubsetsOf(S)
  BY FS_FiniteSubsetsOfFinite
<1>2. PICK U \in T : \A V \in T : ~ <<V, U>> \in StrictSubsetOrdering(S)
  BY <1>1, FS_StrictSubsetOrderingWellFounded, WFMin
<1>3. IsFiniteSet(U)
  BY FS_Subset
<1>4. ASSUME NEW u \in U, U \ {u} \in T PROVE FALSE
  BY <1>2, <1>4 DEF StrictSubsetOrdering
<1> QED
  BY <1>3, <1>4

LEMMA LeastOfFinite ==
  ASSUME NEW S \in SUBSET Nat, IsFiniteSet(S), S # {}
  PROVE  \E m \in S : \A x \in S : m <= x
<1> DEFINE Bottom(U) == \E m \in U : \A x \in U : m <= x
           T == {U \in SUBSET S : U # {} /\ ~ Bottom(U)}
<1>1. ASSUME T # {} PROVE FALSE
  <2>1. PICK U \in T : \A u \in U : U \ {u} \notin T
    <3>1. T \in SUBSET (SUBSET S)
      OBVIOUS
    <3> HIDE DEF T
    <3> QED
      BY <1>1, <3>1, SmallestSet
  <2>2. PICK u \in U : TRUE
    OBVIOUS
  <2>3. U = {u} \/ Bottom(U \ {u})
    BY <2>1, <2>2
  <2> QED
    BY <2>2, <2>3
<1> QED
  BY <1>1

LEMMA LeastNumber ==
  ASSUME NEW S \in SUBSET Nat, S # {}
  PROVE  \E m \in S : \A x \in S : m <= x
<1>1. PICK n \in S : TRUE
  OBVIOUS
<1> DEFINE T == {x \in S : x <= n}
<1>2. IsFiniteSet(T)
  BY FS_BoundedSetOfNaturals
<1>3. PICK m \in T : \A x \in T : m <= x
  BY <1>2, LeastOfFinite
<1> QED
  BY <1>3

LEMMA GreatestNumber ==
  ASSUME NEW S \in SUBSET Nat, IsFiniteSet(S), S # {}
  PROVE  \E m \in S : \A x \in S : x <= m
<1> DEFINE Top(U) == \E m \in U : \A x \in U : x <= m
           T == {U \in SUBSET S : U # {} /\ ~ Top(U)}
<1>1. ASSUME T # {} PROVE FALSE
  <2>1. PICK U \in T : \A u \in U : U \ {u} \notin T
    <3>1. T \in SUBSET (SUBSET S)
      OBVIOUS
    <3> HIDE DEF T
    <3> QED
      BY <1>1, <3>1, SmallestSet
  <2>2. PICK u \in U : TRUE
    OBVIOUS
  <2>3. U = {u} \/ Top(U \ {u})
    BY <2>1, <2>2
  <2> QED
    BY <2>2, <2>3
<1> QED
  BY <1>1

-----------------------------------------------------------------------------
Ascends(f, S) ==
  f \in [1 .. Cardinality(S) -> S] /\ \A m, n \in DOMAIN f : m < n => f[m] < f[n]

\* A finite set of numbers can be listed in ascending order: the smallest that could not loses its
\* greatest.
LEMMA AscentExists ==
  ASSUME NEW S \in SUBSET Nat, IsFiniteSet(S)
  PROVE  \E f : Ascends(f, S)
<1> DEFINE T == {U \in SUBSET S : ~ \E f : Ascends(f, U)}
<1>1. ASSUME T # {} PROVE FALSE
  <2>1. PICK U \in T : IsFiniteSet(U) /\ \A u \in U : U \ {u} \notin T
    <3>1. T \in SUBSET (SUBSET S)
      OBVIOUS
    <3> HIDE DEF T
    <3> QED
      BY <1>1, <3>1, SmallestSet
  <2>2. U # {}
    <3>1. Cardinality({}) = 0
      BY FS_EmptySet
    <3>2. Ascends([n \in 1 .. 0 |-> 0], {})
      BY <3>1 DEF Ascends
    <3> QED
      BY <3>2
  <2>3. PICK m \in U : \A x \in U : x <= m
    BY <2>1, <2>2, GreatestNumber
  <2>4. PICK f : Ascends(f, U \ {m})
    BY <2>1
  <2> DEFINE c == Cardinality(U)
             g == [n \in 1 .. c |-> IF n = c THEN m ELSE f[n]]
  <2>5. c \in Nat \ {0} /\ Cardinality(U \ {m}) = c - 1
    BY <2>1, <2>2, FS_RemoveElement, FS_CardinalityType, FS_EmptySet
  <2>6. f \in [1 .. (c - 1) -> U \ {m}] /\ \A i, j \in 1 .. (c - 1) : i < j => f[i] < f[j]
    BY <2>4, <2>5 DEF Ascends
  <2> HIDE DEF c
  <2>7. g \in [1 .. c -> U]
    BY <2>5, <2>6
  <2>8. ASSUME NEW i \in 1 .. c, NEW j \in 1 .. c, i < j PROVE g[i] < g[j]
    <3>1. i \in 1 .. (c - 1) /\ g[i] = f[i] /\ f[i] \in U \ {m}
      BY <2>5, <2>6, <2>8
    <3>2. U \subseteq Nat
      OBVIOUS
    <3>3. CASE j = c
      <4>1. g[j] = m /\ g[i] \in U \ {m}
        BY <3>1, <3>3
      <4> HIDE DEF g
      <4>2. g[i] \in Nat /\ m \in Nat /\ g[i] <= m /\ g[i] # m
        BY <2>3, <3>2, <4>1
      <4> QED
        BY <4>1, <4>2
    <3>4. CASE j # c
      <4>1. j \in 1 .. (c - 1) /\ g[j] = f[j]
        BY <3>4, <2>5
      <4> HIDE DEF g
      <4> QED
        BY <2>6, <2>8, <3>1, <4>1
    <3> QED
      BY <3>3, <3>4
  <2>9. Ascends(g, U)
    BY <2>7, <2>8 DEF Ascends, c
  <2> QED
    BY <2>9
<1> QED
  BY <1>1

\* InOrder goes through every number of the set once.
LEMMA OrderListsAll ==
  ASSUME NEW S \in SUBSET Nat, IsFiniteSet(S)
  PROVE  /\ Cardinality(S) \in Nat
         /\ InOrder(S) \in [1 .. Cardinality(S) -> S]
         /\ \A m, n \in 1 .. Cardinality(S) : m < n => InOrder(S)[m] < InOrder(S)[n]
         /\ \A m, n \in 1 .. Cardinality(S) : InOrder(S)[m] = InOrder(S)[n] => m = n
         /\ \A x \in S : \E n \in 1 .. Cardinality(S) : InOrder(S)[n] = x
<1> DEFINE c == Cardinality(S)
           f == InOrder(S)
<1>1. c \in Nat
  BY FS_CardinalityType
<1>2. f \in [1 .. c -> S] /\ \A m, n \in DOMAIN f : m < n => f[m] < f[n]
  <2>1. \E g \in [1 .. c -> S] : \A m, n \in DOMAIN g : m < n => g[m] < g[n]
    BY AscentExists DEF Ascends
  <2> QED
    BY <2>1 DEF InOrder
<1> HIDE DEF f, c
<1>3. ASSUME NEW m \in 1 .. c, NEW n \in 1 .. c, f[m] = f[n] PROVE m = n
  <2>1. f[m] \in Nat /\ f[n] \in Nat
    BY <1>2
  <2>2. ~ (m < n) /\ ~ (n < m)
    BY <1>2, <1>3, <2>1
  <2> QED
    BY <1>1, <2>2
<1>4. f \in Surjection(1 .. c, S)
  <2>1. f \in Injection(1 .. c, S)
    BY <1>2, <1>3 DEF Injection, IsInjective
  <2>2. Cardinality(1 .. c) = c
    BY <1>1, FS_Interval
  <2> QED
    BY <2>1, <2>2, FS_Injection DEF c
<1>5. \A x \in S : \E n \in 1 .. c : f[n] = x
  BY <1>4 DEF Surjection
<1> QED
  BY <1>1, <1>2, <1>3, <1>5 DEF f, c

-----------------------------------------------------------------------------
(*****************************************************************************)
(* groupDraftItems: the groups are the areas in order, each with its items   *)
(* in the order of the form.                                                 *)
(*****************************************************************************)

AreasOf(items) == {items[k].area : k \in DOMAIN items}

IndicesIn(area, items) == {k \in DOMAIN items : items[k].area = area}

AreaAt(items, s) == InOrder(AreasOf(items))[s]

\* The entry of the form behind item k of group s.
EntryAt(items, s, k) == InOrder(IndicesIn(AreaAt(items, s), items))[k]

GroupCount(items) == Cardinality(AreasOf(items))

GroupSize(items, s) == Cardinality(IndicesIn(AreaAt(items, s), items))

\* groupDraftItems has one group for each area of the form, in order.
LEMMA GroupsInOrder ==
  ASSUME NEW items \in Seq(Items)
  PROVE  /\ IsFiniteSet(AreasOf(items)) /\ AreasOf(items) \in SUBSET Nat
         /\ \A area : IsFiniteSet(IndicesIn(area, items)) /\ IndicesIn(area, items) \in SUBSET Nat
<1>1. DOMAIN items = 1 .. Len(items) /\ Len(items) \in Nat
  OBVIOUS
<1>2. IsFiniteSet(DOMAIN items)
  BY <1>1, FS_Interval
<1>3. AreasOf(items) \in SUBSET Nat
  <2>1. ASSUME NEW k \in DOMAIN items PROVE items[k].area \in Nat
    <3>1. items[k] \in Items
      OBVIOUS
    <3> QED
      BY <3>1 DEF Items
  <2> QED
    BY <2>1 DEF AreasOf
<1>4. IsFiniteSet(AreasOf(items))
  <2> DEFINE f == [k \in DOMAIN items |-> items[k].area]
  <2>1. f \in Surjection(DOMAIN items, AreasOf(items))
    BY DEF Surjection, AreasOf
  <2> QED
    BY <1>2, <2>1, FS_Surjection
<1>5. ASSUME NEW area PROVE IsFiniteSet(IndicesIn(area, items)) /\ IndicesIn(area, items) \in SUBSET Nat
  <2>1. IndicesIn(area, items) \in SUBSET (DOMAIN items)
    BY DEF IndicesIn
  <2> QED
    BY <1>1, <1>2, <2>1, FS_Subset
<1> QED
  BY <1>3, <1>4, <1>5

\* Item k of group s is entry EntryAt(items, s, k) of the form.
LEMMA GroupedByEntry ==
  ASSUME NEW items \in Seq(Items)
  PROVE  /\ GroupCount(items) \in Nat
         /\ \A s : GroupSize(items, s) \in Nat
         /\ Grouped(items) =
              [s \in 1 .. GroupCount(items) |->
                 [ area |-> AreaAt(items, s),
                   items |-> [k \in 1 .. GroupSize(items, s) |-> items[EntryAt(items, s, k)]] ]]
<1> DEFINE areas == InOrder(AreasOf(items))
           ks(s) == InOrder(IndicesIn(areas[s], items))
<1>1. /\ GroupCount(items) \in Nat
      /\ areas \in [1 .. GroupCount(items) -> AreasOf(items)]
  BY GroupsInOrder, OrderListsAll DEF GroupCount
<1>2. ASSUME NEW s
      PROVE  /\ GroupSize(items, s) \in Nat
             /\ ks(s) \in [1 .. GroupSize(items, s) -> IndicesIn(areas[s], items)]
  BY GroupsInOrder, OrderListsAll DEF GroupSize, AreaAt
<1>3. \A s : DOMAIN ks(s) = 1 .. GroupSize(items, s) /\ ItemsIn(areas[s], items)
              = [n \in DOMAIN ks(s) |-> items[ks(s)[n]]]
  BY <1>2 DEF ItemsIn, IndicesIn
<1>4. Grouped(items) = [s \in DOMAIN areas |-> [area |-> areas[s], items |-> ItemsIn(areas[s], items)]]
  BY DEF Grouped, AreasOf
<1>5. \A s : ItemsIn(areas[s], items) = [k \in 1 .. GroupSize(items, s) |-> items[EntryAt(items, s, k)]]
  BY <1>3 DEF EntryAt, AreaAt
<1> QED
  BY <1>1, <1>2, <1>4, <1>5 DEF AreaAt

\* Every item is in one group, at one place.
LEMMA EntriesGrouped ==
  ASSUME NEW items \in Seq(Items)
  PROVE  /\ \A s \in 1 .. GroupCount(items) : GroupSize(items, s) > 0
         /\ \A s \in 1 .. GroupCount(items) : \A k \in 1 .. GroupSize(items, s) :
              EntryAt(items, s, k) \in DOMAIN items
         /\ \A s, t \in 1 .. GroupCount(items) :
              \A k \in 1 .. GroupSize(items, s) : \A l \in 1 .. GroupSize(items, t) :
                EntryAt(items, s, k) = EntryAt(items, t, l) => s = t /\ k = l
         /\ \A j \in DOMAIN items :
              \E s \in 1 .. GroupCount(items) : \E k \in 1 .. GroupSize(items, s) :
                EntryAt(items, s, k) = j
<1> DEFINE areas == InOrder(AreasOf(items))
           ks(s) == InOrder(IndicesIn(areas[s], items))
<1>1. /\ GroupCount(items) \in Nat
      /\ areas \in [1 .. GroupCount(items) -> AreasOf(items)]
      /\ \A s, t \in 1 .. GroupCount(items) : areas[s] = areas[t] => s = t
      /\ \A a \in AreasOf(items) : \E s \in 1 .. GroupCount(items) : areas[s] = a
  BY GroupsInOrder, OrderListsAll DEF GroupCount
<1>2. ASSUME NEW s
      PROVE  /\ GroupSize(items, s) \in Nat
             /\ ks(s) \in [1 .. GroupSize(items, s) -> IndicesIn(areas[s], items)]
             /\ \A k, l \in 1 .. GroupSize(items, s) : ks(s)[k] = ks(s)[l] => k = l
             /\ \A j \in IndicesIn(areas[s], items) : \E k \in 1 .. GroupSize(items, s) : ks(s)[k] = j
  BY GroupsInOrder, OrderListsAll DEF GroupSize, AreaAt
<1>3. \A s, k : EntryAt(items, s, k) = ks(s)[k]
  BY DEF EntryAt, AreaAt
<1> HIDE DEF areas, ks
<1>4. ASSUME NEW s \in 1 .. GroupCount(items), NEW k \in 1 .. GroupSize(items, s)
      PROVE  EntryAt(items, s, k) \in DOMAIN items /\ items[EntryAt(items, s, k)].area = areas[s]
  <2>1. ks(s)[k] \in IndicesIn(areas[s], items)
    BY <1>2
  <2> QED
    BY <1>3, <2>1 DEF IndicesIn
<1>5. ASSUME NEW s \in 1 .. GroupCount(items) PROVE GroupSize(items, s) > 0
  <2>0. areas[s] \in AreasOf(items)
    BY <1>1
  <2>1. PICK j \in DOMAIN items : items[j].area = areas[s]
    BY <2>0 DEF AreasOf
  <2>2. j \in IndicesIn(areas[s], items)
    BY <2>1 DEF IndicesIn
  <2>3. PICK k \in 1 .. GroupSize(items, s) : ks(s)[k] = j
    BY <1>2, <2>2
  <2> QED
    BY <1>2, <2>3
<1>6. ASSUME NEW s \in 1 .. GroupCount(items), NEW t \in 1 .. GroupCount(items),
             NEW k \in 1 .. GroupSize(items, s), NEW l \in 1 .. GroupSize(items, t),
             EntryAt(items, s, k) = EntryAt(items, t, l)
      PROVE  s = t /\ k = l
  <2>1. s = t
    BY <1>1, <1>4, <1>6
  <2> QED
    BY <1>2, <1>3, <1>6, <2>1
<1>7. ASSUME NEW j \in DOMAIN items
      PROVE  \E s \in 1 .. GroupCount(items) : \E k \in 1 .. GroupSize(items, s) :
               EntryAt(items, s, k) = j
  <2>1. items[j].area \in AreasOf(items)
    BY DEF AreasOf
  <2>2. PICK s \in 1 .. GroupCount(items) : areas[s] = items[j].area
    BY <1>1, <2>1
  <2>3. j \in IndicesIn(areas[s], items)
    BY <2>2 DEF IndicesIn
  <2>4. PICK k \in 1 .. GroupSize(items, s) : ks(s)[k] = j
    BY <1>2, <2>3
  <2>5. EntryAt(items, s, k) = j
    BY <1>3, <2>4
  <2> QED
    BY <2>5
<1> QED
  BY <1>4, <1>5, <1>6, <1>7

\* The places depend on the areas alone.
LEMMA SameAreasSameGroups ==
  ASSUME NEW items, NEW other, DOMAIN items = DOMAIN other,
         \A j \in DOMAIN items : items[j].area = other[j].area
  PROVE  /\ GroupCount(items) = GroupCount(other)
         /\ \A s : AreaAt(items, s) = AreaAt(other, s) /\ GroupSize(items, s) = GroupSize(other, s)
         /\ \A s, k : EntryAt(items, s, k) = EntryAt(other, s, k)
<1>1. AreasOf(items) = AreasOf(other)
  BY DEF AreasOf
<1>2. \A a : IndicesIn(a, items) = IndicesIn(a, other)
  BY DEF IndicesIn
<1> QED
  BY <1>1, <1>2 DEF GroupCount, AreaAt, GroupSize, EntryAt

-----------------------------------------------------------------------------
(*****************************************************************************)
(* Edits: every entry after an edit of a list comes from one entry before,   *)
(* and one at most is new or changed.  What an edit leaves is a form of      *)
(* the page.                                                                 *)
(*****************************************************************************)

Touched(g, new, list, k) == g[k] = 0 \/ new[k] # list[g[k]]

\* g[k] is the entry of list that entry k of new was, or 0: one at most is added or changed.
Origins(g, new, list, added, changes) ==
  /\ g \in [1 .. Len(new) -> 0 .. Len(list)]
  /\ \A k, l \in 1 .. Len(new) : g[k] = g[l] => k = l
  /\ \A k, l \in 1 .. Len(new) : Touched(g, new, list, k) /\ Touched(g, new, list, l) => k = l
  /\ \A k \in 1 .. Len(new) :
       IF g[k] = 0 THEN new[k] \in added ELSE new[k] = list[g[k]] \/ new[k] \in changes[g[k]]

\* Adding, removing, moving or changing an entry leaves every entry but one at most as it was.
LEMMA EditOrigins ==
  ASSUME NEW S, NEW list \in Seq(S), NEW added \in SUBSET S, NEW changes,
         \A k \in DOMAIN list : changes[k] \in SUBSET S,
         NEW new \in ListEdits(list, added, changes)
  PROVE  new \in Seq(S) /\ \E g : Origins(g, new, list, added, changes)
<1> DEFINE n == Len(list)
<1>0. n \in Nat /\ DOMAIN list = 1 .. n /\ \A k \in 1 .. n : list[k] \in S
  OBVIOUS
<1>1. CASE \E x \in added : new = Append(list, x)
  <2>1. PICK x \in added : new = Append(list, x)
    BY <1>1
  <2>2. x \in S
    OBVIOUS
  <2>3. /\ new \in Seq(S) /\ Len(new) = n + 1 /\ new[n + 1] = x
        /\ \A k \in 1 .. n : new[k] = list[k]
    BY <2>1, <2>2
  <2> DEFINE g == [k \in 1 .. (n + 1) |-> IF k = n + 1 THEN 0 ELSE k]
  <2> HIDE DEF n
  <2>4. Origins(g, new, list, added, changes)
    BY <1>0, <2>3 DEF Origins, Touched, n
  <2> QED
    BY <2>3, <2>4
<1>2. CASE \E k \in DOMAIN list : new = RemoveAt(list, k)
  <2>1. PICK d \in 1 .. n : new = RemoveAt(list, d)
    BY <1>0, <1>2
  <2> DEFINE left == SubSeq(list, 1, d - 1)
             right == SubSeq(list, d + 1, Len(list))
  <2>2. /\ left \in Seq(S) /\ Len(left) = d - 1
        /\ \A k \in 1 .. (d - 1) : left[k] = list[k]
    BY <1>0
  <2>3. /\ right \in Seq(S) /\ Len(right) = n - d
        /\ \A k \in 1 .. (n - d) : right[k] = list[k + d]
    <3>1. /\ d + 1 \in Int /\ Len(list) \in Int
          /\ \A i \in (d + 1) .. Len(list) : list[i] \in S
      BY <1>0
    <3>2. /\ right \in Seq(S)
          /\ Len(right) = IF d + 1 <= Len(list) THEN Len(list) - (d + 1) + 1 ELSE 0
          /\ \A i \in 1 .. Len(list) - (d + 1) + 1 : right[i] = list[d + 1 + i - 1]
      BY <3>1, SubSeqProperties
    <3> HIDE DEF right
    <3>3. \A k \in 1 .. (n - d) : k \in 1 .. Len(list) - (d + 1) + 1 /\ d + 1 + k - 1 = k + d
      BY <1>0
    <3>4. Len(right) = n - d
      <4>1. n \in Nat /\ d \in 1 .. n /\ Len(right) = IF d + 1 <= n THEN n - (d + 1) + 1 ELSE 0
        BY <1>0, <3>2
      <4> HIDE DEF n
      <4> QED
        BY <4>1
    <3>5. ASSUME NEW k \in 1 .. (n - d) PROVE right[k] = list[k + d]
      BY <3>2, <3>3
    <3> QED
      BY <3>2, <3>4, <3>5
  <2>4. new = left \o right
    BY <2>1 DEF RemoveAt
  <2> HIDE DEF left, right, n
  <2>5. /\ new \in Seq(S) /\ Len(new) = n - 1
        /\ \A k \in 1 .. (n - 1) : new[k] = IF k < d THEN list[k] ELSE list[k + 1]
    <3>1. new \in Seq(S) /\ Len(new) = n - 1
      <4>1. new \in Seq(S) /\ Len(new) = Len(left) + Len(right)
        BY <2>2, <2>3, <2>4, ConcatProperties
      <4> QED
        BY <1>0, <2>1, <2>2, <2>3, <4>1
    <3>2. ASSUME NEW k \in 1 .. (n - 1) PROVE new[k] = IF k < d THEN list[k] ELSE list[k + 1]
      <4>1. CASE k < d
        BY <1>0, <2>1, <2>2, <2>3, <2>4, <4>1
      <4>2. CASE ~ (k < d)
        <5>1. new[k] = right[k - (d - 1)] /\ k - (d - 1) \in 1 .. (n - d)
          BY <1>0, <2>1, <2>2, <2>3, <2>4, <4>2
        <5>2. (k - (d - 1)) + d = k + 1
          BY <1>0
        <5> QED
          BY <2>3, <4>2, <5>1, <5>2
      <4> QED
        BY <4>1, <4>2
    <3> QED
      BY <3>1, <3>2
  <2> DEFINE g == [k \in 1 .. (n - 1) |-> IF k < d THEN k ELSE k + 1]
  <2>6. Origins(g, new, list, added, changes)
    <3>1. g \in [1 .. Len(new) -> 1 .. Len(list)] /\ Len(new) = n - 1
      BY <1>0, <2>5 DEF n
    <3>2. \A k \in 1 .. Len(new) : new[k] = list[g[k]] /\ g[k] # 0
      BY <1>0, <2>5, <3>1
    <3>3. \A k, l \in 1 .. Len(new) : g[k] = g[l] => k = l
      BY <1>0, <3>1
    <3> HIDE DEF g
    <3>4. g \in [1 .. Len(new) -> 0 .. Len(list)]
      BY <1>0, <3>1 DEF n
    <3> QED
      BY <3>2, <3>3, <3>4 DEF Origins, Touched
  <2> QED
    BY <2>5, <2>6
<1>3. CASE \E k \in 1 .. (Len(list) - 1) : new = Swap(list, k)
  <2>1. PICK d \in 1 .. (n - 1) : new = Swap(list, d)
    BY <1>3
  <2>2. /\ new \in Seq(S) /\ Len(new) = n
        /\ \A k \in 1 .. n : new[k] = IF k = d THEN list[d + 1] ELSE IF k = d + 1 THEN list[d] ELSE list[k]
    BY <1>0, <2>1 DEF Swap
  <2> DEFINE g == [k \in 1 .. n |-> IF k = d THEN d + 1 ELSE IF k = d + 1 THEN d ELSE k]
  <2> HIDE DEF n
  <2>3. Origins(g, new, list, added, changes)
    <3>1. g \in [1 .. Len(new) -> 1 .. Len(list)] /\ Len(new) = n
      BY <1>0, <2>2 DEF n
    <3>2. \A k \in 1 .. Len(new) : new[k] = list[g[k]] /\ g[k] # 0
      BY <1>0, <2>2, <3>1
    <3>3. \A k, l \in 1 .. Len(new) : g[k] = g[l] => k = l
      BY <1>0, <3>1
    <3> HIDE DEF g
    <3>4. g \in [1 .. Len(new) -> 0 .. Len(list)]
      BY <1>0, <3>1 DEF n
    <3> QED
      BY <3>2, <3>3, <3>4 DEF Origins, Touched
  <2> QED
    BY <2>2, <2>3
<1>4. CASE \E k \in DOMAIN list : \E x \in changes[k] : new = ReplaceAt(list, k, x)
  <2>1. PICK d \in 1 .. n : \E x \in changes[d] : new = ReplaceAt(list, d, x)
    BY <1>0, <1>4
  <2>2. PICK x \in changes[d] : new = ReplaceAt(list, d, x)
    BY <2>1
  <2>3. x \in S
    BY <1>0
  <2>4. /\ new \in Seq(S) /\ Len(new) = n
        /\ \A k \in 1 .. n : new[k] = IF k = d THEN x ELSE list[k]
    BY <1>0, <2>2, <2>3 DEF ReplaceAt
  <2> DEFINE g == [k \in 1 .. n |-> k]
  <2> HIDE DEF n
  <2>5. Origins(g, new, list, added, changes)
    <3>1. g \in [1 .. Len(new) -> 0 .. Len(list)] /\ Len(new) = n /\ \A k \in 1 .. n : g[k] = k
      BY <1>0, <2>4 DEF n
    <3> HIDE DEF g
    <3>2. \A k \in 1 .. Len(new) : g[k] # 0 /\ (new[k] = list[g[k]] \/ new[k] \in changes[g[k]])
                                   /\ (k # d => new[k] = list[g[k]])
      BY <1>0, <2>4, <3>1
    <3> QED
      BY <1>0, <3>1, <3>2 DEF Origins, Touched
  <2> QED
    BY <2>4, <2>5
<1> QED
  BY <1>1, <1>2, <1>3, <1>4 DEF ListEdits

\* r is what an edit left of o.
Derived(r, o) == r.id = o.id /\ r.kind = o.kind /\ (r.existing => o.existing)

LEMMA ResourceParts ==
  ASSUME NEW r \in Resources
  PROVE  /\ r \in [ id : Nat, kind : Kinds, name : Texts, url : Urls, file : Files \cup {NoFile},
                    existing : BOOLEAN ]
         /\ r.id \in Nat /\ r.kind \in Kinds
         /\ r.existing => r.kind = "upload" /\ r.file = NoFile
         /\ r.file # NoFile => r.kind = "upload"
  BY DEF Resources

LEMMA ResourceMade ==
  ASSUME NEW r \in [ id : Nat, kind : Kinds, name : Texts, url : Urls, file : Files \cup {NoFile},
                     existing : BOOLEAN ],
         r.existing => r.kind = "upload" /\ r.file = NoFile,
         r.file # NoFile => r.kind = "upload"
  PROVE  r \in Resources
  BY DEF Resources

LEMMA NewResourceTyped ==
  ASSUME NEW n \in Nat, NEW kind \in Kinds
  PROVE  /\ NewResource(n, kind) \in Resources
         /\ NewResource(n, kind).id = n /\ ~ NewResource(n, kind).existing
<1> DEFINE r == NewResource(n, kind)
<1>1. /\ r \in [ id : Nat, kind : Kinds, name : Texts, url : Urls, file : Files \cup {NoFile},
                 existing : BOOLEAN ]
      /\ r.id = n /\ r.existing = FALSE /\ r.file = NoFile
  BY DEF NewResource, Texts, Urls
<1> QED
  BY <1>1, ResourceMade

\* A change of a resource keeps its id and kind and shows nothing as stored that was not.
LEMMA ResourceChanged ==
  ASSUME NEW r \in Resources, NEW c \in ResourceChanges(r)
  PROVE  c \in Resources /\ Derived(c, r)
<1>1. CASE \E t \in Texts : c = [r EXCEPT !.name = t]
  <2>1. PICK t \in Texts : c = [r EXCEPT !.name = t]
    BY <1>1
  <2>2. /\ c \in [ id : Nat, kind : Kinds, name : Texts, url : Urls, file : Files \cup {NoFile},
                   existing : BOOLEAN ]
        /\ c.id = r.id /\ c.kind = r.kind /\ c.existing = r.existing /\ c.file = r.file
    BY <2>1, ResourceParts
  <2> QED
    BY <2>2, ResourceParts, ResourceMade DEF Derived
<1>2. CASE r.kind = "upload" /\ \E f \in Files \cup {NoFile} : c = FileChosen(r, f)
  <2>1. PICK f \in Files \cup {NoFile} : c = FileChosen(r, f)
    BY <1>2
  <2>2. r.existing \in BOOLEAN /\ r.name \in Texts
    BY ResourceParts
  <2>3. (r.existing /\ f = NoFile) \in BOOLEAN
    OBVIOUS
  <2>4. /\ c \in [ id : Nat, kind : Kinds, name : Texts, url : Urls, file : Files \cup {NoFile},
                   existing : BOOLEAN ]
        /\ c.id = r.id /\ c.kind = r.kind /\ c.existing = (r.existing /\ f = NoFile) /\ c.file = f
    BY <2>1, <2>2, <2>3, ResourceParts DEF FileChosen, Texts
  <2> QED
    BY <1>2, <2>4, ResourceMade DEF Derived
<1>3. CASE r.kind # "upload" /\ \E u \in Urls : c = [r EXCEPT !.url = u]
  <2>1. PICK u \in Urls : c = [r EXCEPT !.url = u]
    BY <1>3
  <2>2. /\ c \in [ id : Nat, kind : Kinds, name : Texts, url : Urls, file : Files \cup {NoFile},
                   existing : BOOLEAN ]
        /\ c.id = r.id /\ c.kind = r.kind /\ c.existing = r.existing /\ c.file = r.file
    BY <2>1, ResourceParts
  <2> QED
    BY <2>2, ResourceParts, ResourceMade DEF Derived
<1> QED
  BY <1>1, <1>2, <1>3 DEF ResourceChanges

-----------------------------------------------------------------------------
\* g[p] is the resource that resource p of an item was, or 0: one at most is new, under the id n.
ResourceOrigins(g, new, old, n) ==
  /\ g \in [1 .. Len(new) -> 0 .. Len(old)]
  /\ \A p, q \in 1 .. Len(new) : g[p] = g[q] => p = q
  /\ \A p \in 1 .. Len(new) :
       IF g[p] = 0 THEN new[p].id = n /\ ~ new[p].existing ELSE Derived(new[p], old[g[p]])

LEMMA ResourcesKept ==
  ASSUME NEW rs \in Seq(Resources), NEW n
  PROVE  \E g : ResourceOrigins(g, rs, rs, n)
<1> DEFINE g == [p \in 1 .. Len(rs) |-> p]
<1>1. ResourceOrigins(g, rs, rs, n)
  BY DEF ResourceOrigins, Derived
<1> QED
  BY <1>1

\* An edit of an item's resources brings in one new resource at most.
LEMMA ResourcesEdited ==
  ASSUME NEW rs \in Seq(Resources), NEW n \in Nat,
         NEW new \in ListEdits(rs, {NewResource(n, k) : k \in Kinds},
                               [p \in DOMAIN rs |-> ResourceChanges(rs[p])])
  PROVE  new \in Seq(Resources) /\ \E g : ResourceOrigins(g, new, rs, n)
<1> DEFINE added == {NewResource(n, k) : k \in Kinds}
           changes == [p \in DOMAIN rs |-> ResourceChanges(rs[p])]
<1>1. added \in SUBSET Resources /\ \A x \in added : x.id = n /\ ~ x.existing
  BY NewResourceTyped
<1>2. \A p \in DOMAIN rs : rs[p] \in Resources
  OBVIOUS
<1>3. \A p \in DOMAIN rs : changes[p] \in SUBSET Resources /\ \A c \in changes[p] : Derived(c, rs[p])
  BY <1>2, ResourceChanged
<1> HIDE DEF added, changes
<1>4. new \in ListEdits(rs, added, changes)
  BY DEF added, changes
<1>5. new \in Seq(Resources) /\ \E g : Origins(g, new, rs, added, changes)
  BY <1>1, <1>3, <1>4, EditOrigins
<1>6. PICK g : Origins(g, new, rs, added, changes)
  BY <1>5
<1>7. ResourceOrigins(g, new, rs, n)
  <2>1. /\ g \in [1 .. Len(new) -> 0 .. Len(rs)]
        /\ \A p, q \in 1 .. Len(new) : g[p] = g[q] => p = q
    BY <1>6 DEF Origins
  <2>2. ASSUME NEW p \in 1 .. Len(new)
        PROVE  IF g[p] = 0 THEN new[p].id = n /\ ~ new[p].existing ELSE Derived(new[p], rs[g[p]])
    <3>1. IF g[p] = 0 THEN new[p] \in added ELSE new[p] = rs[g[p]] \/ new[p] \in changes[g[p]]
      BY <1>6 DEF Origins
    <3>2. CASE g[p] = 0
      BY <1>1, <3>1, <3>2
    <3>3. CASE g[p] # 0
      <4>1. g[p] \in DOMAIN rs
        BY <2>1, <3>3
      <4>2. new[p] = rs[g[p]] => Derived(new[p], rs[g[p]])
        BY DEF Derived
      <4> QED
        BY <1>3, <3>1, <3>3, <4>1, <4>2
    <3> QED
      BY <3>2, <3>3
  <2> QED
    BY <2>1, <2>2 DEF ResourceOrigins
<1> QED
  BY <1>5, <1>7

LEMMA ItemParts ==
  ASSUME NEW i \in Items
  PROVE  i.area \in Nat /\ i.resources \in Seq(Resources)
  BY DEF Items

LEMMA NewItemTyped ==
  ASSUME NEW n \in Nat
  PROVE  NewItem(n) \in Items /\ NewItem(n).resources = <<>>
<1>1. \E a \in KnownAreas : \A b \in KnownAreas : a <= b
  BY LeastNumber, AuthoringAssumption
<1> DEFINE a == CHOOSE a \in KnownAreas : \A b \in KnownAreas : a <= b
<1>2. a \in Nat
  BY <1>1, AuthoringAssumption
<1>3. <<>> \in Seq(Resources)
  OBVIOUS
<1> HIDE DEF a
<1>4. NewItem(n) = [ id |-> n, area |-> a, title |-> "blank", mode |-> "practice_days", target |-> 6,
                     resources |-> <<>> ]
  BY DEF NewItem, a
<1> QED
  BY <1>2, <1>3, <1>4 DEF Items, Texts, Modes

\* A change of an item derives its resources from those it had.
LEMMA ItemChanged ==
  ASSUME NEW i \in Items, NEW n \in Nat, NEW c \in ItemChanges(n, i)
  PROVE  c \in Items /\ \E g : ResourceOrigins(g, c.resources, i.resources, n)
<1> DEFINE rs == i.resources
<1>0. /\ rs \in Seq(Resources) /\ \E g : ResourceOrigins(g, rs, rs, n)
      /\ i \in [ id : Nat, area : Nat, title : Texts, mode : Modes, target : Nat,
                 resources : Seq(Resources) ]
  BY ItemParts, ResourcesKept DEF Items
<1>1. CASE \/ \E t \in Texts : c = [i EXCEPT !.title = t]
           \/ \E a \in KnownAreas : c = [i EXCEPT !.area = a]
           \/ \E m \in Modes : c = [i EXCEPT !.mode = m]
           \/ \E t \in {0, 3, 6, 16} : c = [i EXCEPT !.target = t]
  <2>1. c.resources = rs
    BY <1>0, <1>1
  <2>2. KnownAreas \subseteq Nat
    BY AuthoringAssumption
  <2>3. c \in [ id : Nat, area : Nat, title : Texts, mode : Modes, target : Nat,
                resources : Seq(Resources) ]
    BY <1>0, <1>1, <2>2
  <2> QED
    BY <1>0, <2>1, <2>3 DEF Items
<1>2. CASE \E new \in ListEdits(rs, {NewResource(n, k) : k \in Kinds},
                                [p \in DOMAIN rs |-> ResourceChanges(rs[p])]) :
             c = [i EXCEPT !.resources = new]
  <2>1. PICK new \in ListEdits(rs, {NewResource(n, k) : k \in Kinds},
                               [p \in DOMAIN rs |-> ResourceChanges(rs[p])]) :
               c = [i EXCEPT !.resources = new]
    BY <1>2
  <2>2. new \in Seq(Resources) /\ \E g : ResourceOrigins(g, new, rs, n)
    BY <1>0, ResourcesEdited
  <2>3. c.resources = new
    BY <1>0, <2>1
  <2>4. c \in [ id : Nat, area : Nat, title : Texts, mode : Modes, target : Nat,
                resources : Seq(Resources) ]
    BY <1>0, <2>1, <2>2
  <2> QED
    BY <2>2, <2>3, <2>4 DEF Items
<1> QED
  BY <1>1, <1>2 DEF ItemChanges

LEMMA DraftParts ==
  ASSUME NEW d \in Drafts
  PROVE  /\ d.notices \in Seq(Notices) /\ d.items \in Seq(Items)
         /\ d.title \in Texts /\ d.start \in {0, 1}
         /\ \A j \in DOMAIN d.items : d.items[j] \in Items /\ d.items[j].resources \in Seq(Resources)
<1>1. /\ d.notices \in Seq(Notices) /\ d.items \in Seq(Items)
      /\ d.title \in Texts /\ d.start \in {0, 1}
  BY DEF Drafts
<1>2. \A j \in DOMAIN d.items : d.items[j] \in Items
  BY <1>1
<1> QED
  BY <1>1, <1>2, ItemParts

LEMMA ListedResource ==
  ASSUME NEW d, NEW r
  PROVE  r \in ResourcesOf(d) <=>
           \E j \in DOMAIN d.items : \E p \in DOMAIN d.items[j].resources : r = d.items[j].resources[p]
  BY DEF ResourcesOf

LEMMA ResourceOfDraft ==
  ASSUME NEW d \in Drafts
  PROVE  \A r \in ResourcesOf(d) : r \in Resources
<1>1. ASSUME NEW j \in DOMAIN d.items, NEW p \in DOMAIN d.items[j].resources
      PROVE  d.items[j].resources[p] \in Resources
  <2>1. d.items[j].resources \in Seq(Resources)
    BY DraftParts
  <2> QED
    BY <2>1
<1> QED
  BY <1>1, ListedResource

LEMMA NoticesEdited ==
  ASSUME NEW ns \in Seq(Notices), NEW n \in Nat,
         NEW new \in ListEdits(ns, {NewNotice(n)}, [k \in DOMAIN ns |-> NoticeChanges(ns[k])])
  PROVE  new \in Seq(Notices)
<1> DEFINE changes == [k \in DOMAIN ns |-> NoticeChanges(ns[k])]
<1>1. {NewNotice(n)} \in SUBSET Notices
  BY DEF NewNotice, Notices, Texts
<1>2. ASSUME NEW k \in DOMAIN ns PROVE changes[k] \in SUBSET Notices
  <2>0. ns[k] \in Notices
    OBVIOUS
  <2>1. ns[k] \in [id : Nat, title : Texts, location : Texts]
    BY <2>0 DEF Notices
  <2> QED
    BY <2>1 DEF NoticeChanges, Notices
<1> HIDE DEF changes
<1>3. new \in ListEdits(ns, {NewNotice(n)}, changes)
  BY DEF changes
<1> QED
  BY <1>1, <1>2, <1>3, EditOrigins

\* The items after an edit: each comes with its resources from one item before, at most one is new
\* or changed, and only that one may hold a resource under the id n.
LEMMA ItemsEdited ==
  ASSUME NEW items \in Seq(Items), NEW n \in Nat,
         NEW new \in ListEdits(items, {NewItem(n)}, [k \in DOMAIN items |-> ItemChanges(n, items[k])])
  PROVE  /\ new \in Seq(Items)
         /\ \E g :
              /\ g \in [1 .. Len(new) -> 0 .. Len(items)]
              /\ \A k, l \in 1 .. Len(new) : g[k] = g[l] => k = l
              /\ \A k, l \in 1 .. Len(new) : Touched(g, new, items, k) /\ Touched(g, new, items, l) => k = l
              /\ \A k \in 1 .. Len(new) :
                   IF g[k] = 0 THEN new[k].resources = <<>>
                   ELSE \E h : ResourceOrigins(h, new[k].resources, items[g[k]].resources, n)
<1> DEFINE changes == [k \in DOMAIN items |-> ItemChanges(n, items[k])]
<1>1. {NewItem(n)} \in SUBSET Items /\ NewItem(n).resources = <<>>
  BY NewItemTyped
<1>2. \A k \in DOMAIN items : items[k] \in Items
  OBVIOUS
<1>3. ASSUME NEW k \in DOMAIN items
      PROVE  /\ changes[k] \in SUBSET Items
             /\ \A c \in changes[k] : \E h : ResourceOrigins(h, c.resources, items[k].resources, n)
  BY <1>2, ItemChanged
<1> HIDE DEF changes
<1>4. new \in ListEdits(items, {NewItem(n)}, changes)
  BY DEF changes
<1>5. new \in Seq(Items) /\ \E g : Origins(g, new, items, {NewItem(n)}, changes)
  BY <1>1, <1>3, <1>4, EditOrigins
<1>6. PICK g : Origins(g, new, items, {NewItem(n)}, changes)
  BY <1>5
<1>7. g \in [1 .. Len(new) -> 0 .. Len(items)]
  BY <1>6 DEF Origins
<1>8. ASSUME NEW k \in 1 .. Len(new)
      PROVE  IF g[k] = 0 THEN new[k].resources = <<>>
             ELSE \E h : ResourceOrigins(h, new[k].resources, items[g[k]].resources, n)
  <2>1. IF g[k] = 0 THEN new[k] \in {NewItem(n)} ELSE new[k] = items[g[k]] \/ new[k] \in changes[g[k]]
    BY <1>6 DEF Origins
  <2>2. CASE g[k] = 0
    BY <1>1, <2>1, <2>2
  <2>3. CASE g[k] # 0
    <3>1. g[k] \in DOMAIN items
      BY <1>7, <2>3
    <3>2. items[g[k]].resources \in Seq(Resources)
      BY <1>2, <3>1, ItemParts
    <3>3. \E h : ResourceOrigins(h, items[g[k]].resources, items[g[k]].resources, n)
      BY <3>2, ResourcesKept
    <3> QED
      BY <1>3, <2>1, <2>3, <3>1, <3>3
  <2> QED
    BY <2>2, <2>3
<1> QED
  BY <1>5, <1>6, <1>7, <1>8 DEF Origins

\* An edit of a form leaves a form whose ids are told apart, each resource new or derived from one
\* before.
LEMMA DraftEdited ==
  ASSUME NEW d \in Drafts, NEW n \in Nat, IdsDistinct(d), IdsBelow(d, n), NEW c \in DraftEdits(d, n)
  PROVE  /\ c \in Drafts /\ IdsDistinct(c) /\ IdsBelow(c, n + 1)
         /\ \A r \in ResourcesOf(c) : (r.id = n /\ ~ r.existing) \/ \E o \in ResourcesOf(d) : Derived(r, o)
<1>0. d \in [title : Texts, start : {0, 1}, notices : Seq(Notices), items : Seq(Items)]
  BY DEF Drafts
<1>1. CASE c \in Drafts /\ c.items = d.items
  <2>1. ResourcesOf(c) = ResourcesOf(d) /\ IdsDistinct(c)
    BY <1>1 DEF ResourcesOf, IdsDistinct
  <2>2. \A r \in ResourcesOf(d) : r.id \in Nat /\ Derived(r, r)
    BY ResourceOfDraft, ResourceParts DEF Derived
  <2> QED
    BY <1>1, <2>1, <2>2 DEF IdsBelow
<1>2. CASE \/ \E t \in {"blank", "text"} : c = [d EXCEPT !.title = t]
           \/ \E s \in {0, 1} : c = [d EXCEPT !.start = s]
  <2>1. c \in Drafts /\ c.items = d.items
    BY <1>0, <1>2 DEF Drafts, Texts
  <2> QED
    BY <1>1, <2>1
<1>3. CASE \E ns \in ListEdits(d.notices, {NewNotice(n)},
                               [k \in DOMAIN d.notices |-> NoticeChanges(d.notices[k])]) :
             c = [d EXCEPT !.notices = ns]
  <2>1. PICK ns \in ListEdits(d.notices, {NewNotice(n)},
                              [k \in DOMAIN d.notices |-> NoticeChanges(d.notices[k])]) :
               c = [d EXCEPT !.notices = ns]
    BY <1>3
  <2>2. ns \in Seq(Notices)
    BY DraftParts, NoticesEdited
  <2>3. c \in Drafts /\ c.items = d.items
    BY <1>0, <2>1, <2>2 DEF Drafts
  <2> QED
    BY <1>1, <2>3
<1>4. CASE \E is \in ListEdits(d.items, {NewItem(n)},
                               [k \in DOMAIN d.items |-> ItemChanges(n, d.items[k])]) :
             c = [d EXCEPT !.items = is]
  <2> DEFINE items == d.items
  <2>1. PICK new \in ListEdits(items, {NewItem(n)},
                               [k \in DOMAIN items |-> ItemChanges(n, items[k])]) :
               c = [d EXCEPT !.items = new]
    BY <1>4
  <2>0. items \in Seq(Items)
    BY DraftParts
  <2>2. new \in Seq(Items)
    BY <2>0, <2>1, ItemsEdited
  <2>3. c \in Drafts /\ c.items = new
    BY <1>0, <2>1, <2>2 DEF Drafts
  <2>4. PICK g :
              /\ g \in [1 .. Len(new) -> 0 .. Len(items)]
              /\ \A k, l \in 1 .. Len(new) : g[k] = g[l] => k = l
              /\ \A k, l \in 1 .. Len(new) : Touched(g, new, items, k) /\ Touched(g, new, items, l) => k = l
              /\ \A k \in 1 .. Len(new) :
                   IF g[k] = 0 THEN new[k].resources = <<>>
                   ELSE \E h : ResourceOrigins(h, new[k].resources, items[g[k]].resources, n)
    BY <2>0, <2>1, ItemsEdited
  <2> DEFINE rs(k) == new[k].resources
             old(k) == items[g[k]].resources
  <2>5. /\ DOMAIN new = 1 .. Len(new) /\ DOMAIN items = 1 .. Len(items)
        /\ \A k \in DOMAIN new : rs(k) \in Seq(Resources)
        /\ \A k \in DOMAIN items : items[k].resources \in Seq(Resources)
    BY <2>0, <2>2, ItemParts
  <2>6. ASSUME NEW k \in DOMAIN new, NEW p \in DOMAIN rs(k)
        PROVE  /\ g[k] \in DOMAIN items
               /\ \E h : ResourceOrigins(h, rs(k), old(k), n)
    <3>1. rs(k) # <<>>
      OBVIOUS
    <3>2. g[k] # 0
      BY <2>4, <2>5, <3>1
    <3> QED
      BY <2>4, <2>5, <3>2
  <2>7. ASSUME NEW k \in DOMAIN new, NEW p \in DOMAIN rs(k)
        PROVE  \/ rs(k)[p].id = n /\ ~ rs(k)[p].existing
               \/ \E q \in DOMAIN old(k) : Derived(rs(k)[p], old(k)[q])
    <3>1. PICK h : ResourceOrigins(h, rs(k), old(k), n)
      BY <2>6
    <3>2. p \in 1 .. Len(rs(k)) /\ DOMAIN old(k) = 1 .. Len(old(k))
      BY <2>5, <2>6
    <3>3. CASE h[p] = 0
      BY <3>1, <3>2, <3>3 DEF ResourceOrigins
    <3>4. CASE h[p] # 0
      <4>1. h[p] \in DOMAIN old(k)
        BY <3>1, <3>2, <3>4 DEF ResourceOrigins
      <4> QED
        BY <3>1, <3>2, <3>4, <4>1 DEF ResourceOrigins
    <3> QED
      BY <3>3, <3>4
  <2>8. ASSUME NEW k \in DOMAIN items, NEW q \in DOMAIN items[k].resources
        PROVE  /\ items[k].resources[q] \in ResourcesOf(d)
               /\ items[k].resources[q].id < n /\ items[k].resources[q].id \in Nat
    <3>1. items[k].resources[q] \in ResourcesOf(d)
      BY ListedResource
    <3> HIDE DEF items
    <3> QED
      BY <3>1, ResourceOfDraft, ResourceParts DEF IdsBelow
  <2>9. \A r \in ResourcesOf(c) : (r.id = n /\ ~ r.existing) \/ \E o \in ResourcesOf(d) : Derived(r, o)
    <3> SUFFICES ASSUME NEW k \in DOMAIN new, NEW p \in DOMAIN rs(k)
                 PROVE  \/ rs(k)[p].id = n /\ ~ rs(k)[p].existing
                        \/ \E o \in ResourcesOf(d) : Derived(rs(k)[p], o)
      BY <2>3, ListedResource
    <3> QED
      BY <2>6, <2>7, <2>8
  <2>10. IdsBelow(c, n + 1)
    <3> SUFFICES ASSUME NEW r \in ResourcesOf(c) PROVE r.id < n + 1
      BY DEF IdsBelow
    <3>1. r.id = n \/ \E o \in ResourcesOf(d) : r.id = o.id
      BY <2>9 DEF Derived
    <3>2. \A o \in ResourcesOf(d) : o.id \in Nat /\ o.id < n
      BY ResourceOfDraft, ResourceParts DEF IdsBelow
    <3> QED
      BY <3>1, <3>2
  <2>11. ASSUME NEW k \in DOMAIN new, NEW p \in DOMAIN rs(k), NEW q \in DOMAIN rs(k),
                rs(k)[p].id = rs(k)[q].id
         PROVE  p = q
    <3>1. PICK h : ResourceOrigins(h, rs(k), old(k), n)
      BY <2>6
    <3>2. /\ p \in 1 .. Len(rs(k)) /\ q \in 1 .. Len(rs(k)) /\ g[k] \in DOMAIN items
          /\ DOMAIN old(k) = 1 .. Len(old(k))
      BY <2>5, <2>6
    <3>3. /\ h[p] \in 0 .. Len(old(k)) /\ h[q] \in 0 .. Len(old(k)) /\ (h[p] = h[q] => p = q)
          /\ IF h[p] = 0 THEN rs(k)[p].id = n ELSE rs(k)[p].id = old(k)[h[p]].id
          /\ IF h[q] = 0 THEN rs(k)[q].id = n ELSE rs(k)[q].id = old(k)[h[q]].id
      BY <3>1, <3>2 DEF ResourceOrigins, Derived
    <3>4. \A a \in DOMAIN old(k) : old(k)[a].id < n /\ old(k)[a].id \in Nat
      BY <2>8, <3>2
    <3>5. \A a, b \in DOMAIN old(k) : old(k)[a].id = old(k)[b].id => a = b
      BY <3>2 DEF IdsDistinct
    <3> HIDE DEF rs, old, items
    <3> QED
      BY <1>4, <2>11, <3>2, <3>3, <3>4, <3>5
  <2>12. ASSUME NEW k \in DOMAIN new, NEW l \in DOMAIN new, k # l,
                NEW p \in DOMAIN rs(k), NEW q \in DOMAIN rs(l), rs(k)[p].id = rs(l)[q].id
         PROVE  FALSE
    <3>1. /\ g[k] \in DOMAIN items /\ g[l] \in DOMAIN items /\ g[k] # g[l] /\ g[k] # 0 /\ g[l] # 0
      BY <2>4, <2>5, <2>6, <2>12
    <3>2. new[k] = items[g[k]] \/ new[l] = items[g[l]]
      BY <2>4, <2>5, <2>12 DEF Touched
    <3>3. \/ rs(k)[p].id = n
          \/ \E a \in DOMAIN old(k) : rs(k)[p].id = old(k)[a].id
      BY <2>7 DEF Derived
    <3>4. \/ rs(l)[q].id = n
          \/ \E a \in DOMAIN old(l) : rs(l)[q].id = old(l)[a].id
      BY <2>7 DEF Derived
    <3>5. /\ \A a \in DOMAIN old(k) : old(k)[a].id < n /\ old(k)[a].id \in Nat
          /\ \A a \in DOMAIN old(l) : old(l)[a].id < n /\ old(l)[a].id \in Nat
      BY <2>8, <3>1
    <3>6. \A a \in DOMAIN old(k) : \A b \in DOMAIN old(l) : old(k)[a].id # old(l)[b].id
      BY <3>1 DEF IdsDistinct
    <3>7. CASE new[k] = items[g[k]]
      <4>1. rs(k)[p].id # n
        BY <3>5, <3>7
      <4>2. \E a \in DOMAIN old(k) : rs(k)[p].id = old(k)[a].id
        BY <3>3, <4>1
      <4>3. \E b \in DOMAIN old(l) : rs(l)[q].id = old(l)[b].id
        BY <2>12, <3>4, <4>1
      <4> QED
        BY <2>12, <3>6, <4>2, <4>3
    <3>8. CASE new[l] = items[g[l]]
      <4>1. rs(l)[q].id # n
        BY <3>5, <3>8
      <4>2. \E b \in DOMAIN old(l) : rs(l)[q].id = old(l)[b].id
        BY <3>4, <4>1
      <4>3. \E a \in DOMAIN old(k) : rs(k)[p].id = old(k)[a].id
        BY <2>12, <3>3, <4>1
      <4> QED
        BY <2>12, <3>6, <4>2, <4>3
    <3> QED
      BY <3>2, <3>7, <3>8
  <2>13. IdsDistinct(c)
    BY <2>3, <2>11, <2>12 DEF IdsDistinct
  <2> QED
    BY <2>3, <2>9, <2>10, <2>13
<1> QED
  BY <1>2, <1>3, <1>4 DEF DraftEdits

-----------------------------------------------------------------------------
(*****************************************************************************)
(* The form of a stored assignment: the sections' items one after the        *)
(* other, each row at its position.                                          *)
(*****************************************************************************)

\* f joins the first n of the sequences, one after the other.
Joins(f, ss, n) == f = [i \in 1 .. n |-> IF i = 1 THEN ss[i] ELSE f[i - 1] \o ss[i]]

Joined(ss) == CHOOSE f : Joins(f, ss, Len(ss))

\* FlattenSeq joins the sequences by a recursive function: the one Joins describes.
LEMMA FlattenJoins == ASSUME NEW ss, Len(ss) # 0 PROVE FlattenSeq(ss) = Joined(ss)[Len(ss)]
  BY DEF FlattenSeq, Joined, Joins

\* There is such a function for every number of sequences: the least number without one is not the
\* first.
LEMMA JoinExists ==
  ASSUME NEW ss, NEW n \in Nat \ {0}
  PROVE  \E f : Joins(f, ss, n)
<1> DEFINE T == {m \in 1 .. n : ~ \E f : Joins(f, ss, m)}
<1>1. ASSUME T # {} PROVE FALSE
  <2>1. PICK m \in T : \A x \in T : m <= x
    <3>1. T \in SUBSET Nat
      OBVIOUS
    <3> HIDE DEF T
    <3> QED
      BY <1>1, <3>1, LeastNumber
  <2>2. CASE m = 1
    <3> DEFINE f == [i \in 1 .. 1 |-> ss[i]]
    <3>1. Joins(f, ss, 1)
      BY DEF Joins
    <3> QED
      BY <2>2, <3>1
  <2>3. CASE m # 1
    <3>1. m - 1 \in 1 .. n /\ m - 1 \notin T
      BY <2>1, <2>3
    <3>2. PICK f : Joins(f, ss, m - 1)
      BY <3>1
    <3> DEFINE g == [i \in 1 .. m |-> IF i = m THEN f[m - 1] \o ss[m] ELSE f[i]]
    <3>3. f = [i \in 1 .. (m - 1) |-> IF i = 1 THEN ss[i] ELSE f[i - 1] \o ss[i]]
      BY <3>2 DEF Joins
    <3>4. ASSUME NEW i \in 1 .. m PROVE g[i] = IF i = 1 THEN ss[i] ELSE g[i - 1] \o ss[i]
      <4>1. CASE i = m
        <5>1. m - 1 \in 1 .. m /\ g[m - 1] = f[m - 1]
          BY <2>3
        <5> QED
          BY <2>3, <4>1, <5>1
      <4>2. CASE i # m
        <5>1. i \in 1 .. (m - 1) /\ g[i] = f[i] /\ (i # 1 => g[i - 1] = f[i - 1])
          BY <4>2
        <5> QED
          BY <3>3, <5>1
      <4> QED
        BY <4>1, <4>2
    <3>5. Joins(g, ss, m)
      <4>1. g = [i \in 1 .. m |-> g[i]]
        OBVIOUS
      <4> HIDE DEF g
      <4> QED
        BY <3>4, <4>1 DEF Joins
    <3> QED
      BY <3>5
  <2> QED
    BY <2>2, <2>3
<1> QED
  BY <1>1

\* g tells which entry of which sequence each entry of the joint one is.
Parts(g, joint, ss, n) ==
  /\ g \in [1 .. Len(joint) -> (1 .. n) \X Nat]
  /\ \A i, j \in 1 .. Len(joint) : g[i] = g[j] => i = j
  /\ \A i \in 1 .. Len(joint) :
       g[i][2] \in DOMAIN ss[g[i][1]] /\ joint[i] = ss[g[i][1]][g[i][2]]

\* One more sequence is one more part of the join.
LEMMA PartsGrow ==
  ASSUME NEW S, NEW joint \in Seq(S), NEW s \in Seq(S), NEW ss, NEW n \in Nat, ss[n + 1] = s,
         NEW g, Parts(g, joint, ss, n)
  PROVE  joint \o s \in Seq(S) /\ \E h : Parts(h, joint \o s, ss, n + 1)
<1> DEFINE a == Len(joint)
           b == Len(s)
           new == joint \o s
           h == [i \in 1 .. (a + b) |-> IF i <= a THEN g[i] ELSE <<n + 1, i - a>>]
<1>1. /\ a \in Nat /\ b \in Nat /\ DOMAIN s = 1 .. b /\ new \in Seq(S) /\ Len(new) = a + b
      /\ \A i \in 1 .. (a + b) : new[i] = IF i <= a THEN joint[i] ELSE s[i - a]
  BY ConcatProperties
<1>2. /\ g \in [1 .. a -> (1 .. n) \X Nat]
      /\ \A i, j \in 1 .. a : g[i] = g[j] => i = j
      /\ \A i \in 1 .. a : g[i][2] \in DOMAIN ss[g[i][1]] /\ joint[i] = ss[g[i][1]][g[i][2]]
  BY DEF Parts
<1> HIDE DEF a, b, new
<1>3. ASSUME NEW i \in 1 .. (a + b)
      PROVE  /\ i <= a => i \in 1 .. a /\ h[i] = g[i] /\ g[i] \in (1 .. n) \X Nat
             /\ ~ (i <= a) => h[i] = <<n + 1, i - a>> /\ i - a \in 1 .. b
             /\ h[i] \in (1 .. (n + 1)) \X Nat
  <2>1. CASE i <= a
    <3>1. i \in 1 .. a /\ h[i] = g[i]
      BY <1>1, <2>1
    <3> HIDE DEF h
    <3>2. g[i] \in (1 .. n) \X Nat
      BY <1>2, <3>1
    <3> QED
      BY <2>1, <3>1, <3>2
  <2>2. CASE ~ (i <= a)
    BY <1>1, <2>2
  <2> QED
    BY <2>1, <2>2
<1>4. h \in [1 .. (a + b) -> (1 .. (n + 1)) \X Nat]
  BY <1>3
<1> HIDE DEF h
<1>5. ASSUME NEW i \in 1 .. (a + b), NEW j \in 1 .. (a + b), h[i] = h[j] PROVE i = j
  <2>1. CASE i <= a /\ j <= a
    BY <1>2, <1>3, <1>5, <2>1
  <2>2. CASE ~ (i <= a) /\ ~ (j <= a)
    <3>1. h[i][2] = i - a /\ h[j][2] = j - a
      BY <1>3, <2>2
    <3> QED
      BY <1>1, <1>5, <3>1
  <2>3. CASE i <= a /\ ~ (j <= a)
    <3>1. h[i][1] \in 1 .. n /\ h[j][1] = n + 1
      BY <1>3, <2>3
    <3> QED
      BY <1>5, <3>1
  <2>4. CASE ~ (i <= a) /\ j <= a
    <3>1. h[j][1] \in 1 .. n /\ h[i][1] = n + 1
      BY <1>3, <2>4
    <3> QED
      BY <1>5, <3>1
  <2> QED
    BY <2>1, <2>2, <2>3, <2>4
<1>6. ASSUME NEW i \in 1 .. (a + b)
      PROVE  h[i][2] \in DOMAIN ss[h[i][1]] /\ new[i] = ss[h[i][1]][h[i][2]]
  <2>1. CASE i <= a
    BY <1>1, <1>2, <1>3, <2>1
  <2>2. CASE ~ (i <= a)
    <3>1. h[i][1] = n + 1 /\ h[i][2] = i - a /\ i - a \in DOMAIN s /\ new[i] = s[i - a]
      BY <1>1, <1>3, <2>2
    <3> QED
      BY <3>1
  <2> QED
    BY <2>1, <2>2
<1>7. Parts(h, new, ss, n + 1)
  BY <1>1, <1>4, <1>5, <1>6 DEF Parts
<1> QED
  BY <1>1, <1>7 DEF new

\* Every entry of the join is an entry of one of the sequences, and the other way round.
LEMMA FlattenParts ==
  ASSUME NEW S, NEW ss \in Seq(Seq(S))
  PROVE  FlattenSeq(ss) \in Seq(S) /\ \E g : Parts(g, FlattenSeq(ss), ss, Len(ss))
<1>0. Len(ss) \in Nat
  OBVIOUS
<1>1. CASE Len(ss) = 0
  <2>1. FlattenSeq(ss) = <<>>
    BY <1>1 DEF FlattenSeq
  <2> DEFINE g == [i \in 1 .. 0 |-> <<0, 0>>]
  <2>2. Parts(g, <<>>, ss, Len(ss))
    BY DEF Parts
  <2> QED
    BY <2>1, <2>2
<1>2. CASE Len(ss) # 0
  <2> DEFINE n == Len(ss)
             f == Joined(ss)
             T == {m \in 1 .. n : ~ (f[m] \in Seq(S) /\ \E g : Parts(g, f[m], ss, m))}
  <2>1. f = [i \in 1 .. n |-> IF i = 1 THEN ss[i] ELSE f[i - 1] \o ss[i]]
    <3>1. \E h : Joins(h, ss, n)
      BY <1>0, <1>2, JoinExists
    <3>2. Joins(f, ss, n)
      BY <3>1 DEF Joined
    <3> QED
      BY <3>2 DEF Joins
  <2>2. \A m \in 1 .. n : ss[m] \in Seq(S)
    OBVIOUS
  <2> HIDE DEF f
  <2>3. ASSUME T # {} PROVE FALSE
    <3>1. PICK m \in T : \A x \in T : m <= x
      <4>1. T \in SUBSET Nat
        OBVIOUS
      <4> HIDE DEF T
      <4> QED
        BY <2>3, <4>1, LeastNumber
    <3>2. m \in 1 .. n /\ ss[m] \in Seq(S)
      BY <2>2
    <3>3. CASE m = 1
      <4>1. f[1] = ss[1]
        BY <2>1, <3>2, <3>3
      <4> DEFINE g == [i \in 1 .. Len(ss[1]) |-> <<1, i>>]
      <4>2. Parts(g, ss[1], ss, 1)
        <5>1. ss[1] \in Seq(S) /\ Len(ss[1]) \in Nat /\ DOMAIN ss[1] = 1 .. Len(ss[1])
          BY <3>2, <3>3
        <5> QED
          BY <5>1 DEF Parts
      <4> HIDE DEF g
      <4> QED
        BY <3>2, <3>3, <4>1, <4>2
    <3>4. CASE m # 1
      <4>0. m - 1 \in 1 .. n /\ m - 1 \in Nat /\ (m - 1) + 1 = m /\ ~ (m <= m - 1)
        BY <1>0, <3>2, <3>4
      <4>1. m - 1 \in 1 .. n /\ m - 1 \notin T /\ m - 1 \in Nat /\ (m - 1) + 1 = m
        BY <3>1, <4>0
      <4>2. f[m] = f[m - 1] \o ss[m]
        BY <2>1, <3>2, <3>4
      <4>3. f[m - 1] \in Seq(S)
        BY <4>1
      <4>4. PICK g : Parts(g, f[m - 1], ss, m - 1)
        BY <4>1
      <4> DEFINE k == m - 1
      <4>5. k \in Nat /\ k + 1 = m
        BY <4>1
      <4> HIDE DEF k, T
      <4>6. f[m - 1] \o ss[m] \in Seq(S) /\ \E h : Parts(h, f[m - 1] \o ss[m], ss, k + 1)
        <5>1. ss[k + 1] = ss[m] /\ Parts(g, f[m - 1], ss, k)
          BY <4>4, <4>5 DEF k
        <5> QED
          BY <3>2, <4>3, <4>5, <5>1, PartsGrow
      <4> QED
        BY <4>2, <4>5, <4>6 DEF T
    <3> QED
      BY <3>3, <3>4
  <2>4. n \in 1 .. n
    BY <1>0, <1>2
  <2>5. f[n] \in Seq(S) /\ \E g : Parts(g, f[n], ss, n)
    BY <2>3, <2>4
  <2> QED
    BY <1>2, <2>5, FlattenJoins DEF f
<1> QED
  BY <1>1, <1>2

\* The parts of a stored assignment.
LEMMA StoredWeekParts ==
  ASSUME NEW a \in Sources
  PROVE  /\ a.title \in Texts /\ a.start \in {0, 1} /\ a.notices \in Seq(Notices)
         /\ a \in [ status : {"draft"}, title : Texts, start : {0, 1}, notices : Seq(Notices),
                    sections : Seq([area : Nat, items : Seq(StoredItems)]) ]
         /\ a.sections \in Seq([area : Nat, items : Seq(StoredItems)])
         /\ \A s \in DOMAIN a.sections : a.sections[s].items \in Seq(StoredItems)
         /\ \A s \in DOMAIN a.sections : \A k \in DOMAIN a.sections[s].items :
              /\ a.sections[s].items[k] \in StoredItems
              /\ a.sections[s].items[k].resources \in SUBSET StoredRows
              /\ IsFiniteSet(a.sections[s].items[k].resources)
              /\ OnePlaceEach(a.sections[s].items[k].resources)
<1>1. a \in [ status : {"draft"}, title : Texts, start : {0, 1}, notices : Seq(Notices),
              sections : Seq([area : Nat, items : Seq(StoredItems)]) ]
  BY AuthoringAssumption DEF StoredWeeks
<1>2. a.sections \in Seq([area : Nat, items : Seq(StoredItems)])
  BY <1>1
<1>3. ASSUME NEW s \in DOMAIN a.sections PROVE a.sections[s].items \in Seq(StoredItems)
  <2> DEFINE T == [area : Nat, items : Seq(StoredItems)]
  <2>1. a.sections \in Seq(T)
    BY <1>2
  <2>2. \A t \in T : t.items \in Seq(StoredItems)
    OBVIOUS
  <2> HIDE DEF T
  <2>3. a.sections[s] \in T
    BY <2>1
  <2> QED
    BY <2>2, <2>3
<1>4. ASSUME NEW s \in DOMAIN a.sections, NEW k \in DOMAIN a.sections[s].items
      PROVE  /\ a.sections[s].items[k] \in StoredItems
             /\ a.sections[s].items[k].resources \in SUBSET StoredRows
  <2>1. a.sections[s].items[k] \in StoredItems
    BY <1>3
  <2> QED
    BY <2>1 DEF StoredItems
<1>5. \A s \in DOMAIN a.sections : \A k \in DOMAIN a.sections[s].items :
        /\ IsFiniteSet(a.sections[s].items[k].resources)
        /\ OnePlaceEach(a.sections[s].items[k].resources)
  BY AuthoringAssumption
<1> QED
  BY <1>1, <1>2, <1>3, <1>4, <1>5

\* A row of an assignment is below one of its items.
LEMMA RowListed ==
  ASSUME NEW a, NEW o
  PROVE  o \in RowsOf(a) <=>
           \E s \in DOMAIN a.sections : \E k \in DOMAIN a.sections[s].items :
             o \in a.sections[s].items[k].resources
  BY DEF RowsOf

LEMMA ImageFinite ==
  ASSUME NEW S, IsFiniteSet(S)
  PROVE  IsFiniteSet({r.position : r \in S})
<1> DEFINE f == [r \in S |-> r.position]
<1>1. f \in Surjection(S, {r.position : r \in S})
  BY DEF Surjection
<1> QED
  BY <1>1, FS_Surjection

\* The rows of an item in the order of their positions, each of them once.
LEMMA RowsByPosition ==
  ASSUME NEW rs \in SUBSET StoredRows, IsFiniteSet(rs), OnePlaceEach(rs)
  PROVE  /\ ByPosition(rs) \in Seq(rs)
         /\ \A m, n \in DOMAIN ByPosition(rs) : ByPosition(rs)[m] = ByPosition(rs)[n] => m = n
<1> DEFINE S == {r.position : r \in rs}
           c == Cardinality(S)
           ps == InOrder(S)
           row(n) == CHOOSE r \in rs : r.position = ps[n]
<1>1. S \in SUBSET Nat
  BY DEF StoredRows
<1>2. IsFiniteSet(S)
  BY ImageFinite
<1> HIDE DEF S
<1>3. /\ c \in Nat /\ ps \in [1 .. c -> S]
      /\ \A m, n \in 1 .. c : ps[m] = ps[n] => m = n
  BY <1>1, <1>2, OrderListsAll
<1> HIDE DEF ps, c
<1>4. ASSUME NEW n \in 1 .. c PROVE row(n) \in rs /\ row(n).position = ps[n]
  <2>1. ps[n] \in S
    BY <1>3
  <2>2. \E r \in rs : r.position = ps[n]
    BY <2>1 DEF S
  <2> QED
    BY <2>2
<1>5. ByPosition(rs) = [n \in 1 .. c |-> row(n)]
  <2>1. ByPosition(rs) = [n \in DOMAIN ps |-> CHOOSE r \in rs : r.position = ps[n]]
    BY DEF ByPosition, ps, S
  <2> QED
    BY <1>3, <2>1
<1> HIDE DEF row
<1>6. [n \in 1 .. c |-> row(n)] \in Seq(rs)
  BY <1>3, <1>4
<1>7. \A m, n \in 1 .. c : row(m) = row(n) => m = n
  BY <1>3, <1>4
<1> QED
  BY <1>5, <1>6, <1>7

\* A stored row reopens as a resource of the form with its id and kind.
LEMMA ReopenedTyped ==
  ASSUME NEW o \in StoredRows
  PROVE  /\ Reopened(o) \in Resources
         /\ Reopened(o).id = o.id /\ Reopened(o).kind = o.kind
         /\ Reopened(o).existing <=> o.kind = "upload"
         /\ o.id \in Nat /\ o.id < FirstFreshId
<1>1. /\ o.position \in Nat /\ o.id \in 0 .. (FirstFreshId - 1) /\ o.kind \in Kinds /\ o.name \in Texts
      /\ o.kind # "upload" => o.holds \in Urls
  BY DEF StoredRows
<1>2. o.id \in Nat /\ o.id < FirstFreshId
  BY <1>1 DEF FirstFreshId
<1> DEFINE r == Reopened(o)
<1>3. /\ r \in [ id : Nat, kind : Kinds, name : Texts, url : Urls, file : Files \cup {NoFile},
                 existing : BOOLEAN ]
      /\ r.id = o.id /\ r.kind = o.kind /\ r.file = NoFile /\ r.existing = (o.kind = "upload")
  BY <1>1, <1>2 DEF Reopened, Urls
<1> QED
  BY <1>2, <1>3, ResourceMade

\* The items of a stored assignment, one section after the other, each from a place of its own.
LEMMA ItemsOfWeek ==
  ASSUME NEW a \in Sources
  PROVE  /\ ItemsOf(a) \in Seq(StoredItems)
         /\ \E g : Parts(g, ItemsOf(a), [s \in DOMAIN a.sections |-> a.sections[s].items], Len(a.sections))
<1> DEFINE ss == [s \in DOMAIN a.sections |-> a.sections[s].items]
<1>1. Len(a.sections) \in Nat /\ DOMAIN a.sections = 1 .. Len(a.sections)
  BY StoredWeekParts
<1>2. \A s \in 1 .. Len(a.sections) : a.sections[s].items \in Seq(StoredItems)
  BY <1>1, StoredWeekParts
<1>3. ss \in Seq(Seq(StoredItems)) /\ Len(ss) = Len(a.sections)
  BY <1>1, <1>2
<1> QED
  BY <1>3, FlattenParts DEF ItemsOf

\* The form of a stored assignment holds its rows of the given kinds, each once.
LEMMA FormOfWeek ==
  ASSUME NEW a \in Sources, NEW title \in Texts, NEW kinds
  PROVE  LET d == DraftOf(a, title, kinds) IN
         /\ d \in Drafts /\ IdsDistinct(d) /\ IdsBelow(d, FirstFreshId)
         /\ \A r \in ResourcesOf(d) :
              \E o \in RowsOf(a) :
                /\ o.id = r.id /\ o.kind = r.kind /\ o.kind \in kinds
                /\ r.existing <=> o.kind = "upload"
<1> DEFINE d == DraftOf(a, title, kinds)
           is == ItemsOf(a)
           rows(j) == ByPosition({r \in is[j].resources : r.kind \in kinds})
           n == Len(is)
           item(j) == [ id |-> is[j].id, area |-> is[j].area, title |-> is[j].title, mode |-> is[j].mode,
                        target |-> is[j].target,
                        resources |-> [p \in DOMAIN rows(j) |-> Reopened(rows(j)[p])] ]
<1>1. is \in Seq(StoredItems) /\ n \in Nat /\ DOMAIN is = 1 .. n
  BY ItemsOfWeek
<1>2. PICK g : Parts(g, is, [s \in DOMAIN a.sections |-> a.sections[s].items], Len(a.sections))
  BY ItemsOfWeek
<1>3. /\ d.items = [j \in 1 .. n |-> item(j)]
      /\ d = [title |-> title, start |-> a.start, notices |-> a.notices, items |-> d.items]
  BY <1>1 DEF DraftOf
<1> DEFINE S(j) == g[j][1]
           K(j) == g[j][2]
<1>4. ASSUME NEW j \in 1 .. n
      PROVE  /\ S(j) \in DOMAIN a.sections /\ K(j) \in DOMAIN a.sections[S(j)].items
             /\ is[j] = a.sections[S(j)].items[K(j)]
  <2>1. /\ g \in [1 .. n -> (1 .. Len(a.sections)) \X Nat]
        /\ g[j][2] \in DOMAIN [s \in DOMAIN a.sections |-> a.sections[s].items][g[j][1]]
        /\ is[j] = [s \in DOMAIN a.sections |-> a.sections[s].items][g[j][1]][g[j][2]]
    BY <1>2 DEF Parts
  <2>2. DOMAIN a.sections = 1 .. Len(a.sections)
    BY StoredWeekParts
  <2>3. g[j][1] \in DOMAIN a.sections
    BY <2>1, <2>2
  <2> QED
    BY <2>1, <2>3
<1>5. ASSUME NEW i \in 1 .. n, NEW j \in 1 .. n, S(i) = S(j), K(i) = K(j) PROVE i = j
  <2>1. g[i] \in (1 .. Len(a.sections)) \X Nat /\ g[j] \in (1 .. Len(a.sections)) \X Nat
    BY <1>2 DEF Parts
  <2>2. g[i] = g[j]
    BY <1>5, <2>1
  <2> QED
    BY <1>2, <2>2 DEF Parts
<1> HIDE DEF S, K
<1>6. ASSUME NEW j \in 1 .. n
      PROVE  LET rs == {r \in is[j].resources : r.kind \in kinds} IN
             /\ rs \in SUBSET StoredRows
             /\ rows(j) \in Seq(rs)
             /\ \A p, q \in DOMAIN rows(j) : rows(j)[p] = rows(j)[q] => p = q
  <2> DEFINE rs == {r \in is[j].resources : r.kind \in kinds}
  <2>1. is[j].resources \in SUBSET StoredRows /\ IsFiniteSet(is[j].resources) /\ OnePlaceEach(is[j].resources)
    BY <1>4, StoredWeekParts
  <2>2. rs \in SUBSET StoredRows /\ IsFiniteSet(rs) /\ OnePlaceEach(rs)
    BY <2>1, FS_Subset DEF OnePlaceEach
  <2> QED
    BY <2>2, RowsByPosition
<1>7. ASSUME NEW j \in 1 .. n, NEW p \in DOMAIN rows(j)
      PROVE  /\ rows(j)[p] \in StoredRows /\ rows(j)[p].kind \in kinds
             /\ rows(j)[p] \in is[j].resources
             /\ rows(j)[p] \in RowsOf(a)
  <2>1. rows(j)[p] \in {r \in is[j].resources : r.kind \in kinds}
    BY <1>6
  <2>2. rows(j)[p] \in StoredRows /\ rows(j)[p].kind \in kinds /\ rows(j)[p] \in is[j].resources
    BY <1>6, <2>1
  <2> QED
    BY <1>4, <2>2, RowListed
<1> HIDE DEF d, rows, is, n
<1>8. ASSUME NEW j \in 1 .. n
      PROVE  /\ d.items[j] = item(j)
             /\ DOMAIN d.items[j].resources = DOMAIN rows(j)
             /\ \A p \in DOMAIN rows(j) : d.items[j].resources[p] = Reopened(rows(j)[p])
  BY <1>3
<1>9. DOMAIN d.items = 1 .. n
  BY <1>3
<1>10. d \in Drafts
  <2>1. ASSUME NEW j \in 1 .. n PROVE item(j) \in Items
    <3>0. is[j] \in StoredItems
      BY <1>1
    <3>1. is[j] \in [ id : Nat, area : Nat, title : Texts, mode : Modes, target : Nat,
                      resources : SUBSET StoredRows ]
      BY <3>0 DEF StoredItems
    <3>2. PICK c \in Nat : DOMAIN rows(j) = 1 .. c
      <4>1. \E T : rows(j) \in Seq(T)
        BY <1>6
      <4>2. Len(rows(j)) \in Nat /\ DOMAIN rows(j) = 1 .. Len(rows(j))
        BY <4>1
      <4> QED
        BY <4>2
    <3>3. \A p \in DOMAIN rows(j) : Reopened(rows(j)[p]) \in Resources
      BY <1>7, ReopenedTyped
    <3> DEFINE rs == [p \in DOMAIN rows(j) |-> Reopened(rows(j)[p])]
    <3>4. rs \in Seq(Resources)
      BY <3>2, <3>3
    <3> HIDE DEF rs
    <3>5. item(j) = [ id |-> is[j].id, area |-> is[j].area, title |-> is[j].title, mode |-> is[j].mode,
                      target |-> is[j].target, resources |-> rs ]
      BY DEF rs
    <3> QED
      BY <3>1, <3>4, <3>5 DEF Items
  <2> HIDE DEF item
  <2>2. d.items \in Seq(Items)
    BY <1>1, <1>3, <2>1
  <2>3. a.start \in {0, 1} /\ a.notices \in Seq(Notices)
    BY StoredWeekParts
  <2> QED
    <3>1. \A es \in Seq(Items) :
            [title |-> title, start |-> a.start, notices |-> a.notices, items |-> es] \in Drafts
      BY <2>3 DEF Drafts
    <3> QED
      BY <1>3, <2>2, <3>1
<1> HIDE DEF item
<1>11. \A r \in ResourcesOf(d) :
         \E o \in RowsOf(a) :
           /\ o.id = r.id /\ o.kind = r.kind /\ o.kind \in kinds
           /\ r.existing <=> o.kind = "upload"
  <2> SUFFICES ASSUME NEW j \in 1 .. n, NEW p \in DOMAIN rows(j)
               PROVE  \E o \in RowsOf(a) :
                        /\ o.id = Reopened(rows(j)[p]).id /\ o.kind = Reopened(rows(j)[p]).kind
                        /\ o.kind \in kinds
                        /\ Reopened(rows(j)[p]).existing <=> o.kind = "upload"
    <3>1. ASSUME NEW r \in ResourcesOf(d)
          PROVE  \E j \in 1 .. n : \E p \in DOMAIN rows(j) : r = Reopened(rows(j)[p])
      <4>1. PICK j \in DOMAIN d.items : \E p \in DOMAIN d.items[j].resources : r = d.items[j].resources[p]
        BY ListedResource
      <4>2. j \in 1 .. n
        BY <1>9
      <4> QED
        BY <1>8, <4>1, <4>2
    <3> QED
      BY <3>1
  <2> QED
    BY <1>7, ReopenedTyped
<1>12. IdsBelow(d, FirstFreshId)
  <2>1. \A o \in RowsOf(a) : o.id < FirstFreshId
    <3>1. \A o \in RowsOf(a) : o \in StoredRows
      BY RowListed, StoredWeekParts
    <3> QED
      BY <3>1, ReopenedTyped
  <2> QED
    BY <1>11, <2>1 DEF IdsBelow
<1>13. IdsDistinct(d)
  <2> SUFFICES ASSUME NEW i \in 1 .. n, NEW j \in 1 .. n, NEW p \in DOMAIN rows(i), NEW q \in DOMAIN rows(j),
                      Reopened(rows(i)[p]).id = Reopened(rows(j)[q]).id
               PROVE  i = j /\ p = q
    <3>1. \A j \in 1 .. n : /\ DOMAIN d.items[j].resources = DOMAIN rows(j)
                           /\ \A p \in DOMAIN rows(j) : d.items[j].resources[p] = Reopened(rows(j)[p])
      BY <1>8
    <3> QED
      BY <1>9, <3>1 DEF IdsDistinct
  <2>1. rows(i)[p].id = rows(j)[q].id
    BY <1>7, ReopenedTyped
  <2>2. StoredOnce
    BY AuthoringAssumption
  <2>3. /\ S(i) \in DOMAIN a.sections /\ S(j) \in DOMAIN a.sections
        /\ K(i) \in DOMAIN a.sections[S(i)].items /\ K(j) \in DOMAIN a.sections[S(j)].items
        /\ rows(i)[p] \in a.sections[S(i)].items[K(i)].resources
        /\ rows(j)[q] \in a.sections[S(j)].items[K(j)].resources
    BY <1>4, <1>7
  <2>4. S(i) = S(j) /\ K(i) = K(j) /\ rows(i)[p] = rows(j)[q]
    BY <2>1, <2>2, <2>3 DEF StoredOnce
  <2>5. i = j
    BY <1>5, <2>4
  <2> QED
    BY <1>6, <2>4, <2>5
<1> QED
  BY <1>10, <1>11, <1>12, <1>13 DEF d

\* The first form of a page is typed, with ids told apart, whatever it was opened on.
LEMMA FirstFormTyped ==
  ASSUME Init
  PROVE  /\ draft \in Drafts /\ IdsDistinct(draft) /\ IdsBelow(draft, FirstFreshId)
         /\ mode # "edit" => NoneExisting(draft) /\ server = <<>>
         /\ mode = "edit" => \E a \in Sources :
              /\ server = <<a>>
              /\ \A r \in ResourcesOf(draft) :
                   \E o \in RowsOf(a) : o.id = r.id /\ o.kind = r.kind /\ (r.existing <=> o.kind = "upload")
<1>1. CASE mode = "create" /\ server = <<>> /\ draft \in Typed
  BY <1>1, AuthoringAssumption
<1>2. CASE mode = "create" /\ server = <<>> /\ draft = EmptyDraft
  <2>1. /\ draft = [title |-> "blank", start |-> 1, notices |-> <<>>, items |-> <<NewItem(0)>>]
        /\ NewItem(0) \in Items /\ NewItem(0).resources = <<>>
    BY <1>2, NewItemTyped DEF EmptyDraft
  <2>2. <<NewItem(0)>> \in Seq(Items) /\ <<>> \in Seq(Notices)
    BY <2>1
  <2>3. draft \in Drafts
    BY <2>1, <2>2 DEF Drafts, Texts
  <2>4. \A j \in DOMAIN draft.items : draft.items[j].resources = <<>>
    BY <2>1
  <2>5. ResourcesOf(draft) = {} /\ IdsDistinct(draft)
    BY <2>4 DEF ResourcesOf, IdsDistinct
  <2> QED
    BY <1>2, <2>3, <2>5 DEF IdsBelow, NoneExisting
<1>3. CASE mode = "duplicate" /\ server = <<>> /\ \E a \in Sources : draft \in DuplicateDrafts(a)
  <2>1. PICK a \in Sources, t \in {"text", "long"} : draft = DraftOf(a, t, Kinds \ {"upload"})
    BY <1>3 DEF DuplicateDrafts
  <2>2. t \in Texts
    BY DEF Texts
  <2>3. /\ draft \in Drafts /\ IdsDistinct(draft) /\ IdsBelow(draft, FirstFreshId)
        /\ \A r \in ResourcesOf(draft) : \E o \in RowsOf(a) :
             o.kind \in Kinds \ {"upload"} /\ (r.existing <=> o.kind = "upload")
    BY <2>1, <2>2, FormOfWeek
  <2>4. NoneExisting(draft)
    BY <2>3 DEF NoneExisting
  <2> QED
    BY <1>3, <2>3, <2>4
<1>4. CASE mode = "edit" /\ \E a \in Sources : server = <<a>> /\ draft = EditDraft(a)
  <2>1. PICK a \in Sources : server = <<a>> /\ draft = DraftOf(a, a.title, Kinds)
    BY <1>4 DEF EditDraft
  <2>2. a.title \in Texts
    BY StoredWeekParts
  <2>3. /\ draft \in Drafts /\ IdsDistinct(draft) /\ IdsBelow(draft, FirstFreshId)
        /\ \A r \in ResourcesOf(draft) :
             \E o \in RowsOf(a) : o.id = r.id /\ o.kind = r.kind /\ (r.existing <=> o.kind = "upload")
    BY <2>1, <2>2, FormOfWeek
  <2> QED
    BY <1>4, <2>1, <2>3
<1> QED
  BY <1>1, <1>2, <1>3, <1>4 DEF Init

-----------------------------------------------------------------------------
(*****************************************************************************)
(* The request of a form, and what the DTOs of the server make of it.        *)
(*****************************************************************************)

\* Item k of section s of the request is made of the entry groupDraftItems put there.
LEMMA RequestByEntry ==
  ASSUME NEW d \in Drafts
  PROVE  LET q == Request(d) IN
         /\ q.title = d.title /\ q.notices = d.notices /\ q.start = d.start /\ q.end = d.start + 6
         /\ DOMAIN q.sections = 1 .. GroupCount(d.items) /\ Len(q.sections) = GroupCount(d.items)
         /\ \A s \in 1 .. GroupCount(d.items) :
              /\ q.sections[s].area = AreaAt(d.items, s)
              /\ DOMAIN q.sections[s].items = 1 .. GroupSize(d.items, s)
              /\ Len(q.sections[s].items) = GroupSize(d.items, s)
              /\ \A k \in 1 .. GroupSize(d.items, s) :
                   q.sections[s].items[k] = RequestItem(d.items[EntryAt(d.items, s, k)])
<1> DEFINE items == d.items
           n == GroupCount(items)
           size(s) == GroupSize(items, s)
           entry(s, k) == items[EntryAt(items, s, k)]
           groups == [s \in 1 .. n |-> [area |-> AreaAt(items, s), items |-> [k \in 1 .. size(s) |-> entry(s, k)]]]
           list(s) == [k \in 1 .. size(s) |-> RequestItem(entry(s, k))]
           sections == [s \in 1 .. n |-> [area |-> AreaAt(items, s), items |-> list(s)]]
<1>1. n \in Nat /\ (\A s : size(s) \in Nat) /\ Grouped(d.items) = groups
  BY DraftParts, GroupedByEntry
<1> HIDE DEF n, size, entry
<1>2. Request(d) = [ title |-> d.title, start |-> d.start, end |-> d.start + 6, notices |-> d.notices,
                     sections |-> [s \in DOMAIN groups |->
                        [ area |-> groups[s].area,
                          items |-> [k \in DOMAIN groups[s].items |-> RequestItem(groups[s].items[k])] ]] ]
  BY <1>1 DEF Request
<1>3. [s \in DOMAIN groups |->
         [ area |-> groups[s].area,
           items |-> [k \in DOMAIN groups[s].items |-> RequestItem(groups[s].items[k])] ]] = sections
  OBVIOUS
<1>4. Request(d) = [ title |-> d.title, start |-> d.start, end |-> d.start + 6, notices |-> d.notices,
                     sections |-> sections ]
  BY <1>2, <1>3
<1>5. DOMAIN sections = 1 .. n /\ Len(sections) = n
  BY <1>1
<1>6. \A s : DOMAIN list(s) = 1 .. size(s) /\ Len(list(s)) = size(s)
  BY <1>1
<1>7. \A s \in 1 .. n : sections[s].area = AreaAt(items, s) /\ sections[s].items = list(s)
  OBVIOUS
<1>8. \A s : \A k \in 1 .. size(s) : list(s)[k] = RequestItem(entry(s, k))
  OBVIOUS
<1> HIDE DEF sections, list
<1> QED
  BY <1>4, <1>5, <1>6, <1>7, <1>8 DEF n, size, entry

-----------------------------------------------------------------------------
(***************************************************************************)
(* The validations of the two sides.                                       *)
(***************************************************************************)
PlacedAt(i, p) ==
  [ position |-> p, id |-> i.resources[p].id, kind |-> i.resources[p].kind,
    name |-> i.resources[p].name, holds |-> i.resources[p].url ]

LEMMA PlacedOnce ==
  ASSUME NEW i, NEW chosen
  PROVE  Placed(i, chosen) = {PlacedAt(i, p) : p \in chosen}
  BY DEF Placed, PlacedAt

\* The DTO of an item accepts what validateDraft passed, but for long names, half days and
\* long or odd URLs.
LEMMA ItemAccepted ==
  ASSUME NEW i \in Items, ValidItem(i), i.title # "long",
         ~ (i.mode = "practice_days" /\ i.target % 2 = 1),
         \A p \in DOMAIN i.resources : i.resources[p].name # "long" /\ i.resources[p].url \notin OddUrls \cup LongUrls
  PROVE  AcceptsItem(RequestItem(i))
<1> DEFINE links == Placed(i, {p \in DOMAIN i.resources : i.resources[p].kind # "upload"})
           retained == Placed(i, {p \in DOMAIN i.resources :
                                    i.resources[p].kind = "upload" /\ i.resources[p].existing})
           q == RequestItem(i)
<1>1. q = [ id |-> i.id, title |-> i.title, mode |-> i.mode,
            target |-> IF i.mode = "one_time" THEN 0 ELSE i.target, links |-> links, retained |-> retained ]
  BY DEF RequestItem
<1> HIDE DEF links, retained, q
<1>2. /\ i.title \in Texts /\ i.mode \in Modes /\ i.target \in Nat
      /\ \A p \in DOMAIN i.resources : i.resources[p] \in Resources
  <2>1. i.title \in Texts /\ i.mode \in Modes /\ i.target \in Nat /\ i.resources \in Seq(Resources)
    BY DEF Items
  <2> QED
    BY <2>1
<1>3. Named(q.title)
  BY <1>1, <1>2 DEF Named, ValidItem, Texts
<1>4. AcceptsTarget(q)
  <2>1. CASE i.mode = "one_time"
    BY <1>1, <2>1 DEF AcceptsTarget
  <2>2. CASE i.mode = "practice_days"
    <3>1. i.target \in 2 .. 14 /\ i.target % 2 # 1
      BY <2>2 DEF ValidItem
    <3>2. i.target \in {2, 4, 6, 8, 10, 12, 14}
      BY <3>1
    <3> QED
      BY <1>1, <2>2, <3>2 DEF AcceptsTarget
  <2> QED
    BY <1>2, <2>1, <2>2 DEF Modes
<1>5. ASSUME NEW p \in DOMAIN i.resources
      PROVE  /\ Named(i.resources[p].name)
             /\ i.resources[p].kind # "upload" => i.resources[p].url \in {"https", "youtube"}
  <2>1. i.resources[p].name \in Texts /\ i.resources[p].url \in Urls
    BY <1>2, ResourceParts
  <2>2. i.resources[p].name # "blank" /\ ValidSource(i.resources[p])
    BY DEF ValidItem
  <2> QED
    BY <2>1, <2>2 DEF Named, Texts, Urls, ValidSource
<1>6. ASSUME NEW r \in links PROVE AcceptsLink(r)
  <2>1. PICK p \in DOMAIN i.resources : i.resources[p].kind # "upload" /\ r = PlacedAt(i, p)
    BY PlacedOnce DEF links
  <2> QED
    BY <1>5, <2>1 DEF PlacedAt, AcceptsLink
<1>7. ASSUME NEW r \in retained PROVE Named(r.name)
  <2>1. PICK p \in DOMAIN i.resources : r = PlacedAt(i, p)
    BY PlacedOnce DEF retained
  <2> QED
    BY <1>5, <2>1 DEF PlacedAt
<1>8. OnePlaceEach(links \cup retained)
  <2>1. \A r \in links \cup retained : r = PlacedAt(i, r.position)
    <3>1. \A r \in links \cup retained : \E p : r = PlacedAt(i, p)
      BY PlacedOnce DEF links, retained
    <3>2. \A p : PlacedAt(i, p).position = p
      BY DEF PlacedAt
    <3> QED
      BY <3>1, <3>2
  <2> QED
    BY <2>1 DEF OnePlaceEach
<1> QED
  BY <1>1, <1>3, <1>4, <1>6, <1>7, <1>8 DEF AcceptsItem, q

\* And so with the draft: sections are never empty, a week has seven days.
LEMMA DraftAccepted ==
  ASSUME draft \in Drafts
  PROVE  ServerAcceptsDraft
<1> SUFFICES ASSUME ValidDraft(draft), ~ UnknownToPage(draft)
             PROVE  Accepts(mode, Request(draft))
  BY DEF ServerAcceptsDraft
<1> DEFINE d == draft
           q == Request(draft)
           n == GroupCount(d.items)
<1>1. /\ q.title = d.title /\ q.notices = d.notices /\ q.start = d.start /\ q.end = d.start + 6
      /\ DOMAIN q.sections = 1 .. n /\ Len(q.sections) = n
      /\ \A s \in 1 .. n :
           /\ DOMAIN q.sections[s].items = 1 .. GroupSize(d.items, s)
           /\ Len(q.sections[s].items) = GroupSize(d.items, s)
           /\ \A k \in 1 .. GroupSize(d.items, s) :
                q.sections[s].items[k] = RequestItem(d.items[EntryAt(d.items, s, k)])
  BY RequestByEntry
<1>2. d.items \in Seq(Items) /\ d.notices \in Seq(Notices) /\ d.title \in Texts
  BY DraftParts
<1>3. /\ n \in Nat
      /\ \A s \in 1 .. n : GroupSize(d.items, s) > 0
      /\ \A s \in 1 .. n : \A k \in 1 .. GroupSize(d.items, s) : EntryAt(d.items, s, k) \in DOMAIN d.items
      /\ \A j \in DOMAIN d.items : \E s \in 1 .. n : TRUE
  BY <1>2, GroupedByEntry, EntriesGrouped
<1> HIDE DEF q, n
<1>4. \A j \in DOMAIN d.items : AcceptsItem(RequestItem(d.items[j]))
  <2> SUFFICES ASSUME NEW j \in DOMAIN d.items PROVE AcceptsItem(RequestItem(d.items[j]))
    OBVIOUS
  <2>1. d.items[j] \in Items /\ ValidItem(d.items[j])
    BY <1>2 DEF ValidDraft
  <2>2. /\ d.items[j].title # "long" /\ ~ (d.items[j].mode = "practice_days" /\ d.items[j].target % 2 = 1)
        /\ \A p \in DOMAIN d.items[j].resources :
             d.items[j].resources[p].name # "long" /\ d.items[j].resources[p].url \notin OddUrls \cup LongUrls
    BY DEF UnknownToPage
  <2> QED
    BY <2>1, <2>2, ItemAccepted
<1>5. n > 0
  <2>1. 1 \in DOMAIN d.items
    BY <1>2 DEF ValidDraft
  <2> QED
    BY <1>3, <2>1
<1>6. \A k \in DOMAIN d.notices : AcceptsNotice(d.notices[k])
  <2> SUFFICES ASSUME NEW k \in DOMAIN d.notices PROVE AcceptsNotice(d.notices[k])
    OBVIOUS
  <2>1. d.notices[k] \in Notices
    BY <1>2
  <2>2. d.notices[k].title \in Texts /\ d.notices[k].location \in Texts
    BY <2>1 DEF Notices
  <2> QED
    BY <2>2 DEF AcceptsNotice, Named, ValidDraft, UnknownToPage, Texts
<1>7. \A s \in DOMAIN q.sections : AcceptsSection(q.sections[s])
  BY <1>1, <1>3, <1>4 DEF AcceptsSection
<1>8. q.title # "blank" /\ (mode = "edit" => Named(q.title))
  BY <1>1, <1>2 DEF ValidDraft, UnknownToPage, Named, Texts
<1> QED
  BY <1>1, <1>5, <1>6, <1>7, <1>8 DEF Accepts, AcceptsContent, SevenDays, q

-----------------------------------------------------------------------------
(***************************************************************************)
(* The rows of an assignment: what a save leaves, what an upload adds.     *)
(***************************************************************************)
Week(a) ==
  /\ {"status", "title", "notices", "sections"} \in SUBSET DOMAIN a
  /\ \A s \in DOMAIN a.sections :
       /\ {"area", "items"} \in SUBSET DOMAIN a.sections[s]
       /\ \A k \in DOMAIN a.sections[s].items :
            {"id", "resources"} \in SUBSET DOMAIN a.sections[s].items[k]

\* The row of resource p of item i; what a retained upload held, it holds.
RowAt(i, p, old) ==
  [ position |-> p, id |-> i.resources[p].id, kind |-> i.resources[p].kind,
    name |-> i.resources[p].name,
    holds |-> IF i.resources[p].kind # "upload" THEN i.resources[p].url
              ELSE (CHOOSE o \in old : o.id = i.resources[p].id).holds ]

Sendable(r) == r.kind # "upload" \/ r.existing

\* The rows of an item after a save are those of its links and its retained uploads, at their
\* positions.
LEMMA KeptRows ==
  ASSUME NEW i \in Items, NEW old
  PROVE  Kept(RequestItem(i), old) =
           {RowAt(i, p, old) : p \in {x \in DOMAIN i.resources : Sendable(i.resources[x])}}
<1> DEFINE L == {p \in DOMAIN i.resources : i.resources[p].kind # "upload"}
           E == {p \in DOMAIN i.resources : i.resources[p].kind = "upload" /\ i.resources[p].existing}
           back(r) == [r EXCEPT !.holds = (CHOOSE o \in old : o.id = r.id).holds]
<1>1. RequestItem(i).links = {PlacedAt(i, p) : p \in L} /\ RequestItem(i).retained = {PlacedAt(i, p) : p \in E}
  BY PlacedOnce DEF RequestItem
<1>2. Kept(RequestItem(i), old) = RequestItem(i).links \cup {back(r) : r \in RequestItem(i).retained}
  BY DEF Kept
<1>3. \A p \in L : PlacedAt(i, p) = RowAt(i, p, old)
  BY DEF PlacedAt, RowAt
<1>4. \A p \in E : back(PlacedAt(i, p)) = RowAt(i, p, old)
  <2> SUFFICES ASSUME NEW p \in E PROVE back(PlacedAt(i, p)) = RowAt(i, p, old)
    OBVIOUS
  <2> DEFINE h == (CHOOSE o \in old : o.id = i.resources[p].id).holds
  <2>1. back(PlacedAt(i, p)) = [PlacedAt(i, p) EXCEPT !.holds = h]
    BY DEF PlacedAt
  <2>2. RowAt(i, p, old) = [ position |-> p, id |-> i.resources[p].id, kind |-> i.resources[p].kind,
                             name |-> i.resources[p].name, holds |-> h ]
    BY DEF RowAt
  <2> HIDE DEF back, h
  <2> QED
    BY <2>1, <2>2 DEF PlacedAt
<1>5. {x \in DOMAIN i.resources : Sendable(i.resources[x])} = L \cup E
  BY DEF Sendable
<1> HIDE DEF L, E, back
<1> QED
  BY <1>1, <1>2, <1>3, <1>4, <1>5

\* The assignment a save leaves, section by section and item by item, in terms of the form.
LEMMA SavedWeek ==
  ASSUME NEW d \in Drafts, NEW old
  PROVE  LET a == Rows(Request(d), old) IN
         /\ Week(a) /\ a.status = "draft" /\ a.title = d.title /\ a.notices = d.notices
         /\ DOMAIN a.sections = 1 .. GroupCount(d.items)
         /\ \A s \in 1 .. GroupCount(d.items) :
              /\ a.sections[s].area = AreaAt(d.items, s)
              /\ DOMAIN a.sections[s].items = 1 .. GroupSize(d.items, s)
              /\ \A k \in 1 .. GroupSize(d.items, s) :
                   /\ a.sections[s].items[k].id = d.items[EntryAt(d.items, s, k)].id
                   /\ a.sections[s].items[k].resources = Kept(RequestItem(d.items[EntryAt(d.items, s, k)]), old)
<1> DEFINE q == Request(d)
           n == GroupCount(d.items)
           size(s) == GroupSize(d.items, s)
           entry(s, k) == d.items[EntryAt(d.items, s, k)]
           row(i) == [ id |-> i.id, title |-> i.title, mode |-> i.mode, target |-> i.target,
                       resources |-> Kept(i, old) ]
           list(s) == [k \in DOMAIN q.sections[s].items |-> row(q.sections[s].items[k])]
           part(s) == [area |-> q.sections[s].area, items |-> list(s)]
           parts == [s \in DOMAIN q.sections |-> part(s)]
           a == Rows(q, old)
<1>1. /\ q.title = d.title /\ q.notices = d.notices
      /\ DOMAIN q.sections = 1 .. n
      /\ \A s \in 1 .. n :
           /\ q.sections[s].area = AreaAt(d.items, s)
           /\ DOMAIN q.sections[s].items = 1 .. size(s)
           /\ \A k \in 1 .. size(s) : q.sections[s].items[k] = RequestItem(entry(s, k))
  BY RequestByEntry
<1>2. a = [ status |-> "draft", title |-> q.title, start |-> q.start, notices |-> q.notices,
            sections |-> parts ]
  BY DEF Rows
<1>3. \A i : row(RequestItem(i)).id = i.id /\ row(RequestItem(i)).resources = Kept(RequestItem(i), old)
  BY DEF RequestItem
<1>4. \A i : {"id", "resources"} \in SUBSET DOMAIN row(i)
  OBVIOUS
<1>5. \A s : /\ DOMAIN list(s) = DOMAIN q.sections[s].items
             /\ \A k \in DOMAIN q.sections[s].items : list(s)[k] = row(q.sections[s].items[k])
  OBVIOUS
<1>6. \A s : /\ {"area", "items"} \in SUBSET DOMAIN part(s)
             /\ part(s).area = q.sections[s].area /\ part(s).items = list(s)
  OBVIOUS
<1>7. DOMAIN parts = DOMAIN q.sections /\ \A s \in DOMAIN q.sections : parts[s] = part(s)
  OBVIOUS
<1>8. /\ {"status", "title", "notices", "sections"} \in SUBSET DOMAIN a /\ a.sections = parts
      /\ a.status = "draft" /\ a.title = q.title /\ a.notices = q.notices
  BY <1>2
<1> HIDE DEF a, parts, part, list, row, q, n, size, entry
<1>9. Week(a)
  BY <1>4, <1>5, <1>6, <1>7, <1>8 DEF Week
<1>10. \A s \in 1 .. n : /\ a.sections[s].area = AreaAt(d.items, s)
                         /\ DOMAIN a.sections[s].items = 1 .. size(s)
  BY <1>1, <1>5, <1>6, <1>7, <1>8
<1>11. ASSUME NEW s \in 1 .. n, NEW k \in 1 .. size(s)
       PROVE  /\ a.sections[s].items[k].id = entry(s, k).id
              /\ a.sections[s].items[k].resources = Kept(RequestItem(entry(s, k)), old)
  <2>1. a.sections[s].items[k] = row(RequestItem(entry(s, k)))
    <3>1. s \in DOMAIN q.sections /\ k \in DOMAIN q.sections[s].items /\ q.sections[s].items[k] = RequestItem(entry(s, k))
      BY <1>1
    <3>2. a.sections[s].items = list(s)
      BY <1>6, <1>7, <1>8, <3>1
    <3> QED
      BY <1>5, <3>1, <3>2
  <2> QED
    BY <1>3, <2>1
<1> QED
  BY <1>1, <1>7, <1>8, <1>9, <1>10, <1>11 DEF a, q, n, size, entry

\* The rows a save leaves are those of the links and retained uploads of the draft.
LEMMA SavedRows ==
  ASSUME NEW d \in Drafts, NEW old, NEW o
  PROVE  o \in RowsOf(Rows(Request(d), old)) <=>
           \E j \in DOMAIN d.items : \E p \in DOMAIN d.items[j].resources :
             Sendable(d.items[j].resources[p]) /\ o = RowAt(d.items[j], p, old)
<1> DEFINE a == Rows(Request(d), old)
           items == d.items
           e(s, k) == EntryAt(items, s, k)
<1>1. items \in Seq(Items)
  BY DraftParts
<1>2. /\ DOMAIN a.sections = 1 .. GroupCount(items)
      /\ \A s \in 1 .. GroupCount(items) :
           /\ DOMAIN a.sections[s].items = 1 .. GroupSize(items, s)
           /\ \A k \in 1 .. GroupSize(items, s) :
                a.sections[s].items[k].resources = Kept(RequestItem(items[e(s, k)]), old)
  BY SavedWeek
<1>3. /\ \A s \in 1 .. GroupCount(items) : \A k \in 1 .. GroupSize(items, s) : e(s, k) \in DOMAIN items
      /\ \A j \in DOMAIN items : \E s \in 1 .. GroupCount(items) : \E k \in 1 .. GroupSize(items, s) : e(s, k) = j
  BY <1>1, EntriesGrouped
<1>4. \A j \in DOMAIN items : Kept(RequestItem(items[j]), old) =
        {RowAt(items[j], p, old) : p \in {x \in DOMAIN items[j].resources : Sendable(items[j].resources[x])}}
  BY <1>1, KeptRows
<1> HIDE DEF a, items, e
<1>5. o \in RowsOf(a) <=> \E s \in DOMAIN a.sections : \E k \in DOMAIN a.sections[s].items :
                            o \in a.sections[s].items[k].resources
  BY RowListed
<1>6. o \in RowsOf(a) <=> \E j \in DOMAIN items : o \in Kept(RequestItem(items[j]), old)
  <2>1. ASSUME NEW j \in DOMAIN items, o \in Kept(RequestItem(items[j]), old)
        PROVE  o \in RowsOf(a)
    <3>1. PICK s, k : s \in 1 .. GroupCount(items) /\ k \in 1 .. GroupSize(items, s) /\ e(s, k) = j
      BY <1>3
    <3>2. a.sections[s].items[k].resources = Kept(RequestItem(items[j]), old)
      BY <1>2, <3>1
    <3> QED
      <4>1. s \in DOMAIN a.sections /\ k \in DOMAIN a.sections[s].items
        BY <1>2, <3>1
      <4>2. o \in a.sections[s].items[k].resources
        BY <2>1, <3>2
      <4> QED
        BY <1>5, <4>1, <4>2
  <2>2. ASSUME o \in RowsOf(a)
        PROVE  \E j \in DOMAIN items : o \in Kept(RequestItem(items[j]), old)
    <3>1. PICK s, k : /\ s \in 1 .. GroupCount(items) /\ k \in 1 .. GroupSize(items, s)
                     /\ o \in a.sections[s].items[k].resources
      BY <1>2, <1>5, <2>2
    <3> QED
      BY <1>2, <1>3, <3>1
  <2> QED
    BY <2>1, <2>2
<1>7. o \in RowsOf(a) <=> \E j \in DOMAIN items : \E p \in DOMAIN items[j].resources :
             Sendable(items[j].resources[p]) /\ o = RowAt(items[j], p, old)
  BY <1>4, <1>6
<1> QED
  BY <1>7 DEF a, items

\* An upload adds one row below one item and changes nothing else.
RowAdded(a, s, k, o) == [a EXCEPT !.sections[s].items[k].resources = @ \cup {o}]

\* An upload adds a row to one item and leaves everything else.
LEMMA WithRow ==
  ASSUME NEW a, Week(a), NEW s, NEW k, NEW o
  PROVE  LET b == RowAdded(a, s, k, o) IN
         /\ Week(b) /\ b.status = a.status /\ b.title = a.title /\ b.notices = a.notices
         /\ DOMAIN b.sections = DOMAIN a.sections
         /\ \A t \in DOMAIN a.sections :
              /\ b.sections[t].area = a.sections[t].area
              /\ DOMAIN b.sections[t].items = DOMAIN a.sections[t].items
              /\ \A l \in DOMAIN a.sections[t].items :
                   /\ b.sections[t].items[l].id = a.sections[t].items[l].id
                   /\ t = s /\ l = k =>
                        b.sections[t].items[l].resources = a.sections[t].items[l].resources \cup {o}
                   /\ ~ (t = s /\ l = k) =>
                        b.sections[t].items[l].resources = a.sections[t].items[l].resources
<1> DEFINE item == [a.sections[s].items[k] EXCEPT !.resources = @ \cup {o}]
           list == [a.sections[s].items EXCEPT ![k] = item]
           part == [a.sections[s] EXCEPT !.items = list]
           parts == [a.sections EXCEPT ![s] = part]
           b == RowAdded(a, s, k, o)
<1>1. b = [a EXCEPT !.sections = parts]
  BY DEF RowAdded
<1>2. /\ DOMAIN b = DOMAIN a /\ b.sections = parts
      /\ b.status = a.status /\ b.title = a.title /\ b.notices = a.notices
  BY <1>1 DEF Week
<1>3. DOMAIN parts = DOMAIN a.sections /\ \A t \in DOMAIN a.sections : parts[t] = IF t = s THEN part ELSE a.sections[t]
  OBVIOUS
<1>4. s \in DOMAIN a.sections => DOMAIN part = DOMAIN a.sections[s] /\ part.items = list /\ part.area = a.sections[s].area
  BY DEF Week
<1>5. DOMAIN list = DOMAIN a.sections[s].items
      /\ \A l \in DOMAIN a.sections[s].items : list[l] = IF l = k THEN item ELSE a.sections[s].items[l]
  OBVIOUS
<1>6. s \in DOMAIN a.sections /\ k \in DOMAIN a.sections[s].items =>
        /\ DOMAIN item = DOMAIN a.sections[s].items[k] /\ item.id = a.sections[s].items[k].id
        /\ item.resources = a.sections[s].items[k].resources \cup {o}
  BY DEF Week
<1> HIDE DEF item, list, part, parts, b
<1>7. \A t \in DOMAIN a.sections :
        /\ DOMAIN b.sections[t] = DOMAIN a.sections[t] /\ b.sections[t].area = a.sections[t].area
        /\ DOMAIN b.sections[t].items = DOMAIN a.sections[t].items
  BY <1>2, <1>3, <1>4, <1>5
<1>8. ASSUME NEW t \in DOMAIN a.sections, NEW l \in DOMAIN a.sections[t].items
      PROVE  /\ DOMAIN b.sections[t].items[l] = DOMAIN a.sections[t].items[l]
             /\ b.sections[t].items[l].id = a.sections[t].items[l].id
             /\ t = s /\ l = k =>
                  b.sections[t].items[l].resources = a.sections[t].items[l].resources \cup {o}
             /\ ~ (t = s /\ l = k) =>
                  b.sections[t].items[l].resources = a.sections[t].items[l].resources
  <2>1. CASE t = s /\ l = k
    BY <1>2, <1>3, <1>4, <1>5, <1>6, <2>1
  <2>2. CASE t = s /\ l # k
    BY <1>2, <1>3, <1>4, <1>5, <2>2
  <2>3. CASE t # s
    BY <1>2, <1>3, <2>3
  <2> QED
    BY <2>1, <2>2, <2>3
<1>9. DOMAIN b.sections = DOMAIN a.sections
  BY <1>2, <1>3
<1>10. Week(b)
  <2>1. \A t \in DOMAIN b.sections : \A l \in DOMAIN b.sections[t].items :
          {"id", "resources"} \in SUBSET DOMAIN b.sections[t].items[l]
    <3> SUFFICES ASSUME NEW t \in DOMAIN b.sections, NEW l \in DOMAIN b.sections[t].items
                 PROVE  {"id", "resources"} \in SUBSET DOMAIN b.sections[t].items[l]
      OBVIOUS
    <3>1. t \in DOMAIN a.sections /\ l \in DOMAIN a.sections[t].items
      BY <1>7, <1>9
    <3>2. {"id", "resources"} \in SUBSET DOMAIN a.sections[t].items[l]
      BY <3>1 DEF Week
    <3> QED
      BY <1>8, <3>1, <3>2
  <2>2. \A t \in DOMAIN b.sections : {"area", "items"} \in SUBSET DOMAIN b.sections[t]
    BY <1>7, <1>9 DEF Week
  <2> QED
    BY <1>2, <2>1, <2>2 DEF Week
<1> QED
  BY <1>2, <1>7, <1>8, <1>9, <1>10 DEF b

LEMMA StoredWeekShaped == ASSUME NEW a \in Sources PROVE Week(a)
<1>1. a \in [ status : {"draft"}, title : Texts, start : {0, 1}, notices : Seq(Notices),
              sections : Seq([area : Nat, items : Seq(StoredItems)]) ]
  BY StoredWeekParts
<1>2. {"status", "title", "notices", "sections"} \in SUBSET DOMAIN a
  BY <1>1
<1>3. \A s \in DOMAIN a.sections : {"area", "items"} \in SUBSET DOMAIN a.sections[s]
  <2> DEFINE T == [area : Nat, items : Seq(StoredItems)]
  <2>1. \A t \in T : {"area", "items"} \in SUBSET DOMAIN t
    OBVIOUS
  <2>2. a.sections \in Seq(T)
    BY StoredWeekParts
  <2> HIDE DEF T
  <2> QED
    BY <2>1, <2>2
<1>4. \A i \in StoredItems : {"id", "resources"} \in SUBSET DOMAIN i
  BY DEF StoredItems
<1> QED
  BY <1>2, <1>3, <1>4, StoredWeekParts DEF Week

IsList(list) == \E S : list \in Seq(S)

(***************************************************************************)
(* A page saves only until it knows of a saved assignment, and everything  *)
(* but a save needs one.                                                   *)
(***************************************************************************)
SavesFirst ==
  /\ "phase" \in DOMAIN run
  /\ run.phase = "saving" => saved = 0
  /\ run.phase \in {"uploading", "publishing"} => saved # 0

Counted ==
  /\ IsList(server)
  /\ saved \in 0 .. Len(server)
  /\ history.creates \in Nat
  /\ mode = "edit" => Len(server) = 1
  /\ mode # "edit" => Len(server) = history.creates + IF saved = 0 THEN 0 ELSE 1

Single == SavesFirst /\ Counted

-----------------------------------------------------------------------------
LEMMA OneLonger ==
  ASSUME NEW list, IsList(list), NEW x
  PROVE  /\ IsList(Append(list, x)) /\ Len(Append(list, x)) = Len(list) + 1
         /\ IsList(<<x>>) /\ Len(<<x>>) = 1
<1>1. PICK S : list \in Seq(S)
  BY DEF IsList
<1>2. list \in Seq(S \cup {x})
  BY <1>1
<1>3. Append(list, x) \in Seq(S \cup {x}) /\ Len(Append(list, x)) = Len(list) + 1
  BY <1>2
<1>4. <<x>> \in Seq({x}) /\ Len(<<x>>) = 1
  OBVIOUS
<1> QED
  BY <1>3, <1>4 DEF IsList

\* Whatever changes inside one of them, the assignments stay a list as long as before.
LEMMA SameLength ==
  ASSUME NEW list, IsList(list), NEW n, NEW x
  PROVE  IsList([list EXCEPT ![n] = x]) /\ Len([list EXCEPT ![n] = x]) = Len(list)
<1>1. PICK S : list \in Seq(S)
  BY DEF IsList
<1> DEFINE new == [list EXCEPT ![n] = x]
<1>2. Len(list) \in Nat /\ DOMAIN list = 1 .. Len(list) /\ \A i \in 1 .. Len(list) : list[i] \in S
  BY <1>1
<1>3. new = [i \in 1 .. Len(list) |-> IF i = n THEN x ELSE list[i]]
  BY <1>2
<1>4. new \in Seq(S \cup {x}) /\ Len(new) = Len(list)
  <2> DEFINE entry(i) == IF i = n THEN x ELSE list[i]
  <2>1. \A i \in 1 .. Len(list) : entry(i) \in S \cup {x}
    BY <1>2
  <2>2. new = [i \in 1 .. Len(list) |-> entry(i)]
    BY <1>3
  <2> HIDE DEF entry, new
  <2>3. [i \in 1 .. Len(list) |-> entry(i)] \in Seq(S \cup {x})
    BY <1>2, <2>1
  <2>4. Len([i \in 1 .. Len(list) |-> entry(i)]) = Len(list)
    BY <1>2
  <2> QED
    BY <2>2, <2>3, <2>4
<1> QED
  BY <1>4 DEF IsList

LEMMA LengthIsNat == ASSUME NEW list, IsList(list) PROVE Len(list) \in Nat
  BY DEF IsList

\* run is Idle or as Started, with another phase or place.
LEMMA RunStarts ==
  ASSUME NEW phase
  PROVE  /\ "phase" \in DOMAIN Idle /\ Idle.phase = "idle"
         /\ "phase" \in DOMAIN Started(phase) /\ Started(phase).phase = phase
<1>1. "phase" \in DOMAIN Idle /\ Idle.phase = "idle"
  BY DEF Idle
<1>2. "phase" \in DOMAIN Started(phase) /\ Started(phase).phase = phase
  BY DEF Started
<1> QED
  BY <1>1, <1>2

LEMMA RunGoesOn ==
  ASSUME NEW r, "phase" \in DOMAIN r, NEW v
  PROVE  /\ "phase" \in DOMAIN [r EXCEPT !.phase = v] /\ [r EXCEPT !.phase = v].phase = v
         /\ "phase" \in DOMAIN [r EXCEPT !.at = v] /\ [r EXCEPT !.at = v].phase = r.phase
  OBVIOUS

LEMMA InitSingle == ASSUME Init PROVE Single
<1>1. run.phase = "idle" /\ saved = 0 /\ history.creates = 0 /\ "phase" \in DOMAIN run
  BY RunStarts DEF Init
<1>2. IsList(server) /\ (mode = "edit" => Len(server) = 1) /\ (mode # "edit" => Len(server) = 0)
  <2>1. CASE server = <<>> /\ mode # "edit"
    <3>1. <<>> \in Seq({}) /\ Len(<<>>) = 0
      OBVIOUS
    <3> QED
      BY <2>1, <3>1 DEF IsList
  <2>2. CASE mode = "edit" /\ \E a \in Sources : server = <<a>>
    <3>1. PICK a \in Sources : server = <<a>>
      BY <2>2
    <3>2. <<a>> \in Seq({a}) /\ Len(<<a>>) = 1
      OBVIOUS
    <3> QED
      BY <2>2, <3>1, <3>2 DEF IsList
  <2> QED
    BY <2>1, <2>2 DEF Init
<1> QED
  BY <1>1, <1>2 DEF Single, SavesFirst, Counted

\* Changes that leave the number of assignments, and what the page knows of them, alone.
LEMMA SameCounted ==
  ASSUME Counted, mode' = mode, saved' = saved, history'.creates = history.creates,
         IsList(server'), Len(server') = Len(server)
  PROVE  Counted'
  BY DEF Counted

\* A create appends one assignment, an update replaces the only one.
LEMMA SavedLength ==
  ASSUME Single, Saved
  PROVE  /\ IsList(server')
         /\ mode = "edit" => Len(server') = 1
         /\ mode # "edit" => Len(server') = Len(server) + 1
<1> DEFINE q == Request(run.draft)
<1>1. server' = SavedWith(mode, q)
  BY DEF Saved
<1>2. IsList(server)
  BY DEF Single, Counted
<1>3. CASE mode = "edit"
  BY <1>1, <1>2, <1>3, OneLonger DEF SavedWith
<1>4. CASE mode # "edit"
  BY <1>1, <1>2, <1>4, OneLonger DEF SavedWith
<1> QED
  BY <1>3, <1>4

-----------------------------------------------------------------------------
\* Every step keeps the count of assignments.
LEMMA SingleStep == ASSUME Single, [Next]_vars PROVE Single'
<1>0. /\ SavesFirst /\ Counted /\ IsList(server) /\ Len(server) \in Nat
  BY LengthIsNat DEF Single, Counted
<1>1. CASE UNCHANGED <<mode, run, saved, server, history>>
  BY <1>1 DEF Single, SavesFirst, Counted
<1>2. ASSUME NEW publish \in BOOLEAN, Save(publish) PROVE Single'
  <2>1. /\ "phase" \in DOMAIN run' /\ run'.phase = "saving" /\ saved' = 0
        /\ UNCHANGED <<mode, saved, server, history>>
    BY <1>2, RunStarts DEF Save, SaveOffered, form
  <2> QED
    BY <1>0, <2>1 DEF Single, SavesFirst, Counted
<1>3. CASE Retry
  <2>1. /\ "phase" \in DOMAIN run' /\ run'.phase = "uploading" /\ saved' # 0
        /\ UNCHANGED <<mode, saved, server>>
    BY <1>3, RunStarts DEF Retry, RetryOffered, form
  <2>2. history'.creates = history.creates
    BY <1>3 DEF Retry
  <2>3. Counted'
    BY <1>0, <2>1, <2>2, SameCounted
  <2> QED
    BY <2>1, <2>3 DEF Single, SavesFirst
<1>4. CASE SaveAnswered
  <2>1. saved = 0 /\ saved' = Len(server') /\ mode' = mode
    BY <1>0, <1>4 DEF SaveAnswered, Saved, SavesFirst, form
  <2>2. /\ history'.creates = history.creates
        /\ "phase" \in DOMAIN run' /\ run'.phase = "uploading"
    BY <1>0, <1>4, RunGoesOn DEF SaveAnswered, SavesFirst
  <2> QED
    BY <1>0, <1>4, <2>1, <2>2, SavedLength, LengthIsNat DEF Single, SavesFirst, Counted, SaveAnswered
<1>5. CASE SaveAnswerLost
  <2>1. /\ saved = 0 /\ saved' = saved /\ mode' = mode
        /\ "phase" \in DOMAIN run' /\ run'.phase = "idle"
    BY <1>0, <1>5, RunStarts DEF SaveAnswerLost, Saved, SavesFirst, form, Fails
  <2>2. history'.creates = IF mode = "edit" THEN history.creates ELSE history.creates + 1
    BY <1>5 DEF SaveAnswerLost
  <2> QED
    BY <1>0, <1>5, <2>1, <2>2, SavedLength, LengthIsNat DEF Single, SavesFirst, Counted, SaveAnswerLost
<1>6. CASE SaveFails \/ Unmatched \/ UploadFails \/ PublishFails
  <2>1. /\ "phase" \in DOMAIN run' /\ run'.phase = "idle"
        /\ UNCHANGED <<mode, saved, server, history>>
    BY <1>6, RunStarts DEF SaveFails, Unmatched, UploadFails, PublishFails, Fails, form
  <2> QED
    BY <1>0, <2>1 DEF Single, SavesFirst, Counted
<1>7. CASE UploadStarted
  <2>1. /\ "phase" \in DOMAIN run' /\ run'.phase = run.phase
        /\ UNCHANGED <<mode, saved, server, history>>
    BY <1>0, <1>7, RunGoesOn DEF UploadStarted, form, SavesFirst
  <2> QED
    BY <1>0, <2>1 DEF Single, SavesFirst, Counted
<1>8. CASE UploadAnswered \/ UploadAnswerLost
  <2>1. IsList(server') /\ Len(server') = Len(server)
    <3> DEFINE x == [server[saved] EXCEPT !.sections[run.at[1]].items[run.at[2]].resources
                       = @ \cup {Target}]
    <3>1. server' = [server EXCEPT ![saved] = x]
      BY <1>8 DEF UploadAnswered, UploadAnswerLost, Stored
    <3> HIDE DEF x
    <3> QED
      BY <1>0, <3>1, SameLength
  <2>2. /\ "phase" \in DOMAIN run' /\ (run'.phase = run.phase \/ run'.phase = "idle")
        /\ UNCHANGED <<mode, saved>> /\ history'.creates = history.creates
    <3>1. CASE UploadAnswered
      BY <1>0, <3>1, RunGoesOn DEF UploadAnswered, form, SavesFirst
    <3>2. CASE UploadAnswerLost
      BY <3>2, RunStarts DEF UploadAnswerLost, Fails, form
    <3> QED
      BY <1>8, <3>1, <3>2
  <2> QED
    BY <1>0, <2>1, <2>2, SameCounted DEF Single, SavesFirst
<1>9. CASE Uploaded
  <2>1. /\ run.phase = "uploading"
        /\ "phase" \in DOMAIN run' /\ run'.phase \in {"publishing", "done"}
        /\ UNCHANGED <<mode, saved, server, history>>
    BY <1>0, <1>9, RunGoesOn DEF Uploaded, UploadsComplete, Finish, form, SavesFirst
  <2> QED
    BY <1>0, <2>1 DEF Single, SavesFirst, Counted
<1>10. CASE PublishAnswered \/ PublishAnswerLost
  <2>1. IsList(server') /\ Len(server') = Len(server)
    <3> DEFINE x == [server[saved] EXCEPT !.status = "published"]
    <3>1. server' = [server EXCEPT ![saved] = x]
      BY <1>10 DEF PublishAnswered, PublishAnswerLost, Published
    <3> HIDE DEF x
    <3> QED
      BY <1>0, <3>1, SameLength
  <2>2. /\ "phase" \in DOMAIN run' /\ run'.phase \in {"done", "idle"}
        /\ UNCHANGED <<mode, saved, history>>
    BY <1>0, <1>10, RunStarts, RunGoesOn
       DEF PublishAnswered, PublishAnswerLost, Fails, Finish, form, SavesFirst
  <2> QED
    BY <1>0, <2>1, <2>2, SameCounted DEF Single, SavesFirst
<1>11. CASE Edit \/ Leave \/ Dismiss \/ SaveRefusedByPage
  <2>1. UNCHANGED <<mode, run, saved, server, history>>
    BY <1>11 DEF Edit, Leave, Dismiss, SaveRefusedByPage, form
  <2> QED
    BY <1>1, <2>1
<1> QED
  BY <1>1, <1>2, <1>3, <1>4, <1>5, <1>6, <1>7, <1>8, <1>9, <1>10, <1>11 DEF Next, RunStep, vars

-----------------------------------------------------------------------------
(***************************************************************************)
(* Types.  A save or a retry works on a form of the page, grouped; the ids *)
(* of a form are told apart and below the next fresh one.                  *)
(***************************************************************************)
Phases == {"saving", "uploading", "publishing", "done"}

RunOf(phase, d, at) == [phase |-> phase, draft |-> d, groups |-> Grouped(d.items), at |-> at]

FormOf(d) == d \in Drafts /\ IdsDistinct(d) /\ IdsBelow(d, FirstFreshId + edits)

RunTyped ==
  run # Idle =>
    /\ run.phase \in Phases /\ FormOf(run.draft)
    /\ run = RunOf(run.phase, run.draft, run.at)

HistoryTyped ==
  /\ {"sent", "drifted", "creates", "uploads"} \in SUBSET DOMAIN history
  /\ history.sent \in Drafts /\ IdsDistinct(history.sent)

StatusTyped ==
  /\ alert \in {"none", "invalid", "failed"} /\ bar \in Bars
  /\ bar = "uploading" => run.phase = "uploading"
  /\ edits \in 0 .. MaxEdits /\ faults \in 0 .. MaxFaults

Typed0 == Single /\ FormOf(draft) /\ RunTyped /\ HistoryTyped /\ StatusTyped

\* The phases of a run.
LEMMA RunPhases ==
  ASSUME RunTyped
  PROVE  /\ run.phase = "idle" <=> run = Idle
         /\ run # Idle => run.phase \in Phases
<1>1. Idle.phase = "idle"
  BY DEF Idle
<1> QED
  BY <1>1 DEF RunTyped, Phases

\* A run that moves on keeps its form and its groups.
LEMMA RunMoved ==
  ASSUME RunTyped, run # Idle, NEW v
  PROVE  /\ [run EXCEPT !.phase = v] = RunOf(v, run.draft, run.at)
         /\ [run EXCEPT !.at = v] = RunOf(run.phase, run.draft, v)
<1>1. run = RunOf(run.phase, run.draft, run.at)
  BY DEF RunTyped
<1>2. \A ph, d, at : [RunOf(ph, d, at) EXCEPT !.phase = v] = RunOf(v, d, at)
  BY DEF RunOf
<1>3. \A ph, d, at : [RunOf(ph, d, at) EXCEPT !.at = v] = RunOf(ph, d, v)
  BY DEF RunOf
<1> QED
  BY <1>1, <1>2, <1>3

LEMMA RunParts ==
  ASSUME NEW phase, NEW d, NEW at
  PROVE  LET r == RunOf(phase, d, at) IN
         r.phase = phase /\ r.draft = d /\ r.groups = Grouped(d.items) /\ r.at = at
  BY DEF RunOf

LEMMA StartedRun == ASSUME NEW phase PROVE Started(phase) = RunOf(phase, draft, <<>>)
  BY DEF Started, RunOf

LEMMA HistoryGoesOn ==
  ASSUME {"sent", "drifted", "creates", "uploads"} \in SUBSET DOMAIN history, NEW v, NEW w
  PROVE  /\ LET h == [history EXCEPT !.sent = v] IN
            /\ DOMAIN h = DOMAIN history /\ h.sent = v /\ h.drifted = history.drifted
            /\ h.creates = history.creates /\ h.uploads = history.uploads
         /\ LET h == [history EXCEPT !.sent = v, !.drifted = w] IN
            /\ DOMAIN h = DOMAIN history /\ h.sent = v /\ h.drifted = w
            /\ h.creates = history.creates /\ h.uploads = history.uploads
         /\ LET h == [history EXCEPT !.creates = v] IN
            /\ DOMAIN h = DOMAIN history /\ h.sent = history.sent /\ h.drifted = history.drifted
            /\ h.creates = v /\ h.uploads = history.uploads
         /\ LET h == [history EXCEPT !.uploads = v] IN
            /\ DOMAIN h = DOMAIN history /\ h.sent = history.sent /\ h.drifted = history.drifted
            /\ h.creates = history.creates /\ h.uploads = v
  OBVIOUS

\* The first form is one of the page.
LEMMA InitTyped == ASSUME Init PROVE Typed0
<1>1. Single
  BY InitSingle
<1>2. /\ edits = 0 /\ faults = 0 /\ run = Idle /\ alert = "none" /\ bar = "idle"
      /\ history = [sent |-> draft, drifted |-> FALSE, creates |-> 0, uploads |-> {}]
  BY DEF Init
<1>3. FormOf(draft)
  BY <1>2, FirstFormTyped DEF FormOf, FirstFreshId
<1>4. RunTyped
  BY <1>2 DEF RunTyped
<1>5. HistoryTyped
  BY <1>2, <1>3 DEF HistoryTyped, FormOf
<1>6. StatusTyped
  BY <1>2, AuthoringAssumption DEF StatusTyped, Bars
<1> QED
  BY <1>1, <1>3, <1>4, <1>5, <1>6 DEF Typed0

\* The forms stay forms while fresh ids are used up.
LEMMA FormGoesOn ==
  ASSUME NEW d, FormOf(d), edits \in Nat, edits' = edits \/ edits' = edits + 1
  PROVE  d \in Drafts /\ IdsDistinct(d) /\ IdsBelow(d, FirstFreshId + edits')
<1>1. d \in Drafts /\ IdsDistinct(d) /\ IdsBelow(d, FirstFreshId + edits)
  BY DEF FormOf
<1>2. \A r \in ResourcesOf(d) : r.id \in Nat
  BY <1>1, ResourceOfDraft, ResourceParts
<1>3. IdsBelow(d, FirstFreshId + edits')
  BY <1>1, <1>2 DEF IdsBelow, FirstFreshId
<1> QED
  BY <1>1, <1>3

\* An edit leaves the form of the run.
LEMMA RunStays ==
  ASSUME RunTyped, edits \in Nat, edits' = edits \/ edits' = edits + 1, run' = run
  PROVE  RunTyped'
<1>1. CASE run = Idle
  BY <1>1 DEF RunTyped
<1>2. CASE run # Idle
  <2>1. /\ run.phase \in Phases /\ FormOf(run.draft) /\ run = RunOf(run.phase, run.draft, run.at)
    BY <1>2 DEF RunTyped
  <2>2. run.draft \in Drafts /\ IdsDistinct(run.draft) /\ IdsBelow(run.draft, FirstFreshId + edits')
    BY <2>1, FormGoesOn
  <2>3. FormOf(run.draft)'
    BY <2>2 DEF FormOf
  <2> QED
    BY <2>1, <2>3 DEF RunTyped
<1> QED
  BY <1>1, <1>2

LEMMA RunGoesToPhase ==
  ASSUME RunTyped, run # Idle, edits' = edits,
         NEW phase \in Phases, NEW at, run' = RunOf(phase, run.draft, at)
  PROVE  RunTyped' /\ run' # Idle /\ run'.phase = phase /\ run'.draft = run.draft
         /\ run'.groups = run.groups /\ run'.at = at
<1>1. FormOf(run.draft) /\ run = RunOf(run.phase, run.draft, run.at)
  BY DEF RunTyped
<1>2. run'.phase = phase /\ run'.draft = run.draft /\ run'.at = at /\ run'.groups = Grouped(run.draft.items)
  BY RunParts
<1>3. run.groups = Grouped(run.draft.items)
  BY <1>1, RunParts
<1>4. FormOf(run.draft)'
  BY <1>1, <1>2 DEF FormOf
<1>5. run' = RunOf(run'.phase, run'.draft, run'.at)
  BY <1>2
<1>6. run' # Idle
  BY <1>2, RunStarts DEF Phases
<1> QED
  BY <1>2, <1>3, <1>4, <1>5, <1>6 DEF RunTyped

LEMMA PhaseMoves ==
  ASSUME RunTyped, run # Idle, edits' = edits, NEW phase \in Phases, run' = [run EXCEPT !.phase = phase]
  PROVE  RunTyped' /\ run' # Idle /\ run'.phase = phase /\ run'.draft = run.draft
         /\ run'.groups = run.groups /\ run'.at = run.at
<1>1. run' = RunOf(phase, run.draft, run.at)
  BY RunMoved
<1> QED
  BY <1>1, RunGoesToPhase

LEMMA PlaceMoves ==
  ASSUME RunTyped, run # Idle, edits' = edits, NEW at, run' = [run EXCEPT !.at = at]
  PROVE  RunTyped' /\ run' # Idle /\ run'.phase = run.phase /\ run'.draft = run.draft
         /\ run'.groups = run.groups /\ run'.at = at
<1>1. run' = RunOf(run.phase, run.draft, at) /\ run.phase \in Phases
  BY RunMoved DEF RunTyped
<1> QED
  BY <1>1, RunGoesToPhase

LEMMA RunBegins ==
  ASSUME FormOf(draft), edits' = edits, NEW phase \in Phases, run' = Started(phase)
  PROVE  RunTyped' /\ run' # Idle /\ run'.phase = phase /\ run'.draft = draft
         /\ run'.groups = Grouped(draft.items)
<1>1. /\ run' = RunOf(phase, draft, <<>>)
      /\ run'.phase = phase /\ run'.draft = draft /\ run'.at = <<>> /\ run'.groups = Grouped(draft.items)
  BY StartedRun, RunParts
<1>2. FormOf(run.draft)'
  BY <1>1 DEF FormOf
<1>3. run' # Idle
  BY <1>1, RunStarts DEF Phases
<1> QED
  BY <1>1, <1>2, <1>3 DEF RunTyped

LEMMA FailsTyped ==
  ASSUME Fails, StatusTyped, RunTyped
  PROVE  /\ run' = Idle /\ RunTyped' /\ alert' = "failed"
         /\ bar' \in Bars /\ bar' # "uploading"
<1> QED
  BY DEF Fails, StatusTyped, RunTyped, Bars

\* Every step keeps the forms those of the page.
LEMMA TypedStep == ASSUME Typed0, [Next]_vars PROVE Typed0'
<1>0. /\ Single /\ FormOf(draft) /\ RunTyped /\ HistoryTyped /\ StatusTyped
      /\ edits \in Nat /\ MaxEdits \in Nat /\ MaxFaults \in Nat
  BY AuthoringAssumption DEF Typed0, StatusTyped
<1>1. Single'
  BY <1>0, SingleStep
<1>2. ASSUME UNCHANGED <<draft, edits>> PROVE FormOf(draft)'
  BY <1>0, <1>2 DEF FormOf
<1>3. ASSUME UNCHANGED history PROVE HistoryTyped'
  BY <1>0, <1>3 DEF HistoryTyped
<1>4. ASSUME Fault \/ UNCHANGED faults PROVE faults' \in 0 .. MaxFaults
  BY <1>0, <1>4 DEF Fault, StatusTyped
<1>5. CASE UNCHANGED vars
  <2>1. RunTyped'
    BY <1>0, <1>5, RunStays DEF vars
  <2> QED
    BY <1>0, <1>1, <1>2, <1>3, <1>5, <2>1 DEF vars, Typed0, StatusTyped
<1>6. CASE Edit
  <2>1. /\ edits < MaxEdits /\ edits' = edits + 1
        /\ draft' \in DraftEdits(draft, FirstFreshId + edits)
        /\ UNCHANGED <<run, alert, bar, faults, history>>
    BY <1>6 DEF Edit
  <2>2. RunTyped'
    BY <1>0, <2>1, RunStays
  <2>3. FormOf(draft)'
    <3>1. FirstFreshId + edits \in Nat /\ FirstFreshId + edits' = (FirstFreshId + edits) + 1
      BY <1>0, <2>1 DEF FirstFreshId
    <3>2. draft' \in Drafts /\ IdsDistinct(draft') /\ IdsBelow(draft', FirstFreshId + edits')
      BY <1>0, <2>1, <3>1, DraftEdited DEF FormOf
    <3> QED
      BY <3>2 DEF FormOf
  <2> QED
    BY <1>0, <1>1, <1>3, <2>1, <2>2, <2>3 DEF Typed0, StatusTyped
<1>7. CASE Leave \/ Dismiss \/ SaveRefusedByPage
  <2>1. /\ UNCHANGED <<draft, edits, run, faults, history>>
        /\ alert' \in {alert, "invalid"} /\ bar' \in {bar, "idle"}
    BY <1>7 DEF Leave, Dismiss, SaveRefusedByPage, form
  <2>2. RunTyped'
    BY <1>0, <2>1, RunStays
  <2> QED
    BY <1>0, <1>1, <1>2, <1>3, <2>1, <2>2 DEF Typed0, StatusTyped, Bars
<1>8. ASSUME NEW publish \in BOOLEAN, Save(publish) PROVE Typed0'
  <2>1. /\ run' = Started("saving") /\ alert' = "none" /\ run = Idle
        /\ UNCHANGED <<draft, edits, bar, faults, history>>
    BY <1>8 DEF Save, SaveOffered, form
  <2>2. "saving" \in Phases
    BY DEF Phases
  <2>3. RunTyped'
    BY <1>0, <2>1, <2>2, RunBegins
  <2>4. bar # "uploading"
    BY <1>0, <2>1, RunPhases DEF StatusTyped
  <2> QED
    BY <1>0, <1>1, <1>2, <1>3, <2>1, <2>3, <2>4 DEF Typed0, StatusTyped
<1>9. CASE Retry
  <2>1. /\ run' = Started("uploading") /\ alert' = "none"
        /\ history' = [history EXCEPT !.sent = draft,
                                      !.drifted = @ \/ Shape(draft) # Shape(history.sent)]
        /\ UNCHANGED <<draft, edits, bar, faults>>
    BY <1>9 DEF Retry, form
  <2>2. "uploading" \in Phases
    BY DEF Phases
  <2>3. RunTyped' /\ run'.phase = "uploading"
    BY <1>0, <2>1, <2>2, RunBegins
  <2>4. HistoryTyped'
    <3>1. \E w : history' = [history EXCEPT !.sent = draft, !.drifted = w]
      BY <2>1
    <3> QED
      BY <1>0, <3>1, HistoryGoesOn DEF HistoryTyped, FormOf
  <2> QED
    BY <1>0, <1>1, <1>2, <2>1, <2>3, <2>4 DEF Typed0, StatusTyped
<1>10. CASE SaveAnswered
  <2>1. /\ run.phase = "saving" /\ run' = [run EXCEPT !.phase = "uploading"]
        /\ history' = [history EXCEPT !.sent = run.draft]
        /\ UNCHANGED <<draft, edits, alert, bar, faults>>
    BY <1>10 DEF SaveAnswered, Saved, form
  <2>2. run # Idle /\ "uploading" \in Phases
    BY <1>0, <2>1, RunPhases DEF Phases
  <2>3. RunTyped' /\ run'.phase = "uploading"
    BY <1>0, <2>1, <2>2, PhaseMoves, PlaceMoves
  <2>4. HistoryTyped'
    BY <1>0, <2>1, <2>2, HistoryGoesOn DEF HistoryTyped, RunTyped, FormOf
  <2> QED
    BY <1>0, <1>1, <1>2, <2>1, <2>3, <2>4 DEF Typed0, StatusTyped
<1>11. CASE SaveAnswerLost
  <2>1. /\ Fails /\ Fault /\ UNCHANGED <<draft, edits>>
        /\ \E v : history' = [history EXCEPT !.creates = v]
    BY <1>11 DEF SaveAnswerLost, form
  <2>2. HistoryTyped'
    BY <1>0, <2>1, HistoryGoesOn DEF HistoryTyped
  <2> QED
    BY <1>0, <1>1, <1>2, <1>4, <2>1, <2>2, FailsTyped DEF Typed0, StatusTyped
<1>12. CASE SaveFails \/ Unmatched \/ UploadFails \/ PublishFails
  <2>1. /\ Fails /\ (Fault \/ UNCHANGED faults) /\ UNCHANGED <<draft, edits, history>>
    BY <1>12 DEF SaveFails, Unmatched, UploadFails, PublishFails, form
  <2> QED
    BY <1>0, <1>1, <1>2, <1>3, <1>4, <2>1, FailsTyped DEF Typed0, StatusTyped
<1>13. CASE UploadStarted
  <2>1. /\ run.phase = "uploading" /\ bar' = "uploading"
        /\ \E at : run' = [run EXCEPT !.at = at]
        /\ UNCHANGED <<draft, edits, alert, faults, history>>
    BY <1>13 DEF UploadStarted, form
  <2>2. run # Idle /\ "uploading" \in Phases
    BY <1>0, <2>1, RunPhases DEF Phases
  <2>3. RunTyped' /\ run'.phase = "uploading"
    BY <1>0, <2>1, <2>2, PhaseMoves, PlaceMoves
  <2> QED
    BY <1>0, <1>1, <1>2, <1>3, <2>1, <2>3 DEF Typed0, StatusTyped, Bars
<1>14. CASE UploadAnswered
  <2>1. /\ run.phase = "uploading" /\ bar' = "succeeded"
        /\ run' = [run EXCEPT !.at = <<>>]
        /\ UNCHANGED <<draft, edits, alert, faults, history>>
    BY <1>14 DEF UploadAnswered, Stored, Uploading, form
  <2>2. run # Idle /\ "uploading" \in Phases
    BY <1>0, <2>1, RunPhases DEF Phases
  <2>3. RunTyped'
    BY <1>0, <2>1, <2>2, PhaseMoves, PlaceMoves
  <2> QED
    BY <1>0, <1>1, <1>2, <1>3, <2>1, <2>3 DEF Typed0, StatusTyped, Bars
<1>15. CASE UploadAnswerLost
  <2>1. /\ Fails /\ Fault /\ UNCHANGED <<draft, edits>>
        /\ \E v : history' = [history EXCEPT !.uploads = v]
    BY <1>15 DEF UploadAnswerLost, form
  <2>2. HistoryTyped'
    BY <1>0, <2>1, HistoryGoesOn DEF HistoryTyped
  <2> QED
    BY <1>0, <1>1, <1>2, <1>4, <2>1, <2>2, FailsTyped DEF Typed0, StatusTyped
<1>16. CASE Uploaded
  <2>1. /\ run.phase = "uploading" /\ bar # "uploading" /\ bar' \in {bar, "idle"}
        /\ \E phase \in Phases : run' = [run EXCEPT !.phase = phase]
        /\ UNCHANGED <<draft, edits, alert, faults, history>>
    BY <1>16 DEF Uploaded, UploadsComplete, Finish, form, Phases
  <2>2. run # Idle
    BY <1>0, <2>1, RunPhases
  <2>3. RunTyped'
    BY <1>0, <2>1, <2>2, PhaseMoves, PlaceMoves
  <2> QED
    BY <1>0, <1>1, <1>2, <1>3, <2>1, <2>3 DEF Typed0, StatusTyped, Bars
<1>17. CASE PublishAnswered
  <2>1. /\ run.phase = "publishing" /\ bar' = "idle"
        /\ run' = [run EXCEPT !.phase = "done"]
        /\ UNCHANGED <<draft, edits, alert, faults, history>>
    BY <1>17 DEF PublishAnswered, Published, Finish, form
  <2>2. run # Idle /\ "done" \in Phases
    BY <1>0, <2>1, RunPhases DEF Phases
  <2>3. RunTyped'
    BY <1>0, <2>1, <2>2, PhaseMoves, PlaceMoves
  <2> QED
    BY <1>0, <1>1, <1>2, <1>3, <2>1, <2>3 DEF Typed0, StatusTyped, Bars
<1>18. CASE PublishAnswerLost
  <2>1. Fails /\ Fault /\ UNCHANGED <<draft, edits, history>>
    BY <1>18 DEF PublishAnswerLost, form
  <2> QED
    BY <1>0, <1>1, <1>2, <1>3, <1>4, <2>1, FailsTyped DEF Typed0, StatusTyped
<1> QED
  BY <1>5, <1>6, <1>7, <1>8, <1>9, <1>10, <1>11, <1>12, <1>13, <1>14, <1>15, <1>16, <1>17, <1>18
     DEF Next, RunStep

LEMMA TypedOK == ASSUME Typed0 PROVE TypeOK
<1>1. Single /\ FormOf(draft) /\ RunTyped /\ HistoryTyped /\ StatusTyped
  BY DEF Typed0
<1>2. run.phase \in Phases \cup {"idle"} /\ (run.phase # "idle" => run.draft \in Drafts)
  BY <1>1, RunPhases DEF RunTyped, FormOf
<1> QED
  BY <1>1, <1>2 DEF TypeOK, FormOf, HistoryTyped, StatusTyped, Single, Counted, Phases

-----------------------------------------------------------------------------
(***************************************************************************)
(* What the steps do to the assignments.                                   *)
(***************************************************************************)
Shaped == \A n \in DOMAIN server : Week(server[n])

\* The rows a retained upload may be of.
OldRows == IF mode = "edit" THEN RowsOf(server[1]) ELSE {}

LEMMA ServerListed ==
  ASSUME Typed0
  PROVE  /\ DOMAIN server = 1 .. Len(server) /\ Len(server) \in Nat /\ saved \in 0 .. Len(server)
         /\ mode = "edit" => Len(server) = 1
         /\ run.phase \in {"uploading", "publishing"} => saved \in DOMAIN server
         /\ run.phase = "saving" => saved = 0
  BY DEF Typed0, Single, Counted, SavesFirst, IsList

\* A save leaves one new assignment, the rows of the run's form, and the others as they were.
LEMMA ServerSaved ==
  ASSUME Typed0, Saved
  PROVE  /\ run.phase = "saving" /\ run # Idle /\ run.draft \in Drafts /\ IdsDistinct(run.draft)
         /\ DOMAIN server' = 1 .. Len(server') /\ Len(server') \in Nat \ {0}
         /\ server'[Len(server')] = Rows(Request(run.draft), OldRows)
         /\ IF mode = "edit" THEN Len(server') = 1 ELSE Len(server') = Len(server) + 1
         /\ \A n \in DOMAIN server' : n # Len(server') => n \in DOMAIN server /\ server'[n] = server[n]
<1> DEFINE q == Request(run.draft)
           a == Rows(q, OldRows)
<1>1. run.phase = "saving" /\ server' = SavedWith(mode, q)
  BY DEF Saved
<1>2. run # Idle /\ run.draft \in Drafts /\ IdsDistinct(run.draft)
  BY <1>1, RunPhases DEF Typed0, RunTyped, Phases, FormOf, Idle
<1>3. PICK S : server \in Seq(S)
  BY DEF Typed0, Single, Counted, IsList
<1>4. CASE mode = "edit"
  <2>1. server' = <<a>>
    BY <1>1, <1>4 DEF SavedWith, OldRows
  <2> HIDE DEF a
  <2>2. DOMAIN server' = 1 .. 1 /\ Len(server') = 1 /\ server'[1] = a
    BY <2>1
  <2> QED
    BY <1>1, <1>2, <1>4, <2>2 DEF a
<1>5. CASE mode # "edit"
  <2>1. server' = Append(server, a)
    BY <1>1, <1>5 DEF SavedWith, OldRows
  <2> HIDE DEF a
  <2>2. server \in Seq(S \cup {a})
    BY <1>3
  <2>3. /\ Len(server') = Len(server) + 1 /\ Len(server) \in Nat /\ DOMAIN server' = 1 .. Len(server')
        /\ DOMAIN server = 1 .. Len(server)
        /\ server'[Len(server) + 1] = a /\ \A n \in 1 .. Len(server) : server'[n] = server[n]
    BY <2>1, <2>2
  <2> QED
    BY <1>1, <1>2, <1>5, <2>3 DEF a
<1> QED
  BY <1>4, <1>5

\* An upload changes the saved assignment only, by its row.
LEMMA ServerStored ==
  ASSUME Typed0, Stored
  PROVE  /\ run.phase = "uploading" /\ bar = "uploading" /\ run # Idle
         /\ DOMAIN server' = DOMAIN server /\ saved \in DOMAIN server
         /\ server'[saved] = RowAdded(server[saved], run.at[1], run.at[2], Target)
         /\ \A n \in DOMAIN server : n # saved => server'[n] = server[n]
<1>1. /\ run.phase = "uploading" /\ bar = "uploading"
      /\ server' = [server EXCEPT ![saved].sections[run.at[1]].items[run.at[2]].resources = @ \cup {Target}]
  BY DEF Stored, Uploading
<1>2. saved \in DOMAIN server /\ run # Idle
  BY <1>1, ServerListed, RunPhases DEF Typed0, Idle
<1> DEFINE b == RowAdded(server[saved], run.at[1], run.at[2], Target)
<1>3. server' = [server EXCEPT ![saved] = b]
  BY <1>1 DEF RowAdded
<1> HIDE DEF b
<1>4. DOMAIN server' = DOMAIN server /\ \A n \in DOMAIN server : server'[n] = IF n = saved THEN b ELSE server[n]
  BY <1>3
<1> QED
  BY <1>1, <1>2, <1>4 DEF b

\* Publishing changes a status only.
LEMMA ServerPublished ==
  ASSUME Typed0, Shaped, Published
  PROVE  /\ run.phase = "publishing" /\ run # Idle
         /\ DOMAIN server' = DOMAIN server /\ saved \in DOMAIN server
         /\ Week(server'[saved]) /\ server'[saved].sections = server[saved].sections
         /\ server'[saved].title = server[saved].title /\ server'[saved].notices = server[saved].notices
         /\ \A n \in DOMAIN server : n # saved => server'[n] = server[n]
<1>1. run.phase = "publishing" /\ server' = [server EXCEPT ![saved].status = "published"]
  BY DEF Published
<1>2. saved \in DOMAIN server /\ run # Idle
  BY <1>1, ServerListed, RunPhases DEF Typed0, Idle
<1> DEFINE b == [server[saved] EXCEPT !.status = "published"]
<1>3. server' = [server EXCEPT ![saved] = b]
  BY <1>1
<1>4. DOMAIN b = DOMAIN server[saved] /\ \A x \in DOMAIN b : x # "status" => b[x] = server[saved][x]
  OBVIOUS
<1> HIDE DEF b
<1>5. DOMAIN server' = DOMAIN server /\ \A n \in DOMAIN server : server'[n] = IF n = saved THEN b ELSE server[n]
  BY <1>3
<1>6. Week(server[saved])
  BY <1>2 DEF Shaped
<1>7. b.sections = server[saved].sections /\ b.title = server[saved].title /\ b.notices = server[saved].notices
  BY <1>4, <1>6 DEF Week
<1>8. Week(b)
  BY <1>4, <1>6, <1>7 DEF Week
<1> QED
  BY <1>1, <1>2, <1>5, <1>7, <1>8

\* The rows of an assignment depend on its sections only, and grow with an upload.
LEMMA RowsGrow ==
  ASSUME NEW a, Week(a), NEW s, NEW k, NEW o
  PROVE  /\ RowsOf(a) \in SUBSET RowsOf(RowAdded(a, s, k, o))
         /\ RowsOf(RowAdded(a, s, k, o)) \in SUBSET (RowsOf(a) \cup {o})
<1> DEFINE b == RowAdded(a, s, k, o)
<1>0. DOMAIN b.sections = DOMAIN a.sections
  BY WithRow
<1>1. ASSUME NEW t \in DOMAIN a.sections
      PROVE  DOMAIN b.sections[t].items = DOMAIN a.sections[t].items
  BY WithRow
<1>4. ASSUME NEW t \in DOMAIN a.sections, NEW l \in DOMAIN a.sections[t].items
      PROVE  /\ t = s /\ l = k =>
                  b.sections[t].items[l].resources = a.sections[t].items[l].resources \cup {o}
             /\ ~ (t = s /\ l = k) =>
                  b.sections[t].items[l].resources = a.sections[t].items[l].resources
  BY WithRow
<1> HIDE DEF b
<1>2. ASSUME NEW r \in RowsOf(a) PROVE r \in RowsOf(b)
  <2>1. PICK t, l : t \in DOMAIN a.sections /\ l \in DOMAIN a.sections[t].items /\ r \in a.sections[t].items[l].resources
    BY RowListed
  <2>2. r \in b.sections[t].items[l].resources
    BY <1>0, <1>1, <1>4, <2>1
  <2> QED
    BY <1>0, <1>1, <2>1, <2>2, RowListed
<1>3. ASSUME NEW r \in RowsOf(b) PROVE r \in RowsOf(a) \cup {o}
  <2>1. PICK t, l : t \in DOMAIN b.sections /\ l \in DOMAIN b.sections[t].items /\ r \in b.sections[t].items[l].resources
    BY RowListed
  <2>2. r \in a.sections[t].items[l].resources \cup {o}
    BY <1>0, <1>1, <1>4, <2>1
  <2> QED
    BY <1>0, <1>1, <2>1, <2>2, RowListed
<1> QED
  BY <1>2, <1>3 DEF b

\* An upload adds its own row to those of the assignments.
LEMMA RowsStored ==
  ASSUME Typed0, Shaped, Stored
  PROVE  /\ \A n \in DOMAIN server : RowsOf(server[n]) \in SUBSET RowsOf(server'[n])
         /\ \A n \in DOMAIN server : RowsOf(server'[n]) \in SUBSET (RowsOf(server[n]) \cup {Target})
<1>1. Week(server[saved])
  BY ServerStored DEF Shaped
<1>2. /\ RowsOf(server[saved]) \in SUBSET RowsOf(server'[saved])
      /\ RowsOf(server'[saved]) \in SUBSET (RowsOf(server[saved]) \cup {Target})
  BY <1>1, RowsGrow, ServerStored
<1> QED
  BY <1>2, ServerStored

\* Every step, by what it does to the form, the run and the assignments.
LEMMA StepKinds ==
  ASSUME [Next]_vars
  PROVE  /\ mode' = mode
         /\ \/ Edit
            \/ (\E publish \in BOOLEAN : Save(publish))
            \/ Retry
            \/ UNCHANGED draft /\ Saved /\ (SaveAnswered \/ SaveAnswerLost)
            \/ UNCHANGED draft /\ Stored /\ (UploadAnswered \/ UploadAnswerLost)
            \/ UNCHANGED draft /\ Published /\ (PublishAnswered \/ PublishAnswerLost)
            \/ UNCHANGED <<draft, server>> /\ (SaveFails \/ Unmatched \/ UploadFails \/ PublishFails)
            \/ UNCHANGED <<draft, server>> /\ (UploadStarted \/ Uploaded)
            \/ UNCHANGED <<draft, server, run, history, saved, uploaded>> /\ (bar' = bar \/ bar' = "idle")
<1> USE DEF form
<1>1. CASE UNCHANGED vars
  BY <1>1 DEF vars
<1>2. CASE Edit
  BY <1>2 DEF Edit
<1>3. CASE Leave \/ Dismiss \/ SaveRefusedByPage
  BY <1>3 DEF Leave, Dismiss, SaveRefusedByPage
<1>4. CASE \E publish \in BOOLEAN : Save(publish)
  BY <1>4 DEF Save
<1>5. CASE Retry
  BY <1>5 DEF Retry
<1>6. CASE SaveAnswered \/ SaveAnswerLost
  BY <1>6 DEF SaveAnswered, SaveAnswerLost
<1>7. CASE UploadAnswered \/ UploadAnswerLost
  BY <1>7 DEF UploadAnswered, UploadAnswerLost
<1>8. CASE PublishAnswered \/ PublishAnswerLost
  BY <1>8 DEF PublishAnswered, PublishAnswerLost
<1>9. CASE SaveFails \/ Unmatched \/ UploadFails \/ PublishFails
  BY <1>9 DEF SaveFails, Unmatched, UploadFails, PublishFails
<1>10. CASE UploadStarted \/ Uploaded
  BY <1>10 DEF UploadStarted, Uploaded
<1> QED
  BY <1>1, <1>2, <1>3, <1>4, <1>5, <1>6, <1>7, <1>8, <1>9, <1>10 DEF Next, RunStep

\* Every step keeps the assignments shaped as weeks.
LEMMA ShapedStep ==
  ASSUME Typed0, Shaped, [Next]_vars
  PROVE  Shaped'
<1>1. CASE UNCHANGED server
  BY <1>1 DEF Shaped
<1>2. CASE Saved
  <2>1. Week(Rows(Request(run.draft), OldRows))
    BY <1>2, ServerSaved, SavedWeek
  <2> QED
    BY <1>2, <2>1, ServerSaved DEF Shaped
<1>3. CASE Stored
  <2>1. saved \in DOMAIN server /\ Week(server[saved])
    BY <1>3, ServerStored DEF Shaped
  <2>2. Week(RowAdded(server[saved], run.at[1], run.at[2], Target))
    BY <2>1, WithRow
  <2>3. Week(server'[saved])
    BY <1>3, <2>2, ServerStored
  <2> QED
    BY <1>3, <2>3, ServerStored DEF Shaped
<1>4. CASE Published
  BY <1>4, ServerPublished DEF Shaped
<1>5. CASE Edit \/ Retry \/ \E publish \in BOOLEAN : Save(publish)
  BY <1>1, <1>5 DEF Edit, Retry, Save
<1> QED
  BY <1>1, <1>2, <1>3, <1>4, <1>5, StepKinds

-----------------------------------------------------------------------------
(***************************************************************************)
(* Retained uploads: while an update of the form is under way, whatever    *)
(* upload the form still shows as current is among those it sends.         *)
(***************************************************************************)
HasExisting(d, id) == \E r \in ResourcesOf(d) : r.existing /\ r.id = id

HasRow(a, id) == \E o \in RowsOf(a) : o.id = id

Current ==
  /\ Shaped
  /\ mode # "edit" => NoneExisting(draft)
  /\ mode = "edit" => \A id : HasExisting(draft, id) => HasRow(server[1], id)
  /\ run.phase = "saving" => \A id : HasExisting(draft, id) => HasExisting(run.draft, id)

LEMMA InitCurrent == ASSUME Init PROVE Current
<1>1. run.phase = "idle"
  BY RunStarts DEF Init
<1>2. CASE mode # "edit"
  <2>1. NoneExisting(draft) /\ server = <<>>
    BY <1>2, FirstFormTyped
  <2> QED
    BY <1>1, <1>2, <2>1 DEF Current, Shaped
<1>3. CASE mode = "edit"
  <2>1. PICK a \in Sources :
          /\ server = <<a>>
          /\ \A r \in ResourcesOf(draft) :
               \E o \in RowsOf(a) : o.id = r.id /\ o.kind = r.kind /\ (r.existing <=> o.kind = "upload")
    BY <1>3, FirstFormTyped
  <2>2. DOMAIN server = {1} /\ server[1] = a
    BY <2>1
  <2>3. Week(a)
    BY StoredWeekShaped
  <2>4. \A id : HasExisting(draft, id) => HasRow(server[1], id)
    BY <2>1, <2>2 DEF HasExisting, HasRow
  <2> QED
    BY <1>1, <1>3, <2>2, <2>3, <2>4 DEF Current, Shaped
<1> QED
  BY <1>2, <1>3

\* An edit never makes a resource a stored one.
LEMMA ExistingBefore ==
  ASSUME Typed0, Edit, NEW id, HasExisting(draft', id)
  PROVE  HasExisting(draft, id)
<1>1. draft' \in DraftEdits(draft, FirstFreshId + edits) /\ FirstFreshId + edits \in Nat
  BY DEF Edit, Typed0, StatusTyped, FirstFreshId
<1>2. \A r \in ResourcesOf(draft') :
        (r.id = FirstFreshId + edits /\ ~ r.existing) \/ \E o \in ResourcesOf(draft) : Derived(r, o)
  BY <1>1, DraftEdited DEF Typed0, FormOf
<1> QED
  BY <1>2 DEF HasExisting, Derived

\* A save keeps a row for each upload the form shows as stored.
LEMMA RetainedRow ==
  ASSUME NEW d \in Drafts, NEW id, HasExisting(d, id), NEW old
  PROVE  HasRow(Rows(Request(d), old), id)
<1>1. PICK j, p : /\ j \in DOMAIN d.items /\ p \in DOMAIN d.items[j].resources
                  /\ d.items[j].resources[p].existing /\ d.items[j].resources[p].id = id
  BY ListedResource DEF HasExisting
<1>2. RowAt(d.items[j], p, old) \in RowsOf(Rows(Request(d), old))
  BY <1>1, SavedRows DEF Sendable
<1>3. RowAt(d.items[j], p, old).id = id
  BY <1>1 DEF RowAt
<1> QED
  BY <1>2, <1>3 DEF HasRow

\* Every step keeps what the forms show as current stored.
LEMMA CurrentStep == ASSUME Typed0, Current, [Next]_vars PROVE Current'
<1>0. /\ Shaped /\ Shaped' /\ Typed0' /\ mode' = mode
      /\ mode # "edit" => NoneExisting(draft)
      /\ mode = "edit" => 1 \in DOMAIN server /\ \A id : HasExisting(draft, id) => HasRow(server[1], id)
      /\ run.phase = "saving" => \A id : HasExisting(draft, id) => HasExisting(run.draft, id)
  BY ShapedStep, StepKinds, TypedStep, ServerListed DEF Current
<1>1. ASSUME UNCHANGED <<draft, server>>, run'.phase # "saving" PROVE Current'
  BY <1>0, <1>1 DEF Current
<1>2. CASE Edit
  <2>1. UNCHANGED <<mode, run, server>>
    BY <1>2 DEF Edit
  <2>2. \A id : HasExisting(draft', id) => HasExisting(draft, id)
    BY <1>2, ExistingBefore
  <2>3. mode # "edit" => NoneExisting(draft')
    BY <1>0, <2>2 DEF NoneExisting, HasExisting
  <2> QED
    BY <1>0, <2>1, <2>2, <2>3 DEF Current
<1>3. CASE \E publish \in BOOLEAN : Save(publish)
  <2>1. run' = Started("saving") /\ UNCHANGED <<draft, server>>
    BY <1>3 DEF Save, form
  <2>2. run'.draft = draft'
    BY <2>1, StartedRun, RunParts
  <2> QED
    BY <1>0, <2>1, <2>2 DEF Current
<1>4. CASE Retry
  <2>1. run' = Started("uploading") /\ UNCHANGED <<draft, server>>
    BY <1>4 DEF Retry, form
  <2> QED
    BY <1>1, <2>1, RunStarts
<1>5. CASE UNCHANGED draft /\ Saved /\ (SaveAnswered \/ SaveAnswerLost)
  <2>1. run'.phase # "saving"
    <3>1. CASE SaveAnswered
      BY <1>5, <3>1, ServerSaved, PhaseMoves DEF SaveAnswered, Typed0, form, Phases
    <3>2. CASE SaveAnswerLost
      BY <3>2, RunStarts DEF SaveAnswerLost, Fails
    <3> QED
      BY <1>5, <3>1, <3>2
  <2>2. ASSUME mode = "edit", NEW id, HasExisting(draft', id) PROVE HasRow(server'[1], id)
    <3>1. HasExisting(run.draft, id) /\ run.draft \in Drafts
      BY <1>0, <1>5, <2>2, ServerSaved
    <3>2. server'[1] = Rows(Request(run.draft), OldRows)
      BY <1>5, <2>2, ServerSaved
    <3> QED
      BY <3>1, <3>2, RetainedRow
  <2> QED
    BY <1>0, <1>5, <2>1, <2>2 DEF Current
<1>6. CASE UNCHANGED draft /\ Stored /\ (UploadAnswered \/ UploadAnswerLost)
  <2>1. run'.phase # "saving"
    <3>1. CASE UploadAnswered
      BY <1>6, <3>1, ServerStored, PlaceMoves DEF UploadAnswered, Typed0, form, Phases
    <3>2. CASE UploadAnswerLost
      BY <3>2, RunStarts DEF UploadAnswerLost, Fails
    <3> QED
      BY <1>6, <3>1, <3>2
  <2>2. ASSUME mode = "edit", NEW id, HasRow(server[1], id) PROVE HasRow(server'[1], id)
    BY <1>0, <1>6, <2>2, RowsStored DEF HasRow
  <2> QED
    BY <1>0, <1>6, <2>1, <2>2 DEF Current
<1>7. CASE UNCHANGED draft /\ Published /\ (PublishAnswered \/ PublishAnswerLost)
  <2>1. run'.phase # "saving"
    <3>1. CASE PublishAnswered
      BY <1>7, <3>1, ServerPublished, <1>0, PhaseMoves DEF PublishAnswered, Finish, Typed0, form, Phases
    <3>2. CASE PublishAnswerLost
      BY <3>2, RunStarts DEF PublishAnswerLost, Fails
    <3> QED
      BY <1>7, <3>1, <3>2
  <2>2. ASSUME mode = "edit", NEW id, HasRow(server[1], id) PROVE HasRow(server'[1], id)
    <3>1. server'[1].sections = server[1].sections
      BY <1>0, <1>7, <2>2, ServerPublished
    <3>2. RowsOf(server'[1]) = RowsOf(server[1])
      BY <3>1 DEF RowsOf
    <3> QED
      BY <2>2, <3>2 DEF HasRow
  <2> QED
    BY <1>0, <1>7, <2>1, <2>2 DEF Current
<1>8. CASE UNCHANGED <<draft, server>> /\ (SaveFails \/ Unmatched \/ UploadFails \/ PublishFails)
  <2>1. run' = Idle
    BY <1>8 DEF SaveFails, Unmatched, UploadFails, PublishFails, Fails
  <2> QED
    BY <1>1, <1>8, <2>1, RunStarts
<1>9. CASE UNCHANGED <<draft, server>> /\ (UploadStarted \/ Uploaded)
  <2>1. run.phase = "uploading" /\ run # Idle /\ edits' = edits /\ RunTyped
    BY <1>9, RunPhases DEF UploadStarted, Uploaded, UploadsComplete, Typed0, Idle, form
  <2>2. CASE UploadStarted
    <3>1. \E at : run' = [run EXCEPT !.at = at]
      BY <2>2 DEF UploadStarted
    <3> QED
      BY <1>1, <1>9, <2>1, <3>1, PlaceMoves
  <2>3. CASE Uploaded
    <3>1. \E phase \in {"publishing", "done"} : run' = [run EXCEPT !.phase = phase]
      BY <2>3 DEF Uploaded, Finish
    <3> QED
      BY <1>1, <1>9, <2>1, <3>1, PhaseMoves DEF Phases
  <2> QED
    BY <1>9, <2>2, <2>3
<1>10. CASE UNCHANGED <<draft, server, run>>
  BY <1>0, <1>10 DEF Current
<1> QED
  BY <1>2, <1>3, <1>4, <1>5, <1>6, <1>7, <1>8, <1>9, <1>10, StepKinds

LEMMA CurrentKept == ASSUME Typed0, Current PROVE CurrentFilesExist
<1>1. mode = "edit" => 1 \in DOMAIN server
  BY ServerListed
<1> QED
  BY <1>1 DEF Current, CurrentFilesExist, HasExisting, HasRow, NoneExisting

-----------------------------------------------------------------------------
(***************************************************************************)
(* What a save or a retry is sending.                                      *)
(***************************************************************************)
Entry(items, s, k) == items[EntryAt(items, s, k)]

AtUnsent ==
  LET items == run.draft.items IN
  /\ run.at[1] \in 1 .. GroupCount(items)
  /\ run.at[2] \in 1 .. GroupSize(items, run.at[1])
  /\ run.at[3] \in Unsent(Entry(items, run.at[1], run.at[2]))

AllSent ==
  LET items == run.draft.items IN
  \A s \in 1 .. GroupCount(items) : \A k \in 1 .. GroupSize(items, s) : Unsent(Entry(items, s, k)) = {}

Sending ==
  /\ saved = 0 => uploaded = {} /\ history.uploads = {}
  /\ run.phase = "saving" => ValidDraft(run.draft)
  /\ run.phase \in {"uploading", "publishing", "done"} => saved # 0 /\ run.draft = history.sent
  /\ bar = "uploading" => AtUnsent
  /\ run.phase \in {"publishing", "done"} => AllSent

\* The groups of a run, entry by entry.
LEMMA RunGroups ==
  ASSUME Typed0, run # Idle
  PROVE  /\ run.draft \in Drafts /\ run.draft.items \in Seq(Items)
         /\ DOMAIN run.groups = 1 .. GroupCount(run.draft.items)
         /\ \A s \in 1 .. GroupCount(run.draft.items) :
              /\ DOMAIN run.groups[s].items = 1 .. GroupSize(run.draft.items, s)
              /\ run.groups[s].area = AreaAt(run.draft.items, s)
              /\ \A k \in 1 .. GroupSize(run.draft.items, s) :
                   /\ run.groups[s].items[k] = Entry(run.draft.items, s, k)
                   /\ EntryAt(run.draft.items, s, k) \in DOMAIN run.draft.items
                   /\ Entry(run.draft.items, s, k) \in Items
<1> DEFINE items == run.draft.items
           n == GroupCount(items)
           size(s) == GroupSize(items, s)
<1>1. run.draft \in Drafts /\ run.groups = Grouped(items)
  BY RunParts DEF Typed0, RunTyped, FormOf
<1>2. items \in Seq(Items)
  BY <1>1, DraftParts
<1> DEFINE list(s) == [k \in 1 .. size(s) |-> Entry(items, s, k)]
           part(s) == [area |-> AreaAt(items, s), items |-> list(s)]
<1>3. run.groups = [s \in 1 .. n |-> part(s)]
  BY <1>1, <1>2, GroupedByEntry DEF Entry
<1>4. \A s \in 1 .. n : \A k \in 1 .. size(s) : EntryAt(items, s, k) \in DOMAIN items
  BY <1>2, EntriesGrouped
<1> HIDE DEF items, n, size
<1>5. \A s \in 1 .. n : \A k \in 1 .. size(s) : Entry(items, s, k) \in Items
  BY <1>2, <1>4 DEF Entry
<1>6. /\ DOMAIN run.groups = 1 .. n
      /\ \A s \in 1 .. n :
           /\ DOMAIN run.groups[s].items = 1 .. size(s)
           /\ run.groups[s].area = AreaAt(items, s)
           /\ \A k \in 1 .. size(s) : run.groups[s].items[k] = Entry(items, s, k)
  <2>1. \A s : part(s).area = AreaAt(items, s) /\ part(s).items = list(s)
    OBVIOUS
  <2>2. \A s : DOMAIN list(s) = 1 .. size(s) /\ \A k \in 1 .. size(s) : list(s)[k] = Entry(items, s, k)
    OBVIOUS
  <2> HIDE DEF part, list
  <2>3. DOMAIN run.groups = 1 .. n /\ \A s \in 1 .. n : run.groups[s] = part(s)
    BY <1>3
  <2> QED
    BY <2>1, <2>2, <2>3
<1> QED
  BY <1>1, <1>2, <1>4, <1>5, <1>6 DEF items, n, size

\* The loop stops where an item has no counterpart or a file is unsent.
LEMMA StopListed ==
  ASSUME NEW x
  PROVE  x \in Stops <=>
           \E s \in DOMAIN run.groups : \E k \in DOMAIN run.groups[s].items :
             x = <<s, k>> /\ (~ Matched(s, k) \/ Unsent(run.groups[s].items[k]) # {})
  BY DEF Stops

\* The loop takes the first place with something to do: before it all is sent.
LEMMA FirstStop ==
  ASSUME Typed0, run # Idle, NEW x, x = FirstOf(Stops), Stops # {}
  PROVE  /\ x \in Stops /\ x = <<x[1], x[2]>>
         /\ x[1] \in 1 .. GroupCount(run.draft.items)
         /\ x[2] \in 1 .. GroupSize(run.draft.items, x[1])
<1> DEFINE stops == Stops
           Firsts == {y[1] : y \in stops}
<1>1. ASSUME NEW y \in stops
      PROVE  /\ y = <<y[1], y[2]>> /\ y[1] \in 1 .. GroupCount(run.draft.items)
             /\ y[2] \in 1 .. GroupSize(run.draft.items, y[1])
             /\ y[1] \in Nat /\ y[2] \in Nat
  <2>1. PICK s, k : s \in DOMAIN run.groups /\ k \in DOMAIN run.groups[s].items /\ y = <<s, k>>
    BY StopListed
  <2>2. y[1] = s /\ y[2] = k /\ y = <<y[1], y[2]>>
    BY <2>1
  <2>3. s \in 1 .. GroupCount(run.draft.items) /\ k \in 1 .. GroupSize(run.draft.items, s)
    BY <2>1, RunGroups
  <2> QED
    BY <2>2, <2>3
<1> HIDE DEF stops
<1>2. Firsts \in SUBSET Nat /\ Firsts # {}
  BY <1>1 DEF stops
<1>3. PICK m \in Firsts : \A j \in Firsts : m <= j
  BY <1>2, LeastNumber
<1> DEFINE Seconds == {y[2] : y \in {z \in stops : z[1] = m}}
<1>4. Seconds \in SUBSET Nat /\ Seconds # {}
  BY <1>1, <1>3
<1>5. PICK l \in Seconds : \A j \in Seconds : l <= j
  BY <1>4, LeastNumber
<1>6. PICK z \in stops : z[1] = m /\ z[2] = l
  BY <1>5
<1>7. ASSUME NEW y \in stops PROVE Before(z, y)
  <2>1. y[1] \in Firsts /\ (y[1] = m => y[2] \in Seconds)
    OBVIOUS
  <2>2. m <= y[1] /\ (y[1] = m => l <= y[2])
    BY <1>3, <1>5, <2>1
  <2>3. m \in Nat /\ y[1] \in Nat
    BY <1>1, <1>2
  <2> HIDE DEF Seconds, Firsts
  <2> QED
    BY <1>6, <2>2, <2>3 DEF Before
<1>8. \E y \in stops : \A w \in stops : Before(y, w)
  BY <1>7
<1>9. x \in stops
  BY <1>8 DEF FirstOf, stops
<1> QED
  BY <1>1, <1>9 DEF stops

LEMMA FirstUnsentIsUnsent ==
  ASSUME NEW i \in Items, Unsent(i) # {}
  PROVE  FirstUnsent(i) \in Unsent(i)
<1>1. i.resources \in Seq(Resources)
  BY ItemParts
<1>2. Unsent(i) \in SUBSET Nat
  BY <1>1 DEF Unsent
<1>3. \E p \in Unsent(i) : \A q \in Unsent(i) : p <= q
  BY <1>2, LeastNumber
<1> QED
  BY <1>3 DEF FirstUnsent

\* What is sent: a new file of the form, at its place.
LEMMA TargetSent ==
  ASSUME Typed0, Sending, bar = "uploading"
  PROVE  /\ run # Idle /\ run.phase = "uploading" /\ saved # 0 /\ run.draft = history.sent
         /\ EntryAt(run.draft.items, run.at[1], run.at[2]) \in DOMAIN run.draft.items
         /\ LET i == Entry(run.draft.items, run.at[1], run.at[2])
                r == i.resources[run.at[3]]
            IN /\ run.at[3] \in DOMAIN i.resources /\ r \in ResourcesOf(run.draft) /\ r \in Resources
               /\ r.kind = "upload" /\ ~ r.existing /\ r.file # NoFile /\ r.id \notin uploaded
               /\ Target = [position |-> run.at[3], id |-> r.id, kind |-> "upload", name |-> r.name,
                            holds |-> r.file]
<1> DEFINE items == run.draft.items
           i == Entry(items, run.at[1], run.at[2])
           r == i.resources[run.at[3]]
<1>1. run.phase = "uploading" /\ run # Idle /\ saved # 0 /\ run.draft = history.sent
  BY RunPhases DEF Typed0, StatusTyped, Sending, Idle
<1>2. /\ run.at[1] \in 1 .. GroupCount(items) /\ run.at[2] \in 1 .. GroupSize(items, run.at[1])
      /\ run.at[3] \in Unsent(i)
  BY DEF Sending, AtUnsent
<1>3. run.groups[run.at[1]].items[run.at[2]] = i /\ i \in Items /\ EntryAt(items, run.at[1], run.at[2]) \in DOMAIN items
      /\ run.draft \in Drafts
  BY <1>1, <1>2, RunGroups
<1>4. run.at[3] \in DOMAIN i.resources /\ r.kind = "upload" /\ r.file # NoFile /\ r.id \notin uploaded
  BY <1>2 DEF Unsent
<1>5. r \in ResourcesOf(run.draft)
  BY <1>3, <1>4, ListedResource DEF Entry
<1>6. r \in Resources /\ ~ r.existing
  BY <1>3, <1>4, <1>5, ResourceOfDraft, ResourceParts
<1>7. Target = [position |-> run.at[3], id |-> r.id, kind |-> "upload", name |-> r.name, holds |-> r.file]
  BY <1>3 DEF Target
<1> QED
  BY <1>1, <1>3, <1>4, <1>5, <1>6, <1>7

LEMMA PlaceAppended ==
  ASSUME NEW x, x = <<x[1], x[2]>>, NEW last
  PROVE  Append(x, last)[1] = x[1] /\ Append(x, last)[2] = x[2] /\ Append(x, last)[3] = last
<1> DEFINE S == {x[1], x[2], last}
           y == Append(x, last)
<1>1. <<x[1], x[2]>> \in Seq(S) /\ Len(<<x[1], x[2]>>) = 2
  OBVIOUS
<1>2. x \in Seq(S) /\ Len(x) = 2 /\ last \in S
  BY <1>1
<1> HIDE DEF S
<1>3. (\A k \in 1 .. Len(x) : y[k] = x[k]) /\ y[Len(x) + 1] = last
  BY <1>2, AppendProperties
<1> HIDE DEF y
<1>4. y[1] = x[1] /\ y[2] = x[2] /\ y[3] = last
  <2>1. 1 \in 1 .. Len(x) /\ 2 \in 1 .. Len(x) /\ Len(x) + 1 = 3
    BY <1>2
  <2> QED
    BY <1>3, <2>1
<1> QED
  BY <1>4 DEF y

LEMMA InitSending == ASSUME Init PROVE Sending
<1>1. run.phase = "idle" /\ bar = "idle" /\ uploaded = {} /\ history.uploads = {}
  BY RunStarts DEF Init
<1> QED
  BY <1>1 DEF Sending

\* Every step keeps the account of what is sent.
LEMMA SendingStep == ASSUME Typed0, Sending, [Next]_vars PROVE Sending'
<1>0. /\ Typed0' /\ RunTyped /\ HistoryTyped
      /\ saved = 0 => uploaded = {} /\ history.uploads = {}
      /\ run.phase = "saving" => ValidDraft(run.draft)
      /\ run.phase \in {"uploading", "publishing", "done"} => saved # 0 /\ run.draft = history.sent
      /\ bar = "uploading" => AtUnsent
      /\ run.phase \in {"publishing", "done"} => AllSent
      /\ bar = "uploading" => run.phase = "uploading"
  BY TypedStep DEF Typed0, Sending, StatusTyped
<1>1. ASSUME UNCHANGED <<run, history, saved, uploaded>>, bar' = bar \/ bar' = "idle" PROVE Sending'
  BY <1>0, <1>1 DEF Sending, AtUnsent, AllSent, Unsent
<1>2. ASSUME Fails, saved' = 0 => uploaded' = {} /\ history'.uploads = {} PROVE Sending'
  <2>1. run'.phase = "idle" /\ bar' # "uploading"
    BY <1>0, <1>2, RunStarts DEF Fails, Bars, Typed0, StatusTyped
  <2> QED
    BY <1>2, <2>1 DEF Sending
<1>3. CASE Edit
  BY <1>1, <1>3 DEF Edit
<1>4. CASE \E publish \in BOOLEAN : Save(publish)
  <2>1. /\ run' = Started("saving") /\ run = Idle /\ ValidDraft(draft)
        /\ UNCHANGED <<saved, uploaded, bar, history>>
    BY <1>4 DEF Save, SaveOffered, form
  <2>2. run'.phase = "saving" /\ run'.draft = draft
    BY <2>1, StartedRun, RunParts
  <2>3. bar # "uploading"
    BY <1>0, <2>1, RunPhases
  <2> QED
    BY <1>0, <2>1, <2>2, <2>3 DEF Sending
<1>5. CASE Retry
  <2>1. /\ run' = Started("uploading") /\ run = Idle /\ saved # 0
        /\ \E w : history' = [history EXCEPT !.sent = draft, !.drifted = w]
        /\ UNCHANGED <<saved, uploaded, bar>>
    BY <1>5 DEF Retry, RetryOffered, form
  <2>2. run'.phase = "uploading" /\ run'.draft = draft
    BY <2>1, StartedRun, RunParts
  <2>3. bar # "uploading" /\ history'.sent = draft
    BY <1>0, <2>1, RunPhases, HistoryGoesOn DEF HistoryTyped
  <2> QED
    BY <1>0, <2>1, <2>2, <2>3 DEF Sending
<1>6. CASE Saved /\ (SaveAnswered \/ SaveAnswerLost)
  <2>0. run.phase = "saving" /\ run # Idle /\ saved = 0 /\ Len(server') \in Nat \ {0} /\ bar # "uploading"
    BY <1>0, <1>6, ServerSaved, ServerListed
  <2>1. CASE SaveAnswered
    <3>1. /\ run' = [run EXCEPT !.phase = "uploading"] /\ saved' = Len(server')
          /\ history' = [history EXCEPT !.sent = run.draft]
          /\ UNCHANGED <<bar, uploaded>> /\ edits' = edits
      BY <2>1 DEF SaveAnswered, form
    <3>2. run'.phase = "uploading" /\ run'.draft = run.draft
      BY <1>0, <2>0, <3>1, PhaseMoves DEF Phases
    <3>3. history'.sent = run.draft
      BY <1>0, <3>1, HistoryGoesOn DEF HistoryTyped
    <3> QED
      BY <2>0, <3>1, <3>2, <3>3 DEF Sending
  <2>2. CASE SaveAnswerLost
    <3>1. Fails /\ UNCHANGED <<saved, uploaded>> /\ \E v : history' = [history EXCEPT !.creates = v]
      BY <2>2 DEF SaveAnswerLost
    <3>2. history'.uploads = history.uploads
      BY <1>0, <3>1, HistoryGoesOn DEF HistoryTyped
    <3> QED
      BY <1>0, <1>2, <3>1, <3>2
  <2> QED
    BY <1>6, <2>1, <2>2
<1>7. CASE Stored /\ (UploadAnswered \/ UploadAnswerLost)
  <2>0. run.phase = "uploading" /\ run # Idle /\ saved # 0 /\ run.draft = history.sent
    BY <1>0, <1>7, ServerStored
  <2>1. CASE UploadAnswered
    <3>1. /\ run' = [run EXCEPT !.at = <<>>] /\ bar' = "succeeded" /\ UNCHANGED <<saved, history>>
          /\ edits' = edits
      BY <2>1 DEF UploadAnswered, form
    <3>2. run'.phase = "uploading" /\ run'.draft = run.draft
      BY <1>0, <2>0, <3>1, PlaceMoves
    <3> QED
      BY <2>0, <3>1, <3>2 DEF Sending
  <2>2. CASE UploadAnswerLost
    BY <1>2, <2>0, <2>2 DEF UploadAnswerLost
  <2> QED
    BY <1>7, <2>1, <2>2
<1>8. CASE Published /\ (PublishAnswered \/ PublishAnswerLost)
  <2>0. run.phase = "publishing" /\ run # Idle
    BY <1>8, RunPhases, RunStarts DEF Published, Idle
  <2>1. CASE PublishAnswered
    <3>1. /\ run' = [run EXCEPT !.phase = "done"] /\ bar' = "idle" /\ UNCHANGED <<saved, history, uploaded>>
          /\ edits' = edits
      BY <2>1 DEF PublishAnswered, Finish, form
    <3>2. run'.phase = "done" /\ run'.draft = run.draft
      BY <1>0, <2>0, <3>1, PhaseMoves DEF Phases
    <3> QED
      BY <1>0, <2>0, <3>1, <3>2 DEF Sending, AllSent, Unsent
  <2>2. CASE PublishAnswerLost
    BY <1>0, <1>2, <2>2 DEF PublishAnswerLost
  <2> QED
    BY <1>8, <2>1, <2>2
<1>9. CASE SaveFails \/ Unmatched \/ UploadFails \/ PublishFails
  <2>1. Fails /\ UNCHANGED <<saved, uploaded, history>>
    BY <1>9 DEF SaveFails, Unmatched, UploadFails, PublishFails
  <2> QED
    BY <1>0, <1>2, <2>1
<1>10. CASE UploadStarted
  <2>1. PICK x : /\ x = FirstOf(Stops) /\ Stops # {} /\ Matched(x[1], x[2])
                 /\ run' = [run EXCEPT !.at = Append(x, FirstUnsent(run.groups[x[1]].items[x[2]]))]
    BY <1>10 DEF UploadStarted
  <2>2. run.phase = "uploading" /\ run # Idle /\ UNCHANGED <<saved, uploaded, history>> /\ edits' = edits
    BY <1>0, <1>10, RunPhases DEF UploadStarted, form, Idle
  <2> DEFINE i == Entry(run.draft.items, x[1], x[2])
  <2>3. /\ x \in Stops /\ x = <<x[1], x[2]>>
        /\ x[1] \in 1 .. GroupCount(run.draft.items) /\ x[2] \in 1 .. GroupSize(run.draft.items, x[1])
    BY <2>1, <2>2, FirstStop
  <2>4. run.groups[x[1]].items[x[2]] = i /\ i \in Items
    BY <2>2, <2>3, RunGroups
  <2>5. Unsent(i) # {}
    <3>1. PICK s, k : x = <<s, k>> /\ (~ Matched(s, k) \/ Unsent(run.groups[s].items[k]) # {})
      BY <2>3, StopListed
    <3>2. s = x[1] /\ k = x[2]
      BY <3>1
    <3> QED
      BY <2>1, <2>4, <3>1, <3>2
  <2>6. FirstUnsent(i) \in Unsent(i)
    BY <2>4, <2>5, FirstUnsentIsUnsent
  <2> DEFINE at == Append(x, FirstUnsent(i))
  <2>7. at[1] = x[1] /\ at[2] = x[2] /\ at[3] = FirstUnsent(i)
    BY <2>3, PlaceAppended
  <2>8. run' = [run EXCEPT !.at = at]
    BY <2>1, <2>4
  <2> HIDE DEF at
  <2>9. run'.phase = "uploading" /\ run'.draft = run.draft /\ run'.at = at
    BY <1>0, <2>2, <2>8, PlaceMoves
  <2>10. AtUnsent'
    BY <2>2, <2>3, <2>6, <2>7, <2>9 DEF AtUnsent, Unsent
  <2> QED
    BY <1>0, <2>2, <2>9, <2>10 DEF Sending
<1>11. CASE Uploaded
  <2>1. /\ run.phase = "uploading" /\ bar # "uploading" /\ Stops = {} /\ bar' \in {bar, "idle"}
        /\ \E phase \in {"publishing", "done"} : run' = [run EXCEPT !.phase = phase]
        /\ UNCHANGED <<saved, uploaded, history>> /\ edits' = edits
    BY <1>11 DEF Uploaded, UploadsComplete, Finish, form
  <2>2. run # Idle
    BY <1>0, <2>1, RunPhases, RunStarts
  <2>3. run'.phase \in {"publishing", "done"} /\ run'.draft = run.draft
    BY <1>0, <2>1, <2>2, PhaseMoves DEF Phases
  <2>4. AllSent
    <3> SUFFICES ASSUME NEW s \in 1 .. GroupCount(run.draft.items), NEW k \in 1 .. GroupSize(run.draft.items, s)
                 PROVE  Unsent(Entry(run.draft.items, s, k)) = {}
      BY DEF AllSent
    <3>1. /\ s \in DOMAIN run.groups /\ k \in DOMAIN run.groups[s].items
          /\ run.groups[s].items[k] = Entry(run.draft.items, s, k)
      BY <2>2, RunGroups
    <3>2. <<s, k>> \notin Stops
      BY <2>1
    <3> QED
      BY <3>1, <3>2, StopListed
  <2>5. AllSent'
    BY <2>1, <2>3, <2>4 DEF AllSent, Unsent
  <2> QED
    BY <1>0, <2>1, <2>3, <2>5 DEF Sending
<1> QED
  BY <1>1, <1>3, <1>4, <1>5, <1>6, <1>7, <1>8, <1>9, <1>10, <1>11, StepKinds

-----------------------------------------------------------------------------
(***************************************************************************)
(* An id stands for one resource, in the forms and in the rows.            *)
(***************************************************************************)
LEMMA IdOfOneResource ==
  ASSUME NEW d, IdsDistinct(d), NEW r \in ResourcesOf(d), NEW o \in ResourcesOf(d), r.id = o.id
  PROVE  r = o
<1>1. PICK j, p : j \in DOMAIN d.items /\ p \in DOMAIN d.items[j].resources /\ r = d.items[j].resources[p]
  BY ListedResource
<1>2. PICK k, q : k \in DOMAIN d.items /\ q \in DOMAIN d.items[k].resources /\ o = d.items[k].resources[q]
  BY ListedResource
<1>3. j = k /\ p = q
  BY <1>1, <1>2 DEF IdsDistinct
<1> QED
  BY <1>1, <1>2, <1>3

\* What a step may do to the run, and that nothing sent is forgotten.
LEMMA RunForms ==
  ASSUME Typed0, [Next]_vars
  PROVE  \/ run' = Idle
         \/ run # Idle /\ run' # Idle /\ run'.draft = run.draft
         \/ (Retry \/ \E publish \in BOOLEAN : Save(publish)) /\ run'.draft = draft
<1>0. RunTyped /\ "uploading" \in Phases /\ "publishing" \in Phases /\ "done" \in Phases
      /\ Idle.phase = "idle"
  BY RunStarts DEF Typed0, Phases
<1>1. ASSUME run.phase # "idle", edits' = edits,
             (\E phase \in Phases : run' = [run EXCEPT !.phase = phase]) \/ (\E at : run' = [run EXCEPT !.at = at])
      PROVE  run # Idle /\ run' # Idle /\ run'.draft = run.draft
  BY <1>0, <1>1, PhaseMoves, PlaceMoves
<1>2. CASE UNCHANGED run
  BY <1>2
<1>3. CASE Retry \/ \E publish \in BOOLEAN : Save(publish)
  <2>1. \E phase : run' = Started(phase)
    BY <1>3 DEF Retry, Save
  <2> QED
    BY <1>3, <2>1, StartedRun, RunParts
<1>4. CASE SaveAnswered
  BY <1>0, <1>1, <1>4 DEF SaveAnswered, Saved, form
<1>5. CASE UploadStarted
  BY <1>1, <1>5 DEF UploadStarted, form
<1>6. CASE UploadAnswered
  BY <1>1, <1>6 DEF UploadAnswered, Stored, Uploading, form
<1>7. CASE Uploaded
  BY <1>0, <1>1, <1>7 DEF Uploaded, UploadsComplete, Finish, form
<1>8. CASE PublishAnswered
  BY <1>0, <1>1, <1>8 DEF PublishAnswered, Published, Finish, form
<1>9. CASE SaveAnswerLost \/ UploadAnswerLost \/ PublishAnswerLost \/ SaveFails \/ Unmatched \/ UploadFails \/ PublishFails
  BY <1>9 DEF SaveAnswerLost, UploadAnswerLost, PublishAnswerLost, SaveFails, Unmatched, UploadFails, PublishFails, Fails
<1>10. CASE Edit
  BY <1>2, <1>10 DEF Edit
<1> QED
  BY <1>2, <1>3, <1>4, <1>5, <1>6, <1>7, <1>8, <1>9, <1>10, StepKinds

\* The page forgets no answered upload; no lost answer is forgotten either.
LEMMA NothingForgotten ==
  ASSUME Typed0, [Next]_vars
  PROVE  /\ uploaded \in SUBSET uploaded' /\ history.uploads \in SUBSET history'.uploads
         /\ edits' = edits \/ Edit
         /\ UploadAnswered \/ UploadAnswerLost => Target.id \in uploaded' \cup history'.uploads
         /\ saved' = saved \/ SaveAnswered
<1>0. {"sent", "drifted", "creates", "uploads"} \in SUBSET DOMAIN history
  BY DEF Typed0, HistoryTyped
<1>1. CASE UploadAnswered
  BY <1>1 DEF UploadAnswered, form
<1>2. CASE UploadAnswerLost
  <2>1. history' = [history EXCEPT !.uploads = @ \cup {Target.id}] /\ UNCHANGED <<uploaded, saved, edits>>
    BY <1>2 DEF UploadAnswerLost, form
  <2> DEFINE v == history.uploads \cup {Target.id}
  <2>2. history' = [history EXCEPT !.uploads = v]
    BY <2>1
  <2> HIDE DEF v
  <2>3. history'.uploads = v
    BY <1>0, <2>2, HistoryGoesOn
  <2> QED
    BY <1>2, <2>1, <2>3 DEF v
<1>3. SUFFICES ASSUME ~ UploadAnswered, ~ UploadAnswerLost
               PROVE  /\ UNCHANGED uploaded /\ history'.uploads = history.uploads
                      /\ edits' = edits \/ Edit
                      /\ saved' = saved \/ SaveAnswered
  BY <1>1, <1>2
<1>4. CASE Edit \/ \E publish \in BOOLEAN : Save(publish)
  BY <1>4 DEF Edit, Save, form
<1>5. CASE Retry
  <2>1. /\ \E w : history' = [history EXCEPT !.sent = draft, !.drifted = w]
        /\ UNCHANGED <<uploaded, saved, edits>>
    BY <1>5 DEF Retry, form
  <2> QED
    BY <1>0, <2>1, HistoryGoesOn
<1>6. CASE SaveAnswered
  <2>1. history' = [history EXCEPT !.sent = run.draft] /\ UNCHANGED <<uploaded, edits>>
    BY <1>6 DEF SaveAnswered, form
  <2> QED
    BY <1>0, <1>6, <2>1, HistoryGoesOn
<1>7. CASE SaveAnswerLost
  <2>1. (\E v : history' = [history EXCEPT !.creates = v]) /\ UNCHANGED <<uploaded, saved, edits>>
    BY <1>7 DEF SaveAnswerLost, form
  <2> QED
    BY <1>0, <2>1, HistoryGoesOn
<1>8. CASE PublishAnswered \/ PublishAnswerLost \/ SaveFails \/ Unmatched \/ UploadFails \/ PublishFails
           \/ UploadStarted \/ Uploaded \/ Leave \/ Dismiss \/ SaveRefusedByPage
  BY <1>8 DEF PublishAnswered, PublishAnswerLost, SaveFails, Unmatched, UploadFails, PublishFails,
              UploadStarted, Uploaded, Leave, Dismiss, SaveRefusedByPage, form
<1>9. CASE UNCHANGED vars
  BY <1>9 DEF vars
<1> QED
  BY <1>3, <1>4, <1>5, <1>6, <1>7, <1>8, <1>9 DEF Next, RunStep

\* Where the rows of a step come from.
LEMMA NewRows ==
  ASSUME Typed0, Shaped, [Next]_vars, NEW n \in DOMAIN server', NEW o \in RowsOf(server'[n])
  PROVE  \/ n \in DOMAIN server /\ o \in RowsOf(server[n])
         \/ /\ Saved /\ (SaveAnswered \/ SaveAnswerLost) /\ run # Idle
            /\ \E r \in ResourcesOf(run.draft) : Sendable(r) /\ o.id = r.id /\ o.kind = r.kind
         \/ Stored /\ (UploadAnswered \/ UploadAnswerLost) /\ o = Target
<1>1. CASE UNCHANGED server
  BY <1>1
<1>2. CASE Saved /\ (SaveAnswered \/ SaveAnswerLost)
  <2>1. CASE n # Len(server')
    BY <1>2, <2>1, ServerSaved
  <2>2. CASE n = Len(server')
    <3>1. o \in RowsOf(Rows(Request(run.draft), OldRows)) /\ run.draft \in Drafts /\ run # Idle
      BY <1>2, <2>2, ServerSaved
    <3>2. PICK j, p : /\ j \in DOMAIN run.draft.items /\ p \in DOMAIN run.draft.items[j].resources
                      /\ Sendable(run.draft.items[j].resources[p]) /\ o = RowAt(run.draft.items[j], p, OldRows)
      BY <3>1, SavedRows
    <3>3. o.id = run.draft.items[j].resources[p].id /\ o.kind = run.draft.items[j].resources[p].kind
      BY <3>2 DEF RowAt
    <3>4. run.draft.items[j].resources[p] \in ResourcesOf(run.draft)
      BY <3>2, ListedResource
    <3> QED
      BY <1>2, <3>1, <3>2, <3>3, <3>4
  <2> QED
    BY <2>1, <2>2
<1>3. CASE Stored /\ (UploadAnswered \/ UploadAnswerLost)
  <2>1. n \in DOMAIN server /\ o \in RowsOf(server[n]) \cup {Target}
    BY <1>3, ServerStored, RowsStored
  <2> QED
    BY <1>3, <2>1
<1>4. CASE Published
  <2>1. n \in DOMAIN server /\ server'[n].sections = server[n].sections
    BY <1>4, ServerPublished
  <2> QED
    BY <2>1 DEF RowsOf
<1>5. CASE Edit \/ Retry \/ \E publish \in BOOLEAN : Save(publish)
  BY <1>1, <1>5 DEF Edit, Retry, Save
<1> QED
  BY <1>1, <1>2, <1>3, <1>4, <1>5, StepKinds

\* A form of the page next to the rows: whatever it shows as stored was an upload before the
\* page, and an id is of the same kind on both sides.
FormKnown(d) ==
  /\ \A r \in ResourcesOf(d) : r.existing => StoredBefore(r.id)
  /\ \A n \in DOMAIN server : \A o \in RowsOf(server[n]) : \A r \in ResourcesOf(d) :
       r.id = o.id => r.kind = o.kind

KindsFit(d, e) == \A r \in ResourcesOf(d) : \A s \in ResourcesOf(e) : r.id = s.id => r.kind = s.kind

RowsKnown ==
  \A n \in DOMAIN server : \A o \in RowsOf(server[n]) :
    /\ o.id \in Nat /\ o.id < FirstFreshId + edits
    /\ o.kind = "upload" => o.id \in uploaded \cup history.uploads \/ StoredBefore(o.id)

Known ==
  /\ Shaped /\ RowsKnown /\ FormKnown(draft)
  /\ run # Idle => FormKnown(run.draft) /\ KindsFit(draft, run.draft)

\* A row stored before the page has an id below those the page makes.
LEMMA SourceRow ==
  ASSUME NEW a \in Sources, NEW o \in RowsOf(a)
  PROVE  /\ o.id \in Nat /\ o.id < FirstFreshId
         /\ o.kind = "upload" => StoredBefore(o.id)
         /\ \A r \in RowsOf(a) : r.id = o.id => r = o
         /\ Original(o.id) = o
<1>1. o \in StoredRows
  BY RowListed, StoredWeekParts
<1>2. \A b \in Sources : \A r \in RowsOf(b) : r.id = o.id => r = o
  <2> SUFFICES ASSUME NEW b \in Sources, NEW r \in RowsOf(b), r.id = o.id PROVE r = o
    OBVIOUS
  <2>1. PICK s, k : s \in DOMAIN a.sections /\ k \in DOMAIN a.sections[s].items /\ o \in a.sections[s].items[k].resources
    BY RowListed
  <2>2. PICK t, l : t \in DOMAIN b.sections /\ l \in DOMAIN b.sections[t].items /\ r \in b.sections[t].items[l].resources
    BY RowListed
  <2> QED
    BY <2>1, <2>2, AuthoringAssumption DEF StoredOnce
<1>3. o \in UNION {RowsOf(b) : b \in Sources} /\ \A r \in UNION {RowsOf(b) : b \in Sources} : r.id = o.id => r = o
  BY <1>2
<1>4. Original(o.id) = o
  BY <1>3 DEF Original
<1> QED
  BY <1>1, <1>2, <1>4, ReopenedTyped DEF StoredBefore

LEMMA InitKnown == ASSUME Init PROVE Known
<1>1. run = Idle /\ edits = 0
  BY DEF Init
<1>2. CASE mode # "edit"
  <2>1. NoneExisting(draft) /\ DOMAIN server = {}
    BY <1>2, FirstFormTyped
  <2> QED
    BY <1>1, <2>1 DEF Known, Shaped, RowsKnown, FormKnown, NoneExisting
<1>3. CASE mode = "edit"
  <2>1. PICK a \in Sources :
          /\ server = <<a>>
          /\ \A r \in ResourcesOf(draft) :
               \E o \in RowsOf(a) : o.id = r.id /\ o.kind = r.kind /\ (r.existing <=> o.kind = "upload")
    BY <1>3, FirstFormTyped
  <2>2. DOMAIN server = {1} /\ server[1] = a
    BY <2>1
  <2>3. Shaped
    BY <2>2, StoredWeekShaped DEF Shaped
  <2>4. RowsKnown
    BY <1>1, <2>2, SourceRow DEF RowsKnown, FirstFreshId
  <2>5. FormKnown(draft)
    <3>1. \A r \in ResourcesOf(draft) : r.existing => StoredBefore(r.id)
      BY <2>1, SourceRow
    <3>2. ASSUME NEW o \in RowsOf(a), NEW r \in ResourcesOf(draft), r.id = o.id PROVE r.kind = o.kind
      <4>1. PICK x \in RowsOf(a) : x.id = r.id /\ x.kind = r.kind
        BY <2>1
      <4>2. x = o
        BY <3>2, <4>1, SourceRow
      <4> QED
        BY <4>1, <4>2
    <3> QED
      BY <2>2, <3>1, <3>2 DEF FormKnown
  <2> QED
    BY <1>1, <2>3, <2>4, <2>5 DEF Known
<1> QED
  BY <1>2, <1>3

\* A form does not come to know less by a step: the rows a step adds are of the run's form.
LEMMA FormKnownStep ==
  ASSUME Typed0, Sending, Known, [Next]_vars, NEW d, FormKnown(d),
         run # Idle => KindsFit(d, run.draft)
  PROVE  /\ \A r \in ResourcesOf(d) : r.existing => StoredBefore(r.id)
         /\ \A n \in DOMAIN server' : \A o \in RowsOf(server'[n]) : \A r \in ResourcesOf(d) :
              r.id = o.id => r.kind = o.kind
<1>1. Shaped
  BY DEF Known
<1>2. ASSUME NEW n \in DOMAIN server', NEW o \in RowsOf(server'[n]), NEW r \in ResourcesOf(d), r.id = o.id
      PROVE  r.kind = o.kind
  <2>1. CASE n \in DOMAIN server /\ o \in RowsOf(server[n])
    BY <1>2, <2>1 DEF FormKnown
  <2>2. CASE run # Idle /\ \E x \in ResourcesOf(run.draft) : Sendable(x) /\ o.id = x.id /\ o.kind = x.kind
    BY <1>2, <2>2 DEF KindsFit
  <2>3. CASE Stored /\ o = Target
    <3>1. bar = "uploading"
      BY <2>3 DEF Stored, Uploading
    <3>2. run # Idle /\ \E x \in ResourcesOf(run.draft) : x.id = Target.id /\ x.kind = Target.kind
      BY <3>1, TargetSent
    <3> QED
      BY <1>2, <2>3, <3>2 DEF KindsFit
  <2> QED
    BY <1>1, <2>1, <2>2, <2>3, NewRows
<1> QED
  BY <1>2 DEF FormKnown

\* Every step keeps a row an upload answered, lost or stored before, or a link of the form.
LEMMA RowsKnownStep ==
  ASSUME Typed0, Sending, Known, [Next]_vars
  PROVE  RowsKnown'
<1>0. Shaped /\ edits \in Nat /\ RunTyped /\ FirstFreshId \in Nat
  BY DEF Known, Typed0, StatusTyped, FirstFreshId
<1>1. edits' = edits \/ edits' = edits + 1
  BY NothingForgotten DEF Edit
<1> SUFFICES ASSUME NEW n \in DOMAIN server', NEW o \in RowsOf(server'[n])
             PROVE  /\ o.id \in Nat /\ o.id < FirstFreshId + edits'
                    /\ o.kind = "upload" => o.id \in uploaded' \cup history'.uploads \/ StoredBefore(o.id)
  BY DEF RowsKnown
<1>2. \A r \in ResourcesOf(run.draft) : run # Idle => r.id \in Nat /\ r.id < FirstFreshId + edits
  BY <1>0, ResourceOfDraft, ResourceParts DEF RunTyped, FormOf, IdsBelow
<1>3. CASE n \in DOMAIN server /\ o \in RowsOf(server[n])
  <2>1. /\ o.id \in Nat /\ o.id < FirstFreshId + edits
        /\ o.kind = "upload" => o.id \in uploaded \cup history.uploads \/ StoredBefore(o.id)
    BY <1>3 DEF Known, RowsKnown
  <2> QED
    BY <1>0, <1>1, <2>1, NothingForgotten
<1>4. CASE run # Idle /\ \E r \in ResourcesOf(run.draft) : Sendable(r) /\ o.id = r.id /\ o.kind = r.kind
  <2>1. PICK r \in ResourcesOf(run.draft) : Sendable(r) /\ o.id = r.id /\ o.kind = r.kind
    BY <1>4
  <2>2. o.kind = "upload" => StoredBefore(o.id)
    BY <1>4, <2>1 DEF Sendable, Known, FormKnown
  <2> QED
    BY <1>0, <1>1, <1>2, <1>4, <2>1, <2>2
<1>5. CASE Stored /\ (UploadAnswered \/ UploadAnswerLost) /\ o = Target
  <2>1. bar = "uploading"
    BY <1>5 DEF Stored, Uploading
  <2>2. run # Idle /\ \E r \in ResourcesOf(run.draft) : r.id = Target.id
    BY <2>1, TargetSent
  <2> QED
    BY <1>0, <1>1, <1>2, <1>5, <2>2, NothingForgotten
<1> QED
  BY <1>0, <1>3, <1>4, <1>5, NewRows

LEMMA KindsOfOneForm == ASSUME NEW d, IdsDistinct(d) PROVE KindsFit(d, d)
  BY IdOfOneResource DEF KindsFit

\* Every step keeps an id to one kind.
LEMMA KnownStep == ASSUME Typed0, Sending, Known, [Next]_vars PROVE Known'
<1>0. /\ Shaped' /\ RowsKnown' /\ Typed0' /\ FormKnown(draft)
      /\ run # Idle => FormKnown(run.draft) /\ KindsFit(draft, run.draft) /\ KindsFit(run.draft, run.draft)
  BY ShapedStep, RowsKnownStep, TypedStep, KindsOfOneForm DEF Known, Typed0, RunTyped, FormOf
<1>1. CASE Edit
  <2>1. /\ draft' \in DraftEdits(draft, FirstFreshId + edits) /\ FirstFreshId + edits \in Nat
        /\ UNCHANGED <<server, run>>
    BY <1>1 DEF Edit, Typed0, StatusTyped, FirstFreshId
  <2> DEFINE new == FirstFreshId + edits
  <2>2. \A r \in ResourcesOf(draft') : (r.id = new /\ ~ r.existing) \/ \E o \in ResourcesOf(draft) : Derived(r, o)
    BY <2>1, DraftEdited DEF Typed0, FormOf
  <2>3. \A n \in DOMAIN server : \A o \in RowsOf(server[n]) : o.id # new
    BY <2>1 DEF Known, RowsKnown
  <2>4. run # Idle => \A s \in ResourcesOf(run.draft) : s.id # new
    BY <2>1, ResourceOfDraft, ResourceParts DEF Typed0, RunTyped, FormOf, IdsBelow
  <2> HIDE DEF new
  <2>5. FormKnown(draft)'
    <3>1. \A r \in ResourcesOf(draft') : r.existing => StoredBefore(r.id)
      BY <1>0, <2>2 DEF FormKnown, Derived
    <3>2. ASSUME NEW n \in DOMAIN server, NEW o \in RowsOf(server[n]), NEW r \in ResourcesOf(draft'), r.id = o.id
          PROVE  r.kind = o.kind
      BY <1>0, <2>2, <2>3, <3>2 DEF FormKnown, Derived
    <3> QED
      BY <2>1, <3>1, <3>2 DEF FormKnown
  <2>6. run # Idle => FormKnown(run.draft)'
    BY <1>0, <2>1 DEF FormKnown
  <2>7. run # Idle => KindsFit(draft', run.draft)
    BY <1>0, <2>2, <2>4 DEF KindsFit, Derived
  <2> QED
    BY <1>0, <2>1, <2>5, <2>6, <2>7 DEF Known, KindsFit
<1>2. CASE ~ Edit
  <2>1. draft' = draft
    BY <1>2, StepKinds DEF Save, Retry, form
  <2>2. /\ \A r \in ResourcesOf(draft) : r.existing => StoredBefore(r.id)
        /\ \A n \in DOMAIN server' : \A o \in RowsOf(server'[n]) : \A r \in ResourcesOf(draft) :
             r.id = o.id => r.kind = o.kind
    BY <1>0, FormKnownStep
  <2>3. FormKnown(draft)'
    BY <2>1, <2>2 DEF FormKnown
  <2>4. CASE run' = Idle
    BY <1>0, <2>3, <2>4 DEF Known
  <2>5. CASE run # Idle /\ run' # Idle /\ run'.draft = run.draft
    <3>1. /\ \A r \in ResourcesOf(run.draft) : r.existing => StoredBefore(r.id)
          /\ \A n \in DOMAIN server' : \A o \in RowsOf(server'[n]) : \A r \in ResourcesOf(run.draft) :
               r.id = o.id => r.kind = o.kind
      BY <1>0, <2>5, FormKnownStep
    <3>2. FormKnown(run.draft)'
      BY <2>5, <3>1 DEF FormKnown
    <3> QED
      BY <1>0, <2>1, <2>3, <2>5, <3>2 DEF Known, KindsFit
  <2>6. CASE run'.draft = draft
    <3>1. FormKnown(run.draft)'
      BY <2>2, <2>6 DEF FormKnown
    <3>2. KindsFit(draft, draft)
      BY KindsOfOneForm DEF Typed0, FormOf
    <3> QED
      BY <1>0, <2>1, <2>3, <2>6, <3>1, <3>2 DEF Known, KindsFit
  <2> QED
    BY <2>4, <2>5, <2>6, RunForms
<1> QED
  BY <1>1, <1>2

-----------------------------------------------------------------------------
(***************************************************************************)
(* Until a save is answered, what a retained upload holds in the row is    *)
(* what it held before the page.                                           *)
(***************************************************************************)
Originals ==
  mode = "edit" /\ saved = 0 =>
    \A o \in RowsOf(server[1]) :
      HasExisting(draft, o.id) \/ (run # Idle /\ HasExisting(run.draft, o.id)) =>
        o.holds = Original(o.id).holds

LEMMA InitOriginals == ASSUME Init PROVE Originals
<1> SUFFICES ASSUME mode = "edit", NEW o \in RowsOf(server[1]) PROVE o.holds = Original(o.id).holds
  BY DEF Originals
<1>1. PICK a \in Sources : server = <<a>>
  BY FirstFormTyped
<1>2. server[1] = a
  BY <1>1
<1> QED
  BY <1>2, SourceRow

\* The row made of a retained upload holds what the upload held before the page.
LEMMA RetainedHolds ==
  ASSUME Typed0, Originals, Saved, saved = 0, NEW j \in DOMAIN run.draft.items,
         NEW p \in DOMAIN run.draft.items[j].resources, run.draft.items[j].resources[p].existing
  PROVE  /\ mode = "edit"
         /\ RowAt(run.draft.items[j], p, OldRows).holds = Original(run.draft.items[j].resources[p].id).holds
<1> DEFINE d == run.draft
           r == d.items[j].resources[p]
<1>1. d \in Drafts /\ run # Idle
  BY ServerSaved
<1>2. r \in Resources /\ r.kind = "upload" /\ r \in ResourcesOf(d)
  BY <1>1, ListedResource, ResourceOfDraft, ResourceParts
<1>3. mode = "edit" /\ \E o \in RowsOf(server[1]) : o.id = r.id
  <2> DEFINE q == Request(d)
             items == d.items
  <2>1. RetainedExist(mode, q)
    BY DEF Saved, SaveAccepted
  <2>2. items \in Seq(Items) /\ j \in DOMAIN items
    BY <1>1, DraftParts
  <2>3. PICK s \in 1 .. GroupCount(items) :
          \E k \in 1 .. GroupSize(items, s) : EntryAt(items, s, k) = j
    <3> HIDE DEF q, items
    <3> QED
      BY <2>2, EntriesGrouped
  <2> PICK k \in 1 .. GroupSize(items, s) : EntryAt(items, s, k) = j
    BY <2>3
  <2>4. s \in DOMAIN q.sections /\ k \in DOMAIN q.sections[s].items /\ q.sections[s].items[k] = RequestItem(items[j])
    BY <1>1, <2>3, RequestByEntry
  <2>5. PlacedAt(items[j], p) \in RequestItem(items[j]).retained
    <3>1. RequestItem(items[j]).retained =
            Placed(items[j], {x \in DOMAIN items[j].resources :
                                items[j].resources[x].kind = "upload" /\ items[j].resources[x].existing})
      BY DEF RequestItem
    <3> QED
      BY <1>2, <3>1, PlacedOnce
  <2>6. PlacedAt(items[j], p).id = r.id
    BY DEF PlacedAt
  <2> HIDE DEF q, items
  <2>7. mode = "edit" /\ \E o \in RowsOf(server[1]) : o.id = PlacedAt(items[j], p).id
    BY <2>1, <2>4, <2>5 DEF RetainedExist
  <2> QED
    BY <2>6, <2>7 DEF items
<1>4. RowAt(d.items[j], p, OldRows).holds = (CHOOSE o \in RowsOf(server[1]) : o.id = r.id).holds
  BY <1>2, <1>3 DEF RowAt, OldRows
<1>5. HasExisting(d, r.id)
  BY <1>2 DEF HasExisting
<1>6. \A o \in RowsOf(server[1]) : o.id = r.id => o.holds = Original(r.id).holds
  BY <1>1, <1>3, <1>5 DEF Originals
<1> QED
  BY <1>3, <1>4, <1>6

\* Every step keeps the file a retained upload was stored with.
LEMMA OriginalsStep ==
  ASSUME Typed0, Sending, Known, Originals, [Next]_vars
  PROVE  Originals'
<1>0. mode' = mode /\ (mode = "edit" => 1 \in DOMAIN server)
  BY StepKinds, ServerListed
<1> SUFFICES ASSUME mode = "edit", saved' = 0 PROVE Originals'
  BY <1>0 DEF Originals
<1>1. saved = 0 /\ ~ SaveAnswered
  <2>1. ASSUME SaveAnswered PROVE FALSE
    <3>1. Saved /\ saved' = Len(server')
      BY <2>1 DEF SaveAnswered
    <3> QED
      BY <3>1, ServerSaved
  <2> QED
    BY <2>1, NothingForgotten
<1>2. ASSUME UNCHANGED server,
             \A id : HasExisting(draft', id) \/ (run' # Idle /\ HasExisting(run'.draft, id)) =>
                       HasExisting(draft, id) \/ (run # Idle /\ HasExisting(run.draft, id))
      PROVE  Originals'
  BY <1>0, <1>1, <1>2 DEF Originals
<1>3. CASE Edit
  <2>1. UNCHANGED <<server, run>> /\ \A id : HasExisting(draft', id) => HasExisting(draft, id)
    BY <1>3, ExistingBefore DEF Edit
  <2> QED
    BY <1>2, <2>1
<1>4. CASE \E publish \in BOOLEAN : Save(publish)
  <2>1. run' = Started("saving") /\ UNCHANGED <<draft, server>>
    BY <1>4 DEF Save, form
  <2>2. run'.draft = draft
    BY <2>1, StartedRun, RunParts
  <2> QED
    BY <1>2, <2>1, <2>2
<1>5. CASE SaveAnswerLost
  <2>1. Saved /\ run' = Idle /\ draft' = draft
    BY <1>5 DEF SaveAnswerLost, Fails, form
  <2>2. /\ run.draft \in Drafts /\ run # Idle /\ KindsFit(draft, run.draft)
        /\ server'[1] = Rows(Request(run.draft), OldRows)
    BY <2>1, ServerSaved DEF Known
  <2>3. ASSUME NEW o \in RowsOf(server'[1]), HasExisting(draft, o.id)
        PROVE  o.holds = Original(o.id).holds
    <3>1. PICK j, p : /\ j \in DOMAIN run.draft.items /\ p \in DOMAIN run.draft.items[j].resources
                      /\ Sendable(run.draft.items[j].resources[p]) /\ o = RowAt(run.draft.items[j], p, OldRows)
      BY <2>2, <2>3, SavedRows
    <3> DEFINE r == run.draft.items[j].resources[p]
    <3>2. o.id = r.id /\ r \in ResourcesOf(run.draft)
      BY <3>1, ListedResource DEF RowAt
    <3>3. PICK x \in ResourcesOf(draft) : x.existing /\ x.id = o.id
      BY <2>3 DEF HasExisting
    <3>4. x.kind = "upload"
      BY <3>3, ResourceOfDraft, ResourceParts DEF Typed0, FormOf
    <3>5. r.existing
      BY <2>2, <3>1, <3>2, <3>3, <3>4 DEF KindsFit, Sendable
    <3> HIDE DEF r
    <3> QED
      BY <1>1, <2>1, <3>1, <3>2, <3>5, RetainedHolds DEF r
  <2> QED
    BY <1>0, <2>1, <2>3 DEF Originals
<1>6. CASE UNCHANGED <<draft, server>> /\ ~ Retry /\ ~ \E publish \in BOOLEAN : Save(publish)
  BY <1>2, <1>6, RunForms
<1>7. ~ Retry /\ ~ Stored /\ ~ Published
  BY <1>1, ServerListed DEF Retry, RetryOffered, Stored, Uploading, Published
<1> QED
  BY <1>1, <1>3, <1>4, <1>5, <1>6, <1>7, StepKinds

-----------------------------------------------------------------------------
(***************************************************************************)
(* Two forms of one shape differ in files still to be sent only.           *)
(***************************************************************************)
Masked(r) == IF r.id \in uploaded \/ r.file = NoFile THEN r ELSE [r EXCEPT !.file = "chosen"]

MaskedItem(i) == [i EXCEPT !.resources = [p \in DOMAIN i.resources |-> Masked(i.resources[p])]]

Awaits(r) == r.kind = "upload" /\ ~ r.existing

\* r is s but for the file chosen, which is still to be sent.
FileDiffers(r, s) ==
  /\ r.id = s.id /\ Awaits(r) /\ Awaits(s)
  /\ r.file # NoFile /\ s.file # NoFile /\ s.id \notin uploaded

\* Shape hides which file is still to be sent.
LEMMA ShapeMasks ==
  ASSUME NEW d \in Drafts
  PROVE  /\ Shape(d).title = d.title /\ Shape(d).notices = d.notices
         /\ Shape(d).items = [k \in DOMAIN d.items |-> MaskedItem(d.items[k])]
<1>1. Shape(d) = [d EXCEPT !.items = [k \in DOMAIN d.items |-> MaskedItem(d.items[k])]]
  BY DEF Shape, MaskedItem, Masked
<1>2. d \in [title : Texts, start : {0, 1}, notices : Seq(Notices), items : Seq(Items)]
  BY DEF Drafts
<1> DEFINE new == [k \in DOMAIN d.items |-> MaskedItem(d.items[k])]
<1> HIDE DEF new
<1>3. [d EXCEPT !.items = new].items = new /\ [d EXCEPT !.items = new].title = d.title
      /\ [d EXCEPT !.items = new].notices = d.notices
  BY <1>2
<1> QED
  BY <1>1, <1>3 DEF new

LEMMA ItemMasks ==
  ASSUME NEW i \in Items
  PROVE  /\ MaskedItem(i).area = i.area /\ MaskedItem(i).id = i.id
         /\ MaskedItem(i).resources = [p \in DOMAIN i.resources |-> Masked(i.resources[p])]
<1> DEFINE new == [p \in DOMAIN i.resources |-> Masked(i.resources[p])]
<1>1. MaskedItem(i) = [i EXCEPT !.resources = new]
  BY DEF MaskedItem
<1>2. i \in [ id : Nat, area : Nat, title : Texts, mode : Modes, target : Nat, resources : Seq(Resources) ]
  BY DEF Items
<1> HIDE DEF new
<1>3. [i EXCEPT !.resources = new].area = i.area /\ [i EXCEPT !.resources = new].id = i.id
      /\ [i EXCEPT !.resources = new].resources = new
  BY <1>2
<1> QED
  BY <1>1, <1>3 DEF new

LEMMA ResourceMasks ==
  ASSUME NEW r \in Resources, NEW s \in Resources, Masked(r) = Masked(s)
  PROVE  r = s \/ FileDiffers(r, s)
<1>0. \A x \in Resources :
        /\ x \in [ id : Nat, kind : Kinds, name : Texts, url : Urls, file : Files \cup {NoFile}, existing : BOOLEAN ]
        /\ x.existing => x.file = NoFile
        /\ x.file # NoFile => x.kind = "upload"
  BY ResourceParts
<1>1. NoFile # "chosen"
  BY AuthoringAssumption
<1>2. \A x \in Resources : Masked(x).id = x.id
  BY <1>0 DEF Masked
<1>3. r.id = s.id
  BY <1>2
<1>4. CASE r.id \in uploaded
  BY <1>3, <1>4 DEF Masked
<1>5. CASE r.id \notin uploaded
  <2>1. \A x \in Resources : x.file # NoFile => [x EXCEPT !.file = "chosen"].file = "chosen"
    BY <1>0
  <2>2. r.file = NoFile <=> s.file = NoFile
    <3>1. \A x \in Resources : x.id \notin uploaded =>
            Masked(x).file = IF x.file = NoFile THEN NoFile ELSE "chosen"
      BY <2>1 DEF Masked
    <3>2. Masked(r).file = (IF r.file = NoFile THEN NoFile ELSE "chosen")
          /\ Masked(s).file = (IF s.file = NoFile THEN NoFile ELSE "chosen")
      BY <1>3, <1>5, <3>1
    <3> QED
      BY <1>1, <3>2
  <2>3. CASE r.file = NoFile
    BY <1>3, <1>5, <2>2, <2>3 DEF Masked
  <2>4. CASE r.file # NoFile
    <3>1. r.kind = "upload" /\ s.kind = "upload" /\ ~ r.existing /\ ~ s.existing
      BY <1>0, <2>2, <2>4
    <3> QED
      BY <1>3, <1>5, <2>2, <2>4, <3>1 DEF FileDiffers, Awaits
  <2> QED
    BY <2>3, <2>4
<1> QED
  BY <1>4, <1>5

\* Forms of one shape differ in files still to be sent only.
LEMMA SameShape ==
  ASSUME NEW d \in Drafts, NEW e \in Drafts, Shape(d) = Shape(e)
  PROVE  /\ d.title = e.title /\ d.notices = e.notices /\ DOMAIN d.items = DOMAIN e.items
         /\ \A j \in DOMAIN d.items :
              /\ d.items[j].area = e.items[j].area /\ d.items[j].id = e.items[j].id
              /\ DOMAIN d.items[j].resources = DOMAIN e.items[j].resources
              /\ \A p \in DOMAIN d.items[j].resources :
                   \/ d.items[j].resources[p] = e.items[j].resources[p]
                   \/ FileDiffers(d.items[j].resources[p], e.items[j].resources[p])
<1>1. /\ d.title = e.title /\ d.notices = e.notices
      /\ [k \in DOMAIN d.items |-> MaskedItem(d.items[k])] = [k \in DOMAIN e.items |-> MaskedItem(e.items[k])]
  BY ShapeMasks
<1>2. DOMAIN d.items = DOMAIN e.items /\ \A j \in DOMAIN d.items : MaskedItem(d.items[j]) = MaskedItem(e.items[j])
  <2> DEFINE f == [k \in DOMAIN d.items |-> MaskedItem(d.items[k])]
             g == [k \in DOMAIN e.items |-> MaskedItem(e.items[k])]
  <2>1. /\ DOMAIN f = DOMAIN d.items /\ DOMAIN g = DOMAIN e.items
        /\ \A k \in DOMAIN d.items : f[k] = MaskedItem(d.items[k])
        /\ \A k \in DOMAIN e.items : g[k] = MaskedItem(e.items[k])
    OBVIOUS
  <2>2. f = g
    BY <1>1
  <2> HIDE DEF f, g
  <2> QED
    BY <2>1, <2>2
<1>3. ASSUME NEW j \in DOMAIN d.items
      PROVE  /\ d.items[j].area = e.items[j].area /\ d.items[j].id = e.items[j].id
             /\ DOMAIN d.items[j].resources = DOMAIN e.items[j].resources
             /\ \A p \in DOMAIN d.items[j].resources :
                  Masked(d.items[j].resources[p]) = Masked(e.items[j].resources[p])
  <2> DEFINE i == d.items[j]
             k == e.items[j]
             f == [p \in DOMAIN i.resources |-> Masked(i.resources[p])]
             g == [p \in DOMAIN k.resources |-> Masked(k.resources[p])]
  <2>1. i \in Items /\ k \in Items /\ MaskedItem(i) = MaskedItem(k)
    BY <1>2, DraftParts
  <2> HIDE DEF i, k
  <2>2. i.area = k.area /\ i.id = k.id /\ f = g
    BY <2>1, ItemMasks
  <2>3. DOMAIN f = DOMAIN i.resources /\ DOMAIN g = DOMAIN k.resources
        /\ (\A p \in DOMAIN i.resources : f[p] = Masked(i.resources[p]))
        /\ (\A p \in DOMAIN k.resources : g[p] = Masked(k.resources[p]))
    OBVIOUS
  <2> HIDE DEF f, g
  <2> QED
    BY <2>2, <2>3 DEF i, k
<1>4. ASSUME NEW j \in DOMAIN d.items, NEW p \in DOMAIN d.items[j].resources
      PROVE  \/ d.items[j].resources[p] = e.items[j].resources[p]
             \/ FileDiffers(d.items[j].resources[p], e.items[j].resources[p])
  <2>1. d.items[j].resources[p] \in ResourcesOf(d) /\ e.items[j].resources[p] \in ResourcesOf(e)
    BY <1>2, <1>3, ListedResource
  <2> QED
    BY <1>3, <2>1, ResourceOfDraft, ResourceMasks
<1> QED
  BY <1>1, <1>2, <1>3, <1>4

-----------------------------------------------------------------------------
(***************************************************************************)
(* The saved assignment is the form as it was sent, but for the files      *)
(* still to be sent and those whose answer was lost.                       *)
(***************************************************************************)
FitsAt(o, i, p, sent, lost) ==
  /\ o.position = p /\ o.id = i.resources[p].id
  /\ \/ o = DrawnAt(i, p) /\ (Awaits(i.resources[p]) => o.id \in sent)
     \/ Awaits(i.resources[p]) /\ o.id \in lost /\ o.id \notin sent

RowsFit(rows, i, sent, lost) ==
  /\ \A o \in rows : \E p \in DOMAIN i.resources : FitsAt(o, i, p, sent, lost)
  /\ \A p \in DOMAIN i.resources :
       /\ (Awaits(i.resources[p]) => i.resources[p].id \in sent) => DrawnAt(i, p) \in rows
       /\ Awaits(i.resources[p]) => i.resources[p].file # NoFile

Mirrors(a, d, sent, lost) ==
  /\ a.title = d.title /\ a.notices = d.notices
  /\ DOMAIN a.sections = 1 .. GroupCount(d.items)
  /\ \A s \in 1 .. GroupCount(d.items) :
       /\ a.sections[s].area = AreaAt(d.items, s)
       /\ DOMAIN a.sections[s].items = 1 .. GroupSize(d.items, s)
       /\ \A k \in 1 .. GroupSize(d.items, s) :
            /\ a.sections[s].items[k].id = Entry(d.items, s, k).id
            /\ RowsFit(a.sections[s].items[k].resources, Entry(d.items, s, k), sent, lost)

Mirror == saved # 0 /\ ~ history.drifted => Mirrors(server[saved], history.sent, uploaded, history.uploads)

\* A save leaves the form without its new files.
LEMMA SavedMirrors ==
  ASSUME Typed0, Sending, Originals, Saved
  PROVE  \A s \in 1 .. GroupCount(run.draft.items) : \A k \in 1 .. GroupSize(run.draft.items, s) :
           RowsFit(Kept(RequestItem(Entry(run.draft.items, s, k)), OldRows), Entry(run.draft.items, s, k),
                   uploaded, history.uploads)
<1>0. /\ run.phase = "saving" /\ run # Idle /\ run.draft \in Drafts /\ saved = 0 /\ uploaded = {}
      /\ ValidDraft(run.draft)
  BY ServerSaved, ServerListed DEF Sending
<1> SUFFICES ASSUME NEW j \in DOMAIN run.draft.items
             PROVE  RowsFit(Kept(RequestItem(run.draft.items[j]), OldRows), run.draft.items[j],
                            uploaded, history.uploads)
  <2>1. run.draft.items \in Seq(Items)
    BY <1>0, DraftParts
  <2> QED
    BY <2>1, EntriesGrouped DEF Entry
<1> DEFINE i == run.draft.items[j]
           sent == {x \in DOMAIN i.resources : Sendable(i.resources[x])}
           rows == Kept(RequestItem(i), OldRows)
<1>1. i \in Items /\ rows = {RowAt(i, p, OldRows) : p \in sent}
  BY <1>0, DraftParts, KeptRows
<1>2. ASSUME NEW p \in DOMAIN i.resources
      PROVE  /\ i.resources[p] \in Resources
             /\ i.resources[p].existing => i.resources[p].kind = "upload"
             /\ Awaits(i.resources[p]) <=> ~ Sendable(i.resources[p])
             /\ Awaits(i.resources[p]) => i.resources[p].file # NoFile
  <2>1. i.resources[p] \in Resources /\ (i.resources[p].existing => i.resources[p].kind = "upload")
    BY <1>0, ListedResource, ResourceOfDraft, ResourceParts
  <2>2. ValidSource(i.resources[p])
    BY <1>0 DEF ValidDraft, ValidItem
  <2>3. Awaits(i.resources[p]) => i.resources[p].file # NoFile
    BY <2>2, AuthoringAssumption DEF ValidSource, Awaits, Files
  <2> QED
    BY <2>1, <2>3 DEF Awaits, Sendable
<1>3. ASSUME NEW p \in sent PROVE RowAt(i, p, OldRows) = DrawnAt(i, p)
  <2>1. CASE i.resources[p].kind # "upload"
    BY <2>1 DEF RowAt, DrawnAt
  <2>2. CASE i.resources[p].kind = "upload"
    <3>1. i.resources[p].existing
      BY <2>2 DEF Sendable
    <3>2. RowAt(i, p, OldRows).holds = Original(i.resources[p].id).holds
      BY <1>0, <3>1, RetainedHolds
    <3>3. RowAt(i, p, OldRows) = [ position |-> p, id |-> i.resources[p].id, kind |-> i.resources[p].kind,
                                   name |-> i.resources[p].name, holds |-> RowAt(i, p, OldRows).holds ]
      BY DEF RowAt
    <3> QED
      BY <2>2, <3>1, <3>2, <3>3 DEF DrawnAt
  <2> QED
    BY <2>1, <2>2
<1>4. \A p : DrawnAt(i, p).position = p /\ DrawnAt(i, p).id = i.resources[p].id
  BY DEF DrawnAt
<1>5. ASSUME NEW o \in rows PROVE \E p \in DOMAIN i.resources : FitsAt(o, i, p, uploaded, history.uploads)
  <2>1. PICK p \in sent : o = DrawnAt(i, p)
    BY <1>1, <1>3
  <2> QED
    BY <1>2, <1>4, <2>1 DEF FitsAt
<1>6. ASSUME NEW p \in DOMAIN i.resources, Awaits(i.resources[p]) => i.resources[p].id \in uploaded
      PROVE  DrawnAt(i, p) \in rows
  <2>1. p \in sent
    BY <1>0, <1>2, <1>6
  <2> QED
    BY <1>1, <1>3, <2>1
<1> HIDE DEF rows, i, sent
<1> QED
  BY <1>2, <1>5, <1>6 DEF RowsFit, rows, i

\* A retry on a form of the same shape changes nothing about the rows.
LEMMA RowsFitShape ==
  ASSUME NEW rows, NEW i, NEW k, RowsFit(rows, i, uploaded, history.uploads), DOMAIN k.resources = DOMAIN i.resources,
         \A p \in DOMAIN k.resources :
           k.resources[p] = i.resources[p] \/ FileDiffers(k.resources[p], i.resources[p])
  PROVE  RowsFit(rows, k, uploaded, history.uploads)
<1>1. ASSUME NEW o \in rows PROVE \E p \in DOMAIN k.resources : FitsAt(o, k, p, uploaded, history.uploads)
  <2>1. PICK p \in DOMAIN i.resources : FitsAt(o, i, p, uploaded, history.uploads)
    BY DEF RowsFit
  <2>2. CASE k.resources[p] = i.resources[p]
    BY <2>1, <2>2 DEF FitsAt, DrawnAt
  <2>3. CASE FileDiffers(k.resources[p], i.resources[p])
    BY <2>1, <2>3 DEF FitsAt, FileDiffers
  <2> QED
    BY <2>1, <2>2, <2>3
<1>2. ASSUME NEW p \in DOMAIN k.resources
      PROVE  /\ (Awaits(k.resources[p]) => k.resources[p].id \in uploaded) => DrawnAt(k, p) \in rows
             /\ Awaits(k.resources[p]) => k.resources[p].file # NoFile
  <2>1. CASE k.resources[p] = i.resources[p]
    BY <2>1 DEF RowsFit, DrawnAt
  <2>2. CASE FileDiffers(k.resources[p], i.resources[p])
    BY <2>2 DEF FileDiffers
  <2> QED
    BY <2>1, <2>2
<1> QED
  BY <1>1, <1>2 DEF RowsFit

\* Rows that mirror a form mirror every form of its shape: a retry without drift goes on.
LEMMA MirrorsShape ==
  ASSUME NEW a, NEW d \in Drafts, NEW e \in Drafts, Mirrors(a, e, uploaded, history.uploads), Shape(d) = Shape(e)
  PROVE  Mirrors(a, d, uploaded, history.uploads)
<1>1. /\ d.title = e.title /\ d.notices = e.notices /\ DOMAIN d.items = DOMAIN e.items
      /\ \A j \in DOMAIN d.items :
           /\ d.items[j].area = e.items[j].area /\ d.items[j].id = e.items[j].id
           /\ DOMAIN d.items[j].resources = DOMAIN e.items[j].resources
           /\ \A p \in DOMAIN d.items[j].resources :
                \/ d.items[j].resources[p] = e.items[j].resources[p]
                \/ FileDiffers(d.items[j].resources[p], e.items[j].resources[p])
  BY SameShape
<1>2. /\ GroupCount(d.items) = GroupCount(e.items)
      /\ \A s : AreaAt(d.items, s) = AreaAt(e.items, s) /\ GroupSize(d.items, s) = GroupSize(e.items, s)
      /\ \A s, k : EntryAt(d.items, s, k) = EntryAt(e.items, s, k)
  BY <1>1, SameAreasSameGroups
<1>3. ASSUME NEW s \in 1 .. GroupCount(e.items), NEW k \in 1 .. GroupSize(e.items, s)
      PROVE  /\ Entry(d.items, s, k).id = Entry(e.items, s, k).id
             /\ RowsFit(a.sections[s].items[k].resources, Entry(d.items, s, k), uploaded, history.uploads)
  <2>1. EntryAt(e.items, s, k) \in DOMAIN e.items
    BY DraftParts, EntriesGrouped
  <2>2. RowsFit(a.sections[s].items[k].resources, Entry(e.items, s, k), uploaded, history.uploads)
    BY DEF Mirrors
  <2> DEFINE j == EntryAt(e.items, s, k)
  <2>3. Entry(d.items, s, k) = d.items[j] /\ Entry(e.items, s, k) = e.items[j]
    BY <1>2 DEF Entry
  <2> HIDE DEF j
  <2> QED
    BY <1>1, <2>1, <2>2, <2>3, RowsFitShape DEF j
<1> QED
  BY <1>1, <1>2, <1>3 DEF Mirrors

\* Two places of the groups with one id are one place.
LEMMA SameEntry ==
  ASSUME NEW d \in Drafts, IdsDistinct(d),
         NEW s \in 1 .. GroupCount(d.items), NEW k \in 1 .. GroupSize(d.items, s),
         NEW t \in 1 .. GroupCount(d.items), NEW l \in 1 .. GroupSize(d.items, t),
         NEW p \in DOMAIN Entry(d.items, s, k).resources, NEW q \in DOMAIN Entry(d.items, t, l).resources,
         Entry(d.items, s, k).resources[p].id = Entry(d.items, t, l).resources[q].id
  PROVE  s = t /\ k = l /\ p = q
<1>1. d.items \in Seq(Items)
  BY DraftParts
<1>2. EntryAt(d.items, s, k) \in DOMAIN d.items /\ EntryAt(d.items, t, l) \in DOMAIN d.items
  BY <1>1, EntriesGrouped
<1>3. EntryAt(d.items, s, k) = EntryAt(d.items, t, l) /\ p = q
  BY <1>2 DEF IdsDistinct, Entry
<1> QED
  BY <1>1, <1>3, EntriesGrouped

\* What the steps of an upload record.
LEMMA UploadRecorded ==
  ASSUME Typed0, UploadAnswered \/ UploadAnswerLost
  PROVE  /\ saved' = saved /\ history'.sent = history.sent /\ history'.drifted = history.drifted
         /\ \/ uploaded' = uploaded \cup {Target.id} /\ history'.uploads = history.uploads
            \/ uploaded' = uploaded /\ history'.uploads = history.uploads \cup {Target.id}
<1>1. CASE UploadAnswered
  BY <1>1 DEF UploadAnswered
<1>2. CASE UploadAnswerLost
  <2> DEFINE v == history.uploads \cup {Target.id}
  <2>1. history' = [history EXCEPT !.uploads = v] /\ UNCHANGED <<saved, uploaded>>
    BY <1>2 DEF UploadAnswerLost
  <2> HIDE DEF v
  <2>2. history'.sent = history.sent /\ history'.drifted = history.drifted /\ history'.uploads = v
    BY <2>1, HistoryGoesOn DEF Typed0, HistoryTyped
  <2> QED
    BY <2>1, <2>2 DEF v
<1> QED
  BY <1>1, <1>2

\* An upload puts its file where the form has it.
LEMMA StoredMirrors ==
  ASSUME Typed0, Sending, Shaped, Mirrors(server[saved], history.sent, uploaded, history.uploads),
         Stored, UploadAnswered \/ UploadAnswerLost
  PROVE  Mirrors(server'[saved'], history'.sent, uploaded', history'.uploads)
<1> DEFINE d == history.sent
           items == d.items
           n == GroupCount(items)
           size(s) == GroupSize(items, s)
           s0 == run.at[1]
           k0 == run.at[2]
           p0 == run.at[3]
           i0 == Entry(items, s0, k0)
           a == server[saved]
           b == server'[saved]
           id0 == Target.id
           rows(s, k) == a.sections[s].items[k].resources
           after(s, k) == b.sections[s].items[k].resources
<1>1. bar = "uploading" /\ ~ PositionTaken
  BY DEF Stored, Uploading, UploadAccepted
<1>2. run.draft = d /\ d \in Drafts /\ IdsDistinct(d)
  BY <1>1, TargetSent DEF Typed0, RunTyped, FormOf
<1>3. s0 \in 1 .. n /\ k0 \in 1 .. size(s0)
  BY <1>1, <1>2 DEF Sending, AtUnsent
<1>4. /\ p0 \in DOMAIN i0.resources /\ Awaits(i0.resources[p0]) /\ id0 = i0.resources[p0].id
      /\ Target = DrawnAt(i0, p0) /\ Target.position = p0 /\ id0 \notin uploaded
  <2> DEFINE r == i0.resources[p0]
  <2>1. /\ p0 \in DOMAIN i0.resources /\ r.kind = "upload" /\ ~ r.existing /\ r.id \notin uploaded
        /\ Target = [position |-> p0, id |-> r.id, kind |-> "upload", name |-> r.name, holds |-> r.file]
    BY <1>1, <1>2, TargetSent
  <2>2. Target.id = r.id /\ Target.position = p0
    BY <2>1
  <2> QED
    BY <2>1, <2>2 DEF Awaits, DrawnAt
<1>5. /\ saved' = saved /\ history'.sent = d
      /\ \/ uploaded' = uploaded \cup {id0} /\ history'.uploads = history.uploads
         \/ uploaded' = uploaded /\ history'.uploads = history.uploads \cup {id0}
  BY UploadRecorded
<1>6. saved \in DOMAIN server /\ Week(a) /\ b = RowAdded(a, s0, k0, Target)
  BY ServerStored DEF Shaped
<1>7. /\ a.title = d.title /\ a.notices = d.notices /\ DOMAIN a.sections = 1 .. n
      /\ \A s \in 1 .. n :
           /\ a.sections[s].area = AreaAt(items, s)
           /\ DOMAIN a.sections[s].items = 1 .. size(s)
           /\ \A k \in 1 .. size(s) :
                a.sections[s].items[k].id = Entry(items, s, k).id /\ RowsFit(rows(s, k), Entry(items, s, k), uploaded, history.uploads)
  BY DEF Mirrors
<1> HIDE DEF n, size, a, b, i0, s0, k0, p0, id0
<1>8. /\ b.title = a.title /\ b.notices = a.notices /\ DOMAIN b.sections = DOMAIN a.sections
      /\ \A s \in DOMAIN a.sections :
           b.sections[s].area = a.sections[s].area /\ DOMAIN b.sections[s].items = DOMAIN a.sections[s].items
  BY <1>6, WithRow
<1>9. ASSUME NEW s \in 1 .. n, NEW k \in 1 .. size(s)
      PROVE  /\ b.sections[s].items[k].id = a.sections[s].items[k].id
             /\ s = s0 /\ k = k0 => after(s, k) = rows(s, k) \cup {Target}
             /\ ~ (s = s0 /\ k = k0) => after(s, k) = rows(s, k)
  <2>1. s \in DOMAIN a.sections /\ k \in DOMAIN a.sections[s].items
    BY <1>7
  <2> QED
    BY <1>6, <2>1, WithRow
<1> HIDE DEF rows, after
<1>10. ASSUME NEW s \in 1 .. n, NEW k \in 1 .. size(s), NEW p \in DOMAIN Entry(items, s, k).resources,
              Entry(items, s, k).resources[p].id = id0
       PROVE  s = s0 /\ k = k0 /\ p = p0
  <2>1. p0 \in DOMAIN Entry(items, s0, k0).resources
        /\ Entry(items, s, k).resources[p].id = Entry(items, s0, k0).resources[p0].id
    BY <1>4, <1>10 DEF i0
  <2>2. /\ s \in 1 .. GroupCount(items) /\ k \in 1 .. GroupSize(items, s)
        /\ s0 \in 1 .. GroupCount(items) /\ k0 \in 1 .. GroupSize(items, s0)
    BY <1>3 DEF n, size
  <2> QED
    BY <1>2, <2>1, <2>2, SameEntry
<1>11. \A r \in rows(s0, k0) : r.position # p0
  BY <1>1, <1>4 DEF PositionTaken, TargetItem, rows, a, s0, k0
<1>12. ASSUME NEW s \in 1 .. n, NEW k \in 1 .. size(s)
       PROVE  RowsFit(after(s, k), Entry(items, s, k), uploaded', history'.uploads)
  <2> DEFINE i == Entry(items, s, k)
  <2>0. RowsFit(rows(s, k), i, uploaded, history.uploads)
    BY <1>7
  <2>1. ASSUME NEW o \in rows(s, k) PROVE \E p \in DOMAIN i.resources : FitsAt(o, i, p, uploaded, history.uploads) /\ o.id # id0
    <3>1. PICK p \in DOMAIN i.resources : FitsAt(o, i, p, uploaded, history.uploads)
      BY <2>0 DEF RowsFit
    <3>2. o.id # id0
      <4>1. o.position = p /\ o.id = i.resources[p].id
        BY <3>1 DEF FitsAt
      <4> QED
        BY <1>10, <1>11, <4>1
    <3> QED
      BY <3>1, <3>2
  <2>2. ASSUME NEW o \in after(s, k)
        PROVE  \E p \in DOMAIN i.resources :
                 /\ o.position = p /\ o.id = i.resources[p].id
                 /\ \/ o = DrawnAt(i, p) /\ (Awaits(i.resources[p]) => o.id \in uploaded')
                    \/ Awaits(i.resources[p]) /\ o.id \in history'.uploads /\ o.id \notin uploaded'
    <3>1. CASE o \in rows(s, k)
      <4>1. PICK p \in DOMAIN i.resources : FitsAt(o, i, p, uploaded, history.uploads) /\ o.id # id0
        BY <2>1, <3>1
      <4> QED
        BY <1>5, <4>1 DEF FitsAt
    <3>2. CASE o = Target /\ s = s0 /\ k = k0
      <4>1. i = i0
        BY <3>2 DEF i0
      <4> QED
        BY <1>4, <1>5, <3>2, <4>1 DEF id0
    <3> QED
      BY <1>9, <3>1, <3>2
  <2>3. ASSUME NEW p \in DOMAIN i.resources
        PROVE  /\ (Awaits(i.resources[p]) => i.resources[p].id \in uploaded') => DrawnAt(i, p) \in after(s, k)
               /\ Awaits(i.resources[p]) => i.resources[p].file # NoFile
    <3>1. CASE Awaits(i.resources[p]) => i.resources[p].id \in uploaded
      BY <1>9, <2>0, <3>1 DEF RowsFit
    <3>2. CASE i.resources[p].id = id0
      <4>1. s = s0 /\ k = k0 /\ p = p0
        BY <1>10, <3>2
      <4>2. i = i0
        BY <4>1 DEF i0
      <4> QED
        BY <1>4, <1>9, <2>0, <4>1, <4>2 DEF RowsFit
    <3>3. CASE Awaits(i.resources[p]) /\ i.resources[p].id \notin uploaded'
      BY <2>0, <3>3 DEF RowsFit
    <3> QED
      BY <1>5, <3>1, <3>2, <3>3
  <2> QED
    BY <2>2, <2>3 DEF RowsFit, FitsAt
<1> QED
  BY <1>5, <1>7, <1>8, <1>9, <1>12 DEF Mirrors, a, b, n, size, after

LEMMA InitMirror == ASSUME Init PROVE Mirror
  BY DEF Init, Mirror

\* What a retry records.
LEMMA RetryRecorded ==
  ASSUME Typed0, Retry
  PROVE  /\ history'.sent = draft /\ history'.uploads = history.uploads
         /\ history'.drifted = (history.drifted \/ Shape(draft) # Shape(history.sent))
         /\ UNCHANGED <<draft, saved, uploaded, server>>
<1> DEFINE v == history.drifted \/ Shape(draft) # Shape(history.sent)
<1>1. history' = [history EXCEPT !.sent = draft, !.drifted = v]
  BY DEF Retry
<1> HIDE DEF v
<1>2. history'.sent = draft /\ history'.uploads = history.uploads /\ history'.drifted = v
  BY <1>1, HistoryGoesOn DEF Typed0, HistoryTyped
<1> QED
  BY <1>2 DEF v, Retry, form

\* Every step keeps the rows those of the form, unless a retry ran on a changed form.
LEMMA MirrorStep ==
  ASSUME Typed0, Sending, Known, Originals, Mirror, [Next]_vars
  PROVE  Mirror'
<1>1. ASSUME UNCHANGED <<server, saved, uploaded, history>> PROVE Mirror'
  BY <1>1 DEF Mirror
<1>2. CASE Edit \/ \E publish \in BOOLEAN : Save(publish)
  BY <1>1, <1>2 DEF Edit, Save, form
<1>3. CASE Retry
  <2> SUFFICES ASSUME saved' # 0, ~ history'.drifted
               PROVE  Mirrors(server'[saved'], history'.sent, uploaded', history'.uploads)
    BY DEF Mirror
  <2>1. /\ history'.sent = draft /\ history'.uploads = history.uploads
        /\ ~ history.drifted /\ Shape(draft) = Shape(history.sent)
        /\ UNCHANGED <<saved, uploaded, server>>
    BY <1>3, RetryRecorded
  <2>2. Mirrors(server[saved], history.sent, uploaded, history.uploads)
    BY <2>1 DEF Mirror
  <2>3. draft \in Drafts /\ history.sent \in Drafts
    BY DEF Typed0, FormOf, HistoryTyped
  <2> QED
    BY <2>1, <2>2, <2>3, MirrorsShape
<1>4. CASE SaveAnswered
  <2> DEFINE d == run.draft
             a == Rows(Request(d), OldRows)
  <2>1. Saved /\ saved' = Len(server') /\ history' = [history EXCEPT !.sent = d] /\ uploaded' = uploaded
    BY <1>4 DEF SaveAnswered
  <2>2. d \in Drafts /\ server'[saved'] = a
    BY <2>1, ServerSaved
  <2>3. history'.sent = d /\ history'.uploads = history.uploads
    BY <2>1, HistoryGoesOn DEF Typed0, HistoryTyped
  <2>4. ASSUME NEW s \in 1 .. GroupCount(d.items), NEW k \in 1 .. GroupSize(d.items, s)
        PROVE  /\ a.sections[s].items[k].id = Entry(d.items, s, k).id
               /\ RowsFit(a.sections[s].items[k].resources, Entry(d.items, s, k), uploaded, history.uploads)
    <3>1. /\ a.sections[s].items[k].id = Entry(d.items, s, k).id
          /\ a.sections[s].items[k].resources = Kept(RequestItem(Entry(d.items, s, k)), OldRows)
      BY <2>2, SavedWeek DEF Entry
    <3> QED
      BY <2>1, <3>1, SavedMirrors
  <2>5. /\ a.title = d.title /\ a.notices = d.notices
        /\ DOMAIN a.sections = 1 .. GroupCount(d.items)
        /\ \A s \in 1 .. GroupCount(d.items) :
             a.sections[s].area = AreaAt(d.items, s) /\ DOMAIN a.sections[s].items = 1 .. GroupSize(d.items, s)
    BY <2>2, SavedWeek
  <2> HIDE DEF a, d
  <2>6. Mirrors(a, d, uploaded, history.uploads)
    BY <2>4, <2>5 DEF Mirrors
  <2> QED
    BY <2>1, <2>2, <2>3, <2>6 DEF Mirror
<1>5. CASE SaveAnswerLost
  <2>1. Saved /\ saved' = saved
    BY <1>5 DEF SaveAnswerLost
  <2>2. saved = 0
    BY <2>1, ServerSaved, ServerListed
  <2> QED
    BY <2>1, <2>2 DEF Mirror
<1>6. CASE Stored /\ (UploadAnswered \/ UploadAnswerLost)
  <2>1. saved' = saved /\ history'.drifted = history.drifted
    BY <1>6, UploadRecorded
  <2> QED
    BY <1>6, <2>1, StoredMirrors DEF Mirror, Known
<1>7. CASE Published /\ (PublishAnswered \/ PublishAnswerLost)
  <2>1. UNCHANGED <<saved, uploaded, history>>
    BY <1>7 DEF PublishAnswered, PublishAnswerLost
  <2>2. /\ server'[saved].sections = server[saved].sections
        /\ server'[saved].title = server[saved].title /\ server'[saved].notices = server[saved].notices
    BY <1>7, ServerPublished DEF Known
  <2> QED
    BY <2>1, <2>2 DEF Mirror, Mirrors
<1>8. CASE UNCHANGED server /\ (SaveFails \/ Unmatched \/ UploadFails \/ PublishFails \/ UploadStarted \/ Uploaded)
  BY <1>1, <1>8 DEF SaveFails, Unmatched, UploadFails, PublishFails, UploadStarted, Uploaded
<1> QED
  BY <1>1, <1>2, <1>3, <1>4, <1>5, <1>6, <1>7, <1>8, StepKinds

-----------------------------------------------------------------------------
\* Rows that mirror the form are where the teacher put them.
LEMMA MirrorWhere == ASSUME Typed0, Sending, Mirror PROVE FilesWhereChosen
<1> SUFFICES ASSUME ~ history.drifted PROVE ItemsMatched /\ FilesBelowTheirItems
  BY DEF FilesWhereChosen
<1>1. ItemsMatched
  <2> SUFFICES ASSUME run.phase = "uploading", NEW x \in Stops PROVE Matched(x[1], x[2])
    BY DEF ItemsMatched
  <2>1. saved # 0 /\ run.draft = history.sent /\ run # Idle
    BY RunPhases DEF Sending, Typed0, Idle
  <2>2. PICK s, k : s \in DOMAIN run.groups /\ k \in DOMAIN run.groups[s].items /\ x = <<s, k>>
    BY StopListed
  <2>3. s \in 1 .. GroupCount(run.draft.items) /\ k \in 1 .. GroupSize(run.draft.items, s)
    BY <2>1, <2>2, RunGroups
  <2>4. x[1] = s /\ x[2] = k
    BY <2>2
  <2> QED
    BY <2>1, <2>3, <2>4 DEF Mirror, Mirrors, Matched
<1>2. FilesBelowTheirItems
  <2> DEFINE a == server[saved]
             d == history.sent
  <2> SUFFICES ASSUME saved # 0, NEW s \in DOMAIN a.sections, NEW k \in DOMAIN a.sections[s].items,
                      NEW r \in a.sections[s].items[k].resources
               PROVE  \E j \in DOMAIN d.items :
                        /\ d.items[j].id = a.sections[s].items[k].id
                        /\ r.position \in DOMAIN d.items[j].resources
                        /\ d.items[j].resources[r.position].id = r.id
    BY DEF FilesBelowTheirItems
  <2>1. Mirrors(a, d, uploaded, history.uploads)
    BY DEF Mirror
  <2>2. s \in 1 .. GroupCount(d.items) /\ k \in 1 .. GroupSize(d.items, s)
    BY <2>1 DEF Mirrors
  <2>3. /\ a.sections[s].items[k].id = Entry(d.items, s, k).id
        /\ RowsFit(a.sections[s].items[k].resources, Entry(d.items, s, k), uploaded, history.uploads)
    BY <2>1, <2>2 DEF Mirrors
  <2>4. PICK p \in DOMAIN Entry(d.items, s, k).resources :
          FitsAt(r, Entry(d.items, s, k), p, uploaded, history.uploads)
    BY <2>3 DEF RowsFit
  <2>5. d.items \in Seq(Items)
    BY DraftParts DEF Typed0, HistoryTyped
  <2>6. EntryAt(d.items, s, k) \in DOMAIN d.items
    BY <2>2, <2>5, EntriesGrouped
  <2> QED
    BY <2>3, <2>4, <2>6 DEF FitsAt, Entry
<1> QED
  BY <1>1, <1>2

\* With all sent, rows that mirror the form are the form.
LEMMA MirrorDone == ASSUME Typed0, Sending, Mirror PROVE DoneAsDrawn
<1> DEFINE d == run.draft
           a == server[saved]
           g == run.groups
<1> SUFFICES ASSUME run.phase \in {"publishing", "done"}, ~ history.drifted
             PROVE  /\ a.title = d.title /\ a.notices = d.notices
                    /\ DOMAIN a.sections = DOMAIN g
                    /\ \A s \in DOMAIN g :
                         /\ a.sections[s].area = g[s].area
                         /\ DOMAIN a.sections[s].items = DOMAIN g[s].items
                         /\ \A k \in DOMAIN g[s].items :
                              a.sections[s].items[k].resources = Drawn(g[s].items[k])
  BY DEF DoneAsDrawn
<1>1. saved # 0 /\ d = history.sent /\ run # Idle /\ AllSent
  BY RunPhases DEF Sending, Typed0, Idle
<1>2. Mirrors(a, d, uploaded, history.uploads)
  BY <1>1 DEF Mirror
<1>3. /\ DOMAIN g = 1 .. GroupCount(d.items)
      /\ \A s \in 1 .. GroupCount(d.items) :
           /\ DOMAIN g[s].items = 1 .. GroupSize(d.items, s) /\ g[s].area = AreaAt(d.items, s)
           /\ \A k \in 1 .. GroupSize(d.items, s) : g[s].items[k] = Entry(d.items, s, k)
  BY <1>1, RunGroups
<1> HIDE DEF a, d, g
<1>4. ASSUME NEW s \in 1 .. GroupCount(d.items), NEW k \in 1 .. GroupSize(d.items, s)
      PROVE  a.sections[s].items[k].resources = Drawn(Entry(d.items, s, k))
  <2> DEFINE i == Entry(d.items, s, k)
             rows == a.sections[s].items[k].resources
  <2>1. RowsFit(rows, i, uploaded, history.uploads)
    BY <1>2 DEF Mirrors
  <2>2. Unsent(i) = {}
    BY <1>1 DEF AllSent, d
  <2> HIDE DEF i, rows
  <2>3. \A p \in DOMAIN i.resources : Awaits(i.resources[p]) => i.resources[p].id \in uploaded
    BY <2>1, <2>2 DEF RowsFit, Unsent, Awaits
  <2>4. ASSUME NEW p \in DOMAIN i.resources PROVE DrawnAt(i, p) \in rows
    BY <2>1, <2>3 DEF RowsFit
  <2>5. ASSUME NEW o \in rows PROVE \E p \in DOMAIN i.resources : o = DrawnAt(i, p)
    BY <2>1, <2>3 DEF RowsFit, FitsAt
  <2>6. rows = {DrawnAt(i, p) : p \in DOMAIN i.resources}
    BY <2>4, <2>5
  <2> QED
    BY <2>6 DEF Drawn, i, rows
<1>5. a.title = d.title /\ a.notices = d.notices /\ DOMAIN a.sections = DOMAIN g
  BY <1>2, <1>3 DEF Mirrors
<1>6. ASSUME NEW s \in DOMAIN g
      PROVE  a.sections[s].area = g[s].area /\ DOMAIN a.sections[s].items = DOMAIN g[s].items
  BY <1>2, <1>3 DEF Mirrors
<1>7. ASSUME NEW s \in DOMAIN g, NEW k \in DOMAIN g[s].items
      PROVE  a.sections[s].items[k].resources = Drawn(g[s].items[k])
  <2>1. s \in 1 .. GroupCount(d.items) /\ k \in 1 .. GroupSize(d.items, s)
    BY <1>3
  <2>2. g[s].items[k] = Entry(d.items, s, k)
    BY <1>3, <2>1
  <2> QED
    BY <1>4, <2>1, <2>2
<1> QED
  BY <1>5, <1>6, <1>7 DEF a, d, g

\* The position of a file still to be sent is free, or its own lost upload has it.
LEMMA MirrorPlaceFree == ASSUME Typed0, Sending, Mirror PROVE UploadPlaceFree
<1> SUFFICES ASSUME Uploading, PositionTaken, ~ history.drifted PROVE Target.id \in history.uploads
  BY DEF UploadPlaceFree
<1> DEFINE d == run.draft
           i == Entry(d.items, run.at[1], run.at[2])
           p == run.at[3]
<1>1. bar = "uploading" /\ saved # 0 /\ d = history.sent
  BY TargetSent DEF Uploading
<1>2. run.at[1] \in 1 .. GroupCount(d.items) /\ run.at[2] \in 1 .. GroupSize(d.items, run.at[1])
  BY <1>1 DEF Sending, AtUnsent
<1>3. /\ Awaits(i.resources[p]) /\ Target.id = i.resources[p].id /\ Target.position = p
      /\ i.resources[p].id \notin uploaded
  BY <1>1, TargetSent DEF Awaits
<1>4. PICK r \in TargetItem.resources : r.position = p
  BY <1>3 DEF PositionTaken
<1>5. RowsFit(TargetItem.resources, i, uploaded, history.uploads)
  BY <1>1, <1>2 DEF Mirror, Mirrors, TargetItem
<1> HIDE DEF i, p
<1>6. FitsAt(r, i, p, uploaded, history.uploads)
  BY <1>4, <1>5 DEF RowsFit, FitsAt
<1> QED
  BY <1>3, <1>6 DEF FitsAt

-----------------------------------------------------------------------------
(***************************************************************************)
(* The rows of one id.                                                     *)
(***************************************************************************)
SamePlace(a, id) ==
  \A s, t \in DOMAIN a.sections :
    \A k \in DOMAIN a.sections[s].items : \A l \in DOMAIN a.sections[t].items :
      \A r \in a.sections[s].items[k].resources : \A o \in a.sections[t].items[l].resources :
        r.id = id /\ o.id = id => s = t /\ k = l /\ r.position = o.position

Excused(n, id) == n = saved /\ history.drifted /\ (id \in history.uploads \/ StoredBefore(id))

Once == \A n \in DOMAIN server : \A id : SamePlace(server[n], id) \/ Excused(n, id)

\* The places of an id with one place are one at most.
LEMMA OnePlaceCounted ==
  ASSUME NEW a, NEW id, SamePlace(a, id)
  PROVE  ~ (Cardinality(PlacesOf(a, id)) > 1)
<1>1. ASSUME NEW x \in PlacesOf(a, id), NEW y \in PlacesOf(a, id) PROVE x = y
  <2>1. PICK s \in DOMAIN a.sections : \E k \in DOMAIN a.sections[s].items :
          \E r \in a.sections[s].items[k].resources : r.id = id /\ x = <<s, k, r.position>>
    BY DEF PlacesOf
  <2>2. PICK t \in DOMAIN a.sections : \E l \in DOMAIN a.sections[t].items :
          \E o \in a.sections[t].items[l].resources : o.id = id /\ y = <<t, l, o.position>>
    BY DEF PlacesOf
  <2> QED
    BY <2>1, <2>2 DEF SamePlace
<1>2. CASE PlacesOf(a, id) = {}
  BY <1>2, FS_EmptySet
<1>3. CASE PlacesOf(a, id) # {}
  <2>1. PICK x \in PlacesOf(a, id) : TRUE
    BY <1>3
  <2>2. PlacesOf(a, id) = {x}
    BY <1>1, <2>1
  <2>3. Cardinality(PlacesOf(a, id)) = 1
    BY <2>2, FS_Singleton
  <2> QED
    BY <2>3
<1> QED
  BY <1>2, <1>3

\* In an assignment whose rows follow a form every id has one place.
LEMMA FormOncePlaced ==
  ASSUME NEW a, NEW d \in Drafts, IdsDistinct(d),
         DOMAIN a.sections = 1 .. GroupCount(d.items),
         \A s \in 1 .. GroupCount(d.items) : DOMAIN a.sections[s].items = 1 .. GroupSize(d.items, s),
         \A s \in 1 .. GroupCount(d.items) : \A k \in 1 .. GroupSize(d.items, s) :
           \A o \in a.sections[s].items[k].resources :
             \E p \in DOMAIN Entry(d.items, s, k).resources :
               o.position = p /\ o.id = Entry(d.items, s, k).resources[p].id,
         NEW id
  PROVE  SamePlace(a, id)
<1> SUFFICES ASSUME NEW s \in DOMAIN a.sections, NEW t \in DOMAIN a.sections,
                    NEW k \in DOMAIN a.sections[s].items, NEW l \in DOMAIN a.sections[t].items,
                    NEW r \in a.sections[s].items[k].resources,
                    NEW o \in a.sections[t].items[l].resources, r.id = id, o.id = id
             PROVE  s = t /\ k = l /\ r.position = o.position
  BY DEF SamePlace
<1>1. /\ s \in 1 .. GroupCount(d.items) /\ k \in 1 .. GroupSize(d.items, s)
      /\ t \in 1 .. GroupCount(d.items) /\ l \in 1 .. GroupSize(d.items, t)
  OBVIOUS
<1>2. PICK p \in DOMAIN Entry(d.items, s, k).resources :
        r.position = p /\ r.id = Entry(d.items, s, k).resources[p].id
  BY <1>1
<1>3. PICK q \in DOMAIN Entry(d.items, t, l).resources :
        o.position = q /\ o.id = Entry(d.items, t, l).resources[q].id
  BY <1>1
<1>4. Entry(d.items, s, k).resources[p].id = Entry(d.items, t, l).resources[q].id
  BY <1>2, <1>3
<1>5. s = t /\ k = l /\ p = q
  BY ONLY d \in Drafts, IdsDistinct(d), <1>1, <1>2, <1>3, <1>4, SameEntry
<1> QED
  BY <1>2, <1>3, <1>5

\* After a save every id has one place.
LEMMA SavedOncePlaced ==
  ASSUME NEW d \in Drafts, IdsDistinct(d), NEW old, NEW id
  PROVE  SamePlace(Rows(Request(d), old), id)
<1> DEFINE a == Rows(Request(d), old)
<1>1. ASSUME NEW s \in 1 .. GroupCount(d.items), NEW k \in 1 .. GroupSize(d.items, s),
             NEW o \in a.sections[s].items[k].resources
      PROVE  \E p \in DOMAIN Entry(d.items, s, k).resources :
               o.position = p /\ o.id = Entry(d.items, s, k).resources[p].id
  <2> DEFINE i == Entry(d.items, s, k)
  <2>1. a.sections[s].items[k].resources = Kept(RequestItem(i), old)
    BY SavedWeek DEF Entry
  <2>2. i \in Items
    BY DraftParts, EntriesGrouped DEF Entry
  <2> HIDE DEF i, a
  <2>3. PICK p \in DOMAIN i.resources : o = RowAt(i, p, old)
    BY <2>1, <2>2, KeptRows
  <2> QED
    BY <2>3 DEF RowAt, i
<1>2. /\ DOMAIN a.sections = 1 .. GroupCount(d.items)
      /\ \A s \in 1 .. GroupCount(d.items) : DOMAIN a.sections[s].items = 1 .. GroupSize(d.items, s)
  BY SavedWeek
<1> HIDE DEF a
<1>3. SamePlace(a, id)
  BY <1>1, <1>2, FormOncePlaced
<1> QED
  BY <1>3 DEF a

\* In rows that mirror a form every id has one place.
LEMMA MirrorOncePlaced ==
  ASSUME NEW a, NEW d \in Drafts, IdsDistinct(d), NEW sent, NEW lost, Mirrors(a, d, sent, lost), NEW id
  PROVE  SamePlace(a, id)
<1>1. ASSUME NEW s \in 1 .. GroupCount(d.items), NEW k \in 1 .. GroupSize(d.items, s),
             NEW o \in a.sections[s].items[k].resources
      PROVE  \E p \in DOMAIN Entry(d.items, s, k).resources :
               o.position = p /\ o.id = Entry(d.items, s, k).resources[p].id
  BY DEF Mirrors, RowsFit, FitsAt
<1>2. /\ DOMAIN a.sections = 1 .. GroupCount(d.items)
      /\ \A s \in 1 .. GroupCount(d.items) : DOMAIN a.sections[s].items = 1 .. GroupSize(d.items, s)
  BY DEF Mirrors
<1> QED
  BY <1>1, <1>2, FormOncePlaced

\* An id without a row has one place after the row is added; another id keeps its places.
LEMMA AddedOncePlaced ==
  ASSUME NEW a, Week(a), NEW s, NEW k, NEW o, NEW id, SamePlace(a, id),
         o.id = id => \A r \in RowsOf(a) : r.id # id
  PROVE  SamePlace(RowAdded(a, s, k, o), id)
<1> DEFINE b == RowAdded(a, s, k, o)
<1>1. DOMAIN b.sections = DOMAIN a.sections
  BY WithRow
<1>2. ASSUME NEW t \in DOMAIN a.sections PROVE DOMAIN b.sections[t].items = DOMAIN a.sections[t].items
  BY WithRow
<1>3. ASSUME NEW t \in DOMAIN a.sections, NEW l \in DOMAIN a.sections[t].items
      PROVE  /\ t = s /\ l = k =>
                  b.sections[t].items[l].resources = a.sections[t].items[l].resources \cup {o}
             /\ ~ (t = s /\ l = k) =>
                  b.sections[t].items[l].resources = a.sections[t].items[l].resources
  BY WithRow
<1> HIDE DEF b
<1>4. ASSUME NEW t \in DOMAIN b.sections, NEW l \in DOMAIN b.sections[t].items,
             NEW r \in b.sections[t].items[l].resources
      PROVE  /\ t \in DOMAIN a.sections /\ l \in DOMAIN a.sections[t].items
             /\ \/ r \in a.sections[t].items[l].resources /\ r \in RowsOf(a)
                \/ r = o /\ t = s /\ l = k
  <2>1. t \in DOMAIN a.sections /\ l \in DOMAIN a.sections[t].items
    BY <1>1, <1>2
  <2>2. r \in a.sections[t].items[l].resources \/ (r = o /\ t = s /\ l = k)
    BY <1>3, <2>1
  <2> QED
    BY <2>1, <2>2, RowListed
<1>5. ASSUME NEW t \in DOMAIN b.sections, NEW u \in DOMAIN b.sections,
             NEW l \in DOMAIN b.sections[t].items, NEW m \in DOMAIN b.sections[u].items,
             NEW r \in b.sections[t].items[l].resources,
             NEW x \in b.sections[u].items[m].resources, r.id = id, x.id = id
      PROVE  t = u /\ l = m /\ r.position = x.position
  <2>1. CASE o.id = id
    BY <1>4, <1>5, <2>1
  <2>2. CASE o.id # id
    <3>1. /\ t \in DOMAIN a.sections /\ l \in DOMAIN a.sections[t].items /\ r \in a.sections[t].items[l].resources
          /\ u \in DOMAIN a.sections /\ m \in DOMAIN a.sections[u].items /\ x \in a.sections[u].items[m].resources
      BY <1>4, <1>5, <2>2
    <3> QED
      BY <1>5, <3>1 DEF SamePlace
  <2> QED
    BY <2>1, <2>2
<1> QED
  BY <1>5 DEF SamePlace, b

LEMMA InitOnce == ASSUME Init PROVE Once
<1>1. CASE mode # "edit"
  <2>1. DOMAIN server = {}
    BY <1>1, FirstFormTyped
  <2> QED
    BY <2>1 DEF Once
<1>2. CASE mode = "edit"
  <2>1. PICK a \in Sources : server = <<a>>
    BY <1>2, FirstFormTyped
  <2>2. DOMAIN server = {1} /\ server[1] = a
    BY <2>1
  <2>3. \A id : SamePlace(a, id)
    BY AuthoringAssumption DEF StoredOnce, SamePlace
  <2> QED
    BY <2>2, <2>3 DEF Once
<1> QED
  BY <1>1, <1>2

\* Every step keeps one place for an id, but for the excused.
LEMMA OnceStep ==
  ASSUME Typed0, Sending, Known, Mirror, Mirror', Once, [Next]_vars
  PROVE  Once'
<1>1. ASSUME UNCHANGED <<server, saved>>, history'.drifted = history.drifted \/ history'.drifted,
             history.uploads \in SUBSET history'.uploads
      PROVE  Once'
  BY <1>1 DEF Once, Excused
<1>2. CASE Edit \/ \E publish \in BOOLEAN : Save(publish)
  BY <1>1, <1>2 DEF Edit, Save, form
<1>3. CASE Retry
  <2>1. /\ UNCHANGED <<server, saved>> /\ history'.uploads = history.uploads
        /\ history.drifted => history'.drifted
    BY <1>3, RetryRecorded
  <2> QED
    BY <2>1 DEF Once, Excused
<1>4. CASE Saved /\ (SaveAnswered \/ SaveAnswerLost)
  <2>1. /\ run.draft \in Drafts /\ IdsDistinct(run.draft)
        /\ server'[Len(server')] = Rows(Request(run.draft), OldRows)
        /\ \A n \in DOMAIN server' : n # Len(server') => n \in DOMAIN server /\ server'[n] = server[n]
        /\ DOMAIN server = 1 .. Len(server) /\ saved = 0
    BY <1>4, ServerSaved, ServerListed
  <2>2. \A id : SamePlace(server'[Len(server')], id)
    BY <2>1, SavedOncePlaced
  <2>3. ASSUME NEW n \in DOMAIN server', n # Len(server'), NEW id PROVE SamePlace(server'[n], id)
    BY <2>1, <2>3 DEF Once, Excused
  <2> QED
    BY <2>2, <2>3 DEF Once
<1>5. CASE Stored /\ (UploadAnswered \/ UploadAnswerLost)
  <2>1. /\ saved' = saved /\ history'.sent = history.sent /\ history'.drifted = history.drifted
        /\ history.uploads \in SUBSET history'.uploads
    BY <1>5, UploadRecorded
  <2>2. /\ DOMAIN server' = DOMAIN server /\ saved \in DOMAIN server /\ saved # 0
        /\ server'[saved] = RowAdded(server[saved], run.at[1], run.at[2], Target)
        /\ Week(server[saved])
        /\ \A n \in DOMAIN server : n # saved => server'[n] = server[n]
    BY <1>5, ServerStored, ServerListed DEF Known, Shaped
  <2>3. ASSUME NEW id, ~ history.drifted PROVE SamePlace(server'[saved], id)
    <3>1. Mirrors(server'[saved], history'.sent, uploaded', history'.uploads)
      BY <2>1, <2>2, <2>3 DEF Mirror
    <3>2. history'.sent \in Drafts /\ IdsDistinct(history'.sent)
      BY <2>1 DEF Typed0, HistoryTyped
    <3> QED
      BY <3>1, <3>2, MirrorOncePlaced
  <2>4. ASSUME NEW id, history.drifted, ~ (id \in history'.uploads \/ StoredBefore(id))
        PROVE  SamePlace(server'[saved], id)
    <3>1. SamePlace(server[saved], id)
      BY <2>1, <2>2, <2>4 DEF Once, Excused
    <3>2. ASSUME Target.id = id, NEW r \in RowsOf(server[saved]), r.id = id PROVE FALSE
      <4>1. bar = "uploading"
        BY <1>5 DEF Stored, Uploading
      <4>2. run # Idle /\ id \notin uploaded /\ \E x \in ResourcesOf(run.draft) : x.id = id /\ x.kind = "upload"
        BY <3>2, <4>1, TargetSent
      <4>3. r.kind = "upload"
        BY <2>2, <3>2, <4>2 DEF Known, FormKnown
      <4>4. id \in uploaded \cup history.uploads \/ StoredBefore(id)
        BY <2>2, <3>2, <4>3 DEF Known, RowsKnown
      <4> QED
        BY <2>1, <2>4, <4>2, <4>4
    <3> QED
      BY <2>2, <3>1, <3>2, AddedOncePlaced
  <2>5. ASSUME NEW n \in DOMAIN server', NEW id PROVE SamePlace(server'[n], id) \/ Excused(n, id)'
    <3>1. CASE n = saved
      BY <2>1, <2>3, <2>4, <3>1 DEF Excused
    <3>2. CASE n # saved
      BY <2>2, <3>2 DEF Once, Excused
    <3> QED
      BY <3>1, <3>2
  <2> QED
    BY <2>5 DEF Once
<1>6. CASE Published /\ (PublishAnswered \/ PublishAnswerLost)
  <2>1. UNCHANGED <<saved, history>>
    BY <1>6 DEF PublishAnswered, PublishAnswerLost
  <2>2. DOMAIN server' = DOMAIN server /\ \A n \in DOMAIN server : server'[n].sections = server[n].sections
    BY <1>6, ServerPublished DEF Known
  <2>3. ASSUME NEW n \in DOMAIN server', NEW id PROVE SamePlace(server'[n], id) \/ Excused(n, id)'
    <3>1. SamePlace(server[n], id) \/ Excused(n, id)
      BY <2>2 DEF Once
    <3>2. server'[n].sections = server[n].sections
      BY <2>2
    <3>3. SamePlace(server[n], id) => SamePlace(server'[n], id)
      BY <3>2 DEF SamePlace
    <3>4. Excused(n, id) => Excused(n, id)'
      BY <2>1 DEF Excused
    <3> QED
      BY <3>1, <3>3, <3>4
  <2> QED
    BY <2>3 DEF Once
<1>7. CASE UNCHANGED server /\ (SaveFails \/ Unmatched \/ UploadFails \/ PublishFails \/ UploadStarted \/ Uploaded)
  BY <1>1, <1>7 DEF SaveFails, Unmatched, UploadFails, PublishFails, UploadStarted, Uploaded
<1>8. CASE UNCHANGED <<server, saved, history>>
  BY <1>8 DEF Once, Excused
<1> QED
  BY <1>2, <1>3, <1>4, <1>5, <1>6, <1>7, <1>8, StepKinds

LEMMA OnceStored == ASSUME Typed0, Sending, Mirror, Once PROVE UploadsOnce
<1>1. NoFileTwice
  <2> SUFFICES ASSUME NEW n \in DOMAIN server, NEW r \in RowsOf(server[n]),
                      Cardinality(PlacesOf(server[n], r.id)) > 1
               PROVE  history.drifted /\ (r.id \in history.uploads \/ StoredBefore(r.id))
    BY DEF NoFileTwice
  <2>1. ~ SamePlace(server[n], r.id)
    BY OnePlaceCounted
  <2> QED
    BY <2>1 DEF Once, Excused
<1> QED
  BY <1>1, MirrorPlaceFree DEF UploadsOnce

-----------------------------------------------------------------------------
AuthoringInv == Typed0 /\ Current /\ Sending /\ Known /\ Originals /\ Mirror /\ Once

LEMMA InitAuthoring == ASSUME Init PROVE AuthoringInv
  BY InitTyped, InitCurrent, InitSending, InitKnown, InitOriginals, InitMirror, InitOnce DEF AuthoringInv

LEMMA AuthoringStep == ASSUME AuthoringInv, [Next]_vars PROVE AuthoringInv'
<1>1. Typed0' /\ Current' /\ Sending'
  BY TypedStep, CurrentStep, SendingStep DEF AuthoringInv
<1>2. Known' /\ Originals' /\ Mirror'
  BY KnownStep, OriginalsStep, MirrorStep DEF AuthoringInv
<1>3. Once'
  BY <1>2, OnceStep DEF AuthoringInv
<1> QED
  BY <1>1, <1>2, <1>3 DEF AuthoringInv

\* The invariant holds of every behaviour.
LEMMA AuthoringHolds == Spec => []AuthoringInv
<1>1. Init => AuthoringInv
  BY InitAuthoring
<1>2. AuthoringInv /\ [Next]_vars => AuthoringInv'
  BY AuthoringStep
<1> QED
  BY <1>1, <1>2, PTL DEF Spec

-----------------------------------------------------------------------------
\* However a save is refused, fails or is pressed again, one assignment comes of a page
\* of AssignmentAuthoringPage.tsx, and one more for every answer of create that was lost
\* (OneAssignment).
THEOREM OneAssignmentPerPage == Spec => []OneAssignment
<1>1. Init => Single
  BY InitSingle
<1>2. Single /\ [Next]_vars => Single'
  BY SingleStep
<1>3. Single => OneAssignment
  BY DEF Single, Counted, OneAssignment
<1> QED
  BY <1>1, <1>2, <1>3, PTL DEF Spec

\* Every edit, a page opened on a stored assignment, and every save or retry hold a form of
\* the page, and the status bar shows an upload only while one is under way (TypeOK).
THEOREM FormsAreTyped == Spec => []TypeOK
<1>1. AuthoringInv => TypeOK
  BY TypedOK DEF AuthoringInv
<1> QED
  BY <1>1, AuthoringHolds, PTL

\* The DTOs of the server accept every draft that validateDraft passes, but for the six
\* rules the page does not know (ServerAcceptsDraft).
THEOREM ValidatedDraftsAccepted == Spec => []ServerAcceptsDraft
<1>1. AuthoringInv => ServerAcceptsDraft
  BY DraftAccepted DEF AuthoringInv, Typed0, FormOf
<1> QED
  BY <1>1, AuthoringHolds, PTL

\* An upload the form shows as current is still stored, however many updates were sent with
\* their answers lost: update keeps a retained row's id (CurrentFilesExist).
THEOREM CurrentFilesStayStored == Spec => []CurrentFilesExist
<1>1. AuthoringInv => CurrentFilesExist
  BY CurrentKept DEF AuthoringInv
<1> QED
  BY <1>1, AuthoringHolds, PTL

\* A file is stored below the item and at the position the teacher gave it, and
\* every item is matched, although uploadDraftFiles goes by position alone
\* (FilesWhereChosen), whatever is edited and whichever requests fail.
THEOREM FilesGoWhereChosen == Spec => []FilesWhereChosen
<1>1. AuthoringInv => FilesWhereChosen
  BY MirrorWhere DEF AuthoringInv
<1> QED
  BY <1>1, AuthoringHolds, PTL

\* No entry of the form has two files stored and no upload finds its position
\* taken, unless an answer was lost or a retry ran on a form changed since the
\* save (UploadsOnce).
THEOREM UploadsGoOnce == Spec => []UploadsOnce
<1>1. AuthoringInv => UploadsOnce
  BY OnceStored DEF AuthoringInv
<1> QED
  BY <1>1, AuthoringHolds, PTL

\* When the page closes or goes on to publish, the stored week is the form it
\* sent: texts, areas, links, retained uploads and new files, each at its place
\* (DoneAsDrawn).
THEOREM DoneIsAsDrawn == Spec => []DoneAsDrawn
<1>1. AuthoringInv => DoneAsDrawn
  BY MirrorDone DEF AuthoringInv
<1> QED
  BY <1>1, AuthoringHolds, PTL
=============================================================================
