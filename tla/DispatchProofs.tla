--------------------------- MODULE DispatchProofs ---------------------------
(***************************************************************************)
(* Proofs about DispatchEngine for every set of resources, rules, requests  *)
(* and askers, whatever they read while others change it: what a stored     *)
(* recommendation is, and that GET never goes back.  First what the numbers, *)
(* orders and sums it is built from are for every argument.                 *)
(***************************************************************************)
EXTENDS DispatchEngine, FiniteSetTheorems, FunctionTheorems, SequenceTheorems,
        WellFoundedInduction, TLAPS

-----------------------------------------------------------------------------
(* Least and greatest numbers, finite images.                               *)

Below == {pair \in Nat \X Nat : pair[1] < pair[2]}

LEMMA Smallest ==
  ASSUME NEW T, T \subseteq Nat, T # {}
  PROVE  \E m \in T : \A k \in T : ~ (k < m)
<1>1. IsWellFoundedOn(Below, Nat)
  BY NatLessThanWellFounded DEF OpToRel, Below
<1>2. PICK m \in T : \A k \in T : ~ (<<k, m>> \in Below)
  BY <1>1, WFMin, Zenon
<1>3. ASSUME NEW k \in T, k < m PROVE <<k, m>> \in Below
  <2>1. <<k, m>> \in Nat \X Nat /\ <<k, m>>[1] = k /\ <<k, m>>[2] = m
    OBVIOUS
  <2> QED BY <1>3, <2>1 DEF Below
<1> QED BY <1>2, <1>3

\* The values of a function on a finite set.
LEMMA FiniteImage ==
  ASSUME NEW S, IsFiniteSet(S), NEW g
  PROVE  IsFiniteSet({g[x] : x \in S})
<1> DEFINE T == {g[x] : x \in S}
           h == [x \in S |-> g[x]]
<1>1. h \in [S -> T] /\ \A t \in T : \E x \in S : h[x] = t
  OBVIOUS
<1> HIDE DEF h, T
<1>2. IsFiniteSet(T)
  BY <1>1, Fun_IsSurj, FS_Surjection
<1> QED BY <1>2 DEF T

LEMMA Greatest ==
  ASSUME NEW S, S \subseteq Int, IsFiniteSet(S), S # {}
  PROVE  \E m \in S : \A x \in S : m >= x
<1> DEFINE Counter(U) == IsFiniteSet(U) /\ U # {} /\ ~ \E m \in U : \A x \in U : m >= x
           T == {n \in Nat : \E U \in SUBSET S : Counter(U) /\ Cardinality(U) = n}
<1> SUFFICES ASSUME ~ \E m \in S : \A x \in S : m >= x PROVE FALSE
  OBVIOUS
<1>1. Cardinality(S) \in T
  BY FS_CardinalityType
<1>2. PICK n \in T : \A k \in T : ~ (k < n)
  <2>1. T \subseteq Nat /\ T # {}
    BY <1>1
  <2> HIDE DEF T
  <2> QED BY <2>1, Smallest
<1>3. PICK U \in SUBSET S : Counter(U) /\ Cardinality(U) = n
  BY <1>2
<1>4. PICK y \in U : TRUE
  BY <1>3
<1> DEFINE V == U \ {y}
<1>5. IsFiniteSet(V) /\ Cardinality(V) = n - 1 /\ n \in Nat /\ Cardinality(V) \in Nat
  <2>1. IsFiniteSet(V) /\ Cardinality(V) = n - 1
    BY <1>3, <1>4, FS_RemoveElement
  <2> QED BY <1>2, <2>1, FS_CardinalityType
<1>6. ~ Counter(V)
  <2>1. V \in SUBSET S /\ n - 1 < n
    BY <1>5
  <2> QED BY <1>2, <1>5, <2>1
<1>7. CASE V = {}
  <2>1. U = {y} /\ y \in Int
    BY <1>4, <1>7
  <2> QED BY <1>3, <2>1
<1>8. CASE V # {}
  <2>1. PICK m \in V : \A x \in V : m >= x
    BY <1>5, <1>6, <1>8
  <2>2. \A x \in U : x = y \/ x \in V
    OBVIOUS
  <2>3. m \in Int /\ y \in Int /\ m \in U
    BY <1>4
  <2>4. CASE m >= y
    BY <1>3, <2>1, <2>2, <2>3, <2>4
  <2>5. CASE ~ (m >= y)
    <3>1. \A x \in V : x \in Int
      OBVIOUS
    <3>2. \A x \in U : y >= x
      BY <2>1, <2>2, <2>3, <2>5, <3>1
    <3> QED BY <1>3, <1>4, <3>2
  <2> QED BY <2>4, <2>5
<1> QED BY <1>7, <1>8

LEMMA MaxOfSet ==
  ASSUME NEW S, S \subseteq Int, IsFiniteSet(S), S # {}
  PROVE  Max(S) \in S /\ \A x \in S : Max(S) >= x
BY Greatest DEF Max

LEMMA MinOfSet ==
  ASSUME NEW S, S \subseteq Nat, S # {}
  PROVE  Min(S) \in S /\ \A x \in S : Min(S) <= x
<1>1. PICK m \in S : \A k \in S : ~ (k < m)
  BY Smallest
<1>2. \A k \in S : m <= k
  BY <1>1
<1> QED BY <1>1, <1>2 DEF Min

LEMMA MinOfTwo ==
  ASSUME NEW a \in Nat, NEW b \in Nat
  PROVE  Min({a, b}) = IF a <= b THEN a ELSE b
<1>1. Min({a, b}) \in {a, b} /\ \A x \in {a, b} : Min({a, b}) <= x
  BY MinOfSet
<1> QED BY <1>1

LEMMA MaxOfTwo ==
  ASSUME NEW a \in Int, NEW b \in Int
  PROVE  Max({a, b}) = IF a >= b THEN a ELSE b
<1>1. IsFiniteSet({a, b})
  <2>1. IsFiniteSet({a})
    BY FS_Singleton
  <2>2. IsFiniteSet({a} \cup {b})
    BY <2>1, FS_AddElement
  <2>3. {a, b} = {a} \cup {b}
    OBVIOUS
  <2> QED BY <2>2, <2>3
<1>2. Max({a, b}) \in {a, b} /\ \A x \in {a, b} : Max({a, b}) >= x
  BY <1>1, MaxOfSet
<1> QED BY <1>2

-----------------------------------------------------------------------------
(* Sums: who gives n counts as n pairs.                                     *)

Pairs(amount) == UNION {{x} \X (1 .. amount[x]) : x \in DOMAIN amount}
Amounts(amount) == IsFiniteSet(DOMAIN amount) /\ \A x \in DOMAIN amount : amount[x] \in Int

LEMMA PairsAreFinite ==
  ASSUME NEW amount, Amounts(amount)
  PROVE  IsFiniteSet(Pairs(amount))
<1> DEFINE D == DOMAIN amount
           g == [x \in D |-> {x} \X (1 .. amount[x])]
           R == {g[x] : x \in D}
<1>1. IsFiniteSet(R)
  <2>1. IsFiniteSet(D)
    BY DEF Amounts
  <2> HIDE DEF g, D
  <2> QED BY <2>1, FiniteImage
<1>2. ASSUME NEW x \in D PROVE IsFiniteSet({x} \X (1 .. amount[x]))
  <2>1. amount[x] \in Int /\ IsFiniteSet({x})
    BY FS_Singleton DEF Amounts
  <2>2. IsFiniteSet(1 .. amount[x])
    BY <2>1, FS_Interval
  <2> QED BY <2>1, <2>2, FS_Product
<1>3. \A T \in R : IsFiniteSet(T)
  BY <1>2
<1>4. Pairs(amount) = UNION R
  BY DEF Pairs
<1> HIDE DEF R
<1> QED BY <1>1, <1>3, <1>4, FS_UNION

\* A sum is a number, and grows when every positive summand stays or grows.
LEMMA TotalIsNumber ==
  ASSUME NEW amount, Amounts(amount)
  PROVE  Total(amount) \in Nat
BY PairsAreFinite, FS_CardinalityType DEF Total, Pairs

LEMMA TotalGrows ==
  ASSUME NEW some, Amounts(some), NEW more, Amounts(more),
         \A x \in DOMAIN some : some[x] > 0 => x \in DOMAIN more /\ some[x] <= more[x]
  PROVE  Total(some) <= Total(more)
<1>1. ASSUME NEW p \in Pairs(some) PROVE p \in Pairs(more)
  <2>1. PICK x \in DOMAIN some : p \in {x} \X (1 .. some[x])
    BY DEF Pairs
  <2>2. PICK k \in 1 .. some[x] : p = <<x, k>>
    BY <2>1
  <2>3. some[x] \in Int /\ some[x] > 0
    BY <2>2 DEF Amounts
  <2>4. x \in DOMAIN more /\ more[x] \in Int /\ some[x] <= more[x]
    BY <2>3 DEF Amounts
  <2>5. k \in 1 .. more[x]
    BY <2>3, <2>4
  <2>6. p \in {x} \X (1 .. more[x])
    BY <2>2, <2>5
  <2> QED BY <2>4, <2>6 DEF Pairs
<1>2. Pairs(some) \in SUBSET Pairs(more)
  BY <1>1
<1> QED BY <1>2, PairsAreFinite, FS_Subset DEF Total, Pairs

LEMMA TotalOfNothing == ASSUME NEW amount, DOMAIN amount = {} PROVE Total(amount) = 0
<1>1. UNION {{x} \X (1 .. amount[x]) : x \in DOMAIN amount} = {}
  OBVIOUS
<1> QED BY <1>1, FS_EmptySet DEF Total

-----------------------------------------------------------------------------
(* Sorting: whatever order the rows that are alike come in.                  *)

Before(S, before) ==
  /\ \A x \in S : <<x, x>> \notin before
  /\ \A x, y, z \in S : <<x, y>> \in before /\ <<y, z>> \in before => <<x, z>> \in before

\* The first n places of the list are taken by members of S in the order.
InOrder(list, n, before) ==
  \A i, j \in 1 .. n : i < j => list[i] # list[j] /\ <<list[j], list[i]>> \notin before

\* One more finds its place after the last that is before him.
LEMMA Inserted ==
  ASSUME NEW S, NEW before, Before(S, before), NEW n \in Nat,
         NEW list \in [1 .. n -> S], InOrder(list, n, before),
         NEW y \in S, \A i \in 1 .. n : list[i] # y
  PROVE  \E longer \in [1 .. n + 1 -> S] : InOrder(longer, n + 1, before)
<1> DEFINE T == {k \in Nat : \A i \in 1 .. n : i > k => <<list[i], y>> \notin before}
<1>1. n \in T
  OBVIOUS
<1>2. PICK k \in T : \A j \in T : ~ (j < k)
  <2>1. T \subseteq Nat /\ T # {}
    BY <1>1
  <2> HIDE DEF T
  <2> QED BY <2>1, Smallest
<1>3. k \in 0 .. n /\ \A i \in 1 .. n : i > k => <<list[i], y>> \notin before
  BY <1>1, <1>2
<1>4. k # 0 => <<list[k], y>> \in before
  <2> SUFFICES ASSUME k # 0, <<list[k], y>> \notin before PROVE FALSE
    OBVIOUS
  <2>1. k - 1 \in Nat /\ k - 1 < k
    BY <1>3
  <2>2. \A i \in 1 .. n : i > k - 1 => i = k \/ i > k
    BY <1>3
  <2>3. k - 1 \in T
    BY <1>3, <2>1, <2>2
  <2> QED BY <1>2, <2>1, <2>3
<1> HIDE DEF T
<1>5. \A i \in 1 .. k : <<y, list[i]>> \notin before
  <2> SUFFICES ASSUME NEW i \in 1 .. k, <<y, list[i]>> \in before PROVE FALSE
    OBVIOUS
  <2>1. k # 0 /\ k \in 1 .. n /\ i \in 1 .. n /\ list[k] \in S /\ list[i] \in S
    BY <1>3
  <2>2. <<list[k], list[i]>> \in before
    BY <1>4, <2>1 DEF Before
  <2>3. CASE i = k
    BY <2>1, <2>2, <2>3 DEF Before
  <2>4. CASE i < k
    BY <2>1, <2>2, <2>4 DEF InOrder
  <2> QED BY <2>1, <2>3, <2>4
<1> DEFINE g == [i \in 1 .. n + 1 |-> IF i <= k THEN list[i] ELSE IF i = k + 1 THEN y ELSE list[i - 1]]
<1>6. g \in [1 .. n + 1 -> S]
  <2> SUFFICES ASSUME NEW i \in 1 .. n + 1 PROVE g[i] \in S
    OBVIOUS
  <2>1. CASE i <= k
    BY <1>3, <2>1
  <2>2. CASE i > k + 1
    <3>1. i - 1 \in 1 .. n
      BY <1>3, <2>2
    <3> QED BY <1>3, <2>2, <3>1
  <2>3. CASE i = k + 1
    BY <1>3, <2>3
  <2> QED BY <1>3, <2>1, <2>2, <2>3
<1>7. ASSUME NEW i \in 1 .. n + 1, NEW j \in 1 .. n + 1, i < j
      PROVE  g[i] # g[j] /\ <<g[j], g[i]>> \notin before
  <2>1. CASE i <= k /\ j <= k
    <3>1. g[i] = list[i] /\ g[j] = list[j] /\ i \in 1 .. n /\ j \in 1 .. n
      BY <1>3, <2>1
    <3> HIDE DEF g
    <3> QED BY <1>7, <3>1 DEF InOrder
  <2>2. CASE i <= k /\ j = k + 1
    <3>1. g[i] = list[i] /\ g[j] = y /\ i \in 1 .. n /\ i \in 1 .. k
      BY <1>3, <2>2
    <3> HIDE DEF g
    <3> QED BY <1>5, <3>1
  <2>3. CASE i <= k /\ j > k + 1
    <3>1. g[i] = list[i] /\ g[j] = list[j - 1] /\ i \in 1 .. n /\ j - 1 \in 1 .. n /\ i < j - 1
      BY <1>3, <2>3
    <3> HIDE DEF g
    <3> QED BY <3>1 DEF InOrder
  <2>4. CASE i = k + 1 /\ j > k + 1
    <3>1. g[i] = y /\ g[j] = list[j - 1] /\ j - 1 \in 1 .. n /\ j - 1 > k
      BY <1>3, <2>4
    <3> HIDE DEF g
    <3> QED BY <1>3, <3>1
  <2>5. CASE i > k + 1 /\ j > k + 1
    <3>1. /\ g[i] = list[i - 1] /\ g[j] = list[j - 1]
          /\ i - 1 \in 1 .. n /\ j - 1 \in 1 .. n /\ i - 1 < j - 1
      BY <1>3, <1>7, <2>5
    <3> HIDE DEF g
    <3> QED BY <3>1 DEF InOrder
  <2> QED BY <1>3, <1>7, <2>1, <2>2, <2>3, <2>4, <2>5
<1> HIDE DEF g
<1> QED BY <1>6, <1>7 DEF InOrder

LEMMA SortedExists ==
  ASSUME NEW S, IsFiniteSet(S), NEW before, Before(S, before)
  PROVE  \E list \in [1 .. Cardinality(S) -> S] : InOrder(list, Cardinality(S), before)
<1> DEFINE Done(U) == \E list \in [1 .. Cardinality(U) -> U] : InOrder(list, Cardinality(U), before)
           T == {n \in Nat : \E U \in SUBSET S : ~ Done(U) /\ Cardinality(U) = n}
<1> SUFFICES ASSUME ~ Done(S) PROVE FALSE
  OBVIOUS
<1>1. Cardinality(S) \in T
  <2>1. S \in SUBSET S /\ Cardinality(S) \in Nat
    BY FS_CardinalityType
  <2> HIDE DEF Done
  <2> QED BY <2>1
<1>2. PICK n \in T : \A k \in T : ~ (k < n)
  <2>1. T \subseteq Nat /\ T # {}
    BY <1>1
  <2> HIDE DEF T
  <2> QED BY <2>1, Smallest
<1>3. PICK U \in SUBSET S : ~ Done(U) /\ Cardinality(U) = n
  <2> HIDE DEF Done
  <2> QED BY <1>2
<1>4. n \in Nat
  <2> HIDE DEF Done
  <2> QED BY <1>2
<1>5. IsFiniteSet(U)
  BY FS_Subset
<1>6. U # {}
  <2> SUFFICES ASSUME U = {} PROVE FALSE
    OBVIOUS
  <2>1. n = 0
    BY <1>3, FS_EmptySet
  <2>2. [i \in 1 .. 0 |-> i] \in [1 .. 0 -> U]
    OBVIOUS
  <2>3. InOrder([i \in 1 .. 0 |-> i], 0, before)
    BY DEF InOrder
  <2> QED BY <1>3, <2>1, <2>2, <2>3
<1>7. PICK y \in U : TRUE
  BY <1>6
<1> DEFINE V == U \ {y}
<1>8. Cardinality(V) = n - 1 /\ Cardinality(V) \in Nat
  <2>1. IsFiniteSet(V) /\ Cardinality(V) = n - 1
    BY <1>3, <1>5, <1>7, FS_RemoveElement
  <2> QED BY <2>1, FS_CardinalityType
<1>9. Done(V)
  <2>1. V \in SUBSET S /\ n - 1 < n /\ n - 1 \in Nat
    BY <1>4, <1>8
  <2> HIDE DEF Done
  <2> QED BY <1>2, <1>8, <2>1
<1>10. PICK list \in [1 .. n - 1 -> V] : InOrder(list, n - 1, before)
  BY <1>8, <1>9
<1>11. /\ list \in [1 .. n - 1 -> U] /\ \A i \in 1 .. n - 1 : list[i] # y
       /\ n - 1 \in Nat /\ n - 1 + 1 = n
  BY <1>4, <1>8, <1>10
<1>12. Before(U, before)
  <2>1. U \subseteq S
    OBVIOUS
  <2> QED BY <2>1 DEF Before
<1>13. \E longer \in [1 .. (n - 1) + 1 -> U] : InOrder(longer, (n - 1) + 1, before)
  BY <1>7, <1>10, <1>11, <1>12, Inserted
<1> QED BY <1>3, <1>11, <1>13

\* sorted() answers the members of S, each once, in the order.
LEMMA SortedFacts ==
  ASSUME NEW S, IsFiniteSet(S), NEW before, Before(S, before)
  PROVE  LET list == Sorted(S, before) IN
         /\ list \in Seq(S) /\ Len(list) = Cardinality(S) /\ Len(list) \in Nat
         /\ \A x \in S : \E i \in 1 .. Len(list) : list[i] = x
         /\ InOrder(list, Len(list), before)
<1> DEFINE n == Cardinality(S)
           list == Sorted(S, before)
<1>1. n \in Nat
  BY FS_CardinalityType
<1>2. list \in [1 .. n -> S] /\ InOrder(list, n, before)
  BY SortedExists DEF Sorted, InOrder
<1>3. list \in Seq(S) /\ Len(list) = n
  BY <1>1, <1>2, SeqDef, LenProperties
<1> HIDE DEF list
<1>4. ASSUME NEW i \in 1 .. n, NEW j \in 1 .. n, list[i] = list[j] PROVE i = j
  <2>1. ~ (i < j) /\ ~ (j < i)
    BY <1>2, <1>4 DEF InOrder
  <2> QED BY <1>1, <2>1
<1>5. \A x \in S : \E i \in 1 .. n : list[i] = x
  <2>1. list \in Injection(1 .. n, S)
    BY <1>2, <1>4, Fun_IsInj
  <2>2. Cardinality(1 .. n) = n
    BY <1>1, FS_Interval
  <2> HIDE DEF n
  <2>3. list \in Surjection(1 .. n, S)
    BY <2>1, <2>2, FS_Injection DEF n
  <2>4. \A x \in S : \E i \in 1 .. n : list[i] = x
    BY <2>3 DEF Surjection
  <2> QED BY <2>4
<1> QED BY <1>1, <1>2, <1>3, <1>5 DEF list

-----------------------------------------------------------------------------
(* Lists in which nobody is twice, and what a comprehension keeps of one.    *)

Once(list) == \A i, j \in 1 .. Len(list) : i < j => list[i] # list[j]

LEMMA OnceIsInjective ==
  ASSUME NEW S, NEW list \in Seq(S), Once(list),
         NEW i \in 1 .. Len(list), NEW j \in 1 .. Len(list), list[i] = list[j]
  PROVE  i = j
<1>1. ~ (i < j) /\ ~ (j < i)
  BY DEF Once
<1> QED BY <1>1

LEMMA MembersOfList ==
  ASSUME NEW S, NEW list \in Seq(S)
  PROVE  /\ ToSet(list) \subseteq S
         /\ \A x : x \in ToSet(list) <=> \E i \in 1 .. Len(list) : list[i] = x
<1>1. DOMAIN list = 1 .. Len(list) /\ \A i \in 1 .. Len(list) : list[i] \in S
  BY LenProperties, ElementOfSeq
<1> QED BY <1>1 DEF ToSet

\* A list is as long as it has members.
LEMMA OnceCounts ==
  ASSUME NEW S, NEW list \in Seq(S), Once(list)
  PROVE  IsFiniteSet(ToSet(list)) /\ Cardinality(ToSet(list)) = Len(list)
<1> DEFINE n == Len(list)
           T == ToSet(list)
<1>1. n \in Nat /\ list \in [1 .. n -> S]
  BY LenProperties
<1>2. \A i \in 1 .. n : list[i] \in T
  BY MembersOfList
<1>3. list \in [1 .. n -> T]
  BY <1>1, <1>2
<1>4. \A x \in T : \E i \in 1 .. n : list[i] = x
  BY MembersOfList
<1>5. \A i, j \in 1 .. n : list[i] = list[j] => i = j
  BY OnceIsInjective
<1>6. IsFiniteSet(1 .. n) /\ Cardinality(1 .. n) = n
  BY <1>1, FS_Interval
<1> HIDE DEF n, T
<1>7. list \in Bijection(1 .. n, T)
  BY <1>3, <1>4, <1>5, Fun_IsBij
<1>8. ExistsBijection(1 .. n, T)
  BY <1>7, Fun_ExistsBij
<1>9. IsFiniteSet(T) /\ Cardinality(T) = Cardinality(1 .. n)
  BY <1>6, <1>8, FS_Bijection
<1> QED BY <1>6, <1>9 DEF n, T

\* The comprehension, one member further.
OnePicked(list, wanted, picked, n) ==
  IF n = 0 THEN <<>>
  ELSE IF list[n] \in wanted THEN Append(picked[n - 1], list[n]) ELSE picked[n - 1]
Picks(list, wanted, picked, m) ==
  picked = [n \in 0 .. m |-> OnePicked(list, wanted, picked, n)]

LEMMA PicksExists ==
  ASSUME NEW list, NEW wanted, NEW m \in Nat
  PROVE  \E picked : Picks(list, wanted, picked, m)
<1> DEFINE T == {n \in Nat : ~ \E picked : Picks(list, wanted, picked, n)}
<1> SUFFICES ASSUME T # {} PROVE FALSE
  OBVIOUS
<1>1. PICK n \in T : \A k \in T : ~ (k < n)
  <2>1. T \subseteq Nat
    OBVIOUS
  <2> HIDE DEF T
  <2> QED BY <2>1, Smallest
<1>2. CASE n = 0
  <2> DEFINE g == [k \in 0 .. 0 |-> <<>>]
  <2>1. Picks(list, wanted, g, 0)
    BY DEF Picks, OnePicked
  <2> QED BY <1>2, <2>1
<1>3. CASE n # 0
  <2>1. n - 1 \in Nat /\ n - 1 < n /\ n \in Nat
    BY <1>3
  <2>2. PICK picked : Picks(list, wanted, picked, n - 1)
    BY <1>1, <2>1
  <2> DEFINE g == [k \in 0 .. n |-> IF k = n THEN OnePicked(list, wanted, picked, n) ELSE picked[k]]
  <2>3. ASSUME NEW k \in 0 .. n PROVE g[k] = OnePicked(list, wanted, g, k)
    <3>1. CASE k = n
      BY <2>1, <3>1 DEF OnePicked
    <3>2. CASE k # n
      <4>1. k \in 0 .. n - 1 /\ g[k] = picked[k]
        BY <2>1, <3>2
      <4>2. picked[k] = OnePicked(list, wanted, picked, k)
        BY <2>2, <4>1 DEF Picks
      <4>3. k # 0 => g[k - 1] = picked[k - 1]
        BY <2>1, <4>1
      <4> QED BY <4>1, <4>2, <4>3 DEF OnePicked
    <3> QED BY <3>1, <3>2
  <2>4. g = [k \in 0 .. n |-> g[k]]
    OBVIOUS
  <2> HIDE DEF g
  <2>5. Picks(list, wanted, g, n)
    BY <2>3, <2>4 DEF Picks
  <2> QED BY <2>5
<1> QED BY <1>2, <1>3

\* q is what is picked of the first n members, in their order.
Shows(S, list, wanted, q, n) ==
  /\ q \in Seq(S)
  /\ \A k \in 1 .. n : list[k] \in wanted => \E i \in 1 .. Len(q) : q[i] = list[k]
  /\ \A i \in 1 .. Len(q) : \E k \in 1 .. n : q[i] = list[k] /\ list[k] \in wanted
  /\ \A i, j \in 1 .. Len(q) :
       i < j => \E k, l \in 1 .. n : k < l /\ q[i] = list[k] /\ q[j] = list[l]

LEMMA ShowsSkips ==
  ASSUME NEW S, NEW b, NEW w, NEW q, NEW n \in Nat, n # 0,
         Shows(S, b, w, q, n - 1), b[n] \notin w
  PROVE  Shows(S, b, w, q, n)
<1>1. \A k \in 1 .. n - 1 : k \in 1 .. n
  OBVIOUS
<1>2. \A k \in 1 .. n : k = n \/ k \in 1 .. n - 1
  OBVIOUS
<1>3. \A i \in 1 .. Len(q) : \E k \in 1 .. n : q[i] = b[k] /\ b[k] \in w
  BY <1>1 DEF Shows
<1>4. \A k \in 1 .. n : b[k] \in w => \E i \in 1 .. Len(q) : q[i] = b[k]
  BY <1>2 DEF Shows
<1>5. \A i, j \in 1 .. Len(q) :
        i < j => \E k, l \in 1 .. n : k < l /\ q[i] = b[k] /\ q[j] = b[l]
  BY <1>1 DEF Shows
<1> QED BY <1>3, <1>4, <1>5 DEF Shows

LEMMA ShowsAppends ==
  ASSUME NEW S, NEW b, NEW w, NEW q, NEW n \in Nat, n # 0,
         Shows(S, b, w, q, n - 1), b[n] \in w, b[n] \in S
  PROVE  Shows(S, b, w, Append(q, b[n]), n)
<1> DEFINE r == Append(q, b[n])
<1>1. \A k \in 1 .. n - 1 : k \in 1 .. n /\ k < n
  OBVIOUS
<1>2. \A k \in 1 .. n : k = n \/ k \in 1 .. n - 1
  OBVIOUS
<1>3. q \in Seq(S) /\ Len(q) \in Nat
  BY DEF Shows
<1>4. /\ r \in Seq(S)
      /\ Len(r) = Len(q) + 1
      /\ \A i \in 1 .. Len(q) : r[i] = q[i]
      /\ r[Len(q) + 1] = b[n]
  BY <1>3, AppendProperties
<1>5. \A i \in 1 .. Len(r) : i = Len(q) + 1 \/ i \in 1 .. Len(q)
  BY <1>3, <1>4
<1>6. /\ \A i \in 1 .. Len(q) : i \in 1 .. Len(r)
      /\ Len(q) + 1 \in 1 .. Len(r)
      /\ n \in 1 .. n
  BY <1>3, <1>4
<1> HIDE DEF r
<1>7. ASSUME NEW k \in 1 .. n, b[k] \in w PROVE \E i \in 1 .. Len(r) : r[i] = b[k]
  <2>1. CASE k = n
    BY <1>4, <1>6, <2>1
  <2>2. CASE k \in 1 .. n - 1
    <3>1. PICK i \in 1 .. Len(q) : q[i] = b[k]
      BY <1>7, <2>2 DEF Shows
    <3> QED BY <1>4, <1>6, <3>1
  <2> QED BY <1>2, <2>1, <2>2
<1>8. ASSUME NEW i \in 1 .. Len(r) PROVE \E k \in 1 .. n : r[i] = b[k] /\ b[k] \in w
  <2>1. CASE i = Len(q) + 1
    BY <1>4, <1>6, <2>1
  <2>2. CASE i \in 1 .. Len(q)
    <3>1. PICK k \in 1 .. n - 1 : q[i] = b[k] /\ b[k] \in w
      BY <2>2 DEF Shows
    <3> QED BY <1>1, <1>4, <2>2, <3>1
  <2> QED BY <1>5, <2>1, <2>2
<1>9. ASSUME NEW i \in 1 .. Len(r), NEW j \in 1 .. Len(r), i < j
      PROVE  \E k, l \in 1 .. n : k < l /\ r[i] = b[k] /\ r[j] = b[l]
  <2>1. i \in 1 .. Len(q)
    BY <1>3, <1>4, <1>9
  <2>2. CASE j = Len(q) + 1
    <3>1. PICK k \in 1 .. n - 1 : q[i] = b[k] /\ b[k] \in w
      BY <2>1 DEF Shows
    <3> QED BY <1>1, <1>4, <1>6, <2>1, <2>2, <3>1
  <2>3. CASE j \in 1 .. Len(q)
    <3>1. PICK k \in 1 .. n - 1, l \in 1 .. n - 1 : k < l /\ q[i] = b[k] /\ q[j] = b[l]
      BY <1>9, <2>1, <2>3 DEF Shows
    <3> QED BY <1>1, <1>4, <2>1, <2>3, <3>1
  <2> QED BY <1>5, <2>2, <2>3
<1> QED BY <1>4, <1>7, <1>8, <1>9 DEF Shows, r

LEMMA PickedShows ==
  ASSUME NEW S, NEW b \in Seq(S), NEW w
  PROVE  Shows(S, b, w, Picked(b, w), Len(b))
<1> DEFINE picked == CHOOSE x : Picks(b, w, x, Len(b))
<1>1. Picked(b, w) = picked[Len(b)]
  BY DEF Picked, Picks, OnePicked
<1>2. Len(b) \in Nat
  OBVIOUS
<1>3. Picks(b, w, picked, Len(b))
  BY <1>2, PicksExists
<1> HIDE DEF picked
<1>4. \A k \in 0 .. Len(b) : picked[k] = OnePicked(b, w, picked, k)
  BY <1>3 DEF Picks
<1> DEFINE T == {n \in 0 .. Len(b) : ~ Shows(S, b, w, picked[n], n)}
<1>5. T = {}
  <2> SUFFICES ASSUME T # {} PROVE FALSE
    OBVIOUS
  <2>1. T \subseteq Nat
    BY <1>2
  <2>2. PICK n \in T : \A k \in T : ~ (k < n)
    <3> HIDE DEF T
    <3> QED BY <2>1, Smallest
  <2>3. n \in 0 .. Len(b) /\ n \in Nat /\ ~ Shows(S, b, w, picked[n], n)
    BY <2>2
  <2>4. CASE n = 0
    <3>1. picked[0] = <<>>
      BY <1>4, <2>3, <2>4 DEF OnePicked
    <3>2. Shows(S, b, w, <<>>, 0)
      BY DEF Shows
    <3> QED BY <2>3, <2>4, <3>1, <3>2
  <2>5. CASE n # 0
    <3>1. n - 1 \in 0 .. Len(b) /\ n - 1 < n
      BY <1>2, <2>3, <2>5
    <3>2. Shows(S, b, w, picked[n - 1], n - 1)
      BY <2>2, <3>1
    <3>3. picked[n] = IF b[n] \in w THEN Append(picked[n - 1], b[n]) ELSE picked[n - 1]
      BY <1>4, <2>3, <2>5 DEF OnePicked
    <3>4. b[n] \in S
      BY <2>3, <2>5, ElementOfSeq
    <3>5. CASE b[n] \notin w
      BY <2>3, <2>5, <3>2, <3>3, <3>5, ShowsSkips
    <3>6. CASE b[n] \in w
      BY <2>3, <2>5, <3>2, <3>3, <3>4, <3>6, ShowsAppends
    <3> QED BY <3>5, <3>6
  <2> QED BY <2>4, <2>5
<1>6. Len(b) \in 0 .. Len(b)
  BY <1>2
<1> QED BY <1>1, <1>5, <1>6

\* What is picked keeps the order, and nobody comes twice who was there once.
LEMMA PickedFacts ==
  ASSUME NEW S, NEW list \in Seq(S), NEW wanted, Once(list)
  PROVE  LET q == Picked(list, wanted) IN
         /\ q \in Seq(S) /\ Once(q)
         /\ ToSet(q) = ToSet(list) \cap wanted
         /\ \A i, j \in 1 .. Len(q) :
              i < j => \E k, l \in 1 .. Len(list) : k < l /\ q[i] = list[k] /\ q[j] = list[l]
<1> DEFINE q == Picked(list, wanted)
<1>1. Shows(S, list, wanted, q, Len(list))
  BY PickedShows
<1> HIDE DEF q
<1>2. q \in Seq(S)
  BY <1>1 DEF Shows
<1>3. \A i, j \in 1 .. Len(q) :
        i < j => \E k, l \in 1 .. Len(list) : k < l /\ q[i] = list[k] /\ q[j] = list[l]
  BY <1>1 DEF Shows
<1>4. Once(q)
  BY <1>3 DEF Once
<1>5. ToSet(q) = ToSet(list) \cap wanted
  <2>1. ASSUME NEW x \in ToSet(q) PROVE x \in ToSet(list) /\ x \in wanted
    <3>1. PICK i \in 1 .. Len(q) : q[i] = x
      BY <1>2, MembersOfList
    <3>2. PICK k \in 1 .. Len(list) : q[i] = list[k] /\ list[k] \in wanted
      BY <1>1 DEF Shows
    <3> QED BY <3>1, <3>2, MembersOfList
  <2>2. ASSUME NEW x \in ToSet(list), x \in wanted PROVE x \in ToSet(q)
    <3>1. PICK k \in 1 .. Len(list) : list[k] = x
      BY MembersOfList
    <3>2. PICK i \in 1 .. Len(q) : q[i] = list[k]
      BY <1>1, <2>2, <3>1 DEF Shows
    <3> QED BY <1>2, <3>1, <3>2, MembersOfList
  <2> QED BY <2>1, <2>2
<1> QED BY <1>2, <1>3, <1>4, <1>5 DEF q

\* The first n of a list.
LEMMA FirstOfList ==
  ASSUME NEW S, NEW list \in Seq(S), Once(list), NEW n \in 0 .. Len(list)
  PROVE  LET q == SubSeq(list, 1, n) IN
         /\ q \in Seq(S) /\ Once(q) /\ Len(q) = n
         /\ \A i \in 1 .. n : q[i] = list[i]
         /\ ToSet(q) \subseteq ToSet(list)
<1> DEFINE q == SubSeq(list, 1, n)
<1>1. n \in Nat /\ n \in Int /\ n <= Len(list) /\ Len(list) \in Nat
  BY LenProperties
<1>2. \A i \in 1 .. n : list[i] \in S
  BY <1>1, ElementOfSeq
<1>3. q \in Seq(S) /\ Len(q) = n /\ \A i \in 1 .. n : q[i] = list[i]
  BY <1>1, <1>2, SubSeqProperties
<1> HIDE DEF q
<1>4. Once(q)
  BY <1>1, <1>3 DEF Once
<1>5. ToSet(q) \subseteq ToSet(list)
  BY <1>1, <1>3, MembersOfList
<1> QED BY <1>3, <1>4, <1>5 DEF q

-----------------------------------------------------------------------------
(* The greedy strategy.                                                     *)

\* What the resources of R provide and what is asked can be counted.
Countable(req, seen, R) ==
  \A code \in DOMAIN req.needs :
    req.needs[code].quantity \in Int /\ \A u \in R : seen[u].provides[code] \in Nat

\* A crew that all who provide the capability are in provides as much as any other.
LEMMA ProvidedGrows ==
  ASSUME NEW seen, NEW code, NEW C, NEW D, IsFiniteSet(C), IsFiniteSet(D),
         \A u \in C \cup D : seen[u].provides[code] \in Nat,
         \A u \in C : seen[u].provides[code] > 0 => u \in D
  PROVE  /\ Provided(seen, C, code) \in Nat /\ Provided(seen, D, code) \in Nat
         /\ Provided(seen, C, code) <= Provided(seen, D, code)
<1> DEFINE some == [u \in C |-> seen[u].provides[code]]
           more == [u \in D |-> seen[u].provides[code]]
<1>1. Amounts(some) /\ Amounts(more)
  BY DEF Amounts
<1>2. \A u \in DOMAIN some : some[u] > 0 => u \in DOMAIN more /\ some[u] <= more[u]
  OBVIOUS
<1> HIDE DEF some, more
<1>3. Total(some) \in Nat /\ Total(more) \in Nat /\ Total(some) <= Total(more)
  BY <1>1, <1>2, TotalIsNumber, TotalGrows
<1> QED BY <1>3 DEF Provided, some, more

\* The loop over the ranked, one further.
OneCrew(req, seen, ranked, crew, n) ==
  IF n = 0 THEN SubSeq(ranked, 1, Target(req, Len(ranked)))
  ELSE TopUp(req, seen, crew[n - 1], ranked[n])
Crews(req, seen, ranked, crew, m) ==
  crew = [n \in 0 .. m |-> OneCrew(req, seen, ranked, crew, n)]

LEMMA CrewsExists ==
  ASSUME NEW req, NEW seen, NEW ranked, NEW m \in Nat
  PROVE  \E crew : Crews(req, seen, ranked, crew, m)
<1> DEFINE T == {n \in Nat : ~ \E crew : Crews(req, seen, ranked, crew, n)}
<1> SUFFICES ASSUME T # {} PROVE FALSE
  OBVIOUS
<1>1. PICK n \in T : \A k \in T : ~ (k < n)
  <2>1. T \subseteq Nat
    OBVIOUS
  <2> HIDE DEF T
  <2> QED BY <2>1, Smallest
<1>2. CASE n = 0
  <2> DEFINE g == [k \in 0 .. 0 |-> SubSeq(ranked, 1, Target(req, Len(ranked)))]
  <2>1. Crews(req, seen, ranked, g, 0)
    BY DEF Crews, OneCrew
  <2> QED BY <1>2, <2>1
<1>3. CASE n # 0
  <2>1. n - 1 \in Nat /\ n - 1 < n /\ n \in Nat
    BY <1>3
  <2>2. PICK crew : Crews(req, seen, ranked, crew, n - 1)
    BY <1>1, <2>1
  <2> DEFINE g == [k \in 0 .. n |-> IF k = n THEN OneCrew(req, seen, ranked, crew, n) ELSE crew[k]]
  <2>3. ASSUME NEW k \in 0 .. n PROVE g[k] = OneCrew(req, seen, ranked, g, k)
    <3>1. CASE k = n
      BY <2>1, <3>1 DEF OneCrew
    <3>2. CASE k # n
      <4>1. k \in 0 .. n - 1 /\ g[k] = crew[k]
        BY <2>1, <3>2
      <4>2. crew[k] = OneCrew(req, seen, ranked, crew, k)
        BY <2>2, <4>1 DEF Crews
      <4>3. k # 0 => g[k - 1] = crew[k - 1]
        BY <2>1, <4>1
      <4> QED BY <4>1, <4>2, <4>3 DEF OneCrew
    <3> QED BY <3>1, <3>2
  <2>4. g = [k \in 0 .. n |-> g[k]]
    OBVIOUS
  <2> HIDE DEF g
  <2>5. Crews(req, seen, ranked, g, n)
    BY <2>3, <2>4 DEF Crews
  <2> QED BY <2>5
<1> QED BY <1>2, <1>3

\* After n steps: the best, and whoever of the first n covers what is still lacking.
Chosen(req, seen, ranked, crew, n) ==
  /\ crew \in Seq(ToSet(ranked)) /\ Once(crew)
  /\ Len(crew) >= Target(req, Len(ranked))
  /\ Mandatory(req) = {} => Len(crew) = Target(req, Len(ranked))
  /\ \A code \in Mandatory(req), k \in 1 .. n :
       Provides(seen[ranked[k]], code) =>
         ~ Lacks(req, seen, crew, code) \/ ranked[k] \in ToSet(crew)

LEMMA LacksNoMore ==
  ASSUME NEW req, NEW seen, NEW R, Countable(req, seen, R),
         NEW crew \in Seq(R), Once(crew), NEW more \in Seq(R), Once(more),
         ToSet(crew) \subseteq ToSet(more),
         NEW code \in DOMAIN req.needs, ~ Lacks(req, seen, crew, code)
  PROVE  ~ Lacks(req, seen, more, code)
<1> DEFINE C == ToSet(crew)
           D == ToSet(more)
<1>1. IsFiniteSet(C) /\ IsFiniteSet(D)
  BY OnceCounts
<1>2. C \subseteq R /\ D \subseteq R
  BY MembersOfList
<1>3. \A u \in C \cup D : seen[u].provides[code] \in Nat
  BY <1>2 DEF Countable
<1>4. req.needs[code].quantity \in Int
  BY DEF Countable
<1>5. C \subseteq D
  OBVIOUS
<1>6. ~ (Provided(seen, C, code) < req.needs[code].quantity)
  BY DEF Lacks
<1> HIDE DEF C, D
<1>7. /\ Provided(seen, C, code) \in Nat /\ Provided(seen, D, code) \in Nat
      /\ Provided(seen, C, code) <= Provided(seen, D, code)
  BY <1>1, <1>3, <1>5, ProvidedGrows
<1>8. ~ (Provided(seen, D, code) < req.needs[code].quantity)
  BY <1>4, <1>6, <1>7
<1> QED BY <1>8 DEF Lacks, D

LEMMA ChosenStep ==
  ASSUME NEW req, NEW seen, NEW ranked, NEW n \in Nat, NEW crew,
         Countable(req, seen, ToSet(ranked)), Target(req, Len(ranked)) \in Nat,
         ranked[n + 1] \in ToSet(ranked), Chosen(req, seen, ranked, crew, n)
  PROVE  Chosen(req, seen, ranked, TopUp(req, seen, crew, ranked[n + 1]), n + 1)
<1> DEFINE R == ToSet(ranked)
           u == ranked[n + 1]
           r == TopUp(req, seen, crew, u)
<1>1. crew \in Seq(R) /\ Once(crew) /\ Len(crew) \in Nat /\ u \in R
  BY LenProperties DEF Chosen
<1>2. \A k \in 1 .. n + 1 : k = n + 1 \/ k \in 1 .. n
  OBVIOUS
<1>3. CASE u \notin ToSet(crew)
           /\ \E code \in Mandatory(req) : Lacks(req, seen, crew, code) /\ Provides(seen[u], code)
  <2>1. r = Append(crew, u)
    BY <1>3 DEF TopUp
  <2> HIDE DEF r, R, u
  <2>2. /\ r \in Seq(R) /\ Len(r) = Len(crew) + 1
        /\ \A i \in 1 .. Len(crew) : r[i] = crew[i]
        /\ r[Len(crew) + 1] = u
    BY <1>1, <2>1, AppendProperties
  <2>3. \A i \in 1 .. Len(crew) : crew[i] # u
    BY <1>1, <1>3, MembersOfList
  <2>4. Once(r)
    <3> SUFFICES ASSUME NEW i \in 1 .. Len(r), NEW j \in 1 .. Len(r), i < j PROVE r[i] # r[j]
      BY DEF Once
    <3>1. i \in 1 .. Len(crew) /\ (j \in 1 .. Len(crew) \/ j = Len(crew) + 1)
      BY <1>1, <2>2
    <3> QED BY <1>1, <2>2, <2>3, <3>1 DEF Once
  <2>5. u \in ToSet(r) /\ ToSet(crew) \subseteq ToSet(r)
    <3>1. Len(crew) + 1 \in 1 .. Len(r) /\ \A i \in 1 .. Len(crew) : i \in 1 .. Len(r)
      BY <1>1, <2>2
    <3> QED BY <1>1, <2>2, <3>1, MembersOfList
  <2>6. ASSUME NEW code \in Mandatory(req), NEW k \in 1 .. n + 1, Provides(seen[ranked[k]], code)
        PROVE  ~ Lacks(req, seen, r, code) \/ ranked[k] \in ToSet(r)
    <3>1. CASE k = n + 1
      BY <2>5, <3>1 DEF u
    <3>2. CASE k \in 1 .. n
      <4>1. ~ Lacks(req, seen, crew, code) \/ ranked[k] \in ToSet(crew)
        BY <2>6, <3>2 DEF Chosen
      <4>2. code \in DOMAIN req.needs /\ Countable(req, seen, R)
        BY DEF Mandatory, R
      <4> QED BY <1>1, <2>2, <2>4, <2>5, <4>1, <4>2, LacksNoMore
    <3> QED BY <1>2, <3>1, <3>2
  <2>7. Len(r) >= Target(req, Len(ranked))
    BY <1>1, <2>2 DEF Chosen
  <2>8. Mandatory(req) # {}
    BY <1>3
  <2>9. Chosen(req, seen, ranked, r, n + 1)
    BY <2>2, <2>4, <2>6, <2>7, <2>8 DEF Chosen, R
  <2> QED BY <2>9 DEF r, u
<1>4. CASE ~ (u \notin ToSet(crew)
              /\ \E code \in Mandatory(req) : Lacks(req, seen, crew, code) /\ Provides(seen[u], code))
  <2>1. r = crew
    BY <1>4 DEF TopUp
  <2> HIDE DEF r, R
  <2>2. ASSUME NEW code \in Mandatory(req), NEW k \in 1 .. n + 1, Provides(seen[ranked[k]], code)
        PROVE  ~ Lacks(req, seen, crew, code) \/ ranked[k] \in ToSet(crew)
    <3>1. CASE k = n + 1
      BY <1>4, <2>2, <3>1
    <3>2. CASE k \in 1 .. n
      BY <2>2, <3>2 DEF Chosen
    <3> QED BY <1>2, <3>1, <3>2
  <2>3. Chosen(req, seen, ranked, crew, n + 1)
    BY <2>2 DEF Chosen
  <2> QED BY <2>1, <2>3 DEF r
<1> QED BY <1>3, <1>4

\* GreedyCapabilitySelectionStrategy: nobody twice, at least the target, and as long as
\* a mandatory capability is lacking, everybody who provides it.
LEMMA SelectFacts ==
  ASSUME NEW req, NEW seen, NEW S, NEW ranked \in Seq(S), Once(ranked),
         Countable(req, seen, ToSet(ranked)),
         Target(req, Len(ranked)) \in 0 .. Len(ranked)
  PROVE  Chosen(req, seen, ranked, Select(req, seen, ranked), Len(ranked))
<1> DEFINE m == Len(ranked)
           crew == CHOOSE x : Crews(req, seen, ranked, x, m)
           first == SubSeq(ranked, 1, Target(req, m))
<1>1. Select(req, seen, ranked) = crew[m]
  BY DEF Select, Crews, OneCrew
<1>2. m \in Nat /\ Target(req, m) \in Nat
  BY LenProperties
<1>3. Crews(req, seen, ranked, crew, m)
  BY <1>2, CrewsExists
<1> HIDE DEF crew
<1>4. \A k \in 0 .. m : crew[k] = OneCrew(req, seen, ranked, crew, k)
  BY <1>3 DEF Crews
<1>5. Chosen(req, seen, ranked, first, 0)
  <2>1. ranked \in Seq(ToSet(ranked))
    <3>1. ranked \in [1 .. Len(ranked) -> ToSet(ranked)]
      <4>1. ranked \in [1 .. Len(ranked) -> S] /\ \A i \in 1 .. Len(ranked) : ranked[i] \in ToSet(ranked)
        BY LenProperties, MembersOfList
      <4> QED BY <4>1
    <3> QED BY <1>2, <3>1, SeqDef
  <2>2. first \in Seq(ToSet(ranked)) /\ Once(first) /\ Len(first) = Target(req, m)
    BY <2>1, FirstOfList
  <2> QED BY <1>2, <2>2 DEF Chosen
<1> DEFINE T == {n \in 0 .. m : ~ Chosen(req, seen, ranked, crew[n], n)}
<1>6. T = {}
  <2> SUFFICES ASSUME T # {} PROVE FALSE
    OBVIOUS
  <2>1. T \subseteq Nat
    BY <1>2
  <2>2. PICK n \in T : \A k \in T : ~ (k < n)
    <3> HIDE DEF T
    <3> QED BY <2>1, Smallest
  <2>3. n \in 0 .. m /\ n \in Nat /\ ~ Chosen(req, seen, ranked, crew[n], n)
    BY <1>2, <2>2
  <2>4. CASE n = 0
    <3>1. crew[0] = first
      BY <1>4, <2>3, <2>4 DEF OneCrew
    <3> QED BY <1>5, <2>3, <2>4, <3>1
  <2>5. CASE n # 0
    <3>1. n - 1 \in 0 .. m /\ n - 1 < n /\ n - 1 \in Nat /\ n - 1 + 1 = n /\ n \in 1 .. m
      BY <1>2, <2>3, <2>5
    <3>2. Chosen(req, seen, ranked, crew[n - 1], n - 1)
      BY <2>2, <3>1
    <3>3. crew[n] = TopUp(req, seen, crew[n - 1], ranked[n])
      BY <1>4, <2>3, <2>5 DEF OneCrew
    <3>4. ranked[n] \in ToSet(ranked)
      BY <3>1, MembersOfList
    <3>5. Chosen(req, seen, ranked, TopUp(req, seen, crew[n - 1], ranked[(n - 1) + 1]), (n - 1) + 1)
      BY <1>2, <3>1, <3>2, <3>4, ChosenStep
    <3> QED BY <2>3, <3>1, <3>3, <3>5
  <2> QED BY <2>4, <2>5
<1>7. m \in 0 .. m
  BY <1>2
<1>8. Chosen(req, seen, ranked, crew[m], m)
  BY <1>6, <1>7
<1> QED BY <1>1, <1>8

-----------------------------------------------------------------------------
(* Requirements: what the aggregator makes of the rules.                    *)

RuleSet(rules) == rules \subseteq RuleContents /\ IsFiniteSet(rules)

Requirements(req) ==
  /\ req.priority \in ToSet(Priorities)
  /\ IsFiniteSet(DOMAIN req.counts) /\ IsFiniteSet(DOMAIN req.needs)
  /\ \A category \in DOMAIN req.counts :
       /\ req.counts[category].minimum \in Nat
       /\ req.counts[category].recommended \in Nat
       /\ req.counts[category].reserve \in Nat
  /\ \A code \in DOMAIN req.needs : code \in Capabilities /\ req.needs[code].quantity \in Int

\* The consolidated requirements want at least what the rule v wants.
Wants(req, v) ==
  /\ \A category \in DOMAIN v.counts :
       category \in DOMAIN req.counts /\ v.counts[category].minimum <= req.counts[category].minimum
  /\ \A code \in DOMAIN v.needs :
       /\ code \in DOMAIN req.needs /\ v.needs[code].quantity <= req.needs[code].quantity
       /\ v.needs[code].mandatory => req.needs[code].mandatory

LEMMA RankOfPriority ==
  /\ \A p \in ToSet(Priorities) : Rank(p) \in 1 .. 4
  /\ \A i \in 1 .. 4 : Priorities[i] \in ToSet(Priorities)
<1>1. DOMAIN Priorities = 1 .. 4
  BY DEF Priorities
<1>2. \A p \in ToSet(Priorities) : \E i \in DOMAIN Priorities : Priorities[i] = p
  BY DEF ToSet
<1> QED BY <1>1, <1>2 DEF Rank, ToSet

LEMMA HighestFacts ==
  ASSUME NEW S, S \subseteq Int, IsFiniteSet(S)
  PROVE  Highest(S) \in Nat /\ \A x \in S : x <= Highest(S)
<1> DEFINE T == {0} \cup S
<1>1. T = S \cup {0} /\ T \subseteq Int /\ T # {} /\ 0 \in T /\ \A x \in S : x \in T
  OBVIOUS
<1>2. IsFiniteSet(S \cup {0})
  BY FS_AddElement
<1> HIDE DEF T
<1>3. Max(T) \in T /\ \A x \in T : Max(T) >= x
  BY <1>1, <1>2, MaxOfSet
<1>4. Max(T) \in Int /\ Max(T) >= 0 /\ \A x \in S : x \in Int /\ x <= Max(T)
  BY <1>1, <1>3
<1>5. Highest(S) = Max(T)
  BY DEF Highest, T
<1>6. Max(T) \in Nat
  BY <1>4
<1> QED BY <1>4, <1>5, <1>6

LEMMA FiniteValues ==
  ASSUME NEW W, IsFiniteSet(W), NEW g, NEW T, \A t \in T : \E v \in W : g[v] = t
  PROVE  IsFiniteSet(T)
<1>1. IsFiniteSet({g[v] : v \in W})
  BY FiniteImage
<1>2. T \in SUBSET {g[v] : v \in W}
  OBVIOUS
<1> QED BY <1>1, <1>2, FS_Subset

LEMMA UnionOfDomains ==
  ASSUME NEW W, IsFiniteSet(W), NEW g, \A v \in W : IsFiniteSet(g[v]),
         NEW U, \A x \in U : \E v \in W : x \in g[v]
  PROVE  IsFiniteSet(U)
<1>1. IsFiniteSet({g[v] : v \in W})
  BY FiniteImage
<1>2. \A T \in {g[v] : v \in W} : IsFiniteSet(T)
  OBVIOUS
<1> DEFINE R == {g[v] : v \in W}
<1>3. U \in SUBSET UNION R
  OBVIOUS
<1> HIDE DEF R
<1>4. IsFiniteSet(UNION R)
  BY <1>1, <1>2, FS_UNION DEF R
<1> QED BY <1>3, <1>4, FS_Subset

LEMMA PriorityOfRules ==
  ASSUME NEW rules, RuleSet(rules)
  PROVE  Aggregate(rules).priority \in ToSet(Priorities)
<1> DEFINE g == [v \in rules |-> Rank(v.priority)]
           R == {Rank(v.priority) : v \in rules}
<1>1. Aggregate(rules).priority = IF rules = {} THEN "normal" ELSE Priorities[Max(R)]
  BY DEF Aggregate
<1>2. CASE rules = {}
  <2>1. Priorities[2] = "normal"
    BY DEF Priorities
  <2> QED BY <1>1, <1>2, <2>1, RankOfPriority
<1>3. CASE rules # {}
  <2>1. \A t \in R : \E v \in rules : g[v] = t
    OBVIOUS
  <2>2. \A v \in rules : Rank(v.priority) \in 1 .. 4
    BY RankOfPriority, DispatchAssumption DEF RuleSet
  <2>3. R \subseteq 1 .. 4 /\ R # {}
    BY <1>3, <2>2
  <2> HIDE DEF g, R
  <2>4. IsFiniteSet(R)
    BY <2>1, FiniteValues DEF RuleSet
  <2>5. Max(R) \in R
    <3>1. R \subseteq Int
      BY <2>3
    <3> QED BY <2>3, <2>4, <3>1, MaxOfSet
  <2>6. Max(R) \in 1 .. 4
    BY <2>3, <2>5
  <2> QED BY <1>1, <1>3, <2>6, RankOfPriority
<1> QED BY <1>2, <1>3

LEMMA CountsOfRules ==
  ASSUME NEW rules, RuleSet(rules)
  PROVE  LET counts == Aggregate(rules).counts IN
         /\ DOMAIN counts = UNION {DOMAIN v.counts : v \in rules}
         /\ IsFiniteSet(DOMAIN counts)
         /\ \A category \in DOMAIN counts :
              /\ counts[category].minimum \in Nat
              /\ counts[category].recommended \in Nat
              /\ counts[category].reserve \in Nat
              /\ \A v \in rules : category \in DOMAIN v.counts =>
                   v.counts[category].minimum <= counts[category].minimum
<1> DEFINE counts == Aggregate(rules).counts
           D == UNION {DOMAIN v.counts : v \in rules}
           W(category) == {w \in rules : category \in DOMAIN w.counts}
           naming(category) == {v.counts[category] : v \in W(category)}
<1>1. counts = [category \in D |->
        [minimum |-> Highest({c.minimum : c \in naming(category)}),
         recommended |-> Highest({c.recommended : c \in naming(category)}),
         reserve |-> Highest({c.reserve : c \in naming(category)})]]
  BY DEF Aggregate
<1>2. IsFiniteSet(D)
  <2> DEFINE g == [v \in rules |-> DOMAIN v.counts]
  <2>1. \A v \in rules : g[v] = DOMAIN v.counts /\ IsFiniteSet(g[v])
    BY DispatchAssumption DEF RuleSet
  <2>2. \A x \in D : \E v \in rules : x \in g[v]
    OBVIOUS
  <2> HIDE DEF g, D
  <2> QED BY <2>1, <2>2, UnionOfDomains DEF RuleSet
<1>3. ASSUME NEW category \in D
      PROVE  /\ counts[category].minimum \in Nat
             /\ counts[category].recommended \in Nat
             /\ counts[category].reserve \in Nat
             /\ \A v \in rules : category \in DOMAIN v.counts =>
                  v.counts[category].minimum <= counts[category].minimum
  <2> DEFINE N == naming(category)
             least == [v \in W(category) |-> v.counts[category].minimum]
             wanted == [v \in W(category) |-> v.counts[category].recommended]
             spare == [v \in W(category) |-> v.counts[category].reserve]
             A == {c.minimum : c \in N}
             B == {c.recommended : c \in N}
             C == {c.reserve : c \in N}
  <2>1. IsFiniteSet(W(category))
    BY FS_Subset DEF RuleSet
  <2>2. /\ \A t \in A : \E v \in W(category) : least[v] = t
        /\ \A t \in B : \E v \in W(category) : wanted[v] = t
        /\ \A t \in C : \E v \in W(category) : spare[v] = t
    OBVIOUS
  <2>3. A \subseteq Int /\ B \subseteq Int /\ C \subseteq Int
    BY DispatchAssumption DEF RuleSet
  <2>4. \A v \in rules : category \in DOMAIN v.counts => v.counts[category].minimum \in A
    OBVIOUS
  <2>5. /\ counts[category].minimum = Highest(A)
        /\ counts[category].recommended = Highest(B)
        /\ counts[category].reserve = Highest(C)
    BY <1>1
  <2> HIDE DEF least, wanted, spare, W, A, B, C, counts
  <2>6. IsFiniteSet(A) /\ IsFiniteSet(B) /\ IsFiniteSet(C)
    BY <2>1, <2>2, FiniteValues
  <2> QED BY <2>3, <2>4, <2>5, <2>6, HighestFacts
<1>4. DOMAIN counts = D
  BY <1>1
<1> HIDE DEF counts
<1> QED BY <1>2, <1>3, <1>4 DEF counts

LEMMA NeedsOfRules ==
  ASSUME NEW rules, RuleSet(rules)
  PROVE  LET needs == Aggregate(rules).needs IN
         /\ DOMAIN needs = UNION {DOMAIN v.needs : v \in rules}
         /\ IsFiniteSet(DOMAIN needs)
         /\ \A code \in DOMAIN needs :
              /\ code \in Capabilities /\ needs[code].quantity \in Int
              /\ \A v \in rules : code \in DOMAIN v.needs =>
                   /\ v.needs[code].quantity <= needs[code].quantity
                   /\ v.needs[code].mandatory => needs[code].mandatory
<1> DEFINE needs == Aggregate(rules).needs
           D == UNION {DOMAIN v.needs : v \in rules}
           W(code) == {w \in rules : code \in DOMAIN w.needs}
           asking(code) == {v.needs[code] : v \in W(code)}
<1>1. needs = [code \in D |-> [quantity |-> Max({n.quantity : n \in asking(code)}),
                               mandatory |-> \E n \in asking(code) : n.mandatory]]
  BY DEF Aggregate
<1>2. IsFiniteSet(D)
  <2> DEFINE g == [v \in rules |-> DOMAIN v.needs]
  <2>1. \A v \in rules : g[v] = DOMAIN v.needs /\ IsFiniteSet(g[v])
    BY DispatchAssumption DEF RuleSet
  <2>2. \A x \in D : \E v \in rules : x \in g[v]
    OBVIOUS
  <2> HIDE DEF g, D
  <2> QED BY <2>1, <2>2, UnionOfDomains DEF RuleSet
<1>3. ASSUME NEW code \in D
      PROVE  /\ code \in Capabilities /\ needs[code].quantity \in Int
             /\ \A v \in rules : code \in DOMAIN v.needs =>
                  /\ v.needs[code].quantity <= needs[code].quantity
                  /\ v.needs[code].mandatory => needs[code].mandatory
  <2> DEFINE Q == {n.quantity : n \in asking(code)}
             least == [v \in W(code) |-> v.needs[code].quantity]
  <2>1. IsFiniteSet(W(code))
    BY FS_Subset DEF RuleSet
  <2>2. \A t \in Q : \E v \in W(code) : least[v] = t
    OBVIOUS
  <2>3. Q \subseteq Int
    BY DispatchAssumption DEF RuleSet
  <2>4. PICK w \in rules : code \in DOMAIN w.needs
    OBVIOUS
  <2>5. code \in Capabilities
    BY <2>4, DispatchAssumption DEF RuleSet
  <2>6. \A v \in rules : code \in DOMAIN v.needs =>
          v.needs[code] \in asking(code) /\ v.needs[code].quantity \in Q
    OBVIOUS
  <2>7. Q # {}
    BY <2>4, <2>6
  <2>8. needs[code].quantity = Max(Q)
    BY <1>1
  <2>9. ASSUME NEW n \in asking(code), n.mandatory PROVE needs[code].mandatory
    <3> DEFINE said == \E m \in asking(code) : m.mandatory
               most == Max(Q)
    <3>1. needs[code] = [quantity |-> most, mandatory |-> said]
      BY <1>1
    <3>2. said
      BY <2>9
    <3> HIDE DEF said, most
    <3>3. [quantity |-> most, mandatory |-> said].mandatory
      BY <3>2, Zenon
    <3> QED BY <3>1, <3>3, Zenon
  <2> HIDE DEF least, W, Q, needs, asking
  <2>10. IsFiniteSet(Q)
    BY <2>1, <2>2, FiniteValues
  <2>11. Max(Q) \in Q /\ \A x \in Q : Max(Q) >= x
    BY <2>3, <2>7, <2>10, MaxOfSet
  <2>12. Max(Q) \in Int /\ \A x \in Q : x \in Int /\ x <= Max(Q)
    BY <2>3, <2>11
  <2>13. \A v \in rules : code \in DOMAIN v.needs /\ v.needs[code].mandatory => needs[code].mandatory
    BY <2>6, <2>9
  <2> QED BY <2>5, <2>6, <2>8, <2>12, <2>13
<1>4. DOMAIN needs = D
  BY <1>1
<1> HIDE DEF needs
<1> QED BY <1>2, <1>3, <1>4 DEF needs

\* RequirementAggregator: per category and capability the strictest of the rules.
LEMMA AggregateFacts ==
  ASSUME NEW rules, RuleSet(rules)
  PROVE  Requirements(Aggregate(rules)) /\ \A v \in rules : Wants(Aggregate(rules), v)
<1> DEFINE req == Aggregate(rules)
<1>1. Requirements(req)
  <2>1. req.priority \in ToSet(Priorities)
    BY PriorityOfRules
  <2> HIDE DEF req
  <2> QED BY <2>1, CountsOfRules, NeedsOfRules DEF Requirements, req
<1>2. ASSUME NEW v \in rules PROVE Wants(req, v)
  <2>1. /\ DOMAIN v.counts \subseteq UNION {DOMAIN w.counts : w \in rules}
        /\ DOMAIN v.needs \subseteq UNION {DOMAIN w.needs : w \in rules}
    OBVIOUS
  <2> QED BY <2>1, CountsOfRules, NeedsOfRules DEF Wants
<1> QED BY <1>1, <1>2

LEMMA UnitsWanted ==
  ASSUME NEW req, Requirements(req)
  PROVE  /\ MinimumUnits(req) \in Nat /\ RecommendedUnits(req) \in Nat /\ ReserveUnits(req) \in Nat
         /\ MinimumUnits(req) <= RecommendedUnits(req)
         /\ DOMAIN req.counts = {} => RecommendedUnits(req) = 0
         /\ Cardinality(Mandatory(req)) \in Nat
         /\ Cardinality(Mandatory(req)) = 0 <=> Mandatory(req) = {}
<1> DEFINE a == [c \in DOMAIN req.counts |-> req.counts[c].minimum]
           b == [c \in DOMAIN req.counts |-> req.counts[c].recommended]
           d == [c \in DOMAIN req.counts |-> req.counts[c].reserve]
<1>1. Amounts(a) /\ Amounts(b) /\ Amounts(d)
  BY DEF Amounts, Requirements
<1>2. DOMAIN a = DOMAIN req.counts /\ DOMAIN b = DOMAIN req.counts
  OBVIOUS
<1>3. MinimumUnits(req) = Total(a) /\ ReserveUnits(req) = Total(d)
  BY DEF MinimumUnits, ReserveUnits
<1>4. RecommendedUnits(req) = Max({MinimumUnits(req), Total(b)})
  BY DEF RecommendedUnits
<1> HIDE DEF a, b, d
<1>5. Total(a) \in Nat /\ Total(b) \in Nat /\ Total(d) \in Nat
  BY <1>1, TotalIsNumber
<1>6. RecommendedUnits(req) = IF Total(a) >= Total(b) THEN Total(a) ELSE Total(b)
  BY <1>3, <1>4, <1>5, MaxOfTwo
<1>7. DOMAIN req.counts = {} => Total(a) = 0 /\ Total(b) = 0
  BY <1>2, TotalOfNothing
<1>8. IsFiniteSet(Mandatory(req))
  <2>1. Mandatory(req) \in SUBSET DOMAIN req.needs
    BY DEF Mandatory
  <2> QED BY <2>1, FS_Subset DEF Requirements
<1>9. Cardinality(Mandatory(req)) \in Nat /\ (Cardinality(Mandatory(req)) = 0 <=> Mandatory(req) = {})
  BY <1>8, FS_CardinalityType, FS_EmptySet
<1> QED BY <1>3, <1>5, <1>6, <1>7, <1>9

\* How many are wanted: nobody without requirements, somebody with any, and as many as
\* the minimum if there are so many.
LEMMA TargetFacts ==
  ASSUME NEW req, Requirements(req), NEW available \in Nat
  PROVE  /\ Target(req, available) \in 0 .. available
         /\ ~ HasRequirements(req) => Target(req, available) = 0
         /\ HasRequirements(req) /\ available > 0 => Target(req, available) > 0
         /\ available >= MinimumUnits(req) => Target(req, available) >= MinimumUnits(req)
<1> DEFINE rec == RecommendedUnits(req)
           least == MinimumUnits(req)
           man == Cardinality(Mandatory(req))
           asked == IF rec > 0 THEN rec
                    ELSE IF Mandatory(req) # {} THEN man
                    ELSE IF HasRequirements(req) THEN 1 ELSE 0
<1>1. Target(req, available) = Min({asked, available})
  BY DEF Target
<1>2. /\ rec \in Nat /\ least \in Nat /\ least <= rec /\ (DOMAIN req.counts = {} => rec = 0)
      /\ man \in Nat /\ (man = 0 <=> Mandatory(req) = {})
  BY UnitsWanted
<1>3. ~ HasRequirements(req) => DOMAIN req.counts = {} /\ Mandatory(req) = {}
  BY DEF HasRequirements, Mandatory
<1> HIDE DEF rec, least, man
<1>4. asked \in Nat /\ (HasRequirements(req) => asked > 0) /\ (~ HasRequirements(req) => asked = 0)
  BY <1>2, <1>3
<1>5. asked >= least
  BY <1>2
<1> HIDE DEF asked
<1>6. Target(req, available) = IF asked <= available THEN asked ELSE available
  BY <1>1, <1>4, MinOfTwo
<1> QED BY <1>2, <1>4, <1>5, <1>6 DEF least

-----------------------------------------------------------------------------
(* The order of the candidates.                                             *)

LEMMA ScoreIsNumber ==
  ASSUME NEW req, Requirements(req), NEW row, row.distance \in Nat
  PROVE  Score(req, row) \in Int
<1> DEFINE codes == DOMAIN req.needs
           n == Highest({Cardinality(codes), 1})
           near == Highest({MaxDistance - row.distance})
           ready == CASE row.status = Nothing -> 1
                      [] row.status # Nothing /\ row.status.deployable -> 10
                      [] row.status # Nothing /\ ~row.status.deployable ->
                           IF row.status.operational THEN 5 ELSE 1
           matched == IF codes = {} THEN 1 ELSE Cardinality({c \in codes : Provides(row, c)})
<1>1. MaxDistance \in Nat
  BY DispatchAssumption
<1>2. IsFiniteSet(codes)
  BY DEF Requirements
<1>3. n \in Nat
  <2>1. Cardinality(codes) \in Nat
    BY <1>2, FS_CardinalityType
  <2> DEFINE k == Cardinality(codes)
  <2> HIDE DEF k
  <2>2. {k, 1} \subseteq Int /\ {k} \cup {1} = {k, 1}
    BY <2>1 DEF k
  <2>3. IsFiniteSet({k})
    BY FS_Singleton
  <2>4. IsFiniteSet({k} \cup {1})
    BY <2>3, FS_AddElement
  <2> QED BY <2>2, <2>4, HighestFacts DEF k
<1>4. near \in Nat
  <2> DEFINE k == MaxDistance - row.distance
  <2>1. k \in Int
    BY <1>1
  <2> HIDE DEF k
  <2>2. {k} \subseteq Int /\ IsFiniteSet({k})
    BY <2>1, FS_Singleton
  <2> QED BY <2>2, HighestFacts DEF k
<1>5. ready \in Nat
  OBVIOUS
<1>6. matched \in Nat
  <2>1. {c \in codes : Provides(row, c)} \in SUBSET codes
    OBVIOUS
  <2> QED BY <1>2, <2>1, FS_Subset, FS_CardinalityType
<1>7. Score(req, row) = 40 * near * n + 3 * ready * MaxDistance * n + 30 * matched * MaxDistance
  BY DEF Score
<1> HIDE DEF near, n, ready, matched
<1>8. \A a, b \in Nat : a * b \in Nat
  OBVIOUS
<1>9. 40 * near \in Nat /\ 3 * ready \in Nat /\ 30 * matched \in Nat
  BY <1>4, <1>5, <1>6
<1>10. 3 * ready * MaxDistance \in Nat
  BY <1>1, <1>8, <1>9
<1>11. 40 * near * n \in Nat
  BY <1>3, <1>8, <1>9
<1>12. 3 * ready * MaxDistance * n \in Nat
  <2> DEFINE x == 3 * ready * MaxDistance
  <2> HIDE DEF x
  <2>1. x * n \in Nat
    <3>1. x \in Nat
      BY <1>10 DEF x
    <3> QED BY <1>3, <1>8, <3>1
  <2> QED BY <2>1 DEF x
<1>13. 30 * matched * MaxDistance \in Nat
  <2> DEFINE x == 30 * matched
  <2> HIDE DEF x
  <2>1. x \in Nat
    BY <1>9 DEF x
  <2>2. x * MaxDistance \in Nat
    BY <1>1, <1>8, <2>1
  <2> QED BY <2>2 DEF x
<1> QED BY <1>7, <1>11, <1>12, <1>13

\* rank_candidates: everybody once, nobody in front of one with a higher score.
LEMMA RankedFacts ==
  ASSUME NEW req, Requirements(req), NEW seen, NEW E, IsFiniteSet(E),
         \A u \in E : seen[u].distance \in Nat
  PROVE  LET ranked == Ranked(req, seen, E) IN
         /\ ranked \in Seq(E) /\ Once(ranked) /\ ToSet(ranked) = E
         /\ Len(ranked) = Cardinality(E)
         /\ \A i, j \in 1 .. Len(ranked) :
              i < j => Score(req, seen[ranked[j]]) <= Score(req, seen[ranked[i]])
<1> DEFINE before == {pair \in E \X E : Better(req, seen[pair[1]], seen[pair[2]])}
           s == [u \in E |-> Score(req, seen[u])]
           ranked == Ranked(req, seen, E)
<1>1. ranked = Sorted(E, before)
  BY DEF Ranked
<1>2. ASSUME NEW u \in E PROVE s[u] \in Int /\ seen[u].distance \in Nat /\ s[u] = Score(req, seen[u])
  BY ScoreIsNumber
<1>3. ASSUME NEW u \in E, NEW v \in E
      PROVE  <<u, v>> \in before <=>
               s[u] > s[v] \/ (s[u] = s[v] /\ seen[u].distance < seen[v].distance)
  BY <1>2 DEF Better
<1> HIDE DEF s, before, ranked
<1>4. Before(E, before)
  BY <1>2, <1>3 DEF Before
<1>5. /\ ranked \in Seq(E) /\ Len(ranked) = Cardinality(E) /\ Len(ranked) \in Nat
      /\ \A x \in E : \E i \in 1 .. Len(ranked) : ranked[i] = x
      /\ InOrder(ranked, Len(ranked), before)
  BY <1>1, <1>4, SortedFacts
<1>6. Once(ranked)
  BY <1>5 DEF Once, InOrder
<1>7. ToSet(ranked) = E
  <2>1. /\ ToSet(ranked) \subseteq E
        /\ \A x : x \in ToSet(ranked) <=> \E i \in 1 .. Len(ranked) : ranked[i] = x
    BY <1>5, MembersOfList
  <2>2. \A x \in E : x \in ToSet(ranked)
    BY <1>5, <2>1
  <2> QED BY <2>1, <2>2
<1>8. ASSUME NEW i \in 1 .. Len(ranked), NEW j \in 1 .. Len(ranked), i < j
      PROVE  Score(req, seen[ranked[j]]) <= Score(req, seen[ranked[i]])
  <2>1. ranked[i] \in E /\ ranked[j] \in E
    BY <1>5, ElementOfSeq
  <2>2. <<ranked[j], ranked[i]>> \notin before
    BY <1>5, <1>8 DEF InOrder
  <2>3. ~ (s[ranked[j]] > s[ranked[i]])
    BY <1>3, <2>1, <2>2
  <2> QED BY <1>2, <2>1, <2>3
<1> QED BY <1>5, <1>6, <1>7, <1>8 DEF ranked

-----------------------------------------------------------------------------
(* One recommendation: what is made of a request, its rules and its rows.    *)

\* The rows that the four SELECTs gave.
SeenRows(seen) ==
  /\ DOMAIN seen \subseteq Units
  /\ \A u \in DOMAIN seen :
       /\ DOMAIN seen[u] = {"status", "distance", "areas", "category", "organization", "provides"}
       /\ seen[u].distance \in Nat /\ seen[u].provides \in [Capabilities -> Nat]

LEMMA EligibleFacts ==
  ASSUME NEW ask, NEW req, Requirements(req), NEW seen, SeenRows(seen)
  PROVE  LET E == Eligible(ask, req, seen) IN
         /\ E \subseteq DOMAIN seen /\ IsFiniteSet(E)
         /\ \A u \in E : seen[u].distance \in Nat
         /\ \A R : R \subseteq E => Countable(req, seen, R)
<1>1. Eligible(ask, req, seen) \subseteq DOMAIN seen
  BY DEF Eligible
<1>2. Eligible(ask, req, seen) \in SUBSET Units /\ IsFiniteSet(Units)
  BY <1>1, DispatchAssumption DEF SeenRows
<1>3. IsFiniteSet(Eligible(ask, req, seen))
  BY <1>2, FS_Subset
<1>4. \A u \in Eligible(ask, req, seen) :
        /\ seen[u].distance \in Nat
        /\ \A code \in DOMAIN req.needs : seen[u].provides[code] \in Nat
  BY <1>1 DEF SeenRows, Requirements
<1>5. \A code \in DOMAIN req.needs : req.needs[code].quantity \in Int
  BY DEF Requirements
<1> QED BY <1>1, <1>3, <1>4, <1>5 DEF Countable

\* The composition is of eligible resources, each once; there is somebody in it if
\* anything is required of anybody, and while a mandatory capability is lacking, all.
LEMMA CompositionFacts ==
  ASSUME NEW ask, NEW req, Requirements(req), NEW seen, SeenRows(seen)
  PROVE  LET E == Eligible(ask, req, seen)
             crew == Select(req, seen, Ranked(req, seen, E)) IN
         /\ crew \in Seq(E) /\ Once(crew) /\ ToSet(crew) \subseteq E
         /\ Len(crew) = Cardinality(ToSet(crew)) /\ IsFiniteSet(ToSet(crew))
         /\ Len(crew) >= Target(req, Cardinality(E)) /\ Cardinality(E) \in Nat
         /\ Mandatory(req) = {} => Len(crew) = Target(req, Cardinality(E))
         /\ \A code \in Mandatory(req), u \in E :
              Provides(seen[u], code) => ~ Lacks(req, seen, crew, code) \/ u \in ToSet(crew)
<1> DEFINE E == Eligible(ask, req, seen)
           ranked == Ranked(req, seen, E)
           crew == Select(req, seen, ranked)
<1>1. /\ E \subseteq DOMAIN seen /\ IsFiniteSet(E)
      /\ \A u \in E : seen[u].distance \in Nat
      /\ Countable(req, seen, E)
  BY EligibleFacts
<1> HIDE DEF E
<1>2. /\ ranked \in Seq(E) /\ Once(ranked) /\ ToSet(ranked) = E
      /\ Len(ranked) = Cardinality(E)
  BY <1>1, RankedFacts
<1> HIDE DEF ranked
<1>3. Cardinality(E) \in Nat
  BY <1>1, FS_CardinalityType
<1>4. Target(req, Len(ranked)) \in 0 .. Len(ranked)
  BY <1>2, <1>3, TargetFacts
<1>5. Chosen(req, seen, ranked, crew, Len(ranked))
  BY <1>1, <1>2, <1>4, SelectFacts
<1> HIDE DEF crew
<1>6. /\ crew \in Seq(E) /\ Once(crew) /\ Len(crew) >= Target(req, Cardinality(E))
      /\ Mandatory(req) = {} => Len(crew) = Target(req, Cardinality(E))
  BY <1>2, <1>5 DEF Chosen
<1>7. ToSet(crew) \subseteq E
  BY <1>6, MembersOfList
<1>8. Len(crew) = Cardinality(ToSet(crew)) /\ IsFiniteSet(ToSet(crew))
  BY <1>6, OnceCounts
<1>9. ASSUME NEW code \in Mandatory(req), NEW u \in E, Provides(seen[u], code)
      PROVE  ~ Lacks(req, seen, crew, code) \/ u \in ToSet(crew)
  <2>1. PICK k \in 1 .. Len(ranked) : ranked[k] = u
    BY <1>2, MembersOfList
  <2> QED BY <1>5, <1>9, <2>1 DEF Chosen
<1> QED BY <1>3, <1>6, <1>7, <1>8, <1>9 DEF crew, ranked, E

\* A composition of fit resources that meets the requirements.
Suffices(req, seen, fit, crew) ==
  /\ crew \in SUBSET fit /\ crew # {} /\ Cardinality(crew) >= MinimumUnits(req)
  /\ \A code \in Mandatory(req) : Provided(seen, crew, code) >= req.needs[code].quantity

\* The strategy finds a sufficient composition exactly when there is one.
LEMMA GreedyIsComplete ==
  ASSUME NEW ask, NEW req, Requirements(req), NEW seen, SeenRows(seen)
  PROVE  LET E == Eligible(ask, req, seen)
             crew == Select(req, seen, Ranked(req, seen, E)) IN
         Verdict(req, seen, ToSet(crew)) = "recommended" <=>
           HasRequirements(req) /\ \E C : Suffices(req, seen, E, C)
<1> DEFINE E == Eligible(ask, req, seen)
           crew == Select(req, seen, Ranked(req, seen, E))
           P == ToSet(crew)
<1>1. /\ crew \in Seq(E) /\ Once(crew) /\ P \subseteq E
      /\ Len(crew) = Cardinality(P) /\ IsFiniteSet(P)
      /\ Len(crew) >= Target(req, Cardinality(E)) /\ Cardinality(E) \in Nat
      /\ Mandatory(req) = {} => Len(crew) = Target(req, Cardinality(E))
      /\ \A code \in Mandatory(req), u \in E :
           Provides(seen[u], code) => ~ Lacks(req, seen, crew, code) \/ u \in P
  BY CompositionFacts
<1>2. IsFiniteSet(E) /\ Countable(req, seen, E)
  BY EligibleFacts
<1> HIDE DEF crew, E
<1>3. /\ Target(req, Cardinality(E)) \in 0 .. Cardinality(E)
      /\ ~ HasRequirements(req) => Target(req, Cardinality(E)) = 0
      /\ HasRequirements(req) /\ Cardinality(E) > 0 => Target(req, Cardinality(E)) > 0
      /\ Cardinality(E) >= MinimumUnits(req) => Target(req, Cardinality(E)) >= MinimumUnits(req)
  BY <1>1, TargetFacts
<1>4. MinimumUnits(req) \in Nat /\ Cardinality(P) \in Nat
  BY <1>1, UnitsWanted, FS_CardinalityType
<1>5. P = {} <=> Cardinality(P) = 0
  BY <1>1, FS_EmptySet
<1>6. \A code \in Mandatory(req) : code \in DOMAIN req.needs
  BY DEF Mandatory
<1>7. Verdict(req, seen, P) = "recommended" <=>
        /\ P # {} /\ Cardinality(P) >= MinimumUnits(req)
        /\ Mandatory(req) \subseteq Covered(req, seen, P)
  BY DEF Verdict
<1>8. ASSUME Verdict(req, seen, P) = "recommended"
      PROVE  HasRequirements(req) /\ \E C : Suffices(req, seen, E, C)
  <2>1. HasRequirements(req)
    <3> SUFFICES ASSUME ~ HasRequirements(req) PROVE FALSE
      OBVIOUS
    <3>1. Mandatory(req) = {}
      BY DEF HasRequirements, Mandatory
    <3>2. Cardinality(P) = 0
      BY <1>1, <1>3, <3>1
    <3> QED BY <1>5, <1>7, <1>8, <3>2
  <2>2. Suffices(req, seen, E, P)
    BY <1>1, <1>7, <1>8 DEF Suffices, Covered
  <2> QED BY <2>1, <2>2
<1>9. ASSUME HasRequirements(req), NEW C, Suffices(req, seen, E, C)
      PROVE  Verdict(req, seen, P) = "recommended"
  <2>1. C \in SUBSET E /\ C # {} /\ Cardinality(C) >= MinimumUnits(req)
    BY <1>9 DEF Suffices
  <2>2. IsFiniteSet(C) /\ Cardinality(C) <= Cardinality(E) /\ Cardinality(C) \in Nat
    BY <1>2, <2>1, FS_Subset, FS_CardinalityType
  <2>3. Cardinality(C) # 0
    BY <2>1, <2>2, FS_EmptySet
  <2>4. P # {} /\ Cardinality(P) >= MinimumUnits(req)
    BY <1>1, <1>3, <1>4, <1>5, <1>9, <2>1, <2>2, <2>3
  <2>5. ASSUME NEW code \in Mandatory(req) PROVE code \in Covered(req, seen, P)
    <3> SUFFICES ASSUME ~ (Provided(seen, P, code) >= req.needs[code].quantity) PROVE FALSE
      BY <1>6 DEF Covered
    <3>1. \A u \in C \cup P : seen[u].provides[code] \in Nat
      BY <1>1, <1>2, <1>6, <2>1 DEF Countable
    <3>2. req.needs[code].quantity \in Int
      BY <1>2, <1>6 DEF Countable
    <3>3. Provided(seen, P, code) \in Nat
      BY <1>1, <3>1, ProvidedGrows
    <3>4. Lacks(req, seen, crew, code)
      BY <3>2, <3>3 DEF Lacks
    <3>5. \A u \in C : seen[u].provides[code] > 0 => u \in P
      BY <1>1, <2>1, <3>4 DEF Provides
    <3> HIDE DEF P
    <3>6. /\ Provided(seen, C, code) \in Nat
          /\ Provided(seen, C, code) <= Provided(seen, P, code)
      BY <1>1, <2>2, <3>1, <3>5, ProvidedGrows
    <3>7. Provided(seen, C, code) >= req.needs[code].quantity
      BY <1>9 DEF Suffices
    <3> QED BY <3>2, <3>3, <3>6, <3>7
  <2> QED BY <1>7, <2>4, <2>5
<1> QED BY <1>8, <1>9 DEF crew, E

\* ReserveSelector: the best of those who are left.
LEMMA ReserveFacts ==
  ASSUME NEW ask, NEW req, Requirements(req), NEW seen, SeenRows(seen), NEW P
  PROVE  LET E == Eligible(ask, req, seen)
             spare == E \ P
             reserve == Picked(Ranked(req, seen, E), spare)
             n == Min({Len(reserve), ReserveUnits(req)})
             chosen == SubSeq(reserve, 1, n) IN
         /\ chosen \in Seq(E) /\ Once(chosen) /\ ToSet(chosen) \subseteq spare
         /\ Len(chosen) = Min({ReserveUnits(req), Cardinality(spare)})
         /\ \A u \in ToSet(chosen), v \in spare \ ToSet(chosen) :
              Score(req, seen[v]) <= Score(req, seen[u])
<1> DEFINE E == Eligible(ask, req, seen)
           spare == E \ P
           ranked == Ranked(req, seen, E)
           q == Picked(ranked, spare)
           n == Min({Len(q), ReserveUnits(req)})
           chosen == SubSeq(q, 1, n)
<1>1. IsFiniteSet(E) /\ \A u \in E : seen[u].distance \in Nat
  BY EligibleFacts
<1> HIDE DEF E
<1>2. /\ ranked \in Seq(E) /\ Once(ranked) /\ ToSet(ranked) = E
      /\ \A i, j \in 1 .. Len(ranked) :
           i < j => Score(req, seen[ranked[j]]) <= Score(req, seen[ranked[i]])
  BY <1>1, RankedFacts
<1> HIDE DEF ranked, spare
<1>3. /\ q \in Seq(E) /\ Once(q) /\ ToSet(q) = E \cap spare
      /\ \A i, j \in 1 .. Len(q) :
           i < j => \E k, l \in 1 .. Len(ranked) : k < l /\ q[i] = ranked[k] /\ q[j] = ranked[l]
  BY <1>2, PickedFacts
<1> HIDE DEF q
<1>4. ToSet(q) = spare
  BY <1>3 DEF spare
<1>5. Len(q) = Cardinality(spare) /\ Len(q) \in Nat /\ ReserveUnits(req) \in Nat
  BY <1>3, <1>4, OnceCounts, LenProperties, UnitsWanted
<1>6. n = IF Len(q) <= ReserveUnits(req) THEN Len(q) ELSE ReserveUnits(req)
  BY <1>5, MinOfTwo
<1>7. n \in 0 .. Len(q)
  BY <1>5, <1>6
<1>8. Min({ReserveUnits(req), Cardinality(spare)}) =
        IF ReserveUnits(req) <= Len(q) THEN ReserveUnits(req) ELSE Len(q)
  BY <1>5, MinOfTwo
<1>9. n = Min({ReserveUnits(req), Cardinality(spare)})
  BY <1>5, <1>6, <1>8
<1> HIDE DEF n
<1>10. /\ chosen \in Seq(E) /\ Once(chosen) /\ Len(chosen) = n
       /\ \A i \in 1 .. n : chosen[i] = q[i]
       /\ ToSet(chosen) \subseteq ToSet(q)
  BY <1>3, <1>7, FirstOfList
<1> HIDE DEF chosen
<1>11. ASSUME NEW u \in ToSet(chosen), NEW v \in spare \ ToSet(chosen)
       PROVE  Score(req, seen[v]) <= Score(req, seen[u])
  <2>1. PICK i \in 1 .. Len(chosen) : chosen[i] = u
    BY <1>10, MembersOfList
  <2>2. PICK j \in 1 .. Len(q) : q[j] = v
    BY <1>3, <1>4, MembersOfList
  <2>3. ~ (j \in 1 .. n)
    <3> SUFFICES ASSUME j \in 1 .. n PROVE FALSE
      OBVIOUS
    <3>1. chosen[j] = v /\ j \in 1 .. Len(chosen)
      BY <1>10, <2>2
    <3>2. v \in ToSet(chosen)
      BY <1>10, <3>1, MembersOfList
    <3> QED BY <3>2
  <2>4. i < j /\ i \in 1 .. Len(q) /\ q[i] = u
    BY <1>5, <1>7, <1>10, <2>1, <2>2, <2>3
  <2>5. PICK k \in 1 .. Len(ranked), l \in 1 .. Len(ranked) :
          k < l /\ q[i] = ranked[k] /\ q[j] = ranked[l]
    BY <1>3, <2>2, <2>4
  <2> QED BY <1>2, <2>2, <2>4, <2>5
<1> QED BY <1>4, <1>9, <1>10, <1>11 DEF chosen, n, q, ranked, spare, E

\* The reason that is named is that of the first test that hits.
LEMMA ReasonFacts ==
  ASSUME NEW ask, NEW req, NEW u, NEW row, Hits(ask, req, u, row) # {}
  PROVE  LET why == ExclusionReason(ask, req, u, row) IN
         /\ why \in ToSet(Reasons) /\ why \notin {"selected", "not_selected"}
         /\ why = "missing_capability" => row.status # Nothing /\ row.status.deployable
         /\ why = "not_deployable" => row.status # Nothing /\ row.status.operational
         /\ why = "manual_exclusion" <=> u \in ask.excluded
<1> DEFINE H == Hits(ask, req, u, row)
           m == Min(H)
<1>1. DOMAIN Reasons = 1 .. 7
  BY DEF Reasons
<1>2. H \subseteq 1 .. 7
  BY <1>1 DEF Hits
<1>3. m \in H /\ \A i \in H : m <= i
  <2>1. H \subseteq Nat
    BY <1>2
  <2> HIDE DEF H
  <2> QED BY <2>1, MinOfSet DEF H
<1>4. /\ 1 \in H <=> u \in ask.excluded
      /\ 2 \in H <=> row.status = Nothing
      /\ 4 \in H <=> row.status # Nothing /\ ~row.status.operational
      /\ 5 \in H <=> row.status # Nothing /\ ~row.status.deployable
  BY <1>1 DEF Hits
<1> HIDE DEF H
<1>5. m \in 1 .. 7
  BY <1>2, <1>3
<1> HIDE DEF m
<1>6. Reasons[m] \in ToSet(Reasons)
  BY <1>1, <1>5 DEF ToSet
<1>7. /\ Reasons[m] \notin {"selected", "not_selected"}
      /\ Reasons[m] = "missing_capability" => m = 6
      /\ Reasons[m] = "not_deployable" => m = 5
      /\ Reasons[m] = "manual_exclusion" <=> m = 1
  BY <1>5 DEF Reasons
<1>8. m = 6 => 2 \notin H /\ 5 \notin H
  BY <1>3
<1>9. m = 5 => 2 \notin H /\ 4 \notin H
  BY <1>3
<1>10. m = 1 <=> 1 \in H
  BY <1>3, <1>5
<1>11. ExclusionReason(ask, req, u, row) = Reasons[m]
  BY DEF ExclusionReason, m, H
<1> QED BY <1>4, <1>6, <1>7, <1>8, <1>9, <1>10, <1>11

\* Who is fit passes every test.
LEMMA FitFacts ==
  ASSUME NEW ask, NEW req, NEW u, NEW row, Hits(ask, req, u, row) = {}
  PROVE  /\ u \notin ask.excluded /\ row.status # Nothing
         /\ row.status.operational /\ row.status.deployable
         /\ row.status.code \notin ExcludedCodes
         /\ ask.area # Nothing => row.areas = {} \/ ask.area \in row.areas
<1>1. DOMAIN Reasons = 1 .. 7
  BY DEF Reasons
<1>2. \A i \in 1 .. 7 : i \notin Hits(ask, req, u, row)
  OBVIOUS
<1> QED BY <1>1, <1>2 DEF Hits

\* The log names everybody that was read, and as fit exactly the eligible.
LEMMA LogFacts ==
  ASSUME NEW ask, NEW req, NEW seen, NEW chosen, chosen \subseteq Eligible(ask, req, seen)
  PROVE  LET log == MatchLog(ask, req, seen, chosen) IN
         /\ DOMAIN log = DOMAIN seen
         /\ \A u \in DOMAIN seen :
              /\ log[u] \in ToSet(Reasons) \cup {"selected", "not_selected"}
              /\ log[u] \in {"selected", "not_selected"} <=> u \in Eligible(ask, req, seen)
              /\ u \notin Eligible(ask, req, seen) =>
                   Hits(ask, req, u, seen[u]) # {} /\ log[u] = ExclusionReason(ask, req, u, seen[u])
<1> DEFINE log == MatchLog(ask, req, seen, chosen)
           E == Eligible(ask, req, seen)
<1>1. log = [u \in DOMAIN seen |->
               IF u \in chosen THEN "selected" ELSE IF u \in E THEN "not_selected"
               ELSE ExclusionReason(ask, req, u, seen[u])]
  BY DEF MatchLog
<1>2. \A u \in DOMAIN seen : u \in E <=> Hits(ask, req, u, seen[u]) = {}
  BY DEF Eligible
<1> HIDE DEF log, E
<1>3. ASSUME NEW u \in DOMAIN seen, u \notin E
      PROVE  /\ Hits(ask, req, u, seen[u]) # {} /\ log[u] = ExclusionReason(ask, req, u, seen[u])
             /\ log[u] \in ToSet(Reasons) /\ log[u] \notin {"selected", "not_selected"}
  <2>1. u \notin chosen
    BY <1>3 DEF E
  <2> QED BY <1>1, <1>2, <1>3, <2>1, ReasonFacts
<1>4. ASSUME NEW u \in DOMAIN seen, u \in E PROVE log[u] \in {"selected", "not_selected"}
  BY <1>1, <1>4
<1>5. DOMAIN log = DOMAIN seen
  BY <1>1
<1> QED BY <1>3, <1>4, <1>5 DEF log, E

-----------------------------------------------------------------------------
(* What a stored recommendation is.                                         *)

\* The rows that were read keep to the dispatcher's constraints.
WithinLimits(ask, seen) ==
  \A u \in DOMAIN seen :
    /\ seen[u].distance <= IF ask.radius = Nothing THEN DefaultRadius ELSE ask.radius
    /\ ask.organizations # {} => seen[u].organization \in ask.organizations

\* It was made of a request, of the rules that applied and of the rows that were read.
Made(x) ==
  LET req == Aggregate(x.rules)
      ranked == Ranked(req, x.seen, Eligible(x.ask, req, x.seen)) IN
  /\ x.ask \in Asks /\ RuleSet(x.rules) /\ SeenRows(x.seen) /\ WithinLimits(x.ask, x.seen)
  /\ x.priority = ResolvePriority(req, x.ask.danger)
  /\ x.primary = Select(req, x.seen, ranked)
  /\ x.reserve = IF x.ask.preview THEN <<>> ELSE SelectReserve(req, ranked, x.primary)
  /\ x.matches = MatchLog(x.ask, req, x.seen, ToSet(x.primary) \cup ToSet(x.reserve))
  /\ x.status = Verdict(req, x.seen, ToSet(x.primary))

\* The composition and the reserve of it, side by side.
LEMMA MadeOf ==
  ASSUME NEW x, Made(x)
  PROVE  LET req == Aggregate(x.rules)
             E == Eligible(x.ask, req, x.seen)
             spare == E \ ToSet(x.primary) IN
         /\ x.primary \in Seq(E) /\ Once(x.primary) /\ ToSet(x.primary) \subseteq E
         /\ Len(x.primary) = Cardinality(ToSet(x.primary)) /\ IsFiniteSet(ToSet(x.primary))
         /\ x.reserve \in Seq(E) /\ Once(x.reserve) /\ ToSet(x.reserve) \subseteq spare
         /\ Len(x.reserve) = IF x.ask.preview THEN 0
                             ELSE Min({ReserveUnits(req), Cardinality(spare)})
         /\ \A u \in ToSet(x.reserve), v \in spare \ ToSet(x.reserve) :
              Score(req, x.seen[v]) <= Score(req, x.seen[u])
<1> DEFINE req == Aggregate(x.rules)
           E == Eligible(x.ask, req, x.seen)
           P == ToSet(x.primary)
           spare == E \ P
           ranked == Ranked(req, x.seen, E)
<1>1. /\ x.primary = Select(req, x.seen, ranked)
      /\ x.reserve = IF x.ask.preview THEN <<>> ELSE SelectReserve(req, ranked, x.primary)
      /\ SeenRows(x.seen)
  BY DEF Made
<1>2. Requirements(req)
  BY AggregateFacts DEF Made
<1> HIDE DEF req
<1>3. /\ x.primary \in Seq(E) /\ Once(x.primary) /\ P \subseteq E
      /\ Len(x.primary) = Cardinality(P) /\ IsFiniteSet(P)
  <2> DEFINE crew == Select(req, x.seen, ranked)
  <2>1. /\ crew \in Seq(E) /\ Once(crew) /\ ToSet(crew) \subseteq E
        /\ Len(crew) = Cardinality(ToSet(crew)) /\ IsFiniteSet(ToSet(crew))
    BY <1>1, <1>2, CompositionFacts
  <2>2. x.primary = crew
    BY <1>1
  <2> HIDE DEF crew, E
  <2> QED BY <2>1, <2>2
<1>4. ToSet(ranked) = E
  <2>1. IsFiniteSet(E) /\ \A u \in E : x.seen[u].distance \in Nat
    BY <1>1, <1>2, EligibleFacts
  <2> HIDE DEF E
  <2> QED BY <1>2, <2>1, RankedFacts
<1> DEFINE q == Picked(ranked, spare)
           n == Min({Len(q), ReserveUnits(req)})
           chosen == SubSeq(q, 1, n)
<1>5. SelectReserve(req, ranked, x.primary) = chosen
  BY <1>4 DEF SelectReserve
<1>6. /\ chosen \in Seq(E) /\ Once(chosen) /\ ToSet(chosen) \subseteq spare
      /\ Len(chosen) = Min({ReserveUnits(req), Cardinality(spare)})
      /\ \A u \in ToSet(chosen), v \in spare \ ToSet(chosen) :
           Score(req, x.seen[v]) <= Score(req, x.seen[u])
  BY <1>1, <1>2, ReserveFacts
<1> HIDE DEF chosen, ranked, E, P
<1>7. CASE x.ask.preview
  <2>1. x.reserve = <<>>
    BY <1>1, <1>7
  <2>2. <<>> \in Seq(E) /\ Len(<<>>) = 0 /\ Once(<<>>)
    BY DEF Once
  <2>3. ToSet(<<>>) = {}
    BY DEF ToSet
  <2>4. /\ x.reserve \in Seq(E) /\ Once(x.reserve) /\ ToSet(x.reserve) = {}
        /\ Len(x.reserve) = 0
    BY <2>1, <2>2, <2>3
  <2> QED BY <1>3, <1>7, <2>4 DEF req, E, P
<1>8. CASE ~ x.ask.preview
  <2>1. x.reserve = chosen
    BY <1>1, <1>5, <1>8
  <2> QED BY <1>3, <1>6, <1>8, <2>1 DEF req, E, P
<1> QED BY <1>7, <1>8

LEMMA MadeIsWhole == ASSUME NEW x, Made(x) PROVE RowIsWhole(x)
<1> DEFINE req == Aggregate(x.rules)
           danger == x.ask.danger
<1>1. x.status \in Outcomes
  BY DEF Made, Verdict, Outcomes
<1>2. x.rules \subseteq RuleContents
  BY DEF Made, RuleSet
<1>3. x.priority = IF danger # Nothing THEN Priorities[Max({Rank(danger), Rank(req.priority)})]
                   ELSE req.priority
  BY DEF Made, ResolvePriority
<1>4. req.priority \in ToSet(Priorities)
  BY PriorityOfRules DEF Made
<1>5. danger \in ToSet(Priorities) \cup {Nothing}
  BY DispatchAssumption DEF Made
<1> HIDE DEF req, danger
<1>6. CASE danger = Nothing
  BY <1>1, <1>2, <1>3, <1>4, <1>6 DEF RowIsWhole
<1>7. CASE danger # Nothing
  <2>1. Rank(danger) \in 1 .. 4 /\ Rank(req.priority) \in 1 .. 4
    BY <1>4, <1>5, <1>7, RankOfPriority
  <2>2. Max({Rank(danger), Rank(req.priority)}) \in 1 .. 4
    BY <2>1, MaxOfTwo
  <2>3. x.priority \in ToSet(Priorities)
    BY <1>3, <1>7, <2>2, RankOfPriority
  <2> QED BY <1>1, <1>2, <2>3 DEF RowIsWhole
<1> QED BY <1>6, <1>7

LEMMA MadeIsOnce == ASSUME NEW x, Made(x) PROVE ItemsAreOnce(x)
<1> DEFINE E == Eligible(x.ask, Aggregate(x.rules), x.seen)
           p == x.primary
           q == x.reserve
           all == p \o q
<1>1. /\ p \in Seq(E) /\ Once(p) /\ q \in Seq(E) /\ Once(q)
      /\ ToSet(q) \subseteq E \ ToSet(p)
  BY MadeOf
<1> HIDE DEF E, p, q
<1>2. /\ all \in Seq(E) /\ Len(all) = Len(p) + Len(q)
      /\ \A i \in 1 .. Len(p) + Len(q) : all[i] = IF i <= Len(p) THEN p[i] ELSE q[i - Len(p)]
  BY <1>1, ConcatProperties
<1>3. Len(p) \in Nat /\ Len(q) \in Nat /\ DOMAIN all = 1 .. Len(all)
  BY <1>1, <1>2, LenProperties
<1>4. \A i \in 1 .. Len(p), j \in 1 .. Len(q) : p[i] # q[j]
  BY <1>1, MembersOfList
<1> HIDE DEF all
<1>5. ASSUME NEW i \in 1 .. Len(all), NEW j \in 1 .. Len(all), all[i] = all[j]
      PROVE  i = j
  <2>1. CASE i <= Len(p) /\ j <= Len(p)
    <3>1. i \in 1 .. Len(p) /\ j \in 1 .. Len(p) /\ p[i] = p[j]
      BY <1>2, <1>3, <1>5, <2>1
    <3> QED BY <1>1, <3>1, OnceIsInjective
  <2>2. CASE i > Len(p) /\ j > Len(p)
    <3>1. /\ i - Len(p) \in 1 .. Len(q) /\ j - Len(p) \in 1 .. Len(q)
          /\ q[i - Len(p)] = q[j - Len(p)]
      BY <1>2, <1>3, <1>5, <2>2
    <3>2. i - Len(p) = j - Len(p)
      BY <1>1, <3>1, OnceIsInjective
    <3> QED BY <1>2, <1>3, <3>2
  <2>3. CASE i <= Len(p) /\ j > Len(p)
    <3>1. i \in 1 .. Len(p) /\ j - Len(p) \in 1 .. Len(q) /\ p[i] = q[j - Len(p)]
      BY <1>2, <1>3, <1>5, <2>3
    <3> QED BY <1>4, <3>1
  <2>4. CASE i > Len(p) /\ j <= Len(p)
    <3>1. j \in 1 .. Len(p) /\ i - Len(p) \in 1 .. Len(q) /\ p[j] = q[i - Len(p)]
      BY <1>2, <1>3, <1>5, <2>4
    <3> QED BY <1>4, <3>1
  <2> QED BY <1>2, <1>3, <2>1, <2>2, <2>3, <2>4
<1>6. \A i, j \in DOMAIN all : all[i] = all[j] => i = j
  BY <1>3, <1>5
<1> QED BY <1>6 DEF ItemsAreOnce, IsInjective, all, p, q

LEMMA MadeLog ==
  ASSUME NEW x, Made(x)
  PROVE  LET req == Aggregate(x.rules)
             E == Eligible(x.ask, req, x.seen) IN
         /\ MatchesAreWhole(x) /\ Deployable(x) = E
         /\ \A u \in DOMAIN x.seen : u \notin E =>
              /\ Hits(x.ask, req, u, x.seen[u]) # {}
              /\ x.matches[u] = ExclusionReason(x.ask, req, u, x.seen[u])
<1> DEFINE req == Aggregate(x.rules)
           E == Eligible(x.ask, req, x.seen)
           chosen == ToSet(x.primary) \cup ToSet(x.reserve)
<1>1. x.matches = MatchLog(x.ask, req, x.seen, chosen)
  BY DEF Made
<1>2. chosen \subseteq E
  BY MadeOf
<1> HIDE DEF chosen, req
<1>3. /\ DOMAIN x.matches = DOMAIN x.seen
      /\ \A u \in DOMAIN x.seen :
           /\ x.matches[u] \in ToSet(Reasons) \cup {"selected", "not_selected"}
           /\ x.matches[u] \in {"selected", "not_selected"} <=> u \in E
           /\ u \notin E => /\ Hits(x.ask, req, u, x.seen[u]) # {}
                            /\ x.matches[u] = ExclusionReason(x.ask, req, u, x.seen[u])
  BY <1>1, <1>2, LogFacts
<1>4. E \subseteq DOMAIN x.seen
  BY DEF Eligible
<1> HIDE DEF E
<1>5. MatchesAreWhole(x)
  BY <1>3 DEF MatchesAreWhole
<1>6. Deployable(x) = E
  BY <1>3, <1>4 DEF Deployable
<1> QED BY <1>3, <1>5, <1>6 DEF req, E

LEMMA MadeSuffices ==
  ASSUME NEW x, Made(x)
  PROVE  LET req == Aggregate(x.rules) IN
         x.status = "recommended" <=>
           /\ HasRequirements(req)
           /\ \E crew \in SUBSET Deployable(x) :
                /\ crew # {} /\ Cardinality(crew) >= MinimumUnits(req)
                /\ \A code \in Mandatory(req) :
                     Provided(x.seen, crew, code) >= req.needs[code].quantity
<1> DEFINE req == Aggregate(x.rules)
           E == Eligible(x.ask, req, x.seen)
           crew == Select(req, x.seen, Ranked(req, x.seen, E))
<1>1. /\ SeenRows(x.seen) /\ x.primary = crew
      /\ x.status = Verdict(req, x.seen, ToSet(x.primary))
  BY DEF Made
<1>2. Requirements(req)
  BY AggregateFacts DEF Made
<1>3. Deployable(x) = E
  BY MadeLog
<1> HIDE DEF req
<1>4. Verdict(req, x.seen, ToSet(crew)) = "recommended" <=>
        HasRequirements(req) /\ \E C : Suffices(req, x.seen, E, C)
  BY <1>1, <1>2, GreedyIsComplete
<1> HIDE DEF crew, E
<1>5. x.status = "recommended" <=> HasRequirements(req) /\ \E C : Suffices(req, x.seen, E, C)
  BY <1>1, <1>4
<1> QED BY <1>3, <1>5 DEF Suffices, req

LEMMA MadeMeets ==
  ASSUME NEW x, Made(x), x.status = "recommended", NEW v \in x.rules
  PROVE  /\ Len(x.primary) >= Total([c \in DOMAIN v.counts |-> v.counts[c].minimum])
         /\ \A code \in DOMAIN v.needs : v.needs[code].mandatory =>
              Provided(x.seen, ToSet(x.primary), code) >= v.needs[code].quantity
<1> DEFINE req == Aggregate(x.rules)
           E == Eligible(x.ask, req, x.seen)
           P == ToSet(x.primary)
<1>1. /\ P \subseteq E /\ IsFiniteSet(P) /\ Len(x.primary) = Cardinality(P)
  BY MadeOf
<1>2. Requirements(req) /\ Wants(req, v)
  BY AggregateFacts DEF Made
<1>3. SeenRows(x.seen) /\ x.status = Verdict(req, x.seen, P) /\ v \in RuleContents
  BY DEF Made, RuleSet
<1> HIDE DEF req
<1>4. Countable(req, x.seen, P)
  <2> HIDE DEF P
  <2> QED BY <1>1, <1>2, <1>3, EligibleFacts
<1> HIDE DEF E, P
<1>5. /\ Cardinality(P) >= MinimumUnits(req)
      /\ Mandatory(req) \subseteq Covered(req, x.seen, P)
  BY <1>3 DEF Verdict
<1> DEFINE least == [c \in DOMAIN v.counts |-> v.counts[c].minimum]
           most == [c \in DOMAIN req.counts |-> req.counts[c].minimum]
<1>6. Total(least) \in Nat /\ Total(least) <= Total(most) /\ Total(most) \in Nat
  <2>1. Amounts(least)
    BY <1>3, DispatchAssumption DEF Amounts
  <2>2. Amounts(most)
    BY <1>2 DEF Amounts, Requirements
  <2>3. \A c \in DOMAIN least : c \in DOMAIN most /\ least[c] <= most[c]
    BY <1>2 DEF Wants
  <2> HIDE DEF least, most
  <2> QED BY <2>1, <2>2, <2>3, TotalIsNumber, TotalGrows
<1>7. MinimumUnits(req) = Total(most)
  BY DEF MinimumUnits
<1>8. Cardinality(P) \in Nat
  BY <1>1, FS_CardinalityType
<1>9. Len(x.primary) >= Total(least)
  <2> HIDE DEF least, most
  <2> QED BY <1>1, <1>5, <1>6, <1>7, <1>8
<1>10. ASSUME NEW code \in DOMAIN v.needs, v.needs[code].mandatory
       PROVE  Provided(x.seen, P, code) >= v.needs[code].quantity
  <2>1. /\ code \in Mandatory(req) /\ code \in DOMAIN req.needs
        /\ v.needs[code].quantity <= req.needs[code].quantity
    BY <1>2, <1>10 DEF Wants, Mandatory
  <2>2. Provided(x.seen, P, code) >= req.needs[code].quantity
    BY <1>5, <2>1 DEF Covered
  <2>3. req.needs[code].quantity \in Int /\ v.needs[code].quantity \in Int
    BY <1>2, <1>3, <2>1, DispatchAssumption DEF Requirements
  <2>4. Provided(x.seen, P, code) \in Nat
    BY <1>1, <1>4, <2>1, ProvidedGrows DEF Countable
  <2> QED BY <2>1, <2>2, <2>3, <2>4
<1> QED BY <1>9, <1>10 DEF P

LEMMA MadeReasons ==
  ASSUME NEW x, Made(x), NEW u \in DOMAIN x.seen
  PROVE  LET row == x.seen[u]  why == x.matches[u] IN
         /\ u \in Deployable(x) =>
              /\ u \notin x.ask.excluded /\ row.status # Nothing
              /\ row.status.operational /\ row.status.deployable
              /\ row.status.code \notin ExcludedCodes
              /\ x.ask.area # Nothing => row.areas = {} \/ x.ask.area \in row.areas
         /\ why = "missing_capability" => row.status # Nothing /\ row.status.deployable
         /\ why = "not_deployable" => row.status # Nothing /\ row.status.operational
         /\ (why = "manual_exclusion") <=> u \in x.ask.excluded
<1> DEFINE req == Aggregate(x.rules)
           E == Eligible(x.ask, req, x.seen)
           row == x.seen[u]
           why == x.matches[u]
<1>1. /\ Deployable(x) = E
      /\ u \notin E => Hits(x.ask, req, u, row) # {} /\ why = ExclusionReason(x.ask, req, u, row)
  BY MadeLog
<1>2. u \in E <=> Hits(x.ask, req, u, row) = {}
  BY DEF Eligible
<1>3. u \in Deployable(x) => why \in {"selected", "not_selected"}
  BY DEF Deployable
<1> HIDE DEF req, E, row, why
<1>4. CASE u \in E
  <2>1. /\ u \notin x.ask.excluded /\ row.status # Nothing
        /\ row.status.operational /\ row.status.deployable
        /\ row.status.code \notin ExcludedCodes
        /\ x.ask.area # Nothing => row.areas = {} \/ x.ask.area \in row.areas
    BY <1>2, <1>4, FitFacts
  <2>2. why # "missing_capability" /\ why # "not_deployable" /\ why # "manual_exclusion"
    BY <1>1, <1>3, <1>4
  <2> QED BY <2>1, <2>2 DEF row, why
<1>5. CASE u \notin E
  <2>1. /\ why = "missing_capability" => row.status # Nothing /\ row.status.deployable
        /\ why = "not_deployable" => row.status # Nothing /\ row.status.operational
        /\ why = "manual_exclusion" <=> u \in x.ask.excluded
    BY <1>1, <1>5, ReasonFacts
  <2> QED BY <1>1, <1>5, <2>1 DEF row, why
<1> QED BY <1>4, <1>5

LEMMA MadeReserve ==
  ASSUME NEW x, Made(x)
  PROVE  LET req == Aggregate(x.rules)
             spare == Deployable(x) \ ToSet(x.primary) IN
         /\ ToSet(x.reserve) \subseteq spare
         /\ Len(x.reserve) = IF x.ask.preview THEN 0
                             ELSE Min({ReserveUnits(req), Cardinality(spare)})
         /\ \A u \in ToSet(x.reserve), v \in spare \ ToSet(x.reserve) :
              Score(req, x.seen[v]) <= Score(req, x.seen[u])
<1> DEFINE E == Eligible(x.ask, Aggregate(x.rules), x.seen)
<1>1. Deployable(x) = E
  BY MadeLog
<1>2. LET spare == E \ ToSet(x.primary)
          req == Aggregate(x.rules) IN
      /\ ToSet(x.reserve) \subseteq spare
      /\ Len(x.reserve) = IF x.ask.preview THEN 0
                          ELSE Min({ReserveUnits(req), Cardinality(spare)})
      /\ \A u \in ToSet(x.reserve), v \in spare \ ToSet(x.reserve) :
           Score(req, x.seen[v]) <= Score(req, x.seen[u])
  BY MadeOf
<1> HIDE DEF E
<1> QED BY <1>1, <1>2

-----------------------------------------------------------------------------
(* Conditions.                                                              *)

\* What each operator compares, whatever else the condition holds.
LEMMA ComparesByOperator ==
  ASSUME NEW d, NEW payload, d.payload = payload, NEW fact
  PROVE  /\ d.operator = "eq" =>
              (Compares(d, fact) <=> fact.value.text = payload.value.text)
         /\ d.operator = "neq" =>
              (Compares(d, fact) <=> fact.value.text # payload.value.text)
         /\ d.operator = "in" =>
              (Compares(d, fact) <=> fact.value.text \in {v.text : v \in payload.values})
         /\ d.operator = "not_in" =>
              (Compares(d, fact) <=> fact.value.text \notin {v.text : v \in payload.values})
         /\ d.operator = "gte" => (Compares(d, fact) <=> AtLeast(fact.value, payload.value))
         /\ d.operator = "lte" => (Compares(d, fact) <=> AtLeast(payload.value, fact.value))
         /\ d.operator = "between" =>
              (Compares(d, fact) <=> /\ AtLeast(fact.value, payload.min)
                                     /\ AtLeast(payload.max, fact.value))
<1> DEFINE texts == {v.text : v \in payload.values}
           op == d.operator
           with == Compares(d, fact)
           same == fact.value.text = payload.value.text
           among == fact.value.text \in texts
           above == AtLeast(fact.value, payload.value)
           below == AtLeast(payload.value, fact.value)
           above2 == AtLeast(fact.value, payload.min)
           below2 == AtLeast(payload.max, fact.value)
           held == fact.members # {}
           has == payload.value.text \in fact.members
<1>1. with <=>
        \/ op = "exists" /\ held
        \/ op = "eq" /\ same
        \/ op = "neq" /\ ~same
        \/ op = "in" /\ among
        \/ op = "not_in" /\ ~among
        \/ op = "gte" /\ above
        \/ op = "lte" /\ below
        \/ op = "between" /\ above2 /\ below2
        \/ op = "contains" /\ has
  BY DEF Compares
<1> HIDE DEF with, same, among, above, below, above2, below2, held, has, texts, op
<1>2. /\ op = "eq" => (with <=> same)
      /\ op = "neq" => (with <=> ~same)
      /\ op = "in" => (with <=> among)
      /\ op = "not_in" => (with <=> ~among)
      /\ op = "gte" => (with <=> above)
      /\ op = "lte" => (with <=> below)
      /\ op = "between" => (with <=> above2 /\ below2)
  BY <1>1
<1> QED BY <1>2 DEF with, same, among, above, below, above2, below2, texts, op

LEMMA ConditionDecides ==
  ASSUME NEW c, DOMAIN c = {"type", "operator", "payload"}, DOMAIN c.payload = DOMAIN Payload,
         NEW fact
  PROVE  LET with(operator) == Evaluate([c EXCEPT !.operator = operator], fact)
             bounded(operator, limit) ==
               Evaluate([c EXCEPT !.operator = operator, !.payload.value = limit], fact) IN
         /\ fact.known => with("eq") # with("neq") /\ with("in") # with("not_in")
         /\ ~fact.known => \A operator \in ConditionOperators : ~with(operator)
         /\ with("between") <=> bounded("gte", c.payload.min) /\ bounded("lte", c.payload.max)
<1> DEFINE as(operator) == [c EXCEPT !.operator = operator]
           to(operator, limit) == [c EXCEPT !.operator = operator, !.payload.value = limit]
<1>1. \A operator : as(operator).operator = operator /\ as(operator).payload = c.payload
  OBVIOUS
<1>2. "value" \in DOMAIN c.payload
  BY DEF Payload
<1>3. \A operator, limit :
        to(operator, limit).operator = operator /\ to(operator, limit).payload.value = limit
  BY <1>2
<1> DEFINE text == fact.value.text
           texts == {v.text : v \in c.payload.values}
<1>4. /\ Compares(as("eq"), fact) <=> text = c.payload.value.text
      /\ Compares(as("neq"), fact) <=> text # c.payload.value.text
      /\ Compares(as("in"), fact) <=> text \in texts
      /\ Compares(as("not_in"), fact) <=> text \notin texts
  <2> DEFINE d1 == as("eq")  d2 == as("neq")  d3 == as("in")  d4 == as("not_in")
  <2>1. /\ d1.operator = "eq" /\ d1.payload = c.payload
        /\ d2.operator = "neq" /\ d2.payload = c.payload
        /\ d3.operator = "in" /\ d3.payload = c.payload
        /\ d4.operator = "not_in" /\ d4.payload = c.payload
    BY <1>1
  <2> HIDE DEF d1, d2, d3, d4, as
  <2>2. Compares(d1, fact) <=> text = c.payload.value.text
    BY <2>1, ComparesByOperator
  <2>3. Compares(d2, fact) <=> text # c.payload.value.text
    BY <2>1, ComparesByOperator
  <2>4. Compares(d3, fact) <=> text \in texts
    BY <2>1, ComparesByOperator
  <2>5. Compares(d4, fact) <=> text \notin texts
    BY <2>1, ComparesByOperator
  <2> QED BY <2>2, <2>3, <2>4, <2>5 DEF d1, d2, d3, d4
<1>5. /\ Compares(as("between"), fact) <=>
           AtLeast(fact.value, c.payload.min) /\ AtLeast(c.payload.max, fact.value)
      /\ Compares(to("gte", c.payload.min), fact) <=> AtLeast(fact.value, c.payload.min)
      /\ Compares(to("lte", c.payload.max), fact) <=> AtLeast(c.payload.max, fact.value)
  <2> DEFINE d5 == as("between")
             d6 == to("gte", c.payload.min)
             d7 == to("lte", c.payload.max)
  <2>1. /\ d5.operator = "between" /\ d5.payload = c.payload
        /\ d6.operator = "gte" /\ d6.payload.value = c.payload.min
        /\ d7.operator = "lte" /\ d7.payload.value = c.payload.max
    BY <1>1, <1>3
  <2> HIDE DEF d5, d6, d7, as, to
  <2>2. Compares(d5, fact) <=>
          AtLeast(fact.value, c.payload.min) /\ AtLeast(c.payload.max, fact.value)
    BY <2>1, ComparesByOperator
  <2>3. Compares(d6, fact) <=> AtLeast(fact.value, c.payload.min)
    BY <2>1, ComparesByOperator
  <2>4. Compares(d7, fact) <=> AtLeast(c.payload.max, fact.value)
    BY <2>1, ComparesByOperator
  <2> QED BY <2>2, <2>3, <2>4 DEF d5, d6, d7
<1>6. \A d : Evaluate(d, fact) <=> fact.known /\ Compares(d, fact)
  BY DEF Evaluate
<1> HIDE DEF as, to, text, texts
<1>7. fact.known => Evaluate(as("eq"), fact) # Evaluate(as("neq"), fact)
  BY <1>4 DEF Evaluate
<1>8. fact.known => Evaluate(as("in"), fact) # Evaluate(as("not_in"), fact)
  BY <1>4 DEF Evaluate
<1>9. ~fact.known => \A operator \in ConditionOperators : ~Evaluate(as(operator), fact)
  BY <1>6
<1>10. Evaluate(as("between"), fact) <=>
         Evaluate(to("gte", c.payload.min), fact) /\ Evaluate(to("lte", c.payload.max), fact)
  BY <1>5, <1>6
<1> QED BY <1>7, <1>8, <1>9, <1>10 DEF as, to

-----------------------------------------------------------------------------
(* The search.                                                              *)

\* Whoever is fetched was found: within the radius and of the organizations asked for.
LEMMA FetchFacts ==
  ASSUME unit \in [Units -> UnitRows], NEW ask, NEW req
  PROVE  \A u \in FetchCandidates(ask, req) :
           /\ u \in Units
           /\ unit[u].distance <= IF ask.radius = Nothing THEN DefaultRadius ELSE ask.radius
           /\ ask.organizations # {} => unit[u].organization \in ask.organizations
<1> DEFINE radius == IF ask.radius = Nothing THEN DefaultRadius ELSE ask.radius
           found == {u \in Units :
             /\ unit[u].distance <= radius
             /\ DOMAIN req.counts # {} => unit[u].category \in DOMAIN req.counts
             /\ ask.organizations # {} => unit[u].organization \in ask.organizations}
           order == Sorted(found, Nearer)
           n == Min({CandidateLimit, Len(order)})
<1>1. FetchCandidates(ask, req) = ToSet(SubSeq(order, 1, n))
  BY DEF FetchCandidates
<1>2. \A u \in found :
        /\ u \in Units /\ unit[u].distance <= radius
        /\ ask.organizations # {} => unit[u].organization \in ask.organizations
  OBVIOUS
<1>3. found \in SUBSET Units
  OBVIOUS
<1> HIDE DEF found
<1>4. IsFiniteSet(found)
  BY <1>3, DispatchAssumption, FS_Subset
<1>5. \A u \in found : unit[u].distance \in Nat
  BY <1>3, DispatchAssumption
<1>6. Before(found, Nearer)
  BY <1>3, <1>5 DEF Before, Nearer
<1>7. order \in Seq(found) /\ InOrder(order, Len(order), Nearer) /\ Len(order) \in Nat
  BY <1>4, <1>6, SortedFacts
<1> HIDE DEF order
<1>8. Once(order)
  BY <1>7 DEF Once, InOrder
<1>9. n \in 0 .. Len(order)
  <2>1. CandidateLimit \in Nat
    BY DispatchAssumption
  <2>2. n = IF CandidateLimit <= Len(order) THEN CandidateLimit ELSE Len(order)
    BY <1>7, <2>1, MinOfTwo
  <2> QED BY <1>7, <2>1, <2>2
<1> HIDE DEF n
<1>10. ToSet(SubSeq(order, 1, n)) \subseteq found
  <2>1. ToSet(SubSeq(order, 1, n)) \subseteq ToSet(order)
    BY <1>7, <1>8, <1>9, FirstOfList
  <2>2. ToSet(order) \subseteq found
    BY <1>7, MembersOfList
  <2> QED BY <2>1, <2>2
<1> HIDE DEF radius
<1> QED BY <1>1, <1>2, <1>10 DEF radius

-----------------------------------------------------------------------------
(* The inductive invariant: what a request has read at each of its stages.   *)

\* Of rows whose numbers have a bound, one has the greatest.
LEMMA NewestIsNewest ==
  ASSUME NEW rows, rows # {}, \A x \in rows : x.number \in Nat,
         NEW bound \in Nat, \A x \in rows : x.number <= bound
  PROVE  Newest(rows) \in rows /\ \A y \in rows : y.number <= Newest(rows).number
<1> DEFINE T == {b \in Nat : \A x \in rows : x.number <= b}
<1>1. T \subseteq Nat /\ T # {}
  OBVIOUS
<1>2. PICK m \in T : \A k \in T : ~ (k < m)
  <2> HIDE DEF T
  <2> QED BY <1>1, Smallest
<1>3. m \in Nat /\ \A x \in rows : x.number <= m
  OBVIOUS
<1>4. \E x \in rows : x.number = m
  <2> SUFFICES ASSUME \A x \in rows : x.number # m PROVE FALSE
    OBVIOUS
  <2>1. \A x \in rows : x.number <= m - 1
    BY <1>3
  <2>2. m - 1 \in Nat
    BY <1>3
  <2>3. m - 1 \in T /\ m - 1 < m
    BY <2>1, <2>2
  <2> QED BY <1>2, <2>3
<1>5. \E x \in rows : \A y \in rows : y.number <= x.number
  BY <1>3, <1>4
<1> QED BY <1>5 DEF Newest

\* A request that was accepted is numbered, keeps what was asked, and has at each
\* stage the rules that applied and the rows that it has read so far.
Stages == {"asked", "found", "fetched", "capable", "loaded", "done"}
Accepted(q) ==
  /\ {"at", "number", "ask"} \subseteq DOMAIN q
  /\ q.at \in Stages /\ q.number \in Nat /\ q.ask \in Asks
  /\ q.at # "asked" => RuleSet(q.rules)
  /\ q.at \notin {"asked", "found"} =>
       "seen" \in DOMAIN q /\ SeenRows(q.seen) /\ WithinLimits(q.ask, q.seen)
Waiting(q) == q.at \in {"new", "refused"} /\ "number" \notin DOMAIN q

RecommendationRow(x) == x.number \in Nat /\ Made(x)

DispatchInv ==
  /\ unit \in [Units -> UnitRows] /\ RuleSet(rulebook)
  /\ request = [r \in Askers |-> request[r]]
  /\ \A r \in Askers : Accepted(request[r]) \/ Waiting(request[r])
  /\ IsFiniteSet({r \in Askers : "number" \in DOMAIN request[r]})
  /\ \A x \in recommendations : RecommendationRow(x)
  /\ \E bound \in Nat : \A x \in recommendations : x.number <= bound
  /\ latest # Nothing => \E x \in recommendations : ~ x.ask.preview /\ latest = Headline(x)

LEMMA DispatchInitially == DispatchInit => DispatchInv
<1> SUFFICES ASSUME DispatchInit PROVE DispatchInv
  OBVIOUS
<1>1. \A r \in Askers : Waiting(request[r]) /\ "number" \notin DOMAIN request[r]
  BY DEF DispatchInit, Waiting
<1>2. {r \in Askers : "number" \in DOMAIN request[r]} = {}
  BY <1>1
<1>3. IsFiniteSet({r \in Askers : "number" \in DOMAIN request[r]})
  BY <1>2, FS_EmptySet
<1>4. request = [r \in Askers |-> request[r]]
  BY DEF DispatchInit
<1>5. RuleSet(rulebook) /\ unit \in [Units -> UnitRows]
  BY DEF DispatchInit, RuleSet
<1>6. recommendations = {} /\ latest = Nothing
  BY DEF DispatchInit
<1>7. \E bound \in Nat : \A x \in recommendations : x.number <= bound
  <2>1. 0 \in Nat
    OBVIOUS
  <2> QED BY <1>6, <2>1
<1> QED BY <1>1, <1>3, <1>4, <1>5, <1>6, <1>7 DEF DispatchInv

\* One more request may be accepted in a step.
LEMMA RequestMoves ==
  ASSUME DispatchInv, NEW r \in Askers, NEW q, request' = [request EXCEPT ![r] = q],
         Accepted(q) \/ Waiting(q)
  PROVE  /\ request' = [s \in Askers |-> request'[s]]
         /\ \A s \in Askers : Accepted(request'[s]) \/ Waiting(request'[s])
         /\ IsFiniteSet({s \in Askers : "number" \in DOMAIN request'[s]})
<1> DEFINE before == {s \in Askers : "number" \in DOMAIN request[s]}
           after == {s \in Askers : "number" \in DOMAIN request'[s]}
<1>1. request = [s \in Askers |-> request[s]]
  BY DEF DispatchInv
<1>2. request'[r] = q /\ \A s \in Askers : s # r => request'[s] = request[s]
  BY <1>1
<1>3. request' = [s \in Askers |-> request'[s]]
  BY <1>1
<1>4. after \subseteq before \cup {r}
  BY <1>2
<1>5. IsFiniteSet(before)
  BY DEF DispatchInv
<1> HIDE DEF before, after
<1>6. IsFiniteSet(after)
  BY <1>4, <1>5, FS_AddElement, FS_Subset
<1>7. \A s \in Askers : Accepted(request'[s]) \/ Waiting(request'[s])
  BY <1>2 DEF DispatchInv
<1> QED BY <1>3, <1>6, <1>7 DEF after

\* A step of a request before it stores anything.
LEMMA RequestKeeps ==
  ASSUME DispatchInv, NEW r \in Askers, NEW q, request' = [request EXCEPT ![r] = q],
         Accepted(q) \/ Waiting(q), UNCHANGED <<unit, rulebook, recommendations, latest>>
  PROVE  DispatchInv'
<1>1. /\ request' = [s \in Askers |-> request'[s]]
      /\ \A s \in Askers : Accepted(request'[s]) \/ Waiting(request'[s])
      /\ IsFiniteSet({s \in Askers : "number" \in DOMAIN request'[s]})
  BY RequestMoves
<1> QED BY <1>1 DEF DispatchInv

LEMMA AskKeeps ==
  ASSUME DispatchInv, NEW r \in Askers, NEW ask \in Asks, Ask(r, ask)
  PROVE  DispatchInv'
<1> DEFINE n == Cardinality(Numbered) + 1
           q == IF ValidPoint(ask) /\ ask.typed
                THEN [at |-> "asked", number |-> n, ask |-> ask] ELSE [at |-> "refused"]
           S == {s \in Askers : "number" \in DOMAIN request[s]}
           T == {request[s].number : s \in S}
<1>1. n \in Nat
  <2>1. IsFiniteSet(S) /\ Numbered = T
    BY DEF DispatchInv, Numbered
  <2>2. IsFiniteSet(T)
    <3> DEFINE g == [s \in S |-> request[s].number]
    <3>1. DOMAIN g = S /\ \A m \in T : \E s \in S : g[s] = m
      OBVIOUS
    <3>2. g \in [S -> T]
      OBVIOUS
    <3> HIDE DEF g, T, S
    <3> QED BY <2>1, <3>1, <3>2, Fun_IsSurj, FS_Surjection
  <2> HIDE DEF T
  <2> QED BY <2>1, <2>2, FS_CardinalityType
<1>2. request' = [request EXCEPT ![r] = q] /\ UNCHANGED <<unit, rulebook, recommendations, latest>>
  BY DEF Ask
<1> HIDE DEF n
<1>3. Accepted(q) \/ Waiting(q)
  BY <1>1 DEF Accepted, Waiting, Stages
<1> HIDE DEF q
<1> QED BY <1>2, <1>3, RequestKeeps

LEMMA FindKeeps ==
  ASSUME DispatchInv, NEW r \in Askers, FindRules(r)
  PROVE  DispatchInv'
<1> DEFINE old == request[r]
           R == {v \in rulebook : Applicable(v, old.ask.facts)}
           q == [at |-> "found", number |-> old.number, ask |-> old.ask, rules |-> R]
<1>1. old.at = "asked" /\ UNCHANGED <<unit, rulebook, recommendations, latest>>
  BY DEF FindRules
<1>2. Accepted(old)
  BY <1>1 DEF DispatchInv, Waiting
<1>3. request' = [request EXCEPT ![r] = q]
  BY DEF FindRules
<1>4. R \in SUBSET rulebook /\ RuleSet(rulebook)
  BY DEF DispatchInv
<1> HIDE DEF R, old
<1>5. RuleSet(R)
  BY <1>4, FS_Subset DEF RuleSet
<1>6. Accepted(q)
  BY <1>2, <1>5 DEF Accepted, Stages
<1> HIDE DEF q
<1> QED BY <1>1, <1>3, <1>6, RequestKeeps

LEMMA FetchKeeps ==
  ASSUME DispatchInv, NEW r \in Askers, Fetch(r)
  PROVE  DispatchInv'
<1> DEFINE old == request[r]
           near == FetchCandidates(old.ask, Aggregate(old.rules))
           F == [u \in near |-> unit[u]]
           q == [at |-> "fetched", number |-> old.number, ask |-> old.ask,
                 rules |-> old.rules, seen |-> F]
<1>1. old.at = "found" /\ UNCHANGED <<unit, rulebook, recommendations, latest>>
  BY DEF Fetch
<1>2. Accepted(old)
  BY <1>1 DEF DispatchInv, Waiting
<1>3. request' = [request EXCEPT ![r] = q]
  BY DEF Fetch
<1>4. \A u \in near :
        /\ u \in Units
        /\ unit[u].distance <= IF old.ask.radius = Nothing THEN DefaultRadius ELSE old.ask.radius
        /\ old.ask.organizations # {} => unit[u].organization \in old.ask.organizations
  BY FetchFacts DEF DispatchInv
<1>5. \A u \in Units : unit[u] \in UnitRows
  BY DEF DispatchInv
<1> HIDE DEF near, old
<1>6. DOMAIN F = near /\ \A u \in near : F[u] = unit[u]
  OBVIOUS
<1> HIDE DEF F
<1>7. SeenRows(F) /\ WithinLimits(old.ask, F)
  <2>1. WithinLimits(old.ask, F)
    BY <1>4, <1>6 DEF WithinLimits
  <2>2. ASSUME NEW u \in DOMAIN F
        PROVE  /\ u \in Units
               /\ DOMAIN F[u] = {"status", "distance", "areas", "category", "organization",
                                 "provides"}
               /\ F[u].distance \in Nat /\ F[u].provides \in [Capabilities -> Nat]
    BY <1>4, <1>5, <1>6, DispatchAssumption
  <2> QED BY <2>1, <2>2 DEF SeenRows
<1>8. Accepted(q)
  BY <1>1, <1>2, <1>7 DEF Accepted, Stages
<1> HIDE DEF q
<1> QED BY <1>1, <1>3, <1>8, RequestKeeps

\* The second and the third SELECT put one column of the rows right.
LEMMA CapabilitiesKeep ==
  ASSUME DispatchInv, NEW r \in Askers, LoadCapabilities(r)
  PROVE  DispatchInv'
<1> DEFINE old == request[r]
           F == [u \in DOMAIN old.seen |-> [old.seen[u] EXCEPT !.provides = unit[u].provides]]
           q == [old EXCEPT !.at = "capable", !.seen = F]
<1>1. old.at = "fetched" /\ UNCHANGED <<unit, rulebook, recommendations, latest>>
  BY DEF LoadCapabilities
<1>2. Accepted(old) /\ "seen" \in DOMAIN old /\ SeenRows(old.seen) /\ WithinLimits(old.ask, old.seen)
      /\ RuleSet(old.rules)
  BY <1>1 DEF DispatchInv, Waiting, Accepted
<1>3. request' = [request EXCEPT ![r] = q]
  BY DEF LoadCapabilities
<1>4. \A u \in Units : unit[u].provides \in [Capabilities -> Nat]
  BY DispatchAssumption DEF DispatchInv
<1> HIDE DEF old
<1>5. DOMAIN F = DOMAIN old.seen
  OBVIOUS
<1>6. ASSUME NEW u \in DOMAIN old.seen
      PROVE  /\ DOMAIN F[u] = DOMAIN old.seen[u] /\ F[u].distance = old.seen[u].distance
             /\ F[u].organization = old.seen[u].organization
             /\ F[u].provides = unit[u].provides /\ u \in Units
  <2>1. "provides" \in DOMAIN old.seen[u] /\ u \in Units
    BY <1>2 DEF SeenRows
  <2> QED BY <2>1
<1> HIDE DEF F
<1>7. SeenRows(F) /\ WithinLimits(old.ask, F)
  BY <1>2, <1>4, <1>5, <1>6 DEF SeenRows, WithinLimits
<1>8. /\ DOMAIN q = DOMAIN old /\ q.number = old.number /\ q.ask = old.ask
      /\ q.rules = old.rules /\ q.at = "capable" /\ q.seen = F
  BY <1>2 DEF Accepted
<1> HIDE DEF q
<1>9. Accepted(q)
  BY <1>2, <1>7, <1>8 DEF Accepted, Stages
<1> QED BY <1>1, <1>3, <1>9, RequestKeeps

LEMMA AreasKeep ==
  ASSUME DispatchInv, NEW r \in Askers, LoadServiceAreas(r)
  PROVE  DispatchInv'
<1> DEFINE old == request[r]
           F == [u \in DOMAIN old.seen |-> [old.seen[u] EXCEPT !.areas = unit[u].areas]]
           q == [old EXCEPT !.at = "loaded", !.seen = F]
<1>1. old.at = "capable" /\ UNCHANGED <<unit, rulebook, recommendations, latest>>
  BY DEF LoadServiceAreas
<1>2. Accepted(old) /\ "seen" \in DOMAIN old /\ SeenRows(old.seen) /\ WithinLimits(old.ask, old.seen)
      /\ RuleSet(old.rules)
  BY <1>1 DEF DispatchInv, Waiting, Accepted
<1>3. request' = [request EXCEPT ![r] = q]
  BY DEF LoadServiceAreas
<1> HIDE DEF old
<1>4. /\ DOMAIN F = DOMAIN old.seen
      /\ \A u \in DOMAIN old.seen :
           /\ DOMAIN F[u] = DOMAIN old.seen[u] /\ F[u].distance = old.seen[u].distance
           /\ F[u].organization = old.seen[u].organization
           /\ F[u].provides = old.seen[u].provides
  OBVIOUS
<1> HIDE DEF F
<1>5. SeenRows(F) /\ WithinLimits(old.ask, F)
  BY <1>2, <1>4 DEF SeenRows, WithinLimits
<1>6. /\ DOMAIN q = DOMAIN old /\ q.number = old.number /\ q.ask = old.ask
      /\ q.rules = old.rules /\ q.at = "loaded" /\ q.seen = F
  BY <1>2 DEF Accepted
<1> HIDE DEF q
<1>7. Accepted(q)
  BY <1>2, <1>5, <1>6 DEF Accepted, Stages
<1> QED BY <1>1, <1>3, <1>7, RequestKeeps

LEMMA StoreKeeps ==
  ASSUME DispatchInv, NEW r \in Askers, Store(r)
  PROVE  DispatchInv'
<1> DEFINE x == Outcome(r)
           old == request[r]
           q == [old EXCEPT !.at = "done"]
<1>1. old.at = "loaded"
  BY DEF Store
<1>2. /\ Accepted(old) /\ RuleSet(old.rules) /\ SeenRows(old.seen)
      /\ WithinLimits(old.ask, old.seen) /\ "seen" \in DOMAIN old
  BY <1>1 DEF DispatchInv, Waiting, Accepted
<1>3. /\ request' = [request EXCEPT ![r] = q]
      /\ recommendations' = recommendations \cup {x} /\ latest' = latest
      /\ UNCHANGED <<unit, rulebook>>
  BY DEF Store
<1>4. x.number = old.number /\ x.ask = old.ask /\ x.rules = old.rules /\ x.seen = old.seen
  BY DEF Outcome
<1>5. Made(x)
  <2>1. LET req == Aggregate(x.rules)
            ranked == Ranked(req, x.seen, Eligible(x.ask, req, x.seen)) IN
        /\ x.priority = ResolvePriority(req, x.ask.danger)
        /\ x.primary = Select(req, x.seen, ranked)
        /\ x.reserve = IF x.ask.preview THEN <<>> ELSE SelectReserve(req, ranked, x.primary)
        /\ x.matches = MatchLog(x.ask, req, x.seen, ToSet(x.primary) \cup ToSet(x.reserve))
        /\ x.status = Verdict(req, x.seen, ToSet(x.primary))
    BY DEF Outcome
  <2> HIDE DEF x
  <2> QED BY <1>2, <1>4, <2>1 DEF Made, Accepted
<1> HIDE DEF x
<1>6. Accepted(q)
  <2>1. /\ DOMAIN q = DOMAIN old /\ q.number = old.number /\ q.ask = old.ask
        /\ q.rules = old.rules /\ q.seen = old.seen /\ q.at = "done"
    BY <1>2 DEF Accepted
  <2> HIDE DEF q
  <2> QED BY <1>2, <2>1 DEF Accepted, Stages
<1> HIDE DEF q
<1>7. RecommendationRow(x)
  BY <1>2, <1>4, <1>5 DEF Accepted, RecommendationRow
<1>8. /\ request' = [s \in Askers |-> request'[s]]
      /\ \A s \in Askers : Accepted(request'[s]) \/ Waiting(request'[s])
      /\ IsFiniteSet({s \in Askers : "number" \in DOMAIN request'[s]})
  BY <1>3, <1>6, RequestMoves
<1>9. \A y \in recommendations' : RecommendationRow(y)
  BY <1>3, <1>7 DEF DispatchInv
<1>10. \E bound \in Nat : \A y \in recommendations' : y.number <= bound
  <2>1. PICK b \in Nat : \A y \in recommendations : y.number <= b
    BY DEF DispatchInv
  <2>2. x.number \in Nat /\ \A y \in recommendations : y.number \in Nat
    BY <1>7 DEF DispatchInv, RecommendationRow
  <2>3. b + x.number \in Nat /\ \A y \in recommendations' : y.number <= b + x.number
    BY <1>3, <2>1, <2>2
  <2> QED BY <2>3
<1>11. latest' # Nothing => \E y \in recommendations' : ~ y.ask.preview /\ latest' = Headline(y)
  BY <1>3 DEF DispatchInv
<1>12. (unit \in [Units -> UnitRows])' /\ RuleSet(rulebook)'
  BY <1>3 DEF DispatchInv
<1> QED BY <1>8, <1>9, <1>10, <1>11, <1>12 DEF DispatchInv

\* Others change a resource or a rule.
LEMMA ChangesKeep ==
  ASSUME DispatchInv, OthersCommit
  PROVE  DispatchInv'
<1>1. UNCHANGED <<request, recommendations, latest>>
  BY DEF OthersCommit
<1>2. (unit \in [Units -> UnitRows])'
  BY DEF OthersCommit, DispatchInv
<1>3. RuleSet(rulebook)'
  <2>1. CASE UNCHANGED rulebook
    BY <2>1 DEF DispatchInv, RuleSet
  <2>2. ASSUME NEW v \in RuleContents,
               rulebook' = IF v \in rulebook THEN rulebook \ {v} ELSE rulebook \cup {v}
        PROVE  RuleSet(rulebook)'
    <3>1. IsFiniteSet(rulebook \ {v}) /\ IsFiniteSet(rulebook \cup {v})
      BY FS_RemoveElement, FS_AddElement DEF DispatchInv, RuleSet
    <3> QED BY <2>2, <3>1 DEF DispatchInv, RuleSet
  <2> QED BY <2>1, <2>2 DEF OthersCommit
<1> QED BY <1>1, <1>2, <1>3 DEF DispatchInv

\* What a GET answers: nothing as long as there are previews only, else the newest.
LEMMA AnsweredLatest ==
  ASSUME DispatchInv, GetRecommendation
  PROVE  \/ latest' = Nothing /\ \A x \in recommendations : x.ask.preview
         \/ \E x \in recommendations :
              /\ ~ x.ask.preview /\ latest' = Headline(x)
              /\ \A y \in recommendations : ~ y.ask.preview => y.number <= x.number
<1> DEFINE full == {x \in recommendations : ~ x.ask.preview}
<1>1. latest' = IF full = {} THEN Nothing ELSE Headline(Newest(full))
  BY DEF GetRecommendation, LatestForIncident
<1>2. PICK b \in Nat : \A x \in recommendations : x.number <= b
  BY DEF DispatchInv
<1>3. \A x \in full : x.number \in Nat /\ x.number <= b
  BY <1>2 DEF DispatchInv, RecommendationRow
<1>4. CASE full = {}
  BY <1>1, <1>4
<1>5. CASE full # {}
  <2> HIDE DEF full
  <2>1. Newest(full) \in full /\ \A y \in full : y.number <= Newest(full).number
    BY <1>3, <1>5, NewestIsNewest
  <2>2. latest' = Headline(Newest(full))
    BY <1>1, <1>5
  <2>3. PICK x \in full : latest' = Headline(x) /\ \A y \in full : y.number <= x.number
    BY <2>1, <2>2
  <2> QED BY <2>3 DEF full
<1> QED BY <1>4, <1>5

LEMMA DispatchInductive == DispatchInv /\ [DispatchNext]_dispatchVars => DispatchInv'
<1> SUFFICES ASSUME DispatchInv, [DispatchNext]_dispatchVars PROVE DispatchInv'
  OBVIOUS
<1>1. CASE UNCHANGED dispatchVars
  BY <1>1 DEF dispatchVars, DispatchInv
<1>2. CASE GetRecommendation
  <2>1. UNCHANGED <<unit, rulebook, request, recommendations>>
    BY <1>2 DEF GetRecommendation
  <2>2. latest' # Nothing => \E x \in recommendations : ~ x.ask.preview /\ latest' = Headline(x)
    BY <1>2, AnsweredLatest
  <2> QED BY <2>1, <2>2 DEF DispatchInv
<1>3. CASE OthersCommit
  BY <1>3, ChangesKeep
<1> QED
  BY <1>1, <1>2, <1>3, AskKeeps, FindKeeps, FetchKeeps, CapabilitiesKeep, AreasKeep, StoreKeeps
     DEF DispatchNext

AnswerAdvances ==
  /\ latest' # Nothing => ~latest'.preview
  /\ latest # Nothing => latest' # Nothing /\ latest'.number >= latest.number

LEMMA ShownRow ==
  ASSUME NEW x, RecommendationRow(x)
  PROVE  Headline(x) # Nothing /\ Headline(x).number = x.number /\ Headline(x).preview = x.ask.preview
<1>1. x.ask.preview \in BOOLEAN /\ x.number \in Nat
  BY DispatchAssumption DEF RecommendationRow, Made
<1>2. Headline(x) \in [number : Nat, preview : BOOLEAN]
  BY <1>1 DEF Headline
<1> QED BY <1>2, DispatchAssumption DEF Headline

\* RecommendationRepository.latest_for_incident: whoever asks for the recommendation of
\* the incident never gets an earlier one than before, nor a preview, in whatever order
\* overlapping requests store theirs.
THEOREM LatestNeverReturns == DispatchSpec => LatestNeverGoesBack
<1>1. ASSUME DispatchInv, [DispatchNext]_dispatchVars
      PROVE  AnswerAdvances \/ UNCHANGED dispatchVars
  <2>1. \A x \in recommendations : RecommendationRow(x)
    BY <1>1 DEF DispatchInv
  <2>2. latest = Nothing \/ \E x \in recommendations : ~ x.ask.preview /\ latest = Headline(x)
    BY <1>1 DEF DispatchInv
  <2>3. CASE latest' = latest
    <3>1. CASE latest = Nothing
      BY <2>3, <3>1 DEF AnswerAdvances
    <3>2. CASE latest # Nothing
      <4>1. PICK x \in recommendations : ~ x.ask.preview /\ latest = Headline(x)
        BY <2>2, <3>2
      <4>2. latest.number \in Nat /\ ~ latest.preview
        BY <2>1, <4>1, ShownRow DEF RecommendationRow
      <4> QED BY <2>3, <3>2, <4>2 DEF AnswerAdvances
    <3> QED BY <3>1, <3>2
  <2>4. CASE GetRecommendation
    <3>1. CASE latest' = Nothing /\ \A x \in recommendations : x.ask.preview
      BY <2>2, <3>1 DEF AnswerAdvances
    <3>2. ASSUME NEW x \in recommendations, ~ x.ask.preview, latest' = Headline(x),
                 \A y \in recommendations : ~ y.ask.preview => y.number <= x.number
          PROVE  AnswerAdvances
      <4>1. /\ latest' # Nothing /\ ~ latest'.preview /\ latest'.number = x.number
            /\ x.number \in Nat
        BY <2>1, <3>2, ShownRow DEF RecommendationRow
      <4>2. ASSUME NEW y \in recommendations, ~ y.ask.preview, latest = Headline(y)
            PROVE  latest'.number >= latest.number
        <5>1. latest.number = y.number /\ y.number \in Nat
          BY <2>1, <4>2, ShownRow DEF RecommendationRow
        <5>2. y.number <= x.number
          BY <3>2, <4>2
        <5> QED BY <4>1, <5>1, <5>2
      <4> QED BY <2>2, <4>1, <4>2 DEF AnswerAdvances
    <3> QED BY <1>1, <2>4, <3>1, <3>2, AnsweredLatest
  <2>5. CASE UNCHANGED dispatchVars
    BY <2>5
  <2> QED
    BY <1>1, <2>3, <2>4, <2>5 DEF DispatchNext, Ask, FindRules, Fetch, LoadCapabilities,
       LoadServiceAreas, Store, OthersCommit
<1>2. DispatchInv /\ [DispatchNext]_dispatchVars => AnswerAdvances \/ UNCHANGED dispatchVars
  BY <1>1
<1>3. DispatchSpec => [][AnswerAdvances]_dispatchVars
  BY <1>2, DispatchInitially, DispatchInductive, PTL DEF DispatchSpec
<1>4. [][AnswerAdvances]_dispatchVars => LatestNeverGoesBack
  BY PTL DEF AnswerAdvances, LatestNeverGoesBack
<1> QED BY <1>3, <1>4, PTL

LEMMA DispatchTyped == DispatchInv => DispatchTypeOK
<1> SUFFICES ASSUME DispatchInv PROVE DispatchTypeOK
  OBVIOUS
<1>1. unit \in [Units -> UnitRows] /\ rulebook \subseteq RuleContents
  BY DEF DispatchInv, RuleSet
<1>2. \A r \in Askers : request[r].at \in
        {"new", "refused", "asked", "found", "fetched", "capable", "loaded", "done"}
  BY DEF DispatchInv, Accepted, Waiting, Stages
<1>3. ASSUME NEW x \in recommendations
      PROVE  RowIsWhole(x) /\ ItemsAreOnce(x) /\ MatchesAreWhole(x)
  <2>1. Made(x)
    BY DEF DispatchInv, RecommendationRow
  <2> QED BY <2>1, MadeIsWhole, MadeIsOnce, MadeLog
<1>4. latest \in {Headline(x) : x \in recommendations} \cup {Nothing}
  BY DEF DispatchInv
<1> QED BY <1>1, <1>2, <1>3, <1>4 DEF DispatchTypeOK

\* The type of every state: rows, rules and requests, and of what is stored that it
\* is whole, without anybody twice, and with everybody who was read in the log.
THEOREM DispatchTypeCorrect == DispatchSpec => []DispatchTypeOK
BY DispatchInitially, DispatchInductive, DispatchTyped, PTL DEF DispatchSpec

\* What others commit while a request reads cannot make its recommendation unsound:
\* sufficient exactly if some composition of the resources that were read is, fit for
\* every rule that applied, each reason true, the best in reserve.
THEOREM CompositionAlwaysSound == DispatchSpec => []CompositionIsSound
<1>1. ASSUME DispatchInv PROVE CompositionIsSound
  <2>1. \A x \in recommendations : Made(x)
    BY <1>1 DEF DispatchInv, RecommendationRow
  <2>2. SufficientExactly
    BY <2>1, MadeSuffices DEF SufficientExactly
  <2>3. EveryRuleIsMet
    BY <2>1, MadeMeets DEF EveryRuleIsMet
  <2>4. ReasonsAreTrue
    BY <2>1, MadeReasons DEF ReasonsAreTrue
  <2>5. ReserveIsNextBest
    BY <2>1, MadeReserve DEF ReserveIsNextBest
  <2>6. ConstraintsAreKept
    BY <2>1 DEF ConstraintsAreKept, Made, WithinLimits
  <2>7. FactsDecide
    <3> SUFFICES ASSUME NEW v \in rulebook, NEW c \in v.conditions, NEW r \in Askers
        PROVE  LET fact == request[r].ask.facts[c.type]
                   with(operator) == Evaluate([c EXCEPT !.operator = operator], fact)
                   bounded(operator, limit) ==
                     Evaluate([c EXCEPT !.operator = operator, !.payload.value = limit], fact) IN
               /\ fact.known => with("eq") # with("neq") /\ with("in") # with("not_in")
               /\ ~fact.known => \A operator \in ConditionOperators : ~with(operator)
               /\ with("between") <=> bounded("gte", c.payload.min) /\ bounded("lte", c.payload.max)
      BY DEF FactsDecide
    <3>1. v \in RuleContents
      BY <1>1 DEF DispatchInv, RuleSet
    <3>2. DOMAIN c = {"type", "operator", "payload"} /\ DOMAIN c.payload = DOMAIN Payload
      BY <3>1, DispatchAssumption
    <3> DEFINE fact == request[r].ask.facts[c.type]
    <3> HIDE DEF fact
    <3> QED BY <3>2, ConditionDecides DEF fact
  <2> QED
    BY <2>2, <2>3, <2>4, <2>5, <2>6, <2>7 DEF CompositionIsSound
<1> QED BY <1>1, DispatchInitially, DispatchInductive, PTL DEF DispatchSpec
=============================================================================
