------------------------------ MODULE SumTheorems ------------------------------
(***************************************************************************)
(* Facts about Total and about SumFunctionOnSet: how a sum changes when a  *)
(* row is added and when one row changes.  Induction is done with the      *)
(* least counterexample of a set of naturals, because the provers cannot   *)
(* instantiate an induction rule stated for an arbitrary predicate.        *)
(***************************************************************************)
EXTENDS Sums, Functions, FiniteSetTheorems, WellFoundedInduction, TLAPS

Below == {p \in Nat \X Nat : p[1] < p[2]}

\* The order on the naturals is well founded.
LEMMA BelowIsWellFounded == IsWellFoundedOn(Below, Nat)
  BY NatLessThanWellFounded DEF OpToRel, Below

\* A set of naturals with no least member is empty.
LEMMA NoLeastMember ==
  ASSUME NEW T, T \subseteq Nat,
         \A m \in T : \E k \in T : k < m
  PROVE  T = {}
<1>1. SUFFICES ASSUME T # {} PROVE FALSE
  OBVIOUS
<1>2. PICK m \in T : \A k \in T : ~(<<k, m>> \in Below)
  BY <1>1, BelowIsWellFounded, WFMin
<1>3. PICK k \in T : k < m
  OBVIOUS
<1>4. <<k, m>> \in Below
  BY <1>3 DEF Below
<1>5. QED
  BY <1>2, <1>4

-----------------------------------------------------------------------------
\* g computes the partial sums of f up to n.
Sums(f, g, n) ==
  /\ g = [i \in 0..n |-> g[i]]
  /\ \A i \in 0..n : g[i] = IF i = 0 THEN 0 ELSE g[i - 1] + f[i]

\* There is exactly one list of partial sums of each length.
LEMMA SumsExist == ASSUME NEW f, NEW n \in Nat PROVE \E g : Sums(f, g, n)
<1> DEFINE T == {m \in Nat : ~\E g : Sums(f, g, m)}
<1>1. ASSUME NEW m \in T PROVE \E k \in T : k < m
  <2>1. CASE m = 0
    <3>1. Sums(f, [i \in 0..0 |-> 0], 0)
      BY DEF Sums
    <3>2. QED
      BY <2>1, <3>1
  <2>2. CASE m # 0
    <3>1. SUFFICES ASSUME m - 1 \notin T PROVE FALSE
      BY <2>2
    <3>2. PICK g : Sums(f, g, m - 1)
      BY <2>2, <3>1
    <3> DEFINE h == [i \in 0..m |-> IF i = m THEN g[m - 1] + f[m] ELSE g[i]]
    <3>3. ASSUME NEW i \in 0..m, i # 0 PROVE h[i] = h[i - 1] + f[i]
      <4>1. i - 1 \in 0..m /\ i - 1 # m
        BY <3>3
      <4>2. h[i - 1] = g[i - 1]
        BY <4>1
      <4>3. CASE i = m
        BY <4>2, <4>3
      <4>4. CASE i # m
        <5>1. i \in 0..m - 1
          BY <4>4
        <5>2. g[i] = g[i - 1] + f[i]
          BY <3>2, <3>3, <5>1 DEF Sums
        <5>3. QED
          BY <4>2, <4>4, <5>2
      <4>5. QED
        BY <4>3, <4>4
    <3>3a. h[0] = 0
      <4>1. g[0] = 0
        <5>1. 0 \in 0..m - 1
          BY <2>2
        <5>2. QED
          BY <3>2, <5>1, Zenon DEF Sums
      <4>2. QED
        BY <2>2, <4>1
    <3>4. Sums(f, h, m)
      <4>1. ASSUME NEW i \in 0..m
            PROVE h[i] = IF i = 0 THEN 0 ELSE h[i - 1] + f[i]
        BY <3>3, <3>3a, Zenon
      <4>2. QED
        BY <4>1, Zenon DEF Sums
    <3>5. QED
      BY <3>4
  <2>3. QED
    BY <2>1, <2>2
<1>2. T = {}
  BY <1>1, NoLeastMember
<1>3. QED
  BY <1>2

\* Two functions that accumulate the same column agree as far as both go.
LEMMA SumsUnique ==
  ASSUME NEW f, NEW n \in Nat, NEW m \in Nat, NEW g, NEW h,
         Sums(f, g, n), Sums(f, h, m)
  PROVE  \A i \in Nat : i <= n /\ i <= m => g[i] = h[i]
<1> DEFINE T == {i \in Nat : i <= n /\ i <= m /\ g[i] # h[i]}
<1>1. ASSUME NEW i \in T PROVE \E k \in T : k < i
  <2>1. i # 0
    BY DEF Sums
  <2>2. g[i] = g[i - 1] + f[i]
    <3>1. i \in 0..n
      OBVIOUS
    <3>2. QED
      BY <2>1, <3>1, Zenon DEF Sums
  <2>2a. h[i] = h[i - 1] + f[i]
    <3>1. i \in 0..m
      OBVIOUS
    <3>2. QED
      BY <2>1, <3>1, Zenon DEF Sums
  <2>3. i - 1 \in T /\ i - 1 < i
    <3>1. i - 1 \in Nat /\ i - 1 <= n /\ i - 1 <= m
      BY <2>1
    <3>2. g[i - 1] # h[i - 1]
      BY <2>2, <2>2a, Zenon
    <3>3. QED
      BY <3>1, <3>2
  <2>4. QED
    BY <2>3
<1>2. T = {}
  BY <1>1, NoLeastMember
<1>3. QED
  BY <1>2

\* Total unfolds as its definition says: TLA+ asks for a proof that the recursive
\* definition has a solution.
LEMMA TotalRecursion ==
  ASSUME NEW f
  PROVE  /\ Total(f, 0) = 0
         /\ \A n \in Nat : Total(f, n + 1) = Total(f, n) + f[n + 1]
<1> DEFINE part(n) == CHOOSE g : Sums(f, g, n)
           sum == [i \in Nat |-> part(i)[i]]
           Def(g) == g = [i \in Nat |-> IF i = 0 THEN 0 ELSE g[i - 1] + f[i]]
<1>1. \A n \in Nat : Sums(f, part(n), n)
  BY SumsExist
<1>2. ASSUME NEW i \in Nat PROVE sum[i] = IF i = 0 THEN 0 ELSE sum[i - 1] + f[i]
  <2>1. CASE i = 0
    <3>1. Sums(f, part(0), 0) /\ 0 \in 0..0
      BY <1>1
    <3>2. part(0)[0] = 0
      BY <3>1, Zenon DEF Sums
    <3>3. QED
      BY <2>1, <3>2, Zenon
  <2>2. CASE i # 0
    <3>1. Sums(f, part(i), i) /\ Sums(f, part(i - 1), i - 1)
      BY <1>1, <2>2
    <3>2. part(i)[i] = part(i)[i - 1] + f[i]
      BY <3>1, <2>2 DEF Sums
    <3>3. part(i)[i - 1] = part(i - 1)[i - 1]
      BY <3>1, <2>2, SumsUnique
    <3>4. QED
      BY <3>2, <3>3, <2>2
  <2>3. QED
    BY <2>1, <2>2
<1>3. Def(sum)
  <2>1. sum = [i \in Nat |-> sum[i]]
    OBVIOUS
  <2> HIDE DEF sum
  <2>2. [i \in Nat |-> sum[i]] = [i \in Nat |-> IF i = 0 THEN 0 ELSE sum[i - 1] + f[i]]
    BY <1>2, Zenon
  <2>3. QED
    BY <2>1, <2>2, Zenon
<1>4. Def(CHOOSE g : Def(g))
  BY <1>3
<1> DEFINE upTo == CHOOSE g : Def(g)
<1>5. \A n : Total(f, n) = upTo[n]
  BY DEF Total
<1> HIDE DEF upTo
<1>6. \A i \in Nat : upTo[i] = IF i = 0 THEN 0 ELSE upTo[i - 1] + f[i]
  BY <1>4 DEF upTo
<1>7. QED
  BY <1>5, <1>6

-----------------------------------------------------------------------------
\* A sum of integers is an integer.
LEMMA TotalInt ==
  ASSUME NEW f, NEW n \in Nat, \A i \in 1..n : f[i] \in Int
  PROVE  Total(f, n) \in Int
<1> DEFINE T == {m \in Nat : m <= n /\ Total(f, m) \notin Int}
<1>1. ASSUME NEW m \in T PROVE \E k \in T : k < m
  <2>1. m # 0
    BY TotalRecursion
  <2>2. Total(f, m) = Total(f, m - 1) + f[m]
    <3>1. m - 1 \in Nat /\ (m - 1) + 1 = m
      BY <2>1
    <3>2. Total(f, (m - 1) + 1) = Total(f, m - 1) + f[(m - 1) + 1]
      BY <3>1, TotalRecursion
    <3>3. QED
      BY <3>1, <3>2
  <2>3. m - 1 \in T
    BY <2>1, <2>2
  <2>4. QED
    BY <2>3
<1>2. T = {}
  BY <1>1, NoLeastMember
<1>3. QED
  BY <1>2

\* A sum depends on its terms only.
LEMMA TotalEqual ==
  ASSUME NEW f, NEW g, NEW n \in Nat, \A i \in 1..n : f[i] = g[i]
  PROVE  Total(f, n) = Total(g, n)
<1> DEFINE T == {m \in Nat : m <= n /\ Total(f, m) # Total(g, m)}
<1>1. ASSUME NEW m \in T PROVE \E k \in T : k < m
  <2>1. m # 0
    BY TotalRecursion
  <2>2. m - 1 \in Nat /\ (m - 1) + 1 = m
    BY <2>1
  <2>3. /\ Total(f, (m - 1) + 1) = Total(f, m - 1) + f[(m - 1) + 1]
        /\ Total(g, (m - 1) + 1) = Total(g, m - 1) + g[(m - 1) + 1]
    BY <2>2, TotalRecursion
  <2>4. f[m] = g[m]
    BY <2>1
  <2>5. Total(f, m - 1) # Total(g, m - 1)
    BY <2>2, <2>3, <2>4
  <2>6. QED
    BY <2>2, <2>5
<1>2. T = {}
  BY <1>1, NoLeastMember
<1>3. QED
  BY <1>2

\* Adding a row adds its term.
LEMMA TotalAppend ==
  ASSUME NEW f, NEW g, NEW n \in Nat, \A i \in 1..n : g[i] = f[i]
  PROVE  Total(g, n + 1) = Total(f, n) + g[n + 1]
<1>1. Total(g, n + 1) = Total(g, n) + g[n + 1]
  BY TotalRecursion
<1>2. Total(f, n) = Total(g, n)
  BY TotalEqual
<1>3. QED
  BY <1>1, <1>2

\* Changing one row changes the sum by the difference of its term.
LEMMA TotalUpdate ==
  ASSUME NEW f, NEW g, NEW n \in Nat, NEW k \in 1..n,
         \A i \in 1..n : f[i] \in Int /\ g[i] \in Int,
         \A i \in 1..n : i # k => g[i] = f[i]
  PROVE  Total(g, n) = Total(f, n) + (g[k] - f[k])
<1> DEFINE change(m) == IF m >= k THEN g[k] - f[k] ELSE 0
           T == {m \in Nat : m <= n /\ Total(g, m) # Total(f, m) + change(m)}
<1>1. ASSUME NEW m \in T PROVE \E j \in T : j < m
  <2>1. m # 0
    BY TotalRecursion
  <2>2. m - 1 \in Nat /\ m - 1 <= n /\ (m - 1) + 1 = m
    BY <2>1
  <2>3. /\ Total(f, (m - 1) + 1) = Total(f, m - 1) + f[(m - 1) + 1]
        /\ Total(g, (m - 1) + 1) = Total(g, m - 1) + g[(m - 1) + 1]
    BY <2>2, TotalRecursion
  <2>4. /\ Total(f, m) = Total(f, m - 1) + f[m]
        /\ Total(g, m) = Total(g, m - 1) + g[m]
    BY <2>2, <2>3
  <2>5. Total(f, m - 1) \in Int /\ Total(g, m - 1) \in Int
    BY <2>2, TotalInt
  <2>6. m \in 1..n
    BY <2>1
  <2>7. Total(g, m - 1) # Total(f, m - 1) + change(m - 1)
    <3>1. CASE m = k
      BY <2>4, <2>5, <2>6, <3>1
    <3>2. CASE m # k
      BY <2>4, <2>5, <2>6, <3>2
    <3>3. QED
      BY <3>1, <3>2
  <2>8. QED
    BY <2>2, <2>7
<1>2. T = {}
  BY <1>1, NoLeastMember
<1>3. QED
  BY <1>2

\* Nothing but zeros sums to zero.
LEMMA TotalZero ==
  ASSUME NEW f, NEW n \in Nat, \A i \in 1..n : f[i] = 0
  PROVE  Total(f, n) = 0
<1> DEFINE T == {m \in Nat : m <= n /\ Total(f, m) # 0}
<1>1. ASSUME NEW m \in T PROVE \E k \in T : k < m
  <2>1. m # 0
    BY TotalRecursion
  <2>2. m - 1 \in Nat /\ (m - 1) + 1 = m
    BY <2>1
  <2>3. Total(f, m) = Total(f, m - 1) + f[m]
    BY <2>2, TotalRecursion
  <2>4. f[m] = 0
    BY <2>1
  <2>5. Total(f, m - 1) # 0
    BY <2>3, <2>4
  <2>6. QED
    BY <2>2, <2>5
<1>2. T = {}
  BY <1>1, NoLeastMember
<1>3. QED
  BY <1>2

\* A sum of naturals is a natural.
LEMMA TotalNat ==
  ASSUME NEW f, NEW n \in Nat, \A i \in 1..n : f[i] \in Nat
  PROVE  Total(f, n) \in Nat
<1> DEFINE T == {m \in Nat : m <= n /\ Total(f, m) \notin Nat}
<1>1. ASSUME NEW m \in T PROVE \E k \in T : k < m
  <2>1. m # 0
    BY TotalRecursion
  <2>2. m - 1 \in Nat /\ (m - 1) + 1 = m /\ f[m] \in Nat
    BY <2>1
  <2>3. Total(f, m) = Total(f, m - 1) + f[m]
    BY <2>2, TotalRecursion
  <2>4. m - 1 \in T
    BY <2>2, <2>3
  <2>5. QED
    BY <2>4
<1>2. T = {}
  BY <1>1, NoLeastMember
<1>3. QED
  BY <1>2

\* A sum of naturals is at least each of its terms.
LEMMA TotalAtLeast ==
  ASSUME NEW f, NEW n \in Nat, \A i \in 1..n : f[i] \in Nat, NEW k \in 1..n
  PROVE  Total(f, n) >= f[k]
<1> DEFINE g == [i \in 1..n |-> IF i = k THEN 0 ELSE f[i]]
<1>1. \A i \in 1..n : g[i] \in Nat
  OBVIOUS
<1>2. /\ \A i \in 1..n : i # k => g[i] = f[i]
      /\ \A i \in 1..n : f[i] \in Int /\ g[i] \in Int
      /\ g[k] = 0
  OBVIOUS
<1> HIDE DEF g
<1>3. Total(g, n) = Total(f, n) + (g[k] - f[k])
  BY <1>2, TotalUpdate
<1>4. Total(g, n) \in Nat /\ Total(f, n) \in Nat
  BY <1>1, TotalNat
<1>5. QED
  BY <1>2, <1>3, <1>4

-----------------------------------------------------------------------------
(***************************************************************************)
(* Sums over finite sets.  SumFunctionOnSet takes out one element after    *)
(* another, in an order of its own; the lemmas below show that the order   *)
(* does not matter.                                                        *)
(***************************************************************************)
\* The element a fold takes out.
Any(s) == CHOOSE x \in s : TRUE

\* g holds the sum of f over every part of S, taking out one element at a time.
FoldSums(f, g, S) ==
  g = [s \in SUBSET S |->
         IF s = {} THEN 0
         ELSE f[Any(s)] + g[s \ {Any(s)}]]

\* A set of finite sets in which every member has a smaller one is empty.
LEMMA NoSmallestSet ==
  ASSUME NEW T, \A s \in T : IsFiniteSet(s),
         \A s \in T : \E r \in T : Cardinality(r) < Cardinality(s)
  PROVE  T = {}
<1> DEFINE N == {Cardinality(s) : s \in T}
<1>1. N \subseteq Nat BY FS_CardinalityType
<1>2. \A m \in N : \E k \in N : k < m OBVIOUS
<1>3. N = {} BY <1>1, <1>2, NoLeastMember
<1> QED BY <1>3

\* Taking an element out leaves fewer.
LEMMA Fewer ==
  ASSUME NEW s, NEW x \in s, IsFiniteSet(s)
  PROVE  IsFiniteSet(s \ {x}) /\ Cardinality(s \ {x}) < Cardinality(s)
<1>1. Cardinality(s \ {x}) = Cardinality(s) - 1 /\ IsFiniteSet(s \ {x})
  BY FS_RemoveElement
<1> QED BY <1>1, FS_CardinalityType

\* One step of the fold.
LEMMA FoldStep ==
  ASSUME NEW f, NEW g, NEW S, FoldSums(f, g, S), NEW s \in SUBSET S
  PROVE  /\ s = {} => g[s] = 0
         /\ s # {} => /\ Any(s) \in s
                      /\ g[s] = f[Any(s)] + g[s \ {Any(s)}]
<1>1. g[s] = IF s = {} THEN 0
             ELSE f[Any(s)] + g[s \ {Any(s)}]
  BY Zenon DEF FoldSums
<1>2. s # {} => Any(s) \in s BY DEF Any
<1> QED BY <1>1, <1>2

\* Two folds agree on the parts they share.
LEMMA FoldsAgree ==
  ASSUME NEW f, NEW S, NEW R, NEW g, NEW h, FoldSums(f, g, S), FoldSums(f, h, R),
         NEW u, IsFiniteSet(u), u \subseteq S, u \subseteq R
  PROVE  g[u] = h[u]
<1> DEFINE T == {s \in SUBSET u : g[s] # h[s]}
<1>1. \A s \in T : IsFiniteSet(s) BY FS_Subset
<1>2. ASSUME NEW s \in T PROVE \E r \in T : Cardinality(r) < Cardinality(s)
  <2> DEFINE x == Any(s)
             r == s \ {x}
  <2>1. s \in SUBSET S /\ s \in SUBSET R OBVIOUS
  <2>2. s # {} BY <2>1, FoldStep
  <2>3. x \in s BY <2>2 DEF Any
  <2>4. g[s] = f[x] + g[r] BY <2>1, <2>2, FoldStep
  <2>4a. h[s] = f[x] + h[r] BY <2>1, <2>2, FoldStep
  <2>5. r \in T BY <2>3, <2>4, <2>4a
  <2>6. Cardinality(r) < Cardinality(s) BY <1>1, <2>3, Fewer
  <2> QED BY <2>5, <2>6
<1>3. T = {} BY <1>1, <1>2, NoSmallestSet
<1> QED BY <1>3

\* A finite set can be summed.
LEMMA FoldExists ==
  ASSUME NEW f, NEW S, IsFiniteSet(S)
  PROVE  \E g : FoldSums(f, g, S)
<1> DEFINE T == {s \in SUBSET S : ~\E g : FoldSums(f, g, s)}
<1>1. \A s \in T : IsFiniteSet(s) BY FS_Subset
<1>2. ASSUME NEW s \in T PROVE \E r \in T : Cardinality(r) < Cardinality(s)
  <2> DEFINE part(r) == CHOOSE g : FoldSums(f, g, r)
             x == Any(s)
  <2>1. SUFFICES ASSUME \A r \in SUBSET s : r # s => \E g : FoldSums(f, g, r)
                 PROVE  FALSE
    <3>1. ASSUME NEW r \in SUBSET s, r # s PROVE Cardinality(r) < Cardinality(s)
      BY <1>1, <3>1, FS_Subset, FS_CardinalityType
    <3> QED BY <3>1
  <2>2. \A r \in SUBSET s : r # s => FoldSums(f, part(r), r) BY <2>1
  <2> DEFINE h == [r \in SUBSET s |->
                     IF r = {} THEN 0
                     ELSE IF r = s THEN f[x] + part(s \ {x})[s \ {x}]
                     ELSE part(r)[r]]
  <2>3. ASSUME NEW r \in SUBSET s
        PROVE  h[r] = IF r = {} THEN 0
                      ELSE f[Any(r)] + h[r \ {Any(r)}]
    <3> DEFINE y == Any(r)
               q == r \ {y}
    <3>1. CASE r = {} BY <3>1
    <3>2. CASE r # {}
      <4>1. y \in r BY <3>2 DEF Any
      <4>2. q \in SUBSET s /\ q # s /\ q # r BY <4>1
      <4>3. FoldSums(f, part(q), q) BY <2>2, <4>2
      <4>4. h[q] = part(q)[q]
        <5>1. q = {} => part(q)[q] = 0 BY <4>3, FoldStep
        <5>2. h[q] = IF q = {} THEN 0 ELSE part(q)[q] BY <4>2
        <5> QED BY <5>1, <5>2
      <4>5. CASE r = s BY <3>2, <4>4, <4>5
      <4>6. CASE r # s
        <5>1. FoldSums(f, part(r), r) BY <2>2, <4>6
        <5>2. h[r] = part(r)[r] BY <3>2, <4>6
        <5>3. part(r)[r] = f[y] + part(r)[q]
          <6>1. r \in SUBSET r OBVIOUS
          <6> HIDE DEF part
          <6> QED BY <3>2, <5>1, <6>1, FoldStep
        <5>4. IsFiniteSet(q) BY <1>1, <4>2, FS_Subset
        <5>5. part(r)[q] = part(q)[q] 
          <6>1. q \subseteq r /\ q \subseteq q OBVIOUS
          <6> HIDE DEF part, q
          <6> QED BY <5>1, <4>3, <5>4, <6>1, FoldsAgree
        <5> QED BY <3>2, <4>4, <5>2, <5>3, <5>5
      <4> QED BY <4>5, <4>6
    <3> QED BY <3>1, <3>2
  <2> HIDE DEF part, x
  <2>4. h = [r \in SUBSET s |-> h[r]] OBVIOUS
  <2> HIDE DEF h
  <2>5. FoldSums(f, h, s)
    <3>1. [r \in SUBSET s |-> h[r]] = [r \in SUBSET s |->
             IF r = {} THEN 0
             ELSE f[Any(r)] + h[r \ {Any(r)}]]
      BY <2>3, Zenon
    <3> QED BY <2>4, <3>1, Zenon DEF FoldSums
  <2> QED BY <2>5
<1>3. T = {} BY <1>1, <1>2, NoSmallestSet
<1> QED BY <1>3

\* SumFunctionOnSet is such a fold.
LEMMA SumIsFold ==
  ASSUME NEW f, NEW S, IsFiniteSet(S)
  PROVE  \E g : FoldSums(f, g, S) /\ SumFunctionOnSet(f, S) = g[S]
<1>1. SumFunctionOnSet(f, S) = (CHOOSE g : FoldSums(f, g, S))[S]
  BY DEF SumFunctionOnSet, FoldFunctionOnSet, MapThenFoldSet, FoldSums, Any
<1>2. FoldSums(f, CHOOSE g : FoldSums(f, g, S), S) BY FoldExists
<1> QED BY <1>1, <1>2

\* Nothing sums to zero.
LEMMA SumEmpty == ASSUME NEW f PROVE SumFunctionOnSet(f, {}) = 0
<1>1. IsFiniteSet({}) BY FS_EmptySet
<1>2. PICK g : FoldSums(f, g, {}) /\ SumFunctionOnSet(f, {}) = g[{}] BY <1>1, SumIsFold
<1>3. {} \in SUBSET {} OBVIOUS
<1> QED BY <1>2, <1>3, FoldStep

\* The sum of integers over a finite set is an integer.
LEMMA FoldInt ==
  ASSUME NEW f, NEW S, NEW g, FoldSums(f, g, S), IsFiniteSet(S), \A x \in S : f[x] \in Int
  PROVE  \A s \in SUBSET S : g[s] \in Int
<1> DEFINE T == {s \in SUBSET S : g[s] \notin Int}
<1>1. \A s \in T : IsFiniteSet(s) BY FS_Subset
<1>2. ASSUME NEW s \in T PROVE \E r \in T : Cardinality(r) < Cardinality(s)
  <2> DEFINE x == Any(s)
             r == s \ {x}
  <2>1. s \in SUBSET S /\ s # {} BY FoldStep
  <2>2. x \in s BY <2>1 DEF Any
  <2>3. g[s] = f[x] + g[r] BY <2>1, FoldStep
  <2>4. r \in T
    <3>1. f[x] \in Int BY <2>2
    <3> QED BY <3>1, <2>3
  <2> QED BY <1>1, <2>2, <2>4, Fewer
<1>3. T = {} BY <1>1, <1>2, NoSmallestSet
<1> QED BY <1>3

\* Any element may be taken out first.
LEMMA FoldAny ==
  ASSUME NEW f, NEW S, NEW g, FoldSums(f, g, S), IsFiniteSet(S), \A x \in S : f[x] \in Int
  PROVE  \A s \in SUBSET S : \A x \in s : g[s] = f[x] + g[s \ {x}]
<1> DEFINE T == {s \in SUBSET S : \E x \in s : g[s] # f[x] + g[s \ {x}]}
<1>1. \A s \in T : IsFiniteSet(s) BY FS_Subset
<1>2. ASSUME NEW s \in T PROVE \E r \in T : Cardinality(r) < Cardinality(s)
  <2>1. PICK x \in s : g[s] # f[x] + g[s \ {x}] OBVIOUS
  <2> DEFINE y == Any(s)
             r == s \ {y}
  <2>2. s \in SUBSET S /\ s # {} OBVIOUS
  <2>2a. y \in s BY <2>2 DEF Any
  <2>2b. g[s] = f[y] + g[r] BY <2>2, FoldStep
  <2>3. x # y BY <2>1, <2>2b
  <2>4. SUFFICES ASSUME r \notin T, s \ {x} \notin T PROVE FALSE
    BY <1>1, <2>2a, Fewer
  <2>5. g[r] = f[x] + g[r \ {x}] BY <2>2, <2>2a, <2>3, <2>4
  <2>6. g[s \ {x}] = f[y] + g[(s \ {x}) \ {y}] BY <2>2, <2>2a, <2>3, <2>4
  <2>7. r \ {x} = (s \ {x}) \ {y} OBVIOUS
  <2>7a. g[r \ {x}] = g[(s \ {x}) \ {y}] BY <2>7, Zenon
  <2>8. f[x] \in Int /\ f[y] \in Int /\ g[r \ {x}] \in Int BY <2>2, <2>2a, FoldInt
  <2> QED BY <2>1, <2>2b, <2>5, <2>6, <2>7a, <2>8
<1>3. T = {} BY <1>1, <1>2, NoSmallestSet
<1> QED BY <1>3

\* The sum of integers is an integer, and any element may be taken out of it.
LEMMA SumRemove ==
  ASSUME NEW f, NEW S, IsFiniteSet(S), \A x \in S : f[x] \in Int
  PROVE  /\ SumFunctionOnSet(f, S) \in Int
         /\ \A x \in S : SumFunctionOnSet(f, S) = f[x] + SumFunctionOnSet(f, S \ {x})
<1>1. PICK g : FoldSums(f, g, S) /\ SumFunctionOnSet(f, S) = g[S] BY SumIsFold
<1>2. g[S] \in Int BY <1>1, FoldInt
<1>3. ASSUME NEW x \in S PROVE g[S] = f[x] + SumFunctionOnSet(f, S \ {x})
  <2>1. IsFiniteSet(S \ {x}) BY FS_Subset
  <2>2. PICK h : FoldSums(f, h, S \ {x}) /\ SumFunctionOnSet(f, S \ {x}) = h[S \ {x}]
    BY <2>1, SumIsFold
  <2>3. h[S \ {x}] = g[S \ {x}]
    <3>1. S \ {x} \subseteq S /\ S \ {x} \subseteq S \ {x} OBVIOUS
    <3> QED BY <1>1, <2>1, <2>2, <3>1, FoldsAgree
  <2>4. g[S] = f[x] + g[S \ {x}] BY <1>1, FoldAny
  <2> QED BY <2>2, <2>3, <2>4
<1> QED BY <1>1, <1>2, <1>3

\* A sum depends on the values summed only.
LEMMA SumEqual ==
  ASSUME NEW f, NEW h, NEW S, \A x \in S : f[x] = h[x]
  PROVE  SumFunctionOnSet(f, S) = SumFunctionOnSet(h, S)
<1>1. ASSUME NEW g PROVE FoldSums(f, g, S) <=> FoldSums(h, g, S)
  <2>1. \A s \in SUBSET S : s # {} => Any(s) \in S BY DEF Any
  <2>2. [s \in SUBSET S |-> IF s = {} THEN 0
           ELSE f[Any(s)] + g[s \ {Any(s)}]]
      = [s \in SUBSET S |-> IF s = {} THEN 0
           ELSE h[Any(s)] + g[s \ {Any(s)}]]
    BY <2>1
  <2> QED BY <2>2, Zenon DEF FoldSums
<1>2. (CHOOSE g : FoldSums(f, g, S)) = (CHOOSE g : FoldSums(h, g, S)) BY <1>1
<1>3. \A k : SumFunctionOnSet(k, S) = (CHOOSE g : FoldSums(k, g, S))[S]
  BY DEF SumFunctionOnSet, FoldFunctionOnSet, MapThenFoldSet, FoldSums, Any
<1> QED BY <1>2, <1>3

\* Adding an element adds its value.
LEMMA SumAdd ==
  ASSUME NEW f, NEW h, NEW S, IsFiniteSet(S), NEW x, x \notin S, h[x] \in Int,
         \A y \in S : f[y] \in Int /\ h[y] = f[y]
  PROVE  SumFunctionOnSet(h, S \union {x}) = SumFunctionOnSet(f, S) + h[x]
<1> DEFINE R == S \union {x}
<1>1. IsFiniteSet(R) BY FS_AddElement
<1>2. SumFunctionOnSet(h, R) = h[x] + SumFunctionOnSet(h, R \ {x}) BY <1>1, SumRemove
<1>3. R \ {x} = S OBVIOUS
<1>4. SumFunctionOnSet(h, S) = SumFunctionOnSet(f, S) BY SumEqual
<1>5. SumFunctionOnSet(f, S) \in Int BY SumRemove
<1>3a. SumFunctionOnSet(h, R \ {x}) = SumFunctionOnSet(h, S) BY <1>3, Zenon
<1> HIDE DEF R
<1>6. SumFunctionOnSet(h, R) = SumFunctionOnSet(f, S) + h[x] BY <1>2, <1>3a, <1>4, <1>5
<1> QED BY <1>6 DEF R

\* Naturals sum up to no less than any of them.
LEMMA SumAtLeast ==
  ASSUME NEW f, NEW S, IsFiniteSet(S), \A x \in S : f[x] \in Nat
  PROVE  /\ SumFunctionOnSet(f, S) \in Nat
         /\ \A x \in S : f[x] <= SumFunctionOnSet(f, S)
<1> DEFINE T == {s \in SUBSET S : SumFunctionOnSet(f, s) \notin Nat}
<1>1. \A s \in SUBSET S : IsFiniteSet(s) BY FS_Subset
<1>2. ASSUME NEW s \in T PROVE \E r \in T : Cardinality(r) < Cardinality(s)
  <2>1. PICK x \in s : TRUE BY SumEmpty
  <2>2. SumFunctionOnSet(f, s) = f[x] + SumFunctionOnSet(f, s \ {x})
    BY <1>1, SumRemove
  <2>3. s \ {x} \in SUBSET S /\ f[x] \in Nat OBVIOUS
  <2>4. SumFunctionOnSet(f, s \ {x}) \notin Nat BY <2>2, <2>3
  <2> QED BY <1>1, <2>3, <2>4, Fewer
<1>3. T = {} BY <1>1, <1>2, NoSmallestSet
<1>4. \A s \in SUBSET S : SumFunctionOnSet(f, s) \in Nat BY <1>3
<1>5. ASSUME NEW x \in S PROVE f[x] <= SumFunctionOnSet(f, S)
  <2>1. SumFunctionOnSet(f, S) = f[x] + SumFunctionOnSet(f, S \ {x}) BY SumRemove
  <2>2. SumFunctionOnSet(f, S \ {x}) \in Nat /\ f[x] \in Nat BY <1>4
  <2> QED BY <2>1, <2>2
<1> QED BY <1>4, <1>5

\* The sum of zeros is zero.
LEMMA SumZero ==
  ASSUME NEW f, NEW S, IsFiniteSet(S), \A x \in S : f[x] = 0
  PROVE  SumFunctionOnSet(f, S) = 0
<1> DEFINE T == {s \in SUBSET S : SumFunctionOnSet(f, s) # 0}
<1>1. \A s \in SUBSET S : IsFiniteSet(s) BY FS_Subset
<1>2. ASSUME NEW s \in T PROVE \E r \in T : Cardinality(r) < Cardinality(s)
  <2>1. PICK x \in s : TRUE BY SumEmpty
  <2>2. /\ SumFunctionOnSet(f, s) = f[x] + SumFunctionOnSet(f, s \ {x})
        /\ SumFunctionOnSet(f, s \ {x}) \in Int
    BY <1>1, SumRemove
  <2>3. s \ {x} \in SUBSET S /\ f[x] = 0 OBVIOUS
  <2>4. SumFunctionOnSet(f, s \ {x}) # 0 BY <2>2, <2>3
  <2> QED BY <1>1, <2>3, <2>4, Fewer
<1>3. T = {} BY <1>1, <1>2, NoSmallestSet
<1> QED BY <1>3

\* A sum in which one value counts is that value.
LEMMA SumOnly ==
  ASSUME NEW f, NEW S, IsFiniteSet(S), NEW x \in S, f[x] \in Int,
         \A y \in S : y # x => f[y] = 0
  PROVE  SumFunctionOnSet(f, S) = f[x]
<1>1. SumFunctionOnSet(f, S) = f[x] + SumFunctionOnSet(f, S \ {x}) BY SumRemove
<1>2. SumFunctionOnSet(f, S \ {x}) = 0
  <2>1. IsFiniteSet(S \ {x}) BY FS_Subset
  <2> QED BY <2>1, SumZero
<1> QED BY <1>1, <1>2

=============================================================================
