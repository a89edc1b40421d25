---------------------------- MODULE FundingPathProofs ----------------------------
EXTENDS FundingPath, SequenceTheorems, FiniteSetTheorems, WellFoundedInduction,
        NaturalsInduction, TLAPS

-------------------------------------------------------------------------------
\* Induction over the naturals, and over the finite sets, as facts about sets.
LEMMA LeastNumber == ASSUME NEW Ids \in SUBSET Nat, Ids # {}
                     PROVE  \E m \in Ids : \A n \in Ids : m <= n
  <1>1. IsWellFoundedOn(OpToRel(<, Nat), Nat)
    BY NatLessThanWellFounded, Zenon
  <1>2. PICK m \in Ids : \A n \in Ids : ~(<<n, m>> \in OpToRel(<, Nat))
    BY <1>1, WFMin, Zenon
  <1>3. ASSUME NEW n \in Ids PROVE m <= n
    <2>1. ~(<<n, m>> \in OpToRel(<, Nat))
      BY <1>2, Zenon
    <2>2. ~(n < m)
      BY <2>1, Zenon DEF OpToRel
    <2> QED BY <2>2
  <1> QED BY <1>3


LEMMA SmallestSet == ASSUME NEW Ids, IsFiniteSet(Ids), NEW C \in SUBSET (SUBSET Ids), C # {}
                     PROVE  \E m \in C : \A s \in C : Cardinality(m) <= Cardinality(s)
  <1> DEFINE N == {Cardinality(s) : s \in C}
  <1>1. N \in SUBSET Nat /\ N # {}
    BY FS_Subset, FS_CardinalityType
  <1>2. PICK n \in N : \A k \in N : n <= k
    <2> HIDE DEF N
    <2> QED BY <1>1, LeastNumber
  <1> QED BY <1>2

\* What the sums below use of a subset.
Least(s) == CHOOSE x \in s : TRUE
LEMMA Subsets == ASSUME NEW Ids, IsFiniteSet(Ids), NEW s \in SUBSET Ids
                 PROVE  /\ IsFiniteSet(s) /\ Cardinality(s) \in Nat
                        /\ Cardinality(s) = 0 <=> s = {}
                        /\ s # {} => Least(s) \in s
                        /\ \A x \in s : s \ {x} \in SUBSET Ids /\ Cardinality(s \ {x}) = Cardinality(s) - 1
  <1>1. IsFiniteSet(s) /\ Cardinality(s) \in Nat
    BY FS_Subset, FS_CardinalityType
  <1>2. Cardinality(s) = 0 <=> s = {}
    BY <1>1, FS_EmptySet
  <1>3. \A x \in s : Cardinality(s \ {x}) = Cardinality(s) - 1
    BY <1>1, FS_RemoveElement
  <1>4. s # {} => Least(s) \in s
    BY DEF Least
  <1> QED BY <1>1, <1>2, <1>3, <1>4

\* The equation of the fold: it[s] is the sum of f over s.
Sums(it, f, s) == it[s] = IF s = {} THEN 0 ELSE f[Least(s)] + it[s \ {Least(s)}]

LEMMA SumsExist ==
  ASSUME NEW Ids, IsFiniteSet(Ids), NEW f, \A x \in Ids : f[x] \in Int
  PROVE  \E it \in [SUBSET Ids -> Int] : \A s \in SUBSET Ids : Sums(it, f, s)
  <1> DEFINE Sub(n) == {s \in SUBSET Ids : Cardinality(s) <= n}
             Good(n) == \E it \in [Sub(n) -> Int] : \A s \in Sub(n) : Sums(it, f, s)
             Bad == {n \in Nat : ~Good(n)}
  <1>1. \A s \in SUBSET Ids :
           /\ Cardinality(s) \in Nat /\ (Cardinality(s) = 0 <=> s = {})
           /\ s # {} => /\ Least(s) \in s /\ Least(s) \in Ids /\ f[Least(s)] \in Int
                        /\ s \ {Least(s)} \in SUBSET Ids
                        /\ Cardinality(s \ {Least(s)}) = Cardinality(s) - 1
    BY Subsets
  <1>2. Bad = {}
    <2> SUFFICES ASSUME Bad # {} PROVE FALSE
      OBVIOUS
    <2>1. PICK m \in Bad : \A n \in Bad : m <= n
      <3>1. Bad \in SUBSET Nat
        OBVIOUS
      <3> HIDE DEF Bad
      <3> QED BY <3>1, LeastNumber
    <2>2. m \in Nat /\ ~Good(m)
      OBVIOUS
    <2>3. m # 0
      <3> SUFFICES ASSUME m = 0 PROVE FALSE
        OBVIOUS
      <3> DEFINE it == [s \in Sub(0) |-> 0]
      <3>0. \A s \in Sub(0) : s = {}
        <4> TAKE s \in Sub(0)
        <4>1. s \in SUBSET Ids /\ Cardinality(s) <= 0
          OBVIOUS
        <4>2. Cardinality(s) \in Nat /\ (Cardinality(s) = 0 <=> s = {})
          BY <1>1, <4>1, Zenon
        <4> HIDE DEF Sub
        <4> QED BY <4>1, <4>2
      <3>1. it \in [Sub(0) -> Int] /\ \A s \in Sub(0) : s = {} /\ it[s] = 0
        <4> HIDE DEF Sub
        <4> QED BY <3>0
      <3>2. \A s \in Sub(0) : Sums(it, f, s)
        <4> HIDE DEF it
        <4> QED BY <3>1 DEF Sums
      <3>3. Good(0)
        <4> HIDE DEF it, Sub
        <4> QED BY <3>1, <3>2
      <3> QED BY <2>2, <3>3
    <2>4. m - 1 \in Nat /\ Good(m - 1)
      <3>1. m - 1 \in Nat /\ ~(m <= m - 1)
        BY <2>2, <2>3
      <3>2. m - 1 \notin Bad
        BY <2>1, <3>1
      <3> QED BY <3>1, <3>2
    <2>5. PICK prev \in [Sub(m - 1) -> Int] : \A s \in Sub(m - 1) : Sums(prev, f, s)
      BY <2>4
    <2> DEFINE it == [s \in Sub(m) |-> IF s = {} THEN 0 ELSE f[Least(s)] + prev[s \ {Least(s)}]]
    <2>6. \A s \in Sub(m) : s # {} => /\ s \ {Least(s)} \in Sub(m - 1)
                                      /\ s \ {Least(s)} \in Sub(m)
                                      /\ f[Least(s)] \in Int
      BY <1>1, <2>2
    <2>7. it \in [Sub(m) -> Int]
      <3>1. \A s \in Sub(m) : s # {} => prev[s \ {Least(s)}] \in Int
        <4> HIDE DEF Sub
        <4> QED BY <2>5, <2>6
      <3> HIDE DEF Sub
      <3> QED BY <2>6, <3>1
    <2>8. \A s \in Sub(m - 1) : s \in Sub(m) /\ it[s] = prev[s]
      <3> TAKE s \in Sub(m - 1)
      <3>1. s \in Sub(m)
        <4>1. s \in SUBSET Ids /\ Cardinality(s) <= m - 1
          OBVIOUS
        <4>2. Cardinality(s) <= m
          <5>1. Cardinality(s) \in Nat
            BY <1>1, <4>1, Zenon
          <5> QED BY <2>2, <4>1, <5>1
        <4> QED BY <4>1, <4>2
      <3>2. Sums(prev, f, s)
        BY <2>5
      <3> HIDE DEF Sub
      <3> QED BY <3>1, <3>2 DEF Sums
    <2>9. \A s \in Sub(m) : Sums(it, f, s)
      <3> TAKE s \in Sub(m)
      <3>1. it[s] = IF s = {} THEN 0 ELSE f[Least(s)] + prev[s \ {Least(s)}]
        <4> HIDE DEF Sub
        <4> QED OBVIOUS
      <3>2. s # {} => it[s \ {Least(s)}] = prev[s \ {Least(s)}]
        <4> HIDE DEF Sub, it
        <4> QED BY <2>6, <2>8
      <3> HIDE DEF it, Sub
      <3> QED BY <3>1, <3>2, Zenon DEF Sums
    <2>10. Good(m)
      <3> HIDE DEF it, Sub
      <3> QED BY <2>7, <2>9
    <2> QED BY <2>2, <2>10
  <1>3. Cardinality(Ids) \in Nat /\ Sub(Cardinality(Ids)) = SUBSET Ids
    <2>1. Cardinality(Ids) \in Nat /\ \A s \in SUBSET Ids : Cardinality(s) <= Cardinality(Ids)
      BY FS_Subset, FS_CardinalityType
    <2> QED BY <2>1
  <1>4. Good(Cardinality(Ids))
    BY <1>2, <1>3
  <1> HIDE DEF Sub
  <1> QED BY <1>3, <1>4

\* Two such functions agree where what they sum does.
LEMMA SumsAgree ==
  ASSUME NEW Ids, IsFiniteSet(Ids), NEW f, NEW g, \A x \in Ids : f[x] = g[x],
         NEW i, \A s \in SUBSET Ids : Sums(i, f, s),
         NEW j, \A s \in SUBSET Ids : Sums(j, g, s)
  PROVE  \A s \in SUBSET Ids : i[s] = j[s]
  <1> DEFINE C == {s \in SUBSET Ids : i[s] # j[s]}
  <1> SUFFICES ASSUME C # {} PROVE FALSE
    OBVIOUS
  <1>1. PICK m \in C : \A s \in C : Cardinality(m) <= Cardinality(s)
    <2>1. C \in SUBSET (SUBSET Ids)
      OBVIOUS
    <2> HIDE DEF C
    <2> QED BY <2>1, SmallestSet
  <1>2. m \in SUBSET Ids /\ i[m] # j[m] /\ Sums(i, f, m) /\ Sums(j, g, m)
    OBVIOUS
  <1>3. m # {}
    BY <1>2 DEF Sums
  <1>4. /\ Least(m) \in Ids /\ m \ {Least(m)} \in SUBSET Ids
        /\ ~(Cardinality(m) <= Cardinality(m \ {Least(m)}))
    BY <1>2, <1>3, Subsets
  <1>5. i[m \ {Least(m)}] = j[m \ {Least(m)}]
    BY <1>1, <1>4
  <1> QED BY <1>2, <1>3, <1>4, <1>5 DEF Sums

\* Any element may be summed last.
AnyOrder(it, f, Ids) == \A s \in SUBSET Ids : \A x \in s : it[s] = f[x] + it[s \ {x}]
LEMMA SumsInAnyOrder ==
  ASSUME NEW Ids, IsFiniteSet(Ids), NEW f, \A x \in Ids : f[x] \in Int,
         NEW it \in [SUBSET Ids -> Int], \A s \in SUBSET Ids : Sums(it, f, s)
  PROVE  AnyOrder(it, f, Ids)
  <1> DEFINE C == {s \in SUBSET Ids : \E x \in s : it[s] # f[x] + it[s \ {x}]}
  <1> SUFFICES ASSUME C # {} PROVE FALSE
    BY DEF AnyOrder
  <1>1. PICK m \in C : \A s \in C : Cardinality(m) <= Cardinality(s)
    <2>1. C \in SUBSET (SUBSET Ids)
      OBVIOUS
    <2> HIDE DEF C
    <2> QED BY <2>1, SmallestSet
  <1>2. PICK x \in m : it[m] # f[x] + it[m \ {x}]
    OBVIOUS
  <1> DEFINE y == Least(m)
  <1>3. m \in SUBSET Ids /\ m # {} /\ it[m] = f[y] + it[m \ {y}]
    BY <1>2 DEF Sums
  <1>4. y \in m /\ x # y
    BY <1>2, <1>3, Subsets
  <1>5. /\ m \ {x} \in SUBSET Ids /\ ~(Cardinality(m) <= Cardinality(m \ {x}))
        /\ m \ {y} \in SUBSET Ids /\ ~(Cardinality(m) <= Cardinality(m \ {y}))
    BY <1>3, <1>4, Subsets
  <1> HIDE DEF y
  <1>6. m \ {x} \notin C /\ m \ {y} \notin C
    BY <1>1, <1>5
  <1>7. it[m \ {x}] = f[y] + it[(m \ {x}) \ {y}]
    BY <1>4, <1>5, <1>6
  <1>8. it[m \ {y}] = f[x] + it[(m \ {y}) \ {x}]
    BY <1>4, <1>5, <1>6
  <1>9. (m \ {x}) \ {y} = (m \ {y}) \ {x} /\ (m \ {x}) \ {y} \in SUBSET Ids
    BY <1>3
  <1>10. f[x] \in Int /\ f[y] \in Int /\ it[(m \ {x}) \ {y}] \in Int
    BY <1>3, <1>4, <1>9
  <1>11. it[m \ {x}] = f[y] + it[(m \ {x}) \ {y}] /\ it[m \ {y}] = f[x] + it[(m \ {x}) \ {y}]
    BY <1>7, <1>8, <1>9, Zenon
  <1>12. f[y] + it[m \ {y}] = f[x] + it[m \ {x}]
    BY <1>10, <1>11
  <1> QED BY <1>2, <1>3, <1>12, Zenon

\* The community modules' sum is such a function.
LEMMA SumIsFold ==
  ASSUME NEW Ids, IsFiniteSet(Ids), NEW f, \A x \in Ids : f[x] \in Int
  PROVE  \E it \in [SUBSET Ids -> Int] :
            /\ \A s \in SUBSET Ids : Sums(it, f, s)
            /\ AnyOrder(it, f, Ids)
            /\ SumFunctionOnSet(f, Ids) = it[Ids]
  <1> DEFINE Rule(it) == [s \in SUBSET Ids |-> IF s = {} THEN 0
                          ELSE LET x == CHOOSE y \in s : TRUE IN f[x] + it[s \ {x}]]
             sum == CHOOSE it : it = Rule(it)
  <1>1. SumFunctionOnSet(f, Ids) = sum[Ids]
    BY DEF SumFunctionOnSet, FoldFunctionOnSet, MapThenFoldSet
  <1>2. PICK it \in [SUBSET Ids -> Int] : \A s \in SUBSET Ids : Sums(it, f, s)
    BY SumsExist
  <1>3. it = Rule(it)
    BY <1>2 DEF Sums, Least
  <1>4. sum = Rule(sum)
    <2> HIDE DEF Rule
    <2> QED BY <1>3
  <1> HIDE DEF sum
  <1>5. \A s \in SUBSET Ids : Sums(sum, f, s)
    BY <1>4 DEF Sums, Least
  <1>6. sum[Ids] = it[Ids]
    BY <1>2, <1>5, SumsAgree
  <1>7. AnyOrder(it, f, Ids)
    BY <1>2, SumsInAnyOrder
  <1> QED BY <1>1, <1>2, <1>6, <1>7

\* What is cited below: the sum is an integer, and 0 of nothing;
LEMMA SumType == ASSUME NEW Ids, IsFiniteSet(Ids), NEW f, \A x \in Ids : f[x] \in Int
                 PROVE  SumFunctionOnSet(f, Ids) \in Int
  <1>1. PICK it \in [SUBSET Ids -> Int] : SumFunctionOnSet(f, Ids) = it[Ids]
    BY SumIsFold
  <1> QED BY <1>1

LEMMA SumOfNone == ASSUME NEW f PROVE SumFunctionOnSet(f, {}) = 0
  <1>1. IsFiniteSet({}) /\ \A x \in {} : f[x] \in Int
    BY FS_EmptySet
  <1>2. PICK it : (\A s \in SUBSET {} : Sums(it, f, s)) /\ SumFunctionOnSet(f, {}) = it[{}]
    BY <1>1, SumIsFold
  <1> QED BY <1>2 DEF Sums

\* it grows by what one more element has;
LEMMA SumWith ==
  ASSUME NEW Ids, IsFiniteSet(Ids), NEW x, x \notin Ids, NEW f, \A y \in Ids \cup {x} : f[y] \in Int
  PROVE  SumFunctionOnSet(f, Ids \cup {x}) = SumFunctionOnSet(f, Ids) + f[x]
  <1> DEFINE T == Ids \cup {x}
  <1>1. IsFiniteSet(T) /\ Ids \in SUBSET T /\ T \in SUBSET T /\ x \in T /\ T \ {x} = Ids
    BY FS_AddElement
  <1>2. PICK it \in [SUBSET T -> Int] :
            /\ \A s \in SUBSET T : Sums(it, f, s)
            /\ AnyOrder(it, f, T)
            /\ SumFunctionOnSet(f, T) = it[T]
    <2> HIDE DEF T
    <2> QED BY <1>1, SumIsFold DEF T
  <1>3. PICK jt \in [SUBSET Ids -> Int] : /\ \A s \in SUBSET Ids : Sums(jt, f, s)
                                        /\ SumFunctionOnSet(f, Ids) = jt[Ids]
    BY SumIsFold
  <1>4. it[T] = f[x] + it[Ids]
    <2> HIDE DEF T
    <2> QED BY <1>1, <1>2 DEF AnyOrder
  <1>5. it[Ids] = jt[Ids]
    <2>1. \A s \in SUBSET Ids : Sums(it, f, s)
      BY <1>2
    <2>2. \A s \in SUBSET Ids : it[s] = jt[s]
      BY <1>3, <2>1, SumsAgree
    <2> QED BY <2>2
  <1>6. it[Ids] \in Int /\ f[x] \in Int
    BY <1>1, <1>2
  <1> QED BY <1>2, <1>3, <1>4, <1>5, <1>6

\* it depends on the elements' values only;
LEMMA SameSum ==
  ASSUME NEW Ids, IsFiniteSet(Ids), NEW f, NEW g, \A x \in Ids : f[x] \in Int /\ f[x] = g[x]
  PROVE  SumFunctionOnSet(f, Ids) = SumFunctionOnSet(g, Ids)
  <1>1. PICK i : (\A s \in SUBSET Ids : Sums(i, f, s)) /\ SumFunctionOnSet(f, Ids) = i[Ids]
    BY SumIsFold
  <1>2. PICK j : (\A s \in SUBSET Ids : Sums(j, g, s)) /\ SumFunctionOnSet(g, Ids) = j[Ids]
    BY SumIsFold
  <1>3. \A s \in SUBSET Ids : i[s] = j[s]
    BY <1>1, <1>2, SumsAgree
  <1> QED BY <1>1, <1>2, <1>3

\* and where one value changes, by the difference.
LEMMA SumChanged ==
  ASSUME NEW Ids, IsFiniteSet(Ids), NEW x \in Ids, NEW f, NEW g,
         \A y \in Ids : f[y] \in Int /\ g[y] \in Int,
         \A y \in Ids : y # x => g[y] = f[y]
  PROVE  SumFunctionOnSet(g, Ids) = SumFunctionOnSet(f, Ids) - f[x] + g[x]
  <1> DEFINE R == Ids \ {x}
  <1>1. IsFiniteSet(R) /\ x \notin R /\ R \cup {x} = Ids
    BY FS_RemoveElement
  <1>2. \A y \in R : f[y] \in Int /\ f[y] = g[y]
    OBVIOUS
  <1> HIDE DEF R
  <1>3. SumFunctionOnSet(f, R \cup {x}) = SumFunctionOnSet(f, R) + f[x]
    BY <1>1, SumWith
  <1>4. SumFunctionOnSet(g, R \cup {x}) = SumFunctionOnSet(g, R) + g[x]
    BY <1>1, SumWith
  <1>5. SumFunctionOnSet(f, R) = SumFunctionOnSet(g, R)
    BY <1>1, <1>2, SameSum
  <1>6. SumFunctionOnSet(f, R) \in Int /\ f[x] \in Int /\ g[x] \in Int
    BY <1>1, <1>2, SumType
  <1>7. /\ SumFunctionOnSet(f, Ids) = SumFunctionOnSet(f, R) + f[x]
        /\ SumFunctionOnSet(g, Ids) = SumFunctionOnSet(f, R) + g[x]
    BY <1>1, <1>3, <1>4, <1>5
  <1> QED BY <1>6, <1>7

\* A sum of zeros is 0, for a constant function and any indices.
LEMMA SumOfZeros ==
  ASSUME NEW Ids, IsFiniteSet(Ids)
  PROVE  SumFunctionOnSet([x \in Ids |-> 0], Ids) = 0
  <1> DEFINE f == [x \in Ids |-> 0]
  <1>1. \A x \in Ids : f[x] \in Int /\ f[x] = 0
    OBVIOUS
  <1> HIDE DEF f
  <1>2. PICK it \in [SUBSET Ids -> Int] : /\ \A s \in SUBSET Ids : Sums(it, f, s)
                                        /\ SumFunctionOnSet(f, Ids) = it[Ids]
    BY <1>1, SumIsFold
  <1> DEFINE C == {s \in SUBSET Ids : it[s] # 0}
  <1>3. C = {}
    <2> SUFFICES ASSUME C # {} PROVE FALSE
      OBVIOUS
    <2>1. PICK m \in C : \A s \in C : Cardinality(m) <= Cardinality(s)
      <3>1. C \in SUBSET (SUBSET Ids)
        OBVIOUS
      <3> HIDE DEF C
      <3> QED BY <3>1, SmallestSet
    <2>2. m \in SUBSET Ids /\ it[m] # 0 /\ Sums(it, f, m)
      BY <1>2
    <2>3. m # {}
      BY <2>2 DEF Sums
    <2>4. /\ Least(m) \in Ids /\ m \ {Least(m)} \in SUBSET Ids
          /\ ~(Cardinality(m) <= Cardinality(m \ {Least(m)}))
      BY <2>2, <2>3, Subsets
    <2>5. it[m \ {Least(m)}] = 0
      BY <2>1, <2>4
    <2> QED BY <1>1, <2>2, <2>3, <2>4, <2>5 DEF Sums
  <1>4. it[Ids] = 0
    BY <1>3
  <1> QED BY <1>2, <1>4 DEF f

\* A sum of naturals is one.
LEMMA SumOfNaturals ==
  ASSUME NEW Ids, IsFiniteSet(Ids), NEW f, \A x \in Ids : f[x] \in Nat
  PROVE  SumFunctionOnSet(f, Ids) \in Nat
  <1>1. \A x \in Ids : f[x] \in Int
    OBVIOUS
  <1>2. PICK it \in [SUBSET Ids -> Int] : /\ \A s \in SUBSET Ids : Sums(it, f, s)
                                        /\ SumFunctionOnSet(f, Ids) = it[Ids]
    BY <1>1, SumIsFold
  <1> DEFINE C == {s \in SUBSET Ids : it[s] \notin Nat}
  <1> SUFFICES ASSUME C # {} PROVE FALSE
    BY <1>2
  <1>3. PICK m \in C : \A s \in C : Cardinality(m) <= Cardinality(s)
    <2>1. C \in SUBSET (SUBSET Ids)
      OBVIOUS
    <2> HIDE DEF C
    <2> QED BY <2>1, SmallestSet
  <1>4. m \in SUBSET Ids /\ it[m] \notin Nat /\ Sums(it, f, m)
    BY <1>2
  <1>5. m # {}
    BY <1>4 DEF Sums
  <1>6. /\ Least(m) \in Ids /\ m \ {Least(m)} \in SUBSET Ids
        /\ ~(Cardinality(m) <= Cardinality(m \ {Least(m)}))
    BY <1>4, <1>5, Subsets
  <1>7. it[m \ {Least(m)}] \in Nat
    BY <1>3, <1>6
  <1> QED BY <1>4, <1>5, <1>6, <1>7 DEF Sums

-------------------------------------------------------------------------------
\* Arithmetic of the fee: what a division by 10 000 leaves.
LEMMA Rounding == ASSUME NEW a \in Nat
                  PROVE  /\ a \div 10000 \in Nat
                         /\ (a \div 10000) * 10000 <= a
                         /\ a < (a \div 10000 + 1) * 10000
  OBVIOUS

LEMMA Product == ASSUME NEW a \in Nat, NEW b \in Nat, NEW c \in Nat, b <= c
                 PROVE  a * b \in Nat /\ a * b <= a * c
  OBVIOUS

\* The configuration of fees as SetFee and SetRebateTier leave it.
Discounts == 0..5000
Capped(s) == s.feeBps <= MaxFeeBps /\ \A i \in 0..(MaxTiers - 1) : s.tiers[i].discount <= 5000

LEMMA StoreFields ==
  ASSUME NEW s \in Store
  PROVE  /\ s.feeBps \in Nat /\ s.paused \in BOOLEAN /\ s.whitelist \in SUBSET Tokens
         /\ s.rate \in [Tokens -> Nat] /\ s.tiers \in [0..(MaxTiers - 1) -> Tier]
         /\ s.tierCount \in Nat /\ s.accFees \in Nat /\ s.accByToken \in [Tokens -> Nat]
         /\ s.userVolume \in [Payers \X Tokens -> Nat] /\ s.records \in Seq(FundingRecord)
         /\ s.hotCount \in Nat /\ s.totalVolume \in Nat /\ s.volumeByToken \in [Tokens -> Nat]
         /\ s.funders \in SUBSET Payers /\ s.funderCount \in Nat /\ s.nextRecord \in Nat
         /\ s.archives \in Nat /\ s.paidOut \in [Holders \X Tokens -> Nat]
  BY DEF Store

\* There are finitely many parties and tokens.
LEMMA FinitelyMany ==
  /\ IsFiniteSet(Payers) /\ IsFiniteSet(Tokens)
  /\ IsFiniteSet(Holders \X Tokens)
  <1>1. IsFiniteSet(Payers)
    BY PartiesAssumption, FS_AddElement DEF Payers
  <1>2. IsFiniteSet(Payers \cup Wallets)
    BY <1>1, PartiesAssumption, FS_Union
  <1>3. IsFiniteSet(Holders)
    BY <1>2, PartiesAssumption, FS_Union DEF Holders
  <1> QED BY <1>1, <1>3, PartiesAssumption, FS_Product

LEMMA RebateIsCapped ==
  ASSUME NEW s \in Store, Capped(s), NEW src, NEW tok
  PROVE  /\ RebateBps(s, src, tok) \in 0..5000
         /\ s.tierCount = 0 => RebateBps(s, src, tok) = 0
  <1> DEFINE E == Earned(s, src, tok) \cup {0}
             D == {5000 - e : e \in E}
  <1>1. s.tiers \in [0..(MaxTiers - 1) -> Tier] /\ s.tierCount \in Nat /\ MaxTiers \in Nat
    BY NumbersAssumption, StoreFields
  <1>2. \A i \in 0..(MaxTiers - 1) : s.tiers[i].discount \in Discounts
    <2>1. \A t \in Tier : t.discount \in Nat
      BY DEF Tier
    <2>2. ASSUME NEW i \in 0..(MaxTiers - 1) PROVE s.tiers[i].discount \in Discounts
      <3> DEFINE x == s.tiers[i].discount
      <3>1. x \in Nat /\ x <= 5000
        BY <1>1, <2>1 DEF Capped
      <3> HIDE DEF x
      <3>2. x \in Discounts
        BY <3>1 DEF Discounts
      <3> QED BY <3>2 DEF x
    <2> QED BY <2>2
  <1>3. E \subseteq Discounts
    <2>1. \A e \in Earned(s, src, tok) : \E i \in 0..(MaxTiers - 1) : e = s.tiers[i].discount
      BY Zenon DEF Earned
    <2>2. ASSUME NEW e \in Earned(s, src, tok) PROVE e \in Discounts
      <3>1. PICK i \in 0..(MaxTiers - 1) : e = s.tiers[i].discount
        BY <2>1, Zenon
      <3>2. s.tiers[i].discount \in Discounts
        BY <1>2, Zenon
      <3> QED BY <3>1, <3>2, Zenon
    <2>3. 0 \in Discounts
      BY DEF Discounts
    <2> QED BY <2>2, <2>3, Zenon
  <1>4. D \in SUBSET Nat /\ D # {}
    <2> HIDE DEF E
    <2>1. \A e \in E : 5000 - e \in Nat
      BY <1>3 DEF Discounts
    <2>2. 0 \in E
      BY DEF E
    <2> QED BY <2>1, <2>2
  <1>5. PICK d \in D : \A x \in D : d <= x
    <2> HIDE DEF D
    <2> QED BY <1>4, LeastNumber
  <1>6. PICK m \in E : \A e \in E : 5000 - m <= 5000 - e
    <2> HIDE DEF E
    <2> QED BY <1>5
  <1>7. \A e \in E : e <= m
    <2> HIDE DEF E
    <2> QED BY <1>3, <1>6 DEF Discounts
  <1>8. \A e \in Earned(s, src, tok) : e <= m
    BY <1>7
  <1>9. RebateBps(s, src, tok) \in E
    BY <1>8 DEF RebateBps
  <1>10. s.tierCount = 0 => Earned(s, src, tok) = {}
    BY <1>1 DEF Earned
  <1> QED BY <1>3, <1>9, <1>10 DEF Discounts

\* A fee is at most the rate's, hence within the cap, and at least half of it.
Bounded(s, it) ==
    /\ Fee(s, it) \in Nat /\ it.amount \in Nat /\ s.feeBps \in Nat
    /\ Fee(s, it) <= it.amount
    /\ Fee(s, it) * 10000 <= it.amount * s.feeBps
    /\ Fee(s, it) * 10000 <= it.amount * MaxFeeBps
    /\ (Fee(s, it) + 1) * 20000 > it.amount * s.feeBps
    /\ Fee(s, it) <= (it.amount * s.feeBps) \div 10000
    /\ s.tierCount = 0 => Fee(s, it) = (it.amount * s.feeBps) \div 10000

LEMMA FeeIsBounded ==
  ASSUME NEW s \in Store, Capped(s), NEW it \in Item
  PROVE  Bounded(s, it)
  <1> DEFINE f == s.feeBps
             d == RebateBps(s, it.source, it.token)
             cut == (f * d) \div 10000
             bps == f - cut
             a == it.amount
             fee == (a * bps) \div 10000
  <1>1. /\ f \in Nat /\ a \in Nat /\ d \in 0..5000 /\ MaxFeeBps \in 0..10000 /\ f <= MaxFeeBps
        /\ s.tierCount = 0 => d = 0
    <2>1. f \in Nat /\ f <= MaxFeeBps /\ MaxFeeBps \in 0..10000
      BY StoreFields, NumbersAssumption DEF Capped
    <2>2. a \in Nat
      <3>1. it.amount \in Amounts
        BY DEF Item
      <3>2. Amounts \subseteq Nat
        BY NumbersAssumption
      <3> QED BY <3>1, <3>2
    <2>3. d \in 0..5000 /\ (s.tierCount = 0 => d = 0)
      BY RebateIsCapped
    <2> HIDE DEF f, a, d
    <2> QED BY <2>1, <2>2, <2>3
  <1>2. Fee(s, it) = fee
    BY DEF Fee
  <1> HIDE DEF f, a, d
  <1>3. f * d \in Nat /\ f * d <= f * 5000
    BY <1>1, Product
  <1>4. cut \in Nat /\ cut * 10000 <= f * d
    BY <1>3, Rounding
  <1> HIDE DEF cut
  <1>5. bps \in Nat /\ bps <= f /\ f <= 2 * bps
    <2> DEFINE p == f * d
    <2>1. p \in Nat /\ p <= f * 5000 /\ cut * 10000 <= p
      BY <1>3, <1>4
    <2> HIDE DEF p
    <2> QED BY <1>1, <1>4, <2>1
  <1>6. d = 0 => bps = f
    BY <1>1, <1>4
  <1> HIDE DEF bps
  <1>7. a * bps \in Nat /\ a * bps <= a * f /\ a * f <= a * MaxFeeBps /\ a * MaxFeeBps <= a * 10000
    BY <1>1, <1>5, Product
  <1>8. a * f <= a * (2 * bps) /\ a * (2 * bps) = 2 * (a * bps)
    BY <1>1, <1>5, Product
  <1>9. fee \in Nat /\ fee * 10000 <= a * bps /\ a * bps < (fee + 1) * 10000
    BY <1>7, Rounding
  <1>10. a * f \in Nat /\ (a * f) \div 10000 \in Nat /\ a * f < ((a * f) \div 10000 + 1) * 10000
    <2>1. a * f \in Nat
      BY <1>1, Product
    <2> QED BY <2>1, Rounding
  <1>11. d = 0 => fee = (a * f) \div 10000
    BY <1>6
  <1>14. a * MaxFeeBps \in Nat
    BY <1>1, Product
  <1> HIDE DEF fee
  <1> DEFINE q == (a * f) \div 10000
             af == a * f
             ab == a * bps
             am == a * MaxFeeBps
  <1>12. /\ fee \in Nat /\ ab \in Nat /\ af \in Nat /\ q \in Nat /\ am \in Nat
         /\ ab <= af /\ af <= am /\ am <= a * 10000 /\ af <= 2 * ab
         /\ fee * 10000 <= ab /\ ab < (fee + 1) * 10000 /\ af < (q + 1) * 10000
    BY <1>7, <1>8, <1>9, <1>10, <1>14
  <1> HIDE DEF q, af, ab, am
  <1>13. /\ fee <= a /\ fee * 10000 <= af /\ fee * 10000 <= am
         /\ (fee + 1) * 20000 > af /\ fee <= q
    BY <1>1, <1>12
  <1> QED BY <1>1, <1>2, <1>11, <1>12, <1>13 DEF Bounded, af, am, q, a, f

-------------------------------------------------------------------------------
(* What the invariant says of a store and of balances, whether or not they are the current
   ones: a batch's second entry sees the state that the first one left. *)
AmountAt(recs) == [i \in DOMAIN recs |-> recs[i].amount]
FeeAt(recs)    == [i \in DOMAIN recs |-> recs[i].fee]
Total(recs, ids)   == SumFunctionOnSet(AmountAt(recs), ids)
Charged(recs, ids) == SumFunctionOnSet(FeeAt(recs), ids)
By(recs, f, t) == {i \in DOMAIN recs : recs[i].source = f /\ recs[i].token = t}
In(recs, t)    == {i \in DOMAIN recs : recs[i].token = t}
For(recs, h, t) == {i \in DOMAIN recs : recs[i].target = h /\ recs[i].token = t}
To(recs)       == {i \in DOMAIN recs : recs[i].target = Bridge}
From(recs)     == {i \in DOMAIN recs : recs[i].source = Bridge}
HotIds(recs)   == {i \in DOMAIN recs : ~recs[i].archived}
Sources(recs)  == {recs[i].source : i \in DOMAIN recs}
Held(bal, h)   == SumFunctionOnSet([t \in Tokens |-> bal[<<h, t>>]], Tokens)

Balances == [Holders \X Tokens -> Nat]

Counted(s) ==
    /\ s.hotCount = Cardinality(HotIds(s.records))
    /\ \A f \in Payers, t \in Tokens :
           s.userVolume[<<f, t>>] = Total(s.records, By(s.records, f, t))
    /\ \A t \in Tokens : s.volumeByToken[t] = Total(s.records, In(s.records, t))
    /\ s.totalVolume = Total(s.records, DOMAIN s.records)
    /\ s.funders = Sources(s.records)
    /\ s.funderCount = Cardinality(Sources(s.records))
Collected(s, bal) ==
    /\ s.accFees + SumFunctionOnSet(s.paidOut, Holders \X Tokens)
           = Charged(s.records, DOMAIN s.records)
    /\ Held(bal, Bridge) = s.accFees + Held(s.paidOut, Bridge)
           + Total(s.records, To(s.records)) - Charged(s.records, To(s.records))
           - Total(s.records, From(s.records))
First(h) == IF h \in Funders THEN Endowment ELSE 0
Even(recs, bal, paid, h, t) ==
    bal[<<h, t>>] + Total(recs, By(recs, h, t)) =
        First(h) + paid[<<h, t>>] + Total(recs, For(recs, h, t)) - Charged(recs, For(recs, h, t))
Balanced(s, bal) ==
    \A h \in Holders \ {Bridge}, t \in Tokens : Even(s.records, bal, s.paidOut, h, t)
Fair(s) == \A i \in DOMAIN s.records :
               s.records[i].fee * 10000 <= s.records[i].amount * MaxFeeBps

Books(s, bal) == /\ s \in Store /\ bal \in Balances /\ Capped(s)
                 /\ Counted(s) /\ Collected(s, bal) /\ Balanced(s, bal) /\ Fair(s)

-------------------------------------------------------------------------------
\* Records, and what one more of them adds to a sum.
LEMMA Records ==
  ASSUME NEW recs \in Seq(FundingRecord)
  PROVE  /\ IsFiniteSet(DOMAIN recs) /\ Len(recs) \in Nat /\ DOMAIN recs = 1..Len(recs)
         /\ \A i \in DOMAIN recs : /\ recs[i] \in FundingRecord
                                   /\ recs[i].amount \in Nat /\ recs[i].fee \in Nat
                                   /\ recs[i].source \in Payers
                                   /\ recs[i].archived \in BOOLEAN
  <1>1. Len(recs) \in Nat /\ DOMAIN recs = 1..Len(recs)
    OBVIOUS
  <1>2. IsFiniteSet(DOMAIN recs)
    <2>1. Len(recs) \in Int /\ 1 \in Int
      BY <1>1
    <2>2. IsFiniteSet(1..Len(recs))
      BY <2>1, FS_Interval, Zenon
    <2> QED BY <1>1, <2>2
  <1>3. \A i \in DOMAIN recs : recs[i] \in FundingRecord
    OBVIOUS
  <1>4. \A r \in FundingRecord : /\ r.amount \in Nat /\ r.fee \in Nat /\ r.source \in Payers
                                 /\ r.archived \in BOOLEAN
    BY DEF FundingRecord
  <1> QED BY <1>1, <1>2, <1>3, <1>4

LEMMA TotalsAreNumbers ==
  ASSUME NEW recs \in Seq(FundingRecord), NEW X \in SUBSET DOMAIN recs
  PROVE  /\ IsFiniteSet(X) /\ Cardinality(X) \in Nat
         /\ Total(recs, X) \in Nat /\ Charged(recs, X) \in Nat
  <1>1. IsFiniteSet(X) /\ Cardinality(X) \in Nat
    BY Records, FS_Subset, FS_CardinalityType
  <1>2. /\ \A i \in X : AmountAt(recs)[i] \in Nat
        /\ \A i \in X : FeeAt(recs)[i] \in Nat
    BY Records DEF AmountAt, FeeAt
  <1> QED BY <1>1, <1>2, SumOfNaturals DEF Total, Charged

LEMMA Appended ==
  ASSUME NEW recs \in Seq(FundingRecord), NEW r \in FundingRecord, NEW new, NEW n,
         new = Append(recs, r), n = Len(recs) + 1
  PROVE  /\ new \in Seq(FundingRecord) /\ n \notin DOMAIN recs
         /\ DOMAIN new = DOMAIN recs \cup {n} /\ new[n] = r
         /\ \A i \in DOMAIN recs : new[i] = recs[i]
  OBVIOUS

Grown(recs, r, new, n, X) ==
    /\ Total(new, X) = Total(recs, X)
    /\ Total(new, X \cup {n}) = Total(recs, X) + r.amount
    /\ Charged(new, X) = Charged(recs, X)
    /\ Charged(new, X \cup {n}) = Charged(recs, X) + r.fee
    /\ Cardinality(X \cup {n}) = Cardinality(X) + 1

LEMMA OneMore ==
  ASSUME NEW recs \in Seq(FundingRecord), NEW r \in FundingRecord, NEW new, NEW n,
         new = Append(recs, r), n = Len(recs) + 1, NEW X \in SUBSET DOMAIN recs
  PROVE  Grown(recs, r, new, n, X)
  <1>1. /\ new \in Seq(FundingRecord) /\ n \notin DOMAIN recs
        /\ DOMAIN new = DOMAIN recs \cup {n} /\ new[n] = r
        /\ \A i \in DOMAIN recs : new[i] = recs[i]
    BY Appended
  <1>2. IsFiniteSet(X) /\ n \notin X
    BY <1>1, TotalsAreNumbers
  <1>3. /\ \A i \in DOMAIN recs : recs[i].amount \in Nat /\ recs[i].fee \in Nat
        /\ r.amount \in Nat /\ r.fee \in Nat
    BY Records DEF FundingRecord
  <1>4. /\ \A i \in X : /\ AmountAt(recs)[i] \in Int /\ AmountAt(recs)[i] = AmountAt(new)[i]
                        /\ FeeAt(recs)[i] \in Int /\ FeeAt(recs)[i] = FeeAt(new)[i]
        /\ AmountAt(new)[n] = r.amount /\ FeeAt(new)[n] = r.fee
    BY <1>1, <1>3 DEF AmountAt, FeeAt
  <1>5. \A i \in X \cup {n} : AmountAt(new)[i] \in Int /\ FeeAt(new)[i] \in Int
    BY <1>3, <1>4
  <1>6. /\ SumFunctionOnSet(AmountAt(recs), X) = SumFunctionOnSet(AmountAt(new), X)
        /\ SumFunctionOnSet(FeeAt(recs), X) = SumFunctionOnSet(FeeAt(new), X)
    BY <1>2, <1>4, SameSum
  <1>7. /\ SumFunctionOnSet(AmountAt(new), X \cup {n})
              = SumFunctionOnSet(AmountAt(new), X) + AmountAt(new)[n]
        /\ SumFunctionOnSet(FeeAt(new), X \cup {n})
              = SumFunctionOnSet(FeeAt(new), X) + FeeAt(new)[n]
    BY <1>2, <1>5, SumWith
  <1>8. Cardinality(X \cup {n}) = Cardinality(X) + 1
    BY <1>2, FS_AddElement
  <1> QED BY <1>4, <1>6, <1>7, <1>8 DEF Grown, Total, Charged

\* Which records a new one joins.
Joined(recs, r, new, n) ==
    /\ \A f, t : By(new, f, t) = IF r.source = f /\ r.token = t
                                 THEN By(recs, f, t) \cup {n} ELSE By(recs, f, t)
    /\ \A t : In(new, t) = IF r.token = t THEN In(recs, t) \cup {n} ELSE In(recs, t)
    /\ \A h, t : For(new, h, t) = IF r.target = h /\ r.token = t
                                  THEN For(recs, h, t) \cup {n} ELSE For(recs, h, t)
    /\ To(new) = IF r.target = Bridge THEN To(recs) \cup {n} ELSE To(recs)
    /\ From(new) = IF r.source = Bridge THEN From(recs) \cup {n} ELSE From(recs)
    /\ HotIds(new) = HotIds(recs) \cup {n}
    /\ Sources(new) = Sources(recs) \cup {r.source}
    /\ DOMAIN new = DOMAIN recs \cup {n}
    /\ \A f, t : By(recs, f, t) \in SUBSET DOMAIN recs
    /\ \A h, t : For(recs, h, t) \in SUBSET DOMAIN recs
    /\ \A t : In(recs, t) \in SUBSET DOMAIN recs
    /\ To(recs) \in SUBSET DOMAIN recs /\ From(recs) \in SUBSET DOMAIN recs
    /\ HotIds(recs) \in SUBSET DOMAIN recs

LEMMA Joins ==
  ASSUME NEW recs \in Seq(FundingRecord), NEW r \in FundingRecord, NEW new, NEW n,
         new = Append(recs, r), n = Len(recs) + 1, ~r.archived
  PROVE  Joined(recs, r, new, n)
  <1>1. /\ n \notin DOMAIN recs /\ DOMAIN new = DOMAIN recs \cup {n} /\ new[n] = r
        /\ \A i \in DOMAIN recs : new[i] = recs[i]
    BY Appended
  <1>2. \A f, t : By(new, f, t) = IF r.source = f /\ r.token = t
                                  THEN By(recs, f, t) \cup {n} ELSE By(recs, f, t)
    BY <1>1 DEF By
  <1>3. \A t : In(new, t) = IF r.token = t THEN In(recs, t) \cup {n} ELSE In(recs, t)
    BY <1>1 DEF In
  <1>4. To(new) = IF r.target = Bridge THEN To(recs) \cup {n} ELSE To(recs)
    BY <1>1 DEF To
  <1>5. HotIds(new) = HotIds(recs) \cup {n}
    BY <1>1 DEF HotIds
  <1>6. Sources(new) = Sources(recs) \cup {r.source}
    BY <1>1 DEF Sources
  <1>7. /\ \A f, t : By(recs, f, t) \in SUBSET DOMAIN recs
        /\ \A h, t : For(recs, h, t) \in SUBSET DOMAIN recs
        /\ \A t : In(recs, t) \in SUBSET DOMAIN recs
        /\ To(recs) \in SUBSET DOMAIN recs /\ From(recs) \in SUBSET DOMAIN recs
        /\ HotIds(recs) \in SUBSET DOMAIN recs
    BY DEF By, For, In, To, From, HotIds
  <1>8. \A h, t : For(new, h, t) = IF r.target = h /\ r.token = t
                                   THEN For(recs, h, t) \cup {n} ELSE For(recs, h, t)
    BY <1>1 DEF For
  <1>9. From(new) = IF r.source = Bridge THEN From(recs) \cup {n} ELSE From(recs)
    BY <1>1 DEF From
  <1> QED BY <1>1, <1>2, <1>3, <1>4, <1>5, <1>6, <1>7, <1>8, <1>9 DEF Joined

\* The store after a funding, field by field.
RecordOf(s, it) == [source |-> it.source, target |-> it.target, token |-> it.token,
                    amount |-> it.amount, fee |-> Fee(s, it), archived |-> FALSE]

FundedTo(s, it, r) ==
    /\ r.accFees = s.accFees + Fee(s, it)
    /\ r.accByToken = [s.accByToken EXCEPT ![it.token] = @ + TokenFee(s, it)]
    /\ r.userVolume = [s.userVolume EXCEPT ![<<it.source, it.token>>] = @ + it.amount]
    /\ r.records = Append(s.records, RecordOf(s, it))
    /\ r.hotCount = s.hotCount + 1
    /\ r.totalVolume = s.totalVolume + it.amount
    /\ r.volumeByToken = [s.volumeByToken EXCEPT ![it.token] = @ + it.amount]
    /\ r.funders = s.funders \cup {it.source}
    /\ r.funderCount = IF it.source \in s.funders THEN s.funderCount ELSE s.funderCount + 1
    /\ r.feeBps = s.feeBps /\ r.tiers = s.tiers /\ r.tierCount = s.tierCount
    /\ r.paused = s.paused /\ r.whitelist = s.whitelist /\ r.rate = s.rate
    /\ r.nextRecord = s.nextRecord /\ r.archives = s.archives /\ r.paidOut = s.paidOut
    /\ r = [feeBps |-> r.feeBps, paused |-> r.paused, whitelist |-> r.whitelist,
            rate |-> r.rate, tiers |-> r.tiers, tierCount |-> r.tierCount,
            accFees |-> r.accFees, accByToken |-> r.accByToken,
            userVolume |-> r.userVolume, records |-> r.records, hotCount |-> r.hotCount,
            totalVolume |-> r.totalVolume, volumeByToken |-> r.volumeByToken,
            funders |-> r.funders, funderCount |-> r.funderCount,
            nextRecord |-> r.nextRecord, archives |-> r.archives, paidOut |-> r.paidOut]

LEMMA FundedFields ==
  ASSUME NEW s \in Store, NEW it \in Item, NEW r, r = Funded(s, it)
  PROVE  FundedTo(s, it, r)
  BY DEF FundedTo, Funded, Store, RecordOf

LEMMA ItemFields ==
  ASSUME NEW it \in Item
  PROVE  /\ it.source \in Payers /\ it.token \in Tokens /\ it.amount \in Nat
         /\ <<it.source, it.token>> \in Payers \X Tokens
  <1>1. it.source \in Payers /\ it.token \in Tokens /\ it.amount \in Amounts
    BY DEF Item
  <1>2. Amounts \subseteq Nat
    BY NumbersAssumption
  <1> QED BY <1>1, <1>2

LEMMA FundedIsStore ==
  ASSUME NEW s \in Store, Capped(s), NEW it \in Item, it.target \in Wallets, NEW r, r = Funded(s, it)
  PROVE  r \in Store /\ Capped(r) /\ RecordOf(s, it) \in FundingRecord
  <1> DEFINE fee == Fee(s, it)
             rec == RecordOf(s, it)
  <1>0. FundedTo(s, it, r) /\ Bounded(s, it)
    BY FundedFields, FeeIsBounded, Zenon
  <1>1. fee \in Nat /\ it.amount \in Nat /\ it.source \in Payers /\ it.token \in Tokens
    <2>1. Fee(s, it) \in Nat
      BY <1>0 DEF Bounded
    <2>2. it.amount \in Nat /\ it.source \in Payers /\ it.token \in Tokens
      BY ItemFields, Zenon
    <2> QED BY <2>1, <2>2
  <1>2. rec \in FundingRecord
    BY <1>1 DEF RecordOf, FundingRecord
  <1>3. TokenFee(s, it) \in Nat
    <2> DEFINE q == fee * s.rate[it.token]
    <2>1. s.rate[it.token] \in Nat
      BY <1>1, StoreFields
    <2>2. q \in Nat
      <3> DEFINE x == s.rate[it.token]
      <3> HIDE DEF x, fee
      <3> QED BY <1>1, <2>1, Product DEF x
    <2>3. q \div 10000 \in Nat
      <3> HIDE DEF q
      <3> QED BY <2>2, Rounding
    <2> QED BY <2>3 DEF TokenFee
  <1> DEFINE tf == TokenFee(s, it)
  <1>4. r.accByToken \in [Tokens -> Nat]
    <2> HIDE DEF tf
    <2>1. r.accByToken = [s.accByToken EXCEPT ![it.token] = @ + tf]
      BY <1>0 DEF FundedTo, tf
    <2>2. s.accByToken \in [Tokens -> Nat] /\ s.accByToken[it.token] + tf \in Nat
      BY <1>1, <1>3, StoreFields DEF tf
    <2> QED BY <2>1, <2>2, Zenon
  <1>5. r.userVolume \in [Payers \X Tokens -> Nat]
    <2> DEFINE k == <<it.source, it.token>>
    <2>1. r.userVolume = [s.userVolume EXCEPT ![k] = @ + it.amount]
      BY <1>0 DEF FundedTo
    <2>2. s.userVolume \in [Payers \X Tokens -> Nat] /\ k \in Payers \X Tokens
      BY <1>1, StoreFields
    <2> HIDE DEF k
    <2>3. s.userVolume[k] + it.amount \in Nat
      BY <1>1, <2>2
    <2> QED BY <2>1, <2>2, <2>3, Zenon
  <1>6. r.volumeByToken \in [Tokens -> Nat]
    <2>1. r.volumeByToken = [s.volumeByToken EXCEPT ![it.token] = @ + it.amount]
      BY <1>0 DEF FundedTo
    <2>2. s.volumeByToken \in [Tokens -> Nat] /\ s.volumeByToken[it.token] + it.amount \in Nat
      BY <1>1, StoreFields
    <2> QED BY <2>1, <2>2, Zenon
  <1>7. r.records \in Seq(FundingRecord)
    <2>1. r.records = Append(s.records, rec)
      BY <1>0 DEF FundedTo
    <2>2. s.records \in Seq(FundingRecord)
      BY StoreFields
    <2> HIDE DEF rec
    <2> QED BY <1>2, <2>1, <2>2, Appended
  <1>8. /\ r.accFees \in Nat /\ r.hotCount \in Nat /\ r.totalVolume \in Nat
        /\ r.funders \in SUBSET Payers /\ r.funderCount \in Nat
    <2>1. /\ r.accFees = s.accFees + fee /\ r.hotCount = s.hotCount + 1
          /\ r.totalVolume = s.totalVolume + it.amount
          /\ r.funders = s.funders \cup {it.source}
          /\ r.funderCount = IF it.source \in s.funders THEN s.funderCount ELSE s.funderCount + 1
      BY <1>0 DEF FundedTo
    <2>2. /\ s.accFees \in Nat /\ s.hotCount \in Nat /\ s.totalVolume \in Nat
          /\ s.funders \in SUBSET Payers /\ s.funderCount \in Nat
      BY StoreFields
    <2> HIDE DEF fee
    <2> QED BY <1>1, <2>1, <2>2
  <1>9. /\ r.feeBps = s.feeBps /\ r.tiers = s.tiers /\ r.tierCount = s.tierCount
        /\ r.paused = s.paused /\ r.whitelist = s.whitelist /\ r.rate = s.rate
        /\ r.nextRecord = s.nextRecord /\ r.archives = s.archives /\ r.paidOut = s.paidOut
    BY <1>0 DEF FundedTo
  <1>10. /\ r.feeBps \in Nat /\ r.tiers \in [0..(MaxTiers - 1) -> Tier] /\ r.tierCount \in Nat
         /\ r.paused \in BOOLEAN /\ r.whitelist \in SUBSET Tokens /\ r.rate \in [Tokens -> Nat]
         /\ r.nextRecord \in Nat /\ r.archives \in Nat
         /\ r.paidOut \in [Holders \X Tokens -> Nat]
    BY <1>9, StoreFields
  <1>11. r = [feeBps |-> r.feeBps, paused |-> r.paused, whitelist |-> r.whitelist,
              rate |-> r.rate, tiers |-> r.tiers, tierCount |-> r.tierCount,
              accFees |-> r.accFees, accByToken |-> r.accByToken,
              userVolume |-> r.userVolume, records |-> r.records, hotCount |-> r.hotCount,
              totalVolume |-> r.totalVolume, volumeByToken |-> r.volumeByToken,
              funders |-> r.funders, funderCount |-> r.funderCount,
              nextRecord |-> r.nextRecord, archives |-> r.archives, paidOut |-> r.paidOut]
    BY <1>0 DEF FundedTo
  <1>12. Capped(r)
    BY <1>9 DEF Capped
  <1>13. r \in Store
    BY <1>4, <1>5, <1>6, <1>7, <1>8, <1>10, <1>11 DEF Store
  <1> QED BY <1>2, <1>12, <1>13

\* The counters after one more record.
LEMMA FundedIsCounted ==
  ASSUME NEW s \in Store, Capped(s), Counted(s), Fair(s), NEW it \in Item, it.target \in Wallets,
         NEW r, r = Funded(s, it)
  PROVE  Counted(r) /\ Fair(r)
  <1> DEFINE old == s.records
             rec == RecordOf(s, it)
             new == r.records
             n == Len(old) + 1
  <1>0. FundedTo(s, it, r) /\ Bounded(s, it)
    BY FundedFields, FeeIsBounded, Zenon
  <1>1. /\ old \in Seq(FundingRecord) /\ rec \in FundingRecord /\ new = Append(old, rec)
        /\ rec.source = it.source /\ rec.token = it.token /\ rec.amount = it.amount
        /\ rec.fee = Fee(s, it) /\ ~rec.archived
    <2>1. old \in Seq(FundingRecord) /\ rec \in FundingRecord
      BY StoreFields, FundedIsStore
    <2>2. new = Append(old, rec)
      BY <1>0 DEF FundedTo
    <2> QED BY <2>1, <2>2 DEF RecordOf
  <1>2. n = Len(old) + 1
    OBVIOUS
  <1>3. /\ it.source \in Payers /\ it.token \in Tokens /\ it.amount \in Nat
        /\ s.userVolume \in [Payers \X Tokens -> Nat] /\ s.volumeByToken \in [Tokens -> Nat]
    BY ItemFields, StoreFields
  <1>4. /\ r.userVolume = [s.userVolume EXCEPT ![<<it.source, it.token>>] = @ + it.amount]
        /\ r.volumeByToken = [s.volumeByToken EXCEPT ![it.token] = @ + it.amount]
        /\ r.hotCount = s.hotCount + 1 /\ r.totalVolume = s.totalVolume + it.amount
        /\ r.funders = s.funders \cup {it.source}
        /\ r.funderCount = IF it.source \in s.funders THEN s.funderCount ELSE s.funderCount + 1
    BY <1>0 DEF FundedTo
  <1> HIDE DEF old, rec, new, n
  <1>13. Joined(old, rec, new, n)
    BY <1>1, <1>2, Joins, Zenon
  <1>5. /\ \A f, t : By(new, f, t) = IF rec.source = f /\ rec.token = t
                                     THEN By(old, f, t) \cup {n} ELSE By(old, f, t)
        /\ \A t : In(new, t) = IF rec.token = t THEN In(old, t) \cup {n} ELSE In(old, t)
        /\ HotIds(new) = HotIds(old) \cup {n}
        /\ Sources(new) = Sources(old) \cup {rec.source}
        /\ DOMAIN new = DOMAIN old \cup {n}
        /\ \A f, t : By(old, f, t) \in SUBSET DOMAIN old
        /\ \A t : In(old, t) \in SUBSET DOMAIN old
        /\ HotIds(old) \in SUBSET DOMAIN old
    BY <1>13 DEF Joined
  <1>6. \A X \in SUBSET DOMAIN old : /\ Total(new, X) = Total(old, X)
                                     /\ Total(new, X \cup {n}) = Total(old, X) + rec.amount
                                     /\ Cardinality(X \cup {n}) = Cardinality(X) + 1
    <2>1. \A X \in SUBSET DOMAIN old : Grown(old, rec, new, n, X)
      BY <1>1, <1>2, OneMore, Zenon
    <2> QED BY <2>1 DEF Grown
  <1>7. r.hotCount = Cardinality(HotIds(new))
    BY <1>4, <1>5, <1>6 DEF Counted, old
  <1>8. ASSUME NEW f \in Payers, NEW t \in Tokens
        PROVE  r.userVolume[<<f, t>>] = Total(new, By(new, f, t))
    <2>1. s.userVolume[<<f, t>>] = Total(old, By(old, f, t))
      BY DEF Counted, old
    <2>2. /\ Total(new, By(old, f, t)) = Total(old, By(old, f, t))
          /\ Total(new, By(old, f, t) \cup {n}) = Total(old, By(old, f, t)) + rec.amount
      BY <1>5, <1>6
    <2>3. r.userVolume[<<f, t>>] = IF it.source = f /\ it.token = t
                                   THEN s.userVolume[<<f, t>>] + it.amount
                                   ELSE s.userVolume[<<f, t>>]
      BY <1>3, <1>4
    <2>4. By(new, f, t) = IF it.source = f /\ it.token = t
                          THEN By(old, f, t) \cup {n} ELSE By(old, f, t)
      BY <1>1, <1>5
    <2> QED BY <1>1, <2>1, <2>2, <2>3, <2>4
  <1>9. ASSUME NEW t \in Tokens PROVE r.volumeByToken[t] = Total(new, In(new, t))
    <2>1. s.volumeByToken[t] = Total(old, In(old, t))
      BY DEF Counted, old
    <2>2. /\ Total(new, In(old, t)) = Total(old, In(old, t))
          /\ Total(new, In(old, t) \cup {n}) = Total(old, In(old, t)) + rec.amount
      BY <1>5, <1>6
    <2>3. r.volumeByToken[t] = IF it.token = t THEN s.volumeByToken[t] + it.amount
                               ELSE s.volumeByToken[t]
      BY <1>3, <1>4
    <2> QED BY <1>1, <1>5, <2>1, <2>2, <2>3
  <1>10. r.totalVolume = Total(new, DOMAIN new)
    <2>1. s.totalVolume = Total(old, DOMAIN old)
      BY DEF Counted, old
    <2> QED BY <1>1, <1>4, <1>5, <1>6, <2>1
  <1>11. r.funders = Sources(new) /\ r.funderCount = Cardinality(Sources(new))
    <2>1. s.funders = Sources(old) /\ s.funderCount = Cardinality(Sources(old))
      BY DEF Counted, old
    <2>2. IsFiniteSet(Sources(old))
      <3>1. s.funders \in SUBSET Payers
        BY StoreFields
      <3> QED BY <2>1, <3>1, FS_Subset, FinitelyMany
    <2>3. Cardinality(Sources(old) \cup {it.source}) =
             IF it.source \in Sources(old) THEN Cardinality(Sources(old))
             ELSE Cardinality(Sources(old)) + 1
      BY <2>2, FS_AddElement
    <2> QED BY <1>1, <1>4, <1>5, <2>1, <2>3
  <1>12. Fair(r)
    <2>1. /\ \A i \in DOMAIN old : new[i] = old[i]
          /\ new[n] = rec
      BY <1>1, <1>2, Appended
    <2>2. rec.fee * 10000 <= rec.amount * MaxFeeBps
      BY <1>0, <1>1 DEF Bounded
    <2>3. \A i \in DOMAIN old : old[i].fee * 10000 <= old[i].amount * MaxFeeBps
      BY DEF Fair, old
    <2>4. \A i \in DOMAIN new : new[i].fee * 10000 <= new[i].amount * MaxFeeBps
      BY <1>5, <2>1, <2>2, <2>3
    <2> QED BY <2>4 DEF Fair, new
  <1> QED BY <1>7, <1>8, <1>9, <1>10, <1>11, <1>12 DEF Counted, new

-------------------------------------------------------------------------------
\* What a holder has of all tokens, where the balance of one token changed.
LEMMA HeldChanged ==
  ASSUME NEW bal \in Balances, NEW new \in Balances, NEW h \in Holders, NEW tok \in Tokens,
         \A t \in Tokens : t # tok => new[<<h, t>>] = bal[<<h, t>>]
  PROVE  /\ Held(new, h) = Held(bal, h) - bal[<<h, tok>>] + new[<<h, tok>>]
         /\ Held(bal, h) \in Nat /\ bal[<<h, tok>>] \in Nat /\ new[<<h, tok>>] \in Nat
  <1> DEFINE was == [t \in Tokens |-> bal[<<h, t>>]]
             now == [t \in Tokens |-> new[<<h, t>>]]
  <1>1. /\ \A t \in Tokens : was[t] \in Nat /\ now[t] \in Nat
        /\ \A t \in Tokens : t # tok => now[t] = was[t]
        /\ was[tok] = bal[<<h, tok>>] /\ now[tok] = new[<<h, tok>>]
    BY DEF Balances
  <1>2. Held(bal, h) = SumFunctionOnSet(was, Tokens) /\ Held(new, h) = SumFunctionOnSet(now, Tokens)
    BY DEF Held
  <1>3. IsFiniteSet(Tokens)
    BY PartiesAssumption
  <1> HIDE DEF was, now
  <1>4. \A t \in Tokens : was[t] \in Int /\ now[t] \in Int
    BY <1>1
  <1>5. SumFunctionOnSet(now, Tokens) = SumFunctionOnSet(was, Tokens) - was[tok] + now[tok]
    BY <1>1, <1>3, <1>4, SumChanged
  <1>6. SumFunctionOnSet(was, Tokens) \in Nat
    BY <1>1, <1>3, SumOfNaturals
  <1> QED BY <1>1, <1>2, <1>5, <1>6

LEMMA HeldKept ==
  ASSUME NEW bal \in Balances, NEW new \in Balances, NEW h \in Holders,
         \A t \in Tokens : new[<<h, t>>] = bal[<<h, t>>]
  PROVE  Held(new, h) = Held(bal, h)
  <1>1. [t \in Tokens |-> bal[<<h, t>>]] = [t \in Tokens |-> new[<<h, t>>]]
    OBVIOUS
  <1> QED BY <1>1 DEF Held

\* One transfer, from an account to any, itself included.
Credit(h, to, amount) == IF h = to THEN amount ELSE 0

MovedTo(bal, tok, from, to, amount, r) ==
    /\ r \in Balances
    /\ \A h \in Holders, t \in Tokens : t # tok => r[<<h, t>>] = bal[<<h, t>>]
    /\ \A h \in Holders : r[<<h, tok>>] =
           bal[<<h, tok>>] - Credit(h, from, amount) + Credit(h, to, amount)

LEMMA MovedFields ==
  ASSUME NEW bal \in Balances, NEW tok \in Tokens, NEW from \in Holders, NEW to \in Holders,
         NEW amount \in Nat, amount <= bal[<<from, tok>>],
         NEW r, r = Moved(bal, tok, from, to, amount)
  PROVE  MovedTo(bal, tok, from, to, amount, r)
  <1> DEFINE D == Holders \X Tokens
             a == <<from, tok>>
             b == <<to, tok>>
             debited == [bal EXCEPT ![a] = @ - amount]
  <1>1. /\ a \in D /\ b \in D /\ bal \in [D -> Nat] /\ amount <= bal[a]
        /\ \A h \in Holders, t \in Tokens : /\ <<h, t>> \in D
                                            /\ t # tok => <<h, t>> # a /\ <<h, t>> # b
        /\ \A h \in Holders : (<<h, tok>> = a <=> h = from) /\ (<<h, tok>> = b <=> h = to)
    BY DEF Balances
  <1>2. r = [debited EXCEPT ![b] = @ + amount]
    BY DEF Moved
  <1> HIDE DEF D, a, b
  <1>3. /\ debited \in [D -> Nat]
        /\ \A x \in D : debited[x] = IF x = a THEN bal[x] - amount ELSE bal[x]
    <2>1. bal[a] - amount \in Nat
      BY <1>1
    <2> QED BY <1>1, <2>1
  <1> HIDE DEF debited
  <1>4. /\ r \in [D -> Nat]
        /\ \A x \in D : r[x] = IF x = b THEN debited[x] + amount ELSE debited[x]
    <2>1. debited[b] + amount \in Nat
      BY <1>1, <1>3
    <2> QED BY <1>1, <1>2, <1>3, <2>1
  <1>5. r \in Balances
    BY <1>4 DEF Balances, D
  <1>6. \A h \in Holders, t \in Tokens : t # tok => r[<<h, t>>] = bal[<<h, t>>]
    BY <1>1, <1>3, <1>4
  <1>7. ASSUME NEW h \in Holders
        PROVE  r[<<h, tok>>] = bal[<<h, tok>>] - Credit(h, from, amount) + Credit(h, to, amount)
    <2> DEFINE x == <<h, tok>>
    <2>1. x \in D /\ (x = a <=> h = from) /\ (x = b <=> h = to)
      BY <1>1
    <2> HIDE DEF x
    <2>2. bal[x] \in Nat
      BY <1>1, <2>1
    <2>3. r[x] = bal[x] - Credit(h, from, amount) + Credit(h, to, amount)
      BY <1>3, <1>4, <2>1, <2>2 DEF Credit
    <2> QED BY <2>3 DEF x
  <1> QED BY <1>5, <1>6, <1>7 DEF MovedTo

\* The balances after a funding: the target and the source may be the contract itself.
PaidTo(s, bal, it, r) ==
    /\ r \in Balances
    /\ \A h \in Holders, t \in Tokens : t # it.token => r[<<h, t>>] = bal[<<h, t>>]
    /\ \A h \in Holders : r[<<h, it.token>>] =
           bal[<<h, it.token>>] - Credit(h, it.source, it.amount) + Credit(h, Bridge, Fee(s, it))
               + Credit(h, it.target, it.amount - Fee(s, it))

LEMMA PaidFields ==
  ASSUME NEW s \in Store, Capped(s), NEW bal \in Balances, NEW it \in Item, it.target \in Wallets,
         Accepts(bal, it), NEW r, r = Paid(s, bal, it)
  PROVE  PaidTo(s, bal, it, r)
  <1> DEFINE mid == Moved(bal, it.token, it.source, Bridge, it.amount)
             tok == it.token
             a == it.amount
             fee == Fee(s, it)
             net == a - fee
             src == it.source
             tgt == it.target
  <1>1. src \in Payers /\ tok \in Tokens /\ a \in Nat /\ a <= bal[<<src, tok>>]
    BY ItemFields DEF Accepts
  <1>2. fee \in Nat /\ fee <= a
    <2>1. Bounded(s, it)
      BY FeeIsBounded, Zenon
    <2> QED BY <2>1 DEF Bounded
  <1>3. src \in Holders /\ Bridge \in Holders /\ tgt \in Holders
    BY <1>1 DEF Holders, Payers
  <1>5. r = Moved(mid, tok, Bridge, tgt, net)
    BY DEF Paid
  <1>6. MovedTo(bal, tok, src, Bridge, a, mid)
    BY <1>1, <1>3, MovedFields, Zenon
  <1> HIDE DEF mid, tok, a, fee, src, tgt
  <1>7. /\ mid \in Balances
        /\ \A h \in Holders, t \in Tokens : t # tok => mid[<<h, t>>] = bal[<<h, t>>]
        /\ \A h \in Holders : mid[<<h, tok>>] = bal[<<h, tok>>] - Credit(h, src, a) + Credit(h, Bridge, a)
    BY <1>6, Zenon DEF MovedTo
  <1>4. \A h \in Holders : bal[<<h, tok>>] \in Nat /\ mid[<<h, tok>>] \in Nat
    BY <1>1, <1>7 DEF Balances
  <1>8. net \in Nat /\ net <= mid[<<Bridge, tok>>]
    <2>1. CASE src = Bridge
      BY <1>1, <1>2, <1>3, <1>4, <1>7, <2>1 DEF Credit
    <2>2. CASE src # Bridge
      BY <1>1, <1>2, <1>3, <1>4, <1>7, <2>2 DEF Credit
    <2> QED BY <2>1, <2>2
  <1>9. a - net = fee
    BY <1>1, <1>2
  <1> HIDE DEF net
  <1>10. MovedTo(mid, tok, Bridge, tgt, net, r)
    BY <1>1, <1>3, <1>5, <1>7, <1>8, MovedFields, Zenon
  <1>11. /\ r \in Balances
         /\ \A h \in Holders, t \in Tokens : t # tok => r[<<h, t>>] = mid[<<h, t>>]
         /\ \A h \in Holders : r[<<h, tok>>] = mid[<<h, tok>>] - Credit(h, Bridge, net) + Credit(h, tgt, net)
    BY <1>10, Zenon DEF MovedTo
  <1>12. \A h \in Holders, t \in Tokens : t # tok => r[<<h, t>>] = bal[<<h, t>>]
    BY <1>7, <1>11
  <1>13. ASSUME NEW h \in Holders
         PROVE  r[<<h, tok>>] = bal[<<h, tok>>] - Credit(h, src, a) + Credit(h, Bridge, fee)
                                    + Credit(h, tgt, net)
    <2> DEFINE b == bal[<<h, tok>>]
               m == mid[<<h, tok>>]
               n == r[<<h, tok>>]
               cs == Credit(h, src, a)
               ct == Credit(h, tgt, net)
    <2>1. /\ b \in Nat /\ m = b - cs + Credit(h, Bridge, a)
          /\ n = m - Credit(h, Bridge, net) + ct
      BY <1>4, <1>7, <1>11
    <2>2. cs \in Nat /\ ct \in Nat
      BY <1>1, <1>8 DEF Credit
    <2> HIDE DEF b, m, n, cs, ct
    <2>3. n = b - cs + Credit(h, Bridge, fee) + ct
      BY <1>1, <1>2, <1>8, <1>9, <2>1, <2>2 DEF Credit
    <2> QED BY <2>3 DEF b, n, cs, ct
  <1> QED BY <1>11, <1>12, <1>13 DEF PaidTo, tok, a, fee, net, src, tgt

\* What a holder has of all tokens after a funding.
LEMMA HeldAfterPaid ==
  ASSUME NEW s, NEW bal \in Balances, NEW it \in Item, NEW new, PaidTo(s, bal, it, new),
         NEW h \in Holders
  PROVE  /\ Held(bal, h) \in Nat /\ bal[<<h, it.token>>] \in Nat /\ new[<<h, it.token>>] \in Nat
         /\ Held(new, h) = Held(bal, h) - bal[<<h, it.token>>] + new[<<h, it.token>>]
  <1>1. it.token \in Tokens
    BY ItemFields
  <1>2. new \in Balances /\ \A t \in Tokens : t # it.token => new[<<h, t>>] = bal[<<h, t>>]
    BY DEF PaidTo
  <1> QED BY <1>1, <1>2, HeldChanged

LEMMA FundedBooks ==
  ASSUME NEW s, NEW bal, Books(s, bal), NEW it \in Item, it.target \in Wallets,
         Accepts(bal, it), NEW r, r = Funded(s, it), NEW new, new = Paid(s, bal, it)
  PROVE  Books(r, new)
  <1>1. s \in Store /\ bal \in Balances /\ Capped(s) /\ Counted(s) /\ Fair(s)
        /\ Collected(s, bal) /\ Balanced(s, bal)
    BY DEF Books
  <1>2. r \in Store /\ Capped(r) /\ RecordOf(s, it) \in FundingRecord
    BY <1>1, FundedIsStore
  <1>3. Counted(r) /\ Fair(r)
    BY <1>1, FundedIsCounted
  <1>4. FundedTo(s, it, r) /\ PaidTo(s, bal, it, new) /\ Bounded(s, it)
    BY <1>1, FundedFields, PaidFields, FeeIsBounded, Zenon
  <1>5. new \in Balances
    BY <1>4 DEF PaidTo
  <1> DEFINE old == s.records
             recs == r.records
             rec == RecordOf(s, it)
             n == Len(old) + 1
             fee == Fee(s, it)
             a == it.amount
             tok == it.token
             src == it.source
             tgt == it.target
  <1>6. src \in Payers /\ tok \in Tokens /\ a \in Nat
    BY ItemFields
  <1>7. /\ old \in Seq(FundingRecord) /\ recs = Append(old, rec) /\ n = Len(old) + 1
        /\ r.accFees = s.accFees + fee /\ s.accFees \in Nat /\ r.paidOut = s.paidOut
        /\ s.paidOut \in Balances
    BY <1>1, <1>4, StoreFields DEF FundedTo, Balances
  <1>8. /\ rec.target = tgt /\ rec.source = src /\ rec.token = tok /\ rec.amount = a
        /\ rec.fee = fee /\ ~rec.archived
    BY DEF RecordOf
  <1>9. fee \in Nat /\ fee <= a
    BY <1>4 DEF Bounded
  <1>20. /\ \A h \in Holders, t \in Tokens : t # tok => new[<<h, t>>] = bal[<<h, t>>]
         /\ \A h \in Holders : new[<<h, tok>>] =
              bal[<<h, tok>>] - Credit(h, src, a) + Credit(h, Bridge, fee) + Credit(h, tgt, a - fee)
    BY <1>4, Zenon DEF PaidTo
  <1>21. Bridge \in Holders /\ src \in Holders /\ tgt \in Holders
    BY <1>6 DEF Holders, Payers
  <1>22. \A h \in Holders : /\ Held(bal, h) \in Nat /\ bal[<<h, tok>>] \in Nat
                            /\ new[<<h, tok>>] \in Nat
                            /\ Held(new, h) = Held(bal, h) - bal[<<h, tok>>] + new[<<h, tok>>]
    BY <1>1, <1>4, HeldAfterPaid
  <1> HIDE DEF old, recs, rec, n, fee, a, tok, src, tgt
  <1>10. /\ To(recs) = IF tgt = Bridge THEN To(old) \cup {n} ELSE To(old)
         /\ From(recs) = IF src = Bridge THEN From(old) \cup {n} ELSE From(old)
         /\ \A h, t : By(recs, h, t) = IF src = h /\ tok = t
                                       THEN By(old, h, t) \cup {n} ELSE By(old, h, t)
         /\ \A h, t : For(recs, h, t) = IF tgt = h /\ tok = t
                                        THEN For(old, h, t) \cup {n} ELSE For(old, h, t)
         /\ DOMAIN recs = DOMAIN old \cup {n}
         /\ To(old) \in SUBSET DOMAIN old /\ From(old) \in SUBSET DOMAIN old
         /\ \A h, t : By(old, h, t) \in SUBSET DOMAIN old
         /\ \A h, t : For(old, h, t) \in SUBSET DOMAIN old
    <2>1. Joined(old, rec, recs, n)
      BY <1>2, <1>7, <1>8, Joins, Zenon DEF rec
    <2> QED BY <1>8, <2>1 DEF Joined
  <1>11. \A X \in SUBSET DOMAIN old : /\ Total(recs, X) = Total(old, X)
                                      /\ Total(recs, X \cup {n}) = Total(old, X) + a
                                      /\ Charged(recs, X) = Charged(old, X)
                                      /\ Charged(recs, X \cup {n}) = Charged(old, X) + fee
    <2>1. \A X \in SUBSET DOMAIN old : Grown(old, rec, recs, n, X)
      BY <1>2, <1>7, OneMore, Zenon DEF rec
    <2> QED BY <1>8, <2>1 DEF Grown
  <1>12. \A X \in SUBSET DOMAIN old : Total(old, X) \in Nat /\ Charged(old, X) \in Nat
    BY <1>7, TotalsAreNumbers
  <1>15. /\ s.accFees + SumFunctionOnSet(s.paidOut, Holders \X Tokens) = Charged(old, DOMAIN old)
         /\ Held(bal, Bridge) = s.accFees + Held(s.paidOut, Bridge) + Total(old, To(old))
                                    - Charged(old, To(old)) - Total(old, From(old))
    BY <1>1 DEF Collected, old
  <1>16. r.accFees + SumFunctionOnSet(r.paidOut, Holders \X Tokens) = Charged(recs, DOMAIN recs)
    <2> DEFINE paid == SumFunctionOnSet(s.paidOut, Holders \X Tokens)
    <2>1. paid \in Int
      <3>1. \A x \in Holders \X Tokens : s.paidOut[x] \in Int
        BY <1>7 DEF Balances
      <3> QED BY <3>1, FinitelyMany, SumType
    <2>2. Charged(recs, DOMAIN recs) = Charged(old, DOMAIN old) + fee /\ s.accFees + paid = Charged(old, DOMAIN old)
      BY <1>10, <1>11, <1>15
    <2> HIDE DEF paid
    <2>3. r.accFees + paid = Charged(recs, DOMAIN recs)
      BY <1>7, <1>9, <2>1, <2>2
    <2> QED BY <1>7, <2>3 DEF paid
  <1>17. Held(new, Bridge) = r.accFees + Held(r.paidOut, Bridge) + Total(recs, To(recs))
                                 - Charged(recs, To(recs)) - Total(recs, From(recs))
    <2> DEFINE was == Held(bal, Bridge)
               now == Held(new, Bridge)
               back == Held(s.paidOut, Bridge)
               to == Total(old, To(old))
               fees == Charged(old, To(old))
               from == Total(old, From(old))
    <2>1. now = was - Credit(Bridge, src, a) + fee + Credit(Bridge, tgt, a - fee)
      <3> DEFINE b == bal[<<Bridge, tok>>]
                 m == new[<<Bridge, tok>>]
                 cs == Credit(Bridge, src, a)
                 ct == Credit(Bridge, tgt, a - fee)
      <3>1. b \in Nat /\ m \in Nat /\ was \in Nat /\ now = was - b + m /\ m = b - cs + fee + ct
        BY <1>20, <1>21, <1>22 DEF Credit
      <3>2. cs \in Nat /\ ct \in Nat
        BY <1>6, <1>9 DEF Credit
      <3> HIDE DEF b, m, cs, ct, was, now
      <3>3. now = was - cs + fee + ct
        BY <1>9, <3>1, <3>2
      <3> QED BY <3>3 DEF cs, ct
    <2>2. was = s.accFees + back + to - fees - from
      BY <1>15
    <2>3. was \in Nat /\ back \in Int /\ to \in Nat /\ fees \in Nat /\ from \in Nat
      <3>1. \A t \in Tokens : s.paidOut[<<Bridge, t>>] \in Int
        BY <1>7, <1>21 DEF Balances
      <3>2. Held(s.paidOut, Bridge) \in Int
        BY <3>1, FinitelyMany, SumType DEF Held
      <3> QED BY <1>10, <1>12, <1>21, <1>22, <3>2
    <2>4. /\ Total(recs, To(recs)) = to + Credit(Bridge, tgt, a)
          /\ Charged(recs, To(recs)) = fees + Credit(Bridge, tgt, fee)
          /\ Total(recs, From(recs)) = from + Credit(Bridge, src, a)
      <3>1. /\ Total(recs, To(old)) = to /\ Total(recs, To(old) \cup {n}) = to + a
            /\ Charged(recs, To(old)) = fees /\ Charged(recs, To(old) \cup {n}) = fees + fee
            /\ Total(recs, From(old)) = from /\ Total(recs, From(old) \cup {n}) = from + a
        BY <1>10, <1>11
      <3>2. /\ To(recs) = IF tgt = Bridge THEN To(old) \cup {n} ELSE To(old)
            /\ From(recs) = IF src = Bridge THEN From(old) \cup {n} ELSE From(old)
        BY <1>10
      <3>3. to + 0 = to /\ fees + 0 = fees /\ from + 0 = from
        BY <2>3
      <3> HIDE DEF to, fees, from
      <3>4. CASE tgt = Bridge
        BY <3>1, <3>2, <3>3, <3>4 DEF Credit
      <3>5. CASE tgt # Bridge
        BY <3>1, <3>2, <3>3, <3>5 DEF Credit
      <3> QED BY <3>4, <3>5
    <2> HIDE DEF was, now, back, to, fees, from
    <2> DEFINE to2 == Total(recs, To(recs))
               fees2 == Charged(recs, To(recs))
               from2 == Total(recs, From(recs))
               acc2 == r.accFees
    <2>5. acc2 = s.accFees + fee /\ s.accFees \in Nat
      BY <1>7
    <2>6. /\ to2 = to + Credit(Bridge, tgt, a) /\ fees2 = fees + Credit(Bridge, tgt, fee)
          /\ from2 = from + Credit(Bridge, src, a)
      BY <2>4
    <2> HIDE DEF to2, fees2, from2, acc2
    <2>7. now = acc2 + back + to2 - fees2 - from2
      <3>1. CASE src = Bridge /\ tgt = Bridge
        <4>1. Credit(Bridge, src, a) = a /\ Credit(Bridge, tgt, a) = a
              /\ Credit(Bridge, tgt, fee) = fee /\ Credit(Bridge, tgt, a - fee) = a - fee
          BY <3>1 DEF Credit
        <4> QED BY <1>6, <1>9, <2>1, <2>2, <2>3, <2>5, <2>6, <4>1
      <3>2. CASE src = Bridge /\ tgt # Bridge
        <4>1. Credit(Bridge, src, a) = a /\ Credit(Bridge, tgt, a) = 0
              /\ Credit(Bridge, tgt, fee) = 0 /\ Credit(Bridge, tgt, a - fee) = 0
          BY <3>2 DEF Credit
        <4> QED BY <1>6, <1>9, <2>1, <2>2, <2>3, <2>5, <2>6, <4>1
      <3>3. CASE src # Bridge /\ tgt = Bridge
        <4>1. Credit(Bridge, src, a) = 0 /\ Credit(Bridge, tgt, a) = a
              /\ Credit(Bridge, tgt, fee) = fee /\ Credit(Bridge, tgt, a - fee) = a - fee
          BY <3>3 DEF Credit
        <4> QED BY <1>6, <1>9, <2>1, <2>2, <2>3, <2>5, <2>6, <4>1
      <3>4. CASE src # Bridge /\ tgt # Bridge
        <4>1. Credit(Bridge, src, a) = 0 /\ Credit(Bridge, tgt, a) = 0
              /\ Credit(Bridge, tgt, fee) = 0 /\ Credit(Bridge, tgt, a - fee) = 0
          BY <3>4 DEF Credit
        <4> QED BY <1>6, <1>9, <2>1, <2>2, <2>3, <2>5, <2>6, <4>1
      <3> QED BY <3>1, <3>2, <3>3, <3>4
    <2> QED BY <1>7, <2>7 DEF now, back, to2, fees2, from2, acc2
  <1>18. Collected(r, new)
    BY <1>16, <1>17 DEF Collected, recs
  <1>19. Balanced(r, new)
    <2>1. ASSUME NEW h \in Holders \ {Bridge}, NEW t \in Tokens
          PROVE  Even(recs, new, s.paidOut, h, t)
      <3> DEFINE b == bal[<<h, t>>]
                 m == new[<<h, t>>]
                 by == Total(old, By(old, h, t))
                 for == Total(old, For(old, h, t))
                 fees == Charged(old, For(old, h, t))
                 paid == s.paidOut[<<h, t>>]
                 by2 == Total(recs, By(recs, h, t))
                 for2 == Total(recs, For(recs, h, t))
                 fees2 == Charged(recs, For(recs, h, t))
      <3>1. b + by = First(h) + paid + for - fees
        BY <1>1 DEF Balanced, Even, old
      <3>2. /\ b \in Nat /\ by \in Nat /\ for \in Nat /\ fees \in Nat /\ paid \in Nat
        BY <1>1, <1>7, <1>10, <1>12 DEF Balances
      <3>5. First(h) \in Nat
        BY NumbersAssumption DEF First
      <3>6. /\ Total(recs, By(old, h, t)) = by /\ Total(recs, By(old, h, t) \cup {n}) = by + a
            /\ Total(recs, For(old, h, t)) = for /\ Total(recs, For(old, h, t) \cup {n}) = for + a
            /\ Charged(recs, For(old, h, t)) = fees
            /\ Charged(recs, For(old, h, t) \cup {n}) = fees + fee
        BY <1>10, <1>11
      <3>7. /\ By(recs, h, t) = IF src = h /\ tok = t THEN By(old, h, t) \cup {n} ELSE By(old, h, t)
            /\ For(recs, h, t) = IF tgt = h /\ tok = t THEN For(old, h, t) \cup {n} ELSE For(old, h, t)
        BY <1>10
      <3>8. t # tok => m = b
        BY <1>20
      <3>9. t = tok => m = b - Credit(h, src, a) + Credit(h, Bridge, fee) + Credit(h, tgt, a - fee)
        BY <1>20
      <3>10. Credit(h, Bridge, fee) = 0
        BY DEF Credit
      <3> HIDE DEF b, m, by, for, fees, paid
      <3>11. CASE t # tok
        <4>1. by2 = by /\ for2 = for /\ fees2 = fees
          BY <3>6, <3>7, <3>11
        <4> QED BY <3>1, <3>8, <3>11, <4>1 DEF Even, b, m, paid
      <3>12. CASE t = tok
        <4>1. CASE src = h /\ tgt = h
          <5>1. m = b - a + 0 + (a - fee)
            BY <3>9, <3>10, <3>12, <4>1 DEF Credit
          <5>2. by2 = by + a /\ for2 = for + a /\ fees2 = fees + fee
            BY <3>6, <3>7, <3>12, <4>1
          <5> HIDE DEF by2, for2, fees2
          <5>3. m + by2 = First(h) + paid + for2 - fees2
            BY <1>6, <1>9, <3>1, <3>2, <3>5, <5>1, <5>2
          <5> QED BY <5>3 DEF Even, m, paid, by2, for2, fees2
        <4>2. CASE src = h /\ tgt # h
          <5>1. m = b - a + 0 + 0
            BY <3>9, <3>10, <3>12, <4>2 DEF Credit
          <5>2. by2 = by + a /\ for2 = for /\ fees2 = fees
            BY <3>6, <3>7, <3>12, <4>2
          <5> HIDE DEF by2, for2, fees2
          <5>3. m + by2 = First(h) + paid + for2 - fees2
            BY <1>6, <1>9, <3>1, <3>2, <3>5, <5>1, <5>2
          <5> QED BY <5>3 DEF Even, m, paid, by2, for2, fees2
        <4>3. CASE src # h /\ tgt = h
          <5>1. m = b - 0 + 0 + (a - fee)
            BY <3>9, <3>10, <3>12, <4>3 DEF Credit
          <5>2. by2 = by /\ for2 = for + a /\ fees2 = fees + fee
            BY <3>6, <3>7, <3>12, <4>3
          <5> HIDE DEF by2, for2, fees2
          <5>3. m + by2 = First(h) + paid + for2 - fees2
            BY <1>6, <1>9, <3>1, <3>2, <3>5, <5>1, <5>2
          <5> QED BY <5>3 DEF Even, m, paid, by2, for2, fees2
        <4>4. CASE src # h /\ tgt # h
          <5>1. m = b - 0 + 0 + 0
            BY <3>9, <3>10, <3>12, <4>4 DEF Credit
          <5>2. by2 = by /\ for2 = for /\ fees2 = fees
            BY <3>6, <3>7, <3>12, <4>4
          <5> HIDE DEF by2, for2, fees2
          <5>3. m + by2 = First(h) + paid + for2 - fees2
            BY <1>6, <1>9, <3>1, <3>2, <3>5, <5>1, <5>2
          <5> QED BY <5>3 DEF Even, m, paid, by2, for2, fees2
        <4> QED BY <4>1, <4>2, <4>3, <4>4
      <3> QED BY <3>11, <3>12
    <2> QED BY <1>7, <2>1 DEF Balanced, recs
  <1> QED BY <1>2, <1>3, <1>5, <1>18, <1>19 DEF Books

-------------------------------------------------------------------------------
(* The arms of execute. *)

\* A new configuration of fees leaves the books alone.
SameBooks(s, r) ==
    /\ r.records = s.records /\ r.accFees = s.accFees
    /\ r.userVolume = s.userVolume /\ r.volumeByToken = s.volumeByToken
    /\ r.totalVolume = s.totalVolume /\ r.hotCount = s.hotCount
    /\ r.funders = s.funders /\ r.funderCount = s.funderCount /\ r.paidOut = s.paidOut

LEMMA Reconfigured ==
  ASSUME NEW s, NEW bal, Books(s, bal), NEW r \in Store, Capped(r), SameBooks(s, r)
  PROVE  Books(r, bal)
  <1>1. Counted(r) /\ Fair(r)
    BY DEF Books, SameBooks, Counted, Fair
  <1>2. Collected(r, bal) /\ Balanced(r, bal)
    BY DEF Books, SameBooks, Collected, Balanced
  <1> QED BY <1>1, <1>2 DEF Books

\* The fields of a store in which one of them is replaced.
LEMMA SetFeeKeeps ==
  ASSUME Books(store, balance), NEW fee \in FeeChoices, SetFee(fee)
  PROVE  Books(store', balance')
  <1>1. store \in Store /\ Capped(store)
    BY DEF Books
  <1>2. /\ store' = [store EXCEPT !.feeBps = fee] /\ fee \in Nat /\ fee <= MaxFeeBps
        /\ balance' = balance
    BY NumbersAssumption DEF SetFee
  <1>3. store' \in Store /\ SameBooks(store, store')
    BY <1>1, <1>2 DEF Store, SameBooks
  <1>4. Capped(store')
    BY <1>1, <1>2 DEF Store, Capped
  <1> QED BY <1>2, <1>3, <1>4, Reconfigured

LEMMA SetFeeTokenWhitelistKeeps ==
  ASSUME Books(store, balance), NEW tok \in Tokens, NEW on, SetFeeTokenWhitelist(tok, on)
  PROVE  Books(store', balance')
  <1>1. store \in Store /\ Capped(store)
    BY DEF Books
  <1> DEFINE w == IF on THEN store.whitelist \cup {tok} ELSE store.whitelist \ {tok}
  <1>2. /\ store' = [store EXCEPT !.whitelist = w] /\ balance' = balance
        /\ w \in SUBSET Tokens
    BY <1>1, StoreFields DEF SetFeeTokenWhitelist
  <1> HIDE DEF w
  <1>3. store' \in Store /\ SameBooks(store, store')
    BY <1>1, <1>2 DEF Store, SameBooks
  <1>4. Capped(store')
    BY <1>1, <1>2 DEF Store, Capped
  <1> QED BY <1>2, <1>3, <1>4, Reconfigured

LEMMA SetFeeTokenRateKeeps ==
  ASSUME Books(store, balance), NEW tok \in Tokens, NEW rate \in RateChoices,
         SetFeeTokenRate(tok, rate)
  PROVE  Books(store', balance')
  <1>1. store \in Store /\ Capped(store) /\ store.rate \in [Tokens -> Nat]
    BY StoreFields DEF Books
  <1>2. /\ store' = [store EXCEPT !.rate[tok] = rate] /\ rate \in Nat /\ balance' = balance
    BY NumbersAssumption DEF SetFeeTokenRate
  <1> DEFINE w == [store.rate EXCEPT ![tok] = rate]
  <1>3. store' = [store EXCEPT !.rate = w] /\ w \in [Tokens -> Nat]
    BY <1>1, <1>2
  <1> HIDE DEF w
  <1>4. store' \in Store /\ SameBooks(store, store')
    BY <1>1, <1>3 DEF Store, SameBooks
  <1>5. Capped(store')
    BY <1>1, <1>3 DEF Store, Capped
  <1> QED BY <1>2, <1>4, <1>5, Reconfigured

LEMMA SetPausedKeeps ==
  ASSUME Books(store, balance), NEW value \in BOOLEAN, SetPaused(value)
  PROVE  Books(store', balance')
  <1>1. store \in Store /\ Capped(store)
    BY DEF Books
  <1>2. store' = [store EXCEPT !.paused = value] /\ balance' = balance
    BY DEF SetPaused
  <1>3. store' \in Store
    BY <1>1, <1>2, Zenon DEF Store
  <1>4. SameBooks(store, store')
    BY <1>1, <1>2 DEF Store, SameBooks
  <1>5. Capped(store')
    BY <1>1, <1>2 DEF Store, Capped
  <1> QED BY <1>2, <1>3, <1>4, <1>5, Reconfigured

LEMMA SetRebateTierKeeps ==
  ASSUME Books(store, balance), NEW t \in TierChoices, SetRebateTier(t)
  PROVE  Books(store', balance')
  <1>1. store \in Store /\ Capped(store)
    BY DEF Books
  <1> DEFINE new == [threshold |-> t.threshold, discount |-> t.discount]
             tiers == [store.tiers EXCEPT ![t.index] = new]
             count == IF t.index >= store.tierCount THEN t.index + 1 ELSE store.tierCount
  <1>2. /\ t.index \in Nat /\ t.discount \in Nat /\ t.threshold \in Nat
        /\ t.discount <= 5000 /\ t.index < MaxTiers /\ MaxTiers \in Nat
    <2>1. t \in [index : Nat, threshold : Nat, discount : Nat]
      BY NumbersAssumption
    <2> QED BY <2>1, NumbersAssumption DEF SetRebateTier
  <1>3. t.index \in 0..(MaxTiers - 1)
    BY <1>2
  <1>4. /\ new \in Tier /\ new.discount = t.discount
        /\ store.tiers \in [0..(MaxTiers - 1) -> Tier] /\ store.tierCount \in Nat
    BY <1>1, <1>2, StoreFields DEF Tier
  <1>5. count \in Nat
    BY <1>2, <1>4
  <1>6. store' = [store EXCEPT !.tiers = tiers, !.tierCount = count] /\ balance' = balance
    BY <1>1 DEF SetRebateTier
  <1> HIDE DEF new, count
  <1>7. /\ tiers \in [0..(MaxTiers - 1) -> Tier]
        /\ \A i \in 0..(MaxTiers - 1) : tiers[i] = IF i = t.index THEN new ELSE store.tiers[i]
    BY <1>3, <1>4
  <1> HIDE DEF tiers
  <1>8. store' \in Store /\ SameBooks(store, store')
    BY <1>1, <1>5, <1>6, <1>7 DEF Store, SameBooks
  <1>9. Capped(store')
    <2>1. store'.tiers = tiers /\ store'.feeBps = store.feeBps
      BY <1>1, <1>6 DEF Store
    <2>2. \A i \in 0..(MaxTiers - 1) : tiers[i].discount <= 5000
      BY <1>1, <1>2, <1>4, <1>7 DEF Capped
    <2> QED BY <1>1, <2>1, <2>2 DEF Capped
  <1> QED BY <1>6, <1>8, <1>9, Reconfigured

\* What is paid out is taken off the counter of fees, to whomever it goes.
LEMMA WithdrawFeesKeeps ==
  ASSUME Books(store, balance), NEW to \in Recipients, NEW tok \in Tokens,
         NEW amount \in WithdrawChoices, WithdrawFees(to, tok, amount)
  PROVE  Books(store', balance')
  <1>1. /\ store \in Store /\ balance \in Balances /\ Capped(store) /\ Counted(store)
        /\ Collected(store, balance) /\ Balanced(store, balance) /\ Fair(store)
    BY DEF Books
  <1> DEFINE ofToken == IF amount = 0 THEN store.accByToken[tok] ELSE amount
             paid == IF amount = 0 THEN store.accFees ELSE amount
             counters == [store.accByToken EXCEPT ![tok] = @ - ofToken]
             fees == store.accFees - paid
             k == <<to, tok>>
             was == store.paidOut
             out == [was EXCEPT ![k] = @ + paid]
             recs == store.records
             D == Holders \X Tokens
  <1>2. /\ amount \in Nat /\ store.accByToken \in [Tokens -> Nat] /\ store.accFees \in Nat
        /\ was \in [D -> Nat] /\ recs \in Seq(FundingRecord)
    <2>1. amount \in Nat
      BY NumbersAssumption
    <2> QED BY <1>1, <2>1, StoreFields
  <1>3. /\ ofToken \in Nat /\ ofToken <= store.accByToken[tok]
        /\ paid \in Nat /\ paid <= store.accFees /\ paid <= balance[<<Bridge, tok>>]
    BY <1>2 DEF WithdrawFees
  <1>4. store' = [store EXCEPT !.accByToken = counters, !.accFees = fees, !.paidOut = out]
    BY <1>1 DEF WithdrawFees
  <1>5. balance' = Moved(balance, tok, Bridge, to, paid)
    BY DEF WithdrawFees
  <1> HIDE DEF ofToken, paid
  <1>6. counters \in [Tokens -> Nat]
    <2>1. store.accByToken[tok] - ofToken \in Nat
      BY <1>2, <1>3
    <2> QED BY <1>2, <2>1
  <1>7. fees \in Nat
    BY <1>2, <1>3
  <1> HIDE DEF counters
  <1>11. Bridge \in Holders /\ to \in Holders /\ k \in D
    BY DEF Holders, Payers
  <1>18. /\ \A h \in Holders, t \in Tokens : <<h, t>> \in D
         /\ \A h \in Holders, t \in Tokens : <<h, t>> = k <=> h = to /\ t = tok
    OBVIOUS
  <1> HIDE DEF D, k, was, recs
  <1>19. /\ out \in [D -> Nat] /\ out[k] = was[k] + paid
         /\ \A x \in D : x # k => out[x] = was[x]
    <2>1. was[k] + paid \in Nat
      BY <1>2, <1>3, <1>11
    <2> QED BY <1>2, <1>11, <2>1
  <1> HIDE DEF out
  <1>8. store' \in Store
    <2>1. [Holders \X Tokens -> Nat] = [D -> Nat]
      BY DEF D
    <2> HIDE DEF fees
    <2> QED BY <1>1, <1>4, <1>6, <1>7, <1>19, <2>1 DEF Store
  <1>9. /\ store'.accFees = fees /\ store'.records = recs /\ store'.paidOut = out
        /\ store'.userVolume = store.userVolume /\ store'.volumeByToken = store.volumeByToken
        /\ store'.totalVolume = store.totalVolume /\ store'.hotCount = store.hotCount
        /\ store'.funders = store.funders /\ store'.funderCount = store.funderCount
        /\ store'.feeBps = store.feeBps /\ store'.tiers = store.tiers
    <2> HIDE DEF fees
    <2> QED BY <1>1, <1>4 DEF Store, recs
  <1>10. Capped(store') /\ Counted(store') /\ Fair(store')
    BY <1>1, <1>9 DEF Capped, Counted, Fair, recs
  <1>12. MovedTo(balance, tok, Bridge, to, paid, balance')
    BY <1>1, <1>3, <1>5, <1>11, MovedFields, Zenon
  <1>13. /\ balance' \in Balances
         /\ \A h \in Holders, t \in Tokens : t # tok => balance'[<<h, t>>] = balance[<<h, t>>]
         /\ \A h \in Holders : balance'[<<h, tok>>] =
               balance[<<h, tok>>] - Credit(h, Bridge, paid) + Credit(h, to, paid)
    BY <1>12, Zenon DEF MovedTo
  <1>14. /\ Held(balance', Bridge) = Held(balance, Bridge) - paid + Credit(Bridge, to, paid)
         /\ Held(balance, Bridge) \in Nat
    <2>1. \A t \in Tokens : t # tok => balance'[<<Bridge, t>>] = balance[<<Bridge, t>>]
      BY <1>11, <1>13
    <2>2. /\ Held(balance', Bridge) = Held(balance, Bridge) - balance[<<Bridge, tok>>]
                                       + balance'[<<Bridge, tok>>]
          /\ Held(balance, Bridge) \in Nat /\ balance[<<Bridge, tok>>] \in Nat
      BY <1>1, <1>11, <1>13, <2>1, HeldChanged
    <2>3. balance'[<<Bridge, tok>>] = balance[<<Bridge, tok>>] - paid + Credit(Bridge, to, paid)
      BY <1>11, <1>13 DEF Credit
    <2>4. Credit(Bridge, to, paid) \in Nat
      BY <1>3 DEF Credit
    <2> QED BY <1>3, <2>2, <2>3, <2>4
  <1>15. /\ Held(out, Bridge) = Held(was, Bridge) + Credit(Bridge, to, paid)
         /\ Held(was, Bridge) \in Nat
    <2>0. was \in Balances /\ out \in Balances
      BY <1>2, <1>19 DEF Balances, D
    <2>1. \A t \in Tokens : t # tok => out[<<Bridge, t>>] = was[<<Bridge, t>>]
      BY <1>11, <1>18, <1>19
    <2>2. /\ Held(out, Bridge) = Held(was, Bridge) - was[<<Bridge, tok>>] + out[<<Bridge, tok>>]
          /\ Held(was, Bridge) \in Nat /\ was[<<Bridge, tok>>] \in Nat
      BY <1>11, <2>0, <2>1, HeldChanged
    <2>3. out[<<Bridge, tok>>] = was[<<Bridge, tok>>] + Credit(Bridge, to, paid)
      <3>1. CASE to = Bridge
        BY <1>18, <1>19, <3>1 DEF Credit, k
      <3>2. CASE to # Bridge
        BY <1>11, <1>18, <1>19, <2>2, <3>2 DEF Credit
      <3> QED BY <3>1, <3>2
    <2>4. Credit(Bridge, to, paid) \in Nat
      BY <1>3 DEF Credit
    <2> QED BY <2>2, <2>3, <2>4
  <1>20. /\ SumFunctionOnSet(out, D) = SumFunctionOnSet(was, D) + paid
         /\ SumFunctionOnSet(was, D) \in Int
    <2>1. IsFiniteSet(D) /\ \A x \in D : was[x] \in Int /\ out[x] \in Int
      BY <1>2, <1>19, FinitelyMany DEF D
    <2>2. SumFunctionOnSet(out, D) = SumFunctionOnSet(was, D) - was[k] + out[k]
      BY <1>11, <1>19, <2>1, SumChanged
    <2>3. SumFunctionOnSet(was, D) \in Int
      BY <2>1, SumType
    <2>4. was[k] \in Int
      BY <1>11, <2>1
    <2> QED BY <1>3, <1>19, <2>2, <2>3, <2>4
  <1>16. Collected(store', balance')
    <2> DEFINE all == Charged(recs, DOMAIN recs)
               in == Total(recs, To(recs)) - Charged(recs, To(recs))
               from == Total(recs, From(recs))
    <2>1. all \in Nat /\ in \in Int /\ from \in Nat
      <3>1. To(recs) \in SUBSET DOMAIN recs /\ From(recs) \in SUBSET DOMAIN recs
        BY DEF To, From
      <3>2. Total(recs, To(recs)) \in Nat /\ Charged(recs, To(recs)) \in Nat
        BY <1>2, <3>1, TotalsAreNumbers
      <3> QED BY <1>2, <3>1, <3>2, TotalsAreNumbers
    <2>2. /\ store.accFees + SumFunctionOnSet(was, D) = all
          /\ Held(balance, Bridge) = store.accFees + Held(was, Bridge) + Total(recs, To(recs))
                                         - Charged(recs, To(recs)) - from
      BY <1>1 DEF Collected, was, recs, D
    <2>3. fees + SumFunctionOnSet(out, D) = all
      <3> DEFINE x == SumFunctionOnSet(was, D)
                 y == SumFunctionOnSet(out, D)
                 acc == store.accFees
      <3>1. acc \in Nat /\ paid \in Nat /\ x \in Int /\ y = x + paid /\ acc + x = all
        BY <1>2, <1>3, <1>20, <2>2
      <3> HIDE DEF all, x, y, acc
      <3>2. (acc - paid) + y = all
        BY <2>1, <3>1
      <3> QED BY <3>2 DEF y, acc
    <2>4. Held(balance', Bridge) = fees + Held(out, Bridge) + Total(recs, To(recs))
                                       - Charged(recs, To(recs)) - from
      <3>1. Total(recs, To(recs)) \in Nat /\ Charged(recs, To(recs)) \in Nat
        <4>1. To(recs) \in SUBSET DOMAIN recs
          BY DEF To
        <4> QED BY <1>2, <4>1, TotalsAreNumbers
      <3>2. Credit(Bridge, to, paid) \in Nat
        BY <1>3 DEF Credit
      <3> DEFINE acc == store.accFees
                 held == Held(balance, Bridge)
                 held2 == Held(balance', Bridge)
                 back == Held(was, Bridge)
                 back2 == Held(out, Bridge)
                 c == Credit(Bridge, to, paid)
                 toSelf == Total(recs, To(recs))
                 feeSelf == Charged(recs, To(recs))
      <3>3. /\ acc \in Nat /\ paid \in Nat /\ c \in Nat /\ toSelf \in Nat /\ feeSelf \in Nat
            /\ held = acc + back + toSelf - feeSelf - from
            /\ held2 = held - paid + c /\ back2 = back + c
            /\ held \in Nat /\ back \in Nat
        BY <1>2, <1>3, <1>14, <1>15, <2>2, <3>1, <3>2
      <3> HIDE DEF from, acc, held, held2, back, back2, c, toSelf, feeSelf
      <3>4. held2 = (acc - paid) + back2 + toSelf - feeSelf - from
        BY <2>1, <3>3
      <3> QED BY <3>4 DEF acc, held2, back2, toSelf, feeSelf
    <2> HIDE DEF fees
    <2> QED BY <1>9, <2>3, <2>4 DEF Collected, D
  <1>17. Balanced(store', balance')
    <2>1. ASSUME NEW h \in Holders \ {Bridge}, NEW t \in Tokens
          PROVE  Even(recs, balance', out, h, t)
      <3> DEFINE b == balance[<<h, t>>]
                 m == balance'[<<h, t>>]
                 by == Total(recs, By(recs, h, t))
                 for == Total(recs, For(recs, h, t))
                 charged == Charged(recs, For(recs, h, t))
                 p == was[<<h, t>>]
                 q == out[<<h, t>>]
      <3>1. b + by = First(h) + p + for - charged
        BY <1>1 DEF Balanced, Even, recs, was
      <3>2. /\ b \in Nat /\ by \in Nat /\ for \in Nat /\ charged \in Nat /\ p \in Nat
        <4>1. By(recs, h, t) \in SUBSET DOMAIN recs /\ For(recs, h, t) \in SUBSET DOMAIN recs
          BY DEF By, For
        <4>2. b \in Nat /\ p \in Nat
          BY <1>1, <1>2, <1>18 DEF Balances
        <4> QED BY <1>2, <4>1, <4>2, TotalsAreNumbers
      <3>5. First(h) \in Nat
        BY NumbersAssumption DEF First
      <3>3. CASE t # tok \/ h # to
        <4>1. q = p
          BY <1>18, <1>19, <3>3
        <4>2. m = b
          <5>1. CASE t # tok
            BY <1>13, <5>1
          <5>2. CASE t = tok
            <6>1. Credit(h, Bridge, paid) = 0 /\ Credit(h, to, paid) = 0
              BY <3>3, <5>2 DEF Credit
            <6>2. m = b - 0 + 0
              BY <1>13, <5>2, <6>1
            <6> HIDE DEF b, m
            <6> QED BY <3>2, <6>2
          <5> QED BY <5>1, <5>2
        <4> HIDE DEF by, for, charged
        <4>3. m + by = First(h) + q + for - charged
          BY <3>1, <4>1, <4>2
        <4> QED BY <4>3 DEF Even, by, for, charged
      <3>4. CASE t = tok /\ h = to
        <4>1. q = p + paid
          BY <1>19, <3>4 DEF k
        <4>2. m = b + paid
          <5>1. Credit(h, Bridge, paid) = 0 /\ Credit(h, to, paid) = paid
            BY <3>4 DEF Credit
          <5>2. m = b - 0 + paid
            BY <1>13, <3>4, <5>1
          <5> HIDE DEF b, m
          <5> QED BY <1>3, <3>2, <5>2
        <4> HIDE DEF b, m, by, for, charged, p, q
        <4>3. m + by = First(h) + q + for - charged
          BY <1>3, <3>1, <3>2, <3>5, <4>1, <4>2
        <4> QED BY <4>3 DEF Even, m, by, for, charged, q
      <3> QED BY <3>3, <3>4
    <2> QED BY <1>9, <2>1 DEF Balanced
  <1> QED BY <1>8, <1>10, <1>13, <1>16, <1>17 DEF Books

\* Archiving marks records and touches nothing else of them.
Marked(old, V, new) ==
    /\ new \in Seq(FundingRecord)
    /\ AmountAt(new) = AmountAt(old) /\ FeeAt(new) = FeeAt(old)
    /\ \A f, t : By(new, f, t) = By(old, f, t)
    /\ \A t : In(new, t) = In(old, t)
    /\ \A h, t : For(new, h, t) = For(old, h, t)
    /\ To(new) = To(old) /\ From(new) = From(old) /\ Sources(new) = Sources(old)
    /\ DOMAIN new = DOMAIN old
    /\ HotIds(new) = HotIds(old) \ {i \in V \cap DOMAIN old : ~old[i].archived}

LEMMA MarkedRecords ==
  ASSUME NEW old \in Seq(FundingRecord), NEW V, NEW new,
         new = [i \in DOMAIN old |-> IF i \in V THEN [old[i] EXCEPT !.archived = TRUE] ELSE old[i]]
  PROVE  Marked(old, V, new)
  <1>1. \A i \in DOMAIN old : old[i] \in FundingRecord
    BY Records
  <1>2. \A i \in DOMAIN old :
           /\ new[i] \in FundingRecord
           /\ new[i].source = old[i].source /\ new[i].token = old[i].token
           /\ new[i].target = old[i].target
           /\ new[i].amount = old[i].amount /\ new[i].fee = old[i].fee
           /\ new[i].archived = IF i \in V THEN TRUE ELSE old[i].archived
    <2>1. \A r \in FundingRecord :
             LET m == [r EXCEPT !.archived = TRUE] IN
             /\ m \in FundingRecord /\ m.source = r.source /\ m.token = r.token
             /\ m.target = r.target /\ m.amount = r.amount /\ m.fee = r.fee /\ m.archived = TRUE
      BY DEF FundingRecord
    <2> QED BY <1>1, <2>1
  <1>3. DOMAIN new = DOMAIN old
    OBVIOUS
  <1>4. new \in Seq(FundingRecord)
    <2>1. Len(old) \in Nat /\ DOMAIN old = 1..Len(old)
      BY Records
    <2>2. new = [i \in 1..Len(old) |-> IF i \in V THEN [old[i] EXCEPT !.archived = TRUE] ELSE old[i]]
      BY <2>1
    <2>3. \A i \in 1..Len(old) : new[i] \in FundingRecord
      BY <1>2, <2>1
    <2>4. new \in [1..Len(old) -> FundingRecord]
      BY <2>2, <2>3
    <2> QED BY <2>1, <2>4, SeqDef
  <1>5. AmountAt(new) = AmountAt(old) /\ FeeAt(new) = FeeAt(old)
    BY <1>2, <1>3 DEF AmountAt, FeeAt
  <1>6. \A f, t : By(new, f, t) = By(old, f, t)
    BY <1>2, <1>3 DEF By
  <1>7. \A t : In(new, t) = In(old, t)
    BY <1>2, <1>3 DEF In
  <1>8. To(new) = To(old)
    BY <1>2, <1>3 DEF To
  <1>9. Sources(new) = Sources(old)
    BY <1>2, <1>3 DEF Sources
  <1>10. HotIds(new) = HotIds(old) \ {i \in V \cap DOMAIN old : ~old[i].archived}
    BY <1>2, <1>3 DEF HotIds
  <1>11. \A h, t : For(new, h, t) = For(old, h, t)
    BY <1>2, <1>3 DEF For
  <1>12. From(new) = From(old)
    BY <1>2, <1>3 DEF From
  <1> QED BY <1>3, <1>4, <1>5, <1>6, <1>7, <1>8, <1>9, <1>10, <1>11, <1>12 DEF Marked

LEMMA ArchiveOldEntriesKeeps ==
  ASSUME Books(store, balance), NEW count \in ArchiveChoices, ArchiveOldEntries(count)
  PROVE  Books(store', balance')
  <1>1. /\ store \in Store /\ balance \in Balances /\ Capped(store) /\ Counted(store)
        /\ Collected(store, balance) /\ Balanced(store, balance) /\ Fair(store)
    BY DEF Books
  <1> DEFINE old == store.records
             V == Visited(count)
             hot == {i \in V : ~old[i].archived}
             new == [i \in DOMAIN old |-> IF i \in V THEN [old[i] EXCEPT !.archived = TRUE]
                                          ELSE old[i]]
             left == IF store.hotCount < Cardinality(hot) THEN 0
                     ELSE store.hotCount - Cardinality(hot)
             next == ArchiveEnd(count) + 1
             runs == store.archives + 1
  <1>2. /\ store' = [store EXCEPT !.records = new, !.hotCount = left, !.archives = runs,
                                  !.nextRecord = next]
        /\ balance' = balance
    BY <1>1 DEF ArchiveOldEntries
  <1>3. /\ old \in Seq(FundingRecord) /\ Len(old) \in Nat /\ store.hotCount \in Nat
        /\ store.archives \in Nat /\ store.nextRecord \in Nat /\ count \in Nat
        /\ IsFiniteSet(DOMAIN old)
    BY <1>1, StoreFields, Records, NumbersAssumption
  <1>4. next \in Nat
    BY <1>3 DEF ArchiveEnd
  <1>5. V \in SUBSET DOMAIN old
    BY DEF Visited
  <1> HIDE DEF old, V, next
  <1>6. /\ new \in Seq(FundingRecord)
        /\ AmountAt(new) = AmountAt(old) /\ FeeAt(new) = FeeAt(old)
        /\ \A f, t : By(new, f, t) = By(old, f, t)
        /\ \A t : In(new, t) = In(old, t)
        /\ \A h, t : For(new, h, t) = For(old, h, t)
        /\ To(new) = To(old) /\ From(new) = From(old) /\ Sources(new) = Sources(old)
        /\ DOMAIN new = DOMAIN old
        /\ HotIds(new) = HotIds(old) \ {i \in V \cap DOMAIN old : ~old[i].archived}
    <2>1. Marked(old, V, new)
      BY <1>3, MarkedRecords, Zenon
    <2> HIDE DEF new
    <2> QED BY <2>1 DEF Marked
  <1>7. /\ \A i \in DOMAIN new : new[i].fee = old[i].fee /\ new[i].amount = old[i].amount
    <2> HIDE DEF new
    <2> QED BY <1>6 DEF AmountAt, FeeAt
  <1>8. hot = {i \in V \cap DOMAIN old : ~old[i].archived} /\ hot \in SUBSET HotIds(old)
    BY <1>5 DEF HotIds
  <1> HIDE DEF new, hot
  <1>9. /\ Cardinality(hot) \in Nat /\ Cardinality(hot) <= Cardinality(HotIds(old))
        /\ Cardinality(HotIds(new)) = Cardinality(HotIds(old)) - Cardinality(hot)
        /\ Cardinality(HotIds(old)) \in Nat
    <2>1. IsFiniteSet(HotIds(old)) /\ IsFiniteSet(hot)
      <3>1. HotIds(old) \in SUBSET DOMAIN old
        BY DEF HotIds
      <3> QED BY <1>3, <1>8, <3>1, FS_Subset
    <2>2. HotIds(old) \cap hot = hot /\ HotIds(new) = HotIds(old) \ hot
      BY <1>6, <1>8
    <2>3. Cardinality(hot) \in Nat /\ Cardinality(HotIds(old)) \in Nat
      BY <2>1, FS_CardinalityType
    <2>4. Cardinality(hot) <= Cardinality(HotIds(old))
      BY <1>8, <2>1, FS_Subset
    <2>5. Cardinality(HotIds(old) \ hot) = Cardinality(HotIds(old)) - Cardinality(HotIds(old) \cap hot)
      BY <2>1, FS_Difference
    <2> QED BY <2>2, <2>3, <2>4, <2>5
  <1>10. left \in Nat /\ runs \in Nat
    BY <1>3, <1>9
  <1>11. left = Cardinality(HotIds(new))
    <2>1. store.hotCount = Cardinality(HotIds(old))
      BY <1>1 DEF Counted, old
    <2> QED BY <1>9, <2>1
  <1> HIDE DEF left, runs
  <1>12. store' \in Store
    BY <1>1, <1>2, <1>4, <1>6, <1>10 DEF Store
  <1>13. /\ store'.records = new /\ store'.hotCount = left
         /\ store'.accFees = store.accFees /\ store'.paidOut = store.paidOut
         /\ store'.userVolume = store.userVolume /\ store'.volumeByToken = store.volumeByToken
         /\ store'.totalVolume = store.totalVolume
         /\ store'.funders = store.funders /\ store'.funderCount = store.funderCount
         /\ store'.feeBps = store.feeBps /\ store'.tiers = store.tiers
    BY <1>1, <1>2 DEF Store
  <1>14. Capped(store')
    BY <1>1, <1>13 DEF Capped
  <1>19. \A X : Total(new, X) = Total(old, X) /\ Charged(new, X) = Charged(old, X)
    BY <1>6 DEF Total, Charged
  <1>15. Counted(store')
    <2>1. ASSUME NEW f \in Payers, NEW t \in Tokens
          PROVE  store'.userVolume[<<f, t>>] = Total(new, By(new, f, t))
      <3>1. store.userVolume[<<f, t>>] = Total(old, By(old, f, t))
        BY <1>1 DEF Counted, old
      <3> QED BY <1>6, <1>13, <1>19, <3>1
    <2>2. ASSUME NEW t \in Tokens PROVE store'.volumeByToken[t] = Total(new, In(new, t))
      <3>1. store.volumeByToken[t] = Total(old, In(old, t))
        BY <1>1 DEF Counted, old
      <3> QED BY <1>6, <1>13, <1>19, <3>1
    <2>3. store'.totalVolume = Total(new, DOMAIN new)
      <3>1. store.totalVolume = Total(old, DOMAIN old)
        BY <1>1 DEF Counted, old
      <3> QED BY <1>6, <1>13, <1>19, <3>1
    <2>4. store'.funders = Sources(new) /\ store'.funderCount = Cardinality(Sources(new))
      <3>1. store.funders = Sources(old) /\ store.funderCount = Cardinality(Sources(old))
        BY <1>1 DEF Counted, old
      <3> QED BY <1>6, <1>13, <3>1
    <2> QED BY <1>11, <1>13, <2>1, <2>2, <2>3, <2>4 DEF Counted
  <1>16. Collected(store', balance')
    BY <1>1, <1>2, <1>6, <1>13 DEF Collected, Total, Charged, old
  <1>17. Balanced(store', balance')
    <2>1. ASSUME NEW h \in Holders \ {Bridge}, NEW t \in Tokens
          PROVE  Even(new, balance, store.paidOut, h, t)
      <3>1. Even(old, balance, store.paidOut, h, t)
        BY <1>1 DEF Balanced, old
      <3> QED BY <1>6, <1>19, <3>1 DEF Even
    <2> QED BY <1>2, <1>13, <2>1 DEF Balanced
  <1>18. Fair(store')
    BY <1>1, <1>6, <1>7, <1>13 DEF Fair, old
  <1> QED BY <1>1, <1>2, <1>12, <1>14, <1>15, <1>16, <1>17, <1>18 DEF Books

-------------------------------------------------------------------------------
(* The inductive invariant: it holds at initialize, and every call keeps it. *)
LEMMA BooksAtStart == Init => Books(store, balance)
  <1> SUFFICES ASSUME Init PROVE Books(store, balance)
    OBVIOUS
  <1>1. /\ store.feeBps \in FeeChoices /\ store.feeBps <= MaxFeeBps
        /\ store.tierCount = 0 /\ store.accFees = 0 /\ store.hotCount = 0 /\ store.totalVolume = 0
        /\ store.funderCount = 0 /\ store.nextRecord = 1 /\ store.archives = 0
        /\ store.userVolume = [x \in Payers \X Tokens |-> 0]
        /\ store.volumeByToken = [t \in Tokens |-> 0]
    BY DEF Init
  <1>16. /\ store.rate = [t \in Tokens |-> 10000]
         /\ store.tiers = [i \in 0..(MaxTiers - 1) |-> [threshold |-> 0, discount |-> 0]]
         /\ store.accByToken = [t \in Tokens |-> 0]
         /\ store.paidOut = [x \in Holders \X Tokens |-> 0]
    BY DEF Init
  <1>17. /\ store.paused = FALSE /\ store.whitelist = {} /\ store.funders = {}
         /\ store.records = <<>>
    BY DEF Init
  <1>0. store = [feeBps |-> store.feeBps, paused |-> store.paused, whitelist |-> store.whitelist,
              rate |-> store.rate, tiers |-> store.tiers, tierCount |-> store.tierCount,
              accFees |-> store.accFees, accByToken |-> store.accByToken,
              userVolume |-> store.userVolume, records |-> store.records,
              hotCount |-> store.hotCount,
              totalVolume |-> store.totalVolume, volumeByToken |-> store.volumeByToken,
              funders |-> store.funders, funderCount |-> store.funderCount,
              nextRecord |-> store.nextRecord, archives |-> store.archives,
              paidOut |-> store.paidOut]
    BY DEF Init
  <1>2. balance = [x \in Holders \X Tokens |-> IF x[1] \in Funders THEN Endowment ELSE 0]
    BY DEF Init
  <1>3. store.feeBps \in Nat /\ Endowment \in Nat
    <2>1. FeeChoices \subseteq Nat /\ Endowment \in Nat
      BY NumbersAssumption
    <2> QED BY <1>1, <2>1
  <1>4. store \in Store
    <2>1. [threshold |-> 0, discount |-> 0] \in Tier
      BY DEF Tier
    <2>2. /\ [t \in Tokens |-> 10000] \in [Tokens -> Nat]
          /\ [t \in Tokens |-> 0] \in [Tokens -> Nat]
          /\ [x \in Payers \X Tokens |-> 0] \in [Payers \X Tokens -> Nat]
          /\ [i \in 0..(MaxTiers - 1) |-> [threshold |-> 0, discount |-> 0]]
                \in [0..(MaxTiers - 1) -> Tier]
      BY <2>1
    <2>3. <<>> \in Seq(FundingRecord) /\ {} \in SUBSET Payers /\ {} \in SUBSET Tokens
      OBVIOUS
    <2>4. /\ store.tierCount \in Nat /\ store.accFees \in Nat /\ store.hotCount \in Nat
          /\ store.totalVolume \in Nat /\ store.funderCount \in Nat
          /\ store.nextRecord \in Nat /\ store.archives \in Nat
      BY <1>1
    <2>6. store.paused \in BOOLEAN /\ store.whitelist \in SUBSET Tokens /\ store.funders \in SUBSET Payers
      BY <1>17, Zenon
    <2>7. store.records \in Seq(FundingRecord)
      BY <1>17, <2>3, Zenon
    <2>5. /\ store.rate \in [Tokens -> Nat] /\ store.accByToken \in [Tokens -> Nat]
          /\ store.userVolume \in [Payers \X Tokens -> Nat]
          /\ store.volumeByToken \in [Tokens -> Nat]
          /\ store.tiers \in [0..(MaxTiers - 1) -> Tier]
          /\ store.paidOut \in [Holders \X Tokens -> Nat]
      BY <1>1, <1>16, <2>2
    <2> QED BY <1>0, <1>3, <2>4, <2>5, <2>6, <2>7 DEF Store
  <1>5. balance \in Balances
    BY <1>2, <1>3 DEF Balances
  <1>6. Capped(store)
    <2>1. \A i \in 0..(MaxTiers - 1) : store.tiers[i].discount = 0
      BY <1>16
    <2> QED BY <1>1, <2>1 DEF Capped
  <1>7. store.records = <<>> /\ DOMAIN store.records = {}
    BY <1>17
  <1>8. Cardinality({}) = 0
    BY FS_EmptySet
  <1>9. \A recs : Total(recs, {}) = 0 /\ Charged(recs, {}) = 0
    BY SumOfNone DEF Total, Charged
  <1>10. /\ HotIds(store.records) = {} /\ To(store.records) = {} /\ Sources(store.records) = {}
         /\ \A f, t : By(store.records, f, t) = {}
         /\ \A h, t : For(store.records, h, t) = {}
         /\ From(store.records) = {}
         /\ \A t : In(store.records, t) = {}
    BY <1>7 DEF HotIds, To, From, For, Sources, By, In
  <1>11. Counted(store)
    <2>1. /\ store.hotCount = 0 /\ store.totalVolume = 0 /\ store.funders = {} /\ store.funderCount = 0
          /\ store.userVolume = [x \in Payers \X Tokens |-> 0]
          /\ store.volumeByToken = [t \in Tokens |-> 0]
      BY <1>1, <1>17
    <2> QED BY <1>7, <1>8, <1>9, <1>10, <2>1 DEF Counted
  <1>12. /\ Held(balance, Bridge) = 0 /\ Held(store.paidOut, Bridge) = 0
         /\ SumFunctionOnSet(store.paidOut, Holders \X Tokens) = 0
    <2> DEFINE zero == [t \in Tokens |-> 0]
               zeros == [x \in Holders \X Tokens |-> 0]
    <2>1. Bridge \in Holders \ Funders
      BY PartiesAssumption DEF Holders, Payers
    <2>2. /\ [t \in Tokens |-> balance[<<Bridge, t>>]] = zero
          /\ [t \in Tokens |-> store.paidOut[<<Bridge, t>>]] = zero
          /\ store.paidOut = zeros
      BY <1>2, <1>16, <2>1
    <2>3. SumFunctionOnSet(zero, Tokens) = 0 /\ SumFunctionOnSet(zeros, Holders \X Tokens) = 0
      BY FinitelyMany, SumOfZeros
    <2> QED BY <2>2, <2>3 DEF Held
  <1>13. Collected(store, balance)
    <2>1. store.accFees = 0
      BY <1>1
    <2>2. /\ Charged(store.records, DOMAIN store.records) = 0
          /\ Total(store.records, To(store.records)) = 0
          /\ Charged(store.records, To(store.records)) = 0
          /\ Total(store.records, From(store.records)) = 0
      BY <1>7, <1>9, <1>10
    <2> QED BY <1>12, <2>1, <2>2 DEF Collected
  <1>14. Balanced(store, balance)
    <2>1. ASSUME NEW h \in Holders \ {Bridge}, NEW t \in Tokens
          PROVE  Even(store.records, balance, store.paidOut, h, t)
      <3>1. <<h, t>> \in Holders \X Tokens /\ <<h, t>>[1] = h
        OBVIOUS
      <3>2. store.paidOut = [x \in Holders \X Tokens |-> 0]
        BY <1>16
      <3>3. balance[<<h, t>>] = First(h)
        BY <1>2, <3>1 DEF First
      <3>4. store.paidOut[<<h, t>>] = 0
        BY <3>1, <3>2
      <3>5. /\ Total(store.records, By(store.records, h, t)) = 0
            /\ Total(store.records, For(store.records, h, t)) = 0
            /\ Charged(store.records, For(store.records, h, t)) = 0
        BY <1>9, <1>10
      <3>6. First(h) \in Nat
        BY <1>3 DEF First
      <3>7. First(h) + 0 = First(h) + 0 + 0 - 0
        BY <3>6
      <3> QED BY <3>3, <3>4, <3>5, <3>7 DEF Even
    <2> QED BY <2>1 DEF Balanced
  <1>15. Fair(store)
    BY <1>7 DEF Fair
  <1> QED BY <1>4, <1>5, <1>6, <1>11, <1>13, <1>14, <1>15 DEF Books

LEMMA BooksAreKept ==
  ASSUME Books(store, balance), Next
  PROVE  Books(store', balance')
  <1>1. ASSUME NEW it \in Item, FundCAddress(it) PROVE Books(store', balance')
    <2>1. /\ it.target \in Wallets /\ Accepts(balance, it)
          /\ store' = Funded(store, it) /\ balance' = Paid(store, balance, it)
      BY <1>1 DEF FundCAddress
    <2> QED BY <2>1, FundedBooks
  <1>2. ASSUME NEW it \in Item, BatchFundOne(it) PROVE Books(store', balance')
    <2>1. /\ it.target \in Wallets /\ Accepts(balance, it)
          /\ store' = Funded(store, it) /\ balance' = Paid(store, balance, it)
      BY <1>2 DEF BatchFundOne
    <2> QED BY <2>1, FundedBooks
  <1>3. ASSUME NEW it1 \in Item, NEW it2 \in Item, BatchFundCAddress(it1, it2)
        PROVE  Books(store', balance')
    <2> DEFINE store1 == Funded(store, it1)
               balance1 == Paid(store, balance, it1)
    <2>1. /\ it1.target \in Wallets /\ it2.target \in Wallets
          /\ Accepts(balance, it1) /\ Accepts(balance1, it2)
          /\ store' = Funded(store1, it2) /\ balance' = Paid(store1, balance1, it2)
      BY <1>3 DEF BatchFundCAddress
    <2>2. Books(store1, balance1)
      BY <2>1, FundedBooks
    <2> HIDE DEF store1, balance1
    <2> QED BY <2>1, <2>2, FundedBooks
  <1>4. CASE Funding
    BY <1>1, <1>2, <1>3, <1>4 DEF Funding
  <1>5. CASE FeeGovernance
    <2>1. CASE \E fee \in FeeChoices : SetFee(fee)
      BY <2>1, SetFeeKeeps
    <2>2. CASE \E tok \in Tokens, on \in BOOLEAN : SetFeeTokenWhitelist(tok, on)
      BY <2>2, SetFeeTokenWhitelistKeeps
    <2>3. CASE \E tok \in Tokens, rate \in RateChoices : SetFeeTokenRate(tok, rate)
      BY <2>3, SetFeeTokenRateKeeps
    <2>4. CASE \E value \in BOOLEAN : SetPaused(value)
      BY <2>4, SetPausedKeeps
    <2>5. CASE \E t \in TierChoices : SetRebateTier(t)
      BY <2>5, SetRebateTierKeeps
    <2>6. CASE \E to \in Recipients, tok \in Tokens, amount \in WithdrawChoices :
                  WithdrawFees(to, tok, amount)
      BY <2>6, WithdrawFeesKeeps
    <2>7. CASE \E count \in ArchiveChoices : ArchiveOldEntries(count)
      BY <2>7, ArchiveOldEntriesKeeps
    <2> QED BY <1>5, <2>1, <2>2, <2>3, <2>4, <2>5, <2>6, <2>7 DEF FeeGovernance
  <1> QED BY <1>4, <1>5 DEF Next

-------------------------------------------------------------------------------
\* What the invariant says are the properties that the run checks.
LEMMA BooksAreExact ==
  ASSUME Books(store, balance)
  PROVE  CountersExact /\ FeesExact
  <1> DEFINE recs == store.records
  <1>1. /\ store \in Store /\ balance \in Balances /\ Capped(store) /\ Counted(store)
        /\ Collected(store, balance) /\ Balanced(store, balance) /\ Fair(store)
    BY DEF Books
  <1>2. TypeOK
    BY <1>1 DEF TypeOK, Balances
  <1>3. HotCountExact
    BY <1>1 DEF HotCountExact, Hot, HotIds, Counted
  <1>4. /\ \A ids : SumAmount(ids) = Total(recs, ids)
        /\ \A ids : SumFee(ids) = Charged(recs, ids)
    BY DEF SumAmount, SumFee, Total, Charged, AmountAt, FeeAt
  <1>5. CountersMatchRecords
    <2>1. ASSUME NEW f \in Payers, NEW t \in Tokens
          PROVE  store.userVolume[<<f, t>>] =
                     SumAmount(RecordsOf(LAMBDA r : r.source = f /\ r.token = t))
      <3>1. RecordsOf(LAMBDA r : r.source = f /\ r.token = t) = By(recs, f, t)
        BY DEF RecordsOf, By
      <3>2. store.userVolume[<<f, t>>] = Total(recs, By(recs, f, t))
        BY <1>1 DEF Counted
      <3> QED BY <1>4, <3>1, <3>2
    <2>2. ASSUME NEW t \in Tokens
          PROVE  store.volumeByToken[t] = SumAmount(RecordsOf(LAMBDA r : r.token = t))
      <3>1. RecordsOf(LAMBDA r : r.token = t) = In(recs, t)
        BY DEF RecordsOf, In
      <3>2. store.volumeByToken[t] = Total(recs, In(recs, t))
        BY <1>1 DEF Counted
      <3> QED BY <1>4, <3>1, <3>2
    <2>3. store.totalVolume = SumAmount(DOMAIN store.records)
      BY <1>1, <1>4 DEF Counted
    <2>4. store.funderCount = Cardinality({store.records[i].source : i \in DOMAIN store.records})
      BY <1>1 DEF Counted, Sources
    <2> QED BY <2>1, <2>2, <2>3, <2>4 DEF CountersMatchRecords
  <1>6. BalancesMatchRecords
    <2>1. ASSUME NEW h \in Holders \ {Bridge}, NEW t \in Tokens
          PROVE  BalanceMatches(h, t)
      <3>1. RecordsOf(LAMBDA r : r.source = h /\ r.token = t) = By(recs, h, t)
        BY DEF RecordsOf, By
      <3>2. RecordsOf(LAMBDA r : r.target = h /\ r.token = t) = For(recs, h, t)
        BY DEF RecordsOf, For
      <3>3. balance[<<h, t>>] + Total(recs, By(recs, h, t)) =
                 First(h) + store.paidOut[<<h, t>>]
                   + Total(recs, For(recs, h, t)) - Charged(recs, For(recs, h, t))
        BY <1>1 DEF Balanced, Even
      <3>4. balance[<<h, t>>] + SumAmount(By(recs, h, t)) =
                 First(h) + store.paidOut[<<h, t>>]
                   + SumAmount(For(recs, h, t)) - SumFee(For(recs, h, t))
        BY <1>4, <3>3
      <3> QED BY <3>1, <3>2, <3>4, Zenon DEF BalanceMatches, First
    <2> QED BY <2>1 DEF BalancesMatchRecords
  <1>7. FeesAccountedFor
    <2>1. HeldBy(Bridge) = Held(balance, Bridge) /\ PaidOutTo(Bridge) = Held(store.paidOut, Bridge)
      BY DEF HeldBy, PaidOutTo, Held, SumFunction
    <2>2. /\ RecordsOf(LAMBDA r : r.target = Bridge) = To(recs)
          /\ RecordsOf(LAMBDA r : r.source = Bridge) = From(recs)
      BY DEF RecordsOf, To, From
    <2>4. SumFunction(store.paidOut) = SumFunctionOnSet(store.paidOut, Holders \X Tokens)
      <3>1. DOMAIN store.paidOut = Holders \X Tokens
        BY <1>1, StoreFields
      <3> QED BY <3>1 DEF SumFunction
    <2>3. /\ store.accFees + SumFunction(store.paidOut) = SumFee(DOMAIN recs)
          /\ HeldBy(Bridge) = store.accFees + PaidOutTo(Bridge) + SumAmount(To(recs))
                                  - SumFee(To(recs)) - SumAmount(From(recs))
      BY <1>1, <1>4, <2>1, <2>4 DEF Collected
    <2> QED BY <2>2, <2>3 DEF FeesAccountedFor
  <1>8. FeeWithinCap
    BY <1>1 DEF Fair, FeeWithinCap
  <1> QED BY <1>2, <1>3, <1>5, <1>6, <1>7, <1>8 DEF CountersExact, FeesExact

-------------------------------------------------------------------------------
(* Fees against quotes. *)
\* A product divided, and divided less.
LEMMA Quotients ==
  ASSUME NEW a \in Nat, NEW f \in Nat, NEW g \in Nat, f <= g
  PROVE  (a * f) \div 10000 <= (a * g) \div 10000
  <1> DEFINE p == a * f
             q == a * g
  <1>1. p \in Nat /\ q \in Nat /\ p <= q
    BY Product
  <1> HIDE DEF p, q
  <1>2. /\ p \div 10000 \in Nat /\ (p \div 10000) * 10000 <= p
        /\ q \div 10000 \in Nat /\ q < (q \div 10000 + 1) * 10000
    BY <1>1, Rounding
  <1>3. p \div 10000 <= q \div 10000
    BY <1>1, <1>2
  <1> QED BY <1>3 DEF p, q

Quoted(s, r) ==
    /\ r.fee * 10000 <= r.amount * s.feeBps
    /\ (r.fee + 1) * 20000 > r.amount * s.feeBps
    /\ s.feeBps <= ConfigFeeBps => r.fee <= QuotedFee(r.amount)
    /\ s.feeBps >= ConfigFeeBps => 2 * (r.fee + 1) > QuotedFee(r.amount)
    /\ s.feeBps = ConfigFeeBps /\ s.tierCount = 0 => r.fee = QuotedFee(r.amount)

NewAreQuoted == \A i \in DOMAIN store'.records \ DOMAIN store.records :
                    Quoted(store, store'.records[i])

LEMMA RecordIsQuoted ==
  ASSUME NEW s \in Store, Capped(s), NEW it \in Item
  PROVE  Quoted(s, RecordOf(s, it))
  <1> DEFINE r == RecordOf(s, it)
             a == it.amount
             f == s.feeBps
             fee == Fee(s, it)
             cheap == (a * f) \div 10000
             quote == (a * ConfigFeeBps) \div 10000
             af == a * f
  <1>1. Bounded(s, it)
    BY FeeIsBounded, Zenon
  <1>2. r.fee = fee /\ r.amount = a
    BY DEF RecordOf
  <1>3. /\ fee \in Nat /\ a \in Nat /\ f \in Nat /\ ConfigFeeBps \in Nat
        /\ fee * 10000 <= a * f /\ (fee + 1) * 20000 > a * f /\ fee <= cheap
        /\ s.tierCount = 0 => fee = cheap
    BY <1>1, ConfigAssumption DEF Bounded
  <1>4. QuotedFee(a) = quote
    BY DEF QuotedFee, QuotedBps
  <1> HIDE DEF r, a, f, fee
  <1>5. f <= ConfigFeeBps => fee <= quote
    <2> SUFFICES ASSUME f <= ConfigFeeBps PROVE fee <= quote
      OBVIOUS
    <2>1. cheap <= quote
      BY <1>3, Quotients
    <2>2. cheap \in Nat /\ quote \in Nat
      <3>1. a * f \in Nat /\ a * ConfigFeeBps \in Nat
        BY <1>3, Product
      <3> QED BY <3>1, Rounding
    <2> HIDE DEF cheap, quote
    <2> QED BY <1>3, <2>1, <2>2
  <1>6. f >= ConfigFeeBps => 2 * (fee + 1) > quote
    <2> SUFFICES ASSUME f >= ConfigFeeBps PROVE 2 * (fee + 1) > quote
      OBVIOUS
    <2>1. quote <= cheap
      BY <1>3, Quotients
    <2>2. af \in Nat /\ cheap \in Nat /\ cheap * 10000 <= af
      <3>1. a * f \in Nat
        BY <1>3, Product
      <3> QED BY <3>1, Rounding
    <2>3. quote \in Nat
      <3>1. a * ConfigFeeBps \in Nat
        BY <1>3, Product
      <3> QED BY <3>1, Rounding
    <2>4. (fee + 1) * 20000 > af
      BY <1>3
    <2> HIDE DEF cheap, quote, af
    <2> QED BY <1>3, <2>1, <2>2, <2>3, <2>4
  <1>7. f = ConfigFeeBps /\ s.tierCount = 0 => fee = quote
    BY <1>3
  <1> HIDE DEF quote
  <1>8. /\ r.fee * 10000 <= r.amount * s.feeBps
        /\ (r.fee + 1) * 20000 > r.amount * s.feeBps
    BY <1>2, <1>3 DEF f
  <1>9. Quoted(s, r)
    BY <1>2, <1>4, <1>5, <1>6, <1>7, <1>8 DEF Quoted, f
  <1> QED BY <1>9 DEF r

LEMMA FundingsAreQuoted ==
  ASSUME Books(store, balance), Next
  PROVE  NewAreQuoted
  <1>1. store \in Store /\ Capped(store) /\ store.records \in Seq(FundingRecord)
    BY StoreFields DEF Books
  <1>2. ASSUME NEW it \in Item, it.target \in Wallets, store' = Funded(store, it)
        PROVE  NewAreQuoted
    <2>1. FundedTo(store, it, store') /\ RecordOf(store, it) \in FundingRecord
      BY <1>1, <1>2, FundedFields, FundedIsStore, Zenon
    <2>2. store'.records = Append(store.records, RecordOf(store, it))
      BY <2>1 DEF FundedTo
    <2>3. Quoted(store, RecordOf(store, it))
      BY <1>1, RecordIsQuoted, Zenon
    <2> DEFINE rec == RecordOf(store, it)
               n == Len(store.records) + 1
    <2>4. DOMAIN store'.records = DOMAIN store.records \cup {n} /\ store'.records[n] = rec
      <3> HIDE DEF rec
      <3> QED BY <1>1, <2>1, <2>2, Appended DEF rec
    <2> QED BY <2>3, <2>4 DEF NewAreQuoted
  <1>3. ASSUME NEW it \in Item, FundCAddress(it) PROVE NewAreQuoted
    BY <1>2, <1>3 DEF FundCAddress
  <1>4. ASSUME NEW it \in Item, BatchFundOne(it) PROVE NewAreQuoted
    BY <1>2, <1>4 DEF BatchFundOne
  <1>5. ASSUME NEW it1 \in Item, NEW it2 \in Item, BatchFundCAddress(it1, it2)
        PROVE  NewAreQuoted
    <2> DEFINE store1 == Funded(store, it1)
               balance1 == Paid(store, balance, it1)
               rec1 == RecordOf(store, it1)
               rec2 == RecordOf(store1, it2)
    <2>1. /\ it1.target \in Wallets /\ it2.target \in Wallets
          /\ Accepts(balance, it1) /\ store' = Funded(store1, it2)
      BY <1>5 DEF BatchFundCAddress
    <2>2. Books(store1, balance1)
      BY <2>1, FundedBooks
    <2>3. FundedTo(store, it1, store1) /\ rec1 \in FundingRecord /\ Quoted(store, rec1)
      BY <1>1, <2>1, FundedFields, FundedIsStore, RecordIsQuoted, Zenon
    <2> HIDE DEF store1, balance1, rec1
    <2>4. store1 \in Store /\ Capped(store1)
      BY <2>2 DEF Books
    <2>5. FundedTo(store1, it2, store') /\ rec2 \in FundingRecord /\ Quoted(store1, rec2)
      BY <2>1, <2>4, FundedFields, FundedIsStore, RecordIsQuoted, Zenon
    <2>6. /\ store1.records = Append(store.records, rec1)
          /\ store1.feeBps = store.feeBps /\ store1.tierCount = store.tierCount
      BY <2>3 DEF FundedTo, rec1
    <2>7. store'.records = Append(store1.records, rec2)
      BY <2>5 DEF FundedTo
    <2> HIDE DEF rec2
    <2>8. Quoted(store, rec2)
      BY <2>5, <2>6 DEF Quoted, QuotedFee
    <2> DEFINE n == Len(store.records) + 1
               m == Len(store1.records) + 1
    <2>9. DOMAIN store1.records = DOMAIN store.records \cup {n} /\ store1.records[n] = rec1
      BY <1>1, <2>3, <2>6, Appended
    <2>10. /\ DOMAIN store'.records = DOMAIN store1.records \cup {m} /\ store'.records[m] = rec2
           /\ \A i \in DOMAIN store1.records : store'.records[i] = store1.records[i]
      <3>1. store1.records \in Seq(FundingRecord)
        BY <2>4, StoreFields
      <3> QED BY <2>5, <2>7, <3>1, Appended
    <2> HIDE DEF n, m
    <2>11. ASSUME NEW i \in DOMAIN store'.records \ DOMAIN store.records
           PROVE  store'.records[i] \in {rec1, rec2}
      BY <2>9, <2>10
    <2> QED BY <2>3, <2>8, <2>11 DEF NewAreQuoted
  <1>6. CASE Funding
    BY <1>3, <1>4, <1>5, <1>6 DEF Funding
  <1>7. CASE FeeGovernance
    <2>1. DOMAIN store'.records = DOMAIN store.records
      <3>1. CASE \E fee \in FeeChoices : SetFee(fee)
        BY <1>1, <3>1 DEF SetFee, Store
      <3>2. CASE \E tok \in Tokens, on \in BOOLEAN : SetFeeTokenWhitelist(tok, on)
        BY <1>1, <3>2 DEF SetFeeTokenWhitelist, Store
      <3>3. CASE \E tok \in Tokens, rate \in RateChoices : SetFeeTokenRate(tok, rate)
        BY <1>1, <3>3 DEF SetFeeTokenRate, Store
      <3>4. CASE \E value \in BOOLEAN : SetPaused(value)
        BY <1>1, <3>4 DEF SetPaused, Store
      <3>5. CASE \E t \in TierChoices : SetRebateTier(t)
        BY <1>1, <3>5 DEF SetRebateTier, Store
      <3>6. CASE \E to \in Recipients, tok \in Tokens, amount \in WithdrawChoices :
                    WithdrawFees(to, tok, amount)
        BY <1>1, <3>6 DEF WithdrawFees, Store
      <3>7. CASE \E count \in ArchiveChoices : ArchiveOldEntries(count)
        BY <1>1, <3>7 DEF ArchiveOldEntries, Store
      <3> QED BY <1>7, <3>1, <3>2, <3>3, <3>4, <3>5, <3>6, <3>7 DEF FeeGovernance
    <2> QED BY <2>1 DEF NewAreQuoted
  <1> QED BY <1>6, <1>7 DEF Next

\* NewAreQuoted in the words of the property.
LEMMA QuotedIsWithin ==
  ASSUME Books(store, balance), Books(store', balance'), NewAreQuoted
  PROVE  FeeBoundsStep /\ \A i \in New : QuoteBounds(store'.records[i])
  <1>1. FeeBoundsStep
    BY DEF NewAreQuoted, Quoted, FeeBoundsStep
  <1>2. New \subseteq DOMAIN store'.records \ DOMAIN store.records
    <2>1. store.records \in Seq(FundingRecord) /\ store'.records \in Seq(FundingRecord)
      BY StoreFields DEF Books
    <2>2. /\ DOMAIN store.records = 1..Len(store.records) /\ Len(store.records) \in Nat
          /\ DOMAIN store'.records = 1..Len(store'.records) /\ Len(store'.records) \in Nat
      BY <2>1, Records
    <2> QED BY <2>2 DEF New
  <1> QED BY <1>1, <1>2 DEF NewAreQuoted, Quoted, QuoteBounds

-------------------------------------------------------------------------------
(* The hook that funds. *)
\* Nothing that is under way or was sent is of a later attempt, and the submissions with
\* the key that the hook holds are those of its attempt.
FundTypes ==
    /\ attempt \in F!Attempts /\ step \in F!Steps
    /\ made \in Nat /\ fundKey \in 0..made /\ calls \subseteq F!Calls
    /\ sent \subseteq [attempt : F!Attempts, key : 1..made]
KeyIsCurrent ==
    \A s \in sent : s.attempt <= attempt /\ (s.attempt = attempt <=> s.key = fundKey)
FundInv ==
    /\ FundTypes /\ KeyIsCurrent /\ F!KeyPerAttempt /\ F!ShowsCurrent
    /\ \A c \in calls : c.attempt <= attempt

LEMMA FundInit ==
  ASSUME F!Init
  PROVE  FundInv
  BY CountsAssumption DEF F!Init, FundInv, FundTypes, KeyIsCurrent, F!KeyPerAttempt, F!ShowsCurrent, F!Attempts, F!Steps, F!None

\* A call that begins is one more of the current attempt.
LEMMA Begins ==
  ASSUME FundTypes, F!Free, NEW kind \in {"prepare", "submit"}, attempt' \in F!Attempts, F!Began(kind)
  PROVE  \E c : /\ c \in F!Calls /\ c.kind = kind /\ c.attempt = attempt'
                /\ calls' = calls \cup {c}
  <1> DEFINE i == CHOOSE i \in F!FreeIds : \A j \in F!FreeIds : i <= j
             c == [id |-> i, kind |-> kind, attempt |-> attempt']
  <1>1. F!FreeIds \in SUBSET Nat /\ F!FreeIds # {} /\ F!FreeIds \subseteq 1..MaxCalls
    BY CountsAssumption DEF F!FreeIds, F!Free
  <1>2. \E m \in F!FreeIds : \A j \in F!FreeIds : m <= j
    BY <1>1, LeastNumber
  <1>3. i \in 1..MaxCalls
    BY <1>1, <1>2
  <1>4. calls' = calls \cup {c}
    BY DEF F!Began
  <1> HIDE DEF i
  <1>5. c \in F!Calls /\ c.kind = kind /\ c.attempt = attempt'
    BY <1>3 DEF F!Calls
  <1> QED BY <1>4, <1>5

LEMMA FundPrepareKeeps ==
  ASSUME FundInv, F!Prepare
  PROVE  FundInv'
  <1>1. /\ attempt \in Nat /\ attempt' = attempt + 1 /\ attempt' \in F!Attempts /\ attempt' \in Nat
        /\ made' = made + 1 /\ fundKey' = made' /\ made \in Nat /\ made' \in Nat /\ sent' = sent
        /\ step' = "preparing" /\ prepared' = F!None /\ result' = F!None /\ fundFailed' = F!None
        /\ FundTypes /\ F!Free /\ F!Began("prepare")
    BY CountsAssumption DEF FundInv, FundTypes, F!Prepare, F!Attempts, F!Shows
  <1>2. PICK c : /\ c \in F!Calls /\ c.kind = "prepare" /\ c.attempt = attempt'
                 /\ calls' = calls \cup {c}
    BY <1>1, Begins
  <1>3. FundTypes'
    BY <1>1, <1>2 DEF FundTypes, F!Steps
  <1>4. KeyIsCurrent'
    BY <1>1 DEF FundTypes, FundInv, KeyIsCurrent, F!Attempts
  <1>5. F!KeyPerAttempt'
    BY <1>1 DEF FundInv, F!KeyPerAttempt
  <1>6. F!ShowsCurrent'
    BY <1>1, <1>2 DEF F!ShowsCurrent, F!Current
  <1>7. \A d \in calls' : d.attempt <= attempt'
    BY <1>1, <1>2 DEF FundInv, FundTypes, F!Calls, F!Attempts
  <1> QED BY <1>3, <1>4, <1>5, <1>6, <1>7 DEF FundInv

LEMMA FundSubmitKeeps ==
  ASSUME FundInv, F!Submit
  PROVE  FundInv'
  <1>1. /\ attempt \in Nat /\ attempt' = attempt /\ attempt \in F!Attempts
        /\ made \in Nat /\ fundKey \in 0..made
        /\ sent' = sent \cup {[attempt |-> attempt, key |-> fundKey']}
        /\ step' = "submitting" /\ prepared' = prepared /\ result' = result /\ fundFailed' = F!None
        /\ FundTypes /\ F!Free /\ F!Began("submit")
    BY CountsAssumption DEF FundInv, FundTypes, F!Submit, F!Attempts, F!Shows
  <1>2. PICK c : /\ c \in F!Calls /\ c.kind = "submit" /\ c.attempt = attempt
                 /\ calls' = calls \cup {c}
    BY <1>1, Begins
  <1>3. \/ fundKey # 0 /\ fundKey' = fundKey /\ made' = made
        \/ fundKey = 0 /\ made' = made + 1 /\ fundKey' = made + 1
    BY DEF F!Submit
  <1>4. made' \in Nat /\ fundKey' \in 1..made' /\ made <= made'
    BY <1>1, <1>3
  <1>5. \A s \in sent : s.attempt \in F!Attempts /\ s.key \in 1..made /\ s.attempt \in Nat
    BY <1>1 DEF FundTypes, F!Attempts
  <1>6. FundTypes'
    <2>1. sent' \subseteq [attempt : F!Attempts, key : 1..made']
      BY <1>1, <1>4 DEF FundTypes
    <2> QED BY <1>1, <1>2, <1>4, <2>1 DEF FundTypes, F!Steps
  <1>7. \A s \in sent : s.attempt <= attempt /\ (s.attempt = attempt <=> s.key = fundKey')
    <2>1. \A s \in sent : s.attempt <= attempt /\ (s.attempt = attempt <=> s.key = fundKey)
      BY DEF FundInv, KeyIsCurrent
    <2>2. CASE fundKey # 0 /\ fundKey' = fundKey
      BY <2>1, <2>2
    <2>3. CASE fundKey = 0 /\ fundKey' = made + 1
      <3>1. \A s \in sent : s.key # fundKey /\ s.key # fundKey'
        BY <1>1, <1>5, <2>3
      <3> QED BY <2>1, <3>1
    <2> QED BY <1>3, <2>2, <2>3
  <1>8. KeyIsCurrent'
    BY <1>1, <1>7 DEF KeyIsCurrent
  <1>9. F!KeyPerAttempt'
    BY <1>1, <1>7 DEF FundInv, F!KeyPerAttempt
  <1>10. F!ShowsCurrent'
    BY <1>1, <1>2 DEF FundInv, F!ShowsCurrent, F!Current
  <1>11. \A d \in calls' : d.attempt <= attempt'
    BY <1>1, <1>2 DEF FundInv
  <1> QED BY <1>6, <1>8, <1>9, <1>10, <1>11 DEF FundInv

LEMMA FundResetKeeps ==
  ASSUME FundInv, F!Reset
  PROVE  FundInv'
  <1>1. /\ attempt \in Nat /\ attempt' = attempt + 1 /\ attempt' \in F!Attempts /\ attempt' \in Nat
        /\ made' = made /\ fundKey' = 0 /\ made \in Nat /\ sent' = sent /\ calls' = calls
        /\ step' = "idle" /\ prepared' = F!None /\ result' = F!None /\ fundFailed' = F!None
        /\ FundTypes
    BY CountsAssumption DEF FundInv, FundTypes, F!Reset, F!Attempts, F!Shows
  <1>2. FundTypes'
    BY <1>1 DEF FundTypes, F!Steps
  <1>3. KeyIsCurrent'
    BY <1>1 DEF FundTypes, FundInv, KeyIsCurrent, F!Attempts
  <1>4. F!KeyPerAttempt'
    BY <1>1 DEF FundInv, F!KeyPerAttempt
  <1>5. F!ShowsCurrent'
    BY <1>1 DEF F!ShowsCurrent
  <1>6. \A d \in calls' : d.attempt <= attempt'
    BY <1>1 DEF FundInv, FundTypes, F!Calls, F!Attempts
  <1> QED BY <1>2, <1>3, <1>4, <1>5, <1>6 DEF FundInv

\* An answer is shown, if it is of the current attempt.
LEMMA FundAnswerKeeps ==
  ASSUME FundInv, NEW c \in calls, F!Succeeds(c) \/ F!Fails(c)
  PROVE  FundInv'
  <1>1. /\ calls' = calls \ {c} /\ UNCHANGED <<attempt, fundKey, made, sent>> /\ FundTypes /\ F!ShowsCurrent
        /\ c.kind \in {"prepare", "submit"}
    BY DEF F!Succeeds, F!Fails, FundInv, FundTypes, F!Calls
  <1>2. F!ShowsCurrent' /\ step' \in F!Steps
    <2>1. CASE ~F!Current(c)
      <3>1. UNCHANGED <<step, prepared, result, fundFailed>>
        BY <2>1 DEF F!Succeeds, F!Fails
      <3> QED BY <1>1, <2>1, <3>1 DEF F!ShowsCurrent, F!Current, FundTypes
    <2>2. CASE F!Current(c)
      <3>1. \/ step' = "prepared" /\ F!Shows(attempt, result, fundFailed)
            \/ step' = "submitted" /\ F!Shows(prepared, attempt, fundFailed)
            \/ step' = "error" /\ F!Shows(prepared, result, attempt)
        BY <2>2 DEF F!Succeeds, F!Fails
      <3> QED BY <1>1, <3>1 DEF F!ShowsCurrent, F!Shows, F!Steps
    <2> QED BY <2>1, <2>2
  <1>3. FundTypes'
    BY <1>1, <1>2 DEF FundTypes
  <1> QED BY <1>1, <1>2, <1>3 DEF FundInv, KeyIsCurrent, F!KeyPerAttempt

LEMMA FundKeeps ==
  ASSUME FundInv, F!FundNext
  PROVE  FundInv'
  BY FundPrepareKeeps, FundSubmitKeeps, FundResetKeeps, FundAnswerKeeps DEF F!FundNext

LEMMA FundStutters ==
  ASSUME FundInv, UNCHANGED F!fundVars
  PROVE  FundInv'
  BY DEF FundInv, FundTypes, KeyIsCurrent, F!KeyPerAttempt, F!ShowsCurrent, F!Current, F!fundVars

LEMMA FundIsSound ==
  ASSUME FundInv
  PROVE  F!FundHookSound
  BY DEF FundInv, FundTypes, F!FundHookSound, F!FundTypeOK, F!ShowsCurrent, F!None

-------------------------------------------------------------------------------
(* The hook that quotes. *)
\* A request of the effect is for what the last flush wanted, and an entry of the cache
\* that is not of the last refetch was overtaken.
EffectIsWanted == \A r \in Q!Asked("effect") : ~due => Q!Wanted /\ r.key = Q!Key
ReadsAreOld == \A r \in quoteRequests : r.read <= epoch[r.key]
EntriesAreNew == \A k \in Q!Keys : cache[k] # Q!NoEntry => cache[k].epoch = epoch[k] \/ k \in overtaken
QuoteInv ==
    /\ Q!QuoteTypeOK /\ EffectIsWanted /\ ReadsAreOld /\ EntriesAreNew
    /\ Q!QuoteIsForParams /\ Q!LoadingIsTrue /\ Q!RefetchBypasses

LEMMA QuoteInit ==
  ASSUME Q!Init
  PROVE  QuoteInv
  <1>1. Q!QuoteTypeOK
    <2>1. {enabled, due, failed, loading} \subseteq BOOLEAN
      BY Zenon DEF Q!Init
    <2>2. epoch \in [Q!Keys -> Q!Epochs] /\ cache \in [Q!Keys -> {Q!NoEntry}]
      BY CountsAssumption DEF Q!Init, Q!Epochs
    <2> QED BY <2>1, <2>2 DEF Q!Init, Q!QuoteTypeOK
  <1>2. due /\ ~loading /\ quoteRequests = {}
    BY Zenon DEF Q!Init
  <1>3. EffectIsWanted /\ ReadsAreOld /\ Q!LoadingIsTrue /\ Q!RefetchBypasses
    BY <1>2 DEF EffectIsWanted, ReadsAreOld, Q!LoadingIsTrue, Q!RefetchBypasses, Q!Asked
  <1>4. EntriesAreNew /\ Q!QuoteIsForParams
    BY DEF Q!Init, EntriesAreNew, Q!QuoteIsForParams
  <1> QED BY <1>1, <1>3, <1>4 DEF QuoteInv

LEMMA QuoteTypes ==
  ASSUME QuoteInv
  PROVE  /\ enabled \in BOOLEAN /\ due \in BOOLEAN /\ failed \in BOOLEAN /\ loading \in BOOLEAN
         /\ params \in Params \cup {NoParams}
         /\ data \in [key : Q!Keys, epoch : Q!Epochs, late : BOOLEAN] \cup {Q!NoQuote}
         /\ \A r \in quoteRequests : r.key \in Q!Keys /\ r.read \in Q!Epochs \cup {Q!Unread}
                                /\ r.by \in {"effect", "cancelled", "refresh"}
         /\ \A k \in Q!Keys : cache[k] \in [age : {"fresh", "stale"}, epoch : Q!Epochs] \cup {Q!NoEntry}
         /\ epoch \in [Q!Keys -> Q!Epochs] /\ overtaken \subseteq Q!Keys
         /\ Q!Wanted => Q!Key \in Q!Keys
         /\ \A k \in Q!Keys : epoch[k] \in Nat /\ epoch[k] \in Q!Epochs
  BY CountsAssumption DEF QuoteInv, Q!QuoteTypeOK, Q!Wanted, Q!Key, Q!Keys, Q!Epochs

LEMMA RenderKeeps ==
  ASSUME QuoteInv, NEW p \in Params \cup {NoParams}, NEW e \in BOOLEAN, Q!Render(p, e)
  PROVE  QuoteInv'
  <1>1. /\ due' /\ due' \in BOOLEAN /\ params' = p /\ enabled' = e
        /\ UNCHANGED <<loading, quoteRequests, cache, epoch, overtaken>>
    BY Zenon DEF Q!Render
  <1>2. \/ p = params /\ data' = data /\ failed' = failed
        \/ data' = Q!NoQuote /\ failed' \in BOOLEAN
    BY Zenon DEF Q!Render
  <1>3. Q!QuoteTypeOK'
    <2>1. data' \in [key : Q!Keys, epoch : Q!Epochs, late : BOOLEAN] \cup {Q!NoQuote} /\ failed' \in BOOLEAN
      BY <1>2, QuoteTypes
    <2> QED BY <1>1, <2>1 DEF QuoteInv, Q!QuoteTypeOK
  <1>4. EffectIsWanted' /\ ReadsAreOld' /\ EntriesAreNew'
    BY <1>1 DEF QuoteInv, EffectIsWanted, ReadsAreOld, EntriesAreNew
  <1>5. Q!LoadingIsTrue' /\ Q!RefetchBypasses'
    BY <1>1 DEF QuoteInv, Q!LoadingIsTrue, Q!RefetchBypasses, Q!Asked
  <1>6. Q!QuoteIsForParams'
    BY <1>1, <1>2 DEF QuoteInv, Q!QuoteIsForParams, Q!Key
  <1> QED BY <1>3, <1>4, <1>5, <1>6 DEF QuoteInv

\* The cleanup leaves no request of the effect.
LEMMA Cancels ==
  ASSUME QuoteInv
  PROVE  /\ \A r \in Q!Cancelled : r.by # "effect" /\ r.read <= epoch[r.key]
         /\ Q!Cancelled \subseteq [key : Q!Keys, read : Q!Epochs \cup {Q!Unread},
                                 by : {"effect", "cancelled", "refresh"}]
  <1> SUFFICES ASSUME NEW r \in quoteRequests,
                      NEW q, q = IF r.by = "effect" THEN [r EXCEPT !.by = "cancelled"] ELSE r
               PROVE  /\ q.by # "effect" /\ q.read <= epoch[q.key]
                      /\ q \in [key : Q!Keys, read : Q!Epochs \cup {Q!Unread},
                                by : {"effect", "cancelled", "refresh"}]
    BY DEF Q!Cancelled
  <1>1. /\ r \in [key : Q!Keys, read : Q!Epochs \cup {Q!Unread}, by : {"effect", "cancelled", "refresh"}]
        /\ r.read <= epoch[r.key]
    BY DEF QuoteInv, Q!QuoteTypeOK, ReadsAreOld
  <1>2. CASE r.by = "effect"
    <2>1. q = [r EXCEPT !.by = "cancelled"]
      BY <1>2
    <2>2. q.by = "cancelled" /\ q.read = r.read /\ q.key = r.key
          /\ q \in [key : Q!Keys, read : Q!Epochs \cup {Q!Unread}, by : {"effect", "cancelled", "refresh"}]
      BY <1>1, <2>1
    <2> QED BY <1>1, <2>2
  <1>3. CASE r.by # "effect"
    BY <1>1, <1>3
  <1> QED BY <1>2, <1>3

LEMMA FlushIdleKeeps ==
  ASSUME QuoteInv, Q!FlushIdle
  PROVE  QuoteInv'
  <1>1. /\ ~Q!Wanted /\ due' \in BOOLEAN /\ quoteRequests' = Q!Cancelled
        /\ UNCHANGED <<params, enabled, data, failed, loading, cache, epoch, overtaken>>
    BY Zenon DEF Q!FlushIdle
  <1>2. ~Q!Wanted'
    BY <1>1 DEF Q!Wanted
  <1>3. Q!QuoteTypeOK'
    BY <1>1, Cancels DEF QuoteInv, Q!QuoteTypeOK
  <1>4. Q!Asked("effect")' = {}
    BY <1>1, Cancels DEF Q!Asked
  <1>5. EffectIsWanted' /\ Q!LoadingIsTrue' /\ Q!RefetchBypasses'
    BY <1>2, <1>4 DEF EffectIsWanted, Q!LoadingIsTrue, Q!RefetchBypasses
  <1>6. ReadsAreOld'
    BY <1>1, Cancels DEF ReadsAreOld
  <1>7. EntriesAreNew' /\ Q!QuoteIsForParams'
    BY <1>1 DEF QuoteInv, EntriesAreNew, Q!QuoteIsForParams, Q!Key
  <1> QED BY <1>3, <1>5, <1>6, <1>7 DEF QuoteInv

LEMMA FlushHitsKeeps ==
  ASSUME QuoteInv, Q!FlushHits
  PROVE  QuoteInv'
  <1> DEFINE shown == [key |-> Q!Key, epoch |-> cache[Q!Key].epoch, late |-> FALSE]
  <1>1. /\ Q!Wanted /\ due' \in BOOLEAN /\ failed' \in BOOLEAN /\ ~loading' /\ loading' \in BOOLEAN
        /\ data' = shown /\ cache[Q!Key] # Q!NoEntry
        /\ UNCHANGED <<params, enabled, cache, epoch, overtaken>>
    BY Zenon DEF Q!FlushHits
  <1>2. /\ Q!Key \in Q!Keys /\ cache[Q!Key].epoch \in Q!Epochs /\ Q!Key' = Q!Key /\ (Q!Wanted' <=> Q!Wanted)
        /\ cache[Q!Key].epoch = epoch[Q!Key] \/ Q!Key \in overtaken
    BY <1>1, QuoteTypes DEF QuoteInv, EntriesAreNew, Q!Key, Q!Wanted
  <1>3. PICK extra \in {{}, {Q!Asking(Q!Key, "refresh")}} : quoteRequests' = Q!Cancelled \cup extra
    BY DEF Q!FlushHits, Q!HitBehind
  <1>4. \A r \in quoteRequests' : /\ r.by # "effect" /\ r.read <= epoch[r.key]
                             /\ r \in [key : Q!Keys, read : Q!Epochs \cup {Q!Unread},
                                       by : {"effect", "cancelled", "refresh"}]
    <2> DEFINE new == Q!Asking(Q!Key, "refresh")
    <2>1. /\ new.by # "effect" /\ new.read = Q!Unread /\ new.key = Q!Key
          /\ new \in [key : Q!Keys, read : Q!Epochs \cup {Q!Unread}, by : {"effect", "cancelled", "refresh"}]
      BY <1>2 DEF Q!Asking
    <2>2. new.read <= epoch[new.key]
      BY <1>2, <2>1, QuoteTypes DEF Q!Unread
    <2> HIDE DEF new
    <2>3. \A r \in quoteRequests' : r \in Q!Cancelled \/ r = new
      BY <1>3 DEF new
    <2> QED BY <2>1, <2>2, <2>3, Cancels
  <1>5. Q!QuoteTypeOK'
    <2>1. shown \in [key : Q!Keys, epoch : Q!Epochs, late : BOOLEAN]
      BY <1>2
    <2> HIDE DEF shown
    <2> QED BY <1>1, <1>4, <2>1 DEF QuoteInv, Q!QuoteTypeOK
  <1>6. Q!Asked("effect")' = {}
    BY <1>4 DEF Q!Asked
  <1>7. EffectIsWanted' /\ Q!LoadingIsTrue'
    BY <1>1, <1>6 DEF EffectIsWanted, Q!LoadingIsTrue
  <1>8. ReadsAreOld' /\ EntriesAreNew'
    BY <1>1, <1>4 DEF QuoteInv, ReadsAreOld, EntriesAreNew
  <1>9. Q!QuoteIsForParams' /\ Q!RefetchBypasses'
    <2>1. data'.key = Q!Key /\ data'.epoch = cache[Q!Key].epoch /\ params # NoParams
      BY <1>1 DEF Q!Wanted
    <2> QED BY <1>1, <1>2, <2>1 DEF Q!QuoteIsForParams, Q!RefetchBypasses
  <1> QED BY <1>5, <1>7, <1>8, <1>9 DEF QuoteInv

LEMMA FlushMissesKeeps ==
  ASSUME QuoteInv, Q!FlushMisses
  PROVE  QuoteInv'
  <1> DEFINE new == Q!Asking(Q!Key, "effect")
  <1>1. /\ Q!Wanted /\ due' \in BOOLEAN /\ failed' \in BOOLEAN /\ loading' /\ loading' \in BOOLEAN
        /\ quoteRequests' = Q!Cancelled \cup {new}
        /\ UNCHANGED <<params, enabled, data, cache, epoch, overtaken>>
    BY Zenon DEF Q!FlushMisses
  <1>2. Q!Key \in Q!Keys /\ Q!Key' = Q!Key /\ (Q!Wanted' <=> Q!Wanted)
    BY <1>1, QuoteTypes DEF Q!Key, Q!Wanted
  <1>3. /\ new.by = "effect" /\ new.read = Q!Unread /\ new.key = Q!Key
        /\ new \in [key : Q!Keys, read : Q!Epochs \cup {Q!Unread}, by : {"effect", "cancelled", "refresh"}]
    BY <1>2 DEF Q!Asking
  <1>4. new.read <= epoch[new.key]
    BY <1>2, <1>3, QuoteTypes DEF Q!Unread
  <1> HIDE DEF new
  <1>5. Q!QuoteTypeOK'
    BY <1>1, <1>3, Cancels DEF QuoteInv, Q!QuoteTypeOK
  <1>6. Q!Asked("effect")' = {new}
    BY <1>1, <1>3, Cancels DEF Q!Asked
  <1>7. EffectIsWanted' /\ Q!LoadingIsTrue'
    BY <1>1, <1>2, <1>3, <1>6 DEF EffectIsWanted, Q!LoadingIsTrue
  <1>8. ReadsAreOld' /\ EntriesAreNew'
    BY <1>1, <1>4, Cancels DEF QuoteInv, ReadsAreOld, EntriesAreNew
  <1>9. Q!QuoteIsForParams' /\ Q!RefetchBypasses'
    BY <1>1, <1>2 DEF QuoteInv, Q!QuoteIsForParams, Q!RefetchBypasses
  <1> QED BY <1>5, <1>7, <1>8, <1>9 DEF QuoteInv

LEMMA RefetchKeeps ==
  ASSUME QuoteInv, Q!Refetch
  PROVE  QuoteInv'
  <1>1. /\ params # NoParams /\ epoch[Q!Key] < MaxRefetches /\ due' /\ due' \in BOOLEAN
        /\ epoch' = [epoch EXCEPT ![Q!Key] = @ + 1]
        /\ cache' = [cache EXCEPT ![Q!Key] = Q!NoEntry] /\ overtaken' = overtaken \ {Q!Key}
        /\ UNCHANGED <<params, enabled, data, failed, loading, quoteRequests>>
    BY Zenon DEF Q!Refetch
  <1>2. Q!Key \in Q!Keys /\ epoch \in [Q!Keys -> Q!Epochs] /\ epoch[Q!Key] \in Nat /\ Q!Key' = Q!Key
    <2>1. params \in Params
      BY <1>1, QuoteTypes
    <2>2. Q!Key \in Q!Keys /\ Q!Key' = Q!Key
      BY <1>1, <2>1 DEF Q!Key, Q!Keys
    <2> QED BY <2>2, QuoteTypes
  <1>3. epoch[Q!Key] + 1 \in Q!Epochs
    BY <1>1, <1>2, CountsAssumption DEF Q!Epochs
  <1>4. /\ epoch' \in [Q!Keys -> Q!Epochs] /\ epoch'[Q!Key] = epoch[Q!Key] + 1
        /\ \A k \in Q!Keys : k # Q!Key => epoch'[k] = epoch[k]
    BY <1>1, <1>2, <1>3
  <1>5. \A k \in Q!Keys : epoch[k] <= epoch'[k] /\ epoch[k] \in Nat /\ epoch'[k] \in Nat
    BY <1>2, <1>4, QuoteTypes DEF Q!Epochs
  <1>6. Q!QuoteTypeOK'
    <2>1. cache' \in [Q!Keys -> [age : {"fresh", "stale"}, epoch : Q!Epochs] \cup {Q!NoEntry}]
      BY <1>1, <1>2 DEF QuoteInv, Q!QuoteTypeOK
    <2> QED BY <1>1, <1>4, <2>1 DEF QuoteInv, Q!QuoteTypeOK
  <1>7. EffectIsWanted' /\ Q!LoadingIsTrue' /\ Q!RefetchBypasses'
    BY <1>1 DEF QuoteInv, EffectIsWanted, Q!LoadingIsTrue, Q!RefetchBypasses, Q!Asked
  <1>8. ReadsAreOld'
    <2> SUFFICES ASSUME NEW r \in quoteRequests PROVE r.read <= epoch'[r.key]
      BY <1>1 DEF ReadsAreOld
    <2>1. r.read \in Int /\ r.key \in Q!Keys /\ r.read <= epoch[r.key]
      BY QuoteTypes DEF QuoteInv, ReadsAreOld, Q!Epochs, Q!Unread
    <2> QED BY <1>5, <2>1
  <1>9. EntriesAreNew'
    <2> SUFFICES ASSUME NEW k \in Q!Keys, cache'[k] # Q!NoEntry
                 PROVE  cache'[k].epoch = epoch'[k] \/ k \in overtaken'
      BY DEF EntriesAreNew
    <2>1. k # Q!Key /\ cache'[k] = cache[k]
      BY <1>1 DEF QuoteInv, Q!QuoteTypeOK
    <2> QED BY <1>1, <1>4, <2>1 DEF QuoteInv, EntriesAreNew
  <1>10. Q!QuoteIsForParams'
    BY <1>1, <1>2 DEF QuoteInv, Q!QuoteIsForParams
  <1> QED BY <1>6, <1>7, <1>8, <1>9, <1>10 DEF QuoteInv

LEMMA ComputeKeeps ==
  ASSUME QuoteInv, NEW r \in quoteRequests, Q!Compute(r)
  PROVE  QuoteInv'
  <1> DEFINE q == [r EXCEPT !.read = epoch[r.key]]
  <1>1. /\ quoteRequests' = (quoteRequests \ {r}) \cup {q}
        /\ UNCHANGED <<params, enabled, due, data, failed, loading, cache, epoch, overtaken>>
    BY DEF Q!Compute
  <1>2. r \in [key : Q!Keys, read : Q!Epochs \cup {Q!Unread}, by : {"effect", "cancelled", "refresh"}]
    BY DEF QuoteInv, Q!QuoteTypeOK
  <1>3. epoch[r.key] \in Q!Epochs /\ epoch[r.key] \in Nat
    BY <1>2, QuoteTypes
  <1>4. /\ q \in [key : Q!Keys, read : Q!Epochs \cup {Q!Unread}, by : {"effect", "cancelled", "refresh"}]
        /\ q.key = r.key /\ q.by = r.by /\ q.read = epoch[r.key]
    BY <1>2, <1>3
  <1> HIDE DEF q
  <1>5. Q!QuoteTypeOK'
    BY <1>1, <1>4 DEF QuoteInv, Q!QuoteTypeOK
  <1>6. \/ r.by = "effect" /\ Q!Asked("effect") = {r} /\ Q!Asked("effect")' = {q}
        \/ r.by # "effect" /\ Q!Asked("effect")' = Q!Asked("effect")
    BY <1>1, <1>4 DEF QuoteInv, Q!LoadingIsTrue, Q!Asked
  <1>7. EffectIsWanted'
    BY <1>1, <1>4, <1>6 DEF QuoteInv, EffectIsWanted, Q!Wanted, Q!Key
  <1>8. Q!LoadingIsTrue'
    <2>1. Q!Asked("effect") # {} <=> Q!Asked("effect")' # {}
      BY <1>6
    <2>2. \A s, t \in Q!Asked("effect")' : s = t
      BY <1>6 DEF QuoteInv, Q!LoadingIsTrue
    <2>3. (Q!Wanted' <=> Q!Wanted) /\ (due' <=> due) /\ (loading' <=> loading)
      BY <1>1 DEF Q!Wanted
    <2> QED BY <2>1, <2>2, <2>3 DEF QuoteInv, Q!LoadingIsTrue
  <1>9. ReadsAreOld'
    BY <1>1, <1>3, <1>4 DEF QuoteInv, ReadsAreOld
  <1>10. EntriesAreNew' /\ Q!QuoteIsForParams' /\ Q!RefetchBypasses'
    BY <1>1 DEF QuoteInv, EntriesAreNew, Q!QuoteIsForParams, Q!RefetchBypasses, Q!Wanted, Q!Key
  <1> QED BY <1>5, <1>7, <1>8, <1>9, <1>10 DEF QuoteInv

LEMMA QuoteAnswerKeeps ==
  ASSUME QuoteInv, NEW r \in quoteRequests, Q!Answer(r)
  PROVE  QuoteInv'
  <1> DEFINE entry == [age |-> "fresh", epoch |-> r.read]
             shown == [key |-> r.key, epoch |-> r.read, late |-> due]
  <1>1. /\ quoteRequests' = quoteRequests \ {r} /\ r.read # Q!Unread
        /\ cache' = [cache EXCEPT ![r.key] = entry]
        /\ overtaken' = IF r.read < epoch[r.key] THEN overtaken \cup {r.key} ELSE overtaken
        /\ UNCHANGED <<params, enabled, due, failed, epoch>>
    BY DEF Q!Answer
  <1>2. /\ r.key \in Q!Keys /\ r.read \in Q!Epochs /\ r.by \in {"effect", "cancelled", "refresh"}
        /\ r.read \in Nat /\ epoch[r.key] \in Nat /\ r.read <= epoch[r.key]
    BY <1>1, QuoteTypes DEF QuoteInv, ReadsAreOld, Q!Epochs
  <1>3. /\ \A k \in Q!Keys : k # r.key => cache'[k] = cache[k]
        /\ cache'[r.key] = entry /\ entry.epoch = r.read
    BY <1>1, <1>2 DEF QuoteInv, Q!QuoteTypeOK
  <1>4. /\ overtaken \subseteq overtaken' /\ overtaken' \subseteq Q!Keys
        /\ r.read = epoch[r.key] \/ r.key \in overtaken'
    BY <1>1, <1>2, QuoteTypes
  <1>5. \/ r.by = "effect" /\ data' = shown /\ ~loading' /\ loading' \in BOOLEAN
        \/ r.by # "effect" /\ data' = data /\ loading' = loading
    BY Zenon DEF Q!Answer
  <1>6. Q!QuoteTypeOK'
    <2>1. entry \in [age : {"fresh", "stale"}, epoch : Q!Epochs]
      BY <1>2
    <2>2. cache' \in [Q!Keys -> [age : {"fresh", "stale"}, epoch : Q!Epochs] \cup {Q!NoEntry}]
      BY <1>1, <1>2, <2>1 DEF QuoteInv, Q!QuoteTypeOK
    <2>3. shown \in [key : Q!Keys, epoch : Q!Epochs, late : BOOLEAN]
      BY <1>2, QuoteTypes
    <2>4. data' \in [key : Q!Keys, epoch : Q!Epochs, late : BOOLEAN] \cup {Q!NoQuote} /\ loading' \in BOOLEAN
      <3> HIDE DEF shown
      <3> QED BY <1>5, <2>3, QuoteTypes
    <2> QED BY <1>1, <1>4, <2>2, <2>4 DEF QuoteInv, Q!QuoteTypeOK
  <1>7. Q!Asked("effect")' = Q!Asked("effect") \ {r}
    BY <1>1 DEF Q!Asked
  <1>8. EffectIsWanted' /\ ReadsAreOld'
    BY <1>1, <1>7 DEF QuoteInv, EffectIsWanted, ReadsAreOld, Q!Wanted, Q!Key
  <1>9. EntriesAreNew'
    BY <1>1, <1>3, <1>4 DEF QuoteInv, EntriesAreNew
  <1>10. Q!LoadingIsTrue'
    <2>1. \/ r.by = "effect" /\ Q!Asked("effect")' = {} /\ ~loading'
          \/ r.by # "effect" /\ Q!Asked("effect")' = Q!Asked("effect") /\ (loading' <=> loading)
      BY <1>5, <1>7 DEF QuoteInv, Q!LoadingIsTrue, Q!Asked
    <2>2. (Q!Wanted' <=> Q!Wanted) /\ (due' <=> due)
      BY <1>1 DEF Q!Wanted
    <2> QED BY <2>1, <2>2 DEF QuoteInv, Q!LoadingIsTrue
  <1>11. (Q!Wanted' <=> Q!Wanted) /\ Q!Key' = Q!Key /\ (due' <=> due) /\ (failed' <=> failed)
    BY <1>1 DEF Q!Wanted, Q!Key
  <1>12. Q!QuoteIsForParams' /\ Q!RefetchBypasses'
    <2>1. CASE r.by = "effect"
      <3>1. data' = shown /\ ~loading'
        BY <1>5, <2>1
      <3>2. data'.key = r.key /\ data'.epoch = r.read /\ (data'.late <=> due)
        BY <3>1, QuoteTypes
      <3>3. ~due => Q!Wanted /\ r.key = Q!Key
        BY <2>1 DEF QuoteInv, EffectIsWanted, Q!Asked
      <3>4. Q!QuoteIsForParams'
        BY <1>1, <1>11, <3>2, <3>3 DEF Q!QuoteIsForParams, Q!Wanted
      <3>5. Q!RefetchBypasses'
        BY <1>1, <1>4, <1>11, <3>2 DEF Q!RefetchBypasses
      <3> QED BY <3>4, <3>5
    <2>2. CASE r.by # "effect"
      <3>1. data' = data /\ (loading' <=> loading)
        BY <1>5, <2>2
      <3>2. Q!QuoteIsForParams'
        BY <1>1, <1>11, <3>1 DEF QuoteInv, Q!QuoteIsForParams
      <3>3. Q!RefetchBypasses'
        BY <1>1, <1>4, <1>11, <3>1 DEF QuoteInv, Q!RefetchBypasses
      <3> QED BY <3>2, <3>3
    <2> QED BY <2>1, <2>2
  <1> QED BY <1>6, <1>8, <1>9, <1>10, <1>12 DEF QuoteInv

LEMMA QuoteFailKeeps ==
  ASSUME QuoteInv, NEW r \in quoteRequests, Q!Fail(r)
  PROVE  QuoteInv'
  <1>1. /\ quoteRequests' = quoteRequests \ {r}
        /\ UNCHANGED <<params, enabled, due, data, cache, epoch, overtaken>>
    BY DEF Q!Fail
  <1>2. \/ r.by = "effect" /\ failed' /\ failed' \in BOOLEAN /\ ~loading' /\ loading' \in BOOLEAN
        \/ r.by # "effect" /\ failed' = failed /\ loading' = loading
    BY Zenon DEF Q!Fail
  <1>3. Q!QuoteTypeOK'
    <2>1. failed' \in BOOLEAN /\ loading' \in BOOLEAN
      BY <1>2, QuoteTypes
    <2> QED BY <1>1, <2>1 DEF QuoteInv, Q!QuoteTypeOK
  <1>4. Q!Asked("effect")' = Q!Asked("effect") \ {r}
    BY <1>1 DEF Q!Asked
  <1>5. EffectIsWanted' /\ ReadsAreOld' /\ EntriesAreNew' /\ Q!QuoteIsForParams'
    BY <1>1, <1>4 DEF QuoteInv, EffectIsWanted, ReadsAreOld, EntriesAreNew, Q!QuoteIsForParams, Q!Wanted, Q!Key
  <1>6. (Q!Wanted' <=> Q!Wanted) /\ Q!Key' = Q!Key /\ (due' <=> due)
    BY <1>1 DEF Q!Wanted, Q!Key
  <1>7. Q!LoadingIsTrue'
    <2>1. \/ r.by = "effect" /\ Q!Asked("effect")' = {} /\ ~loading'
          \/ r.by # "effect" /\ Q!Asked("effect")' = Q!Asked("effect") /\ (loading' <=> loading)
      BY <1>2, <1>4 DEF QuoteInv, Q!LoadingIsTrue, Q!Asked
    <2> QED BY <1>6, <2>1 DEF QuoteInv, Q!LoadingIsTrue
  <1>8. Q!RefetchBypasses'
    BY <1>1, <1>2, <1>6 DEF QuoteInv, Q!RefetchBypasses
  <1> QED BY <1>3, <1>5, <1>7, <1>8 DEF QuoteInv

LEMMA AgesKeeps ==
  ASSUME QuoteInv, NEW k \in Q!Keys, Q!Ages(k)
  PROVE  QuoteInv'
  <1>1. cache[k] # Q!NoEntry /\ UNCHANGED <<params, enabled, due, data, failed, loading, quoteRequests, epoch, overtaken>>
    BY DEF Q!Ages
  <1>2. cache[k] \in [age : {"fresh", "stale"}, epoch : Q!Epochs] /\ cache[k].epoch \in Q!Epochs
    BY <1>1, QuoteTypes
  <1>3. PICK e \in [age : {"fresh", "stale"}, epoch : Q!Epochs] \cup {Q!NoEntry} :
              /\ cache' = [cache EXCEPT ![k] = e]
              /\ e # Q!NoEntry => e.epoch = cache[k].epoch
    <2> DEFINE old == [cache[k] EXCEPT !.age = "stale"]
    <2>1. CASE cache' = [cache EXCEPT ![k] = Q!NoEntry]
      BY <2>1, Zenon
    <2>2. CASE cache' = [cache EXCEPT ![k].age = "stale"]
      <3>1. cache' = [cache EXCEPT ![k] = old]
        BY <2>2, Zenon
      <3>2. old \in [age : {"fresh", "stale"}, epoch : Q!Epochs] /\ old.epoch = cache[k].epoch
        BY <1>2
      <3> HIDE DEF old
      <3> QED BY <3>1, <3>2
    <2> QED BY <2>1, <2>2 DEF Q!Ages
  <1>4. cache \in [Q!Keys -> [age : {"fresh", "stale"}, epoch : Q!Epochs] \cup {Q!NoEntry}]
    BY DEF QuoteInv, Q!QuoteTypeOK
  <1>5. /\ cache' \in [Q!Keys -> [age : {"fresh", "stale"}, epoch : Q!Epochs] \cup {Q!NoEntry}]
        /\ cache'[k] = e /\ \A j \in Q!Keys : j # k => cache'[j] = cache[j]
    BY <1>3, <1>4
  <1>6. Q!QuoteTypeOK'
    BY <1>1, <1>5 DEF QuoteInv, Q!QuoteTypeOK
  <1>7. EntriesAreNew'
    BY <1>1, <1>3, <1>5 DEF QuoteInv, EntriesAreNew
  <1>8. EffectIsWanted' /\ ReadsAreOld' /\ Q!LoadingIsTrue' /\ Q!QuoteIsForParams' /\ Q!RefetchBypasses'
    BY <1>1 DEF QuoteInv, EffectIsWanted, ReadsAreOld, Q!LoadingIsTrue, Q!QuoteIsForParams, Q!RefetchBypasses,
                Q!Wanted, Q!Key, Q!Asked
  <1> QED BY <1>6, <1>7, <1>8 DEF QuoteInv

LEMMA QuoteKeeps ==
  ASSUME QuoteInv, Q!QuoteNext
  PROVE  QuoteInv'
  BY RenderKeeps, FlushIdleKeeps, FlushHitsKeeps, FlushMissesKeeps, RefetchKeeps, ComputeKeeps,
     QuoteAnswerKeeps, QuoteFailKeeps, AgesKeeps
     DEF Q!QuoteNext

LEMMA QuoteStutters ==
  ASSUME QuoteInv, UNCHANGED Q!quoteVars
  PROVE  QuoteInv'
  BY DEF QuoteInv, Q!QuoteTypeOK, EffectIsWanted, ReadsAreOld, EntriesAreNew, Q!LoadingIsTrue, Q!QuoteIsForParams,
         Q!RefetchBypasses, Q!Wanted, Q!Key, Q!Asked, Q!quoteVars

LEMMA QuoteIsSound ==
  ASSUME QuoteInv
  PROVE  Q!QuoteHookSound
  BY DEF QuoteInv, Q!QuoteHookSound

-------------------------------------------------------------------------------
(* The invariant of a submission: what each request, each stored answer and the call say
   is true of the network, whatever is accepted meanwhile. *)
Stages == {"sent", "looking", "reserving", "submitting", "answered", "dead"}
Request == [key : S!Keys, tried : 0..Providers, open : BOOLEAN, unheard : BOOLEAN,
            stage : Stages, answer : S!Answers \cup {"none"}]

TrueAnswer(a, ch, el, env) == /\ a = "created" => ch # "unknown"
                              /\ a = "invalid" => env = "refused" \/ el
Sane(r, ch, el, env) ==
    /\ r \in Request
    /\ r.stage = "answered" <=> r.answer # "none"
    /\ r.stage \notin {"answered", "dead"} => r.tried < Providers
    /\ r.open => r.stage \in {"looking", "reserving", "submitting"}
    /\ r.stage = "submitting" => env = "sound"
    /\ TrueAnswer(r.answer, ch, el, env)

\* One request of a sequence is enough to explain an acceptance.
Accepting(r) == r.unheard \/ r.answer = "created"
Open(reqs) == {n \in DOMAIN reqs : reqs[n].open}
KeyLimit(c, reqs) == IF c = "queued" THEN Len(reqs) + 1 ELSE Len(reqs)

SaneRequests(reqs, ch, el, env) ==
    /\ reqs \in Seq(Request)
    /\ \A n \in DOMAIN reqs : Sane(reqs[n], ch, el, env)
SaneStore(st, ch, el, env) ==
    /\ st \in [S!Keys -> S!Answers \cup {"none"}]
    /\ \A k \in S!Keys : TrueAnswer(st[k], ch, el, env)
Accounted(reqs, ch, env) ==
    ch # "unknown" => env = "sound" /\ \E n \in DOMAIN reqs : Accepting(reqs[n])
Counting(reqs, srv, act, exp) ==
    /\ act = Cardinality(Open(reqs))
    /\ srv = "closed" /\ ~exp => Open(reqs) = {}
SaneCall(c, k, reqs, ch, el, env) ==
    /\ TrueAnswer(c, ch, el, env)
    /\ k \in 0..KeyLimit(c, reqs)
    /\ Len(reqs) <= MaxRequests
    /\ c = "waiting" => Len(reqs) > 0
    /\ c \notin {"idle"} => k > 0
Settings ==
    /\ S!TransactionTypeOK
    /\ envelope \in {"sound", "unreadable", "refused"}
    /\ call \in S!Answers \cup S!Ended \cup {"idle", "waiting", "backoff", "queued"}
    /\ keyGiven \in BOOLEAN /\ replaying \in BOOLEAN
    /\ retries \in 0..MaxRetries
    /\ locked \subseteq S!Keys
    /\ server \in {"up", "draining", "closed"} /\ expired \in BOOLEAN

SubmissionInv ==
    /\ Settings
    /\ SaneRequests(requests, chain, elapsed, envelope)
    /\ SaneStore(stored, chain, elapsed, envelope)
    /\ Accounted(requests, chain, envelope)
    /\ Counting(requests, server, active, expired)
    /\ SaneCall(call, key, requests, chain, elapsed, envelope)

-------------------------------------------------------------------------------
LEMMA RequestsAreFinite ==
  ASSUME NEW reqs \in Seq(Request)
  PROVE  /\ Len(reqs) \in Nat /\ DOMAIN reqs = 1..Len(reqs)
         /\ \A n \in DOMAIN reqs : reqs[n] \in Request
         /\ IsFiniteSet(Open(reqs)) /\ Cardinality(Open(reqs)) \in Nat
  <1>1. /\ Len(reqs) \in Nat /\ DOMAIN reqs = 1..Len(reqs)
        /\ \A n \in DOMAIN reqs : reqs[n] \in Request
    OBVIOUS
  <1>2. IsFiniteSet(1..Len(reqs))
    <2>1. Len(reqs) \in Int /\ 1 \in Int
      BY <1>1
    <2> QED BY <2>1, FS_Interval, Zenon
  <1>3. Open(reqs) \in SUBSET (1..Len(reqs))
    BY <1>1 DEF Open
  <1> QED BY <1>1, <1>2, <1>3, FS_Subset, FS_CardinalityType

\* The network's and the clock's own steps make nothing untrue.
Later(ch, el, ch2, el2) == (ch # "unknown" => ch2 # "unknown") /\ (el => el2)

LEMMA StaysTrue ==
  ASSUME NEW ch, NEW el, NEW ch2, NEW el2, NEW env, Later(ch, el, ch2, el2)
  PROVE  /\ \A a : TrueAnswer(a, ch, el, env) => TrueAnswer(a, ch2, el2, env)
         /\ \A r : Sane(r, ch, el, env) => Sane(r, ch2, el2, env)
         /\ \A reqs : SaneRequests(reqs, ch, el, env) => SaneRequests(reqs, ch2, el2, env)
         /\ \A st : SaneStore(st, ch, el, env) => SaneStore(st, ch2, el2, env)
         /\ \A c, k, reqs : SaneCall(c, k, reqs, ch, el, env) => SaneCall(c, k, reqs, ch2, el2, env)
  <1>1. \A a : TrueAnswer(a, ch, el, env) => TrueAnswer(a, ch2, el2, env)
    BY DEF Later, TrueAnswer
  <1>2. \A r : Sane(r, ch, el, env) => Sane(r, ch2, el2, env)
    BY <1>1 DEF Sane
  <1>3. \A reqs : SaneRequests(reqs, ch, el, env) => SaneRequests(reqs, ch2, el2, env)
    BY <1>2 DEF SaneRequests
  <1>4. \A st : SaneStore(st, ch, el, env) => SaneStore(st, ch2, el2, env)
    BY <1>1 DEF SaneStore
  <1>5. \A c, k, reqs : SaneCall(c, k, reqs, ch, el, env) => SaneCall(c, k, reqs, ch2, el2, env)
    BY <1>1 DEF SaneCall
  <1> QED BY <1>1, <1>2, <1>3, <1>4, <1>5

\* A sane request takes the place of another.
Replacing(reqs, n, r, new) ==
    /\ Len(new) = Len(reqs) /\ DOMAIN new = DOMAIN reqs
    /\ new[n] = r /\ \A m \in DOMAIN reqs : m # n => new[m] = reqs[m]
    /\ r.open => Open(new) = Open(reqs) \cup {n}
    /\ ~r.open => Open(new) = Open(reqs) \ {n}

LEMMA Replaced ==
  ASSUME NEW reqs, NEW ch, NEW el, NEW env, SaneRequests(reqs, ch, el, env),
         NEW n \in DOMAIN reqs, NEW r, Sane(r, ch, el, env), NEW new, new = [reqs EXCEPT ![n] = r]
  PROVE  SaneRequests(new, ch, el, env) /\ Replacing(reqs, n, r, new)
  <1>1. reqs \in Seq(Request) /\ r \in Request
    BY DEF SaneRequests, Sane
  <1>2. new \in Seq(Request) /\ Len(new) = Len(reqs) /\ DOMAIN new = DOMAIN reqs
    BY <1>1
  <1>3. new[n] = r /\ \A m \in DOMAIN reqs : m # n => new[m] = reqs[m]
    BY <1>1
  <1>4. SaneRequests(new, ch, el, env)
    BY <1>2, <1>3 DEF SaneRequests
  <1>5. /\ r.open => Open(new) = Open(reqs) \cup {n}
        /\ ~r.open => Open(new) = Open(reqs) \ {n}
    BY <1>2, <1>3 DEF Open
  <1> QED BY <1>2, <1>3, <1>4, <1>5 DEF Replacing

\* How many are open, after one of them changed.
LEMMA OpenCount ==
  ASSUME NEW reqs \in Seq(Request), NEW n \in DOMAIN reqs
  PROVE  /\ reqs[n].open => /\ Cardinality(Open(reqs) \cup {n}) = Cardinality(Open(reqs))
                            /\ Cardinality(Open(reqs) \ {n}) = Cardinality(Open(reqs)) - 1
         /\ ~reqs[n].open => /\ Cardinality(Open(reqs) \cup {n}) = Cardinality(Open(reqs)) + 1
                             /\ Cardinality(Open(reqs) \ {n}) = Cardinality(Open(reqs))
  <1>1. IsFiniteSet(Open(reqs)) /\ (n \in Open(reqs) <=> reqs[n].open)
    BY RequestsAreFinite DEF Open
  <1> QED BY <1>1, FS_AddElement, FS_RemoveElement

\* What the handlers do to one request keeps all that is said of requests.
Counted1(r, q, act) == IF q.open THEN IF r.open THEN act ELSE act + 1
                                 ELSE IF r.open THEN act - 1 ELSE act

Keeping(reqs, new, n, r, ch, el, env, srv, act2, exp) ==
    /\ SaneRequests(new, ch, el, env) /\ Counting(new, srv, act2, exp)
    /\ Len(new) = Len(reqs) /\ new[n] = r /\ DOMAIN new = DOMAIN reqs
    /\ Accounted(reqs, ch, env) => Accounted(new, ch, env)

LEMMA RequestKeeps ==
  ASSUME NEW reqs, NEW ch, NEW el, NEW env, SaneRequests(reqs, ch, el, env),
         NEW srv, NEW act, NEW exp, Counting(reqs, srv, act, exp),
         NEW n \in DOMAIN reqs, NEW r, Sane(r, ch, el, env), Accepting(reqs[n]) => Accepting(r),
         r.open /\ ~reqs[n].open => srv = "up",
         NEW act2, act2 = Counted1(reqs[n], r, act),
         NEW new, new = [reqs EXCEPT ![n] = r]
  PROVE  Keeping(reqs, new, n, r, ch, el, env, srv, act2, exp)
  <1>1. SaneRequests(new, ch, el, env) /\ Replacing(reqs, n, r, new)
    BY Replaced, Zenon
  <1>2. reqs \in Seq(Request) /\ Sane(reqs[n], ch, el, env)
    BY DEF SaneRequests
  <1>3. act = Cardinality(Open(reqs)) /\ act \in Nat
    BY <1>2, RequestsAreFinite DEF Counting
  <1>7. r.open \in BOOLEAN /\ reqs[n].open \in BOOLEAN
    BY <1>2 DEF Sane, Request
  <1>4. act2 = Cardinality(Open(new))
    <2>1. CASE r.open
      <3>1. Open(new) = Open(reqs) \cup {n}
        BY <1>1, <2>1 DEF Replacing
      <3>2. CASE reqs[n].open
        <4>1. act2 = act
          BY <2>1, <3>2, Zenon DEF Counted1
        <4> QED BY <1>2, <1>3, <3>1, <3>2, <4>1, OpenCount
      <3>3. CASE ~reqs[n].open
        <4>1. act2 = act + 1
          BY <2>1, <3>3, Zenon DEF Counted1
        <4> QED BY <1>2, <1>3, <3>1, <3>3, <4>1, OpenCount
      <3> QED BY <3>2, <3>3
    <2>2. CASE ~r.open
      <3>1. Open(new) = Open(reqs) \ {n}
        BY <1>1, <2>2 DEF Replacing
      <3>2. CASE reqs[n].open
        <4>1. act2 = act - 1
          BY <2>2, <3>2, Zenon DEF Counted1
        <4> QED BY <1>2, <1>3, <3>1, <3>2, <4>1, OpenCount
      <3>3. CASE ~reqs[n].open
        <4>1. act2 = act
          BY <2>2, <3>3, Zenon DEF Counted1
        <4> QED BY <1>2, <1>3, <3>1, <3>3, <4>1, OpenCount
      <3> QED BY <3>2, <3>3
    <2> QED BY <2>1, <2>2
  <1>5. srv = "closed" /\ ~exp => Open(new) = {}
    <2> SUFFICES ASSUME srv = "closed", ~exp PROVE Open(new) = {}
      OBVIOUS
    <2>1. Open(reqs) = {}
      BY DEF Counting
    <2>2. ~r.open
      BY <2>1 DEF Open
    <2> QED BY <1>1, <2>1, <2>2 DEF Replacing
  <1>6. Accounted(reqs, ch, env) => Accounted(new, ch, env)
    BY <1>1 DEF Accounted, Replacing
  <1> QED BY <1>1, <1>4, <1>5, <1>6 DEF Counting, Keeping, Replacing

\* The fields of a request.
LEMMA RequestFields ==
  ASSUME NEW r \in Request
  PROVE  /\ r.key \in S!Keys /\ r.tried \in 0..Providers /\ r.open \in BOOLEAN
         /\ r.unheard \in BOOLEAN /\ r.stage \in Stages /\ r.answer \in S!Answers \cup {"none"}
         /\ r = [key |-> r.key, tried |-> r.tried, open |-> r.open, unheard |-> r.unheard,
                 stage |-> r.stage, answer |-> r.answer]
  BY DEF Request

\* A request that is answered.
Over(r, a) == [r EXCEPT !.stage = "answered", !.answer = a, !.open = FALSE]

LEMMA AnsweredIsSane ==
  ASSUME NEW r, NEW ch, NEW el, NEW env, Sane(r, ch, el, env), r.stage # "answered",
         NEW a \in S!Answers, TrueAnswer(a, ch, el, env), NEW q, q = Over(r, a)
  PROVE  /\ Sane(q, ch, el, env)
         /\ Accepting(r) => Accepting(q)
  <1>1. r \in Request /\ r.answer = "none"
    BY DEF Sane
  <1>2. q \in Request /\ q.stage = "answered" /\ q.answer = a /\ q.open = FALSE /\ q.unheard = r.unheard
    BY <1>1 DEF Request, Stages, Over
  <1>3. a # "none"
    BY DEF S!Answers
  <1> QED BY <1>1, <1>2, <1>3 DEF Sane, Accepting

LEMMA FinishKeeps ==
  ASSUME NEW n \in S!Numbers, requests[n].stage \in {"looking", "reserving", "submitting"},
         NEW a \in S!Answers, NEW ch, NEW el, TrueAnswer(a, ch, el, envelope),
         SaneRequests(requests, ch, el, envelope), Counting(requests, server, active, expired),
         S!Finish(n, a)
  PROVE  \E q : /\ q.answer = a
                /\ Keeping(requests, requests', n, q, ch, el, envelope, server, active', expired)
  <1> DEFINE r == requests[n]
             q == Over(r, a)
  <1>1. n \in DOMAIN requests /\ Sane(r, ch, el, envelope) /\ r.stage # "answered"
    BY DEF S!Numbers, SaneRequests
  <1>2. requests' = [requests EXCEPT ![n] = q] /\ active' = IF r.open THEN active - 1 ELSE active
    BY Zenon DEF S!Finish, S!Released, Over
  <1> HIDE DEF r
  <1>3. q = Over(r, a)
    OBVIOUS
  <1> HIDE DEF q
  <1>4. Sane(q, ch, el, envelope) /\ (Accepting(r) => Accepting(q)) /\ q.answer = a /\ ~q.open
    <2>1. Sane(r, ch, el, envelope) /\ r.stage # "answered" /\ a \in S!Answers /\ TrueAnswer(a, ch, el, envelope)
      BY <1>1
    <2>2. q = Over(r, a)
      BY <1>3
    <2>3. Sane(q, ch, el, envelope)
      BY <2>1, <2>2, AnsweredIsSane, Zenon
    <2>4. Accepting(r) => Accepting(q)
      BY <2>1, <2>2, AnsweredIsSane, Zenon
    <2>5. q.answer = a /\ ~q.open
      BY <2>1, <2>2 DEF Sane, Request, Over
    <2> QED BY <2>3, <2>4, <2>5
  <1>5. active' = Counted1(r, q, active)
    BY <1>2, <1>4, Zenon DEF Counted1
  <1> DEFINE count == active'
  <1>6. count = Counted1(requests[n], q, active) /\ (Accepting(requests[n]) => Accepting(q))
    BY <1>4, <1>5 DEF r
  <1> HIDE DEF count
  <1>7. q.open /\ ~requests[n].open => server = "up"
    BY <1>4
  <1>8. Keeping(requests, requests', n, q, ch, el, envelope, server, count, expired)
    BY <1>1, <1>2, <1>4, <1>6, <1>7, RequestKeeps, Zenon
  <1> QED BY <1>4, <1>8 DEF count

\* The invariant's parts that a handler's step leaves alone.
LEMMA CallKeeps ==
  ASSUME NEW ch, NEW el, SaneCall(call, key, requests, ch, el, envelope),
         UNCHANGED S!callVars, Len(requests') = Len(requests)
  PROVE  SaneCall(call', key', requests', ch, el, envelope')
  BY DEF SaneCall, S!callVars, KeyLimit

LEMMA StoredIsSane ==
  ASSUME NEW st, NEW ch, NEW el, NEW env, SaneStore(st, ch, el, env), NEW k \in S!Keys,
         NEW a \in S!Answers, TrueAnswer(a, ch, el, env), NEW new, new = [st EXCEPT ![k] = a]
  PROVE  SaneStore(new, ch, el, env)
  <1>1. new \in [S!Keys -> S!Answers \cup {"none"}] /\ new[k] = a
    BY DEF SaneStore
  <1>2. \A j \in S!Keys : j # k => new[j] = st[j]
    BY DEF SaneStore
  <1> QED BY <1>1, <1>2 DEF SaneStore

LEMMA HandlerKeeps ==
  ASSUME SubmissionInv, UNCHANGED S!callVars, Later(chain, elapsed, chain', elapsed'),
         S!TransactionTypeOK', locked' \subseteq S!Keys,
         server' \in {"up", "draining", "closed"}, expired' \in BOOLEAN,
         SaneRequests(requests', chain', elapsed', envelope), Len(requests') = Len(requests),
         Counting(requests', server', active', expired'),
         Accounted(requests', chain', envelope),
         SaneStore(stored', chain', elapsed', envelope)
  PROVE  SubmissionInv'
  <1>1. /\ envelope' = envelope /\ call' = call /\ keyGiven' = keyGiven /\ key' = key
        /\ replaying' = replaying /\ retries' = retries
    BY DEF S!callVars
  <1>2. Settings'
    BY <1>1 DEF SubmissionInv, Settings
  <1>3. SaneCall(call, key, requests, chain', elapsed', envelope)
    BY StaysTrue DEF SubmissionInv
  <1>4. SaneCall(call', key', requests', chain', elapsed', envelope')
    BY <1>3, CallKeeps
  <1> QED BY <1>1, <1>2, <1>4 DEF SubmissionInv

\* The same, where the step gives one request its answer.
LEMMA FinishingKeeps ==
  ASSUME SubmissionInv, Later(chain, elapsed, chain', elapsed'), S!TransactionTypeOK',
         NEW n \in S!Numbers, requests[n].stage \in {"looking", "reserving", "submitting"},
         NEW a \in S!Answers, TrueAnswer(a, chain', elapsed', envelope), S!Finish(n, a),
         chain' = chain \/ (a = "created" /\ envelope = "sound"), locked' \subseteq S!Keys,
         SaneStore(stored', chain', elapsed', envelope)
  PROVE  SubmissionInv'
  <1>1. SaneRequests(requests, chain', elapsed', envelope)
    BY StaysTrue DEF SubmissionInv
  <1>2. Counting(requests, server, active, expired)
    BY DEF SubmissionInv
  <1>3. PICK q : /\ q.answer = a
                 /\ Keeping(requests, requests', n, q, chain', elapsed', envelope, server, active', expired)
    <2> DEFINE ch == chain'
               el == elapsed'
    <2>1. TrueAnswer(a, ch, el, envelope) /\ SaneRequests(requests, ch, el, envelope)
      BY <1>1
    <2> HIDE DEF ch, el
    <2>2. \E q : /\ q.answer = a
                 /\ Keeping(requests, requests', n, q, ch, el, envelope, server, active', expired)
      BY <1>2, <2>1, FinishKeeps, Zenon
    <2> QED BY <2>2 DEF ch, el
  <1>4. /\ SaneRequests(requests', chain', elapsed', envelope)
        /\ Counting(requests', server, active', expired)
        /\ Len(requests') = Len(requests) /\ requests'[n] = q /\ DOMAIN requests' = DOMAIN requests
        /\ Accounted(requests, chain', envelope) => Accounted(requests', chain', envelope)
    BY <1>3 DEF Keeping
  <1>5. Accounted(requests', chain', envelope)
    <2>1. CASE chain' = chain
      BY <1>4, <2>1 DEF SubmissionInv
    <2>2. CASE a = "created" /\ envelope = "sound"
      BY <1>3, <1>4, <2>2 DEF Accounted, Accepting, S!Numbers
    <2> QED BY <2>1, <2>2
  <1>6. UNCHANGED <<S!callVars, server, expired>>
    BY DEF S!Finish
  <1>7. server' \in {"up", "draining", "closed"} /\ expired' \in BOOLEAN
    BY <1>6 DEF SubmissionInv, Settings
  <1>8. UNCHANGED S!callVars /\ server' = server /\ expired' = expired
    BY <1>6
  <1> QED BY <1>4, <1>5, <1>7, <1>8, HandlerKeeps

\* The same, where the network does not notice and the request is not answered yet.
LEMMA WorkingKeeps ==
  ASSUME SubmissionInv, UNCHANGED <<chain, elapsed, S!callVars, stored, server, expired>>,
         S!TransactionTypeOK', locked' \subseteq S!Keys,
         NEW n \in S!Numbers, NEW q, Sane(q, chain, elapsed, envelope),
         Accepting(requests[n]) => Accepting(q), q.open /\ ~requests[n].open => server = "up",
         requests' = [requests EXCEPT ![n] = q], active' = Counted1(requests[n], q, active)
  PROVE  SubmissionInv'
  <1>1. /\ SaneRequests(requests, chain, elapsed, envelope)
        /\ Counting(requests, server, active, expired) /\ n \in DOMAIN requests
        /\ Accounted(requests, chain, envelope) /\ SaneStore(stored, chain, elapsed, envelope)
    BY DEF SubmissionInv, S!Numbers
  <1>2. Keeping(requests, requests', n, q, chain, elapsed, envelope, server, active', expired)
    BY <1>1, RequestKeeps, Zenon
  <1>3. /\ chain' = chain /\ elapsed' = elapsed /\ stored' = stored /\ server' = server
        /\ expired' = expired /\ UNCHANGED S!callVars
    OBVIOUS
  <1>4. Later(chain, elapsed, chain', elapsed')
    BY <1>3 DEF Later
  <1>5. /\ SaneRequests(requests', chain', elapsed', envelope)
        /\ Counting(requests', server', active', expired')
        /\ Len(requests') = Len(requests) /\ Accounted(requests', chain', envelope)
        /\ SaneStore(stored', chain', elapsed', envelope)
    BY <1>1, <1>2, <1>3 DEF Keeping
  <1>6. server' \in {"up", "draining", "closed"} /\ expired' \in BOOLEAN
    BY <1>3 DEF SubmissionInv, Settings
  <1> QED BY <1>3, <1>4, <1>5, <1>6, HandlerKeeps

-------------------------------------------------------------------------------
(* The handlers' steps. *)
\* What the invariant says of the request that a handler works on.
AboutRequest(n) ==
    /\ n \in DOMAIN requests /\ Sane(requests[n], chain, elapsed, envelope) /\ requests[n] \in Request
    /\ locked \subseteq S!Keys /\ S!TransactionTypeOK
    /\ SaneStore(stored, chain, elapsed, envelope)

LEMMA OfRequest ==
  ASSUME SubmissionInv, NEW n \in S!Numbers
  PROVE  AboutRequest(n)
  BY DEF SubmissionInv, Settings, SaneRequests, Sane, S!Numbers, AboutRequest

LEMMA ArriveKeeps ==
  ASSUME SubmissionInv, NEW n \in S!Numbers, S!Arrive(n)
  PROVE  SubmissionInv'
  <1> DEFINE r == requests[n]
  <1>1. AboutRequest(n)
    BY OfRequest
  <1>2. /\ r \in Request /\ Sane(r, chain, elapsed, envelope) /\ r.stage = "sent"
        /\ ~r.open /\ r.answer = "none" /\ r.tried < Providers
    BY <1>1 DEF AboutRequest, Sane, S!Arrive
  <1>3. UNCHANGED <<chain, elapsed, S!callVars, stored, server, expired>> /\ S!TransactionTypeOK'
        /\ locked' \subseteq S!Keys
    BY <1>1 DEF AboutRequest, S!Arrive, S!transaction, S!keyVars, S!TransactionTypeOK
  <1>4. CASE server = "up"
    <2> DEFINE q == [r EXCEPT !.stage = "looking", !.open = TRUE]
    <2>1. requests' = [requests EXCEPT ![n] = q] /\ active' = active + 1
      BY <1>4, Zenon DEF S!Arrive
    <2>2. /\ q \in Request /\ q.stage = "looking" /\ q.open = TRUE /\ q.answer = r.answer
          /\ q.tried = r.tried /\ q.unheard = r.unheard
      BY <1>2 DEF Request, Stages
    <2> HIDE DEF q
    <2>3. Sane(q, chain, elapsed, envelope) /\ (Accepting(r) => Accepting(q))
      BY <1>2, <2>2 DEF Sane, Accepting, TrueAnswer
    <2>4. active' = Counted1(requests[n], q, active)
      BY <1>2, <2>1, <2>2, Zenon DEF Counted1
    <2> QED BY <1>3, <1>4, <2>1, <2>3, <2>4, WorkingKeeps
  <1>5. CASE server # "up"
    <2> DEFINE q == [r EXCEPT !.stage = "answered", !.answer = "unavailable"]
    <2>1. requests' = [requests EXCEPT ![n] = q] /\ active' = active
      BY <1>5, Zenon DEF S!Arrive
    <2>2. /\ q \in Request /\ q.stage = "answered" /\ q.open = r.open /\ q.answer = "unavailable"
          /\ q.tried = r.tried /\ q.unheard = r.unheard
      BY <1>2 DEF Request, Stages, S!Answers
    <2> HIDE DEF q
    <2>3. Sane(q, chain, elapsed, envelope) /\ (Accepting(r) => Accepting(q)) /\ ~q.open
      BY <1>2, <2>2 DEF Sane, Accepting, TrueAnswer
    <2>4. active' = Counted1(requests[n], q, active)
      BY <1>2, <2>1, <2>3, Zenon DEF Counted1
    <2> QED BY <1>3, <2>1, <2>3, <2>4, WorkingKeeps
  <1> QED BY <1>4, <1>5

LEMMA HangUpKeeps ==
  ASSUME SubmissionInv, NEW n \in S!Numbers, S!HangUp(n)
  PROVE  SubmissionInv'
  <1> DEFINE r == requests[n]
             q == [r EXCEPT !.open = FALSE]
  <1>1. AboutRequest(n)
    BY OfRequest
  <1>2. /\ r \in Request /\ Sane(r, chain, elapsed, envelope) /\ r.open
    BY <1>1 DEF AboutRequest, S!HangUp
  <1>3. UNCHANGED <<chain, elapsed, S!callVars, stored, server, expired>> /\ S!TransactionTypeOK'
        /\ locked' \subseteq S!Keys
    BY <1>1 DEF AboutRequest, S!HangUp, S!transaction, S!keyVars, S!TransactionTypeOK
  <1>4. requests' = [requests EXCEPT ![n] = q] /\ active' = active - 1
    BY <1>2, Zenon DEF S!HangUp, S!Released
  <1>5. /\ q \in Request /\ q.stage = r.stage /\ q.open = FALSE /\ q.answer = r.answer
        /\ q.tried = r.tried /\ q.unheard = r.unheard
    BY <1>2 DEF Request
  <1> HIDE DEF q
  <1>6. Sane(q, chain, elapsed, envelope) /\ (Accepting(r) => Accepting(q)) /\ ~q.open
    BY <1>2, <1>5 DEF Sane, Accepting
  <1>7. active' = Counted1(requests[n], q, active)
    BY <1>2, <1>4, <1>6, Zenon DEF Counted1
  <1> QED BY <1>3, <1>4, <1>6, <1>7, WorkingKeeps

LEMMA SameNetwork ==
  ASSUME UNCHANGED <<chain, elapsed>>
  PROVE  Later(chain, elapsed, chain', elapsed')
  BY DEF Later

LEMMA LookKeeps ==
  ASSUME SubmissionInv, NEW n \in S!Numbers, S!Look(n)
  PROVE  SubmissionInv'
  <1> DEFINE r == requests[n]
             a == stored[r.key]
  <1>1. AboutRequest(n)
    BY OfRequest
  <1>2. /\ r \in Request /\ Sane(r, chain, elapsed, envelope) /\ r.stage = "looking"
        /\ r.answer = "none" /\ r.tried < Providers /\ r.key \in S!Keys
    BY <1>1 DEF AboutRequest, Sane, S!Look, Request
  <1>3. /\ UNCHANGED <<chain, elapsed, stored>> /\ S!TransactionTypeOK' /\ locked' \subseteq S!Keys
        /\ SaneStore(stored', chain', elapsed', envelope)
    BY <1>1 DEF AboutRequest, S!Look, S!transaction, S!keyVars, S!TransactionTypeOK, SaneStore
  <1>4. CASE a # "none"
    <2>1. S!Finish(n, a)
      BY <1>4, Zenon DEF S!Look
    <2>2. a \in S!Answers /\ TrueAnswer(a, chain', elapsed', envelope)
      BY <1>1, <1>2, <1>3, <1>4 DEF AboutRequest, SaneStore
    <2> HIDE DEF a
    <2> QED BY <1>2, <1>3, <2>1, <2>2, SameNetwork, FinishingKeeps
  <1>5. CASE a = "none"
    <2> DEFINE q == [r EXCEPT !.stage = "reserving"]
    <2>1. requests' = [requests EXCEPT ![n] = q] /\ UNCHANGED <<S!callVars, S!serverVars>>
      BY <1>5, Zenon DEF S!Look
    <2>2. /\ q \in Request /\ q.stage = "reserving" /\ q.open = r.open /\ q.answer = r.answer
          /\ q.tried = r.tried /\ q.unheard = r.unheard
      BY <1>2 DEF Request, Stages
    <2> HIDE DEF q
    <2>3. Sane(q, chain, elapsed, envelope) /\ (Accepting(r) => Accepting(q))
      BY <1>2, <2>2 DEF Sane, Accepting
    <2>4. active' = Counted1(requests[n], q, active) /\ UNCHANGED <<S!callVars, server, expired>>
      <3>1. active' = active /\ UNCHANGED <<S!callVars, server, expired>>
        BY <2>1 DEF S!serverVars
      <3> QED BY <2>2, <3>1, Zenon DEF Counted1
    <2> QED BY <1>3, <2>1, <2>2, <2>3, <2>4, WorkingKeeps
  <1> QED BY <1>4, <1>5

\* An answer of a handler is stored, and true.
LEMMA RespondKeeps ==
  ASSUME SubmissionInv, Later(chain, elapsed, chain', elapsed'), S!TransactionTypeOK',
         NEW n \in S!Numbers, requests[n].stage \in {"looking", "reserving", "submitting"},
         NEW a \in S!Answers, TrueAnswer(a, chain', elapsed', envelope), S!Respond(n, a),
         chain' = chain \/ (a = "created" /\ envelope = "sound")
  PROVE  SubmissionInv'
  <1>1. AboutRequest(n)
    BY OfRequest
  <1>2. S!Finish(n, a) /\ locked' \subseteq S!Keys
    BY <1>1 DEF S!Respond, AboutRequest
  <1> DEFINE ch == chain'
             el == elapsed'
  <1>3. SaneStore(stored, ch, el, envelope) /\ requests[n].key \in S!Keys
    BY <1>1, StaysTrue DEF AboutRequest, Request
  <1>4. SaneStore(stored', ch, el, envelope)
    <2>1. CASE a = "unavailable"
      BY <1>3, <2>1 DEF S!Respond
    <2>2. CASE a # "unavailable"
      <3>1. stored' = [stored EXCEPT ![requests[n].key] = a]
        BY <2>2, Zenon DEF S!Respond
      <3>2. TrueAnswer(a, ch, el, envelope)
        OBVIOUS
      <3> HIDE DEF ch, el
      <3> QED BY <1>3, <3>1, <3>2, StoredIsSane, Zenon
    <2> QED BY <2>1, <2>2
  <1> QED BY <1>2, <1>4, FinishingKeeps

LEMMA ReserveKeeps ==
  ASSUME SubmissionInv, NEW n \in S!Numbers, S!Reserve(n)
  PROVE  SubmissionInv'
  <1> DEFINE r == requests[n]
  <1>1. AboutRequest(n)
    BY OfRequest
  <1>2. /\ r \in Request /\ Sane(r, chain, elapsed, envelope) /\ r.stage = "reserving"
        /\ r.answer = "none" /\ r.tried < Providers /\ r.key \in S!Keys
    BY <1>1 DEF AboutRequest, Sane, S!Reserve, Request
  <1>3. UNCHANGED <<chain, elapsed, lagging>> /\ Later(chain, elapsed, chain', elapsed')
    BY SameNetwork DEF S!Reserve
  <1>4. CASE r.key \in locked /\ S!Finish(n, "conflict") /\ UNCHANGED <<S!keyVars, tracked>>
    <2>1. "conflict" \in S!Answers /\ TrueAnswer("conflict", chain', elapsed', envelope)
      BY DEF S!Answers, TrueAnswer
    <2>2. S!TransactionTypeOK' /\ locked' \subseteq S!Keys /\ SaneStore(stored', chain', elapsed', envelope)
      BY <1>1, <1>3, <1>4 DEF AboutRequest, S!keyVars, S!TransactionTypeOK, SaneStore
    <2>3. chain' = chain /\ r.stage \in {"looking", "reserving", "submitting"}
      BY <1>2, <1>3
    <2> QED BY <1>3, <1>4, <2>1, <2>2, <2>3, FinishingKeeps
  <1>5. CASE S!Respond(n, IF S!Refuses THEN "invalid" ELSE "unavailable") /\ UNCHANGED tracked
    <2>1. PICK a \in {"invalid", "unavailable"} : S!Respond(n, a) /\ (a = "invalid" => S!Refuses)
      <3>1. CASE S!Refuses
        BY <1>5, <3>1, Zenon
      <3>2. CASE ~S!Refuses
        BY <1>5, <3>2, Zenon
      <3> QED BY <3>1, <3>2
    <2>2. a \in S!Answers /\ TrueAnswer(a, chain', elapsed', envelope)
      BY <1>3, <2>1 DEF S!Answers, TrueAnswer, S!Refuses
    <2>3. S!TransactionTypeOK'
      BY <1>1, <1>3, <1>5 DEF AboutRequest, S!TransactionTypeOK
    <2>4. chain' = chain /\ r.stage \in {"looking", "reserving", "submitting"}
      BY <1>2, <1>3
    <2> QED BY <1>3, <2>1, <2>2, <2>3, <2>4, RespondKeeps
  <1>6. CASE /\ ~S!Refuses /\ envelope = "sound"
             /\ locked' = locked \cup {requests[n].key}
             /\ tracked' = TRUE
             /\ requests' = [requests EXCEPT ![n].stage = "submitting"]
             /\ UNCHANGED <<stored, S!callVars, S!serverVars>>
    <2> DEFINE q == [r EXCEPT !.stage = "submitting"]
    <2>1. requests' = [requests EXCEPT ![n] = q]
      BY <1>6, Zenon
    <2>2. /\ q \in Request /\ q.stage = "submitting" /\ q.open = r.open /\ q.answer = r.answer
          /\ q.tried = r.tried /\ q.unheard = r.unheard
      BY <1>2 DEF Request, Stages
    <2> HIDE DEF q
    <2>3. Sane(q, chain, elapsed, envelope) /\ (Accepting(r) => Accepting(q))
      BY <1>2, <1>6, <2>2 DEF Sane, Accepting
    <2>4. active' = Counted1(requests[n], q, active)
      <3>1. active' = active
        BY <1>6 DEF S!serverVars
      <3> QED BY <2>2, <3>1, Zenon DEF Counted1
    <2>5. S!TransactionTypeOK' /\ locked' \subseteq S!Keys
      BY <1>1, <1>2, <1>3, <1>6 DEF AboutRequest, S!TransactionTypeOK
    <2>6. UNCHANGED <<chain, elapsed, S!callVars, stored, server, expired>>
      BY <1>3, <1>6 DEF S!serverVars
    <2> QED BY <2>1, <2>2, <2>3, <2>4, <2>5, <2>6, WorkingKeeps
  <1> QED BY <1>4, <1>5, <1>6 DEF S!Reserve

LEMMA ProviderAcceptsKeeps ==
  ASSUME SubmissionInv, NEW n \in S!Numbers, S!ProviderAccepts(n)
  PROVE  SubmissionInv'
  <1>1. AboutRequest(n)
    BY OfRequest
  <1>2. requests[n].stage = "submitting" /\ envelope = "sound"
    BY <1>1 DEF AboutRequest, Sane, S!ProviderAccepts, S!Sending
  <1>3. /\ Later(chain, elapsed, chain', elapsed') /\ S!TransactionTypeOK' /\ chain' # "unknown"
        /\ S!Respond(n, "created")
    BY <1>1 DEF AboutRequest, S!ProviderAccepts, S!Accepted, Later, S!TransactionTypeOK
  <1>4. "created" \in S!Answers /\ TrueAnswer("created", chain', elapsed', envelope)
    BY <1>3 DEF S!Answers, TrueAnswer
  <1> QED BY <1>2, <1>3, <1>4, RespondKeeps

LEMMA ProviderRefusesKeeps ==
  ASSUME SubmissionInv, NEW n \in S!Numbers, S!ProviderRefuses(n)
  PROVE  SubmissionInv'
  <1>1. AboutRequest(n)
    BY OfRequest
  <1>2. requests[n].stage = "submitting"
    BY DEF S!ProviderRefuses, S!Sending
  <1>3. /\ Later(chain, elapsed, chain', elapsed') /\ S!TransactionTypeOK' /\ chain' = chain
    BY <1>1 DEF AboutRequest, S!ProviderRefuses, S!transaction, Later, S!TransactionTypeOK
  <1>4. PICK a \in {"rejected", "unavailable"} : S!Respond(n, a)
    BY DEF S!ProviderRefuses
  <1>5. a \in S!Answers /\ TrueAnswer(a, chain', elapsed', envelope)
    BY <1>4 DEF S!Answers, TrueAnswer
  <1> QED BY <1>2, <1>3, <1>4, <1>5, RespondKeeps

LEMMA ProviderFailsKeeps ==
  ASSUME SubmissionInv, NEW n \in S!Numbers, S!ProviderFails(n)
  PROVE  SubmissionInv'
  <1> DEFINE r == requests[n]
  <1>1. AboutRequest(n)
    BY OfRequest
  <1>2. /\ r \in Request /\ Sane(r, chain, elapsed, envelope) /\ r.stage = "submitting"
        /\ r.answer = "none" /\ r.tried < Providers /\ envelope = "sound"
        /\ r.tried \in Nat /\ Providers \in Nat
    BY <1>1, CountsAssumption DEF AboutRequest, Sane, S!ProviderFails, S!Sending, Request
  <1>3. UNCHANGED <<elapsed, tracked, lagging>>
    BY DEF S!ProviderFails
  <1>4. PICK unheard \in BOOLEAN :
          LET seen == [r EXCEPT !.unheard = @ \/ unheard, !.tried = @ + 1]
          IN  /\ IF unheard THEN S!Accepted ELSE UNCHANGED chain
              /\ IF seen.tried < Providers
                 THEN /\ requests' = [requests EXCEPT ![n] = seen]
                      /\ UNCHANGED <<S!callVars, S!keyVars, S!serverVars>>
                 ELSE /\ requests' = [requests EXCEPT ![n] =
                            [seen EXCEPT !.stage = "answered", !.answer = "unavailable", !.open = FALSE]]
                      /\ S!Released(n)
                      /\ locked' = locked \ {r.key}
                      /\ UNCHANGED <<S!callVars, stored, server, expired>>
    BY DEF S!ProviderFails
  <1> DEFINE seen == [r EXCEPT !.unheard = @ \/ unheard, !.tried = @ + 1]
             over == [seen EXCEPT !.stage = "answered", !.answer = "unavailable", !.open = FALSE]
  <1>5. /\ seen = [r EXCEPT !.unheard = r.unheard \/ unheard, !.tried = r.tried + 1]
        /\ r.tried + 1 \in 0..Providers /\ (r.unheard \/ unheard) \in BOOLEAN
    BY <1>2
  <1>6. /\ seen \in Request /\ seen.stage = r.stage /\ seen.open = r.open
        /\ seen.answer = r.answer /\ (r.unheard => seen.unheard) /\ (unheard => seen.unheard)
    <2> DEFINE u == r.unheard \/ unheard
               t == r.tried + 1
    <2>1. seen = [r EXCEPT !.unheard = u, !.tried = t] /\ u \in BOOLEAN /\ t \in 0..Providers
      BY <1>5
    <2>2. (r.unheard => u) /\ (unheard => u)
      OBVIOUS
    <2> HIDE DEF seen, u, t
    <2>3. seen \in Request /\ seen.stage = r.stage /\ seen.open = r.open
          /\ seen.answer = r.answer /\ seen.unheard = u
      BY <1>2, <2>1 DEF Request
    <2> QED BY <2>2, <2>3, Zenon
  <1>7. /\ IF unheard THEN S!Accepted ELSE UNCHANGED chain
        /\ IF seen.tried < Providers
           THEN /\ requests' = [requests EXCEPT ![n] = seen]
                /\ UNCHANGED <<S!callVars, S!keyVars, S!serverVars>>
           ELSE /\ requests' = [requests EXCEPT ![n] = over]
                /\ S!Released(n)
                /\ locked' = locked \ {r.key}
                /\ UNCHANGED <<S!callVars, stored, server, expired>>
    BY <1>4, Zenon
  <1> HIDE DEF seen
  <1>8. over \in Request /\ over.stage = "answered" /\ over.open = FALSE /\ over.answer = "unavailable"
        /\ over.unheard = seen.unheard
    BY <1>6 DEF Request, Stages, S!Answers
  <1> HIDE DEF over
  <1>9. PICK q \in {seen, over} : /\ requests' = [requests EXCEPT ![n] = q]
                                  /\ active' = Counted1(r, q, active)
                                  /\ q = seen => seen.tried < Providers
                                  /\ UNCHANGED <<S!callVars, stored, server, expired>> /\ locked' \subseteq S!Keys
    <2>1. CASE seen.tried < Providers
      <3>1. requests' = [requests EXCEPT ![n] = seen] /\ UNCHANGED <<S!callVars, S!keyVars, S!serverVars>>
        BY <1>7, <2>1, Zenon
      <3>2. active' = Counted1(r, seen, active)
        <4>1. active' = active
          BY <3>1 DEF S!serverVars
        <4> QED BY <1>6, <4>1, Zenon DEF Counted1
      <3>3. UNCHANGED <<S!callVars, stored, server, expired>> /\ locked' \subseteq S!Keys
        BY <1>1, <3>1 DEF AboutRequest, S!keyVars, S!serverVars
      <3> QED BY <2>1, <3>1, <3>2, <3>3, Zenon
    <2>2. CASE ~(seen.tried < Providers)
      <3>1. /\ requests' = [requests EXCEPT ![n] = over] /\ S!Released(n) /\ locked' = locked \ {r.key}
            /\ UNCHANGED <<S!callVars, stored, server, expired>>
        BY <1>7, <2>2, Zenon
      <3>2. active' = Counted1(r, over, active)
        BY <1>8, <3>1, Zenon DEF Counted1, S!Released
      <3>3. locked' \subseteq S!Keys
        BY <1>1, <3>1 DEF AboutRequest
      <3>4. over # seen
        BY <1>2, <1>6, <1>8
      <3> QED BY <3>1, <3>2, <3>3, <3>4, Zenon
    <2> QED BY <2>1, <2>2
  <1> DEFINE ch == chain'
  <1>10. Later(chain, elapsed, ch, elapsed) /\ S!TransactionTypeOK' /\ elapsed' = elapsed
    BY <1>1, <1>3, <1>7 DEF AboutRequest, S!Accepted, Later, S!TransactionTypeOK
  <1>11. /\ SaneRequests(requests, ch, elapsed, envelope) /\ SaneStore(stored, ch, elapsed, envelope)
         /\ Sane(r, ch, elapsed, envelope)
    BY <1>1, <1>2, <1>10, StaysTrue DEF AboutRequest, SubmissionInv
  <1>12. Sane(q, ch, elapsed, envelope) /\ (Accepting(r) => Accepting(q)) /\ (q.open => r.open)
    BY <1>2, <1>6, <1>8, <1>9, <1>11 DEF Sane, Accepting, TrueAnswer
  <1>13. unheard => Accepting(q)
    BY <1>6, <1>8, <1>9 DEF Accepting
  <1>14. Counting(requests, server, active, expired) /\ n \in DOMAIN requests
    BY DEF SubmissionInv, S!Numbers
  <1>15. Keeping(requests, requests', n, q, ch, elapsed, envelope, server, active', expired)
    <2>1. q.open /\ ~requests[n].open => server = "up"
      BY <1>12
    <2>2. active' = Counted1(requests[n], q, active) /\ (Accepting(requests[n]) => Accepting(q))
      BY <1>9, <1>12
    <2> HIDE DEF ch, r
    <2> QED BY <1>9, <1>11, <1>12, <1>14, <2>1, <2>2, RequestKeeps, Zenon
  <1>16. Accounted(requests', ch, envelope)
    <2>1. CASE unheard
      <3>1. n \in DOMAIN requests' /\ requests'[n] = q
        BY <1>14, <1>15 DEF Keeping
      <3> QED BY <1>2, <1>13, <2>1, <3>1 DEF Accounted
    <2>2. CASE ~unheard
      <3>1. ch = chain
        BY <1>7, <2>2
      <3> QED BY <1>15, <3>1 DEF Keeping, SubmissionInv
    <2> QED BY <2>1, <2>2
  <1>17. server' \in {"up", "draining", "closed"} /\ expired' \in BOOLEAN
    BY <1>9 DEF SubmissionInv, Settings
  <1>18. /\ UNCHANGED S!callVars /\ Later(chain, elapsed, chain', elapsed') /\ locked' \subseteq S!Keys
         /\ SaneRequests(requests', chain', elapsed', envelope) /\ Len(requests') = Len(requests)
         /\ Counting(requests', server', active', expired')
         /\ Accounted(requests', chain', envelope)
         /\ SaneStore(stored', chain', elapsed', envelope)
    BY <1>9, <1>10, <1>11, <1>15, <1>16 DEF Keeping
  <1> QED BY <1>10, <1>17, <1>18, HandlerKeeps

\* Steps that leave the requests, the answers and the network alone.
LEMMA AsideKeeps ==
  ASSUME SubmissionInv, UNCHANGED <<chain, elapsed, S!callVars, requests, stored>>,
         S!TransactionTypeOK', locked' \subseteq S!Keys,
         server' \in {"up", "draining", "closed"}, expired' \in BOOLEAN,
         Counting(requests, server', active', expired')
  PROVE  SubmissionInv'
  <1>1. /\ chain' = chain /\ elapsed' = elapsed /\ requests' = requests /\ stored' = stored
        /\ UNCHANGED S!callVars /\ Later(chain, elapsed, chain', elapsed')
    BY SameNetwork
  <1>2. /\ SaneRequests(requests', chain', elapsed', envelope)
        /\ Accounted(requests', chain', envelope)
        /\ SaneStore(stored', chain', elapsed', envelope)
        /\ Counting(requests', server', active', expired') /\ Len(requests') = Len(requests)
    BY <1>1 DEF SubmissionInv
  <1> QED BY <1>1, <1>2, HandlerKeeps

LEMMA LockExpiresKeeps ==
  ASSUME SubmissionInv, S!LockExpires
  PROVE  SubmissionInv'
  <1>1. /\ UNCHANGED <<chain, elapsed, S!callVars, requests, stored>> /\ S!TransactionTypeOK'
        /\ locked' \subseteq S!Keys
    BY DEF S!LockExpires, SubmissionInv, Settings, S!TransactionTypeOK, S!transaction
  <1>2. /\ server' \in {"up", "draining", "closed"} /\ expired' \in BOOLEAN
        /\ Counting(requests, server', active', expired')
    BY DEF S!LockExpires, S!serverVars, SubmissionInv, Settings
  <1> QED BY <1>1, <1>2, AsideKeeps

LEMMA DrainKeeps ==
  ASSUME SubmissionInv, S!Drain
  PROVE  SubmissionInv'
  <1>1. /\ UNCHANGED <<chain, elapsed, S!callVars, requests, stored>> /\ S!TransactionTypeOK'
        /\ locked' \subseteq S!Keys
    BY DEF S!Drain, SubmissionInv, Settings, S!TransactionTypeOK, S!transaction, S!keyVars
  <1>2. /\ server' \in {"up", "draining", "closed"} /\ expired' \in BOOLEAN
        /\ Counting(requests, server', active', expired')
    BY DEF S!Drain, Counting, SubmissionInv, Settings
  <1> QED BY <1>1, <1>2, AsideKeeps

LEMMA CloseKeeps ==
  ASSUME SubmissionInv, S!Close
  PROVE  SubmissionInv'
  <1>1. /\ UNCHANGED <<chain, elapsed, S!callVars, requests, stored>> /\ S!TransactionTypeOK'
        /\ locked' \subseteq S!Keys
    BY DEF S!Close, SubmissionInv, Settings, S!TransactionTypeOK, S!transaction, S!keyVars
  <1>2. server' \in {"up", "draining", "closed"} /\ expired' \in BOOLEAN
    BY DEF S!Close
  <1>3. Counting(requests, server', active', expired')
    <2>1. requests \in Seq(Request) /\ active = Cardinality(Open(requests))
      BY DEF SubmissionInv, SaneRequests, Counting
    <2>2. IsFiniteSet(Open(requests))
      BY <2>1, RequestsAreFinite
    <2>3. active = 0 <=> Open(requests) = {}
      BY <2>1, <2>2, FS_EmptySet
    <2>4. active' = active /\ expired' = (active # 0)
      BY DEF S!Close
    <2> QED BY <2>1, <2>3, <2>4 DEF Counting
  <1> QED BY <1>1, <1>2, <1>3, AsideKeeps

-------------------------------------------------------------------------------
(* The client's steps, the shutdown's and the network's. *)
SettingsOfCall ==
    /\ call' \in S!Answers \cup S!Ended \cup {"idle", "waiting", "backoff", "queued"}
    /\ replaying' \in BOOLEAN /\ retries' \in 0..MaxRetries

LEMMA ClientKeeps ==
  ASSUME SubmissionInv, UNCHANGED <<S!transaction, envelope, keyGiven, S!keyVars, S!serverVars>>,
         SettingsOfCall,
         SaneRequests(requests', chain, elapsed, envelope), Open(requests') = Open(requests),
         Accounted(requests', chain, envelope),
         SaneCall(call', key', requests', chain, elapsed, envelope)
  PROVE  SubmissionInv'
  <1>1. /\ chain' = chain /\ elapsed' = elapsed /\ tracked' = tracked /\ lagging' = lagging
        /\ envelope' = envelope /\ keyGiven' = keyGiven /\ stored' = stored /\ locked' = locked
        /\ server' = server /\ active' = active /\ expired' = expired
    BY DEF S!transaction, S!keyVars, S!serverVars
  <1>2. Settings'
    BY <1>1 DEF SubmissionInv, Settings, S!TransactionTypeOK, SettingsOfCall
  <1>3. Counting(requests', server', active', expired')
    BY <1>1 DEF SubmissionInv, Counting
  <1>4. SaneStore(stored', chain', elapsed', envelope')
    BY <1>1 DEF SubmissionInv
  <1> QED BY <1>1, <1>2, <1>3, <1>4 DEF SubmissionInv

LEMMA SendKeeps ==
  ASSUME SubmissionInv, NEW k \in S!Keys, S!SendRequest(k)
  PROVE  /\ SaneRequests(requests', chain, elapsed, envelope) /\ Open(requests') = Open(requests)
         /\ Accounted(requests', chain, envelope)
         /\ Len(requests') = Len(requests) + 1 /\ Len(requests') <= MaxRequests /\ Len(requests) \in Nat
  <1> DEFINE r == [key |-> k, stage |-> "sent", tried |-> 0,
                   open |-> FALSE, unheard |-> FALSE, answer |-> "none"]
  <1>1. Sane(r, chain, elapsed, envelope) /\ ~r.open
    BY CountsAssumption DEF Sane, Request, Stages, TrueAnswer
  <1>2. requests' = Append(requests, r) /\ Len(requests) < MaxRequests
    BY DEF S!SendRequest
  <1> HIDE DEF r
  <1>3. requests \in Seq(Request) /\ r \in Request /\ DOMAIN requests = 1..Len(requests)
        /\ Len(requests) \in Nat
    BY <1>1, RequestsAreFinite DEF SubmissionInv, SaneRequests, Sane
  <1>4. /\ requests' \in Seq(Request) /\ Len(requests') = Len(requests) + 1
        /\ DOMAIN requests' = 1..Len(requests) + 1
        /\ \A m \in DOMAIN requests : requests'[m] = requests[m]
        /\ requests'[Len(requests) + 1] = r
    BY <1>2, <1>3
  <1>5. \A m \in DOMAIN requests' : m \in DOMAIN requests \/ m = Len(requests) + 1
    BY <1>3, <1>4
  <1>6. DOMAIN requests \subseteq DOMAIN requests'
    BY <1>3, <1>4
  <1>7. SaneRequests(requests', chain, elapsed, envelope)
    BY <1>1, <1>4, <1>5 DEF SaneRequests, SubmissionInv
  <1>8. Open(requests') = Open(requests)
    BY <1>1, <1>4, <1>5, <1>6 DEF Open
  <1>9. Accounted(requests', chain, envelope)
    BY <1>4, <1>6 DEF Accounted, SubmissionInv
  <1> QED BY <1>2, <1>3, <1>4, <1>7, <1>8, <1>9, CountsAssumption

LEMMA SubmitKeeps ==
  ASSUME SubmissionInv, S!Submit
  PROVE  SubmissionInv'
  <1> DEFINE k == key'
  <1>1. /\ SaneCall(call, key, requests, chain, elapsed, envelope) /\ Len(requests) \in Nat
        /\ retries' = 0 /\ replaying' = FALSE /\ call' = "waiting" /\ call # "queued"
        /\ (key' = 1 \/ key' = key + 1) /\ S!SendRequest(key')
        /\ UNCHANGED <<S!transaction, envelope, keyGiven, S!keyVars, S!serverVars>>
        /\ Len(requests) < MaxRequests
    BY RequestsAreFinite DEF SubmissionInv, SaneRequests, S!Submit, S!Ended, S!Answers, S!SendRequest
  <1>2. k \in 1..Len(requests) + 1
    BY <1>1 DEF SaneCall, KeyLimit
  <1>3. k \in S!Keys
    BY <1>1, <1>2, CountsAssumption DEF S!Keys
  <1>4. /\ SaneRequests(requests', chain, elapsed, envelope) /\ Open(requests') = Open(requests)
        /\ Accounted(requests', chain, envelope)
        /\ Len(requests') = Len(requests) + 1 /\ Len(requests') <= MaxRequests
    BY <1>1, <1>3, SendKeeps
  <1>5. SaneCall(call', key', requests', chain, elapsed, envelope)
    BY <1>1, <1>2, <1>4 DEF SaneCall, KeyLimit, TrueAnswer
  <1>6. SettingsOfCall
    <2>1. replaying' \in BOOLEAN
      BY <1>1, Zenon
    <2> QED BY <1>1, <2>1, CountsAssumption DEF SettingsOfCall
  <1> QED BY <1>1, <1>4, <1>5, <1>6, ClientKeeps

LEMMA ResendKeeps ==
  ASSUME SubmissionInv, call \in {"backoff", "queued"}, S!SendRequest(key), call' = "waiting",
         key' = key, SettingsOfCall, UNCHANGED <<S!transaction, envelope, keyGiven, S!keyVars, S!serverVars>>
  PROVE  SubmissionInv'
  <1>1. /\ SaneCall(call, key, requests, chain, elapsed, envelope) /\ Len(requests) \in Nat
        /\ Len(requests) < MaxRequests
    BY RequestsAreFinite DEF SubmissionInv, SaneRequests, S!SendRequest
  <1>2. key \in 1..Len(requests) + 1
    BY <1>1 DEF SaneCall, KeyLimit
  <1>3. key \in S!Keys
    BY <1>1, <1>2, CountsAssumption DEF S!Keys
  <1>4. /\ SaneRequests(requests', chain, elapsed, envelope) /\ Open(requests') = Open(requests)
        /\ Accounted(requests', chain, envelope)
        /\ Len(requests') = Len(requests) + 1 /\ Len(requests') <= MaxRequests
    BY <1>3, SendKeeps
  <1>5. SaneCall(call', key', requests', chain, elapsed, envelope)
    BY <1>1, <1>2, <1>4 DEF SaneCall, KeyLimit, TrueAnswer
  <1> QED BY <1>4, <1>5, ClientKeeps

\* The call goes on or ends without a request.
LEMMA CallStepKeeps ==
  ASSUME SubmissionInv, UNCHANGED <<S!transaction, envelope, keyGiven, requests, S!keyVars, S!serverVars>>,
         SettingsOfCall, call = "waiting", TrueAnswer(call', chain, elapsed, envelope),
         \/ key' = key
         \/ key' = key + 1 /\ call' = "queued"
  PROVE  SubmissionInv'
  <1>1. /\ SaneCall(call, key, requests, chain, elapsed, envelope) /\ Len(requests) \in Nat
        /\ requests' = requests /\ MaxRequests \in Nat
    BY RequestsAreFinite, CountsAssumption DEF SubmissionInv, SaneRequests
  <1>2. key \in 1..Len(requests) /\ Len(requests) <= MaxRequests /\ Len(requests) > 0
    BY <1>1 DEF SaneCall, KeyLimit
  <1>3. key' \in 1..KeyLimit(call', requests)
    BY <1>1, <1>2 DEF KeyLimit
  <1>4. SaneCall(call', key', requests', chain, elapsed, envelope)
    <2>1. KeyLimit(call', requests) \in Nat
      BY <1>1 DEF KeyLimit
    <2>2. key' \in 0..KeyLimit(call', requests) /\ key' > 0
      BY <1>3, <2>1
    <2> QED BY <1>1, <1>2, <2>2 DEF SaneCall
  <1>5. /\ SaneRequests(requests', chain, elapsed, envelope) /\ Open(requests') = Open(requests)
        /\ Accounted(requests', chain, envelope)
    BY <1>1 DEF SubmissionInv
  <1> QED BY <1>4, <1>5, ClientKeeps

LEMMA ClientStepKeeps ==
  ASSUME SubmissionInv, S!ClientStep
  PROVE  SubmissionInv'
  <1>1. replaying \in BOOLEAN /\ retries \in 0..MaxRetries /\ MaxRetries \in Nat
    BY CountsAssumption DEF SubmissionInv, Settings
  <1>2. CASE S!Submit
    BY <1>2, SubmitKeeps
  <1>3. CASE S!Retry
    <2>1. SettingsOfCall
      BY <1>1, <1>3 DEF S!Retry, SettingsOfCall
    <2> QED BY <1>3, <2>1, ResendKeeps DEF S!Retry
  <1>4. CASE S!Replay
    <2>1. SettingsOfCall
      BY <1>1, <1>4 DEF S!Replay, SettingsOfCall
    <2> QED BY <1>4, <2>1, ResendKeeps DEF S!Replay
  <1>5. CASE S!NetworkError
    <2>1. SettingsOfCall /\ TrueAnswer(call', chain, elapsed, envelope)
      <3>1. S!RetryOr(S!GivesUp)
        BY <1>5 DEF S!NetworkError
      <3>2. CASE retries < MaxRetries /\ call' = "backoff" /\ retries' = retries + 1 /\ replaying' = replaying
        BY <1>1, <3>2 DEF SettingsOfCall, TrueAnswer
      <3>3. CASE S!GivesUp /\ retries' = retries
        <4>1. call' \in {"failed", "queued"}
          BY <3>3 DEF S!GivesUp
        <4>2. replaying' = replaying \/ replaying' = TRUE
          BY <3>3, Zenon DEF S!GivesUp
        <4>3. replaying' \in BOOLEAN
          BY <1>1, <4>2, Zenon
        <4> QED BY <1>1, <3>3, <4>1, <4>3 DEF SettingsOfCall, TrueAnswer, S!Ended
      <3> QED BY <3>1, <3>2, <3>3 DEF S!RetryOr
    <2>2. /\ call = "waiting" /\ (key' = key \/ (key' = key + 1 /\ call' = "queued"))
          /\ UNCHANGED <<S!transaction, envelope, keyGiven, requests, S!keyVars, S!serverVars>>
      BY <1>5 DEF S!NetworkError, S!RetryOr, S!GivesUp
    <2> QED BY <2>1, <2>2, CallStepKeeps
  <1>6. CASE S!Timeout
    <2>1. SettingsOfCall /\ TrueAnswer(call', chain, elapsed, envelope)
      BY <1>1, <1>6 DEF S!Timeout, SettingsOfCall, S!Ended, TrueAnswer
    <2> QED BY <1>6, <2>1, CallStepKeeps DEF S!Timeout
  <1>7. CASE S!Answered
    <2> DEFINE r == requests[Len(requests)]
    <2>1. /\ Sane(r, chain, elapsed, envelope) /\ r \in Request /\ r.stage = "answered"
      <3>1. Len(requests) > 0 /\ Len(requests) \in Nat /\ DOMAIN requests = 1..Len(requests)
        BY <1>7, RequestsAreFinite DEF SubmissionInv, SaneRequests, SaneCall, S!Answered
      <3>2. Len(requests) \in DOMAIN requests
        BY <3>1
      <3> QED BY <1>7, <3>2 DEF SubmissionInv, SaneRequests, Sane, S!Answered
    <2>2. /\ key' = key /\ replaying' = replaying /\ retries' \in 0..MaxRetries
          /\ call' = r.answer \/ call' = "backoff"
      BY <1>1, <1>7 DEF S!Answered, S!RetryOr
    <2>3. SettingsOfCall /\ TrueAnswer(call', chain, elapsed, envelope)
      <3>1. TrueAnswer(r.answer, chain, elapsed, envelope) /\ TrueAnswer("backoff", chain, elapsed, envelope)
        BY <2>1 DEF Sane, TrueAnswer
      <3>2. r.answer \in S!Answers
        BY <2>1 DEF Sane, Request
      <3> QED BY <1>1, <2>2, <3>1, <3>2 DEF SettingsOfCall
    <2> QED BY <1>7, <2>2, <2>3, CallStepKeeps DEF S!Answered
  <1> QED BY <1>2, <1>3, <1>4, <1>5, <1>6, <1>7 DEF S!ClientStep

LEMMA RestartKeeps ==
  ASSUME SubmissionInv, S!Restart
  PROVE  SubmissionInv'
  <1> DEFINE Ends(r) == [r EXCEPT !.stage = "dead", !.open = FALSE]
             new == [n \in S!Numbers |-> IF n \in S!Running THEN Ends(requests[n]) ELSE requests[n]]
             len == Len(requests)
  <1>1. /\ server' = "up" /\ active' = 0 /\ expired' = FALSE /\ requests' = new /\ tracked' = FALSE
        /\ UNCHANGED <<chain, elapsed, lagging, S!callVars, S!keyVars>>
    BY DEF S!Restart
  <1>2. requests \in Seq(Request) /\ len \in Nat /\ S!Numbers = 1..len
        /\ \A n \in S!Numbers : Sane(requests[n], chain, elapsed, envelope) /\ requests[n] \in Request
    BY RequestsAreFinite DEF SubmissionInv, SaneRequests, S!Numbers
  <1>3. \A n \in S!Numbers :
            LET q == new[n] IN
            /\ Sane(q, chain, elapsed, envelope) /\ q \in Request /\ ~q.open
            /\ Accepting(requests[n]) => Accepting(q)
    <2> SUFFICES ASSUME NEW n \in S!Numbers
                 PROVE  LET q == new[n] IN
                        /\ Sane(q, chain, elapsed, envelope) /\ q \in Request /\ ~q.open
                        /\ Accepting(requests[n]) => Accepting(q)
      OBVIOUS
    <2> DEFINE r == requests[n]
               q == new[n]
    <2>1. Sane(r, chain, elapsed, envelope) /\ r \in Request
      BY <1>2
    <2>2. CASE n \in S!Running
      <3>1. q = Ends(r)
        BY <2>2, Zenon
      <3>2. r.answer = "none"
        BY <2>1, <2>2 DEF S!Running, Sane
      <3> HIDE DEF q, r
      <3>3. q \in Request /\ q.stage = "dead" /\ q.open = FALSE /\ q.answer = r.answer /\ q.unheard = r.unheard
        BY <2>1, <3>1 DEF Request, Stages
      <3>4. Sane(q, chain, elapsed, envelope) /\ q \in Request /\ ~q.open /\ (Accepting(r) => Accepting(q))
        BY <2>1, <3>2, <3>3 DEF Sane, Accepting, TrueAnswer
      <3> QED BY <3>4 DEF q, r
    <2>3. CASE n \notin S!Running
      <3>1. q = r
        BY <2>3, Zenon
      <3>2. ~r.open
        BY <2>1, <2>3 DEF S!Running, Sane
      <3> QED BY <2>1, <3>1, <3>2
    <2> QED BY <2>2, <2>3
  <1> HIDE DEF new
  <1>4. DOMAIN new = 1..len
    BY <1>2 DEF new
  <1>5. new \in Seq(Request) /\ Len(new) = len
    <2>1. new = [n \in 1..len |-> new[n]]
      BY <1>2 DEF new
    <2>2. \A n \in 1..len : new[n] \in Request
      BY <1>2, <1>3
    <2>3. new \in [1..len -> Request]
      BY <2>1, <2>2, Zenon
    <2> HIDE DEF len
    <2>4. new \in UNION {[1..m -> Request] : m \in Nat}
      BY <1>2, <2>3
    <2>5. new \in Seq(Request)
      BY <2>4, SeqDef, Zenon
    <2> QED BY <1>2, <1>4, <2>5
  <1>6. SaneRequests(new, chain, elapsed, envelope)
    BY <1>2, <1>3, <1>4, <1>5 DEF SaneRequests
  <1>7. Open(new) = {}
    BY <1>2, <1>3, <1>4 DEF Open
  <1>8. Accounted(new, chain, envelope)
    BY <1>2, <1>3, <1>4 DEF Accounted, SubmissionInv, S!Numbers
  <1>9. Counting(new, server', active', expired')
    BY <1>1, <1>7, FS_EmptySet DEF Counting
  <1>10. /\ chain' = chain /\ elapsed' = elapsed /\ requests' = new /\ stored' = stored /\ locked' = locked
         /\ UNCHANGED S!callVars /\ Later(chain, elapsed, chain', elapsed')
    BY <1>1, SameNetwork DEF S!keyVars
  <1>11. /\ SaneRequests(requests', chain', elapsed', envelope) /\ Len(requests') = Len(requests)
         /\ Counting(requests', server', active', expired')
         /\ Accounted(requests', chain', envelope)
         /\ SaneStore(stored', chain', elapsed', envelope)
    BY <1>5, <1>6, <1>8, <1>9, <1>10 DEF SubmissionInv
  <1>12. S!TransactionTypeOK' /\ locked' \subseteq S!Keys /\ server' \in {"up", "draining", "closed"}
    BY <1>1, <1>10 DEF SubmissionInv, Settings, S!TransactionTypeOK
  <1>13. expired' \in BOOLEAN
    BY <1>1, Zenon
  <1> QED BY <1>10, <1>11, <1>12, <1>13, HandlerKeeps

LEMMA NetworkStepKeeps ==
  ASSUME SubmissionInv, S!NetworkStep
  PROVE  SubmissionInv'
  <1>1. /\ Later(chain, elapsed, chain', elapsed') /\ S!TransactionTypeOK'
        /\ chain = "unknown" => chain' = "unknown"
    BY DEF SubmissionInv, Settings, S!TransactionTypeOK, Later, S!NetworkStep, S!TransactionStep, S!LedgerCloses,
           S!TimeBoundsPass, S!CatchUp, S!Verdicts
  <1>2. /\ UNCHANGED S!callVars /\ requests' = requests /\ stored' = stored /\ locked' = locked
        /\ server' = server /\ active' = active /\ expired' = expired
    BY DEF S!NetworkStep, S!keyVars, S!serverVars
  <1> DEFINE ch == chain'
             el == elapsed'
  <1>3. SaneRequests(requests, ch, el, envelope) /\ SaneStore(stored, ch, el, envelope)
    BY <1>1, StaysTrue DEF SubmissionInv
  <1>4. Accounted(requests, ch, envelope)
    BY <1>1 DEF SubmissionInv, Accounted
  <1>5. Counting(requests', server', active', expired') /\ locked' \subseteq S!Keys
        /\ server' \in {"up", "draining", "closed"} /\ expired' \in BOOLEAN
    BY <1>2 DEF SubmissionInv, Settings
  <1>6. /\ SaneRequests(requests', chain', elapsed', envelope) /\ Len(requests') = Len(requests)
        /\ Accounted(requests', chain', envelope)
        /\ SaneStore(stored', chain', elapsed', envelope)
    BY <1>2, <1>3, <1>4
  <1> QED BY <1>1, <1>2, <1>5, <1>6, HandlerKeeps

LEMMA SubmissionInit ==
  ASSUME S!Init
  PROVE  SubmissionInv
  <1>1. /\ requests = <<>> /\ requests \in Seq(Request) /\ Len(requests) = 0 /\ DOMAIN requests = {}
    BY DEF S!Init
  <1>2. \A e : S!Class(e) \in {"sound", "unreadable", "refused"}
    BY Zenon DEF S!Class
  <1>3. Settings
    <2>1. envelope \in {"sound", "unreadable", "refused"}
      BY <1>2, Zenon DEF S!Init
    <2>2. S!TransactionTypeOK
      BY DEF S!Init, S!TransactionTypeOK
    <2>3. replaying \in BOOLEAN /\ expired \in BOOLEAN
      BY Zenon DEF S!Init
    <2> QED BY <2>1, <2>2, <2>3, CountsAssumption DEF S!Init, Settings
  <1>4. SaneRequests(requests, chain, elapsed, envelope)
    BY <1>1 DEF SaneRequests
  <1>5. SaneStore(stored, chain, elapsed, envelope)
    BY DEF S!Init, SaneStore, TrueAnswer
  <1>6. Accounted(requests, chain, envelope)
    BY DEF S!Init, Accounted
  <1>7. Counting(requests, server, active, expired)
    <2>1. Open(requests) = {}
      BY <1>1 DEF Open
    <2> QED BY <2>1, FS_EmptySet DEF S!Init, Counting
  <1>8. SaneCall(call, key, requests, chain, elapsed, envelope)
    BY <1>1, CountsAssumption DEF S!Init, SaneCall, KeyLimit, TrueAnswer
  <1> QED BY <1>3, <1>4, <1>5, <1>6, <1>7, <1>8 DEF SubmissionInv

LEMMA SubmissionNext ==
  ASSUME SubmissionInv, S!Next
  PROVE  SubmissionInv'
  BY ClientStepKeeps, ArriveKeeps, HangUpKeeps, LookKeeps, ReserveKeeps, ProviderAcceptsKeeps,
     ProviderRefusesKeeps, ProviderFailsKeeps, LockExpiresKeeps, DrainKeeps, CloseKeeps,
     RestartKeeps, NetworkStepKeeps
     DEF S!Next, S!HandlerStep

LEMMA SubmissionStutters ==
  ASSUME SubmissionInv, UNCHANGED S!vars
  PROVE  SubmissionInv'
  BY DEF SubmissionInv, S!vars, S!transaction, S!callVars, S!keyVars, S!serverVars, Settings, S!TransactionTypeOK

\* What the invariant says to the application.
LEMMA SubmissionIsTrue ==
  ASSUME SubmissionInv
  PROVE  S!OutcomesAreTrue /\ S!DrainedClean
  <1>1. /\ requests \in Seq(Request) /\ DOMAIN requests = 1..Len(requests) /\ Len(requests) \in Nat
        /\ active \in Nat
    BY RequestsAreFinite DEF SubmissionInv, SaneRequests, Counting
  <1>2. S!TypeOK
    <2>1. key \in S!Keys \cup {0}
      BY <1>1, CountsAssumption DEF SubmissionInv, SaneCall, KeyLimit, S!Keys
    <2> QED BY <1>1, <2>1 DEF SubmissionInv, Settings, SaneStore, S!TypeOK, Request, Stages
  <1>3. S!OutcomeTrue
    <2>1. call \in {"rejected", "invalid"} /\ chain # "unknown" => S!Unheard
      BY DEF SubmissionInv, Accounted, Accepting, S!Unheard, S!Numbers, S!Awaited
    <2> QED BY <2>1 DEF S!OutcomeTrue, SubmissionInv, SaneCall, SaneStore, TrueAnswer
  <1>4. S!OnlySoundIsSent
    BY DEF S!OnlySoundIsSent, SubmissionInv, Accounted
  <1>5. S!DrainedClean
    BY DEF S!DrainedClean, SubmissionInv, Counting, Open, S!Running, S!Numbers
  <1> QED BY <1>2, <1>3, <1>4, <1>5 DEF S!OutcomesAreTrue

-------------------------------------------------------------------------------
(* The theorems. *)
flowVars == <<part, vars, submissionVars, quoteVars, fundVars>>

LEMMA BooksStep ==
  ASSUME Books(store, balance), [Step]_flowVars
  PROVE  /\ Books(store', balance')
         /\ (Next /\ NewAreQuoted) \/ UNCHANGED vars
  <1>1. CASE Next
    BY <1>1, BooksAreKept, FundingsAreQuoted
  <1>2. CASE UNCHANGED vars
    <2>1. store' = store /\ balance' = balance
      BY <1>2 DEF vars
    <2> QED BY <1>2, <2>1
  <1>3. Next \/ UNCHANGED vars
    BY DEF Step, flowVars
  <1> QED BY <1>1, <1>2, <1>3

LEMMA BooksAlways == FundsFlow => []Books(store, balance)
  <1>1. Starts => Books(store, balance)
    BY BooksAtStart DEF Starts
  <1>2. Books(store, balance) /\ [Step]_flowVars => Books(store, balance)'
    <2>1. Books(store, balance)' <=> Books(store', balance')
      BY DEF Books, Capped, Counted, Collected, Balanced, Even, Fair, Store, Balances, Held, Total,
             Charged, By, For, In, To, From, HotIds, Sources, AmountAt, FeeAt
    <2> QED BY <2>1, BooksStep
  <1> QED BY <1>1, <1>2, PTL DEF FundsFlow, flowVars

\* The counters of volume, funders and hot records are what the records say, and every balance
\* is what the records and the withdrawals make of it, whoever plays which part.
THEOREM CountersMatch == FundsFlow => []CountersExact
  <1>1. Books(store, balance) => CountersExact
    BY BooksAreExact
  <1> QED BY <1>1, BooksAlways, PTL

\* No fee exceeds the cap, the counter of fees is the fees charged less those withdrawn, and
\* the contract's money is that counter, corrected by the fundings that were sent to the
\* contract and those that named it as their source.
THEOREM FeesMatch == FundsFlow => []FeesExact
  <1>1. Books(store, balance) => FeesExact
    BY BooksAreExact
  <1> QED BY <1>1, BooksAlways, PTL

\* Every entry of every funding is charged within the bounds that the configured rate, which
\* is what the API quotes, gives for the contract's rate of the moment.
THEOREM QuotesBound == FundsFlow => FeesWithinQuote
  <1> DEFINE H == FeeBoundsStep /\ \A i \in New : QuoteBounds(store'.records[i])
  <1>1. Books(store, balance) /\ [Step]_flowVars => [H]_vars
    BY BooksStep, QuotedIsWithin
  <1>2. FundsFlow => [][H]_vars
    <2> HIDE DEF H
    <2> QED BY <1>1, BooksAlways, PTL DEF FundsFlow, flowVars
  <1> QED BY <1>2 DEF FeesWithinQuote

\* The application is told what is so, nothing unsound is sent, and a drain that does not
\* run into its timeout cuts off no client, however retries, replays, failovers, lock
\* expiries and restarts of the API cross.
THEOREM SubmissionsTrue == FundsFlow => []SubmissionsAreTrue
  <1>1. Starts => SubmissionInv
    BY SubmissionInit DEF Starts
  <1>2. SubmissionInv /\ [Step]_flowVars => SubmissionInv'
    <2> SUFFICES ASSUME SubmissionInv, [Step]_flowVars
                 PROVE  SubmissionInv'
      OBVIOUS
    <2>1. S!Next \/ UNCHANGED S!vars
      BY DEF Step, flowVars, submissionVars, S!vars, S!transaction, S!callVars, S!keyVars, S!serverVars
    <2> QED BY <2>1, SubmissionNext, SubmissionStutters
  <1>3. SubmissionInv => SubmissionsAreTrue
    BY SubmissionIsTrue DEF SubmissionsAreTrue
  <1> QED BY <1>1, <1>2, <1>3, PTL DEF FundsFlow, flowVars

\* A quote is shown against the params it is for and a refetch is answered anew, and the
\* funding hook shows nothing of an abandoned attempt and has one key for each attempt,
\* however late the answers come.
THEOREM HooksSound == FundsFlow => []HooksAreSound
  <1> DEFINE I == QuoteInv /\ FundInv
  <1>1. Starts => I
    BY QuoteInit, FundInit DEF Starts
  <1>2. I /\ [Step]_flowVars => I'
    <2> SUFFICES ASSUME I, [Step]_flowVars
                 PROVE  I'
      OBVIOUS
    <2>1. QuoteInv'
      <3>1. Q!QuoteNext \/ UNCHANGED Q!quoteVars
        BY DEF Step, flowVars, quoteVars, Q!quoteVars
      <3> QED BY <3>1, QuoteKeeps, QuoteStutters
    <2>2. FundInv'
      <3>1. F!FundNext \/ UNCHANGED F!fundVars
        BY DEF Step, flowVars, fundVars, F!fundVars
      <3> QED BY <3>1, FundKeeps, FundStutters
    <2> QED BY <2>1, <2>2
  <1>3. I => HooksAreSound
    BY QuoteIsSound, FundIsSound DEF HooksAreSound
  <1> HIDE DEF I
  <1> QED BY <1>1, <1>2, <1>3, PTL DEF FundsFlow, flowVars
==================================================================================
