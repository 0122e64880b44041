------------------------ MODULE DynamicSamplingProofs ------------------------
(***************************************************************************)
(* The sampler's counters, the groups it selects and the trainer's mask,   *)
(* for every set of prompts and rewards, every group size and every limit. *)
(*                                                                         *)
(* That a selection is a whole group that varies enough rests on ranks:    *)
(* the order in which the sampler considers ranks names GroupSize          *)
(* different ones, the first and the last among them, and in a finite set  *)
(* of rows, totally ordered, every rank is taken by exactly one row.       *)
(***************************************************************************)
EXTENDS DynamicSampling, FiniteSetTheorems, WellFoundedInduction, TLAPS

-----------------------------------------------------------------------------
(* Ranks: in a finite set S with a strict total order R, every rank from 1 *)
(* to the size of the set is taken once.                                   *)

StrictTotalOrder(R, S) ==
    /\ \A x \in S : <<x, x>> \notin R
    /\ \A x, y, z \in S : <<x, y>> \in R /\ <<y, z>> \in R => <<x, z>> \in R
    /\ \A x, y \in S : x = y \/ <<x, y>> \in R \/ <<y, x>> \in R

UpTo(R, S, x) == {y \in S : y = x \/ <<y, x>> \in R}

RankIn(R, S) == [x \in S |-> Cardinality(UpTo(R, S, x))]

LEMMA UpToFinite ==
    ASSUME NEW R, NEW S, IsFiniteSet(S), NEW x \in S
    PROVE  /\ IsFiniteSet(UpTo(R, S, x))
           /\ RankIn(R, S)[x] = Cardinality(UpTo(R, S, x))
           /\ RankIn(R, S)[x] \in 1..Cardinality(S)
<1>1. UpTo(R, S, x) \in SUBSET S /\ x \in UpTo(R, S, x)
    BY DEF UpTo
<1>2. IsFiniteSet(UpTo(R, S, x)) /\ Cardinality(UpTo(R, S, x)) <= Cardinality(S)
    BY <1>1, FS_Subset
<1>3. Cardinality(UpTo(R, S, x)) # 0 /\ Cardinality(UpTo(R, S, x)) \in Nat
    BY <1>1, <1>2, FS_EmptySet, FS_CardinalityType
<1>4. Cardinality(S) \in Nat
    BY FS_CardinalityType
<1> QED
    BY <1>2, <1>3, <1>4 DEF RankIn

LEMMA RanksGrow ==
    ASSUME NEW R, NEW S, IsFiniteSet(S), StrictTotalOrder(R, S),
           NEW x \in S, NEW y \in S, <<x, y>> \in R
    PROVE  RankIn(R, S)[x] < RankIn(R, S)[y]
<1>1. UpTo(R, S, x) \in SUBSET UpTo(R, S, y)
    BY DEF UpTo, StrictTotalOrder
<1>2. y \in UpTo(R, S, y) /\ y \notin UpTo(R, S, x)
    BY DEF UpTo, StrictTotalOrder
<1>3. /\ IsFiniteSet(UpTo(R, S, y))
      /\ Cardinality(UpTo(R, S, x)) \in Nat /\ Cardinality(UpTo(R, S, y)) \in Nat
    BY UpToFinite, FS_CardinalityType
<1>4. /\ Cardinality(UpTo(R, S, x)) <= Cardinality(UpTo(R, S, y))
      /\ Cardinality(UpTo(R, S, x)) # Cardinality(UpTo(R, S, y))
    BY <1>1, <1>2, <1>3, FS_Subset
<1> QED
    BY <1>3, <1>4, UpToFinite

LEMMA RanksAreTakenOnce ==
    ASSUME NEW R, NEW S, IsFiniteSet(S), StrictTotalOrder(R, S)
    PROVE  RankIn(R, S) \in Bijection(S, 1..Cardinality(S))
<1> DEFINE rank == RankIn(R, S)
           n == Cardinality(S)
<1>1. rank \in [S -> 1..n]
    BY UpToFinite DEF RankIn
<1>2. \A x, y \in S : rank[x] = rank[y] => x = y
    <2> SUFFICES ASSUME NEW x \in S, NEW y \in S, rank[x] = rank[y], x # y
                 PROVE  FALSE
        OBVIOUS
    <2>1. rank[x] < rank[y] \/ rank[y] < rank[x]
        BY RanksGrow DEF StrictTotalOrder
    <2> QED
        BY <1>1, <2>1
<1>3. rank \in Injection(S, 1..n)
    BY <1>1, <1>2 DEF Injection, IsInjective
<1>4. n \in Nat /\ IsFiniteSet(1..n) /\ Cardinality(1..n) = n
    BY FS_CardinalityType, FS_Interval
<1>5. rank \in Surjection(S, 1..n)
    BY <1>3, <1>4, FS_Injection
<1> QED
    BY <1>3, <1>5 DEF Bijection

\* Whatever ranks are asked for, as many elements have them.
LEMMA AsManyAsRanks ==
    ASSUME NEW R, NEW S, IsFiniteSet(S), StrictTotalOrder(R, S),
           NEW K \in SUBSET (1..Cardinality(S))
    PROVE  LET chosen == {x \in S : RankIn(R, S)[x] \in K}
           IN  /\ IsFiniteSet(chosen) /\ Cardinality(chosen) = Cardinality(K)
               /\ \A k \in K : \E x \in chosen : RankIn(R, S)[x] = k
<1> DEFINE rank == RankIn(R, S)
           n == Cardinality(S)
           chosen == {x \in S : rank[x] \in K}
           f == [x \in chosen |-> rank[x]]
<1>1. rank \in Bijection(S, 1..n)
    BY RanksAreTakenOnce
<1> HIDE DEF rank
<1>2. \A x, y \in S : rank[x] = rank[y] => x = y
    BY <1>1 DEF Bijection, Injection, IsInjective
<1>3. \A k \in 1..n : \E x \in S : rank[x] = k
    BY <1>1 DEF Bijection, Surjection
<1>4. f \in [chosen -> K]
    OBVIOUS
<1>5. f \in Bijection(chosen, K)
    <2>1. f \in Injection(chosen, K)
        BY <1>2, <1>4 DEF Injection, IsInjective
    <2>2. \A k \in K : \E x \in chosen : f[x] = k
        BY <1>3
    <2>3. f \in Surjection(chosen, K)
        BY <1>4, <2>2 DEF Surjection
    <2> QED
        BY <2>1, <2>3 DEF Bijection
<1>6. IsFiniteSet(chosen)
    BY FS_Subset
<1>7. Cardinality(chosen) = Cardinality(K)
    <2>1. ExistsBijection(chosen, K)
        BY <1>5 DEF ExistsBijection
    <2> QED
        BY <1>6, <2>1, FS_Bijection
<1> QED
    BY <1>3, <1>6, <1>7 DEF rank

-----------------------------------------------------------------------------
(* The ranks the sampler asks for are GroupSize different ones, and the    *)
(* first and the last rank are among them.                                 *)

\* Every nonempty set of naturals has a least element.
LEMMA LeastNatural ==
    ASSUME NEW T \in SUBSET Nat, T # {}
    PROVE  \E n \in T : \A m \in T : n <= m
<1> DEFINE R == {ss \in Nat \X Nat : ss[1] < ss[2]}
<1>1. IsWellFoundedOn(R, Nat)
    BY NatLessThanWellFounded DEF OpToRel
<1>2. \A x, y \in Nat : y < x => <<y, x>> \in R
    OBVIOUS
<1> HIDE DEF R
<1>3. PICK x \in T : \A y \in T : <<y, x>> \notin R
    BY <1>1, WFMin
<1>4. \A y \in T : ~(y < x)
    BY <1>2, <1>3
<1>5. \A y \in T : x <= y
    BY <1>4
<1> QED
    BY <1>5

LEMMA RoundDivBound ==
    ASSUME NEW a \in Nat, NEW b \in Nat \ {0}, NEW m \in Nat, a <= b * m
    PROVE  RoundDiv(a, b) \in 0..m
<1> DEFINE q == a \div b
           r == a % b
<1>1. q \in Nat /\ r \in 0..(b - 1) /\ a = b * q + r
    OBVIOUS
<1> HIDE DEF q, r
<1>2. q <= m
    <2>1. ASSUME q >= m + 1 PROVE FALSE
        <3>1. b * q >= b * (m + 1)
            BY <1>1, <2>1
        <3>2. b * (m + 1) = b * m + b
            OBVIOUS
        <3> QED
            BY <1>1, <3>1, <3>2
    <2> QED
        BY <1>1, <2>1
<1>3. q = m => r = 0
    BY <1>1
<1>4. r = 0 => ~(2 * r > b) /\ ~(2 * r = b)
    OBVIOUS
<1> QED
    BY <1>1, <1>2, <1>3, <1>4 DEF RoundDiv, q, r

LEMMA MiddleRanksAreRanks ==
    ASSUME NEW n \in Nat, n >= GroupSize
    PROVE  MiddleRanks(n) \in Seq(1..n)
<1> DEFINE slots == GroupSize - 2
<1>1. slots \in Nat /\ n >= 2
    BY GroupAssumption
<1>2. CASE n - 2 <= slots
    <2>1. MiddleRanks(n) = [i \in 1..(n - 2) |-> i + 1] /\ n - 2 \in Nat
        BY <1>1, <1>2 DEF MiddleRanks
    <2>2. \A i \in 1..(n - 2) : i + 1 \in 1..n
        BY <1>1
    <2> QED
        BY <2>1, <2>2
<1>3. CASE ~(n - 2 <= slots)
    <2>1. MiddleRanks(n) = [s \in 1..slots |-> 2 + RoundDiv(s * (n - 3), slots + 1)]
        BY <1>3 DEF MiddleRanks
    <2>2. n - 3 \in Nat /\ slots + 1 \in Nat \ {0}
        BY <1>1, <1>3
    <2> HIDE DEF slots
    <2>3. ASSUME NEW s \in 1..slots
          PROVE  2 + RoundDiv(s * (n - 3), slots + 1) \in 1..n
        <3> DEFINE m == n - 3
        <3>1. m \in Nat /\ s \in Nat /\ s <= slots + 1 /\ slots + 1 \in Nat \ {0}
            BY <1>1, <2>2
        <3> HIDE DEF m
        <3>2. s * m \in Nat /\ s * m <= (slots + 1) * m
            BY <3>1
        <3>3. RoundDiv(s * m, slots + 1) \in 0..m
            BY <3>1, <3>2, RoundDivBound
        <3> QED
            BY <2>2, <3>3 DEF m
    <2> QED
        BY <1>1, <2>1, <2>3
<1> QED
    BY <1>2, <1>3

LEMMA SequenceOf ==
    ASSUME NEW S, NEW s \in Seq(S)
    PROVE  /\ DOMAIN s = 1..Len(s) /\ Len(s) \in Nat
           /\ \A i \in 1..Len(s) : s[i] \in S
OBVIOUS

LEMMA ConcatenationOf ==
    ASSUME NEW S, NEW s \in Seq(S), NEW t \in Seq(S)
    PROVE  /\ s \o t \in Seq(S) /\ Len(s \o t) = Len(s) + Len(t)
           /\ \A i \in 1..Len(s) : (s \o t)[i] = s[i]
           /\ \A i \in 1..Len(t) : (s \o t)[Len(s) + i] = t[i]
OBVIOUS

LEMMA RankOrderIsOfRanks ==
    ASSUME NEW n \in Nat, n >= GroupSize
    PROVE  LET s == RankOrder(n)
           IN  /\ DOMAIN s = 1..Len(s) /\ Len(s) \in Nat /\ Len(s) >= 2
               /\ s[1] = 1 /\ s[2] = n
               /\ \A i \in 1..Len(s) : s[i] \in 1..n
               /\ \A v \in 1..n : \E i \in 1..Len(s) : s[i] = v
<1> DEFINE ranks == 1..n
           middle == MiddleRanks(n)
           all == [i \in 1..n |-> i]
           front == <<1, n>> \o middle
           s == RankOrder(n)
<1>1. middle \in Seq(1..n) /\ all \in Seq(1..n) /\ <<1, n>> \in Seq(1..n)
    BY MiddleRanksAreRanks, GroupAssumption
<1>2. s = front \o all
    BY DEF RankOrder
<1>3. Len(all) = n /\ \A v \in 1..n : all[v] = v
    OBVIOUS
<1>4. Len(<<1, n>>) = 2 /\ <<1, n>>[1] = 1 /\ <<1, n>>[2] = n
    OBVIOUS
<1>5. /\ front \in Seq(1..n) /\ Len(front) = 2 + Len(middle)
      /\ front[1] = 1 /\ front[2] = n
    BY <1>1, <1>4, ConcatenationOf
<1>6. Len(middle) \in Nat
    BY <1>1, SequenceOf
<1> HIDE DEF middle, all, front, s
<1>7. /\ s \in Seq(1..n) /\ Len(s) = Len(front) + n
      /\ \A i \in 1..Len(front) : s[i] = front[i]
      /\ \A v \in 1..n : s[Len(front) + v] = v
    <2>1. /\ s \in Seq(1..n) /\ Len(s) = Len(front) + Len(all)
          /\ \A i \in 1..Len(front) : s[i] = front[i]
          /\ \A v \in 1..Len(all) : s[Len(front) + v] = all[v]
        <3>1. /\ front \in Seq(ranks) /\ all \in Seq(ranks) /\ s = front \o all
            BY <1>1, <1>2, <1>5
        <3>2. s \in Seq(ranks) => s \in Seq(1..n)
            OBVIOUS
        <3> HIDE DEF ranks
        <3> QED
            BY <3>1, <3>2, ConcatenationOf
    <2> QED
        BY <1>3, <2>1
<1>8. s[1] = 1 /\ s[2] = n /\ Len(s) >= 2 /\ Len(s) \in Nat
    <2>1. Len(front) = 2 + Len(middle) /\ Len(s) = Len(front) + n
        BY <1>5, <1>7
    <2>2. 1 \in 1..Len(front) /\ 2 \in 1..Len(front)
        BY <1>6, <2>1
    <2>3. s[1] = front[1] /\ s[2] = front[2]
        BY <1>7, <2>2
    <2>4. Len(s) >= 2 /\ Len(s) \in Nat
        BY <1>6, <2>1
    <2> QED
        BY <1>5, <2>3, <2>4
<1>9. \A v \in 1..n : Len(front) + v \in 1..Len(s)
    BY <1>5, <1>6, <1>7
<1>10. DOMAIN s = 1..Len(s) /\ \A i \in 1..Len(s) : s[i] \in 1..n
    BY <1>7, SequenceOf
<1> QED
    BY <1>7, <1>8, <1>9, <1>10 DEF s

LEMMA RanksAreUsedFirstOnce ==
    ASSUME NEW n \in Nat, n >= GroupSize
    PROVE  LET s == RankOrder(n)
               F == FirstUses(s)
           IN  /\ IsFiniteSet(F) /\ Cardinality(F) = n
               /\ F \subseteq Nat \ {0} /\ 1 \in F /\ 2 \in F
               /\ \A i \in F : s[i] \in 1..n
               /\ \A i, j \in F : s[i] = s[j] => i = j
               /\ s[1] = 1 /\ s[2] = n
<1> DEFINE s == RankOrder(n)
           F == FirstUses(s)
           f == [i \in F |-> s[i]]
<1>0. GroupSize \in Nat /\ GroupSize >= 2
    BY GroupAssumption
<1>1. /\ DOMAIN s = 1..Len(s) /\ Len(s) \in Nat /\ Len(s) >= 2
      /\ s[1] = 1 /\ s[2] = n
      /\ \A i \in 1..Len(s) : s[i] \in 1..n
      /\ \A v \in 1..n : \E i \in 1..Len(s) : s[i] = v
    BY RankOrderIsOfRanks
<1> HIDE DEF s
<1>2. F = {i \in 1..Len(s) : \A j \in 1..(i - 1) : s[j] # s[i]}
    BY <1>1 DEF FirstUses
<1> HIDE DEF F
<1>3. F \subseteq 1..Len(s) /\ F \subseteq Nat \ {0}
    BY <1>2
<1>4. IsFiniteSet(F)
    <2>1. IsFiniteSet(1..Len(s))
        BY <1>1, FS_Interval
    <2> QED
        BY <1>3, <2>1, FS_Subset
<1>5. \A i \in F : s[i] \in 1..n
    BY <1>1, <1>3
<1>6. \A i, j \in F : s[i] = s[j] => i = j
    <2>1. \A i, j \in F : i < j => s[i] # s[j]
        BY <1>2
    <2> QED
        BY <1>3, <2>1
<1>7. \A v \in 1..n : \E i \in F : s[i] = v
    <2> SUFFICES ASSUME NEW v \in 1..n PROVE \E i \in F : s[i] = v
        OBVIOUS
    <2> DEFINE T == {i \in 1..Len(s) : s[i] = v}
    <2>1. T # {}
        BY <1>1
    <2>4. T \in SUBSET Nat
        OBVIOUS
    <2>2. PICK i \in T : \A j \in T : i <= j
        BY <2>1, <2>4, LeastNatural
    <2>3. \A j \in 1..(i - 1) : s[j] # s[i]
        BY <1>2, <2>2
    <2> QED
        BY <1>2, <2>2, <2>3
<1>8. 1 \in F /\ 2 \in F
    <2>1. 1..(1 - 1) = {} /\ 1..(2 - 1) = {1}
        OBVIOUS
    <2>2. 1 \in 1..Len(s) /\ 2 \in 1..Len(s)
        BY <1>1
    <2>3. s[1] # s[2]
        BY <1>0, <1>1
    <2> QED
        BY <1>2, <2>1, <2>2, <2>3
<1>9. Cardinality(F) = n
    <2>1. f \in [F -> 1..n]
        BY <1>5
    <2>2. f \in Injection(F, 1..n)
        BY <1>6, <2>1 DEF Injection, IsInjective
    <2>3. f \in Surjection(F, 1..n)
        BY <1>7, <2>1 DEF Surjection
    <2>4. ExistsBijection(F, 1..n)
        BY <2>2, <2>3 DEF ExistsBijection, Bijection
    <2>5. Cardinality(1..n) = n
        BY FS_Interval
    <2> QED
        BY <1>4, <2>4, <2>5, FS_Bijection
<1> QED
    BY <1>1, <1>3, <1>4, <1>5, <1>6, <1>8, <1>9 DEF s, F

\* What the sampler's walk over the order of ranks picks.
LEMMA ChosenRanksFormAGroup ==
    ASSUME NEW n \in Nat, n >= GroupSize
    PROVE  /\ ChosenRanks(n) \subseteq 1..n
           /\ IsFiniteSet(ChosenRanks(n)) /\ Cardinality(ChosenRanks(n)) = GroupSize
           /\ 1 \in ChosenRanks(n) /\ n \in ChosenRanks(n)
<1> DEFINE s == RankOrder(n)
           F == FirstUses(s)
           R == {ij \in Nat \X Nat : ij[1] < ij[2]}
           taken == {i \in F : Cardinality(F \cap (1..i)) <= GroupSize}
           f == [i \in taken |-> s[i]]
<1>0. GroupSize \in Nat /\ GroupSize >= 2
    BY GroupAssumption
<1>1. /\ IsFiniteSet(F) /\ Cardinality(F) = n
      /\ F \subseteq Nat \ {0} /\ 1 \in F /\ 2 \in F
      /\ \A i \in F : s[i] \in 1..n
      /\ \A i, j \in F : s[i] = s[j] => i = j
      /\ s[1] = 1 /\ s[2] = n
    BY RanksAreUsedFirstOnce
<1>2. ChosenRanks(n) = {s[i] : i \in taken}
    BY DEF ChosenRanks
<1> HIDE DEF s, F
<1>3. \A i, j \in Nat : <<i, j>> \in R <=> i < j
    OBVIOUS
<1>4. StrictTotalOrder(R, F)
    <2> HIDE DEF R
    <2> QED
        <3>1. F \subseteq Nat \ {0}
            BY <1>1
        <3> QED
            BY <1>3, <3>1 DEF StrictTotalOrder
<1>5. \A i \in F : UpTo(R, F, i) = F \cap (1..i)
    <2> HIDE DEF R
    <2> QED
        <3> SUFFICES ASSUME NEW i \in F, NEW j \in F
                     PROVE  (j = i \/ <<j, i>> \in R) <=> j \in 1..i
            BY DEF UpTo
        <3>1. i \in Nat \ {0} /\ j \in Nat \ {0}
            BY <1>1
        <3> QED
            BY <1>3, <3>1
<1>6. \A i \in F : /\ RankIn(R, F)[i] = Cardinality(F \cap (1..i))
                   /\ RankIn(R, F)[i] \in 1..n
    <2>1. IsFiniteSet(F) /\ Cardinality(F) = n
        BY <1>1
    <2> HIDE DEF R
    <2> QED
        BY <1>5, <2>1, UpToFinite
<1>7. taken = {i \in F : RankIn(R, F)[i] \in 1..GroupSize}
    <2>1. \A i \in F : /\ RankIn(R, F)[i] \in 1..n
                       /\ i \in taken <=> RankIn(R, F)[i] <= GroupSize
        BY <1>6
    <2>2. taken \subseteq F
        OBVIOUS
    <2> HIDE DEF taken, R
    <2> QED
        BY <1>0, <2>1, <2>2
<1>8. IsFiniteSet(taken) /\ Cardinality(taken) = GroupSize
    <2>1. 1..GroupSize \in SUBSET (1..Cardinality(F))
        BY <1>0, <1>1
    <2>2. Cardinality(1..GroupSize) = GroupSize
        BY <1>0, FS_Interval
    <2> QED
        <3> DEFINE K == 1..GroupSize
        <3>1. IsFiniteSet(F) /\ K \in SUBSET (1..Cardinality(F))
            BY <1>1, <2>1
        <3>2. taken = {i \in F : RankIn(R, F)[i] \in K}
            BY <1>7
        <3> HIDE DEF R, taken, K
        <3>3. /\ IsFiniteSet({i \in F : RankIn(R, F)[i] \in K})
              /\ Cardinality({i \in F : RankIn(R, F)[i] \in K}) = Cardinality(K)
            BY <1>4, <3>1, AsManyAsRanks
        <3> QED
            BY <2>2, <3>2, <3>3 DEF K
<1>9. 1 \in taken /\ 2 \in taken
    <2>1. F \cap (1..1) = {1} /\ F \cap (1..2) = {1} \cup {2}
        BY <1>1
    <2>2. Cardinality({1}) = 1 /\ IsFiniteSet({1})
        BY FS_Singleton
    <2>3. Cardinality({1} \cup {2}) = 2
        BY <2>2, FS_AddElement
    <2> QED
        BY <1>0, <1>1, <2>1, <2>2, <2>3
<1> HIDE DEF taken, R
<1>10. ChosenRanks(n) \subseteq 1..n
    BY <1>1, <1>2, <1>7
<1>11. 1 \in ChosenRanks(n) /\ n \in ChosenRanks(n)
    BY <1>1, <1>2, <1>9
<1>12. f \in Bijection(taken, ChosenRanks(n))
    <2>1. f \in [taken -> ChosenRanks(n)]
        BY <1>2
    <2>2. f \in Injection(taken, ChosenRanks(n))
        BY <1>1, <1>7, <2>1 DEF Injection, IsInjective
    <2>3. f \in Surjection(taken, ChosenRanks(n))
        BY <1>2, <2>1 DEF Surjection
    <2> QED
        BY <2>2, <2>3 DEF Bijection
<1>13. IsFiniteSet(ChosenRanks(n)) /\ Cardinality(ChosenRanks(n)) = GroupSize
    BY <1>8, <1>12, FS_Bijection DEF ExistsBijection
<1> QED
    BY <1>10, <1>11, <1>13

-----------------------------------------------------------------------------

USE GroupAssumption, SamplingAssumption

\* The counters by themselves.  "raised" is final, so the counter of a training
\* that was ended may keep what it had.
Counters ==
    /\ phase \in {"idle", "sampling", "sampled", "raised"}
    /\ batches \in 0..MaxBatches
    /\ attempts \in 0..MaxBatches
    /\ skips \in Nat
    /\ streak = skips
    /\ skips <= MaxSkips + 1
    /\ phase = "sampling" => batches = attempts /\ batches < MaxBatches
    /\ phase \in {"idle", "sampled"} => batches = 0
    /\ phase = "raised" <=> streak > MaxSkips
    /\ updates \in Nat

\* The rows by themselves.
RowsTyped ==
    /\ skip \in BOOLEAN
    /\ candidates \in [Prompt -> SUBSET Candidate]
    /\ output \in [Prompt -> SUBSET Candidate]
    /\ trained \in [Prompt -> SUBSET Candidate]

-----------------------------------------------------------------------------
(* Lemmas about the operators on rows. *)

LEMMA RowsAreCandidates ==
    ASSUME NEW rollout \in Rollouts, NEW b \in Nat
    PROVE  Rows(rollout, b) \subseteq Candidate
<1>1. \A i \in 1..GroupSize : rollout[i] \in Reward \cup {Invalid}
    OBVIOUS
<1>2. ASSUME NEW i \in 1..GroupSize
      PROVE  [reward |-> rollout[i], batch |-> b, row |-> i,
              valid |-> rollout[i] # Invalid] \in Candidate
    <2>1. (rollout[i] # Invalid) \in BOOLEAN
        OBVIOUS
    <2> QED
        BY <1>1, <2>1 DEF Candidate
<1> QED
    BY <1>2 DEF Rows

LEMMA SelectGroupChooses ==
    ASSUME NEW rows
    PROVE  SelectGroup(rows) \subseteq rows
BY DEF SelectGroup

LEMMA KeptIsKept ==
    ASSUME NEW rows
    PROVE  Kept(rows) \subseteq rows
BY DEF Kept

LEMMA PooledTyped ==
    ASSUME RowsTyped, attempts \in Nat, NEW sampled \in [Prompt -> Rollouts]
    PROVE  Pooled(sampled) \in [Prompt -> SUBSET Candidate]
<1>1. ASSUME NEW u \in Prompt
      PROVE  candidates[u] \cup {r \in Rows(sampled[u], attempts) : r.valid}
               \in SUBSET Candidate
    <2>1. Rows(sampled[u], attempts) \subseteq Candidate
        BY RowsAreCandidates
    <2> QED
        BY <2>1 DEF RowsTyped
<1> QED
    BY <1>1 DEF Pooled

-----------------------------------------------------------------------------
(* The group the sampler selects. *)

\* The rows that reach the pool.
ValidRow == [reward : Reward, batch : Nat, row : 1..GroupSize, valid : {TRUE}]

RowOrder(rows) == {xy \in rows \X rows : Before(xy[1], xy[2])}

LEMMA RowFields ==
    ASSUME NEW x \in ValidRow
    PROVE  /\ x.reward \in Int /\ x.batch \in Nat /\ x.row \in Nat /\ x.valid = TRUE
           /\ x = [reward |-> x.reward, batch |-> x.batch, row |-> x.row,
                   valid |-> x.valid]
<1>1. x.reward \in Reward /\ x.batch \in Nat /\ x.row \in 1..GroupSize
    BY DEF ValidRow
<1>2. x.valid \in {TRUE}
    BY DEF ValidRow
<1>3. x = [reward |-> x.reward, batch |-> x.batch, row |-> x.row, valid |-> x.valid]
    BY DEF ValidRow
<1>4. x.reward \in Int /\ x.batch \in Nat /\ x.row \in Nat
    <2>1. Reward \subseteq Int /\ 1..GroupSize \subseteq Nat
        OBVIOUS
    <2> QED
        BY <1>1, <2>1, Zenon
<1>5. x.valid = TRUE
    BY <1>2, Zenon
<1> QED
    BY <1>3, <1>4, <1>5, Zenon

LEMMA RowOrderIsTotal ==
    ASSUME NEW rows \in SUBSET ValidRow
    PROVE  StrictTotalOrder(RowOrder(rows), rows)
<1>1. \A x \in rows : x.reward \in Int /\ x.batch \in Nat /\ x.row \in Nat
    BY RowFields
<1>6. \A x \in rows : x = [reward |-> x.reward, batch |-> x.batch, row |-> x.row,
                           valid |-> x.valid]
    BY RowFields
<1>7. \A x \in rows : x.valid = TRUE
    BY RowFields
<1>2. \A x, y \in rows : <<x, y>> \in RowOrder(rows) <=> Before(x, y)
    BY DEF RowOrder
<1>3. \A x \in rows : ~Before(x, x)
    BY <1>1 DEF Before
<1>4. \A x, y, z \in rows : Before(x, y) /\ Before(y, z) => Before(x, z)
    BY <1>1 DEF Before
<1>5. \A x, y \in rows : x = y \/ Before(x, y) \/ Before(y, x)
    <2> SUFFICES ASSUME NEW x \in rows, NEW y \in rows,
                        ~Before(x, y), ~Before(y, x)
                 PROVE  x = y
        OBVIOUS
    <2>1. x.reward = y.reward /\ x.batch = y.batch /\ x.row = y.row
        BY <1>1 DEF Before
    <2> QED
        BY <1>6, <1>7, <2>1
<1> QED
    BY <1>2, <1>3, <1>4, <1>5 DEF StrictTotalOrder

\* A selection is a whole group, and it varies as much as the whole pool: its
\* lowest and its highest row are among the selected ones.
LEMMA SelectedGroup ==
    ASSUME NEW rows \in SUBSET ValidRow, IsFiniteSet(rows),
           Cardinality(rows) >= GroupSize, VariesEnough(rows)
    PROVE  /\ SelectGroup(rows) \subseteq rows
           /\ IsFiniteSet(SelectGroup(rows))
           /\ Cardinality(SelectGroup(rows)) = GroupSize
           /\ VariesEnough(SelectGroup(rows))
<1> DEFINE n == Cardinality(rows)
           R == RowOrder(rows)
           K == ChosenRanks(n)
           chosen == {r \in rows : RankIn(R, rows)[r] \in K}
<1>1. n \in Nat /\ GroupSize \in Nat
    BY FS_CardinalityType
<1>2. StrictTotalOrder(R, rows)
    BY RowOrderIsTotal
<1>3. \A x, y \in rows : <<x, y>> \in R <=> Before(x, y)
    BY DEF RowOrder
<1>4. \A r \in rows : Rank(rows, r) = RankIn(R, rows)[r]
    <2> SUFFICES ASSUME NEW r \in rows PROVE Rank(rows, r) = RankIn(R, rows)[r]
        OBVIOUS
    <2> HIDE DEF R
    <2>1. UpTo(R, rows, r) = {x \in rows : x = r \/ Before(x, r)}
        BY <1>3 DEF UpTo
    <2> QED
        BY <2>1, UpToFinite DEF Rank
<1>5. SelectGroup(rows) = chosen
    <2>1. ~(Cardinality(rows) < GroupSize)
        BY <1>1
    <2> QED
        BY <1>4, <2>1 DEF SelectGroup
<1>6. /\ K \in SUBSET (1..Cardinality(rows)) /\ Cardinality(K) = GroupSize
      /\ 1 \in K /\ n \in K
    BY <1>1, ChosenRanksFormAGroup
<1> HIDE DEF K, R
<1>7. /\ IsFiniteSet(chosen) /\ Cardinality(chosen) = Cardinality(K)
      /\ \A k \in K : \E x \in chosen : RankIn(R, rows)[x] = k
    BY <1>2, <1>6, AsManyAsRanks
<1> HIDE DEF chosen
<1>8. \A x \in rows : RankIn(R, rows)[x] \in 1..n /\ x.reward \in Int
    BY UpToFinite DEF ValidRow
<1>9. chosen \subseteq rows
    BY DEF chosen
<1>10. PICK lowest \in chosen : RankIn(R, rows)[lowest] = 1
    BY <1>6, <1>7
<1>11. PICK highest \in chosen : RankIn(R, rows)[highest] = n
    BY <1>6, <1>7
<1>12. \A x \in rows : lowest.reward <= x.reward
    <2> SUFFICES ASSUME NEW x \in rows PROVE lowest.reward <= x.reward
        OBVIOUS
    <2>1. <<x, lowest>> \notin R
        <3>1. <<x, lowest>> \in R => RankIn(R, rows)[x] < RankIn(R, rows)[lowest]
            BY <1>2, <1>9, RanksGrow
        <3> QED
            BY <1>8, <1>10, <3>1
    <2>2. x = lowest \/ Before(lowest, x)
        BY <1>2, <1>3, <1>9, <2>1 DEF StrictTotalOrder
    <2> QED
        BY <1>8, <1>9, <2>2 DEF Before
<1>13. \A x \in rows : x.reward <= highest.reward
    <2> SUFFICES ASSUME NEW x \in rows PROVE x.reward <= highest.reward
        OBVIOUS
    <2>1. <<highest, x>> \notin R
        <3>1. <<highest, x>> \in R => RankIn(R, rows)[highest] < RankIn(R, rows)[x]
            BY <1>2, <1>9, RanksGrow
        <3> QED
            BY <1>1, <1>8, <1>11, <3>1
    <2>2. x = highest \/ Before(x, highest)
        BY <1>2, <1>3, <1>9, <2>1 DEF StrictTotalOrder
    <2> QED
        BY <1>8, <1>9, <2>2 DEF Before
<1>14. VariesEnough(chosen)
    <2>1. PICK low \in rows, high \in rows :
            /\ high.reward - low.reward > Epsilon
            /\ high.reward - low.reward + Epsilon >= MinSpread
        BY DEF VariesEnough
    <2>2. /\ lowest.reward <= low.reward /\ high.reward <= highest.reward
          /\ lowest.reward \in Int /\ highest.reward \in Int
          /\ low.reward \in Int /\ high.reward \in Int
        BY <1>8, <1>9, <1>12, <1>13
    <2>3. /\ highest.reward - lowest.reward > Epsilon
          /\ highest.reward - lowest.reward + Epsilon >= MinSpread
        BY <2>1, <2>2
    <2> QED
        BY <2>3 DEF VariesEnough
<1> QED
    BY <1>5, <1>6, <1>7, <1>9, <1>14

\* Where nothing is selected there is nothing to select.
LEMMA NothingSelected ==
    ASSUME NEW rows \in SUBSET ValidRow, IsFiniteSet(rows), SelectGroup(rows) = {},
           NEW group \in SUBSET rows, Cardinality(group) = GroupSize
    PROVE  ~VariesEnough(group)
<1> SUFFICES ASSUME VariesEnough(group) PROVE FALSE
    OBVIOUS
<1>1. VariesEnough(rows)
    BY DEF VariesEnough
<1>2. GroupSize <= Cardinality(rows) /\ Cardinality(rows) \in Nat
    BY FS_Subset, FS_CardinalityType
<1>3. Cardinality(SelectGroup(rows)) = GroupSize
    BY <1>1, <1>2, SelectedGroup
<1> QED
    BY <1>3, FS_EmptySet

-----------------------------------------------------------------------------
(* The counters. *)

LEMMA CountersInit == Init => Counters
<1>1. /\ 0 \in 0..MaxBatches /\ 0 \in Nat /\ 0 <= MaxSkips + 1
      /\ ~(0 > MaxSkips) /\ "idle" # "sampling" /\ "idle" # "raised"
    OBVIOUS
<1> QED
    BY <1>1 DEF Init, Counters

LEMMA CountersStep == Counters /\ [Next]_vars => Counters'
<1> SUFFICES ASSUME Counters, [Next]_vars PROVE Counters'
    OBVIOUS
<1> USE DEF Counters
<1>1. CASE StartUpdate
    BY <1>1 DEF StartUpdate
<1>2. ASSUME NEW sampled \in [Prompt -> Rollouts], Refill(sampled)
      PROVE  Counters'
    BY <1>2 DEF Refill, Generate
<1>3. ASSUME NEW sampled \in [Prompt -> Rollouts], Merge(sampled)
      PROVE  Counters'
    <2>1. /\ phase = "sampling" /\ batches < MaxBatches /\ attempts' = attempts + 1
          /\ skips' = 0 /\ streak' = 0 /\ updates' = updates
        BY <1>3 DEF Merge, Generate, FinishUpdate
    <2>2. ~(skips' > MaxSkips)
        BY <2>1
    <2>3. phase' = "sampled" /\ batches' = 0
        BY <1>3, <2>2 DEF Merge, FinishUpdate
    <2> QED
        BY <2>1, <2>3
<1>4. ASSUME NEW sampled \in [Prompt -> Rollouts], GiveUp(sampled)
      PROVE  Counters'
    <2>1. /\ phase = "sampling" /\ batches < MaxBatches /\ attempts' = attempts + 1
          /\ skips' = skips + 1 /\ streak' = streak + 1 /\ updates' = updates
          /\ phase' = IF skips' > MaxSkips THEN "raised" ELSE "sampled"
          /\ batches' = IF skips' > MaxSkips THEN batches + 1 ELSE 0
        BY <1>4 DEF GiveUp, Generate, FinishUpdate
    <2> QED
        BY <2>1
<1>5. CASE Update
    BY <1>5 DEF Update
<1>6. CASE UNCHANGED vars
    BY <1>6 DEF vars
<1> QED
    BY <1>1, <1>2, <1>3, <1>4, <1>5, <1>6 DEF Next, Sample

LEMMA CountersHold == Spec => []Counters
BY CountersInit, CountersStep, PTL DEF Spec

\* The limit on batches is that of one update: the counter always equals the
\* attempts of the update it serves, so record_batch never raises.
THEOREM LimitIsPerUpdateHolds == Spec => []LimitIsPerUpdate
<1>1. Counters => LimitIsPerUpdate
    BY DEF Counters, LimitIsPerUpdate
<1> QED
    BY <1>1, CountersHold, PTL

\* The count of skips is that of the current run of skipped updates, and
\* training has been ended exactly when it went over its bound.
THEOREM SkipsAreConsecutiveHolds == Spec => []SkipsAreConsecutive
<1>1. Counters => SkipsAreConsecutive
    BY DEF Counters, SkipsAreConsecutive
<1> QED
    BY <1>1, CountersHold, PTL

\* Both at once: the one object that counts for all updates always counts for
\* the update it serves.
THEOREM CountersServe == Spec => []CountersServeTheirUpdate
<1>1. LimitIsPerUpdate /\ SkipsAreConsecutive => CountersServeTheirUpdate
    BY DEF CountersServeTheirUpdate
<1> QED
    BY <1>1, LimitIsPerUpdateHolds, SkipsAreConsecutiveHolds, PTL

-----------------------------------------------------------------------------
(* The rows. *)

LEMMA RowsStep == Counters /\ RowsTyped /\ [Next]_vars => RowsTyped'
<1> SUFFICES ASSUME Counters, RowsTyped, [Next]_vars PROVE RowsTyped'
    OBVIOUS
<1>0. attempts \in Nat
    BY DEF Counters
<1>1. CASE StartUpdate
    BY <1>1 DEF StartUpdate, RowsTyped, Nothing
<1>2. ASSUME NEW sampled \in [Prompt -> Rollouts], Generate(sampled)
      PROVE  candidates' \in [Prompt -> SUBSET Candidate] /\ trained' = trained
    BY <1>0, <1>2, PooledTyped DEF Generate
<1>3. ASSUME NEW sampled \in [Prompt -> Rollouts], Refill(sampled)
      PROVE  RowsTyped'
    BY <1>2, <1>3 DEF Refill, RowsTyped
<1>4. ASSUME NEW sampled \in [Prompt -> Rollouts], Merge(sampled)
      PROVE  RowsTyped'
    <2>1. candidates' \in [Prompt -> SUBSET Candidate] /\ trained' = trained
        BY <1>2, <1>4 DEF Merge
    <2>2. output' = [u \in Prompt |-> SelectGroup(candidates'[u])]
        BY <1>4 DEF Merge, Selections
    <2>3. \A u \in Prompt : SelectGroup(candidates'[u]) \in SUBSET Candidate
        BY <2>1, SelectGroupChooses
    <2>4. skip' \in BOOLEAN
        BY <1>4 DEF Merge
    <2> QED
        BY <2>1, <2>2, <2>3, <2>4 DEF RowsTyped
<1>5. ASSUME NEW sampled \in [Prompt -> Rollouts], GiveUp(sampled)
      PROVE  RowsTyped'
    <2>1. candidates' \in [Prompt -> SUBSET Candidate] /\ trained' = trained
        BY <1>2, <1>5 DEF GiveUp
    <2>2. [u \in Prompt |-> Rows(sampled[u], attempts)] \in [Prompt -> SUBSET Candidate]
        BY <1>0, RowsAreCandidates
    <2>3. CASE phase' = "raised"
        BY <1>5, <2>1, <2>3 DEF GiveUp, RowsTyped
    <2>4. CASE phase' # "raised"
        <3>1. /\ skip' \in BOOLEAN
              /\ output' = [u \in Prompt |-> Rows(sampled[u], attempts)]
            BY <1>5, <2>4 DEF GiveUp
        <3> QED
            BY <2>1, <2>2, <3>1 DEF RowsTyped
    <2> QED
        BY <2>3, <2>4
<1>6. CASE Update
    <2>1. TrainKept \in [Prompt -> SUBSET Candidate]
        BY KeptIsKept DEF TrainKept, RowsTyped
    <2> QED
        BY <1>6, <2>1 DEF Update, TrainMask, RowsTyped, Nothing
<1>7. CASE UNCHANGED vars
    BY <1>7 DEF vars, RowsTyped
<1> QED
    BY <1>1, <1>3, <1>4, <1>5, <1>6, <1>7 DEF Next, Sample

\* Every variable stays in its range.
THEOREM TypeCorrect == Spec => []TypeOK
<1>1. Init => RowsTyped
    BY DEF Init, RowsTyped, Nothing
<1>2. Counters /\ RowsTyped => TypeOK
    BY DEF Counters, RowsTyped, TypeOK
<1> QED
    BY <1>1, <1>2, CountersHold, RowsStep, PTL DEF Spec

-----------------------------------------------------------------------------
(* The mask. *)

\* No row of a skipped update is trained on, whatever its last output held.
THEOREM SkippedRowsAreMaskedHolds == Spec => []SkippedRowsAreMasked
<1>1. Init => SkippedRowsAreMasked
    BY DEF Init, SkippedRowsAreMasked
<1>2. Counters /\ SkippedRowsAreMasked /\ [Next]_vars => SkippedRowsAreMasked'
    <2> SUFFICES ASSUME Counters, SkippedRowsAreMasked, [Next]_vars
                 PROVE  SkippedRowsAreMasked'
        OBVIOUS
    <2>1. CASE StartUpdate
        BY <2>1 DEF StartUpdate, SkippedRowsAreMasked
    <2>2. CASE Sample
        <3>1. phase' # "idle"
            BY <2>2 DEF Sample, Refill, Merge, GiveUp, Generate, FinishUpdate
        <3> QED
            BY <3>1 DEF SkippedRowsAreMasked
    <2>3. CASE Update
        BY <2>3 DEF Update, TrainMask, SkippedRowsAreMasked
    <2>4. CASE UNCHANGED vars
        BY <2>4 DEF vars, SkippedRowsAreMasked
    <2> QED
        BY <2>1, <2>2, <2>3, <2>4 DEF Next
<1> QED
    BY <1>1, <1>2, CountersHold, PTL DEF Spec

-----------------------------------------------------------------------------
(* What is trained on, and when an update is given up. *)

\* The sampler's pool holds valid rows, its output is what it selected from
\* them, and it gives up when for some prompt it selected nothing.
SelectionState ==
    /\ \A u \in Prompt : candidates[u] \in SUBSET ValidRow /\ IsFiniteSet(candidates[u])
    /\ phase = "sampled" /\ ~skip =>
         \A u \in Prompt : /\ output[u] = SelectGroup(candidates[u])
                           /\ output[u] # {}
    /\ phase = "raised" \/ (phase = "sampled" /\ skip) =>
         \E u \in Prompt : SelectGroup(candidates[u]) = {}

LEMMA PooledRows ==
    ASSUME NEW rollout \in Rollouts, NEW b \in Nat
    PROVE  LET new == {r \in Rows(rollout, b) : r.valid}
           IN  new \in SUBSET ValidRow /\ IsFiniteSet(new)
<1> DEFINE f == [i \in 1..GroupSize |->
                   [reward |-> rollout[i], batch |-> b, row |-> i,
                    valid |-> rollout[i] # Invalid]]
           rows == Rows(rollout, b)
           new == {r \in rows : r.valid}
<1>1. rows = {f[i] : i \in 1..GroupSize}
    BY DEF Rows
<1>2. f \in Surjection(1..GroupSize, rows)
    BY <1>1 DEF Surjection
<1>3. IsFiniteSet(rows)
    BY <1>2, FS_Interval, FS_Surjection
<1>4. IsFiniteSet(new)
    BY <1>3, FS_Subset
<1>5. ASSUME NEW i \in 1..GroupSize, f[i].valid
      PROVE  f[i] \in ValidRow
    <2>1. rollout[i] \in Reward /\ rollout[i] # Invalid
        BY <1>5
    <2> QED
        BY <2>1 DEF ValidRow
<1>6. new \in SUBSET ValidRow
    BY <1>1, <1>5
<1> QED
    BY <1>4, <1>6

LEMMA PooledState ==
    ASSUME SelectionState, Counters, NEW sampled \in [Prompt -> Rollouts], NEW u \in Prompt
    PROVE  /\ Pooled(sampled)[u] \in SUBSET ValidRow
           /\ IsFiniteSet(Pooled(sampled)[u])
<1> DEFINE new == {r \in Rows(sampled[u], attempts) : r.valid}
<1>1. Pooled(sampled)[u] = candidates[u] \cup new
    BY DEF Pooled
<1>2. new \in SUBSET ValidRow /\ IsFiniteSet(new)
    <2>1. attempts \in Nat /\ sampled[u] \in Rollouts
        BY DEF Counters
    <2> QED
        BY <2>1, PooledRows
<1> HIDE DEF new
<1>3. candidates[u] \in SUBSET ValidRow /\ IsFiniteSet(candidates[u])
    BY DEF SelectionState
<1>4. IsFiniteSet(candidates[u] \cup new)
    BY <1>2, <1>3, FS_Union
<1> QED
    BY <1>1, <1>2, <1>3, <1>4

LEMMA SelectionStep == Counters /\ SelectionState /\ [Next]_vars => SelectionState'
<1> SUFFICES ASSUME Counters, SelectionState, [Next]_vars PROVE SelectionState'
    OBVIOUS
<1>1. CASE StartUpdate
    BY <1>1 DEF StartUpdate, SelectionState
<1>2. ASSUME NEW sampled \in [Prompt -> Rollouts], Generate(sampled)
      PROVE  \A u \in Prompt : candidates'[u] \in SUBSET ValidRow
                               /\ IsFiniteSet(candidates'[u])
    BY <1>2, PooledState DEF Generate
<1>3. ASSUME NEW sampled \in [Prompt -> Rollouts], Refill(sampled)
      PROVE  SelectionState'
    <2>1. phase' = "sampling"
        BY <1>3 DEF Refill, Generate
    <2> QED
        BY <1>2, <1>3, <2>1 DEF Refill, SelectionState
<1>4. ASSUME NEW sampled \in [Prompt -> Rollouts], Merge(sampled)
      PROVE  SelectionState'
    <2>1. /\ skip' = FALSE /\ skips' = 0
          /\ phase' = IF skips' > MaxSkips THEN "raised" ELSE "sampled"
        BY <1>4 DEF Merge, FinishUpdate
    <2>2. ~(skips' > MaxSkips)
        BY <2>1
    <2>3. \A u \in Prompt : /\ output'[u] = SelectGroup(candidates'[u])
                            /\ output'[u] # {}
        BY <1>4 DEF Merge, Selections
    <2> QED
        BY <1>2, <1>4, <2>1, <2>2, <2>3 DEF Merge, SelectionState
<1>5. ASSUME NEW sampled \in [Prompt -> Rollouts], GiveUp(sampled)
      PROVE  SelectionState'
    <2>1. phase' \in {"raised", "sampled"} /\ (phase' = "sampled" => skip' = TRUE)
        BY <1>5 DEF GiveUp, FinishUpdate
    <2>2. \E u \in Prompt : SelectGroup(candidates'[u]) = {}
        BY <1>5 DEF GiveUp, Selections
    <2> QED
        BY <1>2, <1>5, <2>1, <2>2 DEF GiveUp, SelectionState
<1>6. CASE Update
    <2>1. \A u \in Prompt : candidates'[u] = {}
        BY <1>6 DEF Update, Nothing
    <2>2. phase' = "idle"
        BY <1>6 DEF Update
    <2> QED
        BY <2>1, <2>2, FS_EmptySet DEF SelectionState
<1>7. CASE UNCHANGED vars
    BY <1>7 DEF vars, SelectionState
<1> QED
    BY <1>1, <1>3, <1>4, <1>5, <1>6, <1>7 DEF Next, Sample

LEMMA SelectionHolds == Spec => []SelectionState
<1>1. Init => SelectionState
    BY FS_EmptySet DEF Init, Nothing, SelectionState
<1> QED
    BY <1>1, SelectionStep, CountersHold, PTL DEF Spec

\* What an update trains on are whole groups of valid rows that differ enough,
\* and the trainer's own filter keeps every row of them; a skipped update
\* trains on nothing.
THEOREM OnlyUsefulGroupsTrainHolds == Spec => []OnlyUsefulGroupsTrain
<1>1. SelectionState => MergedGroupsTrain
    <2> SUFFICES ASSUME SelectionState, phase = "sampled", ~skip, NEW u \in Prompt
                 PROVE  /\ Cardinality(output[u]) = GroupSize
                        /\ \A r \in output[u] : r.valid
                        /\ Kept(output[u]) = output[u]
        BY DEF MergedGroupsTrain
    <2> DEFINE rows == candidates[u]
    <2>1. /\ rows \in SUBSET ValidRow /\ IsFiniteSet(rows)
          /\ output[u] = SelectGroup(rows) /\ output[u] # {}
        BY DEF SelectionState
    <2> HIDE DEF rows
    <2>2. Cardinality(rows) >= GroupSize /\ VariesEnough(rows)
        <3>1. ~(Cardinality(rows) < GroupSize) /\ VariesEnough(rows)
            BY <2>1 DEF SelectGroup
        <3> QED
            BY <2>1, <3>1, FS_CardinalityType
    <2>3. /\ output[u] \subseteq rows /\ Cardinality(output[u]) = GroupSize
          /\ VariesEnough(output[u])
        BY <2>1, <2>2, SelectedGroup
    <2>4. \A r \in output[u] : r.valid
        BY <2>1, <2>3 DEF ValidRow
    <2>5. ~(Cardinality(output[u]) < GroupSize)
        BY <2>3
    <2> QED
        BY <2>3, <2>4, <2>5 DEF Kept
<1>2. MergedGroupsTrain /\ SkippedRowsAreMasked => OnlyUsefulGroupsTrain
    BY DEF OnlyUsefulGroupsTrain
<1> QED
    BY <1>1, <1>2, SelectionHolds, SkippedRowsAreMaskedHolds, PTL

\* An update is given up only when for some prompt no group at all, among the
\* valid rows of every attempt, differs enough.
THEOREM SkipOnlyWhenHopelessHolds == Spec => []SkipOnlyWhenHopeless
<1>1. SelectionState => SkipOnlyWhenHopeless
    <2> SUFFICES ASSUME SelectionState, phase = "raised" \/ (phase = "sampled" /\ skip)
                 PROVE  \E u \in Prompt :
                          \A group \in SUBSET candidates[u] :
                            Cardinality(group) = GroupSize => ~VariesEnough(group)
        BY DEF SkipOnlyWhenHopeless
    <2>1. PICK u \in Prompt : SelectGroup(candidates[u]) = {}
        BY DEF SelectionState
    <2>2. candidates[u] \in SUBSET ValidRow /\ IsFiniteSet(candidates[u])
        BY DEF SelectionState
    <2> QED
        BY <2>1, <2>2, NothingSelected
<1> QED
    BY <1>1, SelectionHolds, PTL

=============================================================================
