------------------------ MODULE DesiredState_proofs ------------------------
(***************************************************************************)
(* What the functions of DesiredState compute: that sorting and filtering  *)
(* lose, invent and repeat no node and keep the order, and that a          *)
(* normalized landb-set has neither blanks nor repetitions.                *)
(***************************************************************************)
EXTENDS DesiredState, FiniteSetTheorems, NaturalsInduction, WellFoundedInduction, TLAPS

\* Induction over a set of numbers.
LEMMA NatSetInduction ==
    ASSUME NEW S \in SUBSET Nat, 0 \in S, \A n \in S : n + 1 \in S
    PROVE  S = Nat
<1> DEFINE T == Nat \ S
<1> SUFFICES ASSUME T # {} PROVE FALSE
    OBVIOUS
<1>1. PICK t \in T : \A u \in T : ~(<<u, t>> \in OpToRel(<, Nat))
    BY NatLessThanWellFounded, WFMin
<1>2. \A u \in T : ~(u < t)
    BY <1>1 DEF OpToRel
<1>3. t - 1 \in S
    BY <1>2
<1> QED  BY <1>3

\* There are n numbers from 1 to n.
LEMMA CountFromOne ==
    ASSUME NEW n \in Nat
    PROVE  IsFiniteSet(1..n) /\ Cardinality(1..n) = n
<1>1. n \in Int /\ (IF 1 > n THEN 0 ELSE n - 1 + 1) = n
    OBVIOUS
<1> QED  BY <1>1, FS_Interval

-----------------------------------------------------------------------------
(***************************************************************************)
(* Sorted lists.                                                           *)
(***************************************************************************)
Increasing(list, rank) ==
    \A i, j \in DOMAIN list : i < j => rank[list[i]] < rank[list[j]]

\* A set whose elements have ranks of their own.
Ranked(S, rank) ==
    /\ IsFiniteSet(S)
    /\ \A x \in S : rank[x] \in Nat
    /\ \A x, y \in S : rank[x] = rank[y] => x = y

Below(S, rank, x) == {y \in S : rank[y] < rank[x]}

\* An element of a higher rank has more elements below it.
LEMMA BelowGrows ==
    ASSUME NEW S, NEW rank, Ranked(S, rank), NEW x \in S
    PROVE  /\ Cardinality(Below(S, rank, x)) \in 0..(Cardinality(S) - 1)
           /\ \A y \in S : rank[x] < rank[y] =>
                Cardinality(Below(S, rank, x)) < Cardinality(Below(S, rank, y))
<1> DEFINE P(y) == Below(S, rank, y)
<1>1. /\ IsFiniteSet(S) /\ Cardinality(S) \in Nat
      /\ \A y \in S : rank[y] \in Nat
    BY FS_CardinalityType DEF Ranked
<1>2. IsFiniteSet(S \ {x}) /\ Cardinality(S \ {x}) = Cardinality(S) - 1
    BY <1>1, FS_RemoveElement
<1>3. P(x) \in SUBSET (S \ {x})
    BY <1>1 DEF Below
<1>4. IsFiniteSet(P(x)) /\ Cardinality(P(x)) <= Cardinality(S) - 1 /\ Cardinality(P(x)) \in Nat
    BY <1>2, <1>3, FS_Subset, FS_CardinalityType
<1>5. ASSUME NEW y \in S, rank[x] < rank[y]
      PROVE  Cardinality(P(x)) < Cardinality(P(y))
    <2>1. P(x) \cup {x} \in SUBSET P(y) /\ x \notin P(x)
        BY <1>1, <1>5 DEF Below
    <2>2. IsFiniteSet(P(y))
        <3>1. P(y) \in SUBSET S
            BY DEF Below
        <3> QED  BY <1>1, <3>1, FS_Subset
    <2>3. Cardinality(P(x) \cup {x}) = Cardinality(P(x)) + 1
        BY <1>4, <2>1, FS_AddElement
    <2>4. Cardinality(P(x) \cup {x}) <= Cardinality(P(y)) /\ Cardinality(P(y)) \in Nat
        BY <2>1, <2>2, FS_Subset, FS_CardinalityType
    <2> QED  BY <1>4, <2>3, <2>4
<1> QED  BY <1>1, <1>4, <1>5

\* Every number from 0 on is the number of elements below one element.
LEMMA PlaceExists ==
    ASSUME NEW S, NEW rank, Ranked(S, rank), NEW k \in 1..Cardinality(S)
    PROVE  \E x \in S : Cardinality(Below(S, rank, x)) = k - 1
<1> DEFINE count == [x \in S |-> Cardinality(Below(S, rank, x)) + 1]
           n == Cardinality(S)
           T == 1..n
<1>1. IsFiniteSet(S) /\ n \in Nat
    BY FS_CardinalityType DEF Ranked
<1>2. \A x \in S : Cardinality(Below(S, rank, x)) \in 0..(n - 1)
    BY BelowGrows
<1>3. ASSUME NEW x \in S, NEW y \in S, x # y PROVE count[x] # count[y]
    <2>1. rank[x] < rank[y] \/ rank[y] < rank[x]
        BY <1>3 DEF Ranked
    <2>2. Cardinality(Below(S, rank, x)) \in Int /\ Cardinality(Below(S, rank, y)) \in Int
        BY <1>1, <1>2
    <2> QED  BY <2>1, <2>2, BelowGrows
<1>4. count \in Injection(S, T)
    <2>1. count \in [S -> T]
        BY <1>1, <1>2
    <2> QED  BY <1>3, <2>1 DEF Injection, IsInjective
<1>5. IsFiniteSet(T) /\ Cardinality(T) = n
    BY <1>1, CountFromOne
<1>6. count \in Surjection(S, T)
    <2> HIDE DEF T, count
    <2> QED  BY <1>1, <1>4, <1>5, FS_Injection
<1>7. PICK x \in S : count[x] = k
    BY <1>6 DEF Surjection
<1> QED  BY <1>1, <1>2, <1>7

\* SortBy sorts: the elements are those of S, each once, in order.
LEMMA SortByIs ==
    ASSUME NEW S, NEW rank, Ranked(S, rank)
    PROVE  /\ SortBy(S, rank) \in [1..Cardinality(S) -> S] /\ SortBy(S, rank) \in Seq(S)
           /\ Len(SortBy(S, rank)) = Cardinality(S)
           /\ ToSet(SortBy(S, rank)) = S /\ Increasing(SortBy(S, rank), rank)
<1> DEFINE n == Cardinality(S)
           Sorts(q) == ToSet(q) = S /\ \A i, j \in DOMAIN q : i < j => rank[q[i]] <= rank[q[j]]
           count(x) == Cardinality(Below(S, rank, x))
           r == [k \in 1..n |-> CHOOSE x \in S : count(x) = k - 1]
<1>1. IsFiniteSet(S) /\ n \in Nat /\ \A x \in S : rank[x] \in Nat
    BY FS_CardinalityType DEF Ranked
<1>2. \A x, y \in S : count(x) = count(y) => x = y
    <2>1. SUFFICES ASSUME NEW x \in S, NEW y \in S, x # y PROVE count(x) # count(y)
        OBVIOUS
    <2>2. rank[x] < rank[y] \/ rank[y] < rank[x]
        BY <2>1 DEF Ranked
    <2>3. count(x) \in Int /\ count(y) \in Int
        BY <1>1, BelowGrows
    <2> QED  BY <2>2, <2>3, BelowGrows
<1>3. \E q \in [1..n -> S] : Sorts(q)
    <2>1. ASSUME NEW k \in 1..n PROVE r[k] \in S /\ count(r[k]) = k - 1
        BY PlaceExists
    <2>2. r \in [1..n -> S]
        BY <2>1
    <2> HIDE DEF r
    <2>3. ASSUME NEW x \in S PROVE x \in ToSet(r)
        <3>1. count(x) \in 0..(n - 1)
            BY BelowGrows
        <3>2. count(x) + 1 \in 1..n /\ (count(x) + 1) - 1 = count(x)
            BY <1>1, <3>1
        <3>3. r[count(x) + 1] = x
            BY <1>2, <2>1, <3>2
        <3> QED  BY <2>2, <3>2, <3>3 DEF ToSet
    <2>4. ASSUME NEW i \in 1..n, NEW j \in 1..n, i < j PROVE rank[r[i]] <= rank[r[j]]
        <3>1. r[i] \in S /\ r[j] \in S /\ count(r[i]) = i - 1 /\ count(r[j]) = j - 1
            BY <2>1
        <3>2. rank[r[j]] < rank[r[i]] => j - 1 < i - 1
            BY <3>1, BelowGrows
        <3> QED  BY <1>1, <2>4, <3>1, <3>2
    <2>5. ToSet(r) = S
        BY <2>2, <2>3 DEF ToSet
    <2> QED  BY <2>2, <2>4, <2>5
<1> DEFINE q == SortBy(S, rank)
<1>4. q \in [1..n -> S] /\ Sorts(q)
    <2>1. q = CHOOSE p \in [1..n -> S] : Sorts(p)
        BY DEF SortBy
    <2> HIDE DEF q, Sorts, n
    <2> QED  BY <1>3, <2>1
<1>5. q \in Seq(S) /\ Len(q) = n /\ DOMAIN q = 1..n
    BY <1>1, <1>4
<1>6. q \in Injection(1..n, S)
    <2>1. IsFiniteSet(1..n) /\ Cardinality(1..n) = Cardinality(S)
        BY <1>1, CountFromOne
    <2>2. q \in Surjection(1..n, S)
        BY <1>4 DEF Surjection, ToSet
    <2> HIDE DEF q
    <2> QED  BY <1>1, <2>1, <2>2, FS_SurjSameCardinalityImpliesInj
<1>7. ASSUME NEW i \in 1..n, NEW j \in 1..n, i < j PROVE rank[q[i]] < rank[q[j]]
    <2>1. q[i] \in S /\ q[j] \in S /\ rank[q[i]] <= rank[q[j]]
        BY <1>4, <1>7
    <2>2. q[i] # q[j]
        BY <1>1, <1>6, <1>7 DEF Injection, IsInjective
    <2>3. rank[q[i]] # rank[q[j]]
        BY <2>1, <2>2 DEF Ranked
    <2> QED  BY <1>1, <2>1, <2>3
<1> QED  BY <1>4, <1>5, <1>7 DEF Increasing

\* The k-th element has k - 1 elements below it.
LEMMA PlaceInOrder ==
    ASSUME NEW S, NEW rank, Ranked(S, rank), NEW k \in 1..Cardinality(S)
    PROVE  Cardinality(Below(S, rank, SortBy(S, rank)[k])) = k - 1
<1> DEFINE n == Cardinality(S)
           q == SortBy(S, rank)
           I == 1..(k - 1)
           P == Below(S, rank, q[k])
           g == [i \in I |-> q[i]]
<1>1. n \in Nat /\ k \in 1..n /\ \A x \in S : rank[x] \in Nat
    BY FS_CardinalityType DEF Ranked
<1>2. q \in [1..n -> S] /\ ToSet(q) = S /\ Increasing(q, rank)
    BY SortByIs
<1> HIDE DEF q
<1>3. ASSUME NEW i \in 1..n, NEW j \in 1..n, i < j PROVE rank[q[i]] < rank[q[j]]
    BY <1>2, <1>3 DEF Increasing
<1>4. ASSUME NEW i \in 1..n PROVE rank[q[i]] < rank[q[k]] <=> i < k
    <2>1. rank[q[i]] \in Nat /\ rank[q[k]] \in Nat
        BY <1>1, <1>2
    <2>2. CASE i < k
        BY <1>1, <1>3, <2>2
    <2>3. CASE i = k
        BY <1>1, <2>1, <2>3
    <2>4. CASE k < i
        <3>1. rank[q[k]] < rank[q[i]]
            BY <1>1, <1>3, <2>4
        <3> QED  BY <1>1, <2>1, <2>4, <3>1
    <2> QED  BY <1>1, <2>2, <2>3, <2>4
<1>5. I \subseteq 1..n
    BY <1>1
<1>6. g \in Bijection(I, P)
    <2>1. g \in [I -> P]
        <3>1. \A i \in I : q[i] \in P
            BY <1>1, <1>2, <1>4, <1>5 DEF Below
        <3> QED  BY <3>1
    <2>2. ASSUME NEW i \in I, NEW j \in I, i # j PROVE g[i] # g[j]
        <3>1. i \in 1..n /\ j \in 1..n /\ (i < j \/ j < i)
            BY <1>1, <1>5, <2>2
        <3>2. rank[q[i]] < rank[q[j]] \/ rank[q[j]] < rank[q[i]]
            BY <1>3, <3>1
        <3>3. rank[q[i]] \in Nat /\ rank[q[j]] \in Nat
            BY <1>1, <1>2, <3>1
        <3> QED  BY <3>2, <3>3
    <2>3. ASSUME NEW x \in P PROVE \E i \in I : g[i] = x
        <3>1. PICK i \in 1..n : q[i] = x
            BY <1>2 DEF ToSet, Below
        <3>2. i < k
            BY <1>4, <3>1 DEF Below
        <3>3. i \in I
            BY <1>1, <3>2
        <3> QED  BY <3>1, <3>3
    <2> QED  BY <2>1, <2>2, <2>3 DEF Bijection, Injection, Surjection, IsInjective
<1>7. IsFiniteSet(I) /\ Cardinality(I) = k - 1
    <2>1. k - 1 \in Nat
        BY <1>1
    <2> QED  BY <2>1, CountFromOne
<1>8. Cardinality(P) = Cardinality(I)
    <2> HIDE DEF g, I, P
    <2> QED  BY <1>6, <1>7, FS_Bijection DEF ExistsBijection
<1> QED  BY <1>7, <1>8 DEF q

-----------------------------------------------------------------------------
(***************************************************************************)
(* Filtered lists.                                                         *)
(***************************************************************************)
KeptIs(f, list, S, m) ==
    f = [i \in 0..m |-> IF i = 0 THEN <<>>
                        ELSE IF list[i] \in S THEN Append(f[i - 1], list[i]) ELSE f[i - 1]]

\* The recursion that Keep is defined by has a solution.
LEMMA KeptExists ==
    ASSUME NEW list, NEW S, NEW m \in Nat
    PROVE  \E f : KeptIs(f, list, S, m)
<1> DEFINE N == {k \in Nat : \E f : KeptIs(f, list, S, k)}
<1>1. 0 \in N
    <2>1. KeptIs([i \in 0..0 |-> <<>>], list, S, 0)
        BY DEF KeptIs
    <2> QED  BY <2>1
<1>2. ASSUME NEW k \in N PROVE k + 1 \in N
    <2>1. PICK f : KeptIs(f, list, S, k)
        OBVIOUS
    <2> DEFINE last == IF list[k + 1] \in S THEN Append(f[k], list[k + 1]) ELSE f[k]
               g == [i \in 0..(k + 1) |-> IF i <= k THEN f[i] ELSE last]
    <2>2. ASSUME NEW i \in 0..(k + 1)
          PROVE  g[i] = IF i = 0 THEN <<>>
                        ELSE IF list[i] \in S THEN Append(g[i - 1], list[i]) ELSE g[i - 1]
        <3>1. CASE i <= k
            <4>1. i \in 0..k /\ (i # 0 => i - 1 \in 0..k /\ i - 1 \in 0..(k + 1) /\ i - 1 <= k)
                BY <3>1
            <4>2. f[i] = IF i = 0 THEN <<>>
                         ELSE IF list[i] \in S THEN Append(f[i - 1], list[i]) ELSE f[i - 1]
                BY <2>1, <4>1 DEF KeptIs
            <4>3. g[i] = f[i] /\ (i # 0 => g[i - 1] = f[i - 1])
                BY <3>1, <4>1
            <4> HIDE DEF g
            <4> QED  BY <4>2, <4>3
        <3>2. CASE i = k + 1
            <4>1. g[i] = last /\ g[i - 1] = f[k] /\ i # 0 /\ list[i] = list[k + 1]
                BY <3>2
            <4> HIDE DEF g
            <4> QED  BY <4>1
        <3> QED  BY <3>1, <3>2
    <2>3. KeptIs(g, list, S, k + 1)
        <3>1. g = [i \in 0..(k + 1) |-> g[i]]
            OBVIOUS
        <3> HIDE DEF g
        <3> QED  BY <2>2, <3>1 DEF KeptIs
    <2> HIDE DEF g
    <2> QED  BY <2>3
<1> HIDE DEF N
<1>3. N = Nat
    <2>1. N \in SUBSET Nat
        BY DEF N
    <2> QED  BY <1>1, <1>2, <2>1, NatSetInduction
<1> QED  BY <1>3 DEF N

\* Keep keeps what is in S, in its order, and nothing else.
LEMMA KeepIs ==
    ASSUME NEW T, NEW list \in Seq(T), NEW S
    PROVE  /\ Keep(list, S) \in Seq(T) /\ ToSet(Keep(list, S)) = ToSet(list) \cap S
           /\ \A rank : Increasing(list, rank) => Increasing(Keep(list, S), rank)
<1>1. Len(list) \in Nat /\ DOMAIN list = 1..Len(list) /\ \A i \in 1..Len(list) : list[i] \in T
    OBVIOUS
<1>2. PICK f : KeptIs(f, list, S, Len(list)) /\ Keep(list, S) = f[Len(list)]
    <2> DEFINE c == CHOOSE f : KeptIs(f, list, S, Len(list))
    <2>1. KeptIs(c, list, S, Len(list))
        BY <1>1, KeptExists
    <2>2. Keep(list, S) = c[Len(list)]
        BY DEF Keep, KeptIs
    <2> HIDE DEF c
    <2> QED  BY <2>1, <2>2
<1> DEFINE First(k) == {list[i] : i \in 1..k}
           P(k) == k <= Len(list) =>
                /\ f[k] \in Seq(T) /\ ToSet(f[k]) = First(k) \cap S
                /\ \A rank : Increasing(list, rank) => Increasing(f[k], rank)
           N == {k \in Nat : P(k)}
<1>3. 0 \in N
    <2>1. f[0] = <<>> /\ First(0) = {}
        BY <1>1, <1>2 DEF KeptIs
    <2>2. f[0] \in Seq(T) /\ DOMAIN f[0] = {}
        BY <2>1
    <2>3. ToSet(f[0]) = {} /\ \A rank : Increasing(f[0], rank)
        BY <2>2 DEF ToSet, Increasing
    <2> HIDE DEF First
    <2> QED  BY <2>1, <2>2, <2>3
<1>4. ASSUME NEW k \in N PROVE k + 1 \in N
    <2> SUFFICES ASSUME k + 1 <= Len(list) PROVE P(k + 1)
        OBVIOUS
    <2> DEFINE x == list[k + 1]
    <2>1. k \in Nat /\ k <= Len(list) /\ k + 1 \in 1..Len(list) /\ x \in T
        BY <1>1
    <2>2. /\ f[k] \in Seq(T) /\ ToSet(f[k]) = First(k) \cap S
          /\ \A rank : Increasing(list, rank) => Increasing(f[k], rank)
        BY <2>1
    <2>3. First(k + 1) = First(k) \cup {x}
        BY <2>1
    <2>4. f[k + 1] = IF x \in S THEN Append(f[k], x) ELSE f[k]
        <3>1. k + 1 \in 0..Len(list) /\ k + 1 # 0 /\ (k + 1) - 1 = k
            BY <2>1
        <3>2. \A i \in 0..Len(list) :
                f[i] = IF i = 0 THEN <<>>
                       ELSE IF list[i] \in S THEN Append(f[i - 1], list[i]) ELSE f[i - 1]
            BY <1>2 DEF KeptIs
        <3> QED  BY <3>1, <3>2
    <2>5. CASE x \in S
        <3> DEFINE m == Len(f[k])
        <3>1. /\ m \in Nat /\ DOMAIN f[k] = 1..m /\ f[k + 1] \in Seq(T)
              /\ DOMAIN f[k + 1] = 1..(m + 1) /\ f[k + 1][m + 1] = x
              /\ \A i \in 1..m : f[k + 1][i] = f[k][i]
            BY <2>1, <2>2, <2>4, <2>5
        <3>2. ToSet(f[k + 1]) = ToSet(f[k]) \cup {x}
            <4>1. 1..(m + 1) = (1..m) \cup {m + 1}
                BY <3>1
            <4> HIDE DEF m, x
            <4> QED  BY <3>1, <4>1 DEF ToSet
        <3>3. ASSUME NEW rank, Increasing(list, rank) PROVE Increasing(f[k + 1], rank)
            <4>1. Increasing(f[k], rank)
                BY <2>2, <3>3
            <4>2. ASSUME NEW i \in 1..m PROVE rank[f[k][i]] < rank[x]
                <5>1. f[k][i] \in First(k)
                    BY <2>2, <3>1 DEF ToSet
                <5>2. PICK j \in 1..k : f[k][i] = list[j]
                    BY <5>1
                <5> QED  BY <1>1, <2>1, <3>3, <5>2 DEF Increasing
            <4>3. ASSUME NEW i \in 1..(m + 1), NEW j \in 1..(m + 1), i < j
                  PROVE  rank[f[k + 1][i]] < rank[f[k + 1][j]]
                <5>1. i \in 1..m /\ (j \in 1..m \/ j = m + 1)
                    BY <3>1, <4>3
                <5>2. CASE j = m + 1
                    BY <3>1, <4>2, <5>1, <5>2
                <5>3. CASE j \in 1..m
                    BY <3>1, <4>1, <4>3, <5>1, <5>3 DEF Increasing
                <5> QED  BY <5>1, <5>2, <5>3
            <4> QED  BY <3>1, <4>3 DEF Increasing
        <3> HIDE DEF First
        <3> QED  BY <2>2, <2>3, <2>5, <3>1, <3>2, <3>3
    <2>6. CASE x \notin S
        <3> HIDE DEF First
        <3> QED  BY <2>2, <2>3, <2>4, <2>6
    <2> QED  BY <2>5, <2>6
<1> HIDE DEF N
<1>5. N = Nat
    <2>1. N \in SUBSET Nat
        BY DEF N
    <2> QED  BY <1>3, <1>4, <2>1, NatSetInduction
<1>6. P(Len(list))
    BY <1>1, <1>5 DEF N
<1>7. First(Len(list)) = ToSet(list)
    BY <1>1 DEF ToSet
<1> HIDE DEF First
<1> QED  BY <1>1, <1>2, <1>6, <1>7

-----------------------------------------------------------------------------
(***************************************************************************)
(* Values and selectors.                                                   *)
(***************************************************************************)
NormalizedIs(f, value, m) ==
    f = [i \in 0..m |-> IF i = 0 THEN <<>>
                        ELSE IF value[i] = Blank \/ value[i] \in ToSet(f[i - 1]) THEN f[i - 1]
                        ELSE Append(f[i - 1], value[i])]

\* The recursion that normalizeLandbSet is defined by has a solution.
LEMMA NormalizedExists ==
    ASSUME NEW value, NEW m \in Nat
    PROVE  \E f : NormalizedIs(f, value, m)
<1> DEFINE N == {k \in Nat : \E f : NormalizedIs(f, value, k)}
<1>1. 0 \in N
    <2>1. NormalizedIs([i \in 0..0 |-> <<>>], value, 0)
        BY DEF NormalizedIs
    <2> QED  BY <2>1
<1>2. ASSUME NEW k \in N PROVE k + 1 \in N
    <2>1. PICK f : NormalizedIs(f, value, k)
        OBVIOUS
    <2> DEFINE x == value[k + 1]
               last == IF x = Blank \/ x \in ToSet(f[k]) THEN f[k] ELSE Append(f[k], x)
               g == [i \in 0..(k + 1) |-> IF i <= k THEN f[i] ELSE last]
    <2>2. ASSUME NEW i \in 0..(k + 1)
          PROVE  g[i] = IF i = 0 THEN <<>>
                        ELSE IF value[i] = Blank \/ value[i] \in ToSet(g[i - 1]) THEN g[i - 1]
                        ELSE Append(g[i - 1], value[i])
        <3>1. CASE i <= k
            <4>1. i \in 0..k /\ (i # 0 => i - 1 \in 0..k /\ i - 1 \in 0..(k + 1) /\ i - 1 <= k)
                BY <3>1
            <4>2. f[i] = IF i = 0 THEN <<>>
                         ELSE IF value[i] = Blank \/ value[i] \in ToSet(f[i - 1]) THEN f[i - 1]
                         ELSE Append(f[i - 1], value[i])
                BY <2>1, <4>1 DEF NormalizedIs
            <4>3. g[i] = f[i] /\ (i # 0 => g[i - 1] = f[i - 1])
                BY <3>1, <4>1
            <4> HIDE DEF g
            <4> QED  BY <4>2, <4>3
        <3>2. CASE i = k + 1
            <4>1. g[i] = last /\ g[i - 1] = f[k] /\ i # 0 /\ value[i] = x
                BY <3>2
            <4> HIDE DEF g
            <4> QED  BY <4>1
        <3> QED  BY <3>1, <3>2
    <2>3. NormalizedIs(g, value, k + 1)
        <3>1. g = [i \in 0..(k + 1) |-> g[i]]
            OBVIOUS
        <3> HIDE DEF g
        <3> QED  BY <2>2, <3>1 DEF NormalizedIs
    <2> HIDE DEF g
    <2> QED  BY <2>3
<1> HIDE DEF N
<1>3. N = Nat
    <2>1. N \in SUBSET Nat
        BY DEF N
    <2> QED  BY <1>1, <1>2, <2>1, NatSetInduction
<1> QED  BY <1>3 DEF N

\* normalizeLandbSet drops the blanks and the repetitions.
LEMMA NormalizeIs ==
    ASSUME NEW value \in Seq(STRING)
    PROVE  /\ normalizeLandbSet(value) \in Seq(STRING)
           /\ Blank \notin ToSet(normalizeLandbSet(value)) /\ IsInjective(normalizeLandbSet(value))
<1>1. Len(value) \in Nat /\ \A i \in 1..Len(value) : value[i] \in STRING
    OBVIOUS
<1>2. PICK f : NormalizedIs(f, value, Len(value)) /\ normalizeLandbSet(value) = f[Len(value)]
    <2> DEFINE c == CHOOSE f : NormalizedIs(f, value, Len(value))
    <2>1. NormalizedIs(c, value, Len(value))
        BY <1>1, NormalizedExists
    <2>2. normalizeLandbSet(value) = c[Len(value)]
        BY DEF normalizeLandbSet, NormalizedIs
    <2> HIDE DEF c
    <2> QED  BY <2>1, <2>2
<1> DEFINE Normal(q) == q \in Seq(STRING) /\ Blank \notin ToSet(q) /\ IsInjective(q)
           P(k) == k <= Len(value) => Normal(f[k])
           N == {k \in Nat : P(k)}
<1>3. 0 \in N
    <2>1. f[0] = <<>>
        BY <1>1, <1>2 DEF NormalizedIs
    <2>2. f[0] \in Seq(STRING) /\ DOMAIN f[0] = {}
        BY <2>1
    <2> QED  BY <2>2 DEF ToSet, IsInjective
<1>4. ASSUME NEW k \in N PROVE k + 1 \in N
    <2> SUFFICES ASSUME k + 1 <= Len(value) PROVE Normal(f[k + 1])
        OBVIOUS
    <2> DEFINE x == value[k + 1]
    <2>1. k \in Nat /\ k <= Len(value) /\ k + 1 \in 1..Len(value) /\ x \in STRING
        BY <1>1
    <2>2. Normal(f[k])
        BY <2>1
    <2>3. f[k + 1] = IF x = Blank \/ x \in ToSet(f[k]) THEN f[k] ELSE Append(f[k], x)
        <3>1. k + 1 \in 0..Len(value) /\ k + 1 # 0 /\ (k + 1) - 1 = k
            BY <2>1
        <3>2. \A i \in 0..Len(value) :
                f[i] = IF i = 0 THEN <<>>
                       ELSE IF value[i] = Blank \/ value[i] \in ToSet(f[i - 1]) THEN f[i - 1]
                       ELSE Append(f[i - 1], value[i])
            BY <1>2 DEF NormalizedIs
        <3> QED  BY <3>1, <3>2
    <2>4. CASE x = Blank \/ x \in ToSet(f[k])
        BY <2>2, <2>3, <2>4
    <2>5. CASE ~(x = Blank \/ x \in ToSet(f[k]))
        <3> DEFINE m == Len(f[k])
        <3>1. /\ m \in Nat /\ DOMAIN f[k] = 1..m /\ f[k + 1] \in Seq(STRING)
              /\ DOMAIN f[k + 1] = 1..(m + 1) /\ f[k + 1][m + 1] = x
              /\ \A i \in 1..m : f[k + 1][i] = f[k][i]
            BY <2>1, <2>2, <2>3, <2>5
        <3>2. \A i \in 1..m : f[k][i] # x /\ f[k][i] # Blank
            BY <2>2, <2>5, <3>1 DEF ToSet
        <3>3. \A i, j \in 1..m : f[k][i] = f[k][j] => i = j
            BY <2>2, <3>1 DEF IsInjective
        <3>4. \A i \in 1..(m + 1) : i \in 1..m \/ i = m + 1
            BY <3>1
        <3>5. x # Blank
            BY <2>5
        <3> HIDE DEF m, x
        <3>6. \A i \in 1..(m + 1) : f[k + 1][i] # Blank
            BY <3>1, <3>2, <3>4, <3>5
        <3>7. ASSUME NEW i \in 1..(m + 1), NEW j \in 1..(m + 1), f[k + 1][i] = f[k + 1][j]
              PROVE  i = j
            BY <3>1, <3>2, <3>3, <3>4, <3>7
        <3> QED  BY <3>1, <3>6, <3>7 DEF ToSet, IsInjective
    <2> QED  BY <2>4, <2>5
<1> HIDE DEF N
<1>5. N = Nat
    <2>1. N \in SUBSET Nat
        BY DEF N
    <2> QED  BY <1>3, <1>4, <2>1, NatSetInduction
<1> QED  BY <1>1, <1>2, <1>5 DEF N

\* parseLabels makes a sequence of a sequence.
LEMMA SelectorsInSequence ==
    Len(IngressNodeLabels) \in Nat /\ DOMAIN IngressNodeLabels = 1..Len(IngressNodeLabels)
<1> DEFINE parts == ingressNodeLabels
           given == Keep(parts, ToSet(parts) \ {<<>>})
           selectors == [i \in DOMAIN given |-> ParseLabelSelector(given[i])]
<1>1. given \in Seq(ToSet(parts))
    BY KeepIs, DesiredStateAssumption
<1>2. IngressNodeLabels = selectors
    BY DEF IngressNodeLabels, parseLabels
<1>3. Len(given) \in Nat /\ DOMAIN given = 1..Len(given)
    BY <1>1
<1> HIDE DEF given
<1>4. selectors \in [1..Len(given) -> {ParseLabelSelector(given[i]) : i \in 1..Len(given)}]
    BY <1>3
<1> HIDE DEF selectors
<1>5. selectors \in Seq({ParseLabelSelector(given[i]) : i \in 1..Len(given)})
    BY <1>3, <1>4
<1> QED  BY <1>2, <1>5

-----------------------------------------------------------------------------
(***************************************************************************)
(* The lists of a DesiredState.                                            *)
(***************************************************************************)
OfNodes(infos) == \A info \in infos : info.Name \in NodeName

OnePerName(infos) == \A i, j \in infos : i.Name = j.Name => i = j

NameOrdered(list) ==
    \A i, j \in DOMAIN list : i < j => NameRank[list[i].Name] < NameRank[list[j].Name]

NameRanks(infos) == [info \in infos |-> NameRank[info.Name]]

\* An element of a finite set for each of these.
LEMMA FiniteByName ==
    ASSUME NEW infos, OfNodes(infos), OnePerName(infos)
    PROVE  IsFiniteSet(infos)
<1> DEFINE f == [info \in infos |-> info.Name]
<1>1. f \in Injection(infos, NodeName)
    BY DEF OfNodes, OnePerName, Injection, IsInjective
<1> HIDE DEF f
<1> QED  BY <1>1, FS_Injection, DesiredStateAssumption

\* The place of a node in the list is the number of those before it by name.
PlacesAreCounts(infos) ==
    \A k \in 1..Cardinality(infos) :
        Cardinality({info \in infos :
            NameRank[info.Name] < NameRank[SortByName(infos)[k].Name]}) = k - 1

\* Sorting by name loses no node and puts each where its name belongs.
LEMMA SortByNameIs ==
    ASSUME NEW infos, OfNodes(infos), OnePerName(infos)
    PROVE  /\ IsFiniteSet(infos) /\ SortByName(infos) \in Seq(infos)
           /\ Len(SortByName(infos)) = Cardinality(infos)
           /\ ToSet(SortByName(infos)) = infos /\ NameOrdered(SortByName(infos))
           /\ PlacesAreCounts(infos)
<1> DEFINE rank == NameRanks(infos)
           q == SortBy(infos, rank)
<1>1. q = SortByName(infos)
    BY DEF SortByName, NameRanks
<1>2. \A info \in infos : rank[info] = NameRank[info.Name] /\ rank[info] \in Nat
    BY DesiredStateAssumption DEF NameRanks, OfNodes
<1>3. Ranked(infos, rank)
    <2>1. ASSUME NEW x \in infos, NEW y \in infos, rank[x] = rank[y] PROVE x = y
        BY <1>2, <2>1, DesiredStateAssumption DEF OfNodes, OnePerName
    <2> QED  BY <1>2, <2>1, FiniteByName DEF Ranked
<1> HIDE DEF rank
<1>4. /\ q \in Seq(infos) /\ Len(q) = Cardinality(infos) /\ ToSet(q) = infos
      /\ Increasing(q, rank)
    BY <1>3, SortByIs
<1>5. \A k \in 1..Cardinality(infos) : Cardinality(Below(infos, rank, q[k])) = k - 1
    BY <1>3, PlaceInOrder
<1> HIDE DEF q
<1>6. \A k \in DOMAIN q : q[k] \in infos
    BY <1>4
<1>7. NameOrdered(q)
    BY <1>2, <1>4, <1>6 DEF NameOrdered, Increasing
<1>8. ASSUME NEW k \in 1..Cardinality(infos)
      PROVE  Cardinality({info \in infos : NameRank[info.Name] < NameRank[q[k].Name]}) = k - 1
    <2>1. q[k] \in infos
        BY <1>4, <1>6
    <2>2. Below(infos, rank, q[k]) = {info \in infos : NameRank[info.Name] < NameRank[q[k].Name]}
        BY <1>2, <2>1 DEF Below
    <2> QED  BY <1>5, <2>2
<1> QED  BY <1>1, <1>3, <1>4, <1>7, <1>8 DEF Ranked, PlacesAreCounts

\* A filtered list is still in the order of the names.
LEMMA KeepOrdered ==
    ASSUME NEW infos, OfNodes(infos), NEW list \in Seq(infos), NameOrdered(list), NEW S
    PROVE  NameOrdered(Keep(list, S))
<1> DEFINE rank == NameRanks(infos)
<1>1. \A info \in infos : rank[info] = NameRank[info.Name]
    BY DEF NameRanks
<1>2. \A i \in DOMAIN list : list[i] \in infos
    OBVIOUS
<1> HIDE DEF rank
<1>3. Increasing(list, rank)
    BY <1>1, <1>2 DEF Increasing, NameOrdered
<1>4. Keep(list, S) \in Seq(infos) /\ Increasing(Keep(list, S), rank)
    BY <1>3, KeepIs
<1>5. \A i \in DOMAIN Keep(list, S) : Keep(list, S)[i] \in infos
    BY <1>4
<1> QED  BY <1>1, <1>4, <1>5 DEF Increasing, NameOrdered

\* A list in the order of the names has each name once.
LEMMA OrderedOnce ==
    ASSUME NEW infos, OfNodes(infos), NEW list \in Seq(infos), NameOrdered(list)
    PROVE  \A i, j \in DOMAIN list : list[i].Name = list[j].Name => i = j
<1> SUFFICES ASSUME NEW i \in DOMAIN list, NEW j \in DOMAIN list, list[i].Name = list[j].Name
             PROVE  i = j
    OBVIOUS
<1>1. list[i] \in infos /\ i \in Nat /\ j \in Nat
    OBVIOUS
<1>2. NameRank[list[i].Name] \in Nat
    BY <1>1, DesiredStateAssumption DEF OfNodes
<1>3. ~(i < j) /\ ~(j < i)
    BY <1>2 DEF NameOrdered
<1> QED  BY <1>1, <1>3

\* A list without repetitions is as long as the set of its elements.
LEMMA LengthIsCount ==
    ASSUME NEW T, NEW list \in Seq(T), IsInjective(list)
    PROVE  IsFiniteSet(ToSet(list)) /\ Cardinality(ToSet(list)) = Len(list)
<1>1. Len(list) \in Nat /\ DOMAIN list = 1..Len(list)
    OBVIOUS
<1>2. IsFiniteSet(1..Len(list)) /\ Cardinality(1..Len(list)) = Len(list)
    BY <1>1, CountFromOne
<1>3. list \in Bijection(1..Len(list), ToSet(list))
    <2>1. list \in [1..Len(list) -> ToSet(list)]
        BY <1>1 DEF ToSet
    <2> QED  BY <1>1, <2>1 DEF Bijection, Injection, Surjection, ToSet, IsInjective
<1> QED  BY <1>1, <1>2, <1>3, FS_Bijection DEF ExistsBijection

\* The nodes of a cluster.
Existing(objects) == {n \in NodeName : objects[n] # Absent}

Infos(objects) == {nodeInfoFromNode(n, objects[n]) : n \in Existing(objects)}

\* listAllNodes has every node of the cluster, once, in order.
LEMMA AllNodesAre ==
    ASSUME NEW objects
    PROVE  /\ OfNodes(Infos(objects)) /\ OnePerName(Infos(objects))
           /\ listAllNodes(objects) \in Seq(Infos(objects))
           /\ ToSet(listAllNodes(objects)) = Infos(objects)
           /\ NameOrdered(listAllNodes(objects))
<1>1. \A info \in Infos(objects) :
        info.Name \in NodeName /\ info = nodeInfoFromNode(info.Name, objects[info.Name])
    BY DEF Infos, Existing, nodeInfoFromNode
<1>2. OfNodes(Infos(objects)) /\ OnePerName(Infos(objects))
    BY <1>1 DEF OfNodes, OnePerName
<1>3. listAllNodes(objects) = SortByName(Infos(objects))
    BY DEF listAllNodes, Infos, Existing
<1> QED  BY <1>2, <1>3, SortByNameIs

\* An image of a finite set is finite.
LEMMA FiniteImage ==
    ASSUME NEW S, IsFiniteSet(S), NEW f, S = DOMAIN f, f = [x \in S |-> f[x]]
    PROVE  IsFiniteSet({f[x] : x \in S})
<1> DEFINE T == {f[x] : x \in S}
<1>1. f \in Surjection(S, T)
    BY DEF Surjection
<1> HIDE DEF T
<1>2. IsFiniteSet(T)
    BY <1>1, FS_Surjection
<1> QED  BY <1>2 DEF T

\* listAliases lists every alias of the rules, once, in order.
LEMMA ListAliasesIs ==
    ASSUME NEW rules, IsFiniteSet(DOMAIN rules),
           \A i \in DOMAIN rules : IsFiniteSet(rules[i]) /\ rules[i] \subseteq Host
    PROVE  listAliases(rules) \in Seq(AliasName) /\ IsInjective(listAliases(rules))
<1> DEFINE lists == {[j \in DOMAIN rules |-> rules[j]][i] : i \in DOMAIN rules}
           hosts == UNION lists
           names == {[g \in hosts |-> AliasOf[g]][h] : h \in hosts}
           S == names \ {NoAlias}
           q == SortBy(S, AliasRank)
<1>1. q = listAliases(rules)
    <2>1. S = {AliasOf[h] : h \in UNION {rules[i] : i \in DOMAIN rules}} \ {NoAlias}
        OBVIOUS
    <2> HIDE DEF S
    <2> QED  BY <2>1 DEF listAliases
<1>2. IsFiniteSet(S) /\ S \subseteq AliasName
    <2>1. IsFiniteSet(lists)
        BY FiniteImage
    <2>2. IsFiniteSet(hosts)
        <3>1. \A l \in lists : IsFiniteSet(l)
            OBVIOUS
        <3> HIDE DEF lists
        <3> QED  BY <2>1, <3>1, FS_UNION
    <2>3. IsFiniteSet(names)
        <3> HIDE DEF hosts
        <3> QED  BY <2>2, FiniteImage
    <2>4. names \ {NoAlias} \subseteq AliasName
        BY DEF AliasName
    <2> HIDE DEF names
    <2> QED  BY <2>3, <2>4, FS_Difference
<1> HIDE DEF S
<1>3. Ranked(S, AliasRank)
    BY <1>2, DesiredStateAssumption DEF Ranked
<1>4. q \in Seq(S) /\ Increasing(q, AliasRank)
    BY <1>3, SortByIs
<1> HIDE DEF q
<1>5. q \in Seq(AliasName)
    BY <1>2, <1>4
<1>6. ASSUME NEW i \in DOMAIN q, NEW j \in DOMAIN q, q[i] = q[j] PROVE i = j
    <2>1. AliasRank[q[i]] \in Nat /\ i \in Nat /\ j \in Nat
        BY <1>5, DesiredStateAssumption
    <2>2. ~(i < j) /\ ~(j < i)
        BY <1>4, <1>6, <2>1 DEF Increasing
    <2> QED  BY <2>1, <2>2
<1> QED  BY <1>1, <1>5, <1>6 DEF IsInjective
=============================================================================
