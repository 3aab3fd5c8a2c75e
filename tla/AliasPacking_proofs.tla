------------------------ MODULE AliasPacking_proofs ------------------------
(***************************************************************************)
(* What the functions of AliasPacking compute, for every list of aliases,  *)
(* every length and every limit: sorting neither loses nor repeats an      *)
(* alias, packing loses none and reading the keys back gives them all.     *)
(***************************************************************************)
EXTENDS AliasPacking, FiniteSetTheorems, NaturalsInduction, WellFoundedInduction, TLAPS

\* Induction over a set of numbers.
LEMMA NatSetInduction ==
    ASSUME NEW S \in SUBSET Nat, 0 \in S, \A n \in S : n + 1 \in S
    PROVE  S = Nat
<1> DEFINE T == Nat \ S
<1> SUFFICES ASSUME T # {} PROVE FALSE
    OBVIOUS
<1>1. PICK t \in T : \A u \in T : ~(<<u, t>> \in OpToRel(<, Nat))
    BY NatLessThanWellFounded, WFMin
<1>2. \A u \in T : ~(u < t)
    BY <1>1 DEF OpToRel
<1>3. t - 1 \in S
    BY <1>2
<1> QED  BY <1>3

\* There are n numbers below n.
LEMMA CountFromZero ==
    ASSUME NEW n \in Nat
    PROVE  IsFiniteSet(0..(n - 1)) /\ Cardinality(0..(n - 1)) = n
<1> DEFINE a == 0
           b == n - 1
<1>1. a \in Int /\ b \in Int /\ (a > b => n = 0) /\ b - a + 1 = n
    OBVIOUS
<1> HIDE DEF a, b
<1>2. IsFiniteSet(a..b) /\ Cardinality(a..b) = n
    BY <1>1, FS_Interval
<1> QED  BY <1>2 DEF a, b

-----------------------------------------------------------------------------
(***************************************************************************)
(* Sorting.                                                                *)
(***************************************************************************)

\* The order of sort.Strings is total on such a list.
LEMMA BeforeTotal ==
    ASSUME NEW s, IsSuffixedList(s), NEW x \in ToSet(s), NEW y \in ToSet(s)
    PROVE  /\ SuffixedRank[x.alias] \in Nat /\ SuffixedRank[y.alias] \in Nat
           /\ x = y \/ Before(x, y) \/ Before(y, x)
<1>1. PICK i \in 1..Len(s), j \in 1..Len(s) : s[i] = x /\ s[j] = y
    BY DEF ToSet, IsSuffixedList
<1>2. x \in Suffixed /\ y \in Suffixed /\ x.load = y.load
    BY <1>1 DEF IsSuffixedList
<1>3. SuffixedRank[x.alias] \in Nat /\ SuffixedRank[y.alias] \in Nat
    BY <1>2, PackingAssumption DEF Suffixed
<1>4. x.alias = y.alias => x = y
    BY <1>2 DEF Suffixed
<1>5. SuffixedRank[x.alias] = SuffixedRank[y.alias] => x.alias = y.alias
    BY <1>2, PackingAssumption DEF Suffixed
<1> QED  BY <1>3, <1>4, <1>5 DEF Before

\* The list has as many elements as its set.
LEMMA ListCardinality ==
    ASSUME NEW s, IsSuffixedList(s)
    PROVE  /\ Len(s) \in Nat
           /\ IsFiniteSet(ToSet(s)) /\ Cardinality(ToSet(s)) = Len(s)
<1>1. s \in Seq(Suffixed) /\ Len(s) \in Nat /\ DOMAIN s = 1..Len(s)
    BY DEF IsSuffixedList
<1>2. IsFiniteSet(1..Len(s)) /\ Cardinality(1..Len(s)) = Len(s)
    BY <1>1, FS_Interval
<1>3. s \in Bijection(1..Len(s), ToSet(s))
    <2>1. s \in [1..Len(s) -> ToSet(s)]
        BY <1>1 DEF ToSet
    <2> QED  BY <1>1, <2>1 DEF Bijection, Injection, Surjection, ToSet, IsInjective, IsSuffixedList
<1> QED  BY <1>1, <1>2, <1>3, FS_Bijection DEF ExistsBijection

\* An element has as many predecessors as its place says, and no two elements
\* have equally many.
LEMMA PredecessorsCounted ==
    ASSUME NEW s, IsSuffixedList(s), NEW x \in ToSet(s)
    PROVE  /\ Cardinality(Predecessors(ToSet(s), x)) \in 0..(Len(s) - 1)
           /\ \A y \in ToSet(s) : Before(x, y) =>
                Cardinality(Predecessors(ToSet(s), x)) < Cardinality(Predecessors(ToSet(s), y))
<1> DEFINE S == ToSet(s)
           P(y) == Predecessors(S, y)
<1>1. IsFiniteSet(S) /\ Cardinality(S) = Len(s) /\ Len(s) \in Nat
    BY ListCardinality
<1>2. \A y \in S : SuffixedRank[y.alias] \in Nat
    BY BeforeTotal
<1>3. IsFiniteSet(S \ {x}) /\ Cardinality(S \ {x}) = Len(s) - 1
    BY <1>1, FS_RemoveElement
<1>4. P(x) \in SUBSET (S \ {x})
    BY <1>2 DEF Predecessors, Before
<1>5. IsFiniteSet(P(x)) /\ Cardinality(P(x)) <= Len(s) - 1 /\ Cardinality(P(x)) \in Nat
    BY <1>3, <1>4, FS_Subset, FS_CardinalityType
<1>6. ASSUME NEW y \in S, Before(x, y)
      PROVE  Cardinality(P(x)) < Cardinality(P(y))
    <2>1. P(x) \cup {x} \in SUBSET P(y) /\ x \notin P(x)
        BY <1>2, <1>6 DEF Predecessors, Before
    <2>2. IsFiniteSet(P(y))
        <3>1. P(y) \in SUBSET S
            BY DEF Predecessors
        <3> QED  BY <1>1, <3>1, FS_Subset
    <2>3. Cardinality(P(x) \cup {x}) = Cardinality(P(x)) + 1
        BY <1>5, <2>1, FS_AddElement
    <2>4. Cardinality(P(x) \cup {x}) <= Cardinality(P(y)) /\ Cardinality(P(y)) \in Nat
        BY <2>1, <2>2, FS_Subset, FS_CardinalityType
    <2> QED  BY <1>5, <2>3, <2>4
<1> QED  BY <1>1, <1>5, <1>6

\* Every number from 0 on is the number of predecessors of one element.
LEMMA RankExists ==
    ASSUME NEW s, IsSuffixedList(s), NEW k \in 1..Len(s)
    PROVE  /\ \E x \in ToSet(s) : Cardinality(Predecessors(ToSet(s), x)) = k - 1
           /\ \A x, y \in ToSet(s) :
                Cardinality(Predecessors(ToSet(s), x)) = Cardinality(Predecessors(ToSet(s), y))
                    => x = y
<1> DEFINE S == ToSet(s)
           count == [x \in S |-> Cardinality(Predecessors(S, x))]
           T == 0..(Len(s) - 1)
<1>1. IsFiniteSet(S) /\ Cardinality(S) = Len(s) /\ Len(s) \in Nat
    BY ListCardinality
<1>2. \A x \in S : count[x] \in T /\ \A y \in S : Before(x, y) => count[x] < count[y]
    BY PredecessorsCounted
<1>3. \A x, y \in S : count[x] = count[y] => x = y
    <2>1. SUFFICES ASSUME NEW x \in S, NEW y \in S, x # y PROVE count[x] # count[y]
        OBVIOUS
    <2>2. Before(x, y) \/ Before(y, x)
        BY <2>1, BeforeTotal
    <2>3. count[x] \in Int /\ count[y] \in Int
        BY <1>1, <1>2
    <2> QED  BY <1>2, <2>2, <2>3
<1>4. count \in Injection(S, T)
    <2>1. count \in [S -> T]
        BY <1>2
    <2> QED  BY <1>3, <2>1 DEF Injection, IsInjective
<1>5. IsFiniteSet(T) /\ Cardinality(T) = Len(s)
    BY <1>1, CountFromZero
<1>6. count \in Surjection(S, T)
    <2> HIDE DEF S, T, count
    <2> QED  BY <1>1, <1>4, <1>5, FS_Injection
<1>7. k - 1 \in T
    BY <1>1
<1>8. PICK x \in S : count[x] = k - 1
    BY <1>6, <1>7 DEF Surjection
<1> QED  BY <1>3, <1>8

\* SortSuffixed sorts: the elements are those of s, each once, in order.
LEMMA SortCorrect ==
    ASSUME NEW s, IsSuffixedList(s)
    PROVE  SortSuffixed(s) \in Sorted(s)
<1> DEFINE S == ToSet(s)
           q == SortSuffixed(s)
           count(x) == Cardinality(Predecessors(S, x))
<1>1. Len(s) \in Nat
    BY ListCardinality
<1>2. ASSUME NEW k \in 1..Len(s) PROVE q[k] \in S /\ count(q[k]) = k - 1
    <2>1. q[k] = CHOOSE x \in S : count(x) = k - 1
        BY DEF SortSuffixed
    <2>2. \E x \in S : count(x) = k - 1
        BY RankExists
    <2> QED  BY <2>1, <2>2
<1>3. q \in [1..Len(s) -> S]
    <2>1. q = [k \in 1..Len(s) |-> q[k]]
        BY DEF SortSuffixed
    <2> QED  BY <1>2, <2>1
<1> HIDE DEF q
<1>4. DOMAIN q = 1..Len(s) /\ ToSet(q) \subseteq S
    BY <1>3 DEF ToSet
<1>5. ASSUME NEW x \in S PROVE x \in ToSet(q)
    <2>1. count(x) \in 0..(Len(s) - 1)
        BY PredecessorsCounted
    <2>2. count(x) + 1 \in 1..Len(s) /\ (count(x) + 1) - 1 = count(x)
        BY <1>1, <2>1
    <2>3. q[count(x) + 1] \in S /\ count(q[count(x) + 1]) = count(x)
        BY <1>2, <2>2
    <2>4. q[count(x) + 1] = x
        BY <2>2, <2>3, RankExists
    <2> QED  BY <1>4, <2>2, <2>4 DEF ToSet
<1>6. ASSUME NEW i \in 1..Len(s), NEW j \in 1..Len(s), i < j
      PROVE  q[i] # q[j] /\ ~Before(q[j], q[i])
    <2>1. count(q[i]) < count(q[j]) /\ count(q[i]) \in Int /\ count(q[j]) \in Int
        BY <1>1, <1>2, <1>6
    <2>2. Before(q[j], q[i]) => count(q[j]) < count(q[i])
        BY <1>2, PredecessorsCounted
    <2> QED  BY <2>1, <2>2
<1> QED  BY <1>3, <1>4, <1>5, <1>6 DEF Sorted, q

\* There is only one sorted copy: sort.Strings has no choice, although it need
\* not be stable.
LEMMA SortUnique ==
    ASSUME NEW s, IsSuffixedList(s), NEW q \in Sorted(s)
    PROVE  q = SortSuffixed(s)
<1> DEFINE S == ToSet(s)
           count(x) == Cardinality(Predecessors(S, x))
<1>1. Len(s) \in Nat
    BY ListCardinality
<1>2. /\ q \in [1..Len(s) -> S] /\ ToSet(q) = S
      /\ \A i, j \in 1..Len(s) : i < j => q[i] # q[j] /\ ~Before(q[j], q[i])
    BY DEF Sorted
<1>3. ASSUME NEW k \in 1..Len(s) PROVE count(q[k]) = k - 1
    <2> DEFINE I == 1..(k - 1)
               P == Predecessors(S, q[k])
               g == [i \in I |-> q[i]]
    <2>1. I \subseteq 1..Len(s)
        BY <1>1
    <2>2. ASSUME NEW i \in 1..Len(s) PROVE Before(q[i], q[k]) <=> i < k
        <3>1. /\ q[i] \in S /\ q[k] \in S
              /\ SuffixedRank[q[i].alias] \in Nat /\ SuffixedRank[q[k].alias] \in Nat
            BY <1>2, BeforeTotal
        <3>2. CASE i < k
            <4>1. q[i] # q[k] /\ ~Before(q[k], q[i])
                BY <1>2, <3>2
            <4>2. Before(q[i], q[k])
                BY <3>1, <4>1, BeforeTotal
            <4> QED  BY <3>2, <4>2
        <3>3. CASE i > k
            <4>1. ~Before(q[i], q[k])
                BY <1>2, <3>3
            <4> QED  BY <1>1, <3>3, <4>1
        <3>4. CASE i = k
            BY <1>1, <3>1, <3>4 DEF Before
        <3> QED  BY <1>1, <3>2, <3>3, <3>4
    <2>3. \A i \in I : q[i] \in P
        BY <1>1, <1>2, <2>1, <2>2 DEF Predecessors
    <2>4. ASSUME NEW x \in P PROVE \E i \in I : q[i] = x
        <3>1. x \in ToSet(q) /\ Before(x, q[k])
            BY <1>2 DEF Predecessors
        <3>2. PICK i \in 1..Len(s) : q[i] = x
            BY <1>2, <3>1 DEF ToSet
        <3> QED  BY <1>1, <2>2, <3>1, <3>2
    <2>5. g \in Bijection(I, P)
        <3>1. g \in [I -> P]
            BY <2>3
        <3>2. \A i, j \in I : g[i] = g[j] => i = j
            <4>1. \A i, j \in I : i < j => q[i] # q[j]
                BY <1>2, <2>1
            <4>2. \A i, j \in I : i = j \/ i < j \/ j < i
                BY <1>1
            <4> QED  BY <4>1, <4>2
        <3> QED  BY <2>4, <3>1, <3>2 DEF Bijection, Injection, Surjection, IsInjective
    <2>6. IsFiniteSet(I) /\ Cardinality(I) = k - 1
        <3> DEFINE b == k - 1
        <3>1. b \in Int /\ (IF 1 > b THEN 0 ELSE b - 1 + 1) = b
            BY <1>1
        <3> HIDE DEF b
        <3>2. IsFiniteSet(1..b) /\ Cardinality(1..b) = b
            BY <3>1, FS_Interval
        <3> QED  BY <3>2 DEF b
    <2> QED  BY <2>5, <2>6, FS_Bijection DEF ExistsBijection
<1>4. ASSUME NEW k \in 1..Len(s)
      PROVE  q[k] = CHOOSE x \in S : count(x) = k - 1
    <2>1. q[k] \in S /\ count(q[k]) = k - 1
        BY <1>2, <1>3
    <2>2. \A x, y \in S : count(x) = count(y) => x = y
        BY RankExists
    <2> QED  BY <2>1, <2>2
<1> QED  BY <1>2, <1>4 DEF SortSuffixed

-----------------------------------------------------------------------------
(***************************************************************************)
(* Packing.                                                                *)
(***************************************************************************)

\* The length of an alias is a positive number of characters.
LEMMA WidthType == ASSUME NEW x \in Suffixed PROVE Width(x) \in Nat \ {0}
<1> DEFINE D == {d \in 1..x.load : NumeralBase ^ d <= x.load}
<1>1. x.load \in Nat /\ x.alias \in Alias
    BY DEF Suffixed
<1>2. IsFiniteSet(1..x.load)
    BY <1>1, FS_Interval
<1>3. IsFiniteSet({0} \cup D)
    <2>1. IsFiniteSet(D)
        BY <1>2, FS_Subset
    <2>2. IsFiniteSet({0})
        BY FS_Singleton
    <2> QED  BY <2>1, <2>2, FS_Union
<1>4. Digits(x.load) \in Nat
    BY <1>3, FS_CardinalityType DEF Digits
<1> QED  BY <1>1, <1>4, PackingAssumption DEF Width

\* Flushing moves the buffer to a value of its own.
LEMMA FlushMoves ==
    ASSUME NEW a, a.packed \in Seq(SUBSET Suffixed), a.buf \in SUBSET Suffixed
    PROVE  /\ Flush(a).packed \in Seq(SUBSET Suffixed)
           /\ Len(Flush(a).packed) = Len(a.packed) + 1
           /\ \A i \in 1..Len(a.packed) : Flush(a).packed[i] = a.packed[i]
           /\ Flush(a).packed[Len(a.packed) + 1] = a.buf
           /\ Flush(a).buf = {} /\ Flush(a).len = 0
BY DEF Flush

\* The parts of NothingLost and of the buffer's bookkeeping, for a packing a
\* that has dealt with the aliases in S.
Lossless(a, S) ==
    /\ a \in [packed : Seq(SUBSET Suffixed), buf : SUBSET Suffixed, len : 0..metadataCharLimit]
    /\ (UNION ToSet(a.packed)) \cup a.buf = S
    /\ \A i, j \in 1..Len(a.packed) :
        /\ i # j => a.packed[i] \cap a.packed[j] = {}
        /\ a.packed[i] # {} /\ a.packed[i] \cap a.buf = {}
    /\ a.len = 0 <=> a.buf = {}

\* Flushing a non-empty buffer loses nothing.
LEMMA FlushLossless ==
    ASSUME NEW a, NEW S, Lossless(a, S), a.buf # {}
    PROVE  Lossless(Flush(a), S)
<1> DEFINE b == Flush(a)
           n == Len(a.packed)
<1>1. /\ a.packed \in Seq(SUBSET Suffixed) /\ a.buf \in SUBSET Suffixed /\ n \in Nat
    BY DEF Lossless
<1>2. /\ b.packed \in Seq(SUBSET Suffixed) /\ Len(b.packed) = n + 1
      /\ \A i \in 1..n : b.packed[i] = a.packed[i]
      /\ b.packed[n + 1] = a.buf /\ b.buf = {} /\ b.len = 0
    BY <1>1, FlushMoves
<1>3. b \in [packed : Seq(SUBSET Suffixed), buf : SUBSET Suffixed, len : 0..metadataCharLimit]
    BY <1>2, PackingAssumption DEF Flush
<1> HIDE DEF b, n
<1>4. ToSet(b.packed) = ToSet(a.packed) \cup {a.buf}
    <2>1. DOMAIN b.packed = 1..(n + 1) /\ DOMAIN a.packed = 1..n
        BY <1>1, <1>2 DEF n
    <2> QED  BY <1>1, <1>2, <2>1 DEF ToSet
<1>5. (UNION ToSet(b.packed)) \cup b.buf = S
    <2>1. UNION (ToSet(a.packed) \cup {a.buf}) = (UNION ToSet(a.packed)) \cup a.buf
        OBVIOUS
    <2> QED  BY <1>2, <1>4, <2>1 DEF Lossless
<1>6. ASSUME NEW i \in 1..Len(b.packed), NEW j \in 1..Len(b.packed)
      PROVE  /\ i # j => b.packed[i] \cap b.packed[j] = {}
             /\ b.packed[i] # {} /\ b.packed[i] \cap b.buf = {}
    BY <1>1, <1>2 DEF Lossless, n
<1> QED  BY <1>2, <1>3, <1>5, <1>6 DEF Lossless, b

\* Writing an alias that is not packed yet into a buffer with room for it adds
\* that alias to what is packed.
LEMMA WriteLossless ==
    ASSUME NEW a, NEW S, Lossless(a, S), NEW x \in Suffixed, x \notin S,
           a.len + CommaLen(a.len) + Width(x) <= metadataCharLimit
    PROVE  Lossless(WriteAlias(a, x), S \cup {x})
<1> DEFINE b == WriteAlias(a, x)
<1>1. Width(x) \in Nat \ {0} /\ a.len \in Nat /\ CommaLen(a.len) \in Nat
    BY WidthType DEF Lossless, CommaLen
<1>2. /\ b.packed = a.packed /\ b.buf = a.buf \cup {x}
      /\ b.len = a.len + CommaLen(a.len) + Width(x)
    BY DEF WriteAlias, Lossless
<1>3. b \in [packed : Seq(SUBSET Suffixed), buf : SUBSET Suffixed, len : 0..metadataCharLimit]
    <2>1. /\ a \in [packed : Seq(SUBSET Suffixed), buf : SUBSET Suffixed,
                    len : 0..metadataCharLimit]
          /\ metadataCharLimit \in Nat
        BY PackingAssumption DEF Lossless
    <2>2. b = [packed |-> a.packed, buf |-> a.buf \cup {x},
               len |-> a.len + CommaLen(a.len) + Width(x)]
        BY DEF WriteAlias
    <2>3. a.len + CommaLen(a.len) + Width(x) \in 0..metadataCharLimit
        BY <1>1, <2>1
    <2> HIDE DEF b
    <2> QED  BY <2>1, <2>2, <2>3
<1> HIDE DEF b
<1>4. b.len # 0 /\ b.buf # {}
    BY <1>1, <1>2
<1>5. (UNION ToSet(b.packed)) \cup b.buf = S \cup {x}
    <2>1. (UNION ToSet(a.packed)) \cup a.buf = S
        BY DEF Lossless
    <2> QED  BY <1>2, <2>1
<1>6. \A i \in 1..Len(a.packed) : x \notin a.packed[i]
    <2>1. ASSUME NEW i \in 1..Len(a.packed) PROVE a.packed[i] \in ToSet(a.packed)
        BY DEF ToSet, Lossless
    <2> QED  BY <2>1 DEF Lossless
<1> QED  BY <1>2, <1>3, <1>4, <1>5, <1>6 DEF Lossless, b

\* One iteration of the loop.
LEMMA PackOneLossless ==
    ASSUME NEW a, NEW S, Lossless(a, S), NEW x \in Suffixed, x \notin S,
           Width(x) <= metadataCharLimit
    PROVE  Lossless(PackOne(a, x), S \cup {x})
<1>1. Width(x) \in Nat \ {0} /\ a.len \in Nat /\ metadataCharLimit \in Nat
    BY WidthType, PackingAssumption DEF Lossless
<1>2. CASE Overflows(a, x)
    <2>1. a.buf # {}
        BY <1>1, <1>2 DEF Overflows, CommaLen, Lossless
    <2>2. Lossless(Flush(a), S) /\ Flush(a).len = 0
        BY <2>1, FlushLossless DEF Flush
    <2>3. Flush(a).len + CommaLen(Flush(a).len) + Width(x) <= metadataCharLimit
        BY <1>1, <2>2 DEF CommaLen
    <2> QED  BY <1>2, <2>2, <2>3, WriteLossless DEF PackOne
<1>3. CASE ~Overflows(a, x)
    <2>1. a.len + CommaLen(a.len) + Width(x) <= metadataCharLimit
        BY <1>1, <1>3 DEF Overflows, CommaLen
    <2> QED  BY <1>3, <2>1, WriteLossless DEF PackOne
<1> QED  BY <1>2, <1>3

-----------------------------------------------------------------------------
(***************************************************************************)
(* The whole loop.                                                         *)
(***************************************************************************)

\* The recursion that PackLoop is defined by has a solution.
LEMMA PackLoopExists ==
    ASSUME NEW q, NEW m \in Nat
    PROVE  \E f : f = [n \in 0..m |-> IF n = 0 THEN EmptyPacking ELSE PackOne(f[n - 1], q[n])]
<1> DEFINE Solves(f, k) ==
                f = [n \in 0..k |-> IF n = 0 THEN EmptyPacking ELSE PackOne(f[n - 1], q[n])]
           S == {k \in Nat : \E f : Solves(f, k)}
<1>1. 0 \in S
    <2>1. Solves([n \in 0..0 |-> EmptyPacking], 0)
        OBVIOUS
    <2> QED  BY <2>1
<1>2. ASSUME NEW k \in S PROVE k + 1 \in S
    <2>1. PICK f : Solves(f, k)
        OBVIOUS
    <2> DEFINE g == [n \in 0..(k + 1) |-> IF n <= k THEN f[n] ELSE PackOne(f[k], q[k + 1])]
    <2>2. ASSUME NEW n \in 0..(k + 1)
          PROVE  g[n] = IF n = 0 THEN EmptyPacking ELSE PackOne(g[n - 1], q[n])
        <3>1. CASE n <= k
            <4>1. n \in 0..k /\ (n # 0 => n - 1 \in 0..k)
                BY <3>1
            <4> QED  BY <2>1, <4>1
        <3>2. CASE n = k + 1
            BY <3>2
        <3> QED  BY <3>1, <3>2
    <2>3. g = [n \in 0..(k + 1) |-> IF n = 0 THEN EmptyPacking ELSE PackOne(g[n - 1], q[n])]
        BY <2>2
    <2> HIDE DEF g
    <2>4. \E h : Solves(h, k + 1)
        BY <2>3
    <2> QED  BY <2>4
<1> HIDE DEF S
<1>3. S = Nat
    <2>1. S \in SUBSET Nat
        BY DEF S
    <2> QED  BY <1>1, <1>2, <2>1, NatSetInduction
<1> QED  BY <1>3 DEF S

\* What PackLoop is: the loop's state after each alias.
LEMMA PackLoopIs ==
    ASSUME NEW q, Len(q) \in Nat
    PROVE  /\ PackLoop(q)[0] = EmptyPacking
           /\ \A n \in 1..Len(q) : PackLoop(q)[n] = PackOne(PackLoop(q)[n - 1], q[n])
<1>1. PackLoop(q) = [n \in 0..Len(q) |-> IF n = 0 THEN EmptyPacking
                                          ELSE PackOne(PackLoop(q)[n - 1], q[n])]
    BY PackLoopExists DEF PackLoop
<1>2. /\ 0 \in 0..Len(q)
      /\ \A n \in 1..Len(q) : n \in 0..Len(q) /\ n # 0
    OBVIOUS
<1> QED  BY <1>1, <1>2

\* The last flush leaves nothing in the buffer.
LEMMA FlushLastLossless ==
    ASSUME NEW a, NEW S, Lossless(a, S)
    PROVE  Lossless(FlushLast(a), S) /\ FlushLast(a).buf = {}
<1>1. a.len \in Nat /\ (a.len = 0 <=> a.buf = {})
    BY DEF Lossless
<1>2. CASE a.len > 0
    BY <1>1, <1>2, FlushLossless DEF FlushLast, Flush
<1>3. CASE a.len = 0
    BY <1>1, <1>3 DEF FlushLast
<1> QED  BY <1>1, <1>2, <1>3

\* Nothing is packed at first.
LEMMA EmptyLossless == Lossless(EmptyPacking, {})
<1>1. /\ EmptyPacking.packed = <<>> /\ EmptyPacking.buf = {} /\ EmptyPacking.len = 0
      /\ ToSet(EmptyPacking.packed) = {} /\ Len(EmptyPacking.packed) = 0
    BY DEF EmptyPacking, ToSet
<1>2. EmptyPacking \in [packed : Seq(SUBSET Suffixed), buf : SUBSET Suffixed,
                        len : 0..metadataCharLimit]
    BY PackingAssumption DEF EmptyPacking
<1> QED  BY <1>1, <1>2 DEF Lossless

\* A sorted list holds the aliases of s, each once.
LEMMA SortedElements ==
    ASSUME NEW s, IsSuffixedList(s), NEW q \in Sorted(s)
    PROVE  /\ q \in Seq(Suffixed) /\ Len(q) = Len(s) /\ Len(q) \in Nat
           /\ {q[i] : i \in 1..Len(q)} = ToSet(s)
           /\ \A i, j \in 1..Len(q) : i < j => q[i] # q[j]
           /\ Packable(s) => \A i \in 1..Len(q) : Width(q[i]) <= metadataCharLimit
<1>1. s \in Seq(Suffixed) /\ Len(s) \in Nat /\ ToSet(s) \subseteq Suffixed
    BY DEF IsSuffixedList, ToSet
<1>2. /\ q \in [1..Len(s) -> ToSet(s)] /\ ToSet(q) = ToSet(s)
      /\ \A i, j \in 1..Len(s) : i < j => q[i] # q[j]
    BY DEF Sorted
<1>3. q \in Seq(Suffixed) /\ Len(q) = Len(s) /\ DOMAIN q = 1..Len(s)
    <2>1. q \in [1..Len(s) -> Suffixed]
        BY <1>1, <1>2
    <2> QED  BY <1>1, <2>1
<1>4. ASSUME Packable(s), NEW i \in 1..Len(q) PROVE Width(q[i]) <= metadataCharLimit
    <2>1. q[i] \in ToSet(s)
        BY <1>2, <1>3
    <2> QED  BY <1>4, <2>1 DEF Packable, ToSet
<1> QED  BY <1>1, <1>2, <1>3, <1>4 DEF ToSet

\* After n iterations the first n aliases are packed, and nothing else.
LEMMA PackLoopLossless ==
    ASSUME NEW q, q \in Seq(Suffixed),
           \A i, j \in 1..Len(q) : i < j => q[i] # q[j],
           \A i \in 1..Len(q) : Width(q[i]) <= metadataCharLimit,
           NEW n \in 0..Len(q)
    PROVE  Lossless(PackLoop(q)[n], {q[i] : i \in 1..n})
<1> DEFINE First(k) == {q[i] : i \in 1..k}
           P(k) == k <= Len(q) => Lossless(PackLoop(q)[k], First(k))
           S == {k \in Nat : P(k)}
<1>1. Len(q) \in Nat /\ \A i \in 1..Len(q) : q[i] \in Suffixed
    OBVIOUS
<1>2. 0 \in S
    <2>1. First(0) = {}
        OBVIOUS
    <2>2. Lossless(PackLoop(q)[0], First(0))
        BY <1>1, <2>1, PackLoopIs, EmptyLossless
    <2> QED  BY <2>2
<1>3. ASSUME NEW k \in S PROVE k + 1 \in S
    <2>1. CASE k + 1 <= Len(q)
        <3> DEFINE x == q[k + 1]
        <3>1. k \in Nat /\ k <= Len(q) /\ k + 1 \in 1..Len(q)
            BY <1>1, <2>1
        <3>2. Lossless(PackLoop(q)[k], First(k))
            BY <3>1
        <3>3. x \in Suffixed /\ x \notin First(k) /\ Width(x) <= metadataCharLimit
            BY <1>1, <3>1
        <3>4. First(k) \cup {x} = First(k + 1)
            BY <3>1
        <3>5. PackLoop(q)[k + 1] = PackOne(PackLoop(q)[k], x)
            BY <1>1, <3>1, PackLoopIs
        <3> HIDE DEF x, First
        <3> QED  BY <3>1, <3>2, <3>3, <3>4, <3>5, PackOneLossless
    <2>2. CASE ~(k + 1 <= Len(q))
        BY <2>2
    <2> QED  BY <2>1, <2>2
<1> HIDE DEF S
<1>4. S = Nat
    <2>1. S \in SUBSET Nat
        BY DEF S
    <2> QED  BY <1>2, <1>3, <2>1, NatSetInduction
<1>5. n \in Nat /\ n <= Len(q)
    BY <1>1
<1>6. P(n)
    BY <1>4, <1>5 DEF S
<1> QED  BY <1>5, <1>6

\* packAliases keeps every alias, once; no value is empty.
LEMMA PackValuesLossless ==
    ASSUME NEW s, IsSuffixedList(s), Packable(s)
    PROVE  /\ PackValues(s) \in Seq(SUBSET Suffixed)
           /\ UNION ToSet(PackValues(s)) = ToSet(s)
           /\ \A i, j \in 1..Len(PackValues(s)) :
                /\ i # j => PackValues(s)[i] \cap PackValues(s)[j] = {}
                /\ PackValues(s)[i] # {}
<1> DEFINE q == SortSuffixed(s)
           last == PackLoop(q)[Len(s)]
<1>1. /\ q \in Seq(Suffixed) /\ Len(q) = Len(s) /\ Len(q) \in Nat
      /\ {q[i] : i \in 1..Len(q)} = ToSet(s)
      /\ \A i, j \in 1..Len(q) : i < j => q[i] # q[j]
      /\ \A i \in 1..Len(q) : Width(q[i]) <= metadataCharLimit
    BY SortCorrect, SortedElements
<1>2. PackValues(s) = FlushLast(last).packed
    BY DEF PackValues
<1> HIDE DEF q
<1>3. Lossless(last, ToSet(s))
    <2>1. Len(s) \in 0..Len(q)
        BY <1>1
    <2>2. Lossless(PackLoop(q)[Len(s)], {q[i] : i \in 1..Len(s)})
        BY <1>1, <2>1, PackLoopLossless
    <2> QED  BY <1>1, <2>2
<1> HIDE DEF last
<1>4. Lossless(FlushLast(last), ToSet(s)) /\ FlushLast(last).buf = {}
    BY <1>3, FlushLastLossless
<1> QED  BY <1>2, <1>4 DEF Lossless

-----------------------------------------------------------------------------
(***************************************************************************)
(* The characters of a value: sums of Width over a set of aliases.         *)
(***************************************************************************)
TotalWidth(S) == MapThenSumSet(Width, S)

\* The recursion over the subsets of S that this sum is defined by.
SumsOver(f, D) ==
    f = [T \in D |-> IF T = {} THEN 0
                     ELSE LET x == CHOOSE x \in T : TRUE IN Width(x) + f[T \ {x}]]

IsSum(f, S) == SumsOver(f, SUBSET S)

\* Its equations.
LEMMA SumsOverIs ==
    ASSUME NEW S, NEW f, IsSum(f, S)
    PROVE  /\ f[{}] = 0
           /\ \A T \in SUBSET S : T # {} =>
                \E x \in T : T \ {x} \in SUBSET S /\ f[T] = Width(x) + f[T \ {x}]
<1>1. {} \in SUBSET S
    OBVIOUS
<1>2. ASSUME NEW T \in SUBSET S, T # {}
      PROVE  \E x \in T : T \ {x} \in SUBSET S /\ f[T] = Width(x) + f[T \ {x}]
    <2> DEFINE x == CHOOSE x \in T : TRUE
    <2>1. x \in T
        BY <1>2
    <2>2. f[T] = Width(x) + f[T \ {x}]
        BY <1>2 DEF IsSum, SumsOver
    <2> HIDE DEF x
    <2> QED  BY <2>1, <2>2
<1>3. f[{}] = 0
    BY <1>1 DEF IsSum, SumsOver
<1> QED  BY <1>2, <1>3

\* It has a solution.
LEMMA SumExists ==
    ASSUME NEW S, IsFiniteSet(S)
    PROVE  \E f : IsSum(f, S)
<1> DEFINE Small(k) == {T \in SUBSET S : Cardinality(T) <= k}
           K == {k \in Nat : \E f : SumsOver(f, Small(k))}
<1>1. \A T \in SUBSET S : IsFiniteSet(T) /\ Cardinality(T) \in Nat /\ Cardinality(T) <= Cardinality(S)
    BY FS_Subset, FS_CardinalityType
<1>2. 0 \in K
    <2>1. \A T \in Small(0) : T = {}
        BY <1>1, FS_EmptySet
    <2>2. SumsOver([T \in Small(0) |-> 0], Small(0))
        BY <2>1 DEF SumsOver
    <2> QED  BY <2>2
<1>3. ASSUME NEW k \in K PROVE k + 1 \in K
    <2>1. PICK f : SumsOver(f, Small(k))
        OBVIOUS
    <2> DEFINE Rest(T) == T \ {CHOOSE x \in T : TRUE}
               g == [T \in Small(k + 1) |->
                        IF T = {} THEN 0 ELSE Width(CHOOSE x \in T : TRUE) + f[Rest(T)]]
    <2>2. ASSUME NEW T \in Small(k + 1), T # {} PROVE Rest(T) \in Small(k)
        <3> DEFINE x == CHOOSE x \in T : TRUE
        <3>1. x \in T
            BY <2>2
        <3>2. Cardinality(T \ {x}) = Cardinality(T) - 1
            BY <1>1, <3>1, FS_RemoveElement
        <3> QED  BY <1>1, <3>2
    <2>3. ASSUME NEW T \in Small(k) PROVE g[T] = f[T]
        <3>1. T \in Small(k + 1)
            BY <1>1
        <3> QED  BY <2>1, <3>1 DEF SumsOver
    <2>4. ASSUME NEW T \in Small(k + 1), T # {}
          PROVE  g[T] = Width(CHOOSE x \in T : TRUE) + g[Rest(T)]
        BY <2>2, <2>3, <2>4
    <2>5. SumsOver(g, Small(k + 1))
        <3>1. {} \in Small(k + 1) => g[{}] = 0
            OBVIOUS
        <3> HIDE DEF Small
        <3>2. g = [T \in Small(k + 1) |-> g[T]]
            OBVIOUS
        <3> HIDE DEF g
        <3> QED  BY <2>4, <3>1, <3>2 DEF SumsOver
    <2> HIDE DEF g, Small
    <2>6. \E h : SumsOver(h, Small(k + 1))
        BY <2>5
    <2> QED  BY <2>6
<1> HIDE DEF K
<1>4. K = Nat
    <2>1. K \in SUBSET Nat
        BY DEF K
    <2> QED  BY <1>2, <1>3, <2>1, NatSetInduction
<1>5. Small(Cardinality(S)) = SUBSET S /\ Cardinality(S) \in Nat
    BY <1>1
<1>6. \E f : SumsOver(f, Small(Cardinality(S)))
    BY <1>4, <1>5 DEF K
<1> QED  BY <1>5, <1>6 DEF IsSum

\* Taking an element from a finite set that is not empty.
LEMMA RemoveOne ==
    ASSUME NEW T, IsFiniteSet(T), NEW k \in Nat, Cardinality(T) = k + 1
    PROVE  T # {} /\ \A c \in T : Cardinality(T \ {c}) = k
<1>1. T # {}
    BY FS_EmptySet
<1>2. ASSUME NEW c \in T PROVE Cardinality(T \ {c}) = k
    <2>1. Cardinality(T \ {c}) = Cardinality(T) - 1
        BY FS_RemoveElement
    <2> QED  BY <2>1
<1> QED  BY <1>1, <1>2

\* A sum of lengths is a number.
LEMMA SumType ==
    ASSUME NEW S \in SUBSET Suffixed, IsFiniteSet(S), NEW f, IsSum(f, S)
    PROVE  \A T \in SUBSET S : f[T] \in Nat
<1> DEFINE K == {k \in Nat : \A T \in SUBSET S : Cardinality(T) = k => f[T] \in Nat}
<1> HIDE DEF K
<1>1. \A T \in SUBSET S : IsFiniteSet(T) /\ Cardinality(T) \in Nat
    BY FS_Subset, FS_CardinalityType
<1>2. /\ f[{}] = 0
      /\ \A T \in SUBSET S : T # {} =>
            \E x \in T : T \ {x} \in SUBSET S /\ f[T] = Width(x) + f[T \ {x}]
    BY SumsOverIs
<1>3. 0 \in K
    <2>1. ASSUME NEW T \in SUBSET S, Cardinality(T) = 0 PROVE T = {}
        <3>1. IsFiniteSet(T)
            BY <1>1
        <3> QED  BY <2>1, <3>1, FS_EmptySet
    <2>2. f[{}] \in Nat
        BY <1>2
    <2> QED  BY <2>1, <2>2 DEF K
<1>4. ASSUME NEW k \in K PROVE k + 1 \in K
    <2>0. k \in Nat
        BY DEF K
    <2>2. \A T \in SUBSET S : Cardinality(T) = k => f[T] \in Nat
        BY DEF K
    <2>1. ASSUME NEW T \in SUBSET S, Cardinality(T) = k + 1 PROVE f[T] \in Nat
        <3>1. T # {} /\ IsFiniteSet(T)
            BY <1>1, <2>0, <2>1, RemoveOne
        <3>2. PICK c \in T : T \ {c} \in SUBSET S /\ f[T] = Width(c) + f[T \ {c}]
            BY <1>2, <3>1
        <3>3. Cardinality(T \ {c}) = k
            BY <2>0, <2>1, <3>1, RemoveOne
        <3>4. f[T \ {c}] \in Nat
            BY <2>2, <3>2, <3>3
        <3>5. Width(c) \in Nat
            BY WidthType
        <3> QED  BY <3>2, <3>4, <3>5
    <2> QED  BY <2>0, <2>1 DEF K
<1>5. K = Nat
    <2>1. K \in SUBSET Nat
        BY DEF K
    <2> QED  BY <1>3, <1>4, <2>1, NatSetInduction
<1> QED  BY <1>1, <1>5 DEF K

\* It does not depend on the order: any element may be split off first.
LEMMA SumSplit ==
    ASSUME NEW S \in SUBSET Suffixed, IsFiniteSet(S), NEW f, IsSum(f, S)
    PROVE  \A T \in SUBSET S : \A x \in T : f[T] = Width(x) + f[T \ {x}]
<1> DEFINE Splits(T) == \A x \in T : f[T] = Width(x) + f[T \ {x}]
           K == {k \in Nat : \A T \in SUBSET S : Cardinality(T) = k => Splits(T)}
<1> HIDE DEF K
<1>1. \A T \in SUBSET S : IsFiniteSet(T) /\ Cardinality(T) \in Nat /\ f[T] \in Nat
    BY FS_Subset, FS_CardinalityType, SumType
<1>2. /\ \A x \in S : Width(x) \in Nat
      /\ \A T \in SUBSET S : T # {} =>
            \E x \in T : T \ {x} \in SUBSET S /\ f[T] = Width(x) + f[T \ {x}]
    BY WidthType, SumsOverIs
<1>3. 0 \in K
    <2>1. ASSUME NEW T \in SUBSET S, Cardinality(T) = 0 PROVE T = {}
        <3>1. IsFiniteSet(T)
            BY <1>1
        <3> QED  BY <2>1, <3>1, FS_EmptySet
    <2> QED  BY <2>1 DEF K
<1>4. ASSUME NEW k \in K PROVE k + 1 \in K
    <2>0. k \in Nat
        BY DEF K
    <2>2. \A T \in SUBSET S : Cardinality(T) = k => Splits(T)
        BY DEF K
    <2>1. ASSUME NEW T \in SUBSET S, Cardinality(T) = k + 1, NEW x \in T
          PROVE  f[T] = Width(x) + f[T \ {x}]
        <3>1. PICK c \in T : T \ {c} \in SUBSET S /\ f[T] = Width(c) + f[T \ {c}]
            BY <1>2
        <3>2. IsFiniteSet(T)
            BY <1>1
        <3>3. Cardinality(T \ {x}) = k /\ Cardinality(T \ {c}) = k
            BY <2>0, <2>1, <3>2, RemoveOne
        <3>4. Splits(T \ {x}) /\ Splits(T \ {c})
            BY <2>2, <3>3
        <3>5. CASE x # c
            <4> DEFINE R == T \ {c, x}
            <4>1. (T \ {c}) \ {x} = R /\ (T \ {x}) \ {c} = R /\ R \in SUBSET S
                OBVIOUS
            <4>2. x \in T \ {c} /\ c \in T \ {x}
                BY <3>5
            <4>3. f[T \ {c}] = Width(x) + f[R] /\ f[T \ {x}] = Width(c) + f[R]
                BY <3>4, <4>1, <4>2
            <4>4. f[R] \in Nat /\ Width(c) \in Nat /\ Width(x) \in Nat
                BY <1>1, <1>2, <4>1
            <4> QED  BY <3>1, <4>3, <4>4
        <3> QED  BY <3>1, <3>5
    <2> QED  BY <2>0, <2>1 DEF K
<1>5. K = Nat
    <2>1. K \in SUBSET Nat
        BY DEF K
    <2> QED  BY <1>3, <1>4, <2>1, NatSetInduction
<1> QED  BY <1>1, <1>5 DEF K

\* Two sums agree on the sets they both sum.
LEMMA SumsAgree ==
    ASSUME NEW S \in SUBSET Suffixed, IsFiniteSet(S), NEW f, IsSum(f, S),
           NEW T \in SUBSET S, NEW g, IsSum(g, T)
    PROVE  f[T] = g[T]
<1> DEFINE K == {k \in Nat : \A U \in SUBSET T : Cardinality(U) = k => f[U] = g[U]}
<1> HIDE DEF K
<1>1. \A U \in SUBSET T : IsFiniteSet(U) /\ Cardinality(U) \in Nat /\ U \in SUBSET S
    BY FS_Subset, FS_CardinalityType
<1>9. /\ f[{}] = 0 /\ g[{}] = 0
      /\ \A U \in SUBSET T : U # {} =>
            \E x \in U : U \ {x} \in SUBSET T /\ g[U] = Width(x) + g[U \ {x}]
      /\ \A U \in SUBSET S : \A x \in U : f[U] = Width(x) + f[U \ {x}]
    BY SumsOverIs, SumSplit
<1>2. 0 \in K
    <2>1. ASSUME NEW U \in SUBSET T, Cardinality(U) = 0 PROVE U = {}
        <3>1. IsFiniteSet(U)
            BY <1>1
        <3> QED  BY <2>1, <3>1, FS_EmptySet
    <2> QED  BY <1>9, <2>1 DEF K
<1>3. ASSUME NEW k \in K PROVE k + 1 \in K
    <2>0. k \in Nat
        BY DEF K
    <2>2. \A U \in SUBSET T : Cardinality(U) = k => f[U] = g[U]
        BY DEF K
    <2>1. ASSUME NEW U \in SUBSET T, Cardinality(U) = k + 1 PROVE f[U] = g[U]
        <3>1. U # {} /\ IsFiniteSet(U)
            BY <1>1, <2>0, <2>1, RemoveOne
        <3>2. PICK c \in U : U \ {c} \in SUBSET T /\ g[U] = Width(c) + g[U \ {c}]
            BY <1>9, <3>1
        <3>3. f[U] = Width(c) + f[U \ {c}]
            BY <1>9, <1>1
        <3>4. Cardinality(U \ {c}) = k
            BY <2>0, <2>1, <3>1, RemoveOne
        <3>5. f[U \ {c}] = g[U \ {c}]
            BY <2>2, <3>2, <3>4
        <3> QED  BY <3>2, <3>3, <3>5
    <2> QED  BY <2>0, <2>1 DEF K
<1>4. K = Nat
    <2>1. K \in SUBSET Nat
        BY DEF K
    <2> QED  BY <1>2, <1>3, <2>1, NatSetInduction
<1> QED  BY <1>1, <1>4 DEF K

\* What TotalWidth is: nothing for no alias, and one more alias adds its length.
LEMMA TotalWidthIs ==
    /\ TotalWidth({}) = 0
    /\ \A S \in SUBSET Suffixed : IsFiniteSet(S) =>
        /\ TotalWidth(S) \in Nat
        /\ \A x \in Suffixed \ S : TotalWidth(S \cup {x}) = TotalWidth(S) + Width(x)
<1>1. ASSUME NEW S, IsFiniteSet(S)
      PROVE  \E f : IsSum(f, S) /\ TotalWidth(S) = f[S]
    <2>1. \E f : IsSum(f, S)
        BY <1>1, SumExists
    <2> QED  BY <2>1 DEF IsSum, SumsOver, TotalWidth, MapThenSumSet, MapThenFoldSet
<1>2. TotalWidth({}) = 0
    <2>1. PICK f : IsSum(f, {}) /\ TotalWidth({}) = f[{}]
        BY <1>1, FS_EmptySet
    <2> QED  BY <2>1, SumsOverIs
<1>3. ASSUME NEW S \in SUBSET Suffixed, IsFiniteSet(S)
      PROVE  /\ TotalWidth(S) \in Nat
             /\ \A x \in Suffixed \ S : TotalWidth(S \cup {x}) = TotalWidth(S) + Width(x)
    <2>1. PICK f : IsSum(f, S) /\ TotalWidth(S) = f[S]
        BY <1>1, <1>3
    <2>2. f[S] \in Nat
        BY <1>3, <2>1, SumType
    <2>3. ASSUME NEW x \in Suffixed \ S
          PROVE  TotalWidth(S \cup {x}) = TotalWidth(S) + Width(x)
        <3> DEFINE U == S \cup {x}
        <3>1. IsFiniteSet(U) /\ U \in SUBSET Suffixed /\ x \in U /\ U \ {x} = S /\ S \in SUBSET U
            BY <1>3, FS_AddElement
        <3> HIDE DEF U
        <3>2. PICK g : IsSum(g, U) /\ TotalWidth(U) = g[U]
            BY <1>1, <3>1
        <3>3. g[U] = Width(x) + g[S]
            <4>1. U \in SUBSET U
                OBVIOUS
            <4> QED  BY <3>1, <3>2, <4>1, SumSplit
        <3>4. g[S] = f[S]
            BY <2>1, <3>1, <3>2, SumsAgree
        <3>5. Width(x) \in Nat
            BY WidthType
        <3> QED  BY <2>1, <2>2, <3>2, <3>3, <3>4, <3>5 DEF U
    <2> QED  BY <2>1, <2>2, <2>3
<1> QED  BY <1>2, <1>3

\* What one alias, and one more alias, adds to a value.
LEMMA JoinedLenIs ==
    ASSUME NEW S \in SUBSET Suffixed, IsFiniteSet(S), NEW x \in Suffixed, x \notin S
    PROVE  /\ IsFiniteSet(S \cup {x}) /\ JoinedLen({x}) = Width(x)
           /\ S # {} => JoinedLen(S \cup {x}) = JoinedLen(S) + 1 + Width(x) /\ JoinedLen(S) \in Nat
<1>1. /\ IsFiniteSet(S \cup {x}) /\ Cardinality(S \cup {x}) = Cardinality(S) + 1
      /\ Cardinality(S) \in Nat /\ (S # {} => Cardinality(S) # 0)
    BY FS_AddElement, FS_CardinalityType, FS_EmptySet
<1>2. Width(x) \in Nat
    BY WidthType
<1>3. TotalWidth(S) \in Nat /\ TotalWidth(S \cup {x}) = TotalWidth(S) + Width(x)
    BY TotalWidthIs
<1>4. JoinedLen({x}) = Width(x)
    <2>1. {} \in SUBSET Suffixed /\ IsFiniteSet({}) /\ x \in Suffixed \ {} /\ {x} = {} \cup {x}
        BY FS_EmptySet
    <2>2. TotalWidth({x}) = 0 + Width(x)
        BY <2>1, TotalWidthIs
    <2>3. Cardinality({x}) = 1
        BY FS_Singleton
    <2>4. JoinedLen({x}) = TotalWidth({x}) + Cardinality({x}) - 1
        BY DEF JoinedLen, TotalWidth
    <2> QED  BY <1>2, <2>2, <2>3, <2>4
<1>5. /\ JoinedLen(S) = TotalWidth(S) + Cardinality(S) - 1
      /\ JoinedLen(S \cup {x}) = TotalWidth(S \cup {x}) + Cardinality(S \cup {x}) - 1
    BY DEF JoinedLen, TotalWidth
<1>6. ASSUME S # {}
      PROVE  JoinedLen(S \cup {x}) = JoinedLen(S) + 1 + Width(x) /\ JoinedLen(S) \in Nat
    BY <1>1, <1>2, <1>3, <1>5, <1>6
<1> QED  BY <1>1, <1>4, <1>6

\* The length the loop believes the buffer to have is its length, and no value
\* flushed so far is too long.
Fitting(a) ==
    /\ IsFiniteSet(a.buf) /\ (a.buf # {} => a.len = JoinedLen(a.buf))
    /\ \A i \in 1..Len(a.packed) : JoinedLen(a.packed[i]) <= metadataCharLimit

\* Flushing a buffer that fits gives a value that fits.
LEMMA FlushFitting ==
    ASSUME NEW a, NEW S, Lossless(a, S), Fitting(a), a.buf # {}
    PROVE  Fitting(Flush(a))
<1>1. /\ a.packed \in Seq(SUBSET Suffixed) /\ a.buf \in SUBSET Suffixed
      /\ Len(a.packed) \in Nat /\ a.len <= metadataCharLimit /\ a.len = JoinedLen(a.buf)
    <2>1. a.len \in 0..metadataCharLimit
        BY DEF Lossless
    <2> QED  BY <2>1, PackingAssumption DEF Lossless, Fitting
<1>2. /\ Len(Flush(a).packed) = Len(a.packed) + 1
      /\ \A i \in 1..Len(a.packed) : Flush(a).packed[i] = a.packed[i]
      /\ Flush(a).packed[Len(a.packed) + 1] = a.buf /\ Flush(a).buf = {}
    BY <1>1, FlushMoves
<1>3. ASSUME NEW i \in 1..Len(Flush(a).packed)
      PROVE  JoinedLen(Flush(a).packed[i]) <= metadataCharLimit
    <2>1. CASE i \in 1..Len(a.packed)
        BY <1>2, <2>1 DEF Fitting
    <2>2. CASE i = Len(a.packed) + 1
        BY <1>1, <1>2, <2>2
    <2> QED  BY <1>1, <1>2, <2>1, <2>2
<1> QED  BY <1>2, <1>3, FS_EmptySet DEF Fitting

\* Writing an alias keeps the length right.
LEMMA WriteFitting ==
    ASSUME NEW a, NEW S, Lossless(a, S), Fitting(a), NEW x \in Suffixed, x \notin S
    PROVE  Fitting(WriteAlias(a, x))
<1> DEFINE b == WriteAlias(a, x)
<1>1. /\ b.packed = a.packed /\ b.buf = a.buf \cup {x}
      /\ b.len = a.len + CommaLen(a.len) + Width(x)
    BY DEF WriteAlias
<1>2. /\ a.buf \in SUBSET Suffixed /\ IsFiniteSet(a.buf) /\ x \notin a.buf /\ a.len \in Nat
      /\ a.len = 0 <=> a.buf = {}
    BY DEF Lossless, Fitting
<1>3. Width(x) \in Nat
    BY WidthType
<1>4. IsFiniteSet(b.buf) /\ b.len = JoinedLen(b.buf)
    <2>1. CASE a.buf = {}
        <3>1. b.buf = {x} /\ b.len = Width(x)
            BY <1>1, <1>2, <1>3, <2>1 DEF CommaLen
        <3> QED  BY <1>2, <2>1, <3>1, JoinedLenIs
    <2>2. CASE a.buf # {}
        <3>1. a.len = JoinedLen(a.buf) /\ CommaLen(a.len) = 1
            BY <1>2, <2>2 DEF Fitting, CommaLen
        <3>2. /\ IsFiniteSet(a.buf \cup {x})
              /\ JoinedLen(a.buf \cup {x}) = JoinedLen(a.buf) + 1 + Width(x)
            BY <1>2, <2>2, JoinedLenIs
        <3> QED  BY <1>1, <3>1, <3>2
    <2> QED  BY <2>1, <2>2
<1> HIDE DEF b
<1> QED  BY <1>1, <1>4 DEF Fitting, b

\* One iteration of the loop keeps the lengths right.
LEMMA PackOneFitting ==
    ASSUME NEW a, NEW S, Lossless(a, S), Fitting(a), NEW x \in Suffixed, x \notin S,
           Width(x) <= metadataCharLimit
    PROVE  Fitting(PackOne(a, x))
<1>1. Width(x) \in Nat \ {0} /\ a.len \in Nat /\ metadataCharLimit \in Nat
    BY WidthType, PackingAssumption DEF Lossless
<1>2. CASE Overflows(a, x)
    <2>1. a.buf # {}
        BY <1>1, <1>2 DEF Overflows, CommaLen, Lossless
    <2>2. Lossless(Flush(a), S) /\ Fitting(Flush(a))
        BY <2>1, FlushLossless, FlushFitting
    <2> QED  BY <1>2, <2>2, WriteFitting DEF PackOne
<1>3. CASE ~Overflows(a, x)
    BY <1>3, WriteFitting DEF PackOne
<1> QED  BY <1>2, <1>3

-----------------------------------------------------------------------------
(***************************************************************************)
(* The keys.                                                               *)
(***************************************************************************)

\* The map of packAliases has the values under keys that all are landb-alias
\* keys, no two of them alike.
LEMMA PackedMap ==
    ASSUME NEW s, PackValues(s) \in Seq(SUBSET Suffixed)
    PROVE  /\ \A key \in DOMAIN packAliases(s) : HasAliasPrefix(key)
           /\ {packAliases(s)[key] : key \in DOMAIN packAliases(s)} = ToSet(PackValues(s))
<1> DEFINE v == PackValues(s)
           keys == {metadataKey(k - 1) : k \in DOMAIN v}
<1>1. packAliases(s) = [key \in keys |-> v[key[2] + 1]]
    BY DEF packAliases
<1> HIDE DEF v
<1>2. \A k \in DOMAIN v : k \in Int
    BY DEF v
<1>3. ASSUME NEW k \in DOMAIN v
      PROVE  /\ metadataKey(k - 1) \in keys /\ HasAliasPrefix(metadataKey(k - 1))
             /\ packAliases(s)[metadataKey(k - 1)] = v[k]
    <2>1. metadataKey(k - 1)[2] + 1 = k /\ metadataKey(k - 1)[1] = "landb-alias"
        BY <1>2 DEF metadataKey
    <2> QED  BY <1>1, <2>1 DEF HasAliasPrefix
<1>4. DOMAIN packAliases(s) = keys
    BY <1>1
<1> HIDE DEF keys
<1>5. \A key \in keys : \E k \in DOMAIN v : key = metadataKey(k - 1)
    BY DEF keys
<1> QED  BY <1>3, <1>4, <1>5 DEF v, ToSet

\* Reading the keys back gives the aliases that were packed: unpackAliases is
\* the inverse of packAliases, up to the order.
THEOREM UnpackInvertsPack ==
    ASSUME NEW s, IsSuffixedList(s), Packable(s)
    PROVE  unpackAliases(packAliases(s)) = ToSet(s)
<1>1. PackValues(s) \in Seq(SUBSET Suffixed) /\ UNION ToSet(PackValues(s)) = ToSet(s)
    BY PackValuesLossless
<1>2. {k \in DOMAIN packAliases(s) : HasAliasPrefix(k)} = DOMAIN packAliases(s)
    BY <1>1, PackedMap
<1>3. unpackAliases(packAliases(s)) = UNION ToSet(PackValues(s))
    BY <1>1, <1>2, PackedMap DEF unpackAliases
<1> QED  BY <1>1, <1>3
=============================================================================
