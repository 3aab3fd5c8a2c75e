------------------------- MODULE PackAliases_proofs -------------------------
(***************************************************************************)
(* Proofs about PackAliases, the loop of packAliases step by step: for     *)
(* every list of aliases, every length and every limit.                    *)
(***************************************************************************)
EXTENDS PackAliases, AliasPacking_proofs

-----------------------------------------------------------------------------
\* What the loop has dealt with before iteration k.
Packed(q, k) == {q[i] : i \in 1..(k - 1)}

\* LoopInv in terms of Lossless.
LEMMA LoopInvLossless ==
    ASSUME TypeOK
    PROVE  LoopInv <=>
            /\ Lossless(acc, Packed(sorted, next))
            /\ pc = "done" => UNION Values = ToSet(aliases)
            /\ pc \in {"pack", "done"} => sorted \in Sorted(aliases) /\ Packable(aliases)
            /\ pc \in {"validate", "rejected"} => acc = EmptyPacking /\ next = 1
            /\ pc = "done" => acc.buf = {} /\ next = Len(sorted) + 1
<1>1. DOMAIN acc.packed = 1..Len(acc.packed)
    BY DEF TypeOK
<1> QED  BY <1>1 DEF LoopInv, NothingLost, Lossless, Packed, Values, TypeOK

LEMMA InitLoopInv == Init => LoopInv
<1> SUFFICES ASSUME Init PROVE LoopInv
    OBVIOUS
<1>1. /\ aliases \in Inputs /\ sorted = <<>> /\ next = 1 /\ acc = EmptyPacking
      /\ pc = "validate"
    BY DEF Init
<1>2. /\ acc.packed = <<>> /\ acc.buf = {} /\ acc.len = 0 /\ Len(sorted) = 0
      /\ ToSet(acc.packed) = {} /\ Len(acc.packed) = 0
    BY <1>1 DEF EmptyPacking, ToSet
<1>3. TypeOK
    BY <1>1, <1>2, PackingAssumption DEF TypeOK, EmptyPacking
<1>4. Packed(sorted, next) = {}
    BY <1>1 DEF Packed
<1>5. Lossless(acc, Packed(sorted, next))
    BY <1>2, <1>3, <1>4 DEF Lossless, TypeOK
<1> QED  BY <1>1, <1>3, <1>5, LoopInvLossless

LEMMA AcceptLoopInv == ASSUME LoopInv, Accept PROVE LoopInv'
<1>1. /\ pc = "validate" /\ Packable(aliases) /\ sorted' \in Sorted(aliases) /\ pc' = "pack"
      /\ aliases' = aliases /\ next' = next /\ acc' = acc /\ next = 1 /\ acc = EmptyPacking
    BY DEF Accept, LoopInv
<1>2. aliases \in Seq(Suffixed)
    BY InputsAssumption DEF LoopInv, TypeOK, IsSuffixedList
<1>3. sorted' \in Seq(Suffixed) /\ Len(sorted') \in Nat
    <2>1. sorted' \in [1..Len(aliases) -> ToSet(aliases)] /\ Len(aliases) \in Nat
        BY <1>1, <1>2 DEF Sorted
    <2>2. ToSet(aliases) \subseteq Suffixed
        BY <1>2 DEF ToSet
    <2>3. sorted' \in [1..Len(aliases) -> Suffixed]
        BY <2>1, <2>2
    <2> QED  BY <2>1, <2>3
<1>4. TypeOK'
    BY <1>1, <1>3 DEF LoopInv, TypeOK
<1>5. Packed(sorted', next') = {} /\ Packed(sorted, next) = {}
    BY <1>1 DEF Packed
<1>6. Lossless(acc, Packed(sorted, next))
    BY LoopInvLossless DEF LoopInv
<1>7. Lossless(acc, Packed(sorted, next))'
    BY <1>1, <1>5, <1>6 DEF Lossless, Packed
<1> QED  BY <1>1, <1>4, <1>7 DEF LoopInv, NothingLost, Lossless, Packed, Values, TypeOK, Sorted,
            Packable

\* What an iteration packs: an alias the loop has not dealt with, and that fits a
\* key of its own.
LEMMA NextAlias ==
    ASSUME LoopInv, PackNext
    PROVE  /\ sorted[next] \in Suffixed /\ sorted[next] \notin Packed(sorted, next)
           /\ Width(sorted[next]) <= metadataCharLimit
           /\ Lossless(acc, Packed(sorted, next))
           /\ next \in 1..Len(sorted) /\ Len(sorted) \in Nat
           /\ DOMAIN sorted = 1..Len(sorted)
           /\ sorted \in Sorted(aliases) /\ Packable(aliases)
<1>1. pc = "pack" /\ next <= Len(sorted)
    BY DEF PackNext
<1>2. /\ sorted \in Seq(Suffixed) /\ next \in 1..Len(sorted) /\ Len(sorted) \in Nat
      /\ DOMAIN sorted = 1..Len(sorted) /\ IsSuffixedList(aliases)
    BY <1>1, InputsAssumption DEF LoopInv, TypeOK
<1>3. sorted \in Sorted(aliases) /\ Packable(aliases)
    BY <1>1 DEF LoopInv
<1>4. /\ \A i, j \in 1..Len(sorted) : i < j => sorted[i] # sorted[j]
      /\ \A i \in 1..Len(sorted) : Width(sorted[i]) <= metadataCharLimit
    BY <1>2, <1>3, SortedElements
<1>5. Lossless(acc, Packed(sorted, next))
    BY LoopInvLossless DEF LoopInv
<1>6. sorted[next] \in Suffixed /\ sorted[next] \notin Packed(sorted, next)
    <2>1. \A i \in 1..(next - 1) : sorted[i] # sorted[next]
        BY <1>2, <1>4
    <2> QED  BY <1>2, <2>1 DEF Packed
<1> QED  BY <1>2, <1>3, <1>4, <1>5, <1>6

LEMMA PackNextLoopInv == ASSUME LoopInv, PackNext PROVE LoopInv'
<1> DEFINE x == sorted[next]
<1>1. /\ pc = "pack" /\ next <= Len(sorted) /\ acc' = PackOne(acc, x) /\ next' = next + 1
      /\ aliases' = aliases /\ sorted' = sorted /\ pc' = pc
    BY DEF PackNext
<1>2. /\ next \in 1..Len(sorted) /\ Len(sorted) \in Nat
      /\ sorted \in Sorted(aliases) /\ Packable(aliases) /\ Lossless(acc, Packed(sorted, next))
      /\ x \in Suffixed /\ x \notin Packed(sorted, next) /\ Width(x) <= metadataCharLimit
    BY NextAlias
<1>3. Packed(sorted, next) \cup {x} = Packed(sorted, next + 1)
    BY <1>2 DEF Packed
<1> HIDE DEF x
<1>4. Lossless(acc', Packed(sorted, next + 1))
    BY <1>1, <1>2, <1>3, PackOneLossless
<1>5. TypeOK'
    BY <1>1, <1>2, <1>4 DEF LoopInv, TypeOK, Lossless
<1>6. NothingLost' /\ (acc'.len = 0 <=> acc'.buf = {})
    <2>1. DOMAIN acc'.packed = 1..Len(acc'.packed)
        BY <1>4 DEF Lossless
    <2>2. Lossless(acc', Packed(sorted', next')) /\ pc' # "done"
        BY <1>1, <1>4
    <2> QED  BY <2>1, <2>2 DEF NothingLost, Lossless, Packed, Values
<1>7. sorted' \in Sorted(aliases') /\ Packable(aliases')
    BY <1>1, <1>2
<1> QED  BY <1>1, <1>5, <1>6, <1>7 DEF LoopInv, Sorted, Packable

LEMMA ReturnLoopInv == ASSUME LoopInv, Return PROVE LoopInv'
<1>1. /\ pc = "pack" /\ next > Len(sorted) /\ acc' = FlushLast(acc) /\ pc' = "done"
      /\ aliases' = aliases /\ sorted' = sorted /\ next' = next
    BY DEF Return
<1>2. next = Len(sorted) + 1 /\ Len(sorted) \in Nat /\ DOMAIN sorted = 1..Len(sorted)
    BY <1>1 DEF LoopInv, TypeOK
<1>3. sorted \in Sorted(aliases) /\ Packable(aliases)
    BY <1>1 DEF LoopInv
<1>4. Packed(sorted, next) = ToSet(aliases)
    <2>1. ToSet(sorted) = ToSet(aliases)
        BY <1>3 DEF Sorted
    <2>2. 1..(next - 1) = DOMAIN sorted
        BY <1>2
    <2> QED  BY <2>1, <2>2 DEF Packed, ToSet
<1>5. Lossless(acc, Packed(sorted, next))
    BY LoopInvLossless DEF LoopInv
<1>6. Lossless(acc', Packed(sorted, next)) /\ acc'.buf = {}
    <2>1. acc.len \in Nat /\ (acc.len = 0 <=> acc.buf = {})
        BY <1>5 DEF Lossless
    <2>2. CASE acc.len > 0
        BY <1>1, <1>5, <2>1, <2>2, FlushLossless DEF FlushLast, Flush
    <2>3. CASE acc.len = 0
        BY <1>1, <1>5, <2>1, <2>3 DEF FlushLast
    <2> QED  BY <2>1, <2>2, <2>3
<1>7. UNION ToSet(acc'.packed) = ToSet(aliases)
    BY <1>4, <1>6 DEF Lossless
<1>8. TypeOK'
    BY <1>1, <1>6 DEF LoopInv, TypeOK, Lossless
<1>9. NothingLost' /\ (acc'.len = 0 <=> acc'.buf = {})
    <2>1. DOMAIN acc'.packed = 1..Len(acc'.packed)
        BY <1>6 DEF Lossless
    <2>2. Lossless(acc', Packed(sorted', next'))
        BY <1>1, <1>6
    <2>3. UNION ToSet(acc'.packed) = ToSet(aliases')
        BY <1>1, <1>7
    <2> QED  BY <2>1, <2>2, <2>3 DEF NothingLost, Lossless, Packed, Values
<1>10. sorted' \in Sorted(aliases') /\ Packable(aliases')
    BY <1>1, <1>3
<1> QED  BY <1>1, <1>2, <1>6, <1>8, <1>9, <1>10 DEF LoopInv, Sorted, Packable

\* The loop invariant holds at every iteration.
THEOREM LoopInvariant == Spec => []LoopInv
<1>1. LoopInv /\ [Next]_vars => LoopInv'
    <2> SUFFICES ASSUME LoopInv, [Next]_vars PROVE LoopInv'
        OBVIOUS
    <2>1. CASE Reject
        BY <2>1 DEF Reject, LoopInv, TypeOK, NothingLost, Values, Sorted, Packable
    <2>2. CASE UNCHANGED vars
        <3>1. /\ aliases' = aliases /\ sorted' = sorted /\ next' = next
              /\ acc' = acc /\ pc' = pc
            BY <2>2 DEF vars
        <3> QED  BY <3>1 DEF LoopInv, TypeOK, NothingLost, Values, Sorted, Packable
    <2> QED  BY <2>1, <2>2, AcceptLoopInv, PackNextLoopInv, ReturnLoopInv DEF Next
<1> QED  BY <1>1, InitLoopInv, PTL DEF Spec

\* packAliases keeps its variables' types; the buffer never outgrows the limit.
THEOREM TypeCorrect == Spec => []TypeOK
<1>1. LoopInv => TypeOK
    BY DEF LoopInv
<1> QED  BY <1>1, LoopInvariant, PTL

\* packAliases returns every alias it was given, once, and no empty value, for
\* every list of distinct aliases, every length and every limit.
THEOREM PackingIsLossless == Spec => []NothingLost
<1>1. LoopInv => NothingLost
    BY DEF LoopInv
<1> QED  BY <1>1, LoopInvariant, PTL
-----------------------------------------------------------------------------
(***************************************************************************)
(* The lengths of the values.                                              *)
(***************************************************************************)

LEMMA LoopFitting == Spec => [](LoopInv /\ Fitting(acc))
<1>1. Init => Fitting(acc)
    BY FS_EmptySet DEF Init, EmptyPacking, Fitting
<1>2. LoopInv /\ Fitting(acc) /\ [Next]_vars => Fitting(acc)'
    <2> SUFFICES ASSUME LoopInv, Fitting(acc), [Next]_vars PROVE Fitting(acc')
        BY DEF Fitting
    <2>1. CASE acc' = acc
        BY <2>1
    <2>2. CASE PackNext
        BY <2>2, NextAlias, PackOneFitting DEF PackNext
    <2>3. CASE Return
        <3>1. acc' = FlushLast(acc) /\ Lossless(acc, Packed(sorted, next))
            BY <2>3, LoopInvLossless DEF Return, LoopInv
        <3>2. acc.len \in Nat /\ (acc.len = 0 <=> acc.buf = {})
            BY <3>1 DEF Lossless
        <3> QED  BY <3>1, <3>2, FlushFitting DEF FlushLast
    <2> QED  BY <2>1, <2>2, <2>3 DEF Next, Reject, Accept, vars
<1> QED  BY <1>1, <1>2, LoopInvariant, PTL DEF Spec

\* No value is longer than the limit, and the buffer is as long as the loop
\* believes, for every list, every length and every limit.
THEOREM ValuesFitTheLimit == Spec => []ValuesFit
<1>1. LoopInv /\ Fitting(acc) => ValuesFit
    <2> SUFFICES ASSUME LoopInv, Fitting(acc) PROVE ValuesFit
        OBVIOUS
    <2>1. DOMAIN acc.packed = 1..Len(acc.packed)
        BY DEF LoopInv, TypeOK
    <2> QED  BY <2>1 DEF Fitting, ValuesFit
<1> QED  BY <1>1, LoopFitting, PTL

-----------------------------------------------------------------------------
(***************************************************************************)
(* The loop and the function.                                              *)
(***************************************************************************)

THEOREM LoopComputesPackAliases == Spec => []LoopComputes
<1>1. Init => LoopComputes
    BY DEF Init, LoopComputes
<1>2. LoopInv /\ LoopComputes /\ [Next]_vars => LoopComputes'
    <2> SUFFICES ASSUME LoopInv, LoopComputes, [Next]_vars PROVE LoopComputes'
        OBVIOUS
    <2>1. CASE Reject
        BY <2>1 DEF Reject, LoopComputes
    <2>2. CASE Accept
        <3>1. /\ acc' = EmptyPacking /\ next' = 1 /\ pc' = "pack"
            BY <2>2 DEF Accept, LoopInv
        <3>2. LoopInv'
            BY <2>2, AcceptLoopInv
        <3>3. Len(sorted') \in Nat
            BY <3>2 DEF LoopInv, TypeOK
        <3>4. PackLoop(sorted')[0] = EmptyPacking
            BY <3>3, PackLoopIs
        <3> QED  BY <3>1, <3>4 DEF LoopComputes
    <2>3. CASE PackNext
        <3>1. /\ acc' = PackOne(acc, sorted[next]) /\ next' = next + 1 /\ sorted' = sorted
              /\ pc = "pack" /\ pc' = "pack"
            BY <2>3 DEF PackNext
        <3>2. next \in 1..Len(sorted) /\ Len(sorted) \in Nat
            BY <2>3, NextAlias
        <3>3. acc = PackLoop(sorted)[next - 1]
            BY <3>1 DEF LoopComputes
        <3>4. acc' = PackLoop(sorted)[next]
            BY <3>1, <3>2, <3>3, PackLoopIs
        <3>5. next' - 1 = next
            BY <3>1, <3>2
        <3> QED  BY <3>1, <3>4, <3>5 DEF LoopComputes
    <2>4. CASE Return
        <3>1. /\ acc' = FlushLast(acc) /\ sorted' = sorted /\ pc = "pack" /\ pc' = "done"
              /\ next > Len(sorted)
            BY <2>4 DEF Return
        <3>2. next - 1 = Len(sorted)
            BY <3>1 DEF LoopInv, TypeOK
        <3>3. acc = PackLoop(sorted)[Len(sorted)]
            BY <3>1, <3>2 DEF LoopComputes
        <3> QED  BY <3>1, <3>3 DEF LoopComputes
    <2>5. CASE UNCHANGED vars
        BY <2>5 DEF vars, LoopComputes
    <2> QED  BY <2>1, <2>2, <2>3, <2>4, <2>5 DEF Next
<1> QED  BY <1>1, <1>2, LoopInvariant, PTL DEF Spec

\* Two lists of the same aliases are sorted alike.
LEMMA SortSame ==
    ASSUME NEW s, NEW t, IsSuffixedList(s), IsSuffixedList(t), ToSet(s) = ToSet(t)
    PROVE  SortSuffixed(s) = SortSuffixed(t) /\ Len(s) = Len(t)
<1>1. Len(s) = Len(t)
    BY ListCardinality
<1> QED  BY <1>1 DEF SortSuffixed

\* The order in which the caller lists the aliases does not matter, and reading
\* the keys back gives the aliases that were packed.
THEOREM SameKeysForAnyOrder == Spec => []SameForAnyOrder
<1>1. LoopInv /\ LoopComputes => SameForAnyOrder
    <2> SUFFICES ASSUME LoopInv, LoopComputes, pc = "done",
                        NEW s \in Inputs, ToSet(s) = ToSet(aliases)
                 PROVE  /\ PackValues(s) = acc.packed
                        /\ unpackAliases(packAliases(s)) = ToSet(aliases)
        BY DEF SameForAnyOrder
    <2>1. IsSuffixedList(s) /\ IsSuffixedList(aliases)
        BY InputsAssumption DEF LoopInv, TypeOK
    <2>2. sorted \in Sorted(aliases) /\ Packable(aliases)
        BY DEF LoopInv
    <2>3. sorted = SortSuffixed(s) /\ Len(s) = Len(sorted)
        <3>1. sorted = SortSuffixed(aliases) /\ Len(sorted) = Len(aliases)
            BY <2>1, <2>2, SortUnique, SortedElements
        <3> QED  BY <2>1, <3>1, SortSame
    <2>4. PackValues(s) = acc.packed
        BY <2>3 DEF PackValues, LoopComputes
    <2>5. Packable(s)
        BY <2>1, <2>2 DEF Packable, ToSet
    <2>6. unpackAliases(packAliases(s)) = ToSet(s)
        BY <2>1, <2>5, UnpackInvertsPack
    <2> QED  BY <2>4, <2>6
<1> QED  BY <1>1, LoopInvariant, LoopComputesPackAliases, PTL

-----------------------------------------------------------------------------
(***************************************************************************)
(* The number of keys.                                                     *)
(***************************************************************************)

\* One more position, and at most one more cut.
LEMMA CutsGrow ==
    ASSUME NEW m \in Nat, NEW cuts \in SUBSET (1..m), NEW p \in Nat \ {0}
    PROVE  /\ Cardinality(cuts \cap 1..(p - 1)) \in Nat
           /\ Cardinality(cuts \cap 1..p) =
                Cardinality(cuts \cap 1..(p - 1)) + (IF p \in cuts THEN 1 ELSE 0)
<1> DEFINE C == cuts \cap 1..(p - 1)
<1>1. IsFiniteSet(C)
    <2>1. IsFiniteSet(1..m)
        BY FS_Interval
    <2>2. C \subseteq 1..m
        OBVIOUS
    <2> QED  BY <2>1, <2>2, FS_Subset
<1>2. p \notin C /\ cuts \cap 1..p = IF p \in cuts THEN C \cup {p} ELSE C
    OBVIOUS
<1>3. Cardinality(C) \in Nat /\ Cardinality(C \cup {p}) = Cardinality(C) + 1
    <2> HIDE DEF C
    <2> QED  BY <1>1, <1>2, FS_CardinalityType, FS_AddElement
<1> HIDE DEF C
<1>4. CASE p \in cuts
    <2>1. cuts \cap 1..p = C \cup {p}
        BY <1>2, <1>4
    <2> QED  BY <1>3, <1>4, <2>1 DEF C
<1>5. CASE p \notin cuts
    <2>1. cuts \cap 1..p = C
        BY <1>2, <1>5
    <2> QED  BY <1>3, <1>5, <2>1 DEF C
<1> QED  BY <1>4, <1>5

\* One more iteration keeps the loop ahead of every other way to cut.
LEMMA PackNextGreedy ==
    ASSUME LoopInv, Fitting(acc), LoopComputes, GreedyAhead, PackNext
    PROVE  GreedyAhead'
<1> DEFINE x == sorted[next]
           p == next - 1
<1>1. /\ pc = "pack" /\ acc' = PackOne(acc, x) /\ next' = next + 1 /\ sorted' = sorted
    BY DEF PackNext
<1>2. /\ x \in Suffixed /\ x \notin Packed(sorted, next) /\ Width(x) <= metadataCharLimit
      /\ Lossless(acc, Packed(sorted, next))
      /\ next \in 1..Len(sorted) /\ Len(sorted) \in Nat
    BY NextAlias
<1>3. /\ acc.packed \in Seq(SUBSET Suffixed) /\ acc.buf \in SUBSET Suffixed
      /\ Len(acc.packed) \in Nat /\ acc.len \in Nat /\ (acc.len = 0 <=> acc.buf = {})
      /\ x \notin acc.buf /\ IsFiniteSet(acc.buf) /\ metadataCharLimit \in Nat
      /\ (acc.buf # {} => acc.len = JoinedLen(acc.buf))
      /\ Width(x) \in Nat \ {0}
    BY <1>2, WidthType, PackingAssumption DEF Lossless, Fitting
<1> DEFINE Cuts == {cuts \in SUBSET (1..(Len(sorted) - 1)) : FitWhenCut(sorted, cuts)}
           Ahead(b, a, n) ==
                /\ a.buf = {sorted[k] : k \in b..n}
                /\ \A cuts \in Cuts :
                    /\ Len(a.packed) <= Cardinality(cuts \cap 1..(n - 1))
                    /\ Len(a.packed) = Cardinality(cuts \cap 1..(n - 1))
                            => cuts \cap b..(n - 1) = {}
<1>4. SUFFICES \E b \in 1..next : Ahead(b, acc', next)
    <2>1. next' - 1 = next /\ next' - 2 = next - 1
        BY <1>1, <1>2
    <2>2. PICK b \in 1..next : Ahead(b, acc', next)
        OBVIOUS
    <2>3. /\ acc'.buf = {sorted'[k] : k \in b..(next' - 1)}
          /\ \A cuts \in SUBSET (1..(Len(sorted') - 1)) : FitWhenCut(sorted', cuts) =>
                /\ Len(acc'.packed) <= Cardinality(cuts \cap 1..(next' - 2))
                /\ Len(acc'.packed) = Cardinality(cuts \cap 1..(next' - 2))
                        => cuts \cap b..(next' - 2) = {}
        BY <1>1, <2>1, <2>2
    <2>4. b \in 1..(next' - 1)
        BY <2>1
    <2> QED  BY <2>3, <2>4 DEF GreedyAhead, FitWhenCut
<1>5. \A cuts \in Cuts :
        /\ Cardinality(cuts \cap 1..(next - 1)) \in Nat
        /\ next > 1 => /\ Cardinality(cuts \cap 1..(p - 1)) \in Nat
                       /\ Cardinality(cuts \cap 1..p) =
                            Cardinality(cuts \cap 1..(p - 1)) + (IF p \in cuts THEN 1 ELSE 0)
    <2>1. Len(sorted) - 1 \in Nat /\ next \in Nat \ {0} /\ (next > 1 => p \in Nat \ {0})
        BY <1>2
    <2> QED  BY <2>1, CutsGrow
<1>6. CASE next = 1
    <2>1. acc = EmptyPacking
        BY <1>1, <1>2, <1>6, PackLoopIs DEF LoopComputes
    <2>2. acc.packed = <<>> /\ acc.buf = {} /\ acc.len = 0
        BY <2>1 DEF EmptyPacking
    <2>3. acc'.packed = <<>> /\ acc'.buf = {x}
        BY <1>1, <1>2, <1>3, <2>2 DEF PackOne, Overflows, CommaLen, WriteAlias
    <2>4. Ahead(1, acc', next)
        <3>1. {sorted[k] : k \in 1..next} = {x}
            BY <1>6
        <3>2. \A cuts \in Cuts : cuts \cap 1..(next - 1) = {}
            BY <1>6
        <3>3. Len(acc'.packed) = 0
            BY <2>3
        <3>4. ASSUME NEW cuts \in Cuts
              PROVE  /\ Len(acc'.packed) <= Cardinality(cuts \cap 1..(next - 1))
                     /\ cuts \cap 1..(next - 1) = {}
            <4>1. Cardinality(cuts \cap 1..(next - 1)) \in Nat
                BY <1>5
            <4>2. cuts \cap 1..(next - 1) = {}
                BY <3>2
            <4> HIDE DEF Cuts
            <4> QED  BY <3>3, <4>1, <4>2
        <3> QED  BY <2>3, <3>1, <3>4
    <2> HIDE DEF Ahead
    <2> QED  BY <1>6, <2>4
<1>7. CASE next > 1
    <2>1. PICK b \in 1..p : Ahead(b, acc, p)
        <3>1. next - 2 = p - 1
            BY <1>2
        <3> QED  BY <1>1, <1>7, <3>1 DEF GreedyAhead
    <2>2. acc.buf # {} /\ p \in Nat \ {0} /\ b \in 1..next /\ p + 1 = next
        <3>1. p \in Nat \ {0} /\ b \in 1..next /\ p + 1 = next /\ p \in b..p
            BY <1>2, <1>7
        <3> QED  BY <2>1, <3>1
    <2> DEFINE V == {sorted[k] : k \in b..next}
    <2>3. acc.buf \cup {x} = V
        <3>1. b..next = (b..p) \cup {next}
            BY <1>2, <2>2
        <3> QED  BY <2>1, <3>1
    <2>4. CASE ~Overflows(acc, x)
        <3>1. acc'.packed = acc.packed /\ acc'.buf = acc.buf \cup {x}
            BY <1>1, <2>4 DEF PackOne, WriteAlias
        <3>2. ASSUME NEW cuts \in Cuts
              PROVE  /\ Len(acc.packed) <= Cardinality(cuts \cap 1..p)
                     /\ Len(acc.packed) = Cardinality(cuts \cap 1..p) => cuts \cap b..p = {}
            <4>1. /\ Cardinality(cuts \cap 1..(p - 1)) \in Nat
                  /\ Cardinality(cuts \cap 1..p) =
                        Cardinality(cuts \cap 1..(p - 1)) + (IF p \in cuts THEN 1 ELSE 0)
                BY <1>5, <1>7
            <4>2. /\ Len(acc.packed) <= Cardinality(cuts \cap 1..(p - 1))
                  /\ Len(acc.packed) = Cardinality(cuts \cap 1..(p - 1))
                        => cuts \cap b..(p - 1) = {}
                BY <2>1
            <4>3. Len(acc.packed) <= Cardinality(cuts \cap 1..p)
                BY <1>3, <4>1, <4>2
            <4>4. ASSUME Len(acc.packed) = Cardinality(cuts \cap 1..p)
                  PROVE  p \notin cuts /\ cuts \cap b..(p - 1) = {}
                BY <1>3, <4>1, <4>2, <4>4
            <4>5. b..p = (b..(p - 1)) \cup {p}
                BY <2>2
            <4> QED  BY <4>3, <4>4, <4>5
        <3>3. Ahead(b, acc', next)
            BY <2>3, <3>1, <3>2
        <3> HIDE DEF Ahead
        <3> QED  BY <2>2, <3>3
    <2>5. CASE Overflows(acc, x)
        <3>1. /\ acc'.buf = {x} /\ Len(acc'.packed) = Len(acc.packed) + 1
            BY <1>1, <1>3, <2>5, FlushMoves DEF PackOne, WriteAlias
        <3>2. JoinedLen(V) > metadataCharLimit /\ JoinedLen(V) \in Nat
            <4>1. acc.len = JoinedLen(acc.buf) /\ acc.len > 0
                BY <1>3, <2>2
            <4>2. JoinedLen(acc.buf \cup {x}) = JoinedLen(acc.buf) + 1 + Width(x)
                BY <1>2, <1>3, <2>2, JoinedLenIs
            <4>3. acc.len + Width(x) + 1 > metadataCharLimit
                BY <2>5, <4>1 DEF Overflows, CommaLen
            <4> HIDE DEF V
            <4>4. JoinedLen(V) = acc.len + 1 + Width(x)
                BY <2>3, <4>1, <4>2
            <4> HIDE DEF x
            <4> QED  BY <1>3, <4>3, <4>4
        <3>3. ASSUME NEW cuts \in Cuts
              PROVE  Len(acc.packed) + 1 <= Cardinality(cuts \cap 1..p)
            <4>1. /\ Cardinality(cuts \cap 1..(p - 1)) \in Nat
                  /\ Cardinality(cuts \cap 1..p) =
                        Cardinality(cuts \cap 1..(p - 1)) + (IF p \in cuts THEN 1 ELSE 0)
                BY <1>5, <1>7
            <4>2. /\ Len(acc.packed) <= Cardinality(cuts \cap 1..(p - 1))
                  /\ Len(acc.packed) = Cardinality(cuts \cap 1..(p - 1))
                        => cuts \cap b..(p - 1) = {}
                BY <2>1
            <4>3. cuts \cap b..(next - 1) # {}
                <5>1. FitWhenCut(sorted, cuts) /\ b \in 1..Len(sorted) /\ next \in b..Len(sorted)
                    BY <1>2, <2>2
                <5>2. ~(JoinedLen(V) <= metadataCharLimit)
                    <6> HIDE DEF V
                    <6> QED  BY <1>3, <3>2
                <5> QED  BY <5>1, <5>2 DEF FitWhenCut
            <4>4. cuts \cap b..(p - 1) # {} \/ p \in cuts
                BY <2>2, <4>3
            <4> QED  BY <1>3, <4>1, <4>2, <4>4
        <3>4. Ahead(next, acc', next)
            <4>1. {sorted[k] : k \in next..next} = {x}
                BY <1>2
            <4>2. \A cuts \in Cuts : cuts \cap next..(next - 1) = {}
                BY <1>2
            <4> QED  BY <3>1, <3>3, <4>1, <4>2
        <3>5. next \in 1..next
            BY <1>2
        <3> HIDE DEF Ahead
        <3> QED  BY <3>4, <3>5
    <2> QED  BY <2>4, <2>5
<1> QED  BY <1>2, <1>6, <1>7

\* The last flush closes the last value.
LEMMA ReturnMinimal ==
    ASSUME LoopInv, GreedyAhead, Return
    PROVE  KeysMinimal'
<1> SUFFICES ASSUME sorted # <<>>, NEW cuts \in SUBSET (1..(Len(sorted) - 1)),
                    FitWhenCut(sorted, cuts)
             PROVE  Len(acc'.packed) <= Cardinality(cuts) + 1
    <2>1. sorted' = sorted
        BY DEF Return
    <2>2. ASSUME sorted # <<>>, NEW cuts \in SUBSET (1..(Len(sorted) - 1)),
                 FitWhenCut(sorted', cuts)
          PROVE  FitWhenCut(sorted, cuts)
        BY <2>1, <2>2
    <2> QED  BY <2>1, <2>2 DEF KeysMinimal, FitWhenCut
<1>1. /\ pc = "pack" /\ next > Len(sorted) /\ acc' = FlushLast(acc)
    BY DEF Return
<1>2. /\ sorted \in Seq(Suffixed) /\ Len(sorted) \in Nat \ {0} /\ next = Len(sorted) + 1
      /\ acc.packed \in Seq(SUBSET Suffixed) /\ acc.buf \in SUBSET Suffixed
      /\ Len(acc.packed) \in Nat
    BY <1>1 DEF LoopInv, TypeOK
<1>3. next - 2 = Len(sorted) - 1 /\ next > 1 /\ cuts \cap 1..(Len(sorted) - 1) = cuts
    <2>1. next - 2 = Len(sorted) - 1 /\ next > 1
        BY <1>2
    <2> QED  BY <2>1
<1>4. Len(acc.packed) <= Cardinality(cuts)
    BY <1>1, <1>3 DEF GreedyAhead
<1>5. Cardinality(cuts) \in Nat
    <2>1. Len(sorted) - 1 \in Nat
        BY <1>2
    <2>2. IsFiniteSet(1..(Len(sorted) - 1))
        BY <2>1, FS_Interval
    <2> QED  BY <2>2, FS_Subset, FS_CardinalityType
<1>6. Len(acc'.packed) \in {Len(acc.packed), Len(acc.packed) + 1}
    BY <1>1, <1>2, FlushMoves DEF FlushLast
<1> QED  BY <1>2, <1>4, <1>5, <1>6

\* packAliases takes as few keys as any way of cutting the sorted list into
\* values that fit, for every list, every length and every limit.
THEOREM KeysAreMinimal == Spec => []KeysMinimal
<1> DEFINE I == Fitting(acc) /\ GreedyAhead /\ KeysMinimal
<1>1. Init => I
    BY FS_EmptySet DEF Init, EmptyPacking, Fitting, GreedyAhead, KeysMinimal
<1>2. LoopInv /\ LoopComputes /\ Fitting(acc)' /\ I /\ [Next]_vars => I'
    <2> SUFFICES ASSUME LoopInv, LoopComputes, Fitting(acc)', I, [Next]_vars
                 PROVE  GreedyAhead' /\ KeysMinimal'
        OBVIOUS
    <2>1. CASE Reject
        BY <2>1 DEF Reject, GreedyAhead, KeysMinimal
    <2>2. CASE Accept
        BY <2>2 DEF Accept, LoopInv, GreedyAhead, KeysMinimal
    <2>3. CASE PackNext
        BY <2>3, PackNextGreedy DEF PackNext, KeysMinimal
    <2>4. CASE Return
        BY <2>4, ReturnMinimal DEF Return, GreedyAhead
    <2>5. CASE UNCHANGED vars
        <3>1. acc' = acc /\ sorted' = sorted /\ next' = next /\ pc' = pc
            BY <2>5 DEF vars
        <3> DEFINE Ahead(q, a, n) ==
                \E b \in 1..(n - 1) :
                    /\ a.buf = {q[k] : k \in b..(n - 1)}
                    /\ \A cuts \in SUBSET (1..(Len(q) - 1)) : FitWhenCut(q, cuts) =>
                        /\ Len(a.packed) <= Cardinality(cuts \cap 1..(n - 2))
                        /\ Len(a.packed) = Cardinality(cuts \cap 1..(n - 2))
                                => cuts \cap b..(n - 2) = {}
                   Minimal(q, a) ==
                \A cuts \in SUBSET (1..(Len(q) - 1)) :
                    FitWhenCut(q, cuts) => Len(a.packed) <= Cardinality(cuts) + 1
        <3>2. /\ pc = "pack" /\ next > 1 => Ahead(sorted, acc, next)
              /\ pc = "done" /\ sorted # <<>> => Minimal(sorted, acc)
            BY DEF GreedyAhead, KeysMinimal
        <3>3. /\ (pc = "pack" /\ next > 1 => Ahead(sorted, acc, next))' => GreedyAhead'
              /\ (pc = "done" /\ sorted # <<>> => Minimal(sorted, acc))' => KeysMinimal'
            BY DEF GreedyAhead, KeysMinimal
        <3> HIDE DEF Ahead, Minimal
        <3>4. /\ (pc = "pack" /\ next > 1 => Ahead(sorted, acc, next))'
              /\ (pc = "done" /\ sorted # <<>> => Minimal(sorted, acc))'
            BY <3>1, <3>2
        <3> QED  BY <3>3, <3>4
    <2> QED  BY <2>1, <2>2, <2>3, <2>4, <2>5 DEF Next
<1> QED  BY <1>1, <1>2, LoopInvariant, LoopComputesPackAliases, LoopFitting, PTL DEF Spec
=============================================================================
