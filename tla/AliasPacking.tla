---------------------------- MODULE AliasPacking ----------------------------
(***************************************************************************)
(* The pure part of provider/openstack/alias.go: how the aliases a node    *)
(* must serve are suffixed with its load-balancing index and distributed   *)
(* over the metadata keys landb-alias, landb-alias2, ...                   *)
(*                                                                         *)
(* A metadata value is the comma-joined list of its aliases in alphabetical*)
(* order, so it is determined by the set of aliases it holds: a value is   *)
(* modelled as that set.  Only the lengths matter to the packing; they are *)
(* constants.                                                              *)
(***************************************************************************)
EXTENDS Integers, Sequences, FiniteSets, SequencesExt

CONSTANTS
    Alias,              \* base alias names ("myapp" for the host myapp.cern.ch)
    SuffixedRank,       \* rank of each alias in the alphabetical order of the
                        \* suffixed names ("a--b--load-0-" precedes "a--load-0-")
    AliasLen,           \* length of each alias in characters
    metadataCharLimit,  \* characters a metadata value may hold (200 in the code)
    SuffixFixedLen,     \* characters of "--load-" and "-" (8 in the code)
    NumeralBase         \* base in which the load index is written (10 in the code)

ASSUME PackingAssumption ==
    /\ SuffixedRank \in [Alias -> Nat]
    /\ \A a, b \in Alias : SuffixedRank[a] = SuffixedRank[b] => a = b
    /\ AliasLen \in [Alias -> Nat \ {0}]
    /\ metadataCharLimit \in Nat
    /\ SuffixFixedLen \in Nat
    /\ NumeralBase \in Nat \ {0, 1}

(***************************************************************************)
(* Suffixed aliases: addSuffix appends --load-N- to each alias.            *)
(***************************************************************************)
Suffixed == [alias : Alias, load : Nat]

addSuffix(aliases, nodeIndex) ==
    [j \in DOMAIN aliases |-> [alias |-> aliases[j], load |-> nodeIndex]]

\* Number of digits of the load index.
Digits(i) == Cardinality({0} \cup {d \in 1..i : NumeralBase ^ d <= i})

Width(x) == AliasLen[x.alias] + SuffixFixedLen + Digits(x.load)

\* The characters of a metadata value: its aliases and the commas between them.
JoinedLen(value) == MapThenSumSet(Width, value) + Cardinality(value) - 1

\* What syncAliasNode passes to packAliases: no alias twice, one suffix.
IsSuffixedList(s) ==
    /\ s \in Seq(Suffixed)
    /\ \A i, j \in 1..Len(s) : s[i].load = s[j].load /\ (s[i] = s[j] => i = j)

(***************************************************************************)
(* Metadata keys.  A key is a pair: its name without the number, and the   *)
(* number.  HasAliasPrefix is strings.HasPrefix(key, "landb-alias").       *)
(***************************************************************************)
metadataKey(index) == <<"landb-alias", index>>

HasAliasPrefix(key) == key[1] = "landb-alias"

(***************************************************************************)
(* packAliases.  It sorts the aliases; then the loop carries the values    *)
(* flushed so far, the buffer being filled and its length in characters.   *)
(***************************************************************************)
EmptyPacking == [packed |-> <<>>, buf |-> {}, len |-> 0]

CommaLen(len) == IF len > 0 THEN 1 ELSE 0

FlushKeepsBuffer(acc) == [acc EXCEPT !.packed = Append(@, acc.buf), !.len = 0]   \* mutant

Flush(acc) == [packed |-> Append(acc.packed, acc.buf), buf |-> {}, len |-> 0]

WriteAlias(acc, x) ==
    [packed |-> acc.packed, buf |-> acc.buf \cup {x},
     len |-> acc.len + CommaLen(acc.len) + Width(x)]

OverflowsIgnoringComma(acc, x) == acc.len + Width(x) > metadataCharLimit        \* mutant

OverflowsAtLimit(acc, x) ==                                                     \* mutant
    acc.len + Width(x) + CommaLen(acc.len) >= metadataCharLimit

Overflows(acc, x) == acc.len + Width(x) + CommaLen(acc.len) > metadataCharLimit

PackOne(acc, x) ==
    IF Overflows(acc, x) THEN WriteAlias(Flush(acc), x) ELSE WriteAlias(acc, x)

NoLastFlush(acc) == acc                                                         \* mutant

FlushLast(acc) == IF acc.len > 0 THEN Flush(acc) ELSE acc

PackableUnsuffixed(aliases) ==                                                  \* mutant
    \A j \in DOMAIN aliases : AliasLen[aliases[j].alias] <= metadataCharLimit

\* The validation before the loop: one alias that fits no key fails the call.
Packable(aliases) == \A j \in DOMAIN aliases : Width(aliases[j]) <= metadataCharLimit

KeepOrder(aliases) == aliases                                                   \* mutant

Before(x, y) == SuffixedRank[x.alias] < SuffixedRank[y.alias]

\* sort.Strings: the sequences with the elements of s, a list without
\* repetition, in increasing order.
Sorted(s) ==
    {q \in [1..Len(s) -> ToSet(s)] :
        /\ ToSet(q) = ToSet(s)
        /\ \A i, j \in 1..Len(s) : i < j => q[i] # q[j] /\ ~Before(q[j], q[i])}

Predecessors(S, x) == {y \in S : Before(y, x)}

\* That sequence: x stands at k when k - 1 elements precede it.
SortSuffixed(aliases) ==
    LET S == ToSet(aliases)
    IN  [k \in 1..Len(aliases) |->
            CHOOSE x \in S : Cardinality(Predecessors(S, x)) = k - 1]

\* The loop: what is packed after the first n aliases of sorted.
PackLoop(sorted) ==
    LET loop[n \in 0..Len(sorted)] ==
            IF n = 0 THEN EmptyPacking ELSE PackOne(loop[n - 1], sorted[n])
    IN  loop

PackValues(aliases) ==
    FlushLast(PackLoop(SortSuffixed(aliases))[Len(aliases)]).packed

\* The map packAliases returns: the k-th flushed value under metadataKey(k-1).
packAliases(aliases) ==
    LET values == PackValues(aliases)
    IN  [key \in {metadataKey(k - 1) : k \in DOMAIN values} |-> values[key[2] + 1]]

(***************************************************************************)
(* unpackAliases: the suffixed aliases held by the landb-alias* keys of a  *)
(* server's metadata.                                                      *)
(***************************************************************************)
unpackAliases(metadata) ==
    UNION {metadata[key] : key \in {k \in DOMAIN metadata : HasAliasPrefix(k)}}
=============================================================================
