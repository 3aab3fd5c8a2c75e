---------------------------- MODULE PackAliases ----------------------------
(***************************************************************************)
(* provider/openstack/alias.go: packAliases, one iteration of its loop per *)
(* step.  AliasPacking has the same function in one piece, for the         *)
(* provider; here the loop can be watched, and reasoned about, halfway.    *)
(***************************************************************************)
EXTENDS AliasPacking

CONSTANT Inputs     \* lists syncAliasNode may pass: distinct aliases, one suffix

ASSUME InputsAssumption == \A s \in Inputs : IsSuffixedList(s)

VARIABLES
    aliases,    \* the argument
    sorted,     \* its sorted copy
    next,       \* index in sorted of the next alias to pack
    acc,        \* packed, buf and its length
    pc

vars == <<aliases, sorted, next, acc, pc>>

Init ==
    /\ aliases \in Inputs
    /\ sorted = <<>> /\ next = 1 /\ acc = EmptyPacking
    /\ pc = "validate"

Reject ==
    /\ pc = "validate" /\ ~Packable(aliases)
    /\ pc' = "rejected"
    /\ UNCHANGED <<aliases, sorted, next, acc>>

Accept ==
    /\ pc = "validate" /\ Packable(aliases)
    /\ sorted' \in Sorted(aliases)
    /\ pc' = "pack"
    /\ UNCHANGED <<aliases, next, acc>>

PackNext ==
    /\ pc = "pack" /\ next <= Len(sorted)
    /\ acc' = PackOne(acc, sorted[next])
    /\ next' = next + 1
    /\ UNCHANGED <<aliases, sorted, pc>>

Return ==
    /\ pc = "pack" /\ next > Len(sorted)
    /\ acc' = FlushLast(acc)
    /\ pc' = "done"
    /\ UNCHANGED <<aliases, sorted, next>>

Next == Reject \/ Accept \/ PackNext \/ Return

Spec == Init /\ [][Next]_vars

-----------------------------------------------------------------------------
Values == ToSet(acc.packed)

\* Every variable keeps its type; in particular the buffer never outgrows the
\* limit, which is what the validation before the loop is for.
TypeOK ==
    /\ aliases \in Inputs
    /\ sorted \in Seq(Suffixed)
    /\ next \in 1..(Len(sorted) + 1)
    /\ acc \in [packed : Seq(SUBSET Suffixed), buf : SUBSET Suffixed,
               len : 0..metadataCharLimit]
    /\ pc \in {"validate", "pack", "done", "rejected"}

\* At every iteration the aliases already dealt with are in the flushed values
\* and the buffer, each in one place; the map returned holds every alias of the
\* argument exactly once, and no empty value (alias.go, the flush in the loop
\* and the one after it).
NothingLost ==
    /\ (UNION Values) \cup acc.buf = {sorted[i] : i \in 1..(next - 1)}
    /\ \A i, j \in DOMAIN acc.packed :
        /\ i # j => acc.packed[i] \cap acc.packed[j] = {}
        /\ acc.packed[i] # {} /\ acc.packed[i] \cap acc.buf = {}
    /\ pc = "done" => UNION Values = ToSet(aliases)

\* No value is longer than a metadata property may be, the commas included, and
\* the buffer's length is what the loop believes it to be.
ValuesFit ==
    /\ \A i \in DOMAIN acc.packed : JoinedLen(acc.packed[i]) <= metadataCharLimit
    /\ acc.buf # {} => acc.len = JoinedLen(acc.buf)

\* The list q, cut after the positions in cuts, gives values that fit.
FitWhenCut(q, cuts) ==
    \A i \in 1..Len(q) : \A j \in i..Len(q) :
        cuts \cap i..(j - 1) = {} => JoinedLen({q[k] : k \in i..j}) <= metadataCharLimit

\* The aliases take as few keys as any way of cutting the sorted list into
\* consecutive values that fit: a key is left only when it is full.
KeysMinimal ==
    pc = "done" /\ sorted # <<>> =>
        \A cuts \in SUBSET (1..(Len(sorted) - 1)) :
            FitWhenCut(sorted, cuts) => Len(acc.packed) <= Cardinality(cuts) + 1

\* The same aliases are packed the same way in whatever order the caller lists
\* them ("Sort for deterministic, diffable output."), and reading the keys back
\* with unpackAliases gives these aliases.
SameForAnyOrder ==
    pc = "done" =>
        \A s \in Inputs : ToSet(s) = ToSet(aliases) =>
            /\ PackValues(s) = acc.packed
            /\ unpackAliases(packAliases(s)) = ToSet(aliases)

\* What holds at every iteration, for the proofs.
LoopInv ==
    /\ TypeOK /\ NothingLost
    /\ acc.len = 0 <=> acc.buf = {}
    /\ pc \in {"pack", "done"} => sorted \in Sorted(aliases) /\ Packable(aliases)
    /\ pc \in {"validate", "rejected"} => acc = EmptyPacking /\ next = 1
    /\ pc = "done" => acc.buf = {} /\ next = Len(sorted) + 1

\* The steps compute what AliasPacking's packAliases computes in one piece.
LoopComputes ==
    /\ pc = "pack" => acc = PackLoop(sorted)[next - 1]
    /\ pc = "done" => acc = FlushLast(PackLoop(sorted)[Len(sorted)])

\* Why the keys are as few as can be: wherever the list is cut, no fewer values
\* than the loop has flushed are cut off before the last alias packed, and as
\* few of them only when the buffer, which starts at b, is not cut.
GreedyAhead ==
    pc = "pack" /\ next > 1 =>
        \E b \in 1..(next - 1) :
            /\ acc.buf = {sorted[k] : k \in b..(next - 1)}
            /\ \A cuts \in SUBSET (1..(Len(sorted) - 1)) : FitWhenCut(sorted, cuts) =>
                /\ Len(acc.packed) <= Cardinality(cuts \cap 1..(next - 2))
                /\ Len(acc.packed) = Cardinality(cuts \cap 1..(next - 2))
                        => cuts \cap b..(next - 2) = {}
=============================================================================
