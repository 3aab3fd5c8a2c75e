--------------------------- MODULE MCPackAliases ---------------------------
(***************************************************************************)
(* Instance of PackAliases for TLC: every list without repetition of up to *)
(* five aliases, with load indexes on both sides of the one-digit          *)
(* boundary.  The limit is such that a key holds up to three short         *)
(* aliases, or two when the index has two digits; one alias of "d" more    *)
(* is a comma too long.                                                    *)
(***************************************************************************)
EXTENDS PackAliases

FiveAliases == {"a", "b", "c", "d", "e"}
FiveLens == [x \in FiveAliases |-> CASE x = "d" -> 2 [] x = "e" -> 17 [] OTHER -> 1]
FiveRanks ==
    [x \in FiveAliases |-> CASE x = "a" -> 3 [] x = "b" -> 2 [] x = "c" -> 4 [] x = "d" -> 1
                             [] x = "e" -> 5]

Lists == UNION {{s \in [1..n -> FiveAliases] : \A i, j \in 1..n : s[i] = s[j] => i = j} :
                    n \in 0..5}

SmallInputs == {addSuffix(s, load) : s \in Lists, load \in {0, 2}}

=============================================================================
