------------------------- MODULE ProviderRefinement -------------------------
(***************************************************************************)
(* The OpenStack provider keeps the contract of provider/provider.go.      *)
(*                                                                         *)
(* The contract knows nodes, not servers, and values, not metadata keys    *)
(* and calls.  A node stands for the servers its name denotes; it serves   *)
(* what their landb-alias keys hold, however it is packed.  The iterations *)
(* of the four loops that have not ended are what is left to do.           *)
(***************************************************************************)
EXTENDS OpenStackProvider

ServedBy(n) == UNION {unpackAliases(meta[s]) : s \in Listed(n)}

\* The landb-set of n's server, <<>> for none.
SetOf(n) ==
    LET values == {meta[s][landbSetMetadataKey] :
                        s \in {t \in Listed(n) : landbSetMetadataKey \in DOMAIN meta[t]}}
    IN  IF values = {} THEN <<>> ELSE CHOOSE value \in values : TRUE

TaskValue(t) ==
    CASE t.op = "syncAlias"    -> ToSet(SuffixedAliases(t))
      [] t.op = "cleanupAlias" -> {}
      [] t.op = "syncSet"      -> t.landbSet
      [] t.op = "cleanupSet"   -> <<>>

Work(t) ==
    [node |-> t.node, part |-> IF IsAliasTask(t) THEN "served" ELSE "set",
     value |-> TaskValue(t)]

ServedByNode == [n \in Node |-> ServedBy(n)]

SetByNode == [n \in Node |-> SetOf(n)]

\* The iterations that have not ended.
WorkLeft == [i \in 1..(Len(tasks) - pos + 1) |-> Work(tasks[pos + i - 1])]

NodeFailed == errs # {}

Promise ==
    INSTANCE ProviderContract WITH
        served <- ServedByNode, set <- SetByNode, todo <- WorkLeft, syncFailed <- NodeFailed

\* What the controller relies on, the OpenStack provider does.  It handles the
\* nodes of the four lists in their order, each once; a node whose handler
\* returned no error has exactly the desired value, one whose handler failed
\* has something between the old and the new; meanwhile nothing changes at any
\* other node, nor in the other kind of metadata; and Sync returns an error if
\* and only if a node failed (provider.go:60-72).  Nobody else edits metadata
\* here (MaxEdits = 0), and no two names denote one server.
ImplementsContract ==
    /\ Promise!ContractInit
    /\ [][Promise!ContractNext(DesiredStates)]_(Promise!syncVars)
=============================================================================
