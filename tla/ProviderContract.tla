-------------------------- MODULE ProviderContract --------------------------
(***************************************************************************)
(* provider/provider.go: what the controller may assume of Provider.Sync.  *)
(*                                                                         *)
(* Sync deals with the nodes of the four lists one after the other.  For   *)
(* each it either brings the part of the server's metadata it is about     *)
(* (aliases or landb-set) to the desired value, or fails and leaves that   *)
(* part somewhere between the old value and the desired one.  All nodes    *)
(* are attempted; Sync returns an error if any of them failed.             *)
(*                                                                         *)
(* Controller uses these actions in place of a provider;                   *)
(* ProviderRefinement shows that the OpenStack provider keeps them.        *)
(***************************************************************************)
EXTENDS Integers, Sequences, SequencesExt

VARIABLES
    served,         \* served[n]: the suffixed aliases in the metadata of n's server
    set,            \* set[n]: its landb-set value, <<>> when it has none
    todo,           \* what Sync has still to do
    syncFailed      \* whether a node has failed in this Sync

syncVars == <<served, set, todo, syncFailed>>

WithSuffix(aliases, index) == {[alias |-> a, load |-> index] : a \in ToSet(aliases)}

ServedWork(node, value) == [node |-> node.Name, part |-> "served", value |-> value]

SetWork(node, value) == [node |-> node.Name, part |-> "set", value |-> value]

\* The loops of Sync, unrolled.
SyncWork(desired) ==
    [i \in 1..Len(desired.IngressNodes) |->
        ServedWork(desired.IngressNodes[i], WithSuffix(desired.Aliases, i - 1))]
    \o [i \in 1..Len(desired.StaleAliasNodes) |-> ServedWork(desired.StaleAliasNodes[i], {})]
    \o [i \in 1..Len(desired.LandbSetNodes) |->
        SetWork(desired.LandbSetNodes[i], desired.LandbSetNodes[i].LandbSet)]
    \o [i \in 1..Len(desired.StaleLandbSetNodes) |-> SetWork(desired.StaleLandbSetNodes[i], <<>>)]

BeginSync(desired) ==
    /\ todo' = SyncWork(desired) /\ syncFailed' = FALSE
    /\ UNCHANGED <<served, set>>

\* What w is about gets the desired value.
Reach(w) ==
    IF w.part = "served"
    THEN served' = [served EXCEPT ![w.node] = w.value] /\ UNCHANGED set
    ELSE set' = [set EXCEPT ![w.node] = w.value] /\ UNCHANGED served

\* It is left somewhere between old and desired.
LeaveBetween(w) ==
    IF w.part = "served"
    THEN /\ \E between \in SUBSET (served[w.node] \cup w.value) :
                served' = [served EXCEPT ![w.node] = between]
         /\ UNCHANGED set
    ELSE /\ \E between \in {set[w.node], w.value} :
                set' = [set EXCEPT ![w.node] = between]
         /\ UNCHANGED served

SyncNode ==
    /\ todo # <<>> /\ todo' = Tail(todo)
    /\ Reach(Head(todo))
    /\ UNCHANGED syncFailed

SyncNodeFails ==
    /\ todo # <<>> /\ todo' = Tail(todo)
    /\ syncFailed' = TRUE
    /\ LeaveBetween(Head(todo))

\* A provider may need several calls for a node.
SyncProgress ==
    /\ todo # <<>>
    /\ LeaveBetween(Head(todo))
    /\ UNCHANGED <<todo, syncFailed>>

\* Sync stops where it is, because its process does.
SyncAbandoned ==
    /\ todo' = <<>> /\ syncFailed' = FALSE
    /\ IF todo = <<>> THEN UNCHANGED <<served, set>> ELSE LeaveBetween(Head(todo))

-----------------------------------------------------------------------------
\* The contract as a specification, for a provider on its own: Sync is called
\* with any of the DesiredStates, whenever the one before has returned.
CallSync(DesiredStates) ==
    todo = <<>> /\ \E desired \in DesiredStates : BeginSync(desired)

ContractInit == todo = <<>> /\ ~syncFailed

ContractNext(DesiredStates) ==
    CallSync(DesiredStates) \/ SyncNode \/ SyncNodeFails \/ SyncProgress
=============================================================================
