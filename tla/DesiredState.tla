---------------------------- MODULE DesiredState ----------------------------
(***************************************************************************)
(* controller/controller.go and main.go, the functions without state: what *)
(* a Node object says about its node, which node events matter, and how    *)
(* the lists read from Kubernetes become the lists of a DesiredState.      *)
(*                                                                         *)
(* A Node object is what the controller looks at: its labels, its          *)
(* annotations and the status of its Ready condition ("" without one).     *)
(* Labels and annotations are maps, as in Go: from the keys in their       *)
(* DOMAIN to values.  A value is the sequence of its comma-separated parts *)
(* with the white space trimmed.                                           *)
(***************************************************************************)
EXTENDS Integers, Sequences, FiniteSets, SequencesExt

CONSTANTS
    NodeName,           \* names of Kubernetes nodes
    NameRank,           \* their rank in alphabetical order
    ingressNodeLabels,  \* the flag --ingress-node-labels: the sequence of its parts,
                        \* each <<key>>, <<key, value>>, or <<>> for an empty one
    AnyValue,           \* the Value of a selector that has none
    LandbKey,           \* label and annotation keys with the prefix landb.cern.ch/
    landbSetKey,        \* landb.cern.ch/set, as a label and as an annotation
    Host,               \* hosts of Ingress rules
    AliasOf,            \* AliasOf[h]: h without the suffix .cern.ch, or NoAlias
    NoAlias,            \* for hosts without the suffix, and for ".cern.ch" itself
    AliasRank           \* rank of each alias in alphabetical order

AliasName == {AliasOf[h] : h \in Host} \ {NoAlias}

ASSUME DesiredStateAssumption ==
    /\ IsFiniteSet(NodeName) /\ NameRank \in [NodeName -> Nat]
    /\ \A m, n \in NodeName : NameRank[m] = NameRank[n] => m = n
    /\ ingressNodeLabels \in Seq(ToSet(ingressNodeLabels))
    /\ landbSetKey \in LandbKey
    /\ DOMAIN AliasOf = Host /\ AliasRank \in [AliasName -> Nat]
    /\ \A a, b \in AliasName : AliasRank[a] = AliasRank[b] => a = b

Absent == [absent |-> TRUE]     \* no such Node object

Blank == ""

(***************************************************************************)
(* Lists.                                                                  *)
(***************************************************************************)
\* sort.Slice and sort.Strings: the elements of S in increasing order of rank.
SortBy(S, rank) ==
    CHOOSE q \in [1..Cardinality(S) -> S] :
        ToSet(q) = S /\ \A i, j \in DOMAIN q : i < j => rank[q[i]] <= rank[q[j]]

\* A loop over list that appends the elements in S to its result.
Keep(list, S) ==
    LET kept[i \in 0..Len(list)] ==
            IF i = 0 THEN <<>>
            ELSE IF list[i] \in S THEN Append(kept[i - 1], list[i]) ELSE kept[i - 1]
    IN  kept[Len(list)]

(***************************************************************************)
(* Node objects.                                                           *)
(***************************************************************************)
ParseLabelSelector(part) ==
    [Key |-> part[1], Value |-> IF Len(part) = 1 THEN AnyValue ELSE part[2]]

parseLabels(parts) ==
    LET given == Keep(parts, ToSet(parts) \ {<<>>})
    IN  [i \in DOMAIN given |-> ParseLabelSelector(given[i])]

IngressNodeLabels == parseLabels(ingressNodeLabels)

Matches(sel, labels) ==
    /\ sel.Key \in DOMAIN labels
    /\ sel.Value # AnyValue => labels[sel.Key] = sel.Value

isNodeReady(node) == node.ready = "True"

normalizeLandbSet(value) ==
    LET sets[i \in 0..Len(value)] ==
            IF i = 0 THEN <<>>
            ELSE IF value[i] = Blank \/ value[i] \in ToSet(sets[i - 1]) THEN sets[i - 1]
            ELSE Append(sets[i - 1], value[i])
    IN  sets[Len(value)]

\* The annotation, when there is one, hides the label, even if it is empty.
nodeLandbSet(node) ==
    CASE landbSetKey \in DOMAIN node.annotations -> normalizeLandbSet(node.annotations[landbSetKey])
      [] landbSetKey \notin DOMAIN node.annotations /\ landbSetKey \in DOMAIN node.labels
            -> normalizeLandbSet(node.labels[landbSetKey])
      [] OTHER -> <<>>

nodeInfoFromNode(name, node) ==
    [Name |-> name, Ready |-> isNodeReady(node), LandbSet |-> nodeLandbSet(node)]

(***************************************************************************)
(* Node events: old is Absent in a Create event, new in a Delete event.    *)
(***************************************************************************)
hasIngressLabel(node) ==
    /\ node # Absent
    /\ \E i \in DOMAIN IngressNodeLabels : Matches(IngressNodeLabels[i], node.labels)

ingressPredicateNewOnly(old, new) == hasIngressLabel(new)           \* mutant

ingressPredicateChanges(old, new) ==                                \* mutant
    hasIngressLabel(old) # hasIngressLabel(new)

ingressPredicate(old, new) == hasIngressLabel(old) \/ hasIngressLabel(new)

statusChangedPredicate(old, new) ==
    /\ old # Absent /\ new # Absent
    /\ hasIngressLabel(old) \/ hasIngressLabel(new)
    /\ old.ready # new.ready

LandbPart(map) == Restrict(map, DOMAIN map \cap LandbKey)

hasLandbMetadata(node) ==
    node # Absent /\ (DOMAIN node.labels \cup DOMAIN node.annotations) \cap LandbKey # {}

landbMetadataChanged(old, new) ==
    \/ LandbPart(old.labels) # LandbPart(new.labels)
    \/ LandbPart(old.annotations) # LandbPart(new.annotations)

landbMetadataPredicate(old, new) ==
    IF old = Absent \/ new = Absent
    THEN hasLandbMetadata(old) \/ hasLandbMetadata(new)
    ELSE landbMetadataChanged(old, new)

EventAccepted(old, new) ==
    \/ ingressPredicate(old, new)
    \/ statusChangedPredicate(old, new)
    \/ landbMetadataPredicate(old, new)

(***************************************************************************)
(* The lists of a DesiredState.                                            *)
(***************************************************************************)
SortByName(infos) == SortBy(infos, [info \in infos |-> NameRank[info.Name]])

Names(list) == {list[i].Name : i \in DOMAIN list}

\* Ingress objects are sets of hosts.
listAliases(ingresses) ==
    LET hosts == UNION {ingresses[i] : i \in DOMAIN ingresses}
    IN  SortBy({AliasOf[h] : h \in hosts} \ {NoAlias}, AliasRank)

listAllNodes(nodes) ==
    SortByName({nodeInfoFromNode(n, nodes[n]) : n \in {m \in NodeName : nodes[m] # Absent}})

buildStaleAliasNodes(allNodes, ingressNodes) ==
    Keep(allNodes, {n \in ToSet(allNodes) : n.Name \notin Names(ingressNodes)})

HasActiveSet(n) == n.Ready /\ n.LandbSet # <<>>

splitLandbSetNodes(allNodes) ==
    LET active == {n \in ToSet(allNodes) : HasActiveSet(n)}
    IN  <<Keep(allNodes, active), Keep(allNodes, ToSet(allNodes) \ active)>>
=============================================================================
