------------------------ MODULE MCOpenStackProvider ------------------------
(***************************************************************************)
(* Instances of OpenStackProvider for TLC.  Widths are scaled down: with   *)
(* two-digit loads from 2 on (base 2) the digit boundary that the code has *)
(* between --load-9- and --load-10- lies between --load-1- and --load-2-.  *)
(***************************************************************************)
EXTENDS ProviderRefinement

SmallAlias == {"a", "b", "c"}
SmallAliasLen == [x \in SmallAlias |-> IF x = "c" THEN 9 ELSE 1]
SmallSuffixedRank == [x \in SmallAlias |-> CASE x = "a" -> 2 [] x = "b" -> 1 [] x = "c" -> 3]

X == <<"x">>
XY == <<"x", "y">>
SmallLandbSetValue == {X, XY}

Values(x, load) == {[alias |-> x, load |-> load]}

N(name, set) == [Name |-> name, Ready |-> TRUE, LandbSet |-> set]

(***************************************************************************)
(* Two nodes, one server each.                                             *)
(***************************************************************************)
TwoNodes == {"n1", "n2"}
TwoNodesMatch == [n \in TwoNodes |-> IF n = "n1" THEN {"s1"} ELSE {"s2"}]

TwoNodesDesired == {
    [Aliases |-> <<"a", "b">>, IngressNodes |-> <<N("n1", X), N("n2", <<>>)>>,
     StaleAliasNodes |-> <<>>,
     LandbSetNodes |-> <<N("n1", X)>>, StaleLandbSetNodes |-> <<N("n2", <<>>)>>],
    \* n1 is no longer an ingress node: n2 moves from load 1 to load 0.
    [Aliases |-> <<"a">>, IngressNodes |-> <<N("n2", XY)>>,
     StaleAliasNodes |-> <<N("n1", <<>>)>>,
     LandbSetNodes |-> <<N("n2", XY)>>, StaleLandbSetNodes |-> <<N("n1", <<>>)>>],
    \* n2 has left the cluster; c fits no key, so that n1 cannot be packed.
    [Aliases |-> <<"b", "c">>, IngressNodes |-> <<N("n1", <<>>)>>,
     StaleAliasNodes |-> <<>>,
     LandbSetNodes |-> <<>>, StaleLandbSetNodes |-> <<N("n1", <<>>)>>]}

Serving(load) ==
    metadataKey(0) :> Values("b", load) @@ metadataKey(1) :> Values("a", load)

TwoNodesMeta == {
    Serving(1) @@ landbSetMetadataKey :> X @@ <<"other-key", 0>> :> "kept",
    metadataKey(0) :> Values("a", 0)}

\* For liveness: one desired state, one initial metadata.
ShiftDesired == {d \in TwoNodesDesired : d.Aliases = <<"a">>}

ShiftMeta == {Serving(1) @@ landbSetMetadataKey :> X}

TwoNodesManual == {
    [key |-> metadataKey(1), value |-> Values("a", 0)],
    [key |-> landbSetMetadataKey, value |-> XY]}

(***************************************************************************)
(* Three nodes, so that the third load index takes one digit more, and     *)
(* keys that hold two aliases of the short width but only one of the long. *)
(* The name n2 denotes two servers when both exist.                        *)
(***************************************************************************)
ThreeNodes == {"n1", "n2", "n3"}
ThreeNodesMatch ==
    [n \in ThreeNodes |-> CASE n = "n1" -> {"s1"} [] n = "n2" -> {"s2", "s4"} [] n = "n3" -> {"s3"}]

ThreeNodesDesired == {
    [Aliases |-> <<"a", "b">>, IngressNodes |-> <<N("n1", <<>>), N("n2", <<>>), N("n3", X)>>,
     StaleAliasNodes |-> <<>>,
     LandbSetNodes |-> <<N("n3", X)>>, StaleLandbSetNodes |-> <<N("n1", <<>>), N("n2", <<>>)>>],
    [Aliases |-> <<"a", "b">>, IngressNodes |-> <<N("n2", <<>>), N("n3", <<>>)>>,
     StaleAliasNodes |-> <<N("n1", X)>>,
     LandbSetNodes |-> <<N("n1", X)>>, StaleLandbSetNodes |-> <<N("n2", <<>>), N("n3", <<>>)>>]}

(***************************************************************************)
(* Nova's name filter is a pattern: asking for n1 also lists the server of *)
(* n10, which is the only one listed while n1 has none.                    *)
(***************************************************************************)
PrefixNodes == {"n1", "n10"}
PrefixMatch == [n \in PrefixNodes |-> IF n = "n1" THEN {"s1", "s10"} ELSE {"s10"}]
ServerName == [s \in {"s1", "s10"} |-> IF s = "s1" THEN "n1" ELSE "n10"]

PrefixDesired == {
    [Aliases |-> <<"a">>, IngressNodes |-> <<N("n1", <<>>)>>, StaleAliasNodes |-> <<N("n10", <<>>)>>,
     LandbSetNodes |-> <<>>, StaleLandbSetNodes |-> <<N("n1", <<>>), N("n10", <<>>)>>]}

NoMeta == {EmptyMap}

\* The server a task works on is the one that bears the node's name
\* ("getServerID resolves an OpenStack server name to its UUID",
\* openstack.go, computeAPI).
NameResolved == sid # NoServer => ServerName[sid] = task.node

\* An alias too long for any key, while n1 still has one that nobody wants.
OversizeDesired == {d \in TwoNodesDesired : "c" \in ToSet(d.Aliases)}

\* When Sync has returned and nothing went wrong, no ingress node serves a name
\* that is not wanted ("Ingress resource deleted | Stale aliases are removed
\* from all ingress nodes", README.md).
StaleAliasesRemoved ==
    pc = "idle" /\ hit = {} /\ touched = {} =>
        \A j \in DOMAIN tasks : \A s \in Listed(tasks[j].node) :
            tasks[j].op = "syncAlias" => Served(meta[s]) \subseteq ToSet(aliases)
=============================================================================
