-------------------------- MODULE Controller_proofs --------------------------
(***************************************************************************)
(* Proofs about Controller: the types; that a node which has been a Ready  *)
(* node with one and the same ingress label ever since runOnce began is    *)
(* among the ingress nodes, however the cache changes meanwhile; that the  *)
(* DesiredState keeps its promises to the provider; and that no change is  *)
(* lost, whatever fails, crashes or changes at whatever moment.            *)
(***************************************************************************)
EXTENDS Controller, DesiredState_proofs

(***************************************************************************)
(* The types.  TypeOK is not inductive: the caches get what the events     *)
(* hold, and the loop over the selectors begins at the first.              *)
(***************************************************************************)
Rules == UNION {[names -> HostSets] : names \in SUBSET IngressName}

NodeChange == [name : NodeName, object : Object]
IngressChange == [name : IngressName, objects : Rules]

TypeInv ==
    /\ TypeOK
    /\ ingresses \in Rules /\ ingressCache \in Rules
    /\ nodeEvents \in Seq(NodeChange) /\ ingressEvents \in Seq(IngressChange)
    /\ pc = "aliases" => selector = 1 /\ seen = {} /\ found = {}
    /\ syncFailed => pc = "sync"

LEMMA RulesType ==
    ASSUME NEW rules \in Rules
    PROVE  DOMAIN rules \subseteq IngressName /\ \A i \in DOMAIN rules : rules[i] \in HostSets
BY DEF Rules

LEMMA NodeChangeType ==
    ASSUME NEW events \in Seq(NodeChange), NEW i \in DOMAIN events
    PROVE  events[i].name \in NodeName /\ events[i].object \in Object
<1>1. events[i] \in NodeChange
    OBVIOUS
<1> QED  BY <1>1 DEF NodeChange

LEMMA TypeInvInit == Init => TypeInv
<1> SUFFICES ASSUME Init PROVE TypeInv
    OBVIOUS
<1>1. nodes \in [NodeName -> Object] /\ ingresses \in Rules
    BY ControllerAssumption DEF Init, Object, Rules
<1>2. KeysAtStart(nodes, ingresses) \subseteq Key
    BY <1>1 DEF KeysAtStart, Key, Rules
<1> QED  BY <1>1, <1>2 DEF Init, TypeInv, TypeOK, Rules, Key, NoKey

LEMMA TypeInvStep ==
    ASSUME TypeInv, [Next]_vars
    PROVE  TypeInv'
<1>1. CASE Reconcile
    BY <1>1 DEF TypeInv, TypeOK, Reconcile, apiVars, cacheVars, syncVars, bounds
<1>2. CASE ListAliases
    <2>1. IngressNodeLabels # <<>> => 1 \in DOMAIN IngressNodeLabels
        BY SelectorsInSequence
    <2> QED  BY <1>2, <2>1 DEF TypeInv, TypeOK, ListAliases, apiVars, cacheVars, queueVars,
                syncVars, bounds
<1>3. CASE ListIngressNodes
    <2>1. selector \in 1..Len(IngressNodeLabels) /\ Len(IngressNodeLabels) \in Nat
        BY <1>3, SelectorsInSequence DEF TypeInv, TypeOK, ListIngressNodes
    <2>2. pc' = "ingressNodes" => selector' \in DOMAIN IngressNodeLabels
        <3>1. /\ selector' = selector + 1
              /\ pc' = "ingressNodes" => selector # Len(IngressNodeLabels)
            BY <1>3 DEF ListIngressNodes, LastSelector
        <3> DEFINE last == Len(IngressNodeLabels)
        <3>2. last \in Nat /\ selector \in 1..last /\ DOMAIN IngressNodeLabels = 1..last
            BY <2>1, SelectorsInSequence
        <3> HIDE DEF last
        <3>3. selector # last => selector + 1 \in 1..last
            BY <3>2
        <3>4. pc' = "ingressNodes" => selector # last
            BY <3>1 DEF last
        <3> QED  BY <3>1, <3>2, <3>3, <3>4
    <2>3. seen' \subseteq NodeName
        BY <1>3 DEF TypeInv, TypeOK, ListIngressNodes, Listed
    <2>4. ASSUME NEW n \in NewlyListed
          PROVE  nodeInfoFromNode(n, nodeCache[n]) \in NodeInfo
        <3>1. n \in NodeName /\ nodeCache[n] \in NodeObject
            BY DEF NewlyListed, Listed, TypeInv, TypeOK, Object
        <3>2. isNodeReady(nodeCache[n]) \in BOOLEAN
            BY DEF isNodeReady
        <3> QED  BY <3>1, <3>2 DEF nodeInfoFromNode, NodeInfo
    <2>5. found' \subseteq NodeInfo
        BY <1>3, <2>4 DEF TypeInv, TypeOK, ListIngressNodes
    <2> QED  BY <1>3, <2>2, <2>3, <2>5 DEF TypeInv, TypeOK, ListIngressNodes, apiVars, cacheVars,
                queueVars, syncVars, bounds
<1>4. CASE ListAllNodes
    BY <1>4 DEF TypeInv, TypeOK, ListAllNodes, BeginSync, apiVars, cacheVars, queueVars,
       syncVars, bounds
<1>5. CASE ListFails
    BY <1>5 DEF TypeInv, TypeOK, ListFails, WorkDone, apiVars, cacheVars, queueVars, syncVars,
       bounds
<1>6. CASE SyncStep
    BY <1>6 DEF TypeInv, TypeOK, SyncStep, SyncNode, SyncNodeFails, apiVars, cacheVars,
       queueVars, workVars, bounds
<1>7. CASE SyncReturns
    BY <1>7 DEF TypeInv, TypeOK, SyncReturns, WorkDone, apiVars, cacheVars, queueVars, bounds
<1>8. CASE NodeEvent
    BY <1>8 DEF TypeInv, TypeOK, NodeEvent, apiVars, workVars, syncVars, bounds, Key
<1>9. CASE IngressEvent
    <2>1. Head(ingressEvents) \in IngressChange
        BY <1>9 DEF TypeInv, IngressEvent
    <2>2. ingressCache' \in Rules /\ queue' \subseteq Key
        BY <1>9, <2>1 DEF TypeInv, TypeOK, IngressEvent, Key, IngressChange
    <2>3. ingressEvents' \in Seq(IngressChange)
        BY <1>9 DEF TypeInv, IngressEvent
    <2> QED  BY <1>9, <2>2, <2>3, RulesType DEF TypeInv, TypeOK, IngressEvent, apiVars, workVars,
                syncVars, bounds
<1>10. CASE \E k \in Key : RequeueAfter(k)
    BY <1>10 DEF TypeInv, TypeOK, RequeueAfter, apiVars, cacheVars, workVars, syncVars, bounds
<1>11. CASE \E n \in NodeName : ChangeNode(n)
    <2>1. PICK n \in NodeName, object \in Object :
            /\ nodes' = [nodes EXCEPT ![n] = object]
            /\ nodeEvents' = Append(nodeEvents, [name |-> n, object |-> object])
        BY <1>11 DEF ChangeNode, Object
    <2>2. nodes' \in [NodeName -> Object]
        BY <2>1 DEF TypeInv, TypeOK
    <2>3. nodeEvents' \in Seq(NodeChange)
        BY <2>1 DEF TypeInv, NodeChange
    <2>4. \A i \in DOMAIN nodeEvents' :
            nodeEvents'[i].name \in NodeName /\ nodeEvents'[i].object \in Object
        BY <2>3, NodeChangeType
    <2> QED  BY <1>11, <2>2, <2>3, <2>4 DEF TypeInv, TypeOK, ChangeNode, queueVars, workVars,
                syncVars, bounds
<1>12. CASE \E i \in IngressName : ChangeIngress(i)
    <2>1. PICK i \in IngressName : ChangeIngress(i)
        BY <1>12
    <2>2. ingresses' \in Rules
        <3>1. /\ DOMAIN ingresses \subseteq IngressName
              /\ \A j \in DOMAIN ingresses : ingresses[j] \in HostSets
            BY RulesType DEF TypeInv
        <3>2. ASSUME NEW hosts \in HostSets,
                     ingresses' = [j \in DOMAIN ingresses \cup {i} |->
                                        IF j = i THEN hosts ELSE ingresses[j]]
              PROVE  ingresses' \in Rules
            <4>1. ingresses' \in [DOMAIN ingresses \cup {i} -> HostSets]
                BY <3>1, <3>2
            <4> QED  BY <3>1, <4>1 DEF Rules
        <3>3. ASSUME ingresses' = Restrict(ingresses, DOMAIN ingresses \ {i})
              PROVE  ingresses' \in Rules
            <4>1. ingresses' \in [DOMAIN ingresses \ {i} -> HostSets]
                BY <3>1, <3>3 DEF Restrict
            <4> QED  BY <3>1, <4>1 DEF Rules
        <3> QED  BY <2>1, <3>2, <3>3 DEF ChangeIngress
    <2>3. ingressEvents' \in Seq(IngressChange)
        BY <2>1, <2>2 DEF TypeInv, ChangeIngress, IngressChange
    <2> QED  BY <2>1, <2>2, <2>3, RulesType DEF TypeInv, TypeOK, ChangeIngress, queueVars, workVars,
                syncVars, bounds
<1>13. CASE MissEvent
    <2>1. PICK i \in DOMAIN nodeEvents : nodeEvents' = RemoveAt(nodeEvents, i)
        BY <1>13 DEF MissEvent
    <2>2. nodeEvents' \in Seq(NodeChange)
        <3>1. nodeEvents \in Seq(NodeChange)
            BY DEF TypeInv
        <3>2. i \in 1..Len(nodeEvents) /\ Len(nodeEvents) \in Nat
            BY <3>1
        <3>3. /\ SubSeq(nodeEvents, 1, i - 1) \in Seq(NodeChange)
              /\ SubSeq(nodeEvents, i + 1, Len(nodeEvents)) \in Seq(NodeChange)
            BY <3>1, <3>2
        <3> QED  BY <2>1, <3>3 DEF RemoveAt
    <2>3. \A k \in DOMAIN nodeEvents' :
            nodeEvents'[k].name \in NodeName /\ nodeEvents'[k].object \in Object
        BY <2>2, NodeChangeType
    <2> QED  BY <1>13, <2>2, <2>3 DEF TypeInv, TypeOK, MissEvent, apiVars, queueVars, workVars,
                syncVars, bounds
<1>14. CASE Resync
    BY <1>14 DEF TypeInv, TypeOK, Resync, apiVars, cacheVars, workVars, syncVars, bounds, Key, Rules
<1>15. CASE Restart
    BY <1>15 DEF TypeInv, TypeOK, Restart, WorkDone, SyncAbandoned, KeysAtStart, apiVars, bounds,
       Key, Rules
<1>16. CASE UNCHANGED vars
    BY <1>16 DEF TypeInv, TypeOK, vars, apiVars, cacheVars, queueVars, workVars, syncVars
<1> QED  BY <1>1, <1>2, <1>3, <1>4, <1>5, <1>6, <1>7, <1>8, <1>9, <1>10, <1>11, <1>12, <1>13,
            <1>14, <1>15, <1>16 DEF Next, Worker, World

\* Every variable keeps its type, and nothing of one reconciliation is left for
\* the next (runOnce).
THEOREM TypeCorrect == Spec => []TypeOK
<1>1. TypeInv /\ [Next]_vars => TypeInv'
    BY TypeInvStep
<1>2. TypeInv => TypeOK
    BY DEF TypeInv
<1> QED  BY <1>1, <1>2, TypeInvInit, PTL DEF Spec

(***************************************************************************)
(* The loop over the selectors.  While it runs, the steady nodes are as    *)
(* steady in the cache; those whose selector has been listed are found;    *)
(* and none is among the seen without having been found, for then it would *)
(* be skipped when the selector it matches is listed.                      *)
(***************************************************************************)
FoundNames == {info.Name : info \in found}

LabelOf(m) == m[2] # 0

SteadyInv ==
    /\ OnePerName(found) /\ FoundNames \subseteq seen
    /\ steady \subseteq IngressMatches(nodeCache)
    /\ pc # "idle" => \A m \in steady : m[1] \in seen => m[1] \in FoundNames
    /\ pc = "ingressNodes" =>
        \A m \in steady : LabelOf(m) /\ m[2] < selector => m[1] \in FoundNames
    /\ pc = "allNodes" => \A m \in steady : LabelOf(m) => m[1] \in FoundNames
    /\ SteadyNodeSelected

\* What a pair of IngressMatches is.
LEMMA MatchType ==
    ASSUME NEW m \in IngressMatches(nodeCache)
    PROVE  /\ m[1] \in NodeName /\ m[2] \in 0..Len(IngressNodeLabels)
           /\ hasIngressLabel(nodeCache[m[1]]) /\ isNodeReady(nodeCache[m[1]])
           /\ m[2] # 0 => Matches(IngressNodeLabels[m[2]], nodeCache[m[1]].labels)
BY DEF IngressMatches

\* No node is found twice.
LEMMA FoundOnce ==
    ASSUME SteadyInv, ListIngressNodes
    PROVE  OnePerName(found') /\ FoundNames' \subseteq seen'
<1> DEFINE new == {nodeInfoFromNode(n, nodeCache[n]) :
                    n \in {k \in NewlyListed : isNodeReady(nodeCache[k])}}
<1>1. found' = found \cup new /\ seen' = seen \cup Listed(IngressNodeLabels[selector])
    BY DEF ListIngressNodes
<1>2. ASSUME NEW info \in new
      PROVE  /\ info = nodeInfoFromNode(info.Name, nodeCache[info.Name])
             /\ info.Name \in Listed(IngressNodeLabels[selector]) \ seen
    BY DEF nodeInfoFromNode, NewlyListed
<1>3. \A info \in found : info.Name \in seen
    BY DEF SteadyInv, FoundNames
<1> HIDE DEF new
<1>4. OnePerName(found')
    BY <1>1, <1>2, <1>3 DEF SteadyInv, OnePerName
<1>5. \A info \in found' : info.Name \in seen'
    BY <1>1, <1>2, <1>3
<1> QED  BY <1>4, <1>5 DEF FoundNames

\* One more selector: the steady nodes it lists are found.
LEMMA SelectorListed ==
    ASSUME TypeInv, SteadyInv, ListIngressNodes, NEW m \in steady
    PROVE  /\ m[1] \in seen' => m[1] \in FoundNames'
           /\ LabelOf(m) /\ m[2] < selector + 1 => m[1] \in FoundNames'
<1>1. /\ found' = found \cup {nodeInfoFromNode(n, nodeCache[n]) :
                                n \in {k \in NewlyListed : isNodeReady(nodeCache[k])}}
      /\ seen' = seen \cup Listed(IngressNodeLabels[selector]) /\ pc = "ingressNodes"
    BY DEF ListIngressNodes
<1>2. m \in IngressMatches(nodeCache)
    BY DEF SteadyInv
<1>3. m[1] \in FoundNames => m[1] \in FoundNames'
    BY <1>1 DEF FoundNames
<1>4. m[1] \in seen => m[1] \in FoundNames'
    BY <1>1, <1>3 DEF SteadyInv
<1>5. ASSUME m[1] \in Listed(IngressNodeLabels[selector])
      PROVE  m[1] \in FoundNames'
    <2>1. CASE m[1] \in seen
        BY <1>4, <2>1
    <2>2. CASE m[1] \notin seen
        <3>1. m[1] \in NewlyListed /\ isNodeReady(nodeCache[m[1]])
            BY <1>2, <1>5, <2>2, MatchType DEF NewlyListed
        <3>2. nodeInfoFromNode(m[1], nodeCache[m[1]]) \in found'
            BY <1>1, <3>1
        <3>3. nodeInfoFromNode(m[1], nodeCache[m[1]]).Name = m[1]
            BY DEF nodeInfoFromNode
        <3> QED  BY <3>2, <3>3 DEF FoundNames
    <2> QED  BY <2>1, <2>2
<1>6. ASSUME LabelOf(m), m[2] = selector
      PROVE  m[1] \in Listed(IngressNodeLabels[selector])
    BY <1>2, <1>6, MatchType DEF LabelOf, Listed, hasIngressLabel
<1>7. m[2] \in Int /\ selector \in Int
    <2>1. m[2] \in Int
        BY <1>2, MatchType, SelectorsInSequence
    <2>2. selector \in Int
        BY <1>1, SelectorsInSequence DEF TypeInv, TypeOK
    <2> QED  BY <2>1, <2>2
<1>8. ASSUME LabelOf(m), m[2] < selector
      PROVE  m[1] \in FoundNames'
    BY <1>1, <1>3, <1>8 DEF SteadyInv
<1>9. m[2] < selector + 1 => m[2] = selector \/ m[2] < selector
    BY <1>7
<1> QED  BY <1>1, <1>4, <1>5, <1>6, <1>8, <1>9

\* Names is about the elements.
LEMMA NamesOf == \A list : Names(list) = {x.Name : x \in ToSet(list)}
BY DEF Names, ToSet

LEMMA SteadyInvStep ==
    ASSUME TypeInv, SteadyInv, [Next]_vars
    PROVE  SteadyInv'
<1>1. CASE Reconcile
    <2>1. seen = {} /\ pc = "idle"
        BY <1>1 DEF TypeInv, TypeOK, Reconcile
    <2> QED  BY <1>1, <2>1 DEF SteadyInv, SteadyNodeSelected, Reconcile, cacheVars,
                FoundNames, OnePerName
<1>2. CASE ListAliases
    <2>1. selector = 1 /\ pc = "aliases"
        BY <1>2 DEF TypeInv, ListAliases
    <2>2. ASSUME NEW m \in steady, LabelOf(m)
          PROVE  m[2] \in 1..Len(IngressNodeLabels)
        BY <2>2, MatchType, SelectorsInSequence DEF SteadyInv, LabelOf
    <2>3. IngressNodeLabels = <<>> => \A m \in steady : ~LabelOf(m)
        BY <2>2
    <2>4. \A m \in steady : LabelOf(m) => ~(m[2] < 1)
        BY <2>2, SelectorsInSequence
    <2> QED  BY <1>2, <2>1, <2>3, <2>4 DEF SteadyInv, SteadyNodeSelected, ListAliases, cacheVars,
                FoundNames, OnePerName, LabelOf
<1>3. CASE ListIngressNodes
    <2>1. /\ steady' = steady /\ nodeCache' = nodeCache /\ selector' = selector + 1
          /\ pc' = IF LastSelector THEN "allNodes" ELSE "ingressNodes"
        BY <1>3 DEF ListIngressNodes, cacheVars
    <2>2. selector \in 1..Len(IngressNodeLabels) /\ Len(IngressNodeLabels) \in Nat
        BY <1>3, SelectorsInSequence DEF TypeInv, TypeOK, ListIngressNodes
    <2>3. LastSelector => \A m \in steady : m[2] < selector + 1
        <3>1. \A m \in steady : m[2] \in 0..Len(IngressNodeLabels)
            BY MatchType DEF SteadyInv
        <3> QED  BY <2>2, <3>1 DEF LastSelector
    <2> QED  BY <1>3, <2>1, <2>3, SelectorListed, FoundOnce
             DEF SteadyInv, SteadyNodeSelected, LabelOf
<1>4. CASE ListAllNodes
    <2>1. desired'.IngressNodes = SortByName(found) /\ found \in SUBSET NodeInfo
        BY <1>4 DEF ListAllNodes, MakeDesired, TypeInv, TypeOK
    <2>2. /\ pc = "allNodes" /\ pc' = "sync" /\ found' = found /\ seen' = seen
          /\ steady' = steady /\ nodeCache' = nodeCache
        BY <1>4 DEF ListAllNodes, cacheVars
    <2>3. FoundNames \subseteq Names(desired'.IngressNodes)
        <3>1. OfNodes(found) /\ OnePerName(found)
            BY <2>1 DEF OfNodes, NodeInfo, SteadyInv
        <3>2. ToSet(SortByName(found)) = found
            BY <3>1, SortByNameIs
        <3> QED  BY <2>1, <3>2, NamesOf DEF FoundNames
    <2>4. Names(desired'.IngressNodes) = Names(desired.IngressNodes)'
        BY DEF Names
    <2> QED  BY <2>2, <2>3, <2>4 DEF SteadyInv, SteadyNodeSelected, FoundNames, OnePerName, LabelOf
<1>5. CASE ListFails \/ SyncReturns \/ Restart
    BY <1>5 DEF SteadyInv, SteadyNodeSelected, ListFails, SyncReturns, Restart, WorkDone,
           OnePerName, FoundNames, IngressMatches
<1>6. CASE SyncStep \/ IngressEvent \/ Resync \/ MissEvent \/ (\E k \in Key : RequeueAfter(k))
            \/ (\E n \in NodeName : ChangeNode(n)) \/ (\E i \in IngressName : ChangeIngress(i))
            \/ UNCHANGED vars
    <2>1. UNCHANGED <<nodeCache, workVars, steady>>
        BY <1>6 DEF SyncStep, IngressEvent, Resync, MissEvent, RequeueAfter, ChangeNode,
           ChangeIngress,
               vars, cacheVars, workVars
    <2> QED  BY <2>1 DEF SteadyInv, SteadyNodeSelected, workVars, FoundNames, OnePerName, LabelOf,
                Names
<1>7. CASE NodeEvent
    <2>1. UNCHANGED workVars /\ steady' = steady \cap IngressMatches(nodeCache')
        BY <1>7 DEF NodeEvent
    <2> QED  BY <2>1 DEF SteadyInv, SteadyNodeSelected, workVars, FoundNames, OnePerName, LabelOf,
                Names
<1> QED  BY <1>1, <1>2, <1>3, <1>4, <1>5, <1>6, <1>7 DEF Next, Worker, World

\* A node with one and the same ingress label ever since runOnce began is not
\* missed by listIngressNodes, whatever events reach the cache between its List
\* calls, for any number of nodes and selectors.
THEOREM SteadyNodesAreSelected == Spec => []SteadyNodeSelected
<1>1. Init => TypeInv /\ SteadyInv
    BY TypeInvInit DEF Init, SteadyInv, SteadyNodeSelected, IngressMatches, OnePerName, FoundNames
<1>2. TypeInv /\ SteadyInv /\ [Next]_vars => TypeInv' /\ SteadyInv'
    BY TypeInvStep, SteadyInvStep
<1>3. SteadyInv => SteadyNodeSelected
    BY DEF SteadyInv
<1> QED  BY <1>1, <1>2, <1>3, PTL DEF Spec

-----------------------------------------------------------------------------
(***************************************************************************)
(* The promises of the DesiredState.                                       *)
(***************************************************************************)

\* What a Node object declares is normalized.
LEMMA LandbSetIs ==
    ASSUME NEW o \in NodeObject
    PROVE  Blank \notin ToSet(nodeLandbSet(o)) /\ IsInjective(nodeLandbSet(o))
<1>1. /\ landbSetKey \in DOMAIN o.annotations => o.annotations[landbSetKey] \in Seq(STRING)
      /\ landbSetKey \in DOMAIN o.labels => o.labels[landbSetKey] \in Seq(STRING)
    BY ControllerAssumption
<1>2. CASE landbSetKey \in DOMAIN o.annotations
    BY <1>1, <1>2, NormalizeIs DEF nodeLandbSet
<1>3. CASE landbSetKey \notin DOMAIN o.annotations /\ landbSetKey \in DOMAIN o.labels
    BY <1>1, <1>3, NormalizeIs DEF nodeLandbSet
<1>4. CASE landbSetKey \notin DOMAIN o.annotations /\ landbSetKey \notin DOMAIN o.labels
    <2>1. nodeLandbSet(o) = <<>>
        BY <1>4 DEF nodeLandbSet
    <2>2. DOMAIN <<>> = {}
        OBVIOUS
    <2> QED  BY <2>1, <2>2 DEF ToSet, IsInjective
<1> QED  BY <1>2, <1>3, <1>4

ClusterOf(objects) == \A n \in Existing(objects) : objects[n] \in NodeObject

\* The lists runOnce makes of what it has found and of the nodes of a cluster:
\* their elements, and their order.
ListsFrom(d, names, infos, objects) ==
    /\ d.Aliases = names
    /\ d.IngressNodes = SortByName(infos)
    /\ d.IngressNodes \in Seq(infos) /\ ToSet(d.IngressNodes) = infos
    /\ d.StaleAliasNodes \in Seq(Infos(objects)) /\ d.LandbSetNodes \in Seq(Infos(objects))
    /\ d.StaleLandbSetNodes \in Seq(Infos(objects))
    /\ ToSet(d.StaleAliasNodes) =
         {x \in Infos(objects) : x.Name \notin {y.Name : y \in infos}}
    /\ ToSet(d.LandbSetNodes) = {x \in Infos(objects) : HasActiveSet(x)}
    /\ ToSet(d.StaleLandbSetNodes) = {x \in Infos(objects) : ~HasActiveSet(x)}
    /\ NameOrdered(d.IngressNodes) /\ NameOrdered(d.StaleAliasNodes)
    /\ NameOrdered(d.LandbSetNodes) /\ NameOrdered(d.StaleLandbSetNodes)

LEMMA ListsAre ==
    ASSUME NEW names, NEW infos, OfNodes(infos), OnePerName(infos), NEW objects
    PROVE  ListsFrom(MakeDesired(names, infos, listAllNodes(objects)), names, infos, objects)
<1> DEFINE d == MakeDesired(names, infos, listAllNodes(objects))
           all == listAllNodes(objects)
           I == Infos(objects)
           ingress == SortByName(infos)
           stale == {n \in ToSet(all) : n.Name \notin Names(ingress)}
           active == {n \in ToSet(all) : HasActiveSet(n)}
<1>1. /\ OfNodes(I) /\ all \in Seq(I) /\ ToSet(all) = I /\ NameOrdered(all)
    BY AllNodesAre
<1>2. /\ ingress \in Seq(infos) /\ ToSet(ingress) = infos /\ NameOrdered(ingress)
    BY SortByNameIs
<1>3. /\ d.Aliases = names /\ d.IngressNodes = ingress
      /\ d.StaleAliasNodes = Keep(all, stale)
      /\ d.LandbSetNodes = Keep(all, active)
      /\ d.StaleLandbSetNodes = Keep(all, ToSet(all) \ active)
    BY DEF MakeDesired, buildStaleAliasNodes, splitLandbSetNodes
<1>4. /\ stale = {x \in I : x.Name \notin {y.Name : y \in infos}}
      /\ active = {x \in I : HasActiveSet(x)}
      /\ ToSet(all) \ active = {x \in I : ~HasActiveSet(x)}
    BY <1>1, <1>2, NamesOf
<1> HIDE DEF d, all, I, ingress, stale, active
<1>5. \A S : Keep(all, S) \in Seq(I) /\ ToSet(Keep(all, S)) = I \cap S /\ NameOrdered(Keep(all, S))
    BY <1>1, KeepIs, KeepOrdered
<1>6. I \cap stale = stale /\ I \cap active = active /\ I \cap (ToSet(all) \ active) = ToSet(all) \ active
    BY <1>1, <1>4
<1>7. ListsFrom(d, names, infos, objects)
    BY <1>2, <1>3, <1>4, <1>5, <1>6 DEF ListsFrom, I, ingress
<1> QED  BY <1>7 DEF d

\* A list of nodes in order has each node once.
LEMMA ListOnce ==
    ASSUME NEW infos, OfNodes(infos), NEW list \in Seq(infos), NameOrdered(list)
    PROVE  NamesOnce(list) /\ InNameOrder(list)
BY OrderedOnce DEF NamesOnce, InNameOrder, NameOrdered

\* They keep the promises.
LEMMA PromisesAreKept ==
    ASSUME NEW names, IsInjective(names),
           NEW infos, OfNodes(infos), OnePerName(infos), \A info \in infos : info.Ready,
           NEW objects, ClusterOf(objects)
    PROVE  PromisesKept(MakeDesired(names, infos, listAllNodes(objects)))
<1> DEFINE d == MakeDesired(names, infos, listAllNodes(objects))
           I == Infos(objects)
<1>0. d = MakeDesired(names, infos, listAllNodes(objects))
    OBVIOUS
<1> HIDE DEF d
<1>1. /\ d.Aliases = names
      /\ d.IngressNodes \in Seq(infos) /\ ToSet(d.IngressNodes) = infos
      /\ d.StaleAliasNodes \in Seq(I) /\ d.LandbSetNodes \in Seq(I)
      /\ d.StaleLandbSetNodes \in Seq(I)
      /\ ToSet(d.StaleAliasNodes) = {x \in I : x.Name \notin {y.Name : y \in infos}}
      /\ ToSet(d.LandbSetNodes) = {x \in I : HasActiveSet(x)}
      /\ ToSet(d.StaleLandbSetNodes) = {x \in I : ~HasActiveSet(x)}
      /\ NameOrdered(d.IngressNodes) /\ NameOrdered(d.StaleAliasNodes)
      /\ NameOrdered(d.LandbSetNodes) /\ NameOrdered(d.StaleLandbSetNodes)
    <2>1. ListsFrom(d, names, infos, objects)
        BY <1>0, ListsAre
    <2> QED  BY <2>1 DEF ListsFrom
<1>2. OfNodes(I) /\ OnePerName(I)
    BY AllNodesAre
<1>3. ASSUME NEW x \in I
      PROVE  Blank \notin ToSet(x.LandbSet) /\ IsInjective(x.LandbSet)
    <2>1. PICK n \in Existing(objects) : x = nodeInfoFromNode(n, objects[n])
        BY DEF Infos
    <2>2. x.LandbSet = nodeLandbSet(objects[n]) /\ objects[n] \in NodeObject
        BY <2>1 DEF nodeInfoFromNode, ClusterOf
    <2> QED  BY <2>2, LandbSetIs
<1> HIDE DEF I
<1>4. \A list \in {d.IngressNodes, d.StaleAliasNodes, d.LandbSetNodes, d.StaleLandbSetNodes} :
        NamesOnce(list) /\ InNameOrder(list)
    <2>1. NamesOnce(d.IngressNodes) /\ InNameOrder(d.IngressNodes)
        BY <1>1, ListOnce
    <2>2. NamesOnce(d.StaleAliasNodes) /\ InNameOrder(d.StaleAliasNodes)
        BY <1>1, <1>2, ListOnce
    <2>3. NamesOnce(d.LandbSetNodes) /\ InNameOrder(d.LandbSetNodes)
        BY <1>1, <1>2, ListOnce
    <2>4. NamesOnce(d.StaleLandbSetNodes) /\ InNameOrder(d.StaleLandbSetNodes)
        BY <1>1, <1>2, ListOnce
    <2> QED  BY <2>1, <2>2, <2>3, <2>4
<1>5. Names(d.IngressNodes) \cap Names(d.StaleAliasNodes) = {}
    BY <1>1, NamesOf
<1>6. Names(d.LandbSetNodes) \cap Names(d.StaleLandbSetNodes) = {}
    BY <1>1, <1>2, NamesOf DEF OnePerName
<1>7. Names(d.LandbSetNodes) \cup Names(d.StaleLandbSetNodes)
        \subseteq Names(d.IngressNodes) \cup Names(d.StaleAliasNodes)
    <2>1. SUFFICES ASSUME NEW x \in I
                   PROVE  x.Name \in Names(d.IngressNodes) \cup Names(d.StaleAliasNodes)
        BY <1>1, NamesOf
    <2>2. CASE x.Name \in {y.Name : y \in infos}
        BY <1>1, <2>2, NamesOf
    <2>3. CASE x.Name \notin {y.Name : y \in infos}
        <3>1. x \in ToSet(d.StaleAliasNodes)
            BY <1>1, <2>1, <2>3
        <3> QED  BY <3>1, NamesOf
    <2> QED  BY <2>2, <2>3
<1>8. \A i \in DOMAIN d.IngressNodes : d.IngressNodes[i].Ready
    BY <1>1
<1>9. ASSUME NEW i \in DOMAIN d.LandbSetNodes
      PROVE  /\ d.LandbSetNodes[i].Ready /\ d.LandbSetNodes[i].LandbSet # <<>>
             /\ Blank \notin ToSet(d.LandbSetNodes[i].LandbSet)
             /\ IsInjective(d.LandbSetNodes[i].LandbSet)
    <2>1. d.LandbSetNodes[i] \in ToSet(d.LandbSetNodes)
        BY DEF ToSet
    <2>2. d.LandbSetNodes[i] \in I /\ HasActiveSet(d.LandbSetNodes[i])
        BY <1>1, <2>1
    <2> QED  BY <1>3, <2>2 DEF HasActiveSet
<1> QED  BY <1>1, <1>4, <1>5, <1>6, <1>7, <1>8, <1>9 DEF PromisesKept, d

\* What is found is Ready, and no alias is listed twice.
DesiredInv ==
    /\ IsInjective(aliases) /\ \A info \in found : info.Ready
    /\ DesiredStateOK

LEMMA NothingPromised == PromisesKept(NothingDesired)
<1>1. DOMAIN <<>> = {}
    OBVIOUS
<1> QED  BY <1>1 DEF PromisesKept, NothingDesired, NamesOnce, InNameOrder, Names, IsInjective

LEMMA DesiredInvStep ==
    ASSUME TypeInv, SteadyInv, DesiredInv, [Next]_vars
    PROVE  DesiredInv'
<1>0. IsInjective(<<>>)
    <2>1. DOMAIN <<>> = {}
        OBVIOUS
    <2> QED  BY <2>1 DEF IsInjective
<1>1. CASE ListAliases
    <2>1. aliases' = listAliases(ingressCache) /\ UNCHANGED <<found, desired>>
        BY <1>1 DEF ListAliases
    <2>2. IsFiniteSet(DOMAIN ingressCache)
        <3>1. DOMAIN ingressCache \in SUBSET IngressName
            BY RulesType DEF TypeInv
        <3> QED  BY <3>1, ControllerAssumption, FS_Subset
    <2>3. \A i \in DOMAIN ingressCache : IsFiniteSet(ingressCache[i]) /\ ingressCache[i] \subseteq Host
        BY RulesType, ControllerAssumption DEF TypeInv
    <2>4. IsInjective(aliases')
        BY <2>1, <2>2, <2>3, ListAliasesIs
    <2> QED  BY <2>1, <2>4 DEF DesiredInv, DesiredStateOK
<1>2. CASE ListIngressNodes
    <2>1. /\ found' = found \cup {nodeInfoFromNode(n, nodeCache[n]) :
                                n \in {m \in NewlyListed : isNodeReady(nodeCache[m])}}
          /\ UNCHANGED <<aliases, desired>>
        BY <1>2 DEF ListIngressNodes
    <2>2. \A info \in found' : info.Ready
        BY <2>1 DEF DesiredInv, nodeInfoFromNode
    <2> QED  BY <2>1, <2>2 DEF DesiredInv, DesiredStateOK
<1>3. CASE ListAllNodes
    <2>1. desired' = MakeDesired(aliases, found, listAllNodes(nodeCache)) /\ UNCHANGED <<aliases, found>>
        BY <1>3 DEF ListAllNodes
    <2>2. OfNodes(found) /\ OnePerName(found)
        BY DEF TypeInv, TypeOK, OfNodes, NodeInfo, SteadyInv
    <2>3. ClusterOf(nodeCache)
        BY DEF TypeInv, TypeOK, ClusterOf, Existing, Object
    <2>4. PromisesKept(desired')
        BY <2>1, <2>2, <2>3, PromisesAreKept DEF DesiredInv
    <2> QED  BY <2>1, <2>4 DEF DesiredInv, DesiredStateOK
<1>4. CASE ListFails \/ SyncReturns \/ Restart
    <2>1. aliases' = <<>> /\ found' = {} /\ desired' = NothingDesired
        BY <1>4 DEF ListFails, SyncReturns, Restart, WorkDone
    <2> QED  BY <1>0, <2>1, NothingPromised DEF DesiredInv, DesiredStateOK
<1>5. CASE Reconcile \/ SyncStep \/ NodeEvent \/ IngressEvent \/ Resync \/ MissEvent
            \/ (\E k \in Key : RequeueAfter(k)) \/ (\E n \in NodeName : ChangeNode(n))
            \/ (\E i \in IngressName : ChangeIngress(i)) \/ UNCHANGED vars
    <2>1. UNCHANGED <<aliases, found, desired>>
        BY <1>5 DEF Reconcile, SyncStep, NodeEvent, IngressEvent, Resync, MissEvent, RequeueAfter,
           ChangeNode, ChangeIngress, vars, workVars
    <2> QED  BY <2>1 DEF DesiredInv, DesiredStateOK
<1> QED  BY <1>1, <1>2, <1>3, <1>4, <1>5 DEF Next, Worker, World

\* Whatever happens between the List calls, the DesiredState keeps the promises
\* a provider relies on, for any number of nodes, selectors and Ingress objects.
THEOREM PromisesHold == Spec => []DesiredStateOK
<1>1. Init => TypeInv /\ SteadyInv /\ DesiredInv
    <2>1. DOMAIN <<>> = {}
        OBVIOUS
    <2>2. Init => DesiredInv
        BY <2>1, NothingPromised DEF Init, DesiredInv, DesiredStateOK, IsInjective
    <2>3. Init => SteadyInv
        BY DEF Init, SteadyInv, SteadyNodeSelected, IngressMatches, OnePerName, FoundNames
    <2> QED  BY <2>2, <2>3, TypeInvInit
<1>2. TypeInv /\ SteadyInv /\ DesiredInv /\ [Next]_vars => TypeInv' /\ SteadyInv' /\ DesiredInv'
    BY TypeInvStep, SteadyInvStep, DesiredInvStep
<1>3. DesiredInv => DesiredStateOK
    BY DEF DesiredInv
<1> QED  BY <1>1, <1>2, <1>3, PTL DEF Spec

-----------------------------------------------------------------------------
(***************************************************************************)
(* No change is lost.                                                      *)
(*                                                                         *)
(* Three things have to be known.  What the API holds is in the cache or   *)
(* in an event under way (DeliveryInv).  As long as no key has come into   *)
(* the queue since runOnce began, what it has read is what the cache holds *)
(* still, though events that no predicate selects have changed it          *)
(* (ReadInv).  And then what Sync has still to do brings every node that   *)
(* was not overlooked to what the cache says, when no node fails           *)
(* (WorkInv); so it does when runOnce has returned and no timer runs.      *)
(***************************************************************************)
ServedIn(n, objects, rules) ==
    IF n \in IngressMembers(objects)
    THEN WithSuffix(listAliases(rules),
                    Cardinality({m \in IngressMembers(objects) : NameRank[m] < NameRank[n]}))
    ELSE {}

SetIn(n, objects) == IF isNodeReady(objects[n]) THEN nodeLandbSet(objects[n]) ELSE <<>>

DeliveryInv ==
    /\ \A n \in NodeName :
        nodeCache[n] = nodes[n] \/ \E i \in 1..Len(nodeEvents) : nodeEvents[i].name = n
    /\ \A i \in 1..Len(nodeEvents) :
        \/ nodeEvents[i].object = nodes[nodeEvents[i].name]
        \/ \E j \in 1..Len(nodeEvents) : i < j /\ nodeEvents[j].name = nodeEvents[i].name
    /\ IF ingressEvents = <<>> THEN ingressCache = ingresses
       ELSE ingressEvents[Len(ingressEvents)].objects = ingresses

ListedSoFar == {n \in NodeName : \E i \in 1..(selector - 1) : n \in Listed(IngressNodeLabels[i])}

LabelledNow == {n \in NodeName : hasIngressLabel(nodeCache[n])}

ReadInv ==
    queue = {} /\ pc \in {"ingressNodes", "allNodes"} =>
        /\ aliases = listAliases(ingressCache)
        /\ seen = IF pc = "ingressNodes" THEN ListedSoFar ELSE LabelledNow
        /\ found = {nodeInfoFromNode(n, nodeCache[n]) :
                        n \in {m \in seen : isNodeReady(nodeCache[m])}}

\* What is left to do for n, after which it is as the cache says.
WorkRight(n) ==
    /\ \A w \in ToSet(todo) : w.node = n =>
        w.value = IF w.part = "served" THEN ServedIn(n, nodeCache, ingressCache)
                                       ELSE SetIn(n, nodeCache)
    /\ \/ served[n] = ServedIn(n, nodeCache, ingressCache)
       \/ \E w \in ToSet(todo) : w.node = n /\ w.part = "served"
    /\ \/ set[n] = SetIn(n, nodeCache)
       \/ \E w \in ToSet(todo) : w.node = n /\ w.part # "served"

Tracked == Existing(nodeCache) \ overlooked

Undisturbed ==
    /\ queue = {}
    /\ (pc = "sync" /\ ~syncFailed) \/ (pc = "idle" /\ delayed = {})

WorkInv ==
    /\ DOMAIN served = NodeName /\ DOMAIN set = NodeName
    /\ \E W : todo \in Seq(W)
    /\ Undisturbed => \A n \in Tracked : WorkRight(n)

WakeInv == DeliveryInv /\ ReadInv /\ WorkInv

(***************************************************************************)
(* The events.                                                             *)
(***************************************************************************)

\* The elements of a list with one removed.
LEMMA RemoveAtIs ==
    ASSUME NEW T, NEW q \in Seq(T), NEW i \in 1..Len(q)
    PROVE  /\ RemoveAt(q, i) \in Seq(T) /\ Len(RemoveAt(q, i)) = Len(q) - 1
           /\ \A k \in 1..(i - 1) : RemoveAt(q, i)[k] = q[k]
           /\ \A k \in i..(Len(q) - 1) : RemoveAt(q, i)[k] = q[k + 1]
<1> DEFINE a == SubSeq(q, 1, i - 1)
           b == SubSeq(q, i + 1, Len(q))
<1>1. Len(q) \in Nat /\ i \in Nat /\ 1 <= i /\ i <= Len(q)
    OBVIOUS
<1>2. /\ a \in Seq(T) /\ Len(a) = i - 1 /\ \A k \in 1..(i - 1) : a[k] = q[k]
      /\ b \in Seq(T) /\ Len(b) = Len(q) - i /\ \A k \in 1..(Len(q) - i) : b[k] = q[i + k]
    BY <1>1
<1>3. RemoveAt(q, i) = a \o b
    BY DEF RemoveAt
<1> HIDE DEF a, b
<1>4. a \o b \in Seq(T) /\ Len(a \o b) = Len(q) - 1
    <2>1. a \o b \in Seq(T) /\ Len(a \o b) = Len(a) + Len(b)
        <3>1. a \in Seq(T) /\ b \in Seq(T)
            BY <1>2
        <3>2. a \o b \in Seq(T)
            BY <3>1
        <3>3. Len(a \o b) = Len(a) + Len(b)
            BY <3>1
        <3> QED  BY <3>2, <3>3
    <2>2. Len(a) + Len(b) = Len(q) - 1
        BY <1>1, <1>2
    <2> QED  BY <2>1, <2>2
<1>5. \A k \in 1..(i - 1) : (a \o b)[k] = q[k]
    BY <1>1, <1>2
<1>6. ASSUME NEW k \in i..(Len(q) - 1) PROVE (a \o b)[k] = q[k + 1]
    <2>1. (a \o b)[k] = b[k - (i - 1)] /\ k - (i - 1) \in 1..(Len(q) - i)
        BY <1>1, <1>2
    <2>2. b[k - (i - 1)] = q[i + (k - (i - 1))] /\ i + (k - (i - 1)) = k + 1
        BY <1>1, <1>2, <2>1
    <2> QED  BY <2>1, <2>2
<1> QED  BY <1>3, <1>4, <1>5, <1>6

LEMMA DeliveryStep ==
    ASSUME TypeInv, DeliveryInv, [Next]_vars
    PROVE  DeliveryInv'
<1> DEFINE len == Len(nodeEvents)
<1>0. /\ nodeEvents \in Seq(NodeChange) /\ len \in Nat
      /\ nodes \in [NodeName -> Object] /\ nodeCache \in [NodeName -> Object]
      /\ \A i \in 1..len : nodeEvents[i].name \in NodeName
      /\ ingressEvents \in Seq(IngressChange)
    BY DEF TypeInv, TypeOK
<1>1. CASE \E n \in NodeName : ChangeNode(n)
    <2>0. PICK n \in NodeName : \E object :
            /\ nodes' = [nodes EXCEPT ![n] = object]
            /\ nodeEvents' = Append(nodeEvents, [name |-> n, object |-> object])
            /\ UNCHANGED <<ingresses, ingressEvents, nodeCache, ingressCache>>
        BY <1>1 DEF ChangeNode
    <2>1. PICK object :
            /\ nodes' = [nodes EXCEPT ![n] = object]
            /\ nodeEvents' = Append(nodeEvents, [name |-> n, object |-> object])
            /\ UNCHANGED <<ingresses, ingressEvents, nodeCache, ingressCache>>
        BY <2>0
    <2>2. /\ Len(nodeEvents') = len + 1
          /\ nodeEvents'[len + 1] = [name |-> n, object |-> object]
          /\ \A i \in 1..len : nodeEvents'[i] = nodeEvents[i]
        BY <1>0, <2>1
    <2>3. \A m \in NodeName : nodes'[m] = IF m = n THEN object ELSE nodes[m]
        BY <1>0, <2>1
    <2>4. ASSUME NEW m \in NodeName
          PROVE  nodeCache[m] = nodes'[m] \/ \E i \in 1..(len + 1) : nodeEvents'[i].name = m
        <3>1. CASE m = n
            BY <1>0, <2>2, <3>1
        <3>2. CASE m # n
            <4>1. nodeCache[m] = nodes'[m] \/ \E i \in 1..len : nodeEvents[i].name = m
                BY <2>3, <3>2 DEF DeliveryInv
            <4> QED  BY <1>0, <2>2, <4>1
        <3> QED  BY <3>1, <3>2
    <2>5. ASSUME NEW i \in 1..(len + 1)
          PROVE  \/ nodeEvents'[i].object = nodes'[nodeEvents'[i].name]
                 \/ \E j \in 1..(len + 1) : i < j /\ nodeEvents'[j].name = nodeEvents'[i].name
        <3>1. CASE i = len + 1
            BY <2>2, <2>3, <3>1
        <3>2. CASE i \in 1..len /\ nodeEvents[i].name = n
            <4>1. len + 1 \in 1..(len + 1) /\ i < len + 1
                BY <1>0, <3>2
            <4> QED  BY <2>2, <3>2, <4>1
        <3>3. CASE i \in 1..len /\ nodeEvents[i].name # n
            <4>1. \/ nodeEvents[i].object = nodes[nodeEvents[i].name]
                  \/ \E j \in 1..len : i < j /\ nodeEvents[j].name = nodeEvents[i].name
                BY <3>3 DEF DeliveryInv
            <4>2. 1..len \subseteq 1..(len + 1)
                BY <1>0
            <4> QED  BY <1>0, <2>2, <2>3, <3>3, <4>1, <4>2
        <3> QED  BY <1>0, <3>1, <3>2, <3>3
    <2> QED  BY <2>1, <2>2, <2>4, <2>5 DEF DeliveryInv
<1>2. CASE NodeEvent
    <2> DEFINE e == Head(nodeEvents)
    <2>1. /\ nodeEvents # <<>> /\ nodeEvents' = Tail(nodeEvents)
          /\ nodeCache' = [nodeCache EXCEPT ![e.name] = e.object]
          /\ UNCHANGED <<nodes, ingresses, ingressEvents, ingressCache>>
        BY <1>2 DEF NodeEvent, apiVars
    <2>2. /\ e = nodeEvents[1] /\ 1 \in 1..len /\ Len(nodeEvents') = len - 1
          /\ \A i \in 1..(len - 1) : nodeEvents'[i] = nodeEvents[i + 1] /\ i + 1 \in 1..len
        BY <1>0, <2>1
    <2>3. ASSUME NEW j \in 2..len
          PROVE  j - 1 \in 1..(len - 1) /\ nodeEvents'[j - 1] = nodeEvents[j]
        <3>1. j - 1 \in 1..(len - 1) /\ (j - 1) + 1 = j
            BY <1>0
        <3> QED  BY <2>2, <3>1
    <2> HIDE DEF e
    <2>4. ASSUME NEW m \in NodeName
          PROVE  nodeCache'[m] = nodes[m] \/ \E i \in 1..(len - 1) : nodeEvents'[i].name = m
        <3>1. CASE \E j \in 2..len : nodeEvents[j].name = m
            BY <2>3, <3>1
        <3>2. CASE \A j \in 2..len : nodeEvents[j].name # m
            <4>1. CASE e.name = m
                <5>1. \A j \in 1..len : 1 < j => nodeEvents[j].name # nodeEvents[1].name
                    BY <1>0, <2>2, <3>2, <4>1
                <5>2. e.object = nodes[m]
                    BY <2>2, <4>1, <5>1 DEF DeliveryInv
                <5> QED  BY <1>0, <2>1, <4>1, <5>2
            <4>2. CASE e.name # m
                <5>1. \A j \in 1..len : nodeEvents[j].name # m
                    BY <1>0, <2>2, <3>2, <4>2
                <5>2. nodeCache[m] = nodes[m]
                    BY <5>1 DEF DeliveryInv
                <5> QED  BY <1>0, <2>1, <4>2, <5>2
            <4> QED  BY <4>1, <4>2
        <3> QED  BY <3>1, <3>2
    <2>5. ASSUME NEW i \in 1..(len - 1)
          PROVE  \/ nodeEvents'[i].object = nodes[nodeEvents'[i].name]
                 \/ \E j \in 1..(len - 1) : i < j /\ nodeEvents'[j].name = nodeEvents'[i].name
        <3>1. \/ nodeEvents[i + 1].object = nodes[nodeEvents[i + 1].name]
              \/ \E j \in 1..len : i + 1 < j /\ nodeEvents[j].name = nodeEvents[i + 1].name
            BY <2>2 DEF DeliveryInv
        <3>2. ASSUME NEW j \in 1..len, i + 1 < j
              PROVE  j \in 2..len /\ i < j - 1
            BY <1>0, <3>2
        <3> QED  BY <2>2, <2>3, <3>1, <3>2
    <2> QED  BY <2>1, <2>2, <2>4, <2>5 DEF DeliveryInv
<1>3. CASE MissEvent
    <2>1. PICK i \in 1..len, j \in 1..len :
            /\ i < j /\ nodeEvents[i].name = nodeEvents[j].name
            /\ nodeEvents' = RemoveAt(nodeEvents, i)
        BY <1>0, <1>3 DEF MissEvent
    <2>2. UNCHANGED <<nodes, ingresses, ingressEvents, nodeCache, ingressCache>>
        BY <1>3 DEF MissEvent, apiVars
    <2>3. /\ Len(nodeEvents') = len - 1
          /\ \A k \in 1..(i - 1) : nodeEvents'[k] = nodeEvents[k]
          /\ \A k \in i..(len - 1) : nodeEvents'[k] = nodeEvents[k + 1]
        BY <1>0, <2>1, RemoveAtIs
    <2> DEFINE At(k) == IF k < i THEN k ELSE k - 1
    <2>4. ASSUME NEW k \in 1..len, k # i
          PROVE  At(k) \in 1..(len - 1) /\ nodeEvents'[At(k)] = nodeEvents[k]
        <3>1. CASE k < i
            BY <1>0, <2>1, <2>3, <3>1
        <3>2. CASE k > i
            <4>1. k - 1 \in i..(len - 1) /\ (k - 1) + 1 = k /\ At(k) = k - 1
                BY <1>0, <2>1, <3>2
            <4> QED  BY <1>0, <2>1, <2>3, <4>1
        <3> QED  BY <1>0, <2>1, <2>4, <3>1, <3>2
    <2>5. ASSUME NEW k \in 1..(len - 1)
          PROVE  \E l \in 1..len : l # i /\ At(l) = k /\ nodeEvents'[k] = nodeEvents[l]
        <3>1. CASE k < i
            <4>1. k \in 1..len /\ k # i /\ k \in 1..(i - 1)
                BY <1>0, <2>1, <3>1
            <4>2. At(k) = k /\ nodeEvents'[k] = nodeEvents[k]
                BY <2>3, <3>1, <4>1
            <4> QED  BY <4>1, <4>2
        <3>2. CASE k >= i
            <4>1. k + 1 \in 1..len /\ k + 1 # i /\ ~(k + 1 < i) /\ (k + 1) - 1 = k /\ k \in i..(len - 1)
                BY <1>0, <2>1, <3>2
            <4>2. At(k + 1) = k /\ nodeEvents'[k] = nodeEvents[k + 1]
                BY <2>3, <4>1
            <4> QED  BY <4>1, <4>2
        <3> QED  BY <1>0, <2>1, <3>1, <3>2
    <2>6. ASSUME NEW k \in 1..len
          PROVE  \E l \in 1..len : l # i /\ k <= l /\ nodeEvents[l].name = nodeEvents[k].name
        <3>1. CASE k = i
            BY <1>0, <2>1, <3>1
        <3>2. CASE k # i
            BY <1>0, <3>2
        <3> QED  BY <3>1, <3>2
    <2>7. ASSUME NEW m \in NodeName
          PROVE  nodeCache[m] = nodes[m] \/ \E k \in 1..(len - 1) : nodeEvents'[k].name = m
        <3> SUFFICES ASSUME nodeCache[m] # nodes[m]
                     PROVE  \E k \in 1..(len - 1) : nodeEvents'[k].name = m
            OBVIOUS
        <3>1. PICK k \in 1..len : nodeEvents[k].name = m
            BY DEF DeliveryInv
        <3>2. PICK l \in 1..len : l # i /\ nodeEvents[l].name = m
            BY <2>6, <3>1
        <3> QED  BY <2>4, <3>2
    <2>8. ASSUME NEW k \in 1..(len - 1)
          PROVE  \/ nodeEvents'[k].object = nodes[nodeEvents'[k].name]
                 \/ \E h \in 1..(len - 1) : k < h /\ nodeEvents'[h].name = nodeEvents'[k].name
        <3>1. PICK l \in 1..len : l # i /\ At(l) = k /\ nodeEvents'[k] = nodeEvents[l]
            BY <2>5
        <3> SUFFICES ASSUME NEW h \in 1..len, l < h, nodeEvents[h].name = nodeEvents[l].name
                     PROVE  \E g \in 1..(len - 1) : k < g /\ nodeEvents'[g].name = nodeEvents'[k].name
            BY <3>1 DEF DeliveryInv
        <3>2. PICK g \in 1..len : g # i /\ h <= g /\ nodeEvents[g].name = nodeEvents[h].name
            BY <2>6
        <3>3. At(l) < At(g)
            BY <1>0, <2>1, <3>1, <3>2
        <3> QED  BY <2>4, <3>1, <3>2, <3>3
    <2> QED  BY <2>2, <2>3, <2>7, <2>8 DEF DeliveryInv
<1>4. CASE \E i \in IngressName : ChangeIngress(i)
    <2>1. PICK i : ingressEvents' = Append(ingressEvents, [name |-> i, objects |-> ingresses'])
        BY <1>4 DEF ChangeIngress
    <2>2. UNCHANGED <<nodes, nodeEvents, nodeCache>>
        BY <1>4 DEF ChangeIngress
    <2>3. ingressEvents' # <<>> /\ ingressEvents'[Len(ingressEvents')].objects = ingresses'
        BY <1>0, <2>1
    <2> QED  BY <2>2, <2>3 DEF DeliveryInv
<1>5. CASE IngressEvent
    <2>1. /\ ingressEvents # <<>> /\ ingressEvents' = Tail(ingressEvents)
          /\ ingressCache' = Head(ingressEvents).objects
          /\ UNCHANGED <<nodes, ingresses, nodeEvents, nodeCache>>
        BY <1>5 DEF IngressEvent, apiVars
    <2>2. CASE Len(ingressEvents) = 1
        <3>1. ingressEvents' = <<>> /\ ingressCache' = ingressEvents[Len(ingressEvents)].objects
            BY <1>0, <2>1, <2>2
        <3> QED  BY <2>1, <3>1 DEF DeliveryInv
    <2>3. CASE Len(ingressEvents) # 1
        <3> DEFINE m == Len(ingressEvents)
        <3>0. m \in Nat /\ m > 1
            <4>1. m \in Nat /\ m # 0
                BY <1>0, <2>1
            <4> QED  BY <2>3, <4>1
        <3>2. Len(ingressEvents') = m - 1 /\ \A i \in 1..(m - 1) : ingressEvents'[i] = ingressEvents[i + 1]
            BY <1>0, <2>1
        <3>3. ingressEvents'[m - 1] = ingressEvents[m]
            <4>1. m - 1 \in 1..(m - 1) /\ (m - 1) + 1 = m
                BY <3>0
            <4> QED  BY <3>2, <4>1
        <3>1. /\ ingressEvents' # <<>>
              /\ ingressEvents'[Len(ingressEvents')] = ingressEvents[Len(ingressEvents)]
            BY <3>0, <3>2, <3>3
        <3> QED  BY <2>1, <3>1 DEF DeliveryInv
    <2> QED  BY <2>2, <2>3
<1>6. CASE Restart
    <2>1. /\ nodeEvents' = <<>> /\ ingressEvents' = <<>> /\ nodeCache' = nodes
          /\ ingressCache' = ingresses /\ UNCHANGED <<nodes, ingresses>>
        BY <1>6 DEF Restart, apiVars
    <2>2. Len(nodeEvents') = 0
        BY <2>1
    <2> QED  BY <2>1, <2>2 DEF DeliveryInv
<1>7. CASE Worker \/ Resync \/ (\E k \in Key : RequeueAfter(k)) \/ UNCHANGED vars
    <2>1. UNCHANGED <<nodes, ingresses, nodeEvents, ingressEvents, nodeCache, ingressCache>>
        BY <1>7 DEF Worker, Reconcile, ListAliases, ListIngressNodes, ListAllNodes, ListFails,
           SyncStep, SyncReturns, Resync, RequeueAfter, vars, apiVars, cacheVars
    <2> QED  BY <2>1 DEF DeliveryInv
<1> QED  BY <1>1, <1>2, <1>3, <1>4, <1>5, <1>6, <1>7 DEF Next, World

(***************************************************************************)
(* What the cache says of the ingress nodes, and of a landb-set, does not  *)
(* change with an event that no predicate selects.                         *)
(***************************************************************************)
SameIngress(a, b) ==
    \A n \in NodeName : a[n] = b[n] \/ (~hasIngressLabel(a[n]) /\ ~hasIngressLabel(b[n]))

ListedIn(sel, objects) ==
    {n \in NodeName : objects[n] # Absent /\ Matches(sel, objects[n].labels)}

LEMMA SameMembers ==
    ASSUME NEW a, NEW b, SameIngress(a, b)
    PROVE  /\ IngressMembers(a) = IngressMembers(b)
           /\ \A n \in NodeName : hasIngressLabel(a[n]) <=> hasIngressLabel(b[n])
           /\ \A n \in NodeName : hasIngressLabel(a[n]) => a[n] = b[n]
           /\ \A i \in DOMAIN IngressNodeLabels :
                /\ ListedIn(IngressNodeLabels[i], a) = ListedIn(IngressNodeLabels[i], b)
                /\ \A n \in ListedIn(IngressNodeLabels[i], a) : hasIngressLabel(a[n])
<1>1. \A n \in NodeName : (hasIngressLabel(a[n]) <=> hasIngressLabel(b[n]))
                          /\ (hasIngressLabel(a[n]) => a[n] = b[n])
    BY DEF SameIngress
<1>2. IngressMembers(a) = IngressMembers(b)
    BY <1>1 DEF IngressMembers
<1>3. ASSUME NEW i \in DOMAIN IngressNodeLabels
      PROVE  /\ ListedIn(IngressNodeLabels[i], a) = ListedIn(IngressNodeLabels[i], b)
             /\ \A n \in ListedIn(IngressNodeLabels[i], a) : hasIngressLabel(a[n])
    <2>1. \A n \in ListedIn(IngressNodeLabels[i], a) : hasIngressLabel(a[n])
        BY DEF ListedIn, hasIngressLabel
    <2>2. \A n \in ListedIn(IngressNodeLabels[i], b) : hasIngressLabel(b[n])
        BY DEF ListedIn, hasIngressLabel
    <2>3. \A n \in NodeName :
            n \in ListedIn(IngressNodeLabels[i], a) <=> n \in ListedIn(IngressNodeLabels[i], b)
        BY <1>1, <2>1, <2>2 DEF ListedIn
    <2> QED  BY <2>1, <2>3 DEF ListedIn
<1> QED  BY <1>1, <1>2, <1>3

\* The same keys with the prefix, the same landb-set.
LEMMA SamePart ==
    ASSUME NEW a, NEW b, LandbPart(a) = LandbPart(b)
    PROVE  /\ landbSetKey \in DOMAIN a <=> landbSetKey \in DOMAIN b
           /\ landbSetKey \in DOMAIN a => a[landbSetKey] = b[landbSetKey]
<1> DEFINE f == [x \in DOMAIN a \cap LandbKey |-> a[x]]
           g == [x \in DOMAIN b \cap LandbKey |-> b[x]]
<1>1. f = g
    BY DEF LandbPart, Restrict
<1>2. DOMAIN f = DOMAIN a \cap LandbKey /\ DOMAIN g = DOMAIN b \cap LandbKey
    OBVIOUS
<1>3. landbSetKey \in LandbKey
    BY DesiredStateAssumption
<1>4. landbSetKey \in DOMAIN f => f[landbSetKey] = a[landbSetKey]
    OBVIOUS
<1>5. landbSetKey \in DOMAIN g => g[landbSetKey] = b[landbSetKey]
    OBVIOUS
<1> HIDE DEF f, g
<1> QED  BY <1>1, <1>2, <1>3, <1>4, <1>5

LEMMA SameSet ==
    ASSUME NEW a, NEW b, ~landbMetadataChanged(a, b)
    PROVE  nodeLandbSet(a) = nodeLandbSet(b)
<1>1. LandbPart(a.labels) = LandbPart(b.labels) /\ LandbPart(a.annotations) = LandbPart(b.annotations)
    BY DEF landbMetadataChanged
<1>2. /\ landbSetKey \in DOMAIN a.labels <=> landbSetKey \in DOMAIN b.labels
      /\ landbSetKey \in DOMAIN a.labels => a.labels[landbSetKey] = b.labels[landbSetKey]
      /\ landbSetKey \in DOMAIN a.annotations <=> landbSetKey \in DOMAIN b.annotations
      /\ landbSetKey \in DOMAIN a.annotations => a.annotations[landbSetKey] = b.annotations[landbSetKey]
    BY <1>1, SamePart
<1>3. CASE landbSetKey \in DOMAIN a.annotations
    BY <1>2, <1>3 DEF nodeLandbSet
<1>4. CASE landbSetKey \notin DOMAIN a.annotations /\ landbSetKey \in DOMAIN a.labels
    BY <1>2, <1>4 DEF nodeLandbSet
<1>5. CASE landbSetKey \notin DOMAIN a.annotations /\ landbSetKey \notin DOMAIN a.labels
    BY <1>2, <1>5 DEF nodeLandbSet
<1> QED  BY <1>3, <1>4, <1>5

\* An event that puts no key in the queue, for a node it does not overlook.
LEMMA QuietEvent ==
    ASSUME TypeInv, NodeEvent, queue' = {}
    PROVE  /\ queue = {} /\ SameIngress(nodeCache, nodeCache')
           /\ \A n \in Tracked' : n \in Tracked /\ SetIn(n, nodeCache') = SetIn(n, nodeCache)
<1> DEFINE name == Head(nodeEvents).name
           old == nodeCache[name]
           new == Head(nodeEvents).object
<1>1. /\ nodeCache' = [nodeCache EXCEPT ![name] = new]
      /\ queue' = IF old # new /\ EventAccepted(old, new) THEN queue \cup {NodeKey} ELSE queue
      /\ overlooked' = overlooked \cup {n \in {name} : NotWatched(old, new)}
    BY DEF NodeEvent
<1>2. queue = {} /\ (old = new \/ ~EventAccepted(old, new))
    BY <1>1
<1>3. \A n \in NodeName : nodeCache'[n] = IF n = name THEN new ELSE nodeCache[n]
    BY <1>1 DEF TypeInv, TypeOK
<1> HIDE DEF name, new
<1>4. old # new => ~hasIngressLabel(old) /\ ~hasIngressLabel(new)
    BY <1>2 DEF EventAccepted, ingressPredicate
<1>5. SameIngress(nodeCache, nodeCache')
    BY <1>3, <1>4 DEF SameIngress
<1>6. ASSUME NEW n \in Tracked'
      PROVE  n \in Tracked /\ SetIn(n, nodeCache') = SetIn(n, nodeCache)
    <2>1. n \in NodeName /\ nodeCache'[n] # Absent /\ n \notin overlooked'
        BY DEF Tracked, Existing
    <2>2. n \notin overlooked /\ (n = name => ~NotWatched(old, new))
        BY <1>1, <2>1
    <2>3. CASE n # name \/ old = new
        <3>1. nodeCache'[n] = nodeCache[n]
            BY <1>3, <2>1, <2>3
        <3> QED  BY <2>1, <2>2, <3>1 DEF Tracked, Existing, SetIn
    <2>4. CASE n = name /\ old # new
        <3>1. new # Absent /\ ~NotWatched(old, new) /\ ~landbMetadataPredicate(old, new)
            BY <1>2, <1>3, <2>1, <2>2, <2>4 DEF EventAccepted
        <3>2. old # Absent
            BY <1>4, <2>4, <3>1 DEF NotWatched, landbMetadataPredicate
        <3>3. old.ready = new.ready /\ ~landbMetadataChanged(old, new)
            BY <1>4, <2>4, <3>1, <3>2 DEF NotWatched, landbMetadataPredicate
        <3>4. nodeLandbSet(old) = nodeLandbSet(new)
            BY <3>3, SameSet
        <3>5. nodeCache'[n] = new /\ nodeCache[n] = old
            BY <1>3, <2>1, <2>4
        <3> QED  BY <2>1, <2>2, <3>2, <3>3, <3>4, <3>5 DEF Tracked, Existing, SetIn, isNodeReady
    <2> QED  BY <2>3, <2>4
<1> QED  BY <1>2, <1>5, <1>6

(***************************************************************************)
(* What runOnce has read.                                                  *)
(***************************************************************************)
InfosOf(S, objects) ==
    {nodeInfoFromNode(n, objects[n]) : n \in {m \in S : isNodeReady(objects[m])}}

\* One more selector, with a queue that stays empty.
LEMMA ReadOneMore ==
    ASSUME TypeInv, ReadInv, ListIngressNodes, queue = {}
    PROVE  ReadInv'
<1>1. /\ pc = "ingressNodes" /\ UNCHANGED <<nodeCache, ingressCache, aliases>>
      /\ seen' = seen \cup Listed(IngressNodeLabels[selector])
      /\ found' = found \cup InfosOf(NewlyListed, nodeCache)
      /\ selector' = selector + 1
      /\ pc' = IF LastSelector THEN "allNodes" ELSE "ingressNodes"
    BY DEF ListIngressNodes, cacheVars, InfosOf
<1>2. /\ aliases = listAliases(ingressCache) /\ seen = ListedSoFar
      /\ found = InfosOf(seen, nodeCache)
    BY <1>1 DEF ReadInv, InfosOf
<1>3. selector \in 1..Len(IngressNodeLabels) /\ DOMAIN IngressNodeLabels = 1..Len(IngressNodeLabels)
      /\ Len(IngressNodeLabels) \in Nat
    BY <1>1, SelectorsInSequence DEF TypeInv, TypeOK
<1>4. seen' = {n \in NodeName : \E i \in 1..selector : n \in Listed(IngressNodeLabels[i])}
    <2>1. \A i : i \in 1..selector <=> i \in 1..(selector - 1) \/ i = selector
        BY <1>3
    <2> QED  BY <1>1, <1>2, <2>1 DEF ListedSoFar, Listed
<1>5. ListedSoFar' = {n \in NodeName : \E i \in 1..(selector' - 1) : n \in Listed(IngressNodeLabels[i])}
    <2>1. nodeCache' = nodeCache
        BY <1>1
    <2> QED  BY <2>1 DEF ListedSoFar, Listed
<1>6. selector' - 1 = selector
    BY <1>1, <1>3
<1>7. ListedSoFar' = seen'
    BY <1>4, <1>5, <1>6
<1>8. ASSUME LastSelector
      PROVE  LabelledNow' = seen'
    <2>1. DOMAIN IngressNodeLabels = 1..selector
        BY <1>3, <1>8 DEF LastSelector
    <2>2. \A n \in NodeName : hasIngressLabel(nodeCache[n])
                <=> \E i \in 1..selector : n \in Listed(IngressNodeLabels[i])
        BY <2>1 DEF hasIngressLabel, Listed
    <2> QED  BY <1>1, <1>4, <2>2 DEF LabelledNow
<1>9. found' = InfosOf(seen', nodeCache')
    <2>1. seen' = seen \cup NewlyListed
        BY <1>1 DEF NewlyListed
    <2> QED  BY <1>1, <1>2, <2>1 DEF InfosOf
<1> QED  BY <1>1, <1>2, <1>7, <1>8, <1>9 DEF ReadInv, InfosOf

\* An event that puts no key in the queue leaves it true as well.
LEMMA ReadUndisturbed ==
    ASSUME TypeInv, ReadInv, NodeEvent, queue' = {}
    PROVE  ReadInv'
<1>1. UNCHANGED <<pc, ingressCache, aliases, selector, seen, found>>
    BY DEF NodeEvent, workVars
<1>2. queue = {} /\ SameIngress(nodeCache, nodeCache')
    BY QuietEvent
<1>3. /\ \A n \in NodeName : hasIngressLabel(nodeCache[n]) <=> hasIngressLabel(nodeCache'[n])
      /\ \A n \in NodeName : hasIngressLabel(nodeCache[n]) => nodeCache[n] = nodeCache'[n]
      /\ \A i \in DOMAIN IngressNodeLabels :
            /\ ListedIn(IngressNodeLabels[i], nodeCache) = ListedIn(IngressNodeLabels[i], nodeCache')
            /\ \A n \in ListedIn(IngressNodeLabels[i], nodeCache) : hasIngressLabel(nodeCache[n])
    BY <1>2, SameMembers
<1> SUFFICES ASSUME pc \in {"ingressNodes", "allNodes"}
             PROVE  ReadInv'
    BY <1>1 DEF ReadInv
<1>4. /\ aliases = listAliases(ingressCache)
      /\ seen = IF pc = "ingressNodes" THEN ListedSoFar ELSE LabelledNow
      /\ found = InfosOf(seen, nodeCache)
    BY <1>2 DEF ReadInv, InfosOf
<1>5. LabelledNow' = LabelledNow
    BY <1>3 DEF LabelledNow
<1>6. ASSUME pc = "ingressNodes"
      PROVE  ListedSoFar' = ListedSoFar /\ ListedSoFar \subseteq LabelledNow
    <2>1. 1..(selector - 1) \subseteq DOMAIN IngressNodeLabels
        BY <1>6, SelectorsInSequence DEF TypeInv, TypeOK
    <2>2. \A i \in 1..(selector - 1) :
            Listed(IngressNodeLabels[i]) = ListedIn(IngressNodeLabels[i], nodeCache)
        BY DEF Listed, ListedIn
    <2>3. \A i \in 1..(selector - 1) :
            Listed(IngressNodeLabels[i])' = ListedIn(IngressNodeLabels[i], nodeCache')
        BY DEF Listed, ListedIn
    <2>4. ListedSoFar' = {n \in NodeName : \E i \in 1..(selector - 1) :
                                n \in ListedIn(IngressNodeLabels[i], nodeCache')}
        BY <1>1 DEF ListedSoFar, Listed, ListedIn
    <2>5. ListedSoFar = {n \in NodeName : \E i \in 1..(selector - 1) :
                                n \in ListedIn(IngressNodeLabels[i], nodeCache)}
        BY DEF ListedSoFar, Listed, ListedIn
    <2>6. ListedSoFar' = ListedSoFar
        BY <1>3, <2>1, <2>4, <2>5
    <2>7. ListedSoFar \subseteq LabelledNow
        BY <1>3, <2>1, <2>5 DEF LabelledNow
    <2> QED  BY <2>6, <2>7
<1>7. seen \subseteq LabelledNow
    BY <1>4, <1>6
<1>8. InfosOf(seen, nodeCache') = InfosOf(seen, nodeCache)
    <2>1. \A n \in seen : nodeCache'[n] = nodeCache[n]
        BY <1>3, <1>7 DEF LabelledNow
    <2> QED  BY <2>1 DEF InfosOf
<1> QED  BY <1>1, <1>2, <1>4, <1>5, <1>6, <1>8 DEF ReadInv, InfosOf

LEMMA ReadStep ==
    ASSUME TypeInv, ReadInv, [Next]_vars
    PROVE  ReadInv'
<1>1. CASE ListAliases
    <2>1. /\ selector = 1 /\ seen = {} /\ found = {}
          /\ UNCHANGED <<nodeCache, ingressCache, selector, seen, found>>
          /\ aliases' = listAliases(ingressCache)
          /\ pc' = IF IngressNodeLabels = <<>> THEN "allNodes" ELSE "ingressNodes"
        BY <1>1 DEF TypeInv, ListAliases, cacheVars
    <2>2. ListedSoFar' = {}
        BY <2>1 DEF ListedSoFar
    <2>3. IngressNodeLabels = <<>> => LabelledNow' = {}
        <3>1. DOMAIN <<>> = {}
            OBVIOUS
        <3> QED  BY <3>1 DEF LabelledNow, hasIngressLabel
    <2> QED  BY <2>1, <2>2, <2>3 DEF ReadInv
<1>2. CASE ListIngressNodes
    <2>1. queue' = queue
        BY <1>2 DEF ListIngressNodes, queueVars
    <2>2. CASE queue = {}
        BY <1>2, <2>2, ReadOneMore
    <2> QED  BY <2>1, <2>2 DEF ReadInv
<1>3. CASE Reconcile \/ ListAllNodes \/ ListFails \/ SyncReturns \/ Restart \/ SyncStep
    <2>1. pc' \in {"aliases", "sync", "idle"}
        BY <1>3 DEF Reconcile, ListAllNodes, ListFails, SyncReturns, Restart, SyncStep, WorkDone,
           workVars
    <2> QED  BY <2>1 DEF ReadInv
<1>4. CASE NodeEvent
    <2>1. CASE queue' = {}
        BY <1>4, <2>1, ReadUndisturbed
    <2> QED  BY <2>1 DEF ReadInv
<1>5. CASE IngressEvent \/ (\E k \in Key : RequeueAfter(k))
    <2>1. queue' # {}
        BY <1>5 DEF IngressEvent, RequeueAfter
    <2> QED  BY <2>1 DEF ReadInv
<1>6. CASE Resync \/ MissEvent \/ (\E n \in NodeName : ChangeNode(n))
            \/ (\E i \in IngressName : ChangeIngress(i)) \/ UNCHANGED vars
    <2>1. UNCHANGED <<workVars, nodeCache, ingressCache>> /\ queue \subseteq queue'
        BY <1>6 DEF Resync, MissEvent, ChangeNode, ChangeIngress, vars, cacheVars, queueVars
    <2> QED  BY <2>1 DEF ReadInv, workVars, ListedSoFar, LabelledNow, Listed
<1> QED  BY <1>1, <1>2, <1>3, <1>4, <1>5, <1>6 DEF Next, Worker, World

(***************************************************************************)
(* What Sync is told to do.                                                *)
(***************************************************************************)
LEMMA JoinedElements ==
    ASSUME NEW T, NEW a \in Seq(T), NEW b \in Seq(T)
    PROVE  a \o b \in Seq(T) /\ ToSet(a \o b) = ToSet(a) \cup ToSet(b)
<1>1. /\ a \o b \in Seq(T) /\ Len(a \o b) = Len(a) + Len(b)
      /\ Len(a) \in Nat /\ Len(b) \in Nat
    OBVIOUS
<1>2. \A i \in 1..Len(a) : i \in 1..(Len(a) + Len(b)) /\ (a \o b)[i] = a[i]
    OBVIOUS
<1>3. ASSUME NEW i \in 1..Len(b)
      PROVE  Len(a) + i \in 1..(Len(a) + Len(b)) /\ (a \o b)[Len(a) + i] = b[i]
    OBVIOUS
<1>4. ASSUME NEW i \in 1..(Len(a) + Len(b)), i \notin 1..Len(a)
      PROVE  i - Len(a) \in 1..Len(b) /\ (a \o b)[i] = b[i - Len(a)]
    BY <1>4
<1>5. /\ DOMAIN a = 1..Len(a) /\ DOMAIN b = 1..Len(b)
      /\ DOMAIN (a \o b) = 1..(Len(a) + Len(b))
    BY <1>1
<1>6. ToSet(a \o b) \subseteq ToSet(a) \cup ToSet(b)
    BY <1>2, <1>4, <1>5 DEF ToSet
<1>7. ToSet(a) \subseteq ToSet(a \o b)
    BY <1>2, <1>5 DEF ToSet
<1>8. ToSet(b) \subseteq ToSet(a \o b)
    BY <1>3, <1>5 DEF ToSet
<1> QED  BY <1>1, <1>6, <1>7, <1>8

LEMMA MapIsSeq ==
    ASSUME NEW T, NEW n \in Nat, NEW f \in [1..n -> T]
    PROVE  f \in Seq(T)
OBVIOUS

IngressWork(d) ==
    {ServedWork(d.IngressNodes[i], WithSuffix(d.Aliases, i - 1)) : i \in 1..Len(d.IngressNodes)}

WorkSet(d) ==
    IngressWork(d) \cup {ServedWork(x, {}) : x \in ToSet(d.StaleAliasNodes)}
    \cup {SetWork(x, x.LandbSet) : x \in ToSet(d.LandbSetNodes)}
    \cup {SetWork(x, <<>>) : x \in ToSet(d.StaleLandbSetNodes)}

\* The loops of Sync have each element of the lists to do.
LEMMA SyncWorkIs ==
    ASSUME NEW names, NEW infos, NEW objects, NEW d, ListsFrom(d, names, infos, objects)
    PROVE  SyncWork(d) \in Seq(WorkSet(d)) /\ ToSet(SyncWork(d)) = WorkSet(d)
<1> DEFINE W == WorkSet(d)
           p == [i \in 1..Len(d.IngressNodes) |->
                    ServedWork(d.IngressNodes[i], WithSuffix(d.Aliases, i - 1))]
           q == [i \in 1..Len(d.StaleAliasNodes) |-> ServedWork(d.StaleAliasNodes[i], {})]
           r == [i \in 1..Len(d.LandbSetNodes) |->
                    SetWork(d.LandbSetNodes[i], d.LandbSetNodes[i].LandbSet)]
           s == [i \in 1..Len(d.StaleLandbSetNodes) |-> SetWork(d.StaleLandbSetNodes[i], <<>>)]
<1> HIDE DEF W
<1>1. /\ d.IngressNodes \in Seq(infos) /\ d.StaleAliasNodes \in Seq(Infos(objects))
      /\ d.LandbSetNodes \in Seq(Infos(objects)) /\ d.StaleLandbSetNodes \in Seq(Infos(objects))
    BY DEF ListsFrom
<1>2. ToSet(p) = IngressWork(d) /\ p \in Seq(W)
    <2>1. Len(d.IngressNodes) \in Nat
        BY <1>1
    <2>2. ToSet(p) = IngressWork(d)
        BY DEF ToSet, IngressWork
    <2>3. \A i \in 1..Len(d.IngressNodes) : p[i] \in W
        BY DEF WorkSet, IngressWork, W
    <2>4. p \in Seq(W)
        <3>1. p \in [1..Len(d.IngressNodes) -> W]
            BY <2>3
        <3> QED  BY <2>1, <3>1, MapIsSeq
    <2> QED  BY <2>2, <2>4
<1>3. ToSet(q) = {ServedWork(x, {}) : x \in ToSet(d.StaleAliasNodes)} /\ q \in Seq(W)
    <2>1. Len(d.StaleAliasNodes) \in Nat /\ DOMAIN d.StaleAliasNodes = 1..Len(d.StaleAliasNodes)
        BY <1>1
    <2>2. ToSet(q) = {ServedWork(x, {}) : x \in ToSet(d.StaleAliasNodes)}
        BY <2>1 DEF ToSet
    <2>3. \A i \in 1..Len(d.StaleAliasNodes) : q[i] \in ToSet(q)
        BY DEF ToSet
    <2>4. \A i \in 1..Len(d.StaleAliasNodes) : q[i] \in W
        BY <2>2, <2>3 DEF WorkSet, W
    <2>5. q \in Seq(W)
        <3>1. q \in [1..Len(d.StaleAliasNodes) -> W]
            BY <2>4
        <3> QED  BY <2>1, <3>1, MapIsSeq
    <2> QED  BY <2>2, <2>5
<1>4. ToSet(r) = {SetWork(x, x.LandbSet) : x \in ToSet(d.LandbSetNodes)} /\ r \in Seq(W)
    <2>1. Len(d.LandbSetNodes) \in Nat /\ DOMAIN d.LandbSetNodes = 1..Len(d.LandbSetNodes)
        BY <1>1
    <2>2. ToSet(r) = {SetWork(x, x.LandbSet) : x \in ToSet(d.LandbSetNodes)}
        BY <2>1 DEF ToSet
    <2>3. \A i \in 1..Len(d.LandbSetNodes) : r[i] \in ToSet(r)
        BY DEF ToSet
    <2>4. \A i \in 1..Len(d.LandbSetNodes) : r[i] \in W
        BY <2>2, <2>3 DEF WorkSet, W
    <2>5. r \in Seq(W)
        <3>1. r \in [1..Len(d.LandbSetNodes) -> W]
            BY <2>4
        <3> QED  BY <2>1, <3>1, MapIsSeq
    <2> QED  BY <2>2, <2>5
<1>5. ToSet(s) = {SetWork(x, <<>>) : x \in ToSet(d.StaleLandbSetNodes)} /\ s \in Seq(W)
    <2>1. /\ Len(d.StaleLandbSetNodes) \in Nat
          /\ DOMAIN d.StaleLandbSetNodes = 1..Len(d.StaleLandbSetNodes)
        BY <1>1
    <2>2. ToSet(s) = {SetWork(x, <<>>) : x \in ToSet(d.StaleLandbSetNodes)}
        BY <2>1 DEF ToSet
    <2>3. \A i \in 1..Len(d.StaleLandbSetNodes) : s[i] \in ToSet(s)
        BY DEF ToSet
    <2>4. \A i \in 1..Len(d.StaleLandbSetNodes) : s[i] \in W
        BY <2>2, <2>3 DEF WorkSet, W
    <2>5. s \in Seq(W)
        <3>1. s \in [1..Len(d.StaleLandbSetNodes) -> W]
            BY <2>4
        <3> QED  BY <2>1, <3>1, MapIsSeq
    <2> QED  BY <2>2, <2>5
<1> DEFINE pq == p \o q
           pqr == pq \o r
<1>6. SyncWork(d) = pqr \o s
    BY DEF SyncWork
<1> HIDE DEF p, q, r, s
<1>7. pq \in Seq(W) /\ ToSet(pq) = ToSet(p) \cup ToSet(q)
    BY <1>2, <1>3, JoinedElements
<1> HIDE DEF pq
<1>8. pqr \in Seq(W) /\ ToSet(pqr) = ToSet(p) \cup ToSet(q) \cup ToSet(r)
    BY <1>4, <1>7, JoinedElements
<1> HIDE DEF pqr
<1>9. /\ pqr \o s \in Seq(W)
      /\ ToSet(pqr \o s) = ToSet(p) \cup ToSet(q) \cup ToSet(r) \cup ToSet(s)
    BY <1>5, <1>8, JoinedElements
<1>10. ToSet(p) \cup ToSet(q) \cup ToSet(r) \cup ToSet(s) = W
    BY <1>2, <1>3, <1>4, <1>5 DEF W, WorkSet
<1> QED  BY <1>6, <1>9, <1>10 DEF W

InfosFor(M, objects) == {nodeInfoFromNode(n, objects[n]) : n \in M}

CountBelow(M, n) == Cardinality({m \in M : NameRank[m] < NameRank[n]})

\* The suffix a node gets is the number of ingress nodes before it by name.
LEMMA IndexIsCount ==
    ASSUME NEW M \in SUBSET NodeName, NEW objects,
           NEW infos, infos = InfosFor(M, objects),
           NEW k \in 1..Cardinality(infos)
    PROVE  /\ SortByName(infos)[k].Name \in M
           /\ CountBelow(M, SortByName(infos)[k].Name) = k - 1
<1> DEFINE n == SortByName(infos)[k].Name
           below == {info \in infos : NameRank[info.Name] < NameRank[n]}
           names == {m \in M : NameRank[m] < NameRank[n]}
           f == [info \in below |-> info.Name]
<1>1. /\ \A info \in infos : info.Name \in M /\ info = nodeInfoFromNode(info.Name, objects[info.Name])
      /\ \A m \in M : nodeInfoFromNode(m, objects[m]) \in infos
                      /\ nodeInfoFromNode(m, objects[m]).Name = m
    BY DEF nodeInfoFromNode, InfosFor
<1>2. OfNodes(infos) /\ OnePerName(infos)
    BY <1>1 DEF OfNodes, OnePerName
<1>3. /\ IsFiniteSet(infos) /\ SortByName(infos) \in Seq(infos)
      /\ Len(SortByName(infos)) = Cardinality(infos)
      /\ Cardinality(below) = k - 1
    <2>1. PlacesAreCounts(infos)
        BY <1>2, SortByNameIs
    <2>2. Cardinality(below) = k - 1
        BY <2>1 DEF PlacesAreCounts
    <2>3. /\ IsFiniteSet(infos) /\ SortByName(infos) \in Seq(infos)
          /\ Len(SortByName(infos)) = Cardinality(infos)
        BY <1>2, SortByNameIs
    <2> QED  BY <2>2, <2>3
<1>4. n \in M
    BY <1>1, <1>3
<1> HIDE DEF n
<1>5. f \in Bijection(below, names)
    <2>1. f \in [below -> names]
        BY <1>1
    <2>2. \A a, b \in below : f[a] = f[b] => a = b
        BY <1>2 DEF OnePerName
    <2>3. ASSUME NEW m \in names PROVE \E info \in below : f[info] = m
        <3>1. nodeInfoFromNode(m, objects[m]) \in below /\ nodeInfoFromNode(m, objects[m]).Name = m
            BY <1>1
        <3> QED  BY <3>1
    <2> QED  BY <2>1, <2>2, <2>3, FS_Bijection DEF Bijection, Injection, Surjection, IsInjective
<1>6. IsFiniteSet(below)
    BY <1>3, FS_Subset
<1> HIDE DEF below, names, f
<1>7. Cardinality(names) = Cardinality(below)
    BY <1>5, <1>6, FS_Bijection DEF ExistsBijection
<1> QED  BY <1>3, <1>4, <1>7 DEF names, n, CountBelow

\* Sync is told, for each node of the cluster, what the objects say.
WorkFits(work, n, objects, rules) ==
    /\ \A w \in work : w.node = n =>
        w.value = IF w.part = "served" THEN ServedIn(n, objects, rules) ELSE SetIn(n, objects)
    /\ \E w \in work : w.node = n /\ w.part = "served"
    /\ \E w \in work : w.node = n /\ w.part # "served"

LEMMA ToldRight ==
    ASSUME NEW objects, NEW rules,
           NEW M, M = IngressMembers(objects), NEW infos, infos = InfosFor(M, objects),
           NEW d, d = MakeDesired(listAliases(rules), infos, listAllNodes(objects)),
           NEW n \in Existing(objects)
    PROVE  /\ ListsFrom(d, listAliases(rules), infos, objects)
           /\ WorkFits(WorkSet(d), n, objects, rules)
<1> DEFINE names == listAliases(rules)
           x == nodeInfoFromNode(n, objects[n])
           count == CountBelow(M, n)
<1>0. M \in SUBSET NodeName /\ \A m \in M : hasIngressLabel(objects[m]) /\ isNodeReady(objects[m])
    BY DEF IngressMembers
<1>1. /\ \A info \in infos : info.Name \in M
      /\ \A m \in M : \E info \in infos : info.Name = m
      /\ OfNodes(infos) /\ OnePerName(infos)
    <2>1. ASSUME NEW info \in infos
          PROVE  info.Name \in M /\ info = nodeInfoFromNode(info.Name, objects[info.Name])
        BY DEF nodeInfoFromNode, InfosFor
    <2>2. ASSUME NEW m \in M
          PROVE  \E info \in infos : info.Name = m
        <3>1. nodeInfoFromNode(m, objects[m]) \in infos /\ nodeInfoFromNode(m, objects[m]).Name = m
            BY DEF nodeInfoFromNode, InfosFor
        <3> QED  BY <3>1
    <2>3. OfNodes(infos) /\ OnePerName(infos)
        BY <1>0, <2>1 DEF OfNodes, OnePerName
    <2> QED  BY <2>1, <2>2, <2>3
<1>2. ListsFrom(d, names, infos, objects)
    BY <1>1, ListsAre
<1>3. /\ d.Aliases = names /\ d.IngressNodes = SortByName(infos)
      /\ d.IngressNodes \in Seq(infos) /\ ToSet(d.IngressNodes) = infos
      /\ ToSet(d.StaleAliasNodes) =
            {y \in Infos(objects) : y.Name \notin {z.Name : z \in infos}}
      /\ ToSet(d.LandbSetNodes) = {y \in Infos(objects) : HasActiveSet(y)}
      /\ ToSet(d.StaleLandbSetNodes) = {y \in Infos(objects) : ~HasActiveSet(y)}
    BY <1>2 DEF ListsFrom
<1>4. Len(d.IngressNodes) = Cardinality(infos)
    BY <1>1, <1>3, SortByNameIs
<1>5. /\ x \in Infos(objects) /\ x.Name = n /\ x.Ready = isNodeReady(objects[n])
      /\ x.LandbSet = nodeLandbSet(objects[n])
      /\ \A y \in Infos(objects) : y.Name = n => y = x
    BY DEF Infos, nodeInfoFromNode
<1>6. n \in M => ServedIn(n, objects, rules) = WithSuffix(names, count)
    BY DEF ServedIn, CountBelow
<1>7. n \notin M => ServedIn(n, objects, rules) = {}
    BY DEF ServedIn
<1>8. HasActiveSet(x) => SetIn(n, objects) = x.LandbSet
    BY <1>5 DEF HasActiveSet, SetIn
<1>9. ~HasActiveSet(x) => SetIn(n, objects) = <<>>
    BY <1>5 DEF HasActiveSet, SetIn
<1> DEFINE indexed == {ServedWork(d.IngressNodes[i], WithSuffix(d.Aliases, i - 1)) :
                            i \in 1..Len(d.IngressNodes)}
           cleaned == {ServedWork(y, {}) : y \in ToSet(d.StaleAliasNodes)}
           setting == {SetWork(y, y.LandbSet) : y \in ToSet(d.LandbSetNodes)}
           unset == {SetWork(y, <<>>) : y \in ToSet(d.StaleLandbSetNodes)}
<1>10. WorkSet(d) = indexed \cup cleaned \cup setting \cup unset
    BY DEF WorkSet, IngressWork
<1>11. ASSUME NEW w \in indexed, w.node = n
       PROVE  w.part = "served" /\ w.value = ServedIn(n, objects, rules)
    <2>1. PICK i \in 1..Len(d.IngressNodes) :
            w = ServedWork(d.IngressNodes[i], WithSuffix(d.Aliases, i - 1))
        BY <1>11
    <2>2. d.IngressNodes[i].Name = n /\ w.part = "served" /\ w.value = WithSuffix(names, i - 1)
        BY <1>3, <1>11, <2>1 DEF ServedWork
    <2>3. n \in M /\ i - 1 = count
        <3>1. i \in 1..Cardinality(infos) /\ SortByName(infos)[i].Name = n
            BY <1>3, <1>4, <2>2
        <3>2. /\ SortByName(infos)[i].Name \in M
              /\ CountBelow(M, SortByName(infos)[i].Name) = i - 1
            BY <1>0, <3>1, IndexIsCount
        <3> QED  BY <3>1, <3>2
    <2> QED  BY <1>6, <2>2, <2>3
<1>12. ASSUME NEW w \in cleaned, w.node = n
       PROVE  w.part = "served" /\ w.value = ServedIn(n, objects, rules)
    <2>1. PICK y \in ToSet(d.StaleAliasNodes) : w = ServedWork(y, {})
        BY <1>12
    <2>2. y.Name = n /\ w.part = "served" /\ w.value = {}
        BY <1>12, <2>1 DEF ServedWork
    <2>3. n \notin M
        BY <1>1, <1>3, <2>1, <2>2
    <2> QED  BY <1>7, <2>2, <2>3
<1>13. ASSUME NEW w \in setting, w.node = n
       PROVE  w.part # "served" /\ w.value = SetIn(n, objects)
    <2>1. PICK y \in ToSet(d.LandbSetNodes) : w = SetWork(y, y.LandbSet)
        BY <1>13
    <2>2. y.Name = n /\ w.part # "served" /\ w.value = y.LandbSet
        BY <1>13, <2>1 DEF SetWork
    <2> QED  BY <1>3, <1>5, <1>8, <2>1, <2>2
<1>14. ASSUME NEW w \in unset, w.node = n
       PROVE  w.part # "served" /\ w.value = SetIn(n, objects)
    <2>1. PICK y \in ToSet(d.StaleLandbSetNodes) : w = SetWork(y, <<>>)
        BY <1>14
    <2>2. y.Name = n /\ w.part # "served" /\ w.value = <<>>
        BY <1>14, <2>1 DEF SetWork
    <2> QED  BY <1>3, <1>5, <1>9, <2>1, <2>2
<1>15. \E w \in indexed \cup cleaned : w.node = n /\ w.part = "served"
    <2>1. CASE n \in M
        <3>1. PICK info \in ToSet(d.IngressNodes) : info.Name = n
            BY <1>1, <1>3, <2>1
        <3>2. PICK i \in 1..Len(d.IngressNodes) : d.IngressNodes[i] = info
            <4>1. DOMAIN d.IngressNodes = 1..Len(d.IngressNodes)
                BY <1>3
            <4> QED  BY <3>1, <4>1 DEF ToSet
        <3> DEFINE w == ServedWork(d.IngressNodes[i], WithSuffix(d.Aliases, i - 1))
        <3>3. w \in indexed /\ w.node = n /\ w.part = "served"
            BY <3>1, <3>2 DEF ServedWork
        <3> HIDE DEF w, indexed, cleaned
        <3> QED  BY <3>3
    <2>2. CASE n \notin M
        <3>1. x \in ToSet(d.StaleAliasNodes)
            BY <1>1, <1>3, <1>5, <2>2
        <3> DEFINE w == ServedWork(x, {})
        <3>2. w \in cleaned /\ w.node = n /\ w.part = "served"
            BY <1>5, <3>1 DEF ServedWork
        <3> HIDE DEF w, indexed, cleaned, setting, unset
        <3> QED  BY <3>2
    <2> QED  BY <2>1, <2>2
<1>16. \E w \in setting \cup unset : w.node = n /\ w.part # "served"
    <2>1. CASE HasActiveSet(x)
        <3> DEFINE w == SetWork(x, x.LandbSet)
        <3>1. w \in setting /\ w.node = n /\ w.part # "served"
            BY <1>5, <1>3, <2>1 DEF SetWork
        <3> HIDE DEF w, indexed, cleaned, setting, unset
        <3> QED  BY <3>1
    <2>2. CASE ~HasActiveSet(x)
        <3> DEFINE w == SetWork(x, <<>>)
        <3>1. w \in unset /\ w.node = n /\ w.part # "served"
            BY <1>5, <1>3, <2>2 DEF SetWork
        <3> HIDE DEF w, indexed, cleaned, setting, unset
        <3> QED  BY <3>1
    <2> QED  BY <2>1, <2>2
<1> HIDE DEF indexed, cleaned, setting, unset
<1> QED  BY <1>2, <1>10, <1>11, <1>12, <1>13, <1>14, <1>15, <1>16 DEF WorkFits

(***************************************************************************)
(* What Sync has still to do.                                              *)
(***************************************************************************)
LEMMA HeadAndTail ==
    ASSUME NEW T, NEW q \in Seq(T), q # <<>>
    PROVE  Tail(q) \in Seq(T) /\ ToSet(q) = {Head(q)} \cup ToSet(Tail(q))
<1>1. /\ Tail(q) \in Seq(T) /\ Len(Tail(q)) = Len(q) - 1 /\ Len(q) \in Nat /\ Len(q) > 0
      /\ DOMAIN q = 1..Len(q) /\ DOMAIN Tail(q) = 1..(Len(q) - 1) /\ Head(q) = q[1]
    OBVIOUS
<1>2. ASSUME NEW i \in 1..(Len(q) - 1)
      PROVE  i + 1 \in 1..Len(q) /\ Tail(q)[i] = q[i + 1]
    OBVIOUS
<1>3. ASSUME NEW i \in 1..Len(q), i # 1
      PROVE  i - 1 \in 1..(Len(q) - 1) /\ q[i] = Tail(q)[i - 1]
    BY <1>3
<1>4. 1 \in 1..Len(q)
    BY <1>1
<1>5. ToSet(q) \subseteq {Head(q)} \cup ToSet(Tail(q))
    <2>1. ASSUME NEW i \in 1..Len(q), i # 1
          PROVE  q[i] \in ToSet(Tail(q))
        <3>1. i - 1 \in DOMAIN Tail(q) /\ q[i] = Tail(q)[i - 1]
            BY <1>1, <1>3, <2>1
        <3> QED  BY <3>1 DEF ToSet
    <2> QED  BY <1>1, <2>1 DEF ToSet
<1>6. {Head(q)} \cup ToSet(Tail(q)) \subseteq ToSet(q)
    BY <1>1, <1>2, <1>4 DEF ToSet
<1> QED  BY <1>1, <1>5, <1>6

\* A node that does not fail leaves nothing behind.
LEMMA NodeSynced ==
    ASSUME WorkInv, SyncNode, UNCHANGED <<nodeCache, ingressCache>>,
           NEW n \in NodeName, WorkRight(n)
    PROVE  WorkRight(n)'
<1> DEFINE w == Head(todo)
           Value(x) == IF x.part = "served" THEN ServedIn(n, nodeCache, ingressCache)
                                            ELSE SetIn(n, nodeCache)
<1>1. todo' = Tail(todo) /\ ToSet(todo) = {w} \cup ToSet(todo')
    <2>1. PICK W : todo \in Seq(W)
        BY DEF WorkInv
    <2> QED  BY <2>1, HeadAndTail DEF SyncNode
<1>2. /\ \A x \in ToSet(todo) : x.node = n => x.value = Value(x)
      /\ \/ served[n] = ServedIn(n, nodeCache, ingressCache)
         \/ \E x \in ToSet(todo) : x.node = n /\ x.part = "served"
      /\ \/ set[n] = SetIn(n, nodeCache)
         \/ \E x \in ToSet(todo) : x.node = n /\ x.part # "served"
    BY DEF WorkRight
<1>3. Reach(w) /\ DOMAIN served = NodeName /\ DOMAIN set = NodeName
    BY DEF SyncNode, WorkInv
<1> HIDE DEF w
<1>4. w.node = n => w.value = Value(w)
    BY <1>1, <1>2
<1>5. \/ served'[n] = ServedIn(n, nodeCache, ingressCache)
      \/ \E x \in ToSet(todo') : x.node = n /\ x.part = "served"
    <2>1. CASE w.part = "served" /\ w.node = n
        BY <1>3, <1>4, <2>1 DEF Reach
    <2>2. CASE ~(w.part = "served" /\ w.node = n)
        <3>1. served'[n] = served[n]
            BY <1>3, <2>2 DEF Reach
        <3> QED  BY <1>1, <1>2, <2>2, <3>1
    <2> QED  BY <2>1, <2>2
<1>6. \/ set'[n] = SetIn(n, nodeCache)
      \/ \E x \in ToSet(todo') : x.node = n /\ x.part # "served"
    <2>1. CASE w.part # "served" /\ w.node = n
        BY <1>3, <1>4, <2>1 DEF Reach
    <2>2. CASE ~(w.part # "served" /\ w.node = n)
        <3>1. set'[n] = set[n]
            BY <1>3, <2>2 DEF Reach
        <3> QED  BY <1>1, <1>2, <2>2, <3>1
    <2> QED  BY <2>1, <2>2
<1> QED  BY <1>1, <1>2, <1>5, <1>6 DEF WorkRight

\* Sync is called with what was read, and nothing has changed since.
LEMMA WorkBegins ==
    ASSUME TypeInv, SteadyInv, ReadInv, WorkInv, ListAllNodes
    PROVE  WorkInv'
<1>1. /\ pc = "allNodes" /\ pc' = "sync" /\ todo' = SyncWork(desired')
      /\ desired' = MakeDesired(aliases, found, listAllNodes(nodeCache))
      /\ UNCHANGED <<served, set, nodeCache, ingressCache, queue, overlooked>>
    BY DEF ListAllNodes, BeginSync, cacheVars, queueVars
<1>2. OfNodes(found) /\ OnePerName(found)
    BY DEF TypeInv, TypeOK, OfNodes, NodeInfo, SteadyInv
<1>3. ASSUME queue = {}
      PROVE  found = InfosFor(IngressMembers(nodeCache), nodeCache) /\ aliases = listAliases(ingressCache)
    <2>1. /\ aliases = listAliases(ingressCache) /\ seen = LabelledNow
          /\ found = InfosOf(seen, nodeCache)
        BY <1>1, <1>3 DEF ReadInv, InfosOf
    <2>2. IngressMembers(nodeCache) = {m \in LabelledNow : isNodeReady(nodeCache[m])}
        BY DEF IngressMembers, LabelledNow
    <2> QED  BY <2>1, <2>2 DEF InfosOf, InfosFor
<1>4. ToSet(todo') = WorkSet(desired') /\ todo' \in Seq(WorkSet(desired'))
    <2>1. ListsFrom(desired', aliases, found, nodeCache)
        BY <1>1, <1>2, ListsAre
    <2> QED  BY <1>1, <2>1, SyncWorkIs
<1>5. ASSUME queue = {}, NEW n \in Tracked
      PROVE  WorkFits(ToSet(todo'), n, nodeCache, ingressCache)
    <2>1. /\ found = InfosFor(IngressMembers(nodeCache), nodeCache)
          /\ desired' = MakeDesired(listAliases(ingressCache), found, listAllNodes(nodeCache))
        BY <1>1, <1>3, <1>5
    <2>2. n \in Existing(nodeCache)
        BY DEF Tracked
    <2> QED  BY <1>4, <2>1, <2>2, ToldRight
<1>6. queue = {} => \A n \in Tracked : WorkRight(n)'
    BY <1>1, <1>5 DEF WorkFits, WorkRight
<1>7. Tracked' = Tracked
    BY <1>1 DEF Tracked, Existing
<1> QED  BY <1>1, <1>4, <1>6, <1>7 DEF WorkInv, Undisturbed

\* An event that puts no key in the queue changes nothing for the nodes it does
\* not overlook.
LEMMA WorkUndisturbed ==
    ASSUME TypeInv, WorkInv, NodeEvent
    PROVE  WorkInv'
<1>1. UNCHANGED <<served, set, todo, syncFailed, pc, delayed, ingressCache>>
    BY DEF NodeEvent, syncVars, workVars
<1> SUFFICES ASSUME Undisturbed', NEW n \in Tracked'
             PROVE  WorkRight(n)'
    BY <1>1 DEF WorkInv
<1>2. queue' = {}
    BY DEF Undisturbed
<1>3. /\ queue = {} /\ SameIngress(nodeCache, nodeCache')
      /\ n \in Tracked /\ SetIn(n, nodeCache') = SetIn(n, nodeCache)
    BY <1>2, QuietEvent
<1>4. WorkRight(n)
    BY <1>1, <1>3 DEF WorkInv, Undisturbed
<1>5. ServedIn(n, nodeCache', ingressCache) = ServedIn(n, nodeCache, ingressCache)
    BY <1>3, SameMembers DEF ServedIn
<1> QED  BY <1>1, <1>3, <1>4, <1>5 DEF WorkRight

\* A process that starts has no key in its queue only if every node is overlooked.
LEMMA NothingAtStart ==
    ASSUME NEW objects, NEW rules, KeysAtStart(objects, rules) = {}
    PROVE  Existing(objects) \subseteq NotWatchedAtStart(objects)
<1> SUFFICES ASSUME NEW n \in NodeName, objects[n] # Absent
             PROVE  NotWatched(Absent, objects[n])
    BY DEF Existing, NotWatchedAtStart
<1>1. ~EventAccepted(Absent, objects[n])
    BY DEF KeysAtStart
<1>2. ~hasIngressLabel(Absent) /\ ~hasIngressLabel(objects[n]) /\ ~hasLandbMetadata(objects[n])
    BY <1>1 DEF EventAccepted, ingressPredicate, landbMetadataPredicate
<1> QED  BY <1>2 DEF NotWatched

\* A failure changes no other part of the metadata.
LEMMA PartsKept ==
    ASSUME DOMAIN served = NodeName, DOMAIN set = NodeName, NEW w, Reach(w) \/ LeaveBetween(w)
    PROVE  DOMAIN served' = NodeName /\ DOMAIN set' = NodeName
BY DEF Reach, LeaveBetween

LEMMA WorkStep ==
    ASSUME TypeInv, SteadyInv, ReadInv, WorkInv, [Next]_vars
    PROVE  WorkInv'
<1>1. CASE Reconcile \/ ListAliases \/ ListIngressNodes
    <2>1. UNCHANGED syncVars /\ pc' \notin {"sync", "idle"}
        BY <1>1 DEF Reconcile, ListAliases, ListIngressNodes
    <2> QED  BY <2>1 DEF WorkInv, Undisturbed, syncVars
<1>2. CASE ListAllNodes
    BY <1>2, WorkBegins
<1>3. CASE ListFails
    <2>1. UNCHANGED syncVars /\ pc' = "idle" /\ delayed' # {}
        BY <1>3 DEF ListFails, WorkDone
    <2> QED  BY <2>1 DEF WorkInv, Undisturbed, syncVars
<1>4. CASE SyncStep
    <2>1. /\ todo # <<>> /\ todo' = Tail(todo) /\ pc = "sync"
          /\ UNCHANGED <<pc, queue, delayed, nodeCache, ingressCache, overlooked>>
        BY <1>4 DEF SyncStep, SyncNode, SyncNodeFails, workVars, cacheVars, queueVars
    <2>2. \E W : todo' \in Seq(W)
        BY <2>1, HeadAndTail DEF WorkInv
    <2>3. DOMAIN served' = NodeName /\ DOMAIN set' = NodeName
        BY <1>4, PartsKept DEF WorkInv, SyncStep, SyncNode, SyncNodeFails
    <2>4. CASE SyncNode
        <3>1. syncFailed' = syncFailed /\ Tracked' = Tracked /\ Tracked \subseteq NodeName
            BY <2>1, <2>4 DEF SyncNode, Tracked, Existing
        <3>2. Undisturbed' => Undisturbed
            BY <2>1, <3>1 DEF Undisturbed
        <3>3. \A n \in Tracked : WorkRight(n) => WorkRight(n)'
            BY <2>1, <2>4, <3>1, NodeSynced
        <3> QED  BY <2>2, <2>3, <3>1, <3>2, <3>3 DEF WorkInv
    <2>5. CASE SyncNodeFails
        BY <2>1, <2>2, <2>3, <2>5 DEF SyncNodeFails, WorkInv, Undisturbed
    <2> QED  BY <1>4, <2>4, <2>5 DEF SyncStep
<1>5. CASE SyncReturns
    <2>1. /\ UNCHANGED <<served, set, todo, nodeCache, ingressCache, queue, overlooked>>
          /\ pc = "sync" /\ pc' = "idle" /\ (syncFailed => delayed' # {})
        BY <1>5 DEF SyncReturns, WorkDone, cacheVars
    <2>2. Undisturbed' => Undisturbed
        BY <2>1, <1>5 DEF Undisturbed, TypeInv, SyncReturns
    <2> QED  BY <2>1, <2>2 DEF WorkInv, WorkRight, Tracked, Existing
<1>6. CASE NodeEvent
    BY <1>6, WorkUndisturbed
<1>7. CASE IngressEvent \/ (\E k \in Key : RequeueAfter(k))
    <2>1. UNCHANGED syncVars /\ queue' # {}
        BY <1>7 DEF IngressEvent, RequeueAfter
    <2> QED  BY <2>1 DEF WorkInv, Undisturbed, syncVars
<1>8. CASE Resync \/ MissEvent \/ (\E n \in NodeName : ChangeNode(n))
            \/ (\E i \in IngressName : ChangeIngress(i)) \/ UNCHANGED vars
    <2>1. /\ UNCHANGED <<syncVars, pc, delayed, nodeCache, ingressCache, overlooked>>
          /\ queue \subseteq queue'
        BY <1>8 DEF Resync, MissEvent, ChangeNode, ChangeIngress, vars, workVars, cacheVars, queueVars
    <2>2. Undisturbed' => Undisturbed
        BY <2>1 DEF Undisturbed, syncVars
    <2> QED  BY <2>1, <2>2 DEF WorkInv, WorkRight, Tracked, Existing, syncVars
<1>9. CASE Restart
    <2>1. /\ nodeCache' = nodes /\ queue' = KeysAtStart(nodes, ingresses)
          /\ overlooked' = NotWatchedAtStart(nodes) /\ todo' = <<>> /\ SyncAbandoned
        BY <1>9 DEF Restart, SyncAbandoned
    <2>2. DOMAIN served' = NodeName /\ DOMAIN set' = NodeName
        BY <2>1, PartsKept DEF WorkInv, SyncAbandoned
    <2>3. queue' = {} => Tracked' = {}
        BY <2>1, NothingAtStart DEF Tracked
    <2>4. todo' \in Seq({})
        BY <2>1
    <2> QED  BY <2>2, <2>3, <2>4 DEF WorkInv, Undisturbed
<1> QED  BY <1>1, <1>2, <1>3, <1>4, <1>5, <1>6, <1>7, <1>8, <1>9 DEF Next, Worker, World

LEMMA WakeInit == Init => WakeInv
<1> SUFFICES ASSUME Init PROVE WakeInv
    OBVIOUS
<1>1. DeliveryInv
    <2>1. nodeEvents = <<>> /\ ingressEvents = <<>> /\ nodeCache = nodes /\ ingressCache = ingresses
        BY DEF Init
    <2>2. Len(nodeEvents) = 0
        BY <2>1
    <2> QED  BY <2>1, <2>2 DEF DeliveryInv
<1>2. ReadInv
    BY DEF Init, ReadInv
<1>3. WorkInv
    <2>1. nodeCache = nodes /\ queue = KeysAtStart(nodes, ingresses) /\ todo = <<>>
          /\ overlooked = NotWatchedAtStart(nodes)
        BY DEF Init
    <2>2. DOMAIN served = NodeName /\ DOMAIN set = NodeName
        BY ControllerAssumption DEF Init
    <2>3. queue = {} => Tracked = {}
        BY <2>1, NothingAtStart DEF Tracked
    <2>4. todo \in Seq({})
        BY <2>1
    <2> QED  BY <2>2, <2>3, <2>4 DEF WorkInv, Undisturbed
<1> QED  BY <1>1, <1>2, <1>3 DEF WakeInv

\* When everything has settled, the cache is what the API holds.
LEMMA CacheCurrent ==
    ASSUME TypeInv, DeliveryInv, Settled
    PROVE  nodeCache = nodes /\ ingressCache = ingresses
<1>1. Len(nodeEvents) = 0 /\ ingressEvents = <<>>
    BY DEF Settled
<1>2. \A m \in NodeName : nodeCache[m] = nodes[m]
    BY <1>1 DEF DeliveryInv
<1>3. nodeCache \in [NodeName -> Object] /\ nodes \in [NodeName -> Object]
    BY DEF TypeInv, TypeOK
<1> QED  BY <1>1, <1>2, <1>3 DEF DeliveryInv

\* And every node it has is as the cache says.
LEMMA SettledConverged ==
    ASSUME TypeInv, WakeInv
    PROVE  NoLostWakeup
<1> SUFFICES ASSUME Settled, NEW n \in Watched
             PROVE  Converged(n)
    BY DEF NoLostWakeup
<1>1. pc = "idle" /\ queue = {} /\ delayed = {}
    BY DEF Settled
<1>2. nodeCache = nodes /\ ingressCache = ingresses
    BY CacheCurrent DEF WakeInv
<1>3. n \in Tracked
    BY <1>2 DEF Watched, Tracked, Existing
<1>4. WorkRight(n)
    BY <1>1, <1>3 DEF WakeInv, WorkInv, Undisturbed
<1>5. ToSet(todo) = {}
    <2>1. todo = <<>> /\ DOMAIN <<>> = {}
        BY <1>1 DEF TypeInv, TypeOK
    <2> QED  BY <2>1 DEF ToSet
<1>6. served[n] = ServedIn(n, nodes, ingresses) /\ set[n] = SetIn(n, nodes)
    BY <1>2, <1>4, <1>5 DEF WorkRight
<1> QED  BY <1>6 DEF Converged, ServedIn, SetIn, LoadIndex

\* No change is lost, for any number of nodes, Ingress objects and selectors, any
\* delay of the events and any number of changes, failures and crashes: when
\* nothing is left to do, every watched node is as the API has it.
THEOREM NoChangeIsLost == Spec => []NoLostWakeup
<1>1. Init => TypeInv /\ SteadyInv /\ WakeInv
    BY TypeInvInit, WakeInit
    DEF Init, SteadyInv, SteadyNodeSelected, IngressMatches, OnePerName, FoundNames
<1>2. TypeInv /\ SteadyInv /\ WakeInv /\ [Next]_vars => TypeInv' /\ SteadyInv' /\ WakeInv'
    BY TypeInvStep, SteadyInvStep, DeliveryStep, ReadStep, WorkStep DEF WakeInv
<1>3. TypeInv /\ WakeInv => NoLostWakeup
    BY SettledConverged
<1> QED  BY <1>1, <1>2, <1>3, PTL DEF Spec
=============================================================================
