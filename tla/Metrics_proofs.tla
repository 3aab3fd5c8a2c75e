---------------------------- MODULE Metrics_proofs ----------------------------
(***************************************************************************)
(* Proof about Metrics: when nothing is left to do, the gauges that count  *)
(* what the cluster wants are right.                                       *)
(*                                                                         *)
(* Each gauge is set from a list read earlier than the others.  As long as *)
(* no key has come into the queue, an event that no predicate selects      *)
(* changes no list that a gauge counts; from the call that sets it on, a   *)
(* gauge is the size of what the cache holds (GaugesInv), whether or not   *)
(* the calls after it fail.                                                *)
(***************************************************************************)
EXTENDS Metrics, Controller_proofs

Declares(objects) ==
    {n \in NodeName : objects[n] # Absent /\ isNodeReady(objects[n])
                                          /\ nodeLandbSet(objects[n]) # <<>>}

AtRest == pc = "idle" /\ delayed = {}

GaugesInv ==
    /\ DOMAIN gauges = Gauge
    /\ queue = {} /\ (AtRest \/ pc \in {"ingressNodes", "allNodes", "sync"}) =>
        gauges["AliasesDesired"] = Len(listAliases(ingressCache))
    /\ queue = {} /\ (AtRest \/ pc \in {"allNodes", "sync"}) =>
        gauges["IngressNodesManaged"] = Cardinality(IngressMembers(nodeCache))
    /\ queue = {} /\ (AtRest \/ pc = "sync") /\ overlooked = {} =>
        gauges["LandbSetNodesManaged"] = Cardinality(Declares(nodeCache))

(***************************************************************************)
(* The lists have as many elements as there are nodes to count.            *)
(***************************************************************************)
LEMMA NoRulesNoAliases ==
    ASSUME NEW rules, DOMAIN rules = {}
    PROVE  Len(listAliases(rules)) = 0
<1>1. {AliasOf[h] : h \in UNION {rules[i] : i \in DOMAIN rules}} \ {NoAlias} = {}
    OBVIOUS
<1>2. Len(SortBy({}, AliasRank)) = Cardinality({})
    <2>1. Ranked({}, AliasRank)
        BY FS_EmptySet DEF Ranked
    <2> QED  BY <2>1, SortByIs
<1> QED  BY <1>1, <1>2, FS_EmptySet DEF listAliases

LEMMA InfosCount ==
    ASSUME NEW M \in SUBSET NodeName, NEW objects
    PROVE  Cardinality(InfosFor(M, objects)) = Cardinality(M)
<1> DEFINE infos == InfosFor(M, objects)
           f == [n \in M |-> nodeInfoFromNode(n, objects[n])]
<1>1. IsFiniteSet(M)
    BY DesiredStateAssumption, FS_Subset
<1>2. \A n \in M : f[n] \in infos /\ f[n].Name = n
    BY DEF InfosFor, nodeInfoFromNode
<1>3. \A info \in infos : \E n \in M : f[n] = info
    BY DEF InfosFor
<1> HIDE DEF infos
<1>4. f \in [M -> infos]
    BY <1>2
<1>5. \A m, n \in M : f[m] = f[n] => m = n
    BY <1>2
<1> HIDE DEF f
<1>6. f \in Bijection(M, infos)
    BY <1>3, <1>4, <1>5 DEF Bijection, Injection, Surjection, IsInjective
<1> QED  BY <1>1, <1>6, FS_Bijection DEF ExistsBijection, infos

LEMMA DeclaringCount ==
    ASSUME NEW names, NEW infos, OfNodes(infos), OnePerName(infos), NEW objects,
           NEW d, d = MakeDesired(names, infos, listAllNodes(objects))
    PROVE  Len(d.LandbSetNodes) = Cardinality(Declares(objects))
<1> DEFINE list == d.LandbSetNodes
<1>1. /\ list \in Seq(Infos(objects)) /\ NameOrdered(list)
      /\ ToSet(list) = {x \in Infos(objects) : HasActiveSet(x)}
    <2>1. ListsFrom(d, names, infos, objects)
        BY ListsAre
    <2> QED  BY <2>1 DEF ListsFrom
<1>2. ToSet(list) = InfosFor(Declares(objects), objects)
    BY <1>1 DEF Infos, Existing, HasActiveSet, nodeInfoFromNode, InfosFor, Declares
<1>3. IsInjective(list)
    <2>1. OfNodes(Infos(objects))
        BY AllNodesAre
    <2>2. \A i, j \in DOMAIN list : list[i].Name = list[j].Name => i = j
        BY <1>1, <2>1, OrderedOnce
    <2> QED  BY <2>2 DEF IsInjective
<1> HIDE DEF list
<1>4. Cardinality(ToSet(list)) = Len(list)
    BY <1>1, <1>3, LengthIsCount
<1>5. Declares(objects) \in SUBSET NodeName
    BY DEF Declares
<1> QED  BY <1>2, <1>4, <1>5, InfosCount DEF list

(***************************************************************************)
(* The events.                                                             *)
(***************************************************************************)

\* An event that puts no key in the queue and overlooks no node leaves the
\* nodes that declare a landb-set as they are.
LEMMA QuietDeclares ==
    ASSUME TypeInv, NodeEvent, queue' = {}, overlooked' = {}
    PROVE  Declares(nodeCache') = Declares(nodeCache)
<1> DEFINE name == Head(nodeEvents).name
           old == nodeCache[name]
           new == Head(nodeEvents).object
<1>1. /\ nodeCache' = [nodeCache EXCEPT ![name] = new]
      /\ queue' = IF old # new /\ EventAccepted(old, new) THEN queue \cup {NodeKey} ELSE queue
    BY DEF NodeEvent
<1>2. old = new \/ ~EventAccepted(old, new)
    BY <1>1
<1>3. \A n \in NodeName : nodeCache'[n] = IF n = name THEN new ELSE nodeCache[n]
    BY <1>1 DEF TypeInv, TypeOK
<1> HIDE DEF name, new
<1>4. ASSUME NEW n \in NodeName, nodeCache'[n] # Absent
      PROVE  n \in Declares(nodeCache') <=> n \in Declares(nodeCache)
    <2>1. n \in Tracked'
        BY <1>4 DEF Tracked, Existing
    <2>2. n \in Tracked /\ SetIn(n, nodeCache') = SetIn(n, nodeCache)
        BY <2>1, QuietEvent
    <2> QED  BY <1>4, <2>2 DEF Tracked, Existing, SetIn, Declares
<1>5. ASSUME NEW n \in NodeName, nodeCache'[n] = Absent
      PROVE  n \notin Declares(nodeCache') /\ n \notin Declares(nodeCache)
    <2>1. CASE n # name \/ old = new
        BY <1>3, <1>5, <2>1 DEF Declares
    <2>2. CASE n = name /\ old # new
        <3>1. new = Absent /\ ~landbMetadataPredicate(old, new)
            BY <1>2, <1>3, <1>5, <2>2 DEF EventAccepted
        <3>2. ~hasLandbMetadata(old) /\ landbSetKey \in LandbKey /\ old # Absent
            BY <2>2, <3>1, DesiredStateAssumption DEF landbMetadataPredicate
        <3>3. landbSetKey \notin DOMAIN old.annotations /\ landbSetKey \notin DOMAIN old.labels
            BY <3>2 DEF hasLandbMetadata
        <3>4. nodeLandbSet(old) = <<>>
            BY <3>3 DEF nodeLandbSet
        <3> QED  BY <1>5, <2>2, <3>4 DEF Declares
    <2> QED  BY <2>1, <2>2
<1> QED  BY <1>4, <1>5 DEF Declares

\* What is found once the last selector has been listed.
LEMMA FoundIsMembers ==
    ASSUME NEW objects, NEW infos,
           infos = InfosOf({n \in NodeName : hasIngressLabel(objects[n])}, objects)
    PROVE  Cardinality(infos) = Cardinality(IngressMembers(objects))
<1>1. infos = InfosFor(IngressMembers(objects), objects)
    BY DEF IngressMembers, InfosOf, InfosFor
<1>2. IngressMembers(objects) \in SUBSET NodeName
    BY DEF IngressMembers
<1> QED  BY <1>1, <1>2, InfosCount

\* A process that starts with no key in the queue has nothing to count.
LEMMA NothingToCount ==
    ASSUME NEW objects, NEW rules, KeysAtStart(objects, rules) = {}
    PROVE  /\ Len(listAliases(rules)) = 0
           /\ Cardinality(IngressMembers(objects)) = 0
           /\ NotWatchedAtStart(objects) = {} => Cardinality(Declares(objects)) = 0
<1>1. Len(listAliases(rules)) = 0
    <2>1. DOMAIN rules = {}
        BY DEF KeysAtStart
    <2> QED  BY <2>1, NoRulesNoAliases
<1>2. Existing(objects) \subseteq NotWatchedAtStart(objects)
    BY NothingAtStart
<1>3. IngressMembers(objects) = {}
    BY <1>2 DEF Existing, NotWatchedAtStart, NotWatched, IngressMembers, hasIngressLabel
<1>4. NotWatchedAtStart(objects) = {} => Declares(objects) = {}
    BY <1>2 DEF Existing, Declares
<1> QED  BY <1>1, <1>3, <1>4, FS_EmptySet

LEMMA GaugesStep ==
    ASSUME TypeInv, SteadyInv, ReadInv', GaugesInv, [MetricsNext]_metricsVars
    PROVE  GaugesInv'
<1>1. queue' = {} /\ pc' = "allNodes" =>
        Cardinality(found') = Cardinality(IngressMembers(nodeCache'))
    <2> SUFFICES ASSUME queue' = {}, pc' = "allNodes"
                 PROVE  Cardinality(found') = Cardinality(IngressMembers(nodeCache'))
        OBVIOUS
    <2>1. seen' = {n \in NodeName : hasIngressLabel(nodeCache'[n])}
        BY DEF ReadInv, LabelledNow
    <2>2. found' = InfosOf(seen', nodeCache')
        BY DEF ReadInv, InfosOf
    <2> QED  BY <2>1, <2>2, FoundIsMembers
<1>2. CASE ListAliases /\ AfterListAliases
    <2>1. /\ aliases' = listAliases(ingressCache) /\ UNCHANGED <<queue, nodeCache, ingressCache>>
          /\ pc' \in {"allNodes", "ingressNodes"} /\ pc = "aliases" /\ found' = {}
        BY <1>2 DEF ListAliases, cacheVars, queueVars, TypeInv
    <2>2. /\ DOMAIN gauges' = Gauge
          /\ gauges'["AliasesDesired"] = Len(listAliases(ingressCache))
          /\ pc' = "allNodes" => gauges'["IngressNodesManaged"] = 0
        BY <1>2, <2>1 DEF AfterListAliases, GaugesInv, Gauge
    <2>3. queue' = {} /\ pc' = "allNodes" => Cardinality(IngressMembers(nodeCache')) = 0
        BY <1>1, <2>1, FS_EmptySet
    <2> QED  BY <2>1, <2>2, <2>3 DEF GaugesInv, AtRest
<1>3. CASE /\ ListIngressNodes
           /\ IF pc' = "allNodes" THEN AfterListIngressNodes ELSE UNCHANGED gauges
    <2>1. /\ UNCHANGED <<queue, nodeCache, ingressCache>>
          /\ pc = "ingressNodes" /\ pc' \in {"allNodes", "ingressNodes"}
        BY <1>3 DEF ListIngressNodes, cacheVars, queueVars
    <2>2. /\ DOMAIN gauges' = Gauge /\ gauges'["AliasesDesired"] = gauges["AliasesDesired"]
          /\ pc' = "allNodes" => gauges'["IngressNodesManaged"] = Cardinality(found')
        BY <1>3 DEF AfterListIngressNodes, GaugesInv, Gauge
    <2> QED  BY <1>1, <2>1, <2>2 DEF GaugesInv, AtRest
<1>4. CASE ListAllNodes /\ AfterListAllNodes
    <2>1. /\ pc = "allNodes" /\ pc' = "sync"
          /\ desired' = MakeDesired(aliases, found, listAllNodes(nodeCache))
          /\ UNCHANGED <<queue, nodeCache, ingressCache, overlooked>>
        BY <1>4 DEF ListAllNodes, cacheVars, queueVars
    <2>2. OfNodes(found) /\ OnePerName(found)
        BY DEF TypeInv, TypeOK, OfNodes, NodeInfo, SteadyInv
    <2>3. Len(desired'.LandbSetNodes) = Cardinality(Declares(nodeCache))
        BY <2>1, <2>2, DeclaringCount
    <2>4. /\ DOMAIN gauges' = Gauge
          /\ gauges'["AliasesDesired"] = gauges["AliasesDesired"]
          /\ gauges'["IngressNodesManaged"] = gauges["IngressNodesManaged"]
          /\ gauges'["LandbSetNodesManaged"] = Len(desired'.LandbSetNodes)
        BY <1>4 DEF AfterListAllNodes, Size, Gauge
    <2> QED  BY <2>1, <2>3, <2>4 DEF GaugesInv, AtRest
<1>5. CASE Restart /\ gauges' = Zero
    <2>1. /\ nodeCache' = nodes /\ ingressCache' = ingresses /\ queue' = KeysAtStart(nodes, ingresses)
          /\ overlooked' = NotWatchedAtStart(nodes)
        BY <1>5 DEF Restart
    <2>2. DOMAIN gauges' = Gauge /\ \A g \in Gauge : gauges'[g] = 0
        BY <1>5 DEF Zero
    <2> QED  BY <2>1, <2>2, NothingToCount DEF GaugesInv, Gauge
<1>6. CASE UNCHANGED gauges /\ (Reconcile \/ ListFails)
    <2>1. pc' = "aliases" \/ (pc' = "idle" /\ delayed' # {})
        BY <1>6 DEF Reconcile, ListFails, WorkDone
    <2> QED  BY <1>6, <2>1 DEF GaugesInv, AtRest
<1>7. CASE UNCHANGED gauges /\ (SyncStep \/ SyncReturns)
    <2>1. /\ pc = "sync" /\ pc' \in {"sync", "idle"}
          /\ UNCHANGED <<queue, nodeCache, ingressCache, overlooked>>
        BY <1>7 DEF SyncStep, SyncReturns, WorkDone, workVars, cacheVars, queueVars
    <2> QED  BY <1>7, <2>1 DEF GaugesInv, AtRest
<1>8. CASE UNCHANGED gauges /\ NodeEvent
    <2>1. UNCHANGED <<pc, delayed, ingressCache>> /\ overlooked \subseteq overlooked'
        BY <1>8 DEF NodeEvent, workVars
    <2>2. queue' = {} => queue = {} /\ IngressMembers(nodeCache') = IngressMembers(nodeCache)
        BY <1>8, QuietEvent, SameMembers
    <2>3. queue' = {} /\ overlooked' = {} => Declares(nodeCache') = Declares(nodeCache)
        BY <1>8, QuietDeclares
    <2> QED  BY <1>8, <2>1, <2>2, <2>3 DEF GaugesInv, AtRest
<1>9. CASE UNCHANGED gauges /\ (IngressEvent \/ (\E k \in Key : RequeueAfter(k)))
    <2>1. queue' # {}
        BY <1>9 DEF IngressEvent, RequeueAfter
    <2> QED  BY <1>9, <2>1 DEF GaugesInv
<1>10. CASE UNCHANGED gauges /\ (MissEvent \/ Resync \/ (\E n \in NodeName : ChangeNode(n))
                                 \/ (\E i \in IngressName : ChangeIngress(i)) \/ UNCHANGED vars)
    <2>1. /\ UNCHANGED <<pc, delayed, nodeCache, ingressCache, overlooked>>
          /\ queue \subseteq queue'
        BY <1>10 DEF MissEvent, Resync, ChangeNode, ChangeIngress, vars, workVars, cacheVars, queueVars
    <2> QED  BY <1>10, <2>1 DEF GaugesInv, AtRest
<1> QED  BY <1>2, <1>3, <1>4, <1>5, <1>6, <1>7, <1>8, <1>9, <1>10 DEF MetricsNext, metricsVars

LEMMA MetricsNextIsNext == [MetricsNext]_metricsVars => [Next]_vars
BY DEF MetricsNext, metricsVars, Next, Worker, World

LEMMA GaugesInit == MetricsInit => GaugesInv
<1> SUFFICES ASSUME MetricsInit PROVE GaugesInv
    OBVIOUS
<1>1. /\ nodeCache = nodes /\ ingressCache = ingresses /\ queue = KeysAtStart(nodes, ingresses)
      /\ overlooked = NotWatchedAtStart(nodes)
    BY DEF MetricsInit, Init
<1>2. DOMAIN gauges = Gauge /\ \A g \in Gauge : gauges[g] = 0
    BY DEF MetricsInit, Zero
<1> QED  BY <1>1, <1>2, NothingToCount DEF GaugesInv, Gauge

\* The gauges of the aliases, of the ingress nodes and of the nodes that declare
\* a landb-set are right when nothing is left to do, though they are set one by
\* one and events, failures and crashes come in between (metrics.go, runOnce).
THEOREM GaugesAreCurrent == MetricsSpec => []GaugesCurrent
<1>1. MetricsInit => TypeInv /\ SteadyInv /\ WakeInv /\ GaugesInv
    BY TypeInvInit, WakeInit, GaugesInit
    DEF MetricsInit, Init, SteadyInv, SteadyNodeSelected, IngressMatches, OnePerName, FoundNames
<1>2. TypeInv /\ SteadyInv /\ WakeInv /\ GaugesInv /\ [MetricsNext]_metricsVars
        => TypeInv' /\ SteadyInv' /\ WakeInv' /\ GaugesInv'
    <2> SUFFICES ASSUME TypeInv, SteadyInv, WakeInv, GaugesInv, [MetricsNext]_metricsVars
                 PROVE  TypeInv' /\ SteadyInv' /\ WakeInv' /\ GaugesInv'
        OBVIOUS
    <2>1. [Next]_vars
        BY MetricsNextIsNext
    <2>2. TypeInv' /\ SteadyInv' /\ WakeInv'
        BY <2>1, TypeInvStep, SteadyInvStep, DeliveryStep, ReadStep, WorkStep DEF WakeInv
    <2>3. GaugesInv'
        BY <2>2, GaugesStep DEF WakeInv
    <2> QED  BY <2>2, <2>3
<1>3. TypeInv /\ WakeInv /\ GaugesInv => GaugesCurrent
    <2> SUFFICES ASSUME TypeInv, WakeInv, GaugesInv, Settled, overlooked = {}
                 PROVE  /\ gauges["AliasesDesired"] = Len(listAliases(ingresses))
                        /\ gauges["IngressNodesManaged"] = Cardinality(IngressMembers(nodes))
                        /\ gauges["LandbSetNodesManaged"] = Cardinality(Declaring)
        BY DEF GaugesCurrent
    <2>1. nodeCache = nodes /\ ingressCache = ingresses
        BY CacheCurrent DEF WakeInv
    <2>2. AtRest /\ queue = {}
        BY DEF Settled, AtRest
    <2>3. Declaring = Declares(nodes)
        BY DEF Declaring, Declares
    <2> QED  BY <2>1, <2>2, <2>3 DEF GaugesInv
<1> QED  BY <1>1, <1>2, <1>3, PTL DEF MetricsSpec
=============================================================================
