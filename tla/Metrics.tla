------------------------------- MODULE Metrics -------------------------------
(***************************************************************************)
(* metrics/metrics.go, the gauges: runOnce sets them one by one as its     *)
(* lists are read, whether or not it gets to call Sync.  They are in the   *)
(* memory of the process and start at zero.                                *)
(***************************************************************************)
EXTENDS Controller

VARIABLE gauges     \* gauges[g]: the value of g

metricsVars == <<vars, gauges>>

Gauge == {"AliasesDesired", "IngressNodesManaged", "NodesManaged", "AliasCleanupNodes",
          "LandbSetNodesManaged", "LandbSetCleanupNodes"}

Zero == [g \in Gauge |-> 0]

Size(state, nodeCount) ==
    [g \in Gauge |->
        CASE g = "AliasesDesired"       -> Len(state.Aliases)
          [] g = "IngressNodesManaged"  -> Len(state.IngressNodes)
          [] g = "NodesManaged"         -> nodeCount
          [] g = "AliasCleanupNodes"    -> Len(state.StaleAliasNodes)
          [] g = "LandbSetNodesManaged" -> Len(state.LandbSetNodes)
          [] g = "LandbSetCleanupNodes" -> Len(state.StaleLandbSetNodes)]

\* The gauges set between the return of a list and the next call.
ListIngressNodesNoGauge == gauges' = gauges                         \* mutant

AfterListIngressNodes == gauges' = [gauges EXCEPT !["IngressNodesManaged"] = Cardinality(found')]

AfterListAliases ==
    gauges' = [gauges EXCEPT !["AliasesDesired"] = Len(aliases'),
                             !["IngressNodesManaged"] = IF pc' = "allNodes" THEN 0 ELSE @]

AfterListAllNodes ==
    LET size == Size(desired', Len(listAllNodes(nodeCache)))
    IN  gauges' = [g \in Gauge |-> IF g \in {"AliasesDesired", "IngressNodesManaged"}
                                   THEN gauges[g] ELSE size[g]]

MetricsInit == Init /\ gauges = Zero

MetricsNext ==
    \/ ListAliases /\ AfterListAliases
    \/ ListIngressNodes
         /\ IF pc' = "allNodes" THEN AfterListIngressNodes ELSE UNCHANGED gauges
    \/ ListAllNodes /\ AfterListAllNodes
    \/ Restart /\ gauges' = Zero
    \/ /\ \/ Reconcile \/ ListFails \/ SyncStep \/ SyncReturns \/ NodeEvent \/ IngressEvent
          \/ MissEvent \/ Resync \/ (\E k \in Key : RequeueAfter(k))
          \/ (\E n \in NodeName : ChangeNode(n)) \/ (\E i \in IngressName : ChangeIngress(i))
       /\ UNCHANGED gauges

MetricsSpec == MetricsInit /\ [][MetricsNext]_metricsVars

-----------------------------------------------------------------------------
Declaring == {n \in NodeName : nodes[n] # Absent /\ isNodeReady(nodes[n])
                                    /\ nodeLandbSet(nodes[n]) # <<>>}

\* Although the gauges are set one by one, from caches that change in between
\* and by reconciliations that fail halfway, those that count what the cluster
\* wants are right when nothing is left to do: the aliases, the Ready ingress
\* nodes, the Ready nodes that declare a landb-set.  (The others count nodes
\* too that no event is watched for.)
GaugesCurrent ==
    Settled /\ overlooked = {} =>
        /\ gauges["AliasesDesired"] = Len(listAliases(ingresses))
        /\ gauges["IngressNodesManaged"] = Cardinality(IngressMembers(nodes))
        /\ gauges["LandbSetNodesManaged"] = Cardinality(Declaring)
=============================================================================
