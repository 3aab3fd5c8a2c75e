----------------------------- MODULE Controller -----------------------------
(***************************************************************************)
(* controller/controller.go and the watches set up in main.go: from the    *)
(* objects in Kubernetes to calls of Provider.Sync.                        *)
(*                                                                         *)
(* The Kubernetes API, the informers' caches and the work queue are        *)
(* controller-runtime's, modelled as the code uses them: events reach a    *)
(* cache later than the change, in order for each kind of object; an event *)
(* that passes the predicates adds a key to the queue; one worker takes    *)
(* the keys and calls Reconcile, which ignores the key.  Reconcile reads   *)
(* the caches with several List calls, between which they may change.      *)
(*                                                                         *)
(* The process may crash at any time: the caches and the queue are lost,   *)
(* and the next process starts from what the API holds then.               *)
(***************************************************************************)
EXTENDS DesiredState, ProviderContract

CONSTANTS
    IngressName,        \* names of Ingress objects
    NodeObject,         \* contents Node objects may have
    InitialNodes,       \* what the API may hold at the start: Node objects,
    InitialIngresses,   \*   Ingress objects,
    InitialServed,      \*   and what the servers may have
    InitialSet,
    HostSets,           \* hosts an Ingress object may have
    Budgets             \* bounds: how many changes of API objects, failures of a node
                        \* or a list call, and crashes a behaviour may have

ASSUME ControllerAssumption ==
    /\ InitialNodes \subseteq [NodeName -> NodeObject \cup {Absent}]
    /\ \A o \in NodeObject : \A map \in {o.labels, o.annotations} :
        landbSetKey \in DOMAIN map => map[landbSetKey] \in Seq(STRING)
    /\ InitialServed \subseteq [NodeName -> SUBSET [alias : AliasName, load : Nat]]
    /\ InitialSet \subseteq [NodeName -> Seq(STRING)]
    /\ IsFiniteSet(IngressName) /\ \A s \in HostSets : IsFiniteSet(s) /\ s \subseteq Host
    /\ InitialIngresses \subseteq UNION {[names -> HostSets] : names \in SUBSET IngressName}
    /\ Budgets \subseteq [changes : Nat, faults : Nat, crashes : Nat]

VARIABLES
    \* The Kubernetes API.
    nodes,          \* nodes[n]: the Node object, or Absent
    ingresses,      \* ingresses[i]: the hosts of the Ingress object, for those that exist
    \* The informers.
    nodeEvents,     \* changes of Node objects not yet seen, oldest first
    ingressEvents,
    nodeCache, ingressCache,
    \* The work queue.
    queue,          \* keys waiting for the worker
    delayed,        \* keys that a timer will add to the queue (RequeueAfter)
    \* The worker.
    key,            \* the key being reconciled
    pc,             \* the next step of runOnce, or "idle"
    aliases,        \* result of listAliases
    selector,       \* index of the next selector listIngressNodes lists
    seen, found,    \* nodes it has seen; the NodeInfos of those that were Ready
    desired,        \* the DesiredState passed to Sync
    \* Bounds and observations: they never guard a step of the program.
    changes, faults, crashes,   \* how many may still come
    overlooked,     \* nodes with a change that no predicate is meant to select
    steady          \* nodes that were Ready ingress nodes ever since runOnce began

apiVars == <<nodes, ingresses>>
cacheVars == <<nodeEvents, ingressEvents, nodeCache, ingressCache>>
queueVars == <<queue, delayed>>
workVars == <<key, pc, aliases, selector, seen, found, desired>>
bounds == <<faults, changes, crashes>>
vars == <<apiVars, cacheVars, queueVars, workVars, syncVars, bounds, overlooked, steady>>

NodeKey == "landb-alias-reconcile"
NoKey == "none"
Key == IngressName \cup {NodeKey}

NothingDesired ==
    [Aliases |-> <<>>, IngressNodes |-> <<>>, StaleAliasNodes |-> <<>>,
     LandbSetNodes |-> <<>>, StaleLandbSetNodes |-> <<>>]

IngressMembers(objects) ==
    {n \in NodeName : hasIngressLabel(objects[n]) /\ isNodeReady(objects[n])}

\* The changes that reach no reconciliation by design: a new Node object that
\* has neither an ingress label nor a landb.cern.ch/ key, and a Ready condition
\* that changes on a node without an ingress label.
NotWatched(old, new) ==
    /\ new # Absent /\ ~hasIngressLabel(old) /\ ~hasIngressLabel(new)
    /\ IF old = Absent THEN ~hasLandbMetadata(new) ELSE old.ready # new.ready

(***************************************************************************)
(* A process starts: the informers list everything, and each object listed *)
(* is a Create event.                                                      *)
(***************************************************************************)
KeysAtStart(objects, rules) ==
    DOMAIN rules \cup
    {k \in {NodeKey} : \E n \in NodeName : objects[n] # Absent /\ EventAccepted(Absent, objects[n])}

NotWatchedAtStart(objects) == {n \in NodeName : NotWatched(Absent, objects[n])}

Init ==
    /\ nodes \in InitialNodes /\ ingresses \in InitialIngresses
    /\ served \in InitialServed /\ set \in InitialSet
    /\ todo = <<>> /\ syncFailed = FALSE
    /\ nodeEvents = <<>> /\ ingressEvents = <<>>
    /\ nodeCache = nodes /\ ingressCache = ingresses
    /\ queue = KeysAtStart(nodes, ingresses) /\ delayed = {}
    /\ key = NoKey /\ pc = "idle" /\ aliases = <<>>
    /\ selector = 1 /\ seen = {} /\ found = {} /\ desired = NothingDesired
    /\ \E b \in Budgets : faults = b.faults /\ changes = b.changes /\ crashes = b.crashes
    /\ overlooked = NotWatchedAtStart(nodes) /\ steady = {}

(***************************************************************************)
(* Users change objects.                                                   *)
(***************************************************************************)
ChangeNode(n) ==
    /\ changes > 0 /\ changes' = changes - 1
    /\ \E object \in (NodeObject \cup {Absent}) \ {nodes[n]} :
        /\ nodes' = [nodes EXCEPT ![n] = object]
        /\ nodeEvents' = Append(nodeEvents, [name |-> n, object |-> object])
    /\ UNCHANGED <<ingresses, ingressEvents, nodeCache, ingressCache, queueVars, workVars,
                   syncVars, faults, crashes, overlooked, steady>>

\* An Ingress object is created, changed or deleted.
ChangeIngress(i) ==
    /\ changes > 0 /\ changes' = changes - 1
    /\ \/ \E hosts \in HostSets :
            /\ i \in DOMAIN ingresses => hosts # ingresses[i]
            /\ ingresses' = [j \in DOMAIN ingresses \cup {i} |-> IF j = i THEN hosts ELSE ingresses[j]]
       \/ /\ i \in DOMAIN ingresses
          /\ ingresses' = Restrict(ingresses, DOMAIN ingresses \ {i})
    /\ ingressEvents' = Append(ingressEvents, [name |-> i, objects |-> ingresses'])
    /\ UNCHANGED <<nodes, nodeEvents, nodeCache, ingressCache, queueVars, workVars,
                   syncVars, faults, crashes, overlooked, steady>>

(***************************************************************************)
(* The informers.                                                          *)
(***************************************************************************)
\* Pairs of a Ready node and the selector it matches; 0 stands for any.
IngressMatches(objects) ==
    {m \in NodeName \X (0..Len(IngressNodeLabels)) :
        /\ hasIngressLabel(objects[m[1]]) /\ isNodeReady(objects[m[1]])
        /\ m[2] # 0 => Matches(IngressNodeLabels[m[2]], objects[m[1]].labels)}

NodeEvent ==
    /\ nodeEvents # <<>> /\ nodeEvents' = Tail(nodeEvents)
    /\ LET name == Head(nodeEvents).name
           old  == nodeCache[name]
           new  == Head(nodeEvents).object
       IN  /\ nodeCache' = [nodeCache EXCEPT ![name] = new]
           /\ queue' = IF old # new /\ EventAccepted(old, new) THEN queue \cup {NodeKey} ELSE queue
           /\ overlooked' = overlooked \cup {n \in {name} : NotWatched(old, new)}
    /\ steady' = steady \cap IngressMatches(nodeCache')
    /\ UNCHANGED <<apiVars, ingressEvents, ingressCache, delayed, workVars, syncVars, bounds>>

\* The watch is interrupted: of several changes of an object the last is seen.
MissEvent ==
    /\ \E i, j \in DOMAIN nodeEvents :
        /\ i < j /\ nodeEvents[i].name = nodeEvents[j].name
        /\ nodeEvents' = RemoveAt(nodeEvents, i)
    /\ UNCHANGED <<apiVars, ingressEvents, nodeCache, ingressCache, queueVars, workVars, syncVars,
                   bounds, overlooked, steady>>

IngressEvent ==
    /\ ingressEvents # <<>> /\ ingressEvents' = Tail(ingressEvents)
    /\ ingressCache' = Head(ingressEvents).objects
    /\ queue' = queue \cup {Head(ingressEvents).name}
    /\ UNCHANGED <<apiVars, nodeEvents, nodeCache, delayed, workVars, syncVars, bounds,
                   overlooked, steady>>

\* Every ten hours each cached object is an Update event without a change.
Resync ==
    /\ queue' = queue \cup DOMAIN ingressCache
                      \cup {k \in {NodeKey} : \E n \in NodeName :
                                nodeCache[n] # Absent /\ EventAccepted(nodeCache[n], nodeCache[n])}
    /\ UNCHANGED <<apiVars, cacheVars, delayed, workVars, syncVars, bounds, overlooked, steady>>

(***************************************************************************)
(* The worker: Reconcile and runOnce, one List call at a time.             *)
(***************************************************************************)
Reconcile ==
    /\ pc = "idle" /\ pc' = "aliases"
    /\ \E k \in queue : key' = k /\ queue' = queue \ {k}
    /\ overlooked' = {} /\ steady' = IngressMatches(nodeCache)
    /\ UNCHANGED <<apiVars, cacheVars, delayed, aliases, selector, seen, found, desired,
                   syncVars, bounds>>

ListAliases ==
    /\ pc = "aliases"
    /\ pc' = IF IngressNodeLabels = <<>> THEN "allNodes" ELSE "ingressNodes"
    /\ aliases' = listAliases(ingressCache)
    /\ UNCHANGED <<apiVars, cacheVars, queueVars, key, selector, seen, found, desired, syncVars,
                   bounds, overlooked, steady>>

\* One iteration of the loop of listIngressNodes.
Listed(sel) ==
    {n \in NodeName : nodeCache[n] # Absent /\ Matches(sel, nodeCache[n].labels)}

NewlyListedTwice == Listed(IngressNodeLabels[selector])             \* mutant

NewlyListed == Listed(IngressNodeLabels[selector]) \ seen

LastSelectorTooEarly == selector + 1 >= Len(IngressNodeLabels)      \* mutant

LastSelector == selector = Len(IngressNodeLabels)

ListIngressNodes ==
    /\ pc = "ingressNodes"
    /\ seen' = seen \cup Listed(IngressNodeLabels[selector])
    /\ found' = found \cup {nodeInfoFromNode(n, nodeCache[n]) :
                                n \in {m \in NewlyListed : isNodeReady(nodeCache[m])}}
    /\ selector' = selector + 1
    /\ pc' = IF LastSelector THEN "allNodes" ELSE "ingressNodes"
    /\ UNCHANGED <<apiVars, cacheVars, queueVars, key, aliases, desired, syncVars, bounds,
                   overlooked, steady>>

\* listAllNodes, then Sync is called with what the four lists make.
MakeDesired(names, ingressInfos, allNodes) ==
    LET ingressNodes == SortByName(ingressInfos)
        split        == splitLandbSetNodes(allNodes)
    IN  [Aliases |-> names, IngressNodes |-> ingressNodes,
         StaleAliasNodes |-> buildStaleAliasNodes(allNodes, ingressNodes),
         LandbSetNodes |-> split[1], StaleLandbSetNodes |-> split[2]]

ListAllNodes ==
    /\ pc = "allNodes" /\ pc' = "sync"
    /\ \E allNodes \in {listAllNodes(nodeCache)} : desired' = MakeDesired(aliases, found, allNodes)
    /\ BeginSync(desired')
    /\ UNCHANGED <<apiVars, cacheVars, queueVars, key, aliases, selector, seen, found, bounds,
                   overlooked, steady>>

\* runOnce returns to Reconcile: an error is retried after requeueDelay.
WorkDoneKeepsNodes ==                                               \* mutant
    /\ key' = NoKey /\ pc' = "idle" /\ aliases' = <<>>
    /\ selector' = 1 /\ desired' = NothingDesired
    /\ steady' = {}
    /\ UNCHANGED <<seen, found>>

WorkDone ==
    /\ key' = NoKey /\ pc' = "idle" /\ aliases' = <<>>
    /\ selector' = 1 /\ seen' = {} /\ found' = {} /\ desired' = NothingDesired
    /\ steady' = {}

ListFails ==
    /\ pc \in {"aliases", "ingressNodes", "allNodes"}
    /\ faults > 0 /\ faults' = faults - 1
    /\ delayed' = delayed \cup {key}
    /\ WorkDone
    /\ UNCHANGED <<apiVars, cacheVars, queue, syncVars, changes, crashes, overlooked>>

SyncStep ==
    /\ pc = "sync"
    /\ \/ SyncNode /\ UNCHANGED faults
       \/ SyncNodeFails /\ faults > 0 /\ faults' = faults - 1
    /\ UNCHANGED <<apiVars, cacheVars, queueVars, workVars, changes, crashes, overlooked, steady>>

SyncReturnsWithoutRetry ==                                          \* mutant
    /\ pc = "sync" /\ todo = <<>>
    /\ syncFailed' = FALSE
    /\ WorkDone
    /\ UNCHANGED <<apiVars, cacheVars, queueVars, served, set, todo, bounds, overlooked>>

SyncReturns ==
    /\ pc = "sync" /\ todo = <<>>
    /\ delayed' = IF syncFailed THEN delayed \cup {key} ELSE delayed
    /\ syncFailed' = FALSE
    /\ WorkDone
    /\ UNCHANGED <<apiVars, cacheVars, queue, served, set, todo, bounds, overlooked>>

RequeueAfter(k) ==
    /\ k \in delayed
    /\ delayed' = delayed \ {k} /\ queue' = queue \cup {k}
    /\ UNCHANGED <<apiVars, cacheVars, workVars, syncVars, bounds, overlooked, steady>>

\* The process stops, perhaps in the middle of a Sync, and another one starts.
Restart ==
    /\ crashes > 0 /\ crashes' = crashes - 1
    /\ nodeEvents' = <<>> /\ ingressEvents' = <<>>
    /\ nodeCache' = nodes /\ ingressCache' = ingresses
    /\ queue' = KeysAtStart(nodes, ingresses) /\ delayed' = {}
    /\ overlooked' = NotWatchedAtStart(nodes)
    /\ WorkDone /\ SyncAbandoned
    /\ UNCHANGED <<apiVars, faults, changes>>

-----------------------------------------------------------------------------
Worker ==
    Reconcile \/ ListAliases \/ ListIngressNodes \/ ListAllNodes \/ ListFails
    \/ SyncStep \/ SyncReturns

World ==
    \/ \E n \in NodeName : ChangeNode(n)
    \/ \E i \in IngressName : ChangeIngress(i)
    \/ MissEvent \/ Resync \/ Restart

Next == Worker \/ NodeEvent \/ IngressEvent \/ (\E k \in Key : RequeueAfter(k)) \/ World

Spec == Init /\ [][Next]_vars

\* The informers keep up with the API, the worker goes on as long as it has
\* work, and timers fire.
FairSpec ==
    /\ Spec
    /\ WF_vars(NodeEvent) /\ WF_vars(IngressEvent) /\ WF_vars(Worker)
    /\ \A k \in Key : WF_vars(RequeueAfter(k))

-----------------------------------------------------------------------------
(***************************************************************************)
(* Properties.                                                             *)
(***************************************************************************)
Object == NodeObject \cup {Absent}
NodeInfo == [Name : NodeName, Ready : BOOLEAN, LandbSet : {nodeLandbSet(o) : o \in NodeObject}]

\* Every variable keeps its type, and what runOnce has collected is there only
\* while it runs: nothing of one reconciliation is left for the next.
TypeOK ==
    /\ nodes \in [NodeName -> Object] /\ nodeCache \in [NodeName -> Object]
    /\ \A cache \in {ingresses, ingressCache} :
        DOMAIN cache \subseteq IngressName /\ \A i \in DOMAIN cache : cache[i] \in HostSets
    /\ \A i \in DOMAIN nodeEvents :
        nodeEvents[i].name \in NodeName /\ nodeEvents[i].object \in Object
    /\ queue \subseteq Key /\ delayed \subseteq Key
    /\ pc \in {"idle", "aliases", "ingressNodes", "allNodes", "sync"}
    /\ IF pc = "idle" THEN key = NoKey ELSE key \in Key
    /\ pc = "idle" => /\ aliases = <<>> /\ selector = 1 /\ seen = {} /\ found = {}
                      /\ desired = NothingDesired /\ todo = <<>> /\ ~syncFailed
    /\ pc = "ingressNodes" => selector \in DOMAIN IngressNodeLabels
    /\ seen \subseteq NodeName /\ found \subseteq NodeInfo
    /\ todo # <<>> => pc = "sync"

\* What the metadata of n's server should be, given the objects in the API.
LoadIndex(n) ==
    Cardinality({m \in IngressMembers(nodes) : NameRank[m] < NameRank[n]})

Converged(n) ==
    /\ served[n] = IF n \in IngressMembers(nodes)
                   THEN WithSuffix(listAliases(ingresses), LoadIndex(n)) ELSE {}
    /\ set[n] = IF isNodeReady(nodes[n]) THEN nodeLandbSet(nodes[n]) ELSE <<>>

Settled ==
    pc = "idle" /\ queue = {} /\ delayed = {} /\ nodeEvents = <<>> /\ ingressEvents = <<>>

Watched == {n \in NodeName : nodes[n] # Absent} \ overlooked

\* No change is lost.  When nothing is left to do, every node of the cluster is
\* as the API has it, whatever changed while runOnce was reading or Sync was
\* writing, whatever failed, and wherever the process stopped; but for the
\* nodes with a change that the predicates of main.go do not select.
NoLostWakeup == Settled => \A n \in Watched : Converged(n)

NamesOnce(list) == \A i, j \in DOMAIN list : list[i].Name = list[j].Name => i = j

InNameOrder(list) ==
    \A i, j \in DOMAIN list : i < j => NameRank[list[i].Name] < NameRank[list[j].Name]

PromisesKept(d) ==
    LET Ingress == d.IngressNodes  StaleAlias == d.StaleAliasNodes
        WithSet == d.LandbSetNodes StaleSet   == d.StaleLandbSetNodes
    IN  /\ IsInjective(d.Aliases)
        /\ \A list \in {Ingress, StaleAlias, WithSet, StaleSet} : NamesOnce(list) /\ InNameOrder(list)
        /\ Names(Ingress) \cap Names(StaleAlias) = {} /\ Names(WithSet) \cap Names(StaleSet) = {}
        /\ Names(WithSet) \cup Names(StaleSet) \subseteq Names(Ingress) \cup Names(StaleAlias)
        /\ \A i \in DOMAIN Ingress : Ingress[i].Ready
        /\ \A i \in DOMAIN WithSet :
            /\ WithSet[i].Ready /\ WithSet[i].LandbSet # <<>>
            /\ Blank \notin ToSet(WithSet[i].LandbSet) /\ IsInjective(WithSet[i].LandbSet)

\* Even when the cache changes between the List calls, the DesiredState keeps
\* its promises to the provider: no alias is listed twice; a node is in each
\* list once, in order of name, so that the suffixes are distinct; no node is
\* both to serve and to be cleaned; those with a landb-set are Ready and declare
\* one, without blanks or repetitions (provider.go).
DesiredStateOK == PromisesKept(desired)

\* A node that has been a Ready node with one and the same ingress label ever
\* since runOnce began is among the ingress nodes, and so keeps its aliases.
SteadyNodeSelected ==
    pc = "sync" => \A m \in steady : m[2] # 0 => m[1] \in Names(desired.IngressNodes)

\* The same for a node that always had some ingress label ("A node is selected
\* if it carries any of the configured ingress labels.", listIngressNodes).
LabelledNodeSelected ==
    pc = "sync" => \A m \in steady : m[1] \in Names(desired.IngressNodes)

\* "Node is NotReady or has no Ready condition | Remove stale landb-set
\* metadata" (README.md), for every node, ingress node or not.
NotReadyHasNoSet ==
    Settled => \A n \in NodeName :
        nodes[n] # Absent /\ ~isNodeReady(nodes[n]) => set[n] = <<>>

\* Once nobody changes objects any more and failures and crashes have stopped,
\* the watched nodes get to what the API has and stay so.
EventuallyConverged == <>[](\A n \in Watched : Converged(n))
=============================================================================
