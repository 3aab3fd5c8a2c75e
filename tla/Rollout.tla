------------------------------- MODULE Rollout -------------------------------
(***************************************************************************)
(* A rolling update of the Deployment: the new process starts while the    *)
(* old one still runs.  main.go makes a manager without leader election,   *)
(* so both reconcile, on the same servers; then the old one is stopped,    *)
(* wherever it is.                                                         *)
(*                                                                         *)
(* The new process is Controller.  Of the old one only its Syncs matter:   *)
(* each works on the DesiredState of some earlier moment, node by node,    *)
(* between the steps of the new process.                                   *)
(***************************************************************************)
EXTENDS Controller

VARIABLES
    oldRuns,        \* the old process has not been stopped
    oldTodo         \* what its Sync has still to do

oldVars == <<oldRuns, oldTodo>>
rolloutVars == <<vars, oldVars>>

\* What runOnce passes to Sync when no object changes meanwhile.
DesiredNow ==
    MakeDesired(listAliases(ingresses),
                {nodeInfoFromNode(n, nodes[n]) : n \in IngressMembers(nodes)},
                listAllNodes(nodes))

RolloutInit == Init /\ oldRuns = TRUE /\ oldTodo = <<>>

OldReconciles ==
    /\ oldRuns /\ oldTodo = <<>>
    /\ oldTodo' = SyncWork(DesiredNow)
    /\ UNCHANGED <<vars, oldRuns>>

OldSyncsNode ==
    /\ oldTodo # <<>> /\ oldTodo' = Tail(oldTodo)
    /\ Reach(Head(oldTodo))
    /\ UNCHANGED <<apiVars, cacheVars, queueVars, workVars, todo, syncFailed, bounds,
                   overlooked, steady, oldRuns>>

\* SIGTERM: the context of the Sync is cancelled, between two calls or in one.
OldStops ==
    /\ oldRuns /\ oldRuns' = FALSE /\ oldTodo' = <<>>
    /\ IF oldTodo = <<>> THEN UNCHANGED <<served, set>> ELSE LeaveBetween(Head(oldTodo))
    /\ UNCHANGED <<apiVars, cacheVars, queueVars, workVars, todo, syncFailed, bounds,
                   overlooked, steady>>

Old == OldReconciles \/ OldSyncsNode \/ OldStops

RolloutNext == (Next /\ UNCHANGED oldVars) \/ Old

RolloutSpec == RolloutInit /\ [][RolloutNext]_rolloutVars

\* The Deployment stops the old process at last.  The resync of the informers
\* comes every ten hours.
FairRolloutSpec ==
    /\ RolloutSpec
    /\ WF_rolloutVars(NodeEvent /\ UNCHANGED oldVars)
    /\ WF_rolloutVars(IngressEvent /\ UNCHANGED oldVars)
    /\ WF_rolloutVars(Worker /\ UNCHANGED oldVars)
    /\ \A k \in Key : WF_rolloutVars(RequeueAfter(k) /\ UNCHANGED oldVars)
    /\ WF_rolloutVars(Resync /\ UNCHANGED oldVars)
    /\ WF_rolloutVars(OldStops)

-----------------------------------------------------------------------------
\* The resync reaches the worker: it repeats Ingress objects, and Node objects
\* with an ingress label.
ResyncReaches ==
    DOMAIN ingresses # {} \/ \E n \in NodeName : hasIngressLabel(nodes[n])

\* The old process may undo what the new one did, from a state before the last
\* change, and no event tells the new one: NoLostWakeup does not hold here.  But
\* the next resync repairs it, without a further change of an object, as long as
\* there is an Ingress object or a node with an ingress label to resync.
RolloutRepaired ==
    <>[]ResyncReaches => <>[](\A n \in Watched : Converged(n))
=============================================================================
