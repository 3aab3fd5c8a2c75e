# A verification of landb-alias-controller

The controller watches Ingress and Node objects in Kubernetes and keeps two
kinds of metadata on OpenStack servers in line with them: `landb-alias*`, the
DNS names a node serves, and `landb-set`. This directory holds TLA+ models of
it, TLC configurations that check them on small instances, and TLAPS proofs of
what matters most for every size. File names without a directory are those of
the repository; line numbers refer to the commit this was written against.

## 1. The system

| Component | Source | State it keeps | Operations | Correct when |
|---|---|---|---|---|
| Alias packing | `provider/openstack/alias.go` | none (a loop with a buffer) | `addSuffix`, `packAliases`, `unpackAliases`, `metadataKey` | every alias in exactly one value, no value over the limit, as few keys as possible, independent of order |
| OpenStack provider | `provider/openstack/openstack.go` | server metadata in Nova, the Keystone token | `Sync`, four per-node handlers, four Nova calls, `retryWithReauth` | a node without an error is as desired; a node with one has a reason of its own; served names never vanish halfway; nobody else's keys are touched |
| Provider contract | `provider/provider.go` | none | `DesiredState`, `Provider.Sync` | what the controller and a provider may assume of each other |
| Desired-state computation | `controller/controller.go` | none | `listAliases`, `listIngressNodes`, `listAllNodes`, `buildStaleAliasNodes`, `splitLandbSetNodes`, `nodeLandbSet`, `normalizeLandbSet`, `isNodeReady` | the lists keep the promises of `DesiredState` |
| Reconciliation loop | `controller/controller.go` | none between reconciliations | `Reconcile`, `runOnce` | whatever happens and fails meanwhile, the servers get to what the objects say |
| Watches and predicates | `main.go` | informer caches, work queue (controller-runtime's) | `setupController`, three predicates | every event that matters leads to a reconciliation |
| Start-up, flags | `main.go` | none | `run`, `initProvider`, `buildAuthOptions`, `parseLabels` | never runs with incomplete credentials; gets to run once they are there |
| Cloud config | `provider/openstack/cloudconfig.go` | section and options while it parses | `ReadCloudConfigSecret`, `parseCloudConfig` | reads what the file says and nothing else; accepts nothing the provider rejects |
| Metrics | `metrics/metrics.go` | gauges, counters | set by the others | gauges describe the cluster once nothing is left to do |

**How they interact.** Informers deliver changes to a cache and, through the
predicates, put keys into a work queue. One worker takes a key and calls
`Reconcile`, which ignores which key it is: `runOnce` lists Ingress objects, then
nodes once per selector, then all nodes, each call reading the cache as it is at
that moment; it builds a `DesiredState` and calls `Provider.Sync`. `Sync`
handles node after node, each with three or more calls to Nova, collects the
errors and returns them together. On an error `Reconcile` asks for another run
after 30 s. Nothing is persisted; a restarted process begins with every existing
object as a Create event.

The process gets its OpenStack credentials once, at the start: from `OS_*`
variables, or from the `cloud.conf` of a Secret named by a flag. Those of a
Secret are validated twice, by the parser and by the provider. Any error ends
the process and the kubelet starts it again. There is no leader election, so a
rolling update makes two processes reconcile the same servers for a while.

**What is hard.** Objects change between two List calls and during a Sync. A
Nova call fails before or after it takes effect; a token expires between any two
calls; somebody edits or deletes a server after its metadata was read. One node
fails in the middle of four loops. Adding or removing a node shifts the load
index of all nodes after it, and the tenth node makes every suffix a character
longer, which may need one more key. Events are missed while the process is
down, and merged when a watch is interrupted. A process that is about to be
replaced may undo what its successor has done. A configuration file repeats,
empties and reorders its lines. `PROJECT.json` lists these hazards
line by line with the properties that cover them.

## 2. The modules

| Module | Models | Extends |
|---|---|---|
| `AliasPacking` | `alias.go`, as functions | |
| `PackAliases` | the loop of `packAliases`, one iteration per step | `AliasPacking` |
| `OpenStackProvider` | `Sync`, one Nova call per step | `AliasPacking` |
| `ProviderContract` | what a controller may assume of `Sync`: the abstract specification of a provider | |
| `ProviderRefinement` | that the OpenStack provider keeps the contract | `OpenStackProvider`; instantiates `ProviderContract` |
| `DesiredState` | the stateless functions of `controller.go`, the predicates and `parseLabels` of `main.go` | |
| `Controller` | informers, queue, `runOnce` one List call per step, restart; a provider by its contract | `DesiredState`, `ProviderContract` |
| `Rollout` | two processes during a rolling update | `Controller` |
| `Metrics` | the gauges | `Controller` |
| `Startup` | `run`, `cloudconfig.go`, `validateAuthOptions` | |
| `MC*` | instances for TLC | the module of that name |
| `AliasPacking_proofs`, `PackAliases_proofs`, `OpenStackProvider_proofs`, `ProviderRefinement_proofs`, `DesiredState_proofs`, `Controller_proofs`, `Metrics_proofs`, `Startup_proofs` | theorems | the module of that name; those about a module built on another extend the proofs about that one |

### 2.1 AliasPacking and PackAliases

A metadata value is the sorted, comma-joined list of its aliases, so it is
determined by the set of them; the model's value is that set. Lengths are
constants (`AliasLen`, `SuffixFixedLen` for `--load-` and `-`, `Digits` for the
index), so `Overflows` compares exactly what `alias.go:96` compares, comma
included. `SuffixedRank` is the order of the *suffixed* names, which is not
always that of the base names. A key is a pair, `<<"landb-alias", 0>>` for
`landb-alias` and `<<"landb-alias", 1>>` for `landb-alias2`. Aliases are
distinct, as `listAliases` makes them. `PackAliases` has the same operators in a
loop; `sort.Strings` is there a choice among the sorted permutations, which is a
single one for distinct ranks. `SortSuffixed` picks it by counting, for each
place, the aliases that precede; `PackLoop` is the loop as a recursive function.
Both are written this way, and not with the sorts and folds of the community
modules, because the provers know nothing of those; the theorem
`LoopComputesPackAliases` says that function and loop agree.

### 2.2 OpenStackProvider

The four loops of `Sync` are unrolled into `tasks`; `pos` is the iteration, `pc`
the call about to be made. `getServerID`, `getMetadata`, `updateMetadata`,
`deleteMetadatum` are the calls when they succeed (an ambiguous or unknown name
ends the task). `getMetadata` includes the diff the handler computes from what
it read (`Plan`). `Proceed`, `EndTask` and `CallReturnsError` are the control
flow after a call: only a failed delete lets the task go on. The order of the
deletes is free, as Go's iteration over a map is. `PackingFails` comes before
the first call. A 401 is `token = FALSE`: `Reauthenticate`, then one retry;
`AuthenticationFails` and `RejectedAgain` are the two ways that may end.
`CallFails` fails without effect, `AnswerLost` after the effect. `TokenExpires`,
`ManualEdit` and `ServerDeleted` are the outside world. Three history variables
record what it did; no step of the program depends on them. `touched` holds the
servers edited or deleted since Sync began, `hit` the iterations in which a call
failed, and `raced` the keys that somebody wrote or deleted on the server of the
iteration under way between its being read and its being written, which is when
the plan no longer fits. They say exactly what each property exempts:

- `OnlyOwnedKeysChange` exempts nothing: every write and delete of the program,
  however stale its plan, is of a key the task owns and gives it the value it
  shall have, so that an edit of any other key survives.
- `FailuresExcused` accepts an edit as the reason of a failure only if it was of
  a key about to be deleted, after it was read (Nova then answers 404), and the
  deletion of a server only if the node's name denotes it.
- `AliasNeverDropped` exempts a task only if a key that is to stay was raced in
  it. Then it is false: if somebody takes such a key away after it was read, the
  deletes may remove the last key that serves an alias, which is not served
  again until the next Sync. The program has no means to notice (it reads
  once), and no document promises otherwise.
- `TasksReconciled`, `SuffixRangeContiguous` speak of servers not in `touched`:
  what somebody edits behind the task stays until the next Sync.

### 2.3 DesiredState, ProviderContract and Controller

A Node object is its labels, annotations and Ready status (`""` without a Ready
condition, as in `nodeReadyStatus`). An Ingress object is its set of hosts. A
comma-separated value is the sequence of its trimmed parts, so
`normalizeLandbSet` does to it what the code does. `EventAccepted(old, new)`
stands for the `predicate.Or`; a Create or Delete event is one from or to
`Absent`. The flag `--ingress-node-labels` is a sequence of its comma-separated
parts; `parseLabels` drops the blank ones. `SortBy` is `sort.Slice` and
`sort.Strings`, `Keep` a loop that appends the elements that pass a test; they
are defined here, and not taken from the community modules, so that the proofs
can reason about them.

In `Controller`, `ChangeNode` and `ChangeIngress` change the API, `NodeEvent` and
`IngressEvent` deliver changes to the caches in order for each kind, `MissEvent`
merges events, `Resync` repeats them. `Reconcile`, `ListAliases`,
`ListIngressNodes` (one selector per step), `ListAllNodes` are `runOnce`;
`ListFails` is an error of any list; `SyncStep`s are `ProviderContract`'s;
`SyncReturns` ends the reconciliation and schedules `RequeueAfter` when Sync
failed. `Restart` loses caches, queue and timers and leaves the node Sync was
working on anywhere between old and new.

`ProviderContract` lets a failing node end up with any subset of the old and new
aliases: weaker than what `OpenStackProvider` does, and all the controller needs.
There a server is known by the name of its node; that the name denotes one
server is the provider's business.

### 2.4 ProviderRefinement

`Promise` maps the provider's state to the contract's: a node serves what
`unpackAliases` finds in the metadata of the servers its name denotes
(`ServedBy`), its set is their `landb-set` (`SetOf`), what is left to do are the
iterations from `pos` on (`WorkLeft`), and a Sync has failed once `errs` is not
empty (`NodeFailed`). Under this mapping a write or a delete is the contract's `SyncProgress`,
the end of an iteration its `SyncNode` or `SyncNodeFails`, a read, a login or a
retry a stutter. So what the runs of `Controller` show for the contract holds
with the OpenStack provider behind it. The mapping needs a name to belong to one
node only, and nobody else to edit metadata (`MaxEdits = 0`): the contract says
nothing of servers that change by themselves.

### 2.5 Rollout

`Controller` is the new process. Of the old one only its Syncs are visible:
`OldReconciles` computes the work of one from the objects as they are,
`OldSyncsNode` does it node by node between any two steps of the new process,
however much has changed since, and `OldStops` ends it wherever it is. The old
process reads all lists at one moment and its calls do not fail; `Controller`
has both. `NoLostWakeup` does not hold here, for the old process may put back
what the new one has just replaced, and no event tells it so. What holds is
`RolloutRepaired`.

### 2.6 Startup

A line of a `cloud.conf` is a header, an assignment, noise, or too long for the
scanner. `Unquoted` says what a raw value is without space and quotes,
`GlobalHeaders` which headers are `[Global]` but for the case. `initProvider`
(with `buildAuthOptions`), `ReadCloudConfigSecret`, `ScanLine`, `ScanEnds`,
`validateAuthOptions` and `authenticate` are the steps of `run`; each may end the
process. `CallFails` is an API server or a Keystone that does not answer,
`Restart` the kubelet, `UpdateSecret` an administrator. Keystone accepts
credentials that are complete, unless the call fails.

### 2.7 Metrics

Each gauge is set where `runOnce` sets it: `MetricsNext` is `Controller`'s
next-state relation with the assignment to `gauges` conjoined to its actions. A
gauge is set as soon as its list is known, and when a later list fails it stays
so.

## 3. What is checked

| Run | Instance | States | Shows |
|---|---|---|---|
| `packing` | all ordered lists of up to 5 of 5 aliases, one- and two-digit index, values of up to 23 characters | 3 thousand | `NothingLost`, `ValuesFit`, `KeysMinimal`, `SameForAnyOrder` |
| `provider` | 2 nodes, 3 desired states in any order, 1 fault, 1 foreign edit or deletion, any number of expired tokens | 2.2 million | `TasksReconciled`, `FailuresExcused`, `AliasNeverDropped`, `OnlyOwnedKeysChange`, `NoNeedlessWrite` |
| `provider_digits` | 3 nodes with an index that grows a digit, one name with two servers, 1 fault | 300 thousand | `TasksReconciled`, `FailuresExcused`, `AliasNeverDropped` where the number of keys changes with the index; `SuffixRangeContiguous`; `ImplementsContract` |
| `provider_liveness` | 2 nodes, 1 desired state | 10 thousand | `SyncTerminates` |
| `provider_names` | `n1` without a server, `n10` with one | | `NameResolved` fails (finding 1) |
| `provider_oversize` | one alias too long | | `StaleAliasesRemoved` fails (finding 2) |
| `controller` | 2 nodes, 2 selectors, 1 Ingress; 2 changes, or 1 change, 1 fault and 1 crash | 1.3 million | `NoLostWakeup`, `DesiredStateOK`, `SteadyNodeSelected`, `GaugesCurrent` |
| `controller_liveness` | one start, 5 kinds of Node object; 2 changes, or 1 change, 1 fault and 1 crash | 300 thousand | `EventuallyConverged` |
| `controller_labels` | 1 change | | `LabelledNodeSelected` fails (finding 3) |
| `controller_notready` | 1 change | | `NotReadyHasNoSet` fails (finding 4) |
| `rollout` | one start, 5 kinds of Node object, 1 change, two processes | 85 thousand | `RolloutRepaired` |
| `startup` | four beginnings of a file, each with up to 3 more lines of 12 kinds; all combinations of six variables; wrong flags; 1 update of the Secret, 1 fault, 1 crash | 700 thousand | `OptionsAsWritten`, `ValidatorsAgree`, `CredentialsComplete`, `GetsToRun` |

Each property is stated in words above its definition, and for each
`PROJECT.json` names a plausible bug (an operator marked *mutant*) under which
TLC finds it violated.

**Bounds, and why they are enough.** Two nodes are needed for an index to shift,
three for it to shift across a digit boundary; the numeral base is 2, so that
boundary lies between the second and the third node rather than the tenth and
the eleventh. The limit is small enough that two aliases fit one value with a
short index and not with a long one, and that the third fits none. One fault at
a time suffices for per-node error handling because a task keeps nothing of the
tasks before it but `errs`; the proofs cover any number. One edit reaches every
window between read and write: of a key the plan writes, deletes or leaves
alone, and of a key of another owner. For the controller, one change reaches every
window between two List calls, two changes let it be undone or combined with
another; a fault and a crash can fall anywhere, the crash also between a failed
reconciliation and its retry. `Budgets` names these bounds: a behaviour has one
of its combinations of changes, faults and crashes. Sync may be called again
without limit. In `Startup`, three more lines are enough to leave the section,
contradict an earlier line and come back; as validation looks at which fields
are blank only, two values and a blank one are enough. `MaxEdits`, `MaxFaults`,
`MaxCrashes` and `MaxUpdates` name the other bounds.

**Fairness.** `OpenStackProvider`: `WF(Call)`. Sync is one goroutine that does
nothing but wait for its current call; every call is assumed to return. No
fairness is put on a token staying valid. `Controller`: weak fairness of each
informer (client-go keeps delivering), of the worker (it runs as long as the
queue is not empty) and of the timer of each delayed key. Changes, faults and
crashes have none, nor does `Resync`: convergence does not rely on the ten-hour
resync. `Rollout`: the same for the new process, and `WF(OldStops)`, because a
Deployment does stop the old Pod after its grace period, and `WF(Resync)`, because
here nothing but the resync (controller-runtime's `SyncPeriod`) repairs what the
old process undid.
`Startup`: `WF(Run)`, one goroutine again, and `WF(Restart)`, the kubelet's
restart policy. `GetsToRun` is conditional on a Secret or environment that stays
usable from some moment on.

## 4. What disagrees with its description

1. `NameResolved`: `openstack.go:23` says a name is resolved to *its* server; the
   filter of `openstack.go:536` is a pattern and the answer's name is not compared.
2. `StaleAliasesRemoved`: `README.md:40` says stale aliases are removed from all
   ingress nodes; one oversize alias prevents that on all of them (`openstack.go:253-257`).
3. `LabelledNodeSelected`: `controller.go:240` says any ingress label selects a
   node; one that swaps labels between two List calls is missed, for one
   reconciliation. `SteadyNodeSelected` is what does hold.
4. `NotReadyHasNoSet`: `README.md:74-75` promise to remove `landb-set` from
   NotReady nodes, ingress or not; `main.go:234` ignores the event for the
   others. `NoLostWakeup` therefore excludes the nodes of `NotWatched`. A Node
   object that is deleted and comes back without labels and annotations is the
   same gap (`README.md:73`, `main.go:246`).

## 5. What is proved

For all constants that satisfy the named assumptions (`PackingAssumption`,
`InputsAssumption`, `ProviderAssumption`, `DesiredStateAssumption`,
`ControllerAssumption`, `StartupAssumption`). They say that the ranks that stand
for alphabetical order are distinct, that a cluster has finitely many nodes and
Ingress objects and a rule finitely many hosts, and give the types of the rest.
No theorem assumes anything of a standard operator. Every invariant and every
action property that a passing run checks is a theorem.

### 5.1 Packing

- `AliasPacking_proofs`: `UnpackInvertsPack`, what `packAliases` writes
  `unpackAliases` reads back. It rests on `PackLoop` losing nothing up to each
  index, by induction on the index, and on `SortSuffixed` being a permutation.
- `PackAliases_proofs`: `LoopInvariant`, `TypeCorrect`, `PackingIsLossless`
  (`[]NothingLost`), `ValuesFitTheLimit` (`[]ValuesFit`),
  `LoopComputesPackAliases`, `SameKeysForAnyOrder` (`[]SameForAnyOrder`),
  `KeysAreMinimal` (`[]KeysMinimal`). `LoopInv` adds to types and `NothingLost`
  that the buffer's length is zero exactly when it is empty (else the first
  overflow would flush an empty value) and that all aliases passed the validation
  (else the buffer could outgrow the limit). `ValuesFit` needs that the length the
  loop keeps is that of the aliases in the buffer with their commas (`Fitting`).
  `KeysMinimal` is the classical argument that greedy stays ahead (`GreedyAhead`):
  wherever else the list is cut, no fewer values than the loop has flushed are cut
  off before the last alias packed, and as few only when the buffer is not cut.

### 5.2 Provider

- `OpenStackProvider_proofs`: `ProviderInvariant`, `TypeCorrect`,
  `FailuresAreExcused`, `OwnershipRespected`, `WritesAreNeeded`
  (`Spec => NoNeedlessWrite`), `TasksAreReconciled`, `NoAliasDropped`
  (`Spec => AliasNeverDropped`), `IndexesAreContiguous`
  (`[]SuffixRangeContiguous`).
  `FailuresExcused` is not inductive: a task that is half-way through its deletes
  with `taskFailed` set has not failed yet. `ProviderInv` therefore says also why
  `taskFailed` is set (`FailureRecorded`), that `sid` is the one server the
  task's name denotes unless somebody touched it (`ServerResolved`), that the
  tasks are distinct in node and kind (`DistinctTasks`, from what the controller
  promises) and what the pending plan is worth (`PlanInv`). In part that does not
  depend on the server: what is to be written and deleted is owned by the task
  and as the target has it (`PlanIsRight`), which is why `OwnershipRespected`
  holds for stale plans too. For the rest it does: but for the keys edited since
  the read, the plan leads from what the server has to the target
  (`PlanSuffices`, kept by an edit through `PlanAfterEdit`). So a key to delete
  that is missing has been edited, which excuses the 404, and as long as no key
  of the target has been edited all of them are in place before a key is deleted. That keys
  are raced only in a task that has a plan, on a server that is then touched
  (`RacedInv`), gives `TasksAreReconciled` a plan without exceptions.
  `NoAliasDropped` needs besides that a task that has come to
  a call can be packed (`PackedInv`), so that its target holds all its aliases
  (`UnpackInvertsPack`); then the update alone makes the server serve them, and
  the deletes take keys only that the target does not have.
  `TasksAreReconciled` and `IndexesAreContiguous` have the hypothesis
  `UniqueNames`: no server is listed for two nodes. Without it they are false, as
  finding 1 shows: a later task would undo an earlier one on the same server.
- `ProviderRefinement_proofs`: `ContractImplemented`
  (`UniqueNames /\ MaxEdits = 0 => (Spec => ImplementsContract)`). There is a
  lemma per kind of step: `StartSync` puts exactly the contract's work before it;
  a write or a delete leaves the node between old and new; the end of a task is
  the contract's success only if the server is at its target, by `ProviderInv`;
  everything else is a stutter. The two hypotheses are those of the mapping
  (2.4): the contract has one value for each node and nobody else who changes it.
  Any number of failures and expired tokens is covered.

### 5.3 Controller

- `DesiredState_proofs`: lemmas. `SortBy` yields each element once, in order, and
  equal sets equal lists; `Keep` yields a sublist; a normalized landb-set has
  neither blanks nor repetitions. The first needs that a finite set with distinct
  ranks *can* be sorted, by induction on the size of the set.
- `Controller_proofs`, for any number of nodes, selectors, Ingress objects,
  changes, faults and crashes:
  - `TypeCorrect`.
  - `SteadyNodesAreSelected` (`[]SteadyNodeSelected`). `SteadyInv` says of the
    loop over the selectors, while the cache changes, that steady nodes are steady
    in the cache still, that those whose selector has been listed are found, and
    that none is among the seen without having been found: otherwise it would be
    skipped when its own selector is listed.
  - `PromisesHold` (`[]DesiredStateOK`). What is needed of the reads is little:
    `found` has one entry for each name and all in it are Ready (`DesiredInv`,
    with the corresponding part of `SteadyInv`). The rest follows from the lists
    being made out of one reading of all nodes.
  - `NoChangeIsLost` (`[]NoLostWakeup`). `NoLostWakeup` speaks of the moment when
    nothing is left to do and is far from inductive. `WakeInv` has three parts.
    `DeliveryInv`: what a cache does not show yet is on its way, and the last
    event under way for an object shows it as it is. `ReadInv`: as long as the
    queue is empty, what the lists have returned so far is what the *present*
    cache would return, for the events since then were such as no predicate
    selects, and these change neither labels nor readiness of ingress nodes
    (`QuietEvent`). `WorkInv`: while the queue is empty and no node has failed,
    what Sync has left to do leads every node that is not overlooked to what the
    cache says; each node is there or has its work item still ahead. Any accepted
    event, failure or crash fills the queue or sets a timer and makes the last two
    parts vacuous; the next reconciliation establishes them anew. When all is
    settled, cache and API agree by the first and nothing is left by the third.
- `Metrics_proofs`: `GaugesAreCurrent` (`MetricsSpec => []GaugesCurrent`).
  `GaugesInv` says of each gauge from which call on it counts what the cache
  holds, as long as the queue is empty; the step is that an event which no
  predicate selects, and which makes no node overlooked, changes none of the three
  counts (`QuietDeclares` for the nodes with a landb-set).

### 5.4 Start-up

- `Startup_proofs`: `ParserInvariant`, `ConfigAsWritten`
  (`Spec => []OptionsAsWritten`), `ValidatorInvariant`, `NeverRejectedTwice`
  (`Spec => []ValidatorsAgree`), `LoginComplete` (`Spec => []CredentialsComplete`),
  for files of any length. `OptionsAsWritten` says nothing of the section the
  parser is in, so `ParserInv` adds that `inGlobal` is `InGlobalSection` of the
  current line. The step is `OneMoreLine`: what one more line adds to what a file
  says, read as a whole, is what `ScanLine` does. It needs the last of a set of
  positions to exist (`LastPosition`, from the well-foundedness of `<`). `ValidInv`
  says what each validator has established where; `ParserStricter` that the
  parser's requires all the provider's does.

### 5.5 Only model-checked

`SyncTerminates`, `EventuallyConverged`, `RolloutRepaired` and `GetsToRun`:
liveness under fairness and `ENABLED` are out of the prover's reach. What the four
runs that end in a violation check is false, and their counterexamples show it.

## 6. Plan

Order: what the program must never get wrong first (the provider, then the
packing it relies on, then the controller), the rest after it.

1. Done: `AliasPacking`, `OpenStackProvider`, `PackAliases` and their proofs;
   `DesiredState`, `ProviderContract`, `Controller`.
2. Done: the refinement of `ProviderContract`, which is how `Controller` and
   `OpenStackProvider` are composed; `Rollout`; `Startup` and its proofs;
   `Metrics`.
3. Done: theorems for every invariant and every action property of the passing
   runs, the refinement among them.
4. What is left: safety of `Rollout` (what a node serves during a rolling update
   is what one of the two processes has been told, or lies between), and a
   contract that allows foreign edits, so that `ContractImplemented` can do
   without `MaxEdits = 0`.

## 7. Not modelled

- Counters and histograms, which only grow and which nothing reads.
- A call that never returns: `authenticate` and the Nova calls set no timeout,
  and such a call blocks the only worker for good.
- Servers that appear while the controller runs, metadata quotas, and the length
  of a `landb-set` value. A refused update is `CallFails` here.
- Keystone refusing credentials that are complete. A Secret that is changed while
  the process runs is modelled (`UpdateSecret`), but has no effect until the next
  start, and no document promises one.
- What LANDB does with the metadata, and when. Log output.
- `normalizeAlias` and `loadSuffixRegex` (`alias.go:29-45`), which only the tests
  call, and `ZeroPassword`, which nothing calls. (`unpackAliases` is called by the
  tests only, too; here it says which names LANDB finds in the metadata.)
- A node deleted from Kubernetes: its server is in none of the lists and keeps
  its metadata, by design, so `NoLostWakeup` speaks of existing nodes.
