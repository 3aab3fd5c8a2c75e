-------------------------- MODULE OpenStackProvider --------------------------
(***************************************************************************)
(* provider/openstack/openstack.go: Sync, the reconciliation of OpenStack  *)
(* server metadata with a DesiredState, one compute-API call at a time.    *)
(*                                                                         *)
(* Sync runs four loops over the lists of the DesiredState.  Each          *)
(* iteration is a task: it resolves the server of a node by name, reads    *)
(* the server's metadata, computes a plan (keys to write, keys to delete), *)
(* writes with one call and deletes with one call per key.  A task that    *)
(* fails is recorded and the loop goes on.                                 *)
(*                                                                         *)
(* Between two calls anything may happen to Nova: calls fail before or     *)
(* after taking effect, the token expires, somebody else edits or deletes  *)
(* a server.  Metadata is a map, as in Go: a key is present when it is in  *)
(* the DOMAIN.                                                             *)
(***************************************************************************)
EXTENDS AliasPacking

CONSTANTS
    Node,           \* names of Kubernetes nodes
    Server,         \* UUIDs of Nova servers
    NameMatch,      \* NameMatch[n]: the servers Nova lists when asked for name n
    LandbSetValue,  \* non-empty normalized landb-set values
    DesiredStates,  \* the DesiredStates the controller may pass to Sync
    InitialMeta,    \* the metadata servers may have at the start
    ManualWrite,    \* [key, value] pairs somebody else may write
    MaxEdits,       \* bound: manual edits and server deletions in a behaviour
    MaxFaults       \* bound: failed calls and failed authentications in a behaviour

landbSetMetadataKey == <<"landb-set", 0>>

KeyName == {"landb-alias", "landb-set", "other-key"}

EmptyMap == [k \in {} |-> {}]

\* A map from keys to values; what the alias values are is AliasPacking's matter.
IsMetadata(m) ==
    /\ m = [k \in DOMAIN m |-> m[k]]
    /\ \A k \in DOMAIN m : k[1] \in KeyName
    /\ landbSetMetadataKey \in DOMAIN m => m[landbSetMetadataKey] \in LandbSetValue

(***************************************************************************)
(* What the controller promises about the DesiredState it passes: no alias *)
(* occurs twice, every list names known nodes, no list names a node twice, *)
(* a node is never both ingress and stale, never both with and without a   *)
(* landb-set, and one that is in the landb-set lists is in an alias list.  *)
(***************************************************************************)
IsNodeList(list) ==
    /\ list \in Seq([Name : Node, Ready : BOOLEAN, LandbSet : LandbSetValue \cup {<<>>}])
    /\ \A i, j \in 1..Len(list) : list[i].Name = list[j].Name => i = j

Disjoint(list1, list2) ==
    \A i \in 1..Len(list1), j \in 1..Len(list2) : list1[i].Name # list2[j].Name

Named(list) == {list[i].Name : i \in 1..Len(list)}

IsDesiredState(d) ==
    /\ d.Aliases \in Seq(Alias)
    /\ \A i, j \in 1..Len(d.Aliases) : d.Aliases[i] = d.Aliases[j] => i = j
    /\ IsNodeList(d.IngressNodes) /\ IsNodeList(d.StaleAliasNodes)
    /\ IsNodeList(d.LandbSetNodes) /\ IsNodeList(d.StaleLandbSetNodes)
    /\ Disjoint(d.IngressNodes, d.StaleAliasNodes)
    /\ Disjoint(d.LandbSetNodes, d.StaleLandbSetNodes)
    /\ \A i \in 1..Len(d.LandbSetNodes) : d.LandbSetNodes[i].LandbSet \in LandbSetValue
    /\ Named(d.LandbSetNodes) \cup Named(d.StaleLandbSetNodes)
            \subseteq Named(d.IngressNodes) \cup Named(d.StaleAliasNodes)

ASSUME ProviderAssumption ==
    /\ IsFiniteSet(Node) /\ NameMatch \in [Node -> SUBSET Server]
    /\ \A m \in InitialMeta : IsMetadata(m)
    /\ \A w \in ManualWrite : IsMetadata([k \in {w.key} |-> w.value])
    /\ \A d \in DesiredStates : IsDesiredState(d)
    /\ <<>> \notin LandbSetValue
    /\ MaxEdits \in Nat /\ MaxFaults \in Nat

VARIABLES
    \* Nova and Keystone.
    live,        \* the servers that exist
    meta,        \* meta[s]: metadata of server s
    token,       \* whether Keystone's token is still valid
    \* The Sync in progress, or the one that returned last.
    aliases,     \* desired.Aliases
    tasks,       \* the iterations of the four loops, in order
    pos,         \* the iteration being executed
    pc,          \* the API call about to be made, or "idle"
    retried,     \* the call was rejected with 401 once and re-authentication succeeded
    sid,         \* serverID of the task, or NoServer
    toUpdate,    \* keys to write, with their values
    toDelete,    \* keys to delete
    taskFailed,  \* deleteErrs is not empty
    errs,        \* positions of the tasks whose error was appended to errs
    \* Bounds and observations: they never guard a step of the program.
    edits, faults,
    touched,     \* servers edited or deleted by somebody else since Sync began
    raced,       \* <<position, key>>: somebody else wrote or deleted the key on
                 \* the task's server, between its being read and its being written
    hit          \* positions at which Nova or Keystone failed a call

novaVars == <<live, meta, token>>
taskVars == <<retried, sid, toUpdate, toDelete, taskFailed>>
syncVars == <<aliases, tasks, pos, pc, taskVars, errs>>
vars == <<novaVars, syncVars, edits, faults, touched, raced, hit>>

NoServer == "no server"
CallPc == {"resolve", "read", "update", "delete"}
task == tasks[pos]

\* One loop of Sync, unrolled, and the four of them.
LoopFromOne(op, list) ==                            \* mutant
    [i \in 1..Len(list) |->
        [op |-> op, node |-> list[i].Name, index |-> i, landbSet |-> list[i].LandbSet]]

Loop(op, list) ==
    [i \in 1..Len(list) |->
        [op |-> op, node |-> list[i].Name, index |-> i - 1, landbSet |-> list[i].LandbSet]]

SyncTasks(d) ==
    Loop("syncAlias", d.IngressNodes) \o Loop("cleanupAlias", d.StaleAliasNodes)
    \o Loop("syncSet", d.LandbSetNodes) \o Loop("cleanupSet", d.StaleLandbSetNodes)

Init ==
    /\ live \in SUBSET Server
    /\ meta \in [Server -> InitialMeta]
    /\ token = TRUE
    /\ aliases = <<>> /\ tasks = <<>> /\ pos = 1 /\ pc = "idle"
    /\ retried = FALSE /\ sid = NoServer /\ toUpdate = EmptyMap /\ toDelete = {}
    /\ taskFailed = FALSE /\ errs = {}
    /\ edits = 0 /\ faults = 0 /\ touched = {} /\ raced = {} /\ hit = {}

(***************************************************************************)
(* The plans: the diff each handler computes from the metadata it has read.*)
(***************************************************************************)
SuffixedAliases(t) == addSuffix(aliases, t.index)

SyncAliasWholeMapPlan(t, current) ==                \* mutant
    LET desired == packAliases(SuffixedAliases(t))
        whole == desired @@ Restrict(current, {k \in DOMAIN current : ~HasAliasPrefix(k)})
    IN  [update |-> IF \E k \in DOMAIN desired : k \notin DOMAIN current \/ current[k] # desired[k]
                    THEN whole ELSE EmptyMap,
         delete |-> {k \in DOMAIN current : HasAliasPrefix(k) /\ k \notin DOMAIN desired}]

SyncAliasDeletesRewrittenPlan(t, current) ==        \* mutant
    LET desired == packAliases(SuffixedAliases(t))
        outdated == {k \in DOMAIN desired : k \notin DOMAIN current \/ current[k] # desired[k]}
    IN  [update |-> Restrict(desired, outdated),
         delete |-> {k \in DOMAIN current : HasAliasPrefix(k) /\ (k \in DOMAIN desired => k \in outdated)}]

SyncAliasPlan(t, current) ==
    LET desired == packAliases(SuffixedAliases(t))
    IN  [update |-> Restrict(desired,
                        {k \in DOMAIN desired : k \notin DOMAIN current \/ current[k] # desired[k]}),
         delete |-> {k \in DOMAIN current : HasAliasPrefix(k) /\ k \notin DOMAIN desired}]

CleanupAliasPlan(current) ==
    [update |-> EmptyMap, delete |-> {k \in DOMAIN current : HasAliasPrefix(k)}]

reconcileLandbSetAlways(t, current) ==              \* mutant
    IF t.landbSet = <<>> THEN EmptyMap ELSE [k \in {landbSetMetadataKey} |-> t.landbSet]

reconcileLandbSet(t, current) ==
    IF \/ t.landbSet = <<>>
       \/ landbSetMetadataKey \in DOMAIN current /\ current[landbSetMetadataKey] = t.landbSet
    THEN EmptyMap
    ELSE [k \in {landbSetMetadataKey} |-> t.landbSet]

SyncSetPlan(t, current) == [update |-> reconcileLandbSet(t, current), delete |-> {}]

reconcileStaleLandbSet(current) == DOMAIN current \cap {landbSetMetadataKey}

CleanupSetPlan(current) == [update |-> EmptyMap, delete |-> reconcileStaleLandbSet(current)]

Plan(t, current) ==
    CASE t.op = "syncAlias"    -> SyncAliasPlan(t, current)
      [] t.op = "cleanupAlias" -> CleanupAliasPlan(current)
      [] t.op = "syncSet"      -> SyncSetPlan(t, current)
      [] t.op = "cleanupSet"   -> CleanupSetPlan(current)

(***************************************************************************)
(* Leaving a task, with or without an error, and going on with the next.   *)
(***************************************************************************)
EndTaskReturnsError(failed) ==                      \* mutant
    /\ errs' = IF failed THEN errs \cup {pos} ELSE errs
    /\ pos' = IF failed THEN Len(tasks) + 1 ELSE pos + 1
    /\ pc' = IF pos' <= Len(tasks) THEN "resolve" ELSE "idle"
    /\ retried' = FALSE /\ sid' = NoServer
    /\ toUpdate' = EmptyMap /\ toDelete' = {} /\ taskFailed' = FALSE
    /\ UNCHANGED <<aliases, tasks>>

EndTask(failed) ==
    /\ errs' = IF failed THEN errs \cup {pos} ELSE errs
    /\ pos' = pos + 1
    /\ pc' = IF pos < Len(tasks) THEN "resolve" ELSE "idle"
    /\ retried' = FALSE /\ sid' = NoServer
    /\ toUpdate' = EmptyMap /\ toDelete' = {} /\ taskFailed' = FALSE
    /\ UNCHANGED <<aliases, tasks>>

\* After the keys in updated were written and those in deleted dealt with.
Proceed(failed, remaining) ==
    IF remaining = {}
    THEN EndTask(failed)
    ELSE /\ pc' = "delete"
         /\ toDelete' = remaining /\ taskFailed' = failed /\ retried' = FALSE
         /\ UNCHANGED <<aliases, tasks, pos, sid, toUpdate, errs>>

GoOnAfterFailedUpdate ==                            \* mutant
    CASE pc = "delete" -> \E key \in toDelete : Proceed(TRUE, toDelete \ {key})
      [] pc = "update" -> Proceed(TRUE, toDelete)
      [] OTHER -> EndTask(TRUE)

\* The call at pc returned an error.  Only deletions go on within the task;
\* which key the failed call was for does not matter to the others.
CallReturnsError ==
    IF pc = "delete"
    THEN \E key \in toDelete : Proceed(TRUE, toDelete \ {key})
    ELSE EndTask(TRUE)

(***************************************************************************)
(* Sync is called.                                                         *)
(***************************************************************************)
StartSyncKeepsErrs(d) ==                            \* mutant
    /\ pc = "idle"
    /\ aliases' = d.Aliases
    /\ tasks' = SyncTasks(d)
    /\ pos' = 1
    /\ pc' = IF tasks' = <<>> THEN "idle" ELSE "resolve"
    /\ touched' = {} /\ raced' = {} /\ hit' = {}
    /\ UNCHANGED <<novaVars, taskVars, errs, edits, faults>>

StartSync(d) ==
    /\ pc = "idle"
    /\ aliases' = d.Aliases
    /\ tasks' = SyncTasks(d)
    /\ pos' = 1 /\ errs' = {}
    /\ pc' = IF tasks' = <<>> THEN "idle" ELSE "resolve"
    /\ touched' = {} /\ raced' = {} /\ hit' = {}
    /\ UNCHANGED <<novaVars, taskVars, edits, faults>>

\* packAliases fails before the first call of syncAliasNode.
PackingFails ==
    /\ pc = "resolve" /\ ~retried
    /\ task.op = "syncAlias" /\ ~Packable(SuffixedAliases(task))
    /\ EndTask(TRUE)
    /\ UNCHANGED <<novaVars, edits, faults, touched, raced, hit>>

ReadyToCall ==
    /\ pc \in CallPc
    /\ pc = "resolve" /\ task.op = "syncAlias" => Packable(SuffixedAliases(task))

(***************************************************************************)
(* The calls, when Nova accepts the token.                                 *)
(***************************************************************************)
Listed(n) == live \cap NameMatch[n]

getServerIDFirstListed ==                           \* mutant
    /\ ReadyToCall /\ pc = "resolve" /\ token
    /\ \/ \E s \in Listed(task.node) :
            /\ sid' = s /\ pc' = "read" /\ retried' = FALSE
            /\ UNCHANGED <<aliases, tasks, pos, toUpdate, toDelete, taskFailed, errs>>
       \/ Listed(task.node) = {} /\ EndTask(TRUE)
    /\ UNCHANGED <<novaVars, edits, faults, touched, raced, hit>>

getServerID ==
    /\ ReadyToCall /\ pc = "resolve" /\ token
    /\ \/ \E s \in Server :
            /\ Listed(task.node) = {s}
            /\ sid' = s /\ pc' = "read" /\ retried' = FALSE
            /\ UNCHANGED <<aliases, tasks, pos, toUpdate, toDelete, taskFailed, errs>>
       \/ /\ \A s \in Server : Listed(task.node) # {s}   \* none, or several
          /\ EndTask(TRUE)
    /\ UNCHANGED <<novaVars, edits, faults, touched, raced, hit>>

\* getMetadata, and the diff the handler computes from what it returned.
getMetadata ==
    /\ ReadyToCall /\ pc = "read" /\ token /\ sid \in live
    /\ LET plan == Plan(task, meta[sid])
       IN  IF plan.update # EmptyMap
           THEN /\ pc' = "update"
                /\ toUpdate' = plan.update /\ toDelete' = plan.delete
                /\ retried' = FALSE
                /\ UNCHANGED <<aliases, tasks, pos, sid, taskFailed, errs>>
           ELSE Proceed(FALSE, plan.delete)
    /\ UNCHANGED <<novaVars, edits, faults, touched, raced, hit>>

\* "Existing keys not in the map are left untouched."
Written(new, m) ==
    [k \in DOMAIN new \cup DOMAIN m |-> IF k \in DOMAIN new THEN new[k] ELSE m[k]]

updateMetadata ==
    /\ ReadyToCall /\ pc = "update" /\ token /\ sid \in live
    /\ meta' = [meta EXCEPT ![sid] = Written(toUpdate, @)]
    /\ Proceed(FALSE, toDelete)
    /\ UNCHANGED <<live, token, edits, faults, touched, raced, hit>>

Without(m, key) == Restrict(m, DOMAIN m \ {key})

deleteMetadatumForgetsErrors ==                     \* mutant
    /\ ReadyToCall /\ pc = "delete" /\ token /\ sid \in live
    /\ \E key \in toDelete :
        /\ key \in DOMAIN meta[sid]
        /\ meta' = [meta EXCEPT ![sid] = Without(@, key)]
        /\ Proceed(FALSE, toDelete \ {key})
    /\ UNCHANGED <<live, token, edits, faults, touched, raced, hit>>

deleteMetadatum ==
    /\ ReadyToCall /\ pc = "delete" /\ token /\ sid \in live
    /\ \E key \in toDelete :
        /\ key \in DOMAIN meta[sid]
        /\ meta' = [meta EXCEPT ![sid] = Without(@, key)]
        /\ Proceed(taskFailed, toDelete \ {key})
    /\ UNCHANGED <<live, token, edits, faults, touched, raced, hit>>

\* Nova answers 404: the server is gone, or the key to delete is.
NotFound ==
    /\ ReadyToCall /\ pc # "resolve" /\ token
    /\ \/ sid \notin live /\ CallReturnsError
       \/ /\ sid \in live /\ pc = "delete"
          /\ \E key \in toDelete \ DOMAIN meta[sid] : Proceed(TRUE, toDelete \ {key})
    /\ UNCHANGED <<novaVars, edits, faults, touched, raced, hit>>

(***************************************************************************)
(* retryWithReauth: a call rejected with 401 is retried once with a new    *)
(* token; a rejected call has no effect on Nova.                           *)
(***************************************************************************)
ReauthenticateWithoutRetry ==                       \* mutant
    /\ ReadyToCall /\ ~token /\ ~retried
    /\ token' = TRUE /\ CallReturnsError
    /\ UNCHANGED <<live, meta, edits, faults, touched, raced, hit>>

ReauthenticateForever ==                            \* mutant
    /\ ReadyToCall /\ ~token /\ ~retried
    /\ token' = TRUE
    /\ UNCHANGED <<live, meta, syncVars, edits, faults, touched, raced, hit>>

Reauthenticate ==
    /\ ReadyToCall /\ ~token /\ ~retried
    /\ token' = TRUE /\ retried' = TRUE
    /\ UNCHANGED <<live, meta, aliases, tasks, pos, pc, sid, toUpdate, toDelete,
                   taskFailed, errs, edits, faults, touched, raced, hit>>

AuthenticationFails ==
    /\ ReadyToCall /\ ~token /\ ~retried
    /\ faults < MaxFaults /\ faults' = faults + 1 /\ hit' = hit \cup {pos}
    /\ CallReturnsError
    /\ UNCHANGED <<novaVars, edits, touched, raced>>

RejectedAgain ==
    /\ ReadyToCall /\ ~token /\ retried
    /\ hit' = hit \cup {pos}
    /\ CallReturnsError
    /\ UNCHANGED <<novaVars, edits, faults, touched, raced>>

(***************************************************************************)
(* The call fails with another error: without effect, or (for the two      *)
(* calls that write) after taking effect, the answer being lost.           *)
(***************************************************************************)
CallFails ==
    /\ ReadyToCall /\ token
    /\ faults < MaxFaults /\ faults' = faults + 1 /\ hit' = hit \cup {pos}
    /\ CallReturnsError
    /\ UNCHANGED <<novaVars, edits, touched, raced>>

AnswerLost ==
    /\ ReadyToCall /\ token /\ sid \in live
    /\ faults < MaxFaults /\ faults' = faults + 1 /\ hit' = hit \cup {pos}
    /\ \/ /\ pc = "update"
          /\ meta' = [meta EXCEPT ![sid] = Written(toUpdate, @)]
          /\ EndTask(TRUE)
       \/ /\ pc = "delete"
          /\ \E key \in toDelete :
              /\ key \in DOMAIN meta[sid]
              /\ meta' = [meta EXCEPT ![sid] = Without(@, key)]
              /\ Proceed(TRUE, toDelete \ {key})
    /\ UNCHANGED <<live, token, edits, touched, raced>>

(***************************************************************************)
(* The rest of the world.                                                  *)
(***************************************************************************)
TokenExpires ==
    /\ token /\ token' = FALSE
    /\ UNCHANGED <<live, meta, syncVars, edits, faults, touched, raced, hit>>

ManualEdit(s) ==
    /\ edits < MaxEdits /\ edits' = edits + 1
    /\ s \in live
    /\ \E w \in ManualWrite :
        /\ \/ meta' = [meta EXCEPT ![s] = Written([k \in {w.key} |-> w.value], @)]
           \/ /\ w.key \in DOMAIN meta[s]
              /\ meta' = [meta EXCEPT ![s] = Without(@, w.key)]
        /\ raced' = IF s = sid /\ pc \in {"update", "delete"}
                    THEN raced \cup {<<pos, w.key>>} ELSE raced
    /\ touched' = touched \cup {s}
    /\ UNCHANGED <<live, token, syncVars, faults, hit>>

ServerDeleted(s) ==
    /\ edits < MaxEdits /\ edits' = edits + 1
    /\ s \in live /\ live' = live \ {s}
    /\ touched' = touched \cup {s}
    /\ UNCHANGED <<meta, token, syncVars, faults, raced, hit>>

-----------------------------------------------------------------------------
Call ==
    \/ PackingFails \/ getServerID \/ getMetadata \/ updateMetadata \/ deleteMetadatum
    \/ NotFound \/ Reauthenticate \/ AuthenticationFails \/ RejectedAgain
    \/ CallFails \/ AnswerLost

World == TokenExpires \/ \E s \in Server : ManualEdit(s) \/ ServerDeleted(s)

Next == Call \/ World \/ \E d \in DesiredStates : StartSync(d)

Spec == Init /\ [][Next]_vars

\* Sync is one goroutine that only waits for its current call to return.
FairSpec == Spec /\ WF_vars(Call)

-----------------------------------------------------------------------------
(***************************************************************************)
(* Properties.                                                             *)
(***************************************************************************)
Task ==
    {t \in [op : {"syncAlias", "cleanupAlias", "syncSet", "cleanupSet"},
            node : Node, index : Nat, landbSet : LandbSetValue \cup {<<>>}] :
        t.op = "syncSet" => t.landbSet \in LandbSetValue}

IsAliasTask(t) == t.op \in {"syncAlias", "cleanupAlias"}

\* The keys a task is in charge of, and what it must make of them.
Owns(t, key) == IF IsAliasTask(t) THEN key[1] = "landb-alias" ELSE key = landbSetMetadataKey

Target(t) ==
    CASE t.op = "syncAlias" -> packAliases(SuffixedAliases(t))
      [] t.op = "syncSet"   -> [k \in {landbSetMetadataKey} |-> t.landbSet]
      [] OTHER              -> EmptyMap

\* What the four items of the contract in provider.go promise for one node:
\* of the keys that t owns, metadata m has those of the target and no other.
Reconciled(t, m) == Restrict(m, {k \in DOMAIN m : Owns(t, k)}) = Target(t)

NovaTypeOK ==
    /\ live \subseteq Server
    /\ meta = [s \in Server |-> meta[s]] /\ \A s \in Server : IsMetadata(meta[s])
    /\ token \in BOOLEAN

SyncTypeOK ==
    /\ aliases \in Seq(Alias)
    /\ tasks \in Seq(Task)
    /\ pos \in 1..(Len(tasks) + 1)
    /\ pc \in CallPc \cup {"idle"}
    /\ pc = "idle" <=> pos > Len(tasks)
    /\ retried \in BOOLEAN /\ taskFailed \in BOOLEAN
    /\ IF pc \in {"read", "update", "delete"} THEN sid \in Server ELSE sid = NoServer
    /\ IsMetadata(toUpdate) /\ (pc \in {"resolve", "read", "idle"} => toUpdate = EmptyMap)
    /\ \A k \in toDelete : k[1] \in KeyName
    /\ pc \in {"resolve", "read", "idle"} => toDelete = {}
    /\ pc = "delete" => toDelete # {}
    /\ taskFailed => pc = "delete"
    /\ errs \subseteq 1..(pos - 1)

ObservedTypeOK ==
    /\ touched \subseteq Server /\ hit \subseteq 1..Len(tasks)
    /\ \A x \in raced : x[1] \in 1..Len(tasks) /\ x[2][1] \in KeyName
    /\ edits \in 0..MaxEdits /\ faults \in 0..MaxFaults

\* Every variable keeps its type; in particular the errors of one Sync never
\* leak into the next, and a plan exists only while it is being carried out.
TypeOK == NovaTypeOK /\ SyncTypeOK /\ ObservedTypeOK

NodeReconciled(j) ==
    \A s \in Listed(tasks[j].node) \ touched : Reconciled(tasks[j], meta[s])

\* A node whose task has gone through without an error is, from then to the
\* end of Sync, exactly as desired, unless somebody else touched its server:
\* later tasks do not undo it, failures of other nodes do not matter, and no
\* failed or half-done plan passes for a success (provider.go, Sync's contract;
\* openstack.go, the four loops with their aggregated errors).
TasksReconciled == \A j \in (1..(pos - 1)) \ errs : NodeReconciled(j)

\* When Sync has returned without an error, the load indexes of every wanted
\* alias are 0, 1, 2, ... without a gap, each announced by one server and no
\* two: however a shift of the nodes was carried out, key by key and node by
\* node, nothing of the old numbering is left (README.md: a shift "ensures the
\* suffix range remains contiguous").
SuffixRangeContiguous ==
    LET ingress == {j \in DOMAIN tasks : tasks[j].op = "syncAlias"}
        servers == UNION {Listed(tasks[j].node) : j \in DOMAIN tasks}
    IN  pc = "idle" /\ errs = {} /\ touched = {} =>
            \A a \in ToSet(aliases), i \in 0..Cardinality(Node) :
                Cardinality({s \in servers : [alias |-> a, load |-> i] \in unpackAliases(meta[s])})
                    = IF i < Cardinality(ingress) THEN 1 ELSE 0

\* A key that task j was to delete was edited by somebody else after it was read.
DeleteRaced(j) ==
    \E x \in raced : /\ x[1] = j /\ Owns(tasks[j], x[2])
                     /\ x[2] \notin DOMAIN Target(tasks[j])

Excused(j) ==
    \/ j \in hit
    \/ DeleteRaced(j)
    \/ (NameMatch[tasks[j].node] \cap touched) \ live # {}
    \/ \A s \in Server : Listed(tasks[j].node) # {s}
    \/ tasks[j].op = "syncAlias" /\ ~Packable(SuffixedAliases(tasks[j]))

\* A node fails only for a reason of its own: a call made for it failed, a key
\* that it was about to delete was edited under its hands, its server was
\* deleted during this Sync, its name does not denote one server, or its
\* aliases cannot be packed.  An expired token alone is not a reason
\* (retryWithReauth), nor is the failure of another node, nor an edit of the
\* server at any other moment or of any other key.
FailuresExcused == \A j \in errs : Excused(j)

\* The base names LANDB serves from a server's metadata.
Served(m) == {x.alias : x \in unpackAliases(m)}

\* Nobody has edited a key that the task's server shall have since it was read.
TargetUnraced == \A x \in raced : x[1] = pos => x[2] \notin DOMAIN Target(task)

\* Whatever fails, an ingress node never stops serving by an act of the
\* program, even for a moment, a name that it serves and should go on serving,
\* under the old suffix or the new: updates come before deletes and a failed
\* update cancels the deletes (syncAliasNode, steps 6 and 7).  Edits of the
\* server before it is read, and of a key that is to go at any time, change
\* nothing of this; one of a key that is to stay, between the read and the write,
\* does, because the plan made from the read is carried out all the same.
AliasNeverDropped ==
    [][ \A s \in Server :
            meta'[s] # meta[s] /\ edits' = edits /\ task.op = "syncAlias" /\ TargetUnraced
                => Served(meta[s]) \cap ToSet(aliases) \subseteq Served(meta'[s]) ]_vars

\* The program writes to nobody's metadata but the current node's; in it, only
\* to keys the current task owns, and to these it gives the value they shall
\* have.  This is so although the plan may be stale: what somebody else does to
\* a server between the read and the writes, to any other key, survives them
\* (openstack.go, updateMetadata: "Existing keys not in the map are left
\* untouched").
OnlyOwnedKeysChange ==
    [][ \A s \in Server :
            meta'[s] # meta[s] /\ edits' = edits =>
                /\ s \in NameMatch[task.node]
                /\ \A k \in DOMAIN meta[s] \cup DOMAIN meta'[s] :
                    \/ k \in DOMAIN meta[s] /\ k \in DOMAIN meta'[s] /\ meta'[s][k] = meta[s][k]
                    \/ /\ Owns(task, k)
                       /\ k \in DOMAIN Target(task) <=> k \in DOMAIN meta'[s]
                       /\ k \in DOMAIN meta'[s] => meta'[s][k] = Target(task)[k] ]_vars

\* A server found as desired is not written to: a repeated Sync costs Nova
\* reads only, and never rewrites (or drops and re-creates) what is right.
NoNeedlessWrite ==
    [][ pc = "read" /\ pc' \in {"update", "delete"} => ~Reconciled(task, meta[sid]) ]_vars

\* Sync returns, even if the token expires over and over again: a call is
\* retried at most once (retryWithReauth) and a failed task is not repeated.
SyncTerminates == pc # "idle" ~> pc = "idle"
=============================================================================
