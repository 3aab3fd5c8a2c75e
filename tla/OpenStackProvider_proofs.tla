---------------------- MODULE OpenStackProvider_proofs ----------------------
(***************************************************************************)
(* Theorems about OpenStackProvider, for every value of its constants.     *)
(***************************************************************************)
EXTENDS OpenStackProvider, AliasPacking_proofs

-----------------------------------------------------------------------------
(***************************************************************************)
(* Metadata maps.                                                          *)
(***************************************************************************)

\* Writing keys to a metadata map gives a metadata map (updateMetadata).
LEMMA WrittenType ==
    ASSUME NEW new, IsMetadata(new), NEW m, IsMetadata(m)
    PROVE  IsMetadata(Written(new, m))
BY DEF IsMetadata, Written

\* So does deleting a key (deleteMetadatum).
LEMMA WithoutType ==
    ASSUME NEW m, IsMetadata(m), NEW key
    PROVE  IsMetadata(Without(m, key))
BY DEF IsMetadata, Without, Restrict

\* And restricting to some of the keys.
LEMMA RestrictType ==
    ASSUME NEW m, IsMetadata(m), NEW S, S \subseteq DOMAIN m
    PROVE  IsMetadata(Restrict(m, S))
BY DEF IsMetadata, Restrict

\* The empty map is a metadata map.
LEMMA EmptyMapType == IsMetadata(EmptyMap) /\ DOMAIN EmptyMap = {}
BY DEF IsMetadata, EmptyMap

-----------------------------------------------------------------------------
(***************************************************************************)
(* Targets and plans.                                                      *)
(***************************************************************************)

\* packAliases only produces landb-alias* keys (metadataKey).
LEMMA PackedKeys ==
    ASSUME NEW xs
    PROVE  /\ IsMetadata(packAliases(xs))
           /\ \A k \in DOMAIN packAliases(xs) : k[1] = "landb-alias"
           /\ landbSetMetadataKey \notin DOMAIN packAliases(xs)
<1> DEFINE keys == {metadataKey(k - 1) : k \in DOMAIN PackValues(xs)}
<1>1. packAliases(xs) = [key \in keys |-> PackValues(xs)[key[2] + 1]]
    BY DEF packAliases
<1>2. \A k \in keys : k[1] = "landb-alias"
    BY DEF metadataKey
<1>3. landbSetMetadataKey[1] = "landb-set"
    BY DEF landbSetMetadataKey
<1> QED  BY <1>1, <1>2, <1>3 DEF IsMetadata, KeyName

\* What a task aims at is a metadata map over keys the task owns.
LEMMA TargetOwned ==
    ASSUME NEW t \in Task
    PROVE  /\ IsMetadata(Target(t))
           /\ \A k \in DOMAIN Target(t) : Owns(t, k)
<1>1. CASE t.op = "syncAlias"
    BY <1>1, PackedKeys DEF Target, Owns, IsAliasTask
<1>2. CASE t.op = "syncSet"
    BY <1>2 DEF Target, Owns, IsAliasTask, IsMetadata, Task, landbSetMetadataKey, KeyName
<1>3. CASE t.op \in {"cleanupAlias", "cleanupSet"}
    BY <1>3, EmptyMapType DEF Target
<1> QED  BY <1>1, <1>2, <1>3 DEF Task

\* Reconciled, key by key.
LEMMA ReconciledByKey ==
    ASSUME NEW t \in Task, NEW m,
           \A k \in DOMAIN Target(t) : k \in DOMAIN m /\ m[k] = Target(t)[k],
           \A k \in DOMAIN m : Owns(t, k) => k \in DOMAIN Target(t)
    PROVE  Reconciled(t, m)
<1>1. {k \in DOMAIN m : Owns(t, k)} = DOMAIN Target(t)
    BY TargetOwned
<1>2. Target(t) = [k \in DOMAIN Target(t) |-> Target(t)[k]]
    BY TargetOwned DEF IsMetadata
<1>3. Restrict(m, DOMAIN Target(t)) = [k \in DOMAIN Target(t) |-> Target(t)[k]]
    BY DEF Restrict
<1> QED  BY <1>1, <1>2, <1>3 DEF Reconciled

\* A plan is right when what it writes is part of the target and what it deletes
\* is owned and not in the target.  It suffices for metadata m when it leads from
\* m to the target, but for the keys in edited: those of which the metadata read
\* says nothing any more.
PlanIsRight(t, update, delete) ==
    /\ \A k \in DOMAIN update : k \in DOMAIN Target(t) /\ update[k] = Target(t)[k]
    /\ \A k \in delete : Owns(t, k) /\ k \notin DOMAIN Target(t)

PlanSuffices(t, m, update, delete, failed, edited) ==
    /\ \A k \in DOMAIN Target(t) \ edited :
        k \in DOMAIN update \/ (k \in DOMAIN m /\ m[k] = Target(t)[k])
    /\ \A k \in DOMAIN m \ edited :
        Owns(t, k) => k \in DOMAIN Target(t) \/ k \in delete \/ failed
    /\ delete \ edited \subseteq DOMAIN m

\* Each handler computes such a plan.
LEMMA PlanCorrect ==
    ASSUME NEW t \in Task, NEW m, IsMetadata(m)
    PROVE  /\ IsMetadata(Plan(t, m).update)
           /\ PlanIsRight(t, Plan(t, m).update, Plan(t, m).delete)
           /\ PlanSuffices(t, m, Plan(t, m).update, Plan(t, m).delete, FALSE, {})
<1>1. CASE t.op = "syncAlias"
    <2> DEFINE desired == packAliases(SuffixedAliases(t))
               diff == {k \in DOMAIN desired : k \notin DOMAIN m \/ m[k] # desired[k]}
               stale == {k \in DOMAIN m : HasAliasPrefix(k) /\ k \notin DOMAIN desired}
    <2>1. Plan(t, m) = [update |-> Restrict(desired, diff), delete |-> stale]
        BY <1>1 DEF Plan, SyncAliasPlan
    <2>2. Target(t) = desired
        BY <1>1 DEF Target
    <2>3. IsMetadata(desired)
        BY PackedKeys
    <2>4. \A k : Owns(t, k) <=> HasAliasPrefix(k)
        BY <1>1 DEF Owns, IsAliasTask, HasAliasPrefix
    <2> HIDE DEF desired
    <2>5. IsMetadata(Restrict(desired, diff))
        BY <2>3, RestrictType
    <2> QED  BY <2>1, <2>2, <2>4, <2>5 DEF PlanIsRight, PlanSuffices, Restrict
<1>2. CASE t.op = "cleanupAlias"
    <2>1. Plan(t, m) = [update |-> EmptyMap, delete |-> {k \in DOMAIN m : HasAliasPrefix(k)}]
        BY <1>2 DEF Plan, CleanupAliasPlan
    <2>2. Target(t) = EmptyMap
        BY <1>2 DEF Target
    <2>3. \A k : Owns(t, k) <=> HasAliasPrefix(k)
        BY <1>2 DEF Owns, IsAliasTask, HasAliasPrefix
    <2> QED  BY <2>1, <2>2, <2>3, EmptyMapType DEF PlanIsRight, PlanSuffices
<1>3. CASE t.op = "syncSet"
    <2> DEFINE set == [k \in {landbSetMetadataKey} |-> t.landbSet]
    <2>1. Plan(t, m) = [update |-> reconcileLandbSet(t, m), delete |-> {}]
        BY <1>3 DEF Plan, SyncSetPlan
    <2>2. Target(t) = set
        BY <1>3 DEF Target
    <2>3. t.landbSet \in LandbSetValue /\ t.landbSet # <<>>
        BY <1>3, ProviderAssumption DEF Task
    <2>4. \A k : Owns(t, k) <=> k = landbSetMetadataKey
        BY <1>3 DEF Owns, IsAliasTask
    <2>5. IsMetadata(set)
        BY <2>2, TargetOwned
    <2>6. CASE landbSetMetadataKey \in DOMAIN m /\ m[landbSetMetadataKey] = t.landbSet
        <3>1. reconcileLandbSet(t, m) = EmptyMap
            BY <2>6 DEF reconcileLandbSet
        <3> QED  BY <3>1, <2>1, <2>2, <2>4, <2>6, EmptyMapType DEF PlanIsRight, PlanSuffices
    <2>7. CASE ~(landbSetMetadataKey \in DOMAIN m /\ m[landbSetMetadataKey] = t.landbSet)
        <3>1. reconcileLandbSet(t, m) = set
            BY <2>3, <2>7 DEF reconcileLandbSet
        <3> QED  BY <3>1, <2>1, <2>2, <2>4, <2>5 DEF PlanIsRight, PlanSuffices
    <2> QED  BY <2>6, <2>7
<1>4. CASE t.op = "cleanupSet"
    <2>1. Plan(t, m) = [update |-> EmptyMap, delete |-> DOMAIN m \cap {landbSetMetadataKey}]
        BY <1>4 DEF Plan, CleanupSetPlan, reconcileStaleLandbSet
    <2>2. Target(t) = EmptyMap
        BY <1>4 DEF Target
    <2>3. \A k : Owns(t, k) <=> k = landbSetMetadataKey
        BY <1>4 DEF Owns, IsAliasTask
    <2> QED  BY <2>1, <2>2, <2>3, EmptyMapType DEF PlanIsRight, PlanSuffices
<1> QED  BY <1>1, <1>2, <1>3, <1>4 DEF Task

-----------------------------------------------------------------------------
(***************************************************************************)
(* The tasks of a Sync.                                                    *)
(***************************************************************************)

\* No two tasks of a Sync are about the same node and the same keys: a node
\* has one alias task at most and one landb-set task at most.
DistinctTasks(ts) ==
    \A j, k \in 1..Len(ts) :
        j # k /\ ts[j].node = ts[k].node => ~(IsAliasTask(ts[j]) <=> IsAliasTask(ts[k]))

\* Concatenation, element by element.
LEMMA ConcatElements ==
    ASSUME NEW S, NEW s \in Seq(S), NEW t \in Seq(S)
    PROVE  /\ s \o t \in Seq(S)
           /\ Len(s) \in Nat /\ Len(t) \in Nat /\ Len(s \o t) = Len(s) + Len(t)
           /\ \A i \in 1..Len(s \o t) :
                (s \o t)[i] = IF i <= Len(s) THEN s[i] ELSE t[i - Len(s)]
OBVIOUS

\* What membership in Seq says.
LEMMA SeqElements ==
    ASSUME NEW S, NEW s \in Seq(S)
    PROVE  Len(s) \in Nat /\ \A i \in 1..Len(s) : s[i] \in S
OBVIOUS

\* Tasks ts are those of a loop over list.
TasksOver(op, list, ts) ==
    /\ ts \in Seq(Task) /\ Len(ts) = Len(list)
    /\ \A i \in 1..Len(list) : ts[i].node = list[i].Name /\ ts[i].op = op /\ ts[i].index = i - 1

\* A loop over nodes without duplicates gives such tasks.
LEMMA LoopTasks ==
    ASSUME NEW op \in {"syncAlias", "cleanupAlias", "syncSet", "cleanupSet"},
           NEW list, IsNodeList(list),
           op = "syncSet" => \A i \in 1..Len(list) : list[i].LandbSet \in LandbSetValue
    PROVE  TasksOver(op, list, Loop(op, list))
<1> DEFINE Info == [Name : Node, Ready : BOOLEAN, LandbSet : LandbSetValue \cup {<<>>}]
<1>1. list \in Seq(Info)
    BY DEF IsNodeList
<1>2. Len(list) \in Nat /\ \A i \in 1..Len(list) : list[i] \in Info
    <2> HIDE DEF Info
    <2> QED  BY <1>1, SeqElements
<1>3. ASSUME NEW i \in 1..Len(list)
      PROVE  Loop(op, list)[i] \in Task
    <2>1. list[i].Name \in Node /\ list[i].LandbSet \in LandbSetValue \cup {<<>>}
        BY <1>2
    <2>2. i - 1 \in Nat
        BY <1>2
    <2> QED  BY <2>1, <2>2 DEF Loop, Task
<1>4. Loop(op, list) \in [1..Len(list) -> Task]
    BY <1>3 DEF Loop
<1>5. \A i \in 1..Len(list) :
        /\ Loop(op, list)[i].node = list[i].Name /\ Loop(op, list)[i].op = op
        /\ Loop(op, list)[i].index = i - 1
    BY DEF Loop
<1> QED  BY <1>2, <1>4, <1>5 DEF TasksOver

\* Two loops over disjoint lists of nodes give no two tasks of the same node.
LEMMA TwoLoops ==
    ASSUME NEW list1, NEW list2, IsNodeList(list1), IsNodeList(list2), Disjoint(list1, list2),
           NEW op1, NEW op2, NEW s, NEW t, TasksOver(op1, list1, s), TasksOver(op2, list2, t)
    PROVE  /\ s \o t \in Seq(Task)
           /\ \A j \in 1..Len(s \o t) : (s \o t)[j].op \in {op1, op2}
           /\ \A j, k \in 1..Len(s \o t) : (s \o t)[j].node = (s \o t)[k].node => j = k
<1> DEFINE st == s \o t
<1>1. s \in Seq(Task) /\ t \in Seq(Task)
    BY DEF TasksOver
<1>2. /\ st \in Seq(Task) /\ Len(s) \in Nat /\ Len(t) \in Nat /\ Len(st) = Len(s) + Len(t)
      /\ \A i \in 1..Len(st) : st[i] = IF i <= Len(s) THEN s[i] ELSE t[i - Len(s)]
    BY <1>1, ConcatElements
<1> HIDE DEF st
<1>3. ASSUME NEW j \in 1..Len(st)
      PROVE  \/ j \in 1..Len(list1) /\ st[j].node = list1[j].Name /\ st[j].op = op1
             \/ /\ j - Len(s) \in 1..Len(list2)
                /\ st[j].node = list2[j - Len(s)].Name /\ st[j].op = op2
    <2>1. CASE j <= Len(s)
        <3>1. j \in 1..Len(s) /\ st[j] = s[j]
            BY <1>2, <2>1
        <3> QED  BY <3>1 DEF TasksOver
    <2>2. CASE j > Len(s)
        <3>1. j - Len(s) \in 1..Len(list2) /\ st[j] = t[j - Len(s)]
            BY <1>2, <2>2 DEF TasksOver
        <3> QED  BY <3>1 DEF TasksOver
    <2> QED  BY <1>2, <2>1, <2>2
<1>4. ASSUME NEW j \in 1..Len(st), NEW k \in 1..Len(st), st[j].node = st[k].node
      PROVE  j = k
    <2> DEFINE j2 == j - Len(s)
               k2 == k - Len(s)
    <2>1. CASE j \in 1..Len(list1) /\ st[j].node = list1[j].Name
        <3>1. ~(k2 \in 1..Len(list2) /\ st[k].node = list2[k2].Name)
            BY <1>4, <2>1 DEF Disjoint
        <3>2. k \in 1..Len(list1) /\ st[k].node = list1[k].Name
            BY <1>3, <3>1
        <3> QED  BY <1>4, <2>1, <3>2 DEF IsNodeList
    <2>2. CASE j2 \in 1..Len(list2) /\ st[j].node = list2[j2].Name
        <3>1. ~(k \in 1..Len(list1) /\ st[k].node = list1[k].Name)
            BY <1>4, <2>2 DEF Disjoint
        <3>2. k2 \in 1..Len(list2) /\ st[k].node = list2[k2].Name
            BY <1>3, <3>1
        <3>3. j2 = k2
            BY <1>4, <2>2, <3>2 DEF IsNodeList
        <3> QED  BY <1>2, <3>3
    <2> QED  BY <1>3, <2>1, <2>2
<1> QED  BY <1>2, <1>3, <1>4 DEF st

\* The four loops give well-formed and distinct tasks.
LEMMA SyncTasksCorrect ==
    ASSUME NEW d, IsDesiredState(d)
    PROVE  SyncTasks(d) \in Seq(Task) /\ DistinctTasks(SyncTasks(d))
<1> DEFINE I == d.IngressNodes   A == d.StaleAliasNodes
           L == d.LandbSetNodes  C == d.StaleLandbSetNodes
           s1 == Loop("syncAlias", I)  t1 == Loop("cleanupAlias", A)
           s2 == Loop("syncSet", L)    t2 == Loop("cleanupSet", C)
           alias == s1 \o t1
           set == s2 \o t2
           all == alias \o set
<1>1. IsNodeList(I) /\ IsNodeList(A) /\ Disjoint(I, A)
    BY DEF IsDesiredState
<1>2. IsNodeList(L) /\ IsNodeList(C) /\ Disjoint(L, C)
    BY DEF IsDesiredState
<1>3. \A i \in 1..Len(L) : L[i].LandbSet \in LandbSetValue
    BY DEF IsDesiredState
<1> HIDE DEF I, A, L, C
<1>4. TasksOver("syncAlias", I, s1) /\ TasksOver("cleanupAlias", A, t1)
    BY <1>1, LoopTasks
<1>5. TasksOver("syncSet", L, s2) /\ TasksOver("cleanupSet", C, t2)
    BY <1>2, <1>3, LoopTasks
<1> HIDE DEF s1, t1, s2, t2
<1>6. /\ alias \in Seq(Task)
      /\ \A j \in 1..Len(alias) : alias[j].op \in {"syncAlias", "cleanupAlias"}
      /\ \A j, k \in 1..Len(alias) : alias[j].node = alias[k].node => j = k
    BY <1>1, <1>4, TwoLoops
<1>7. /\ set \in Seq(Task)
      /\ \A j \in 1..Len(set) : set[j].op \in {"syncSet", "cleanupSet"}
      /\ \A j, k \in 1..Len(set) : set[j].node = set[k].node => j = k
    BY <1>2, <1>5, TwoLoops
<1>8. SyncTasks(d) = all
    <2>1. /\ s1 \in Seq(Task) /\ t1 \in Seq(Task)
          /\ s2 \in Seq(Task) /\ t2 \in Seq(Task)
        BY <1>4, <1>5 DEF TasksOver
    <2>2. SyncTasks(d) = s1 \o t1 \o s2 \o t2
        BY DEF SyncTasks, s1, t1, s2, t2, I, A, L, C
    <2> QED  BY <2>1, <2>2
<1> HIDE DEF alias, set
<1>9. /\ all \in Seq(Task) /\ Len(alias) \in Nat /\ Len(set) \in Nat
      /\ Len(all) = Len(alias) + Len(set)
      /\ \A i \in 1..Len(all) : all[i] = IF i <= Len(alias) THEN alias[i] ELSE set[i - Len(alias)]
    BY <1>6, <1>7, ConcatElements
<1> HIDE DEF all
<1>10. ASSUME NEW j \in 1..Len(all)
       PROVE  \/ j \in 1..Len(alias) /\ all[j] = alias[j] /\ IsAliasTask(all[j])
              \/ /\ j - Len(alias) \in 1..Len(set) /\ all[j] = set[j - Len(alias)]
                 /\ ~IsAliasTask(all[j])
    <2>1. CASE j <= Len(alias)
        BY <1>6, <1>9, <2>1 DEF IsAliasTask
    <2>2. CASE j > Len(alias)
        <3>1. j - Len(alias) \in 1..Len(set) /\ all[j] = set[j - Len(alias)]
            BY <1>9, <2>2
        <3> QED  BY <1>7, <3>1 DEF IsAliasTask
    <2> QED  BY <1>9, <2>1, <2>2
<1>11. ASSUME NEW j \in 1..Len(all), NEW k \in 1..Len(all), j # k, all[j].node = all[k].node
       PROVE  ~(IsAliasTask(all[j]) <=> IsAliasTask(all[k]))
    <2>1. CASE IsAliasTask(all[j]) /\ IsAliasTask(all[k])
        BY <1>6, <1>10, <1>11, <2>1
    <2>2. CASE ~IsAliasTask(all[j]) /\ ~IsAliasTask(all[k])
        <3>1. /\ j - Len(alias) \in 1..Len(set) /\ all[j] = set[j - Len(alias)]
              /\ k - Len(alias) \in 1..Len(set) /\ all[k] = set[k - Len(alias)]
            BY <1>10, <2>2
        <3>2. j - Len(alias) = k - Len(alias)
            BY <1>7, <1>11, <3>1
        <3> QED  BY <1>9, <1>11, <3>2
    <2> QED  BY <2>1, <2>2
<1> QED  BY <1>8, <1>9, <1>11 DEF DistinctTasks

\* The nodes of two loops are those of their lists.
LEMMA TwoLoopsNodes ==
    ASSUME NEW list1, NEW list2, NEW op1, NEW op2, NEW s, NEW t,
           TasksOver(op1, list1, s), TasksOver(op2, list2, t)
    PROVE  \A n : n \in Named(list1) \cup Named(list2)
                    <=> \E j \in 1..Len(s \o t) : (s \o t)[j].node = n
<1> DEFINE st == s \o t
<1>1. s \in Seq(Task) /\ t \in Seq(Task)
    BY DEF TasksOver
<1>2. /\ Len(s) \in Nat /\ Len(t) \in Nat /\ Len(st) = Len(s) + Len(t)
      /\ \A i \in 1..Len(st) : st[i] = IF i <= Len(s) THEN s[i] ELSE t[i - Len(s)]
    BY <1>1, ConcatElements
<1>3. /\ Len(list1) = Len(s) /\ Len(list2) = Len(t)
      /\ \A i \in 1..Len(s) : s[i].node = list1[i].Name
      /\ \A i \in 1..Len(t) : t[i].node = list2[i].Name
    BY DEF TasksOver
<1> HIDE DEF st
<1>4. ASSUME NEW j \in 1..Len(st) PROVE st[j].node \in Named(list1) \cup Named(list2)
    <2>1. CASE j <= Len(s)
        <3>1. j \in 1..Len(s) /\ st[j] = s[j]
            BY <1>2, <2>1
        <3> QED  BY <1>3, <3>1 DEF Named
    <2>2. CASE j > Len(s)
        <3>1. j - Len(s) \in 1..Len(t) /\ st[j] = t[j - Len(s)]
            BY <1>2, <2>2
        <3> QED  BY <1>3, <3>1 DEF Named
    <2> QED  BY <1>2, <2>1, <2>2
<1>5. ASSUME NEW i \in 1..Len(list1) PROVE \E j \in 1..Len(st) : st[j].node = list1[i].Name
    <2>1. i \in 1..Len(st) /\ st[i] = s[i]
        BY <1>2, <1>3
    <2> QED  BY <1>3, <2>1
<1>6. ASSUME NEW i \in 1..Len(list2) PROVE \E j \in 1..Len(st) : st[j].node = list2[i].Name
    <2> DEFINE j == i + Len(s)
    <2>1. j \in 1..Len(st) /\ ~(j <= Len(s)) /\ j - Len(s) = i
        BY <1>2, <1>3
    <2> HIDE DEF j
    <2>2. st[j] = t[i]
        BY <1>2, <2>1
    <2> QED  BY <1>3, <2>1, <2>2
<1> QED  BY <1>4, <1>5, <1>6 DEF Named, st

\* The first tasks, and no other, announce aliases, numbered from zero; a node
\* with a landb-set task has an alias task.
TasksShape(ts) ==
    /\ \E m \in 0..Len(ts) : \A j \in 1..Len(ts) :
        /\ ts[j].op = "syncAlias" <=> j <= m
        /\ ts[j].op = "syncAlias" => ts[j].index = j - 1
    /\ \A j \in 1..Len(ts) : ~IsAliasTask(ts[j]) =>
        \E k \in 1..Len(ts) : IsAliasTask(ts[k]) /\ ts[k].node = ts[j].node

LEMMA SyncTasksShape ==
    ASSUME NEW d, IsDesiredState(d)
    PROVE  TasksShape(SyncTasks(d))
<1> DEFINE I == d.IngressNodes   A == d.StaleAliasNodes
           L == d.LandbSetNodes  C == d.StaleLandbSetNodes
           s1 == Loop("syncAlias", I)  t1 == Loop("cleanupAlias", A)
           s2 == Loop("syncSet", L)    t2 == Loop("cleanupSet", C)
           alias == s1 \o t1
           set == s2 \o t2
           all == alias \o set
<1>1. /\ IsNodeList(I) /\ IsNodeList(A) /\ Disjoint(I, A)
      /\ IsNodeList(L) /\ IsNodeList(C) /\ Disjoint(L, C)
      /\ \A i \in 1..Len(L) : L[i].LandbSet \in LandbSetValue
      /\ Named(L) \cup Named(C) \subseteq Named(I) \cup Named(A)
    BY DEF IsDesiredState
<1> HIDE DEF I, A, L, C
<1>2. TasksOver("syncAlias", I, s1) /\ TasksOver("cleanupAlias", A, t1)
    BY <1>1, LoopTasks
<1>3. TasksOver("syncSet", L, s2) /\ TasksOver("cleanupSet", C, t2)
    BY <1>1, LoopTasks
<1> HIDE DEF s1, t1, s2, t2
<1>4. /\ s1 \in Seq(Task) /\ t1 \in Seq(Task)
      /\ s2 \in Seq(Task) /\ t2 \in Seq(Task)
    BY <1>2, <1>3 DEF TasksOver
<1>5. SyncTasks(d) = all
    <2>1. SyncTasks(d) = s1 \o t1 \o s2 \o t2
        BY DEF SyncTasks, s1, t1, s2, t2, I, A, L, C
    <2> QED  BY <1>4, <2>1
<1>6. /\ alias \in Seq(Task)
      /\ \A j \in 1..Len(alias) : alias[j].op \in {"syncAlias", "cleanupAlias"}
    BY <1>1, <1>2, TwoLoops
<1>7. /\ set \in Seq(Task)
      /\ \A j \in 1..Len(set) : set[j].op \in {"syncSet", "cleanupSet"}
    BY <1>1, <1>3, TwoLoops
<1>8. \A n : n \in Named(I) \cup Named(A) <=> \E j \in 1..Len(alias) : alias[j].node = n
    BY <1>2, TwoLoopsNodes
<1>9. \A n : n \in Named(L) \cup Named(C) <=> \E j \in 1..Len(set) : set[j].node = n
    BY <1>3, TwoLoopsNodes
<1>10. /\ Len(s1) \in Nat /\ Len(t1) \in Nat /\ Len(alias) = Len(s1) + Len(t1)
       /\ \A i \in 1..Len(alias) : alias[i] = IF i <= Len(s1) THEN s1[i] ELSE t1[i - Len(s1)]
    BY <1>4, ConcatElements
<1> HIDE DEF alias, set
<1>11. /\ Len(alias) \in Nat /\ Len(set) \in Nat
       /\ Len(all) = Len(alias) + Len(set)
       /\ \A i \in 1..Len(all) : all[i] = IF i <= Len(alias) THEN alias[i] ELSE set[i - Len(alias)]
    BY <1>6, <1>7, ConcatElements
<1> HIDE DEF all
<1>12. ASSUME NEW j \in 1..Len(alias)
       PROVE  /\ alias[j].op = "syncAlias" <=> j <= Len(s1)
              /\ alias[j].op = "syncAlias" => alias[j].index = j - 1
    <2>1. CASE j <= Len(s1)
        <3>1. j \in 1..Len(s1) /\ alias[j] = s1[j]
            BY <1>10, <2>1
        <3> QED  BY <1>2, <2>1, <3>1 DEF TasksOver
    <2>2. CASE j > Len(s1)
        <3>1. j - Len(s1) \in 1..Len(t1) /\ alias[j] = t1[j - Len(s1)]
            BY <1>10, <2>2
        <3>2. alias[j].op = "cleanupAlias"
            BY <1>2, <3>1 DEF TasksOver
        <3> QED  BY <1>10, <2>2, <3>2
    <2> QED  BY <1>10, <2>1, <2>2
<1>13. Len(s1) \in 0..Len(all) /\ Len(s1) <= Len(alias)
    BY <1>10, <1>11
<1>14. ASSUME NEW j \in 1..Len(all)
       PROVE  \/ j \in 1..Len(alias) /\ all[j] = alias[j] /\ IsAliasTask(all[j])
              \/ /\ j > Len(alias) /\ j - Len(alias) \in 1..Len(set)
                 /\ all[j] = set[j - Len(alias)] /\ ~IsAliasTask(all[j])
    <2>1. CASE j <= Len(alias)
        BY <1>6, <1>11, <2>1 DEF IsAliasTask
    <2>2. CASE j > Len(alias)
        <3>1. j - Len(alias) \in 1..Len(set) /\ all[j] = set[j - Len(alias)]
            BY <1>11, <2>2
        <3> QED  BY <1>7, <2>2, <3>1 DEF IsAliasTask
    <2> QED  BY <1>11, <2>1, <2>2
<1>15. ASSUME NEW j \in 1..Len(all)
       PROVE  /\ all[j].op = "syncAlias" <=> j <= Len(s1)
              /\ all[j].op = "syncAlias" => all[j].index = j - 1
    <2>1. CASE j \in 1..Len(alias) /\ all[j] = alias[j]
        BY <1>12, <2>1
    <2>2. CASE j > Len(alias) /\ ~IsAliasTask(all[j])
        <3>1. ~(j <= Len(s1))
            BY <1>10, <1>13, <2>2
        <3> QED  BY <2>2, <3>1 DEF IsAliasTask
    <2> QED  BY <1>14, <2>1, <2>2
<1>16. ASSUME NEW j \in 1..Len(all), ~IsAliasTask(all[j])
       PROVE  \E k \in 1..Len(all) : IsAliasTask(all[k]) /\ all[k].node = all[j].node
    <2>1. j - Len(alias) \in 1..Len(set) /\ all[j] = set[j - Len(alias)]
        BY <1>14, <1>16
    <2>2. all[j].node \in Named(I) \cup Named(A)
        BY <1>1, <1>9, <2>1
    <2>3. PICK k \in 1..Len(alias) : alias[k].node = all[j].node
        BY <1>8, <2>2
    <2>4. k \in 1..Len(all) /\ k <= Len(alias)
        BY <1>11, <2>3
    <2>5. all[k] = alias[k] /\ IsAliasTask(all[k])
        BY <1>11, <1>6, <2>3, <2>4 DEF IsAliasTask
    <2> QED  BY <2>3, <2>4, <2>5
<1> QED  BY <1>5, <1>13, <1>15, <1>16 DEF TasksShape

-----------------------------------------------------------------------------
(***************************************************************************)
(* The inductive invariant.  A task that has come to a call on a server    *)
(* works on the only untouched server of its node; its plan is right, and, *)
(* but for the keys somebody has edited since the server was read, leads   *)
(* from the metadata to the target.                                        *)
(***************************************************************************)
ServerResolved ==
    pc \in {"read", "update", "delete"} =>
        /\ sid \in NameMatch[task.node]
        /\ Listed(task.node) \ touched \subseteq {sid}
        /\ sid \notin touched => sid \in live

\* Keys are raced in tasks so far, and in the current one only while it has a plan.
RacedInv ==
    \A x \in raced :
        /\ x[1] \in 1..pos
        /\ x[1] = pos => pc \in {"update", "delete"} /\ sid \in touched

EditedKeys == {x[2] : x \in {y \in raced : y[1] = pos}}

ToWrite == IF pc = "update" THEN toUpdate ELSE EmptyMap

PlanInv ==
    pc \in {"update", "delete"} =>
        /\ PlanIsRight(task, toUpdate, toDelete)
        /\ PlanSuffices(task, meta[sid], ToWrite, toDelete, taskFailed, EditedKeys)

FailureRecorded == taskFailed => Excused(pos)

SyncInv ==
    /\ SyncTypeOK
    /\ DistinctTasks(tasks)
    /\ ServerResolved
    /\ RacedInv
    /\ PlanInv
    /\ FailureRecorded
    /\ FailuresExcused

ProviderInv == NovaTypeOK /\ SyncInv /\ ObservedTypeOK

\* The task under way is a task.
LEMMA TaskType ==
    ASSUME SyncTypeOK, pc \in CallPc
    PROVE  pos \in 1..Len(tasks) /\ Len(tasks) \in Nat /\ task \in Task
<1>1. Len(tasks) \in Nat /\ pos \in 1..(Len(tasks) + 1) /\ ~(pos > Len(tasks))
    BY DEF SyncTypeOK, CallPc
<1>2. pos \in 1..Len(tasks)
    BY <1>1
<1> QED  BY <1>1, <1>2, SeqElements DEF SyncTypeOK, task

-----------------------------------------------------------------------------
(***************************************************************************)
(* How a plan evolves as its calls are made.                               *)
(***************************************************************************)

\* updateMetadata completes the part of the plan that writes.
LEMMA PlanAfterUpdate ==
    ASSUME NEW t, NEW m, NEW update, NEW delete, NEW failed,
           NEW edited, PlanIsRight(t, update, delete),
           PlanSuffices(t, m, update, delete, failed, edited)
    PROVE  PlanSuffices(t, Written(update, m), EmptyMap, delete, failed, edited)
BY DEF PlanIsRight, PlanSuffices, Written

\* deleteMetadatum completes the part of the plan about its key.
LEMMA PlanAfterDelete ==
    ASSUME NEW t, NEW m, NEW delete, NEW failed, NEW key \in delete,
           NEW edited, \A k \in delete : k \notin DOMAIN Target(t),
           PlanSuffices(t, m, EmptyMap, delete, failed, edited)
    PROVE  PlanSuffices(t, Without(m, key), EmptyMap, delete \ {key}, failed, edited)
BY EmptyMapType DEF PlanSuffices, Without, Restrict

\* A failed deletion leaves its key behind, and is remembered.
LEMMA PlanAfterFailure ==
    ASSUME NEW t, NEW m, NEW delete, NEW failed, NEW key,
           NEW edited, PlanSuffices(t, m, EmptyMap, delete, failed, edited)
    PROVE  /\ PlanSuffices(t, m, EmptyMap, delete \ {key}, TRUE, edited)
           /\ PlanSuffices(t, m, EmptyMap, delete, TRUE, edited)
BY DEF PlanSuffices

\* A plan knows nothing of the keys edited, and as much as before of the others.
LEMMA PlanAfterEdit ==
    ASSUME NEW t, NEW m, NEW n, NEW update, NEW delete, NEW failed, NEW before, NEW edited,
           PlanSuffices(t, m, update, delete, failed, before), before \subseteq edited,
           \A k : k \notin edited =>
                (k \in DOMAIN n <=> k \in DOMAIN m) /\ (k \in DOMAIN m => n[k] = m[k])
    PROVE  PlanSuffices(t, n, update, delete, failed, edited)
BY DEF PlanSuffices

-----------------------------------------------------------------------------
(***************************************************************************)
(* Leaving a task and going on within a task keep the invariant.           *)
(***************************************************************************)

\* An excuse remains one while the tasks are the same.
LEMMA ExcusedKept ==
    ASSUME NEW j, Excused(j) \/ j \in hit', tasks' = tasks, aliases' = aliases,
           live' = live, touched' = touched, raced' = raced, hit \subseteq hit'
    PROVE  Excused(j)'
<1>1. Target(tasks[j])' = Target(tasks[j])
    BY DEF Target, SuffixedAliases
<1>2. DeleteRaced(j)' = DeleteRaced(j)
    BY <1>1 DEF DeleteRaced, Owns, IsAliasTask
<1> QED  BY <1>2 DEF Excused, Listed, SuffixedAliases

\* EndTask, provided an error has an excuse.
LEMMA EndTaskKeeps ==
    ASSUME SyncInv, pc \in CallPc, NEW f \in BOOLEAN, EndTask(f),
           live' = live, touched' = touched, raced' = raced, hit \subseteq hit',
           f => pos \in hit' \/ Excused(pos)
    PROVE  SyncInv'
<1>1. /\ errs' = (IF f THEN errs \cup {pos} ELSE errs) /\ pos' = pos + 1
      /\ pc' = (IF pos < Len(tasks) THEN "resolve" ELSE "idle")
      /\ retried' = FALSE /\ sid' = NoServer
      /\ toUpdate' = EmptyMap /\ toDelete' = {} /\ taskFailed' = FALSE
      /\ aliases' = aliases /\ tasks' = tasks
    BY DEF EndTask
<1>2. pos \in 1..Len(tasks) /\ Len(tasks) \in Nat
    BY TaskType DEF SyncInv
<1>3. SyncTypeOK'
    <2>1. pos' \in 1..(Len(tasks') + 1) /\ (pc' = "idle" <=> pos' > Len(tasks'))
        BY <1>1, <1>2
    <2>2. errs' \subseteq 1..(pos' - 1)
        <3>1. errs \subseteq 1..(pos - 1)
            BY DEF SyncInv, SyncTypeOK
        <3> QED  BY <1>1, <1>2, <3>1
    <2>3. aliases' \in Seq(Alias) /\ tasks' \in Seq(Task)
        BY <1>1 DEF SyncInv, SyncTypeOK
    <2> QED  BY <1>1, <2>1, <2>2, <2>3, EmptyMapType DEF SyncTypeOK, CallPc
<1>4. DistinctTasks(tasks)'
    BY <1>1 DEF SyncInv
<1>5. (ServerResolved /\ PlanInv /\ FailureRecorded)'
    <2>1. pc' \notin {"read", "update", "delete"} /\ taskFailed' = FALSE
        BY <1>1
    <2> QED  BY <2>1 DEF ServerResolved, PlanInv, FailureRecorded
<1>6. RacedInv'
    <2>1. ASSUME NEW x \in raced PROVE x[1] \in 1..(pos + 1) /\ x[1] # pos + 1
        BY <1>2 DEF SyncInv, RacedInv
    <2> QED  BY <1>1, <2>1 DEF RacedInv
<1>7. FailuresExcused'
    <2>1. ASSUME NEW j \in errs' PROVE Excused(j)'
        <3>1. j \in hit' \/ Excused(j)
            BY <1>1 DEF SyncInv, FailuresExcused
        <3> QED  BY <1>1, <3>1, ExcusedKept
    <2> QED  BY <2>1 DEF FailuresExcused
<1> QED  BY <1>3, <1>4, <1>5, <1>7, <1>6 DEF SyncInv

\* Proceed, provided the rest of the plan leads to the target.
LEMMA ProceedKeeps ==
    ASSUME SyncInv, pc \in {"read", "update", "delete"},
           NEW f \in BOOLEAN, NEW R, Proceed(f, R),
           live' = live, touched' = touched, raced' = raced, hit \subseteq hit',
           \A k \in R : k[1] \in KeyName,
           PlanIsRight(task, toUpdate, R),
           f => pos \in hit' \/ Excused(pos),
           PlanSuffices(task, meta'[sid], EmptyMap, R, f, EditedKeys)
    PROVE  SyncInv'
<1>1. pos \in 1..Len(tasks) /\ Len(tasks) \in Nat /\ pc \in CallPc
    BY TaskType DEF SyncInv, CallPc
<1>2. CASE R = {}
    <2>1. EndTask(f)
        BY <1>2 DEF Proceed
    <2> QED  BY <1>1, <2>1, EndTaskKeeps
<1>3. CASE R # {}
    <2>1. /\ pc' = "delete" /\ toDelete' = R /\ taskFailed' = f /\ retried' = FALSE
          /\ aliases' = aliases /\ tasks' = tasks /\ pos' = pos /\ sid' = sid
          /\ toUpdate' = toUpdate /\ errs' = errs
        BY <1>3 DEF Proceed
    <2>2. SyncTypeOK'
        BY <1>1, <1>3, <2>1 DEF SyncInv, SyncTypeOK, CallPc
    <2>3. (DistinctTasks(tasks) /\ ServerResolved /\ RacedInv)'
        BY <2>1 DEF SyncInv, ServerResolved, RacedInv, task, Listed
    <2>4. PlanInv'
        <3>1. task' = task
            BY <2>1 DEF task
        <3>2. ToWrite' = EmptyMap
            BY <2>1 DEF ToWrite
        <3>3. Target(task)' = Target(task)
            BY <2>1, <3>1 DEF Target, SuffixedAliases
        <3>4. PlanIsRight(task, toUpdate, toDelete)'
            BY <2>1, <3>1, <3>3 DEF PlanIsRight, Owns, IsAliasTask
        <3>5. PlanSuffices(task, meta[sid], EmptyMap, toDelete, taskFailed, EditedKeys)'
            BY <2>1, <3>1, <3>3 DEF PlanSuffices, Owns, IsAliasTask, EmptyMap, EditedKeys
        <3> QED  BY <3>2, <3>4, <3>5 DEF PlanInv
    <2>5. FailureRecorded'
        BY <2>1, ExcusedKept DEF FailureRecorded
    <2>6. FailuresExcused'
        <3>1. \A j \in errs : Excused(j) => Excused(j)'
            BY <2>1, ExcusedKept
        <3> QED  BY <2>1, <3>1 DEF SyncInv, FailuresExcused
    <2> QED  BY <2>2, <2>3, <2>4, <2>5, <2>6 DEF SyncInv
<1> QED  BY <1>2, <1>3

\* A call that returns an error: the task ends, or the next key is deleted.
LEMMA CallReturnsErrorKeeps ==
    ASSUME SyncInv, pc \in CallPc, CallReturnsError,
           live' = live, touched' = touched, raced' = raced, meta' = meta, hit \subseteq hit',
           pos \in hit' \/ Excused(pos)
    PROVE  SyncInv'
<1>1. CASE pc = "delete"
    <2>1. PICK key \in toDelete : Proceed(TRUE, toDelete \ {key})
        BY <1>1 DEF CallReturnsError
    <2>2. /\ PlanIsRight(task, toUpdate, toDelete)
          /\ PlanSuffices(task, meta[sid], EmptyMap, toDelete, taskFailed, EditedKeys)
          /\ \A k \in toDelete : k[1] \in KeyName
        BY <1>1 DEF SyncInv, PlanInv, ToWrite, SyncTypeOK
    <2>3. PlanIsRight(task, toUpdate, toDelete \ {key})
        BY <2>2 DEF PlanIsRight
    <2>4. PlanSuffices(task, meta'[sid], EmptyMap, toDelete \ {key}, TRUE, EditedKeys)
        BY <2>2, PlanAfterFailure
    <2> QED  BY <1>1, <2>1, <2>2, <2>3, <2>4, ProceedKeeps
<1>2. CASE pc # "delete"
    <2>1. EndTask(TRUE)
        BY <1>2 DEF CallReturnsError
    <2> QED  BY <2>1, EndTaskKeeps
<1> QED  BY <1>1, <1>2

-----------------------------------------------------------------------------
(***************************************************************************)
(* Every step keeps the invariant.                                         *)
(***************************************************************************)

\* The metadata stay metadata when one server's change to metadata.
LEMMA NovaTypeKeeps ==
    ASSUME NovaTypeOK, live' \subseteq live, token' \in BOOLEAN,
           NEW s \in Server, NEW m, IsMetadata(m), meta' = [meta EXCEPT ![s] = m]
    PROVE  NovaTypeOK'
BY DEF NovaTypeOK

\* getServerID: the task has its server, or ends because the name denotes no
\* server or several.
LEMMA GetServerIDKeeps ==
    ASSUME SyncInv, getServerID
    PROVE  SyncInv'
<1>1. /\ pc = "resolve" /\ pc \in CallPc
      /\ live' = live /\ touched' = touched /\ raced' = raced /\ hit' = hit
    BY DEF getServerID, CallPc, novaVars
<1>2. CASE \A s \in Server : Listed(task.node) # {s}
    <2>1. EndTask(TRUE)
        BY <1>2 DEF getServerID
    <2>2. Excused(pos)
        BY <1>2 DEF Excused, task
    <2> QED  BY <1>1, <2>1, <2>2, EndTaskKeeps
<1>3. CASE ~ \A s \in Server : Listed(task.node) # {s}
    <2>1. PICK s \in Server :
            /\ Listed(task.node) = {s}
            /\ sid' = s /\ pc' = "read" /\ retried' = FALSE
            /\ UNCHANGED <<aliases, tasks, pos, toUpdate, toDelete, taskFailed, errs>>
        BY <1>3 DEF getServerID
    <2>2. SyncTypeOK'
        BY <1>1, <2>1 DEF SyncInv, SyncTypeOK, CallPc, NoServer
    <2>3. DistinctTasks(tasks)' /\ PlanInv' /\ RacedInv' /\ FailureRecorded'
        <3>1. taskFailed' = FALSE
            BY <1>1, <2>1 DEF SyncInv, SyncTypeOK
        <3>2. RacedInv'
            BY <1>1, <2>1 DEF SyncInv, RacedInv
        <3> QED  BY <1>1, <2>1, <3>1, <3>2 DEF SyncInv, PlanInv, FailureRecorded
    <2>4. ServerResolved'
        BY <1>1, <2>1 DEF ServerResolved, Listed, task
    <2>5. FailuresExcused'
        <3>1. \A j \in errs : Excused(j) => Excused(j)'
            BY <1>1, <2>1, ExcusedKept
        <3> QED  BY <2>1, <3>1 DEF SyncInv, FailuresExcused
    <2> QED  BY <2>2, <2>3, <2>4, <2>5 DEF SyncInv
<1> QED  BY <1>2, <1>3

\* getMetadata: the task gets a plan that leads from what was read to the
\* target, or ends because there is nothing to do.
LEMMA GetMetadataKeeps ==
    ASSUME NovaTypeOK, SyncInv, getMetadata
    PROVE  SyncInv'
<1> DEFINE plan == Plan(task, meta[sid])
<1>1. /\ pc = "read" /\ pc \in CallPc /\ sid \in live
      /\ live' = live /\ meta' = meta /\ touched' = touched /\ raced' = raced /\ hit' = hit
    BY DEF getMetadata, CallPc, novaVars
<1>2. sid \in Server /\ toUpdate = EmptyMap /\ toDelete = {} /\ taskFailed = FALSE
    BY <1>1 DEF SyncInv, SyncTypeOK
<1>3. task \in Task /\ IsMetadata(meta[sid])
    BY <1>1, <1>2, TaskType DEF SyncInv, NovaTypeOK
<1>4. /\ IsMetadata(plan.update)
      /\ PlanIsRight(task, plan.update, plan.delete)
      /\ PlanSuffices(task, meta[sid], plan.update, plan.delete, FALSE, {})
    BY <1>3, PlanCorrect
<1> HIDE DEF plan
<1>5. EditedKeys = {}
    BY <1>1 DEF SyncInv, RacedInv, EditedKeys
<1>6. \A k \in plan.delete : k[1] \in KeyName
    BY <1>3, <1>4 DEF PlanSuffices, IsMetadata
<1>7. CASE plan.update # EmptyMap
    <2>1. /\ pc' = "update" /\ toUpdate' = plan.update /\ toDelete' = plan.delete
          /\ retried' = FALSE
          /\ UNCHANGED <<aliases, tasks, pos, sid, taskFailed, errs>>
        BY <1>7 DEF getMetadata, plan
    <2>2. SyncTypeOK'
        BY <1>1, <1>2, <1>4, <1>6, <2>1 DEF SyncInv, SyncTypeOK, CallPc
    <2>3. (DistinctTasks(tasks) /\ ServerResolved /\ RacedInv /\ FailureRecorded)'
        BY <1>1, <1>2, <2>1 DEF SyncInv, ServerResolved, RacedInv, FailureRecorded, Listed, task
    <2>4. PlanInv'
        <3>1. Target(task)' = Target(task) /\ task' = task
            BY <2>1 DEF Target, SuffixedAliases, task
        <3>2. PlanIsRight(task, toUpdate, toDelete)'
            BY <1>4, <2>1, <3>1 DEF PlanIsRight, Owns, IsAliasTask
        <3>3. ToWrite' = plan.update
            BY <2>1 DEF ToWrite
        <3>4. EditedKeys' = {}
            BY <1>1, <1>5, <2>1 DEF EditedKeys
        <3>5. PlanSuffices(task, meta[sid], ToWrite, toDelete, taskFailed, EditedKeys)'
            BY <1>1, <1>2, <1>4, <2>1, <3>1, <3>3, <3>4 DEF PlanSuffices, Owns, IsAliasTask
        <3> QED  BY <3>2, <3>5 DEF PlanInv
    <2>5. FailuresExcused'
        <3>1. \A j \in errs : Excused(j) => Excused(j)'
            BY <1>1, <2>1, ExcusedKept
        <3> QED  BY <2>1, <3>1 DEF SyncInv, FailuresExcused
    <2> QED  BY <2>2, <2>3, <2>4, <2>5 DEF SyncInv
<1>8. CASE plan.update = EmptyMap
    <2>1. Proceed(FALSE, plan.delete)
        BY <1>8 DEF getMetadata, plan
    <2>2. PlanIsRight(task, toUpdate, plan.delete)
        BY <1>2, <1>4, <1>8
    <2>3. PlanSuffices(task, meta'[sid], EmptyMap, plan.delete, FALSE, EditedKeys)
        BY <1>1, <1>4, <1>8, <1>5
    <2> QED  BY <1>1, <1>6, <2>1, <2>2, <2>3, ProceedKeeps
<1> QED  BY <1>7, <1>8

\* updateMetadata, when it succeeds.
LEMMA UpdateMetadataKeeps ==
    ASSUME NovaTypeOK, SyncInv, updateMetadata
    PROVE  NovaTypeOK' /\ SyncInv'
<1>1. /\ pc = "update" /\ sid \in live /\ Proceed(FALSE, toDelete)
      /\ meta' = [meta EXCEPT ![sid] = Written(toUpdate, meta[sid])]
      /\ live' = live /\ token' = token
      /\ touched' = touched /\ raced' = raced /\ hit' = hit
    BY DEF updateMetadata
<1>2. sid \in Server /\ IsMetadata(toUpdate) /\ taskFailed = FALSE
      /\ \A k \in toDelete : k[1] \in KeyName
    BY <1>1 DEF SyncInv, SyncTypeOK
<1>3. IsMetadata(Written(toUpdate, meta[sid]))
    BY <1>2, WrittenType DEF NovaTypeOK
<1>4. NovaTypeOK'
    <2>1. token \in BOOLEAN
        BY DEF NovaTypeOK
    <2> QED  BY <1>1, <1>2, <1>3, <2>1, NovaTypeKeeps
<1>5. PlanIsRight(task, toUpdate, toDelete)
    BY <1>1 DEF SyncInv, PlanInv
<1>6. meta'[sid] = Written(toUpdate, meta[sid])
    BY <1>1, <1>2 DEF NovaTypeOK
<1>7. PlanSuffices(task, meta'[sid], EmptyMap, toDelete, FALSE, EditedKeys)
    <2>1. PlanSuffices(task, meta[sid], toUpdate, toDelete, FALSE, EditedKeys)
        BY <1>1, <1>2 DEF SyncInv, PlanInv, ToWrite
    <2> QED  BY <1>5, <1>6, <2>1, PlanAfterUpdate
<1>8. SyncInv'
    BY <1>1, <1>2, <1>5, <1>7, ProceedKeeps
<1> QED  BY <1>4, <1>8

\* A key is deleted from the server of the task, with or without an answer.
LEMMA DeletedKeeps ==
    ASSUME NovaTypeOK, SyncInv, pc = "delete", sid \in live, NEW f \in BOOLEAN,
           NEW key \in toDelete, Proceed(f, toDelete \ {key}),
           meta' = [meta EXCEPT ![sid] = Without(meta[sid], key)],
           live' = live, token' = token, touched' = touched, raced' = raced,
           hit \subseteq hit',
           f = taskFailed \/ (f = TRUE /\ pos \in hit')
    PROVE  NovaTypeOK' /\ SyncInv'
<1>1. sid \in Server /\ \A k \in toDelete : k[1] \in KeyName
    BY DEF SyncInv, SyncTypeOK
<1>2. IsMetadata(Without(meta[sid], key))
    BY <1>1, WithoutType DEF NovaTypeOK
<1>3. NovaTypeOK'
    <2>1. token \in BOOLEAN
        BY DEF NovaTypeOK
    <2> QED  BY <1>1, <1>2, <2>1, NovaTypeKeeps
<1>4. PlanIsRight(task, toUpdate, toDelete)
    BY DEF SyncInv, PlanInv
<1>5. PlanIsRight(task, toUpdate, toDelete \ {key})
    BY <1>4 DEF PlanIsRight
<1>6. meta'[sid] = Without(meta[sid], key)
    BY <1>1 DEF NovaTypeOK
<1>7. PlanSuffices(task, meta'[sid], EmptyMap, toDelete \ {key}, f, EditedKeys)
    <2>1. PlanSuffices(task, meta[sid], EmptyMap, toDelete, taskFailed, EditedKeys)
        BY DEF SyncInv, PlanInv, ToWrite
    <2>2. \A k \in toDelete : k \notin DOMAIN Target(task)
        BY <1>4 DEF PlanIsRight
    <2>3. PlanSuffices(task, meta'[sid], EmptyMap, toDelete \ {key}, taskFailed, EditedKeys)
        BY <1>6, <2>1, <2>2, PlanAfterDelete
    <2> QED  BY <2>3, PlanAfterFailure
<1>8. f => pos \in hit' \/ Excused(pos)
    BY DEF SyncInv, FailureRecorded
<1>9. SyncInv'
    BY <1>1, <1>5, <1>7, <1>8, ProceedKeeps
<1> QED  BY <1>3, <1>9

\* Nova answers 404: only for a server that was deleted during this Sync, or a
\* key that was edited after it was read.
LEMMA NotFoundKeeps ==
    ASSUME SyncInv, NotFound
    PROVE  SyncInv'
<1>1. /\ pc \in {"read", "update", "delete"} /\ pc \in CallPc
      /\ live' = live /\ meta' = meta /\ touched' = touched /\ raced' = raced /\ hit' = hit
    BY DEF NotFound, ReadyToCall, CallPc, novaVars
<1>2. CASE sid \notin live /\ CallReturnsError
    <2>1. sid \in (NameMatch[task.node] \cap touched) \ live
        BY <1>1, <1>2 DEF SyncInv, ServerResolved
    <2>2. Excused(pos)
        BY <2>1 DEF Excused, task
    <2> QED  BY <1>1, <1>2, <2>2, CallReturnsErrorKeeps
<1>3. CASE /\ pc = "delete"
           /\ \E key \in toDelete \ DOMAIN meta[sid] : Proceed(TRUE, toDelete \ {key})
    <2>1. PICK key \in toDelete \ DOMAIN meta[sid] : Proceed(TRUE, toDelete \ {key})
        BY <1>3
    <2>2. /\ PlanIsRight(task, toUpdate, toDelete)
          /\ PlanSuffices(task, meta[sid], EmptyMap, toDelete, taskFailed, EditedKeys)
          /\ \A k \in toDelete : k[1] \in KeyName
        BY <1>3 DEF SyncInv, PlanInv, ToWrite, SyncTypeOK
    <2>3. Excused(pos)
        <3>1. key \in EditedKeys /\ Owns(task, key) /\ key \notin DOMAIN Target(task)
            BY <2>1, <2>2 DEF PlanSuffices, PlanIsRight
        <3>2. DeleteRaced(pos)
            BY <3>1 DEF EditedKeys, DeleteRaced, task
        <3> QED  BY <3>2 DEF Excused
    <2>4. PlanIsRight(task, toUpdate, toDelete \ {key})
        BY <2>2 DEF PlanIsRight
    <2>5. PlanSuffices(task, meta'[sid], EmptyMap, toDelete \ {key}, TRUE, EditedKeys)
        BY <1>1, <2>2, PlanAfterFailure
    <2> QED  BY <1>1, <2>1, <2>2, <2>3, <2>4, <2>5, ProceedKeeps
<1> QED  BY <1>2, <1>3 DEF NotFound

\* packAliases fails before the first call.
LEMMA PackingFailsKeeps ==
    ASSUME SyncInv, PackingFails
    PROVE  SyncInv'
<1>1. /\ pc \in CallPc /\ EndTask(TRUE) /\ live' = live
      /\ touched' = touched /\ raced' = raced /\ hit' = hit
    BY DEF PackingFails, CallPc, novaVars
<1>2. Excused(pos)
    BY DEF PackingFails, Excused, task
<1> QED  BY <1>1, <1>2, EndTaskKeeps

\* A call rejected for the first time is about to be repeated.
LEMMA ReauthenticateKeeps ==
    ASSUME NovaTypeOK, SyncInv, Reauthenticate
    PROVE  NovaTypeOK' /\ SyncInv'
<1>1. /\ token' = TRUE /\ retried' = TRUE
      /\ UNCHANGED <<live, meta, aliases, tasks, pos, pc, sid, toUpdate, toDelete,
                     taskFailed, errs, edits, faults, touched, raced, hit>>
    BY DEF Reauthenticate
<1>2. NovaTypeOK'
    BY <1>1 DEF NovaTypeOK
<1>3. SyncTypeOK'
    BY <1>1 DEF SyncInv, SyncTypeOK
<1>4. (DistinctTasks(tasks) /\ ServerResolved /\ RacedInv /\ FailureRecorded)'
    BY <1>1, ExcusedKept DEF SyncInv, ServerResolved, RacedInv, FailureRecorded, Listed, task
<1>5. PlanInv'
    BY <1>1 DEF SyncInv, PlanInv, PlanIsRight, PlanSuffices, ToWrite, EmptyMap, Target,
                SuffixedAliases, Owns, IsAliasTask, EditedKeys, task
<1>6. FailuresExcused'
    BY <1>1, ExcusedKept DEF SyncInv, FailuresExcused
<1> QED  BY <1>2, <1>3, <1>4, <1>5, <1>6 DEF SyncInv

\* The calls that fail without effect.
LEMMA FailedCallKeeps ==
    ASSUME SyncInv, AuthenticationFails \/ RejectedAgain \/ CallFails
    PROVE  SyncInv'
<1>1. /\ pc \in CallPc /\ CallReturnsError /\ hit' = hit \cup {pos}
      /\ live' = live /\ meta' = meta /\ touched' = touched /\ raced' = raced
    BY DEF AuthenticationFails, RejectedAgain, CallFails, ReadyToCall, novaVars
<1> QED  BY <1>1, CallReturnsErrorKeeps

\* The calls that take effect although their answer is lost.
LEMMA AnswerLostKeeps ==
    ASSUME NovaTypeOK, SyncInv, AnswerLost
    PROVE  NovaTypeOK' /\ SyncInv'
<1>1. /\ pc \in CallPc /\ sid \in live /\ hit' = hit \cup {pos}
      /\ live' = live /\ token' = token /\ touched' = touched /\ raced' = raced
    BY DEF AnswerLost, ReadyToCall
<1>2. CASE /\ pc = "update" /\ EndTask(TRUE)
           /\ meta' = [meta EXCEPT ![sid] = Written(toUpdate, meta[sid])]
    <2>1. sid \in Server /\ IsMetadata(toUpdate)
        BY <1>2 DEF SyncInv, SyncTypeOK
    <2>2. IsMetadata(Written(toUpdate, meta[sid]))
        BY <2>1, WrittenType DEF NovaTypeOK
    <2>3. NovaTypeOK'
        <3>1. token \in BOOLEAN
            BY DEF NovaTypeOK
        <3> QED  BY <1>1, <1>2, <2>1, <2>2, <3>1, NovaTypeKeeps
    <2>4. SyncInv'
        BY <1>1, <1>2, EndTaskKeeps
    <2> QED  BY <2>3, <2>4
<1>3. CASE /\ pc = "delete"
           /\ \E key \in toDelete :
                /\ meta' = [meta EXCEPT ![sid] = Without(meta[sid], key)]
                /\ Proceed(TRUE, toDelete \ {key})
    BY <1>1, <1>3, DeletedKeeps
<1> QED  BY <1>2, <1>3 DEF AnswerLost

\* A call by the provider, whatever its outcome.
LEMMA CallKeeps ==
    ASSUME NovaTypeOK, SyncInv, Call
    PROVE  NovaTypeOK' /\ SyncInv'
<1>1. ASSUME UNCHANGED novaVars PROVE NovaTypeOK'
    BY <1>1 DEF NovaTypeOK, novaVars
<1>2. CASE PackingFails
    BY <1>1, <1>2, PackingFailsKeeps DEF PackingFails
<1>3. CASE getServerID
    BY <1>1, <1>3, GetServerIDKeeps DEF getServerID
<1>4. CASE getMetadata
    BY <1>1, <1>4, GetMetadataKeeps DEF getMetadata
<1>5. CASE updateMetadata
    BY <1>5, UpdateMetadataKeeps
<1>6. CASE deleteMetadatum
    <2>1. PICK key \in toDelete :
            /\ meta' = [meta EXCEPT ![sid] = Without(meta[sid], key)]
            /\ Proceed(taskFailed, toDelete \ {key})
        BY <1>6 DEF deleteMetadatum
    <2>2. /\ pc = "delete" /\ sid \in live /\ taskFailed \in BOOLEAN
          /\ live' = live /\ token' = token
          /\ touched' = touched /\ raced' = raced /\ hit' = hit
        BY <1>6 DEF deleteMetadatum, SyncInv, SyncTypeOK
    <2> QED  BY <2>1, <2>2, DeletedKeeps
<1>7. CASE NotFound
    BY <1>1, <1>7, NotFoundKeeps DEF NotFound
<1>8. CASE Reauthenticate
    BY <1>8, ReauthenticateKeeps
<1>9. CASE AuthenticationFails \/ RejectedAgain \/ CallFails
    BY <1>1, <1>9, FailedCallKeeps DEF AuthenticationFails, RejectedAgain, CallFails
<1>10. CASE AnswerLost
    BY <1>10, AnswerLostKeeps
<1> QED  BY <1>2, <1>3, <1>4, <1>5, <1>6, <1>7, <1>8, <1>9, <1>10 DEF Call

\* What the provider cannot influence: the token expires, somebody edits or
\* deletes a server.  An edit of the server of the task under way, between the
\* read and the writes, is noted with its key and changes no other key.
LEMMA WorldStep ==
    ASSUME NovaTypeOK, World
    PROVE  /\ UNCHANGED <<syncVars, hit>>
           /\ live' \subseteq live /\ touched \subseteq touched' /\ raced \subseteq raced'
           /\ \A s \in Server \ touched' : (s \in live => s \in live') /\ meta'[s] = meta[s]
           /\ \A x \in raced' \ raced :
                x[1] = pos /\ pc \in {"update", "delete"} /\ sid \in touched'
           /\ sid \in Server /\ pc \in {"update", "delete"} =>
                \A k : <<pos, k>> \notin raced' =>
                    /\ k \in DOMAIN meta'[sid] <=> k \in DOMAIN meta[sid]
                    /\ k \in DOMAIN meta[sid] => meta'[sid][k] = meta[sid][k]
<1>1. CASE TokenExpires
    BY <1>1 DEF TokenExpires
<1>2. ASSUME NEW s \in Server, ServerDeleted(s)
      PROVE  /\ UNCHANGED <<syncVars, hit, meta, raced>> /\ live' = live \ {s}
             /\ touched' = touched \cup {s}
    BY <1>2 DEF ServerDeleted
<1>3. ASSUME NEW s \in Server, ManualEdit(s)
      PROVE  /\ UNCHANGED <<syncVars, hit, live>> /\ touched' = touched \cup {s}
             /\ \E key : /\ raced' = IF s = sid /\ pc \in {"update", "delete"}
                                     THEN raced \cup {<<pos, key>>} ELSE raced
                         /\ \A x \in Server \ {s} : meta'[x] = meta[x]
                         /\ \A k : k # key =>
                                /\ k \in DOMAIN meta'[s] <=> k \in DOMAIN meta[s]
                                /\ k \in DOMAIN meta[s] => meta'[s][k] = meta[s][k]
    <2>1. PICK w \in ManualWrite :
            /\ \/ meta' = [meta EXCEPT ![s] = Written([k \in {w.key} |-> w.value], meta[s])]
               \/ meta' = [meta EXCEPT ![s] = Without(meta[s], w.key)]
            /\ raced' = IF s = sid /\ pc \in {"update", "delete"}
                        THEN raced \cup {<<pos, w.key>>} ELSE raced
        BY <1>3 DEF ManualEdit
    <2>2. meta = [x \in Server |-> meta[x]]
        BY DEF NovaTypeOK
    <2>3. \A x \in Server \ {s} : meta'[x] = meta[x]
        BY <2>1, <2>2
    <2>4. \/ meta'[s] = Written([k \in {w.key} |-> w.value], meta[s])
          \/ meta'[s] = Without(meta[s], w.key)
        BY <2>1, <2>2
    <2>5. ASSUME NEW k, k # w.key
          PROVE  /\ k \in DOMAIN meta'[s] <=> k \in DOMAIN meta[s]
                 /\ k \in DOMAIN meta[s] => meta'[s][k] = meta[s][k]
        BY <2>4, <2>5 DEF Written, Without, Restrict
    <2>6. UNCHANGED <<syncVars, hit, live>> /\ touched' = touched \cup {s}
        BY <1>3 DEF ManualEdit
    <2> QED  BY <2>1, <2>3, <2>5, <2>6
<1>4. ASSUME NEW s \in Server, ManualEdit(s), sid \in Server, pc \in {"update", "delete"},
             NEW k, <<pos, k>> \notin raced'
      PROVE  /\ k \in DOMAIN meta'[sid] <=> k \in DOMAIN meta[sid]
             /\ k \in DOMAIN meta[sid] => meta'[sid][k] = meta[sid][k]
    <2>1. CASE s = sid
        BY <1>3, <1>4, <2>1
    <2>2. CASE s # sid
        BY <1>3, <1>4, <2>2
    <2> QED  BY <2>1, <2>2
<1>5. ASSUME NEW s \in Server, ManualEdit(s)
      PROVE  \A x \in raced' \ raced :
                x[1] = pos /\ pc \in {"update", "delete"} /\ sid \in touched'
    BY <1>3, <1>5
<1>6. ASSUME NEW s \in Server, ManualEdit(s)
      PROVE  /\ UNCHANGED <<syncVars, hit, live>> /\ touched \subseteq touched'
             /\ raced \subseteq raced' /\ \A x \in Server \ touched' : meta'[x] = meta[x]
    BY <1>3, <1>6
<1> QED  BY <1>1, <1>2, <1>4, <1>5, <1>6 DEF World

\* An excuse remains one, whatever the world does.
LEMMA ExcusedInWorld ==
    ASSUME NovaTypeOK, World, NEW j, Excused(j)
    PROVE  Excused(j)'
<1>1. /\ tasks' = tasks /\ aliases' = aliases /\ hit' = hit
      /\ live' \subseteq live /\ touched \subseteq touched' /\ raced \subseteq raced'
      /\ \A s \in Server \ touched' : s \in live => s \in live'
    BY WorldStep DEF syncVars
<1>2. DeleteRaced(j) => DeleteRaced(j)'
    <2>1. Target(tasks[j])' = Target(tasks[j])
        BY <1>1 DEF Target, SuffixedAliases
    <2> QED  BY <1>1, <2>1 DEF DeleteRaced, Owns, IsAliasTask
<1>3. (NameMatch[tasks[j].node] \cap touched) \ live # {}
        => ((NameMatch[tasks[j].node] \cap touched) \ live # {})'
    BY <1>1
<1>4. CASE \A s \in Server : Listed(tasks[j].node) # {s}
    <2>1. CASE Listed(tasks[j].node)' = Listed(tasks[j].node)
        BY <1>1, <1>4, <2>1 DEF Excused
    <2>2. CASE Listed(tasks[j].node)' # Listed(tasks[j].node)
        <3>1. PICK s \in live \cap NameMatch[tasks[j].node] : s \notin live'
            BY <1>1, <2>2 DEF Listed
        <3>2. s \in ((NameMatch[tasks[j].node] \cap touched) \ live)'
            BY <1>1, <3>1 DEF NovaTypeOK
        <3> QED  BY <3>2 DEF Excused
    <2> QED  BY <2>1, <2>2
<1>5. Packable(SuffixedAliases(tasks[j]))' = Packable(SuffixedAliases(tasks[j]))
    BY <1>1 DEF SuffixedAliases
<1> QED  BY <1>1, <1>2, <1>3, <1>4, <1>5 DEF Excused

\* The world keeps the invariant.
LEMMA WorldKeeps ==
    ASSUME NovaTypeOK, SyncInv, World
    PROVE  NovaTypeOK' /\ SyncInv'
<1>1. UNCHANGED <<syncVars, hit>> /\ live' \subseteq live /\ touched \subseteq touched'
    BY WorldStep
<1>2. \A s \in Server \ touched' : (s \in live => s \in live') /\ meta'[s] = meta[s]
    BY WorldStep
<1>3. NovaTypeOK'
    <2>1. CASE TokenExpires
        BY <2>1 DEF TokenExpires, NovaTypeOK
    <2>2. ASSUME NEW s \in Server, ManualEdit(s) PROVE NovaTypeOK'
        <3>1. token' \in BOOLEAN /\ live' \subseteq live /\ IsMetadata(meta[s])
            BY <2>2 DEF ManualEdit, NovaTypeOK
        <3>2. ASSUME NEW w \in ManualWrite,
                     meta' = [meta EXCEPT ![s] = Written([k \in {w.key} |-> w.value], meta[s])]
              PROVE  NovaTypeOK'
            <4>1. IsMetadata([k \in {w.key} |-> w.value])
                BY ProviderAssumption
            <4>2. IsMetadata(Written([k \in {w.key} |-> w.value], meta[s]))
                BY <3>1, <4>1, WrittenType
            <4> QED  BY <3>1, <3>2, <4>2, NovaTypeKeeps
        <3>3. ASSUME NEW w \in ManualWrite, meta' = [meta EXCEPT ![s] = Without(meta[s], w.key)]
              PROVE  NovaTypeOK'
            <4>1. IsMetadata(Without(meta[s], w.key))
                BY <3>1, WithoutType
            <4> QED  BY <3>1, <3>3, <4>1, NovaTypeKeeps
        <3> QED  BY <2>2, <3>2, <3>3 DEF ManualEdit
    <2>3. ASSUME NEW s \in Server, ServerDeleted(s) PROVE NovaTypeOK'
        BY <2>3 DEF ServerDeleted, NovaTypeOK
    <2> QED  BY <2>1, <2>2, <2>3 DEF World
<1>4. SyncTypeOK' /\ DistinctTasks(tasks)' /\ FailureRecorded'
    <2>1. taskFailed' = taskFailed /\ pos' = pos
        BY <1>1 DEF syncVars, taskVars
    <2>2. FailureRecorded'
        BY <2>1, ExcusedInWorld DEF SyncInv, FailureRecorded
    <2> QED  BY <1>1, <2>2 DEF SyncInv, SyncTypeOK, syncVars, taskVars
<1>5. pc \in {"read", "update", "delete"} => sid \in Server
    BY DEF SyncInv, SyncTypeOK
<1>6. ServerResolved'
    BY <1>1, <1>2, <1>5 DEF SyncInv, ServerResolved, Listed, task, syncVars, taskVars
<1>7. RacedInv'
    <2>1. pos' = pos /\ pc' = pc /\ sid' = sid
        BY <1>1 DEF syncVars, taskVars
    <2>2. ASSUME NEW x \in raced' \ raced
          PROVE  x[1] \in 1..pos /\ pc \in {"update", "delete"} /\ sid \in touched'
        <3>1. x[1] = pos /\ pc \in {"update", "delete"} /\ sid \in touched'
            BY WorldStep
        <3>2. pos \in 1..Len(tasks) /\ Len(tasks) \in Nat
            BY <3>1, TaskType DEF SyncInv, CallPc
        <3> QED  BY <3>1, <3>2
    <2>3. ASSUME NEW x \in raced
          PROVE  x[1] \in 1..pos /\ (x[1] = pos => pc \in {"update", "delete"} /\ sid \in touched')
        BY <1>1 DEF SyncInv, RacedInv
    <2> QED  BY <2>1, <2>2, <2>3 DEF RacedInv
<1>8. PlanInv'
    <2>1. Target(task)' = Target(task) /\ task' = task /\ ToWrite' = ToWrite
        BY <1>1 DEF Target, SuffixedAliases, task, ToWrite, EmptyMap, syncVars, taskVars
    <2>2. PlanIsRight(task, toUpdate, toDelete) => PlanIsRight(task, toUpdate, toDelete)'
        BY <1>1, <2>1 DEF PlanIsRight, Owns, IsAliasTask, syncVars, taskVars
    <2>3. pc' = pc /\ sid' = sid /\ pos' = pos /\ toDelete' = toDelete /\ taskFailed' = taskFailed
        BY <1>1 DEF syncVars, taskVars
    <2>4. ASSUME pc \in {"update", "delete"},
                 PlanSuffices(task, meta[sid], ToWrite, toDelete, taskFailed, EditedKeys)
          PROVE  PlanSuffices(task, meta[sid], ToWrite, toDelete, taskFailed, EditedKeys)'
        <3>1. EditedKeys \subseteq EditedKeys'
            BY <2>3, WorldStep DEF EditedKeys
        <3>2. ASSUME NEW k, k \notin EditedKeys'
              PROVE  /\ k \in DOMAIN meta'[sid] <=> k \in DOMAIN meta[sid]
                     /\ k \in DOMAIN meta[sid] => meta'[sid][k] = meta[sid][k]
            <4>1. <<pos, k>> \notin raced'
                BY <2>3, <3>2 DEF EditedKeys
            <4> QED  BY <1>5, <2>4, <4>1, WorldStep
        <3>3. PlanSuffices(task, meta'[sid], ToWrite, toDelete, taskFailed, EditedKeys')
            BY <2>4, <3>1, <3>2, PlanAfterEdit
        <3> QED  BY <2>1, <2>3, <3>3 DEF PlanSuffices, Owns, IsAliasTask
    <2> QED  BY <2>2, <2>3, <2>4 DEF SyncInv, PlanInv
<1>9. FailuresExcused'
    <2>1. errs' = errs
        BY <1>1 DEF syncVars
    <2> QED  BY <2>1, ExcusedInWorld DEF SyncInv, FailuresExcused
<1> QED  BY <1>3, <1>4, <1>6, <1>7, <1>8, <1>9 DEF SyncInv

\* Sync begins.
LEMMA StartSyncKeeps ==
    ASSUME NovaTypeOK, SyncInv, NEW d \in DesiredStates, StartSync(d)
    PROVE  NovaTypeOK' /\ SyncInv'
<1>1. /\ pc = "idle" /\ aliases' = d.Aliases /\ tasks' = SyncTasks(d)
      /\ pos' = 1 /\ errs' = {} /\ pc' = (IF tasks' = <<>> THEN "idle" ELSE "resolve")
      /\ raced' = {} /\ UNCHANGED <<novaVars, taskVars>>
    BY DEF StartSync
<1>2. IsDesiredState(d)
    BY ProviderAssumption
<1>3. SyncTasks(d) \in Seq(Task) /\ DistinctTasks(SyncTasks(d))
    BY <1>2, SyncTasksCorrect
<1>4. d.Aliases \in Seq(Alias)
    BY <1>2 DEF IsDesiredState
<1>5. pos' \in 1..(Len(tasks') + 1) /\ (pc' = "idle" <=> pos' > Len(tasks'))
    <2> HIDE DEF Task
    <2>1. tasks' \in Seq(Task)
        BY <1>1, <1>3
    <2>2. Len(tasks') \in Nat /\ (tasks' = <<>> <=> Len(tasks') = 0)
        BY <2>1
    <2> QED  BY <1>1, <2>2
<1>6. SyncTypeOK'
    <2>1. /\ retried' \in BOOLEAN /\ taskFailed' = FALSE /\ sid' = NoServer
          /\ toUpdate' = EmptyMap /\ toDelete' = {}
        BY <1>1 DEF SyncInv, SyncTypeOK, taskVars
    <2>2. pc' \in {"idle", "resolve"} /\ aliases' \in Seq(Alias) /\ tasks' \in Seq(Task)
        BY <1>1, <1>3, <1>4
    <2> QED  BY <1>1, <1>5, <2>1, <2>2, EmptyMapType DEF SyncTypeOK, CallPc
<1>7. DistinctTasks(tasks)'
    BY <1>1, <1>3
<1>8. (ServerResolved /\ RacedInv /\ PlanInv)'
    BY <1>1 DEF ServerResolved, RacedInv, PlanInv
<1>9. FailureRecorded' /\ FailuresExcused'
    BY <1>1, <1>6 DEF FailureRecorded, FailuresExcused, SyncTypeOK
<1>10. NovaTypeOK'
    BY <1>1 DEF NovaTypeOK, novaVars
<1> QED  BY <1>6, <1>7, <1>8, <1>9, <1>10 DEF SyncInv

\* The invariant holds at the start.
LEMMA ProviderInit == Init => ProviderInv
<1> SUFFICES ASSUME Init PROVE ProviderInv
    OBVIOUS
<1>1. NovaTypeOK
    BY ProviderAssumption DEF Init, NovaTypeOK
<1>2. /\ aliases = <<>> /\ tasks = <<>> /\ pos = 1 /\ pc = "idle" /\ errs = {}
      /\ retried = FALSE /\ sid = NoServer /\ toUpdate = EmptyMap /\ toDelete = {}
      /\ taskFailed = FALSE /\ raced = {}
    BY DEF Init
<1>3. Len(tasks) = 0 /\ tasks \in Seq(Task) /\ aliases \in Seq(Alias)
    BY <1>2
<1>4. SyncTypeOK
    <2>1. pos \in 1..(Len(tasks) + 1) /\ pos > Len(tasks)
        BY <1>2, <1>3
    <2> QED  BY <1>2, <1>3, <2>1, EmptyMapType DEF SyncTypeOK, CallPc
<1>5. /\ DistinctTasks(tasks) /\ ServerResolved /\ RacedInv /\ PlanInv /\ FailureRecorded
      /\ FailuresExcused
    BY <1>2, <1>3 DEF DistinctTasks, ServerResolved, RacedInv, PlanInv, FailureRecorded, FailuresExcused
<1>6. ObservedTypeOK
    BY ProviderAssumption DEF Init, ObservedTypeOK
<1> QED  BY <1>1, <1>4, <1>5, <1>6 DEF ProviderInv, SyncInv

\* The bounds and observations keep their types.
LEMMA ObservedKeeps ==
    ASSUME ProviderInv, [Next]_vars
    PROVE  ObservedTypeOK'
<1>1. /\ MaxEdits \in Nat /\ MaxFaults \in Nat
      /\ touched \subseteq Server /\ hit \subseteq 1..Len(tasks)
      /\ edits \in 0..MaxEdits /\ faults \in 0..MaxFaults
      /\ \A x \in raced : x[1] \in 1..Len(tasks) /\ x[2][1] \in KeyName
    BY ProviderAssumption DEF ProviderInv, ObservedTypeOK
<1>2. CASE Call
    <2>1. /\ tasks' = tasks /\ touched' = touched /\ raced' = raced /\ edits' = edits
          /\ pc \in CallPc
        BY <1>2 DEF Call, PackingFails, getServerID, getMetadata, updateMetadata, deleteMetadatum,
                    NotFound, Reauthenticate, AuthenticationFails, RejectedAgain, CallFails,
                    AnswerLost, ReadyToCall, CallReturnsError, Proceed, EndTask, CallPc
    <2>2. pos \in 1..Len(tasks)
        BY <2>1, TaskType DEF ProviderInv, SyncInv
    <2>3. hit' \in {hit, hit \cup {pos}}
        BY <1>2 DEF Call, PackingFails, getServerID, getMetadata, updateMetadata, deleteMetadatum,
                    NotFound, Reauthenticate, AuthenticationFails, RejectedAgain, CallFails, AnswerLost
    <2>4. faults' = faults \/ (faults < MaxFaults /\ faults' = faults + 1)
        BY <1>2 DEF Call, PackingFails, getServerID, getMetadata, updateMetadata, deleteMetadatum,
                    NotFound, Reauthenticate, AuthenticationFails, RejectedAgain, CallFails, AnswerLost
    <2>5. faults' \in 0..MaxFaults
        BY <1>1, <2>4
    <2> QED  BY <1>1, <2>1, <2>2, <2>3, <2>5 DEF ObservedTypeOK
<1>3. CASE World
    <2>1. tasks' = tasks /\ hit' = hit /\ faults' = faults
        BY <1>3 DEF World, TokenExpires, ManualEdit, ServerDeleted, syncVars
    <2>2. edits' = edits \/ (edits < MaxEdits /\ edits' = edits + 1)
        BY <1>3 DEF World, TokenExpires, ManualEdit, ServerDeleted
    <2>3. touched' \subseteq Server
        BY <1>1, <1>3 DEF World, TokenExpires, ManualEdit, ServerDeleted
    <2>4. edits' \in 0..MaxEdits
        BY <1>1, <2>2
    <2>5. ASSUME NEW x \in raced' \ raced PROVE x[1] \in 1..Len(tasks) /\ x[2][1] \in KeyName
        <3>1. x[1] = pos /\ pc \in CallPc
            BY WorldStep, <1>3 DEF ProviderInv, CallPc
        <3>2. \E w \in ManualWrite : x[2] = w.key
            <4>1. PICK s \in Server : ManualEdit(s)
                BY <1>3 DEF World, TokenExpires, ServerDeleted
            <4>2. PICK w \in ManualWrite : raced' \in {raced, raced \cup {<<pos, w.key>>}}
                BY <4>1 DEF ManualEdit
            <4> QED  BY <4>2
        <3>3. \A w \in ManualWrite : w.key[1] \in KeyName
            BY ProviderAssumption DEF IsMetadata
        <3> QED  BY <3>1, <3>2, <3>3, TaskType DEF ProviderInv, SyncInv
    <2> QED  BY <1>1, <2>1, <2>3, <2>4, <2>5 DEF ObservedTypeOK
<1>4. CASE \E d \in DesiredStates : StartSync(d)
    BY <1>1, <1>4 DEF StartSync, ObservedTypeOK
<1>5. CASE UNCHANGED vars
    BY <1>1, <1>5 DEF vars, syncVars, taskVars, novaVars, ObservedTypeOK
<1> QED  BY <1>2, <1>3, <1>4, <1>5 DEF Next

\* Every step keeps the invariant.
LEMMA ProviderStep == ProviderInv /\ [Next]_vars => ProviderInv'
<1> SUFFICES ASSUME ProviderInv, [Next]_vars PROVE ProviderInv'
    OBVIOUS
<1>1. ObservedTypeOK'
    BY ObservedKeeps
<1>2. NovaTypeOK /\ SyncInv
    BY DEF ProviderInv
<1>3. CASE Call
    BY <1>1, <1>2, <1>3, CallKeeps DEF ProviderInv
<1>4. CASE World
    BY <1>1, <1>2, <1>4, WorldKeeps DEF ProviderInv
<1>5. ASSUME NEW d \in DesiredStates, StartSync(d) PROVE ProviderInv'
    BY <1>1, <1>2, <1>5, StartSyncKeeps DEF ProviderInv
<1>6. CASE UNCHANGED vars
    <2>1. /\ NovaTypeOK' /\ SyncTypeOK' /\ DistinctTasks(tasks)' /\ ServerResolved'
          /\ RacedInv'
        BY <1>2, <1>6 DEF vars, syncVars, taskVars, novaVars, NovaTypeOK, SyncInv, SyncTypeOK,
                          ServerResolved, RacedInv, Listed, task
    <2>2. PlanInv'
        BY <1>2, <1>6 DEF vars, syncVars, taskVars, novaVars, SyncInv, PlanInv, PlanIsRight,
             PlanSuffices, ToWrite, EmptyMap, Target, SuffixedAliases, Owns, IsAliasTask,
             EditedKeys, task
    <2>3. FailureRecorded' /\ FailuresExcused'
        BY <1>2, <1>6, ExcusedKept DEF vars, syncVars, taskVars, novaVars, SyncInv,
             FailureRecorded, FailuresExcused
    <2> QED  BY <1>1, <2>1, <2>2, <2>3 DEF ProviderInv, SyncInv
<1> QED  BY <1>3, <1>4, <1>5, <1>6 DEF Next

\* The inductive invariant is an invariant.
THEOREM ProviderInvariant == Spec => []ProviderInv
BY ProviderInit, ProviderStep, PTL DEF Spec

\* Type correctness: whatever fails or expires and whoever edits the servers,
\* every variable keeps its type.
THEOREM TypeCorrect == Spec => []TypeOK
<1>1. ProviderInv => TypeOK
    BY DEF ProviderInv, SyncInv, TypeOK
<1> QED  BY <1>1, ProviderInvariant, PTL

\* Sync reports an error for a node only for a reason of that node's own
\* (FailuresExcused), for any number of nodes, aliases and faults.
THEOREM FailuresAreExcused == Spec => []FailuresExcused
<1>1. ProviderInv => FailuresExcused
    BY DEF ProviderInv, SyncInv
<1> QED  BY <1>1, ProviderInvariant, PTL

-----------------------------------------------------------------------------
(***************************************************************************)
(* What a step writes.                                                     *)
(***************************************************************************)

\* A step of the program that changes a server is a write or a deletion by the
\* current task on its server, of keys the task owns.
LEMMA WriteBySync ==
    ASSUME ProviderInv, [Next]_vars, edits' = edits, NEW s \in Server, meta'[s] # meta[s]
    PROVE  /\ pc \in {"update", "delete"} /\ s = sid /\ live' = live /\ touched' = touched
           /\ s \in NameMatch[task.node] /\ task \in Task
           /\ PlanIsRight(task, toUpdate, toDelete)
           /\ \/ pc = "update" /\ meta'[s] = Written(toUpdate, meta[s])
              \/ pc = "delete" /\ \E key \in toDelete : meta'[s] = Without(meta[s], key)
           /\ \A k \in DOMAIN toUpdate \cup toDelete : Owns(task, k)
<1>1. meta' # meta /\ meta = [x \in Server |-> meta[x]]
    BY DEF ProviderInv, NovaTypeOK
<1>2. ~World
    <2>1. edits + 1 # edits
        BY ProviderAssumption DEF ProviderInv, ObservedTypeOK
    <2> QED  BY <1>1, <2>1 DEF World, TokenExpires, ManualEdit, ServerDeleted
<1>3. updateMetadata \/ deleteMetadatum \/ AnswerLost
    BY <1>1, <1>2 DEF Next, vars, novaVars, Call, PackingFails, getServerID, getMetadata, NotFound,
        Reauthenticate, AuthenticationFails, RejectedAgain, CallFails, StartSync
<1>4. /\ pc \in {"update", "delete"} /\ live' = live /\ touched' = touched
      /\ \/ pc = "update" /\ meta' = [meta EXCEPT ![sid] = Written(toUpdate, meta[sid])]
         \/ pc = "delete" /\ \E key \in toDelete : meta' = [meta EXCEPT ![sid] = Without(meta[sid], key)]
    BY <1>3 DEF updateMetadata, deleteMetadatum, AnswerLost
<1>5. s = sid
    BY <1>1, <1>4
<1>6. s \in NameMatch[task.node] /\ PlanIsRight(task, toUpdate, toDelete)
    BY <1>4, <1>5 DEF ProviderInv, SyncInv, ServerResolved, PlanInv
<1>7. task \in Task
    BY <1>4, TaskType DEF ProviderInv, SyncInv, CallPc
<1>8. \A k \in DOMAIN toUpdate \cup toDelete : Owns(task, k)
    BY <1>6, <1>7, TargetOwned DEF PlanIsRight
<1> QED  BY <1>1, <1>4, <1>5, <1>6, <1>7, <1>8

\* Keys not owned by the task survive the write unchanged; the others it
\* changes become what they shall be.
LEMMA OtherKeysKept ==
    ASSUME ProviderInv, [Next]_vars, edits' = edits, NEW s \in Server, meta'[s] # meta[s],
           NEW k \in DOMAIN meta[s] \cup DOMAIN meta'[s]
    PROVE  \/ k \in DOMAIN meta[s] /\ k \in DOMAIN meta'[s] /\ meta'[s][k] = meta[s][k]
           \/ /\ Owns(task, k)
              /\ k \in DOMAIN Target(task) <=> k \in DOMAIN meta'[s]
              /\ k \in DOMAIN meta'[s] => meta'[s][k] = Target(task)[k]
<1> DEFINE kept == k \in DOMAIN meta[s] /\ k \in DOMAIN meta'[s] /\ meta'[s][k] = meta[s][k]
           right == /\ Owns(task, k)
                    /\ k \in DOMAIN Target(task) <=> k \in DOMAIN meta'[s]
                    /\ k \in DOMAIN meta'[s] => meta'[s][k] = Target(task)[k]
<1>1. CASE meta'[s] = Written(toUpdate, meta[s])
    <2>1. CASE k \in DOMAIN toUpdate
        <3>1. Owns(task, k) /\ k \in DOMAIN Target(task) /\ toUpdate[k] = Target(task)[k]
            BY <2>1, WriteBySync DEF PlanIsRight
        <3> QED  BY <1>1, <2>1, <3>1 DEF Written
    <2>2. CASE k \notin DOMAIN toUpdate
        BY <1>1, <2>2 DEF Written
    <2> QED  BY <2>1, <2>2
<1>2. ASSUME NEW key \in toDelete, meta'[s] = Without(meta[s], key)
      PROVE  kept \/ right
    <2>1. CASE k = key
        <3>1. Owns(task, k) /\ k \notin DOMAIN Target(task)
            BY <2>1, WriteBySync DEF PlanIsRight
        <3> QED  BY <1>2, <2>1, <3>1 DEF Without, Restrict
    <2>2. CASE k # key
        BY <1>2, <2>2 DEF Without, Restrict
    <2> QED  BY <2>1, <2>2
<1> QED  BY <1>1, <1>2, WriteBySync

\* The program changes only the keys its current task owns, on the servers of
\* its node, and only to what they shall be, however old the plan is and whatever
\* somebody else does to the server meanwhile (OnlyOwnedKeysChange).
THEOREM OwnershipRespected == Spec => OnlyOwnedKeysChange
<1> DEFINE A == \A s \in Server :
            meta'[s] # meta[s] /\ edits' = edits =>
                /\ s \in NameMatch[task.node]
                /\ \A k \in DOMAIN meta[s] \cup DOMAIN meta'[s] :
                    \/ k \in DOMAIN meta[s] /\ k \in DOMAIN meta'[s] /\ meta'[s][k] = meta[s][k]
                    \/ /\ Owns(task, k)
                       /\ k \in DOMAIN Target(task) <=> k \in DOMAIN meta'[s]
                       /\ k \in DOMAIN meta'[s] => meta'[s][k] = Target(task)[k]
<1>1. ProviderInv /\ [Next]_vars => [A]_vars
    BY WriteBySync, OtherKeysKept
<1> QED  BY <1>1, ProviderInvariant, PTL DEF Spec, OnlyOwnedKeysChange

-----------------------------------------------------------------------------
(***************************************************************************)
(* What Sync has established.  It needs node names to denote servers       *)
(* unambiguously: no server is listed for the names of two nodes.          *)
(***************************************************************************)
UniqueNames == \A m, n \in Node : m # n => NameMatch[m] \cap NameMatch[n] = {}

\* A task that ends without an error has brought its server to the target.
LEMMA TaskDone ==
    ASSUME ProviderInv, Call, pos' # pos, pos \notin errs'
    PROVE  /\ pc \in {"read", "update", "delete"}
           /\ PlanSuffices(task, meta'[sid], EmptyMap, {}, FALSE, EditedKeys)
           /\ sid \notin touched => EditedKeys = {}
<1>1. sid \notin touched => EditedKeys = {}
    BY DEF ProviderInv, SyncInv, RacedInv, EditedKeys
<1>2. ~EndTask(TRUE)
    BY DEF EndTask
<1>3. \A R : ~Proceed(TRUE, R)
    BY <1>2 DEF Proceed
<1>4. ~CallReturnsError
    BY <1>2, <1>3 DEF CallReturnsError
<1>5. CASE getServerID
    BY <1>2, <1>5 DEF getServerID
<1>6. CASE getMetadata
    <2> DEFINE plan == Plan(task, meta[sid])
    <2>1. pc = "read" /\ pc \in CallPc /\ sid \in Server /\ meta' = meta
        BY <1>6 DEF getMetadata, ProviderInv, SyncInv, SyncTypeOK, CallPc, novaVars
    <2>2. task \in Task /\ IsMetadata(meta[sid])
        BY <2>1, TaskType DEF ProviderInv, SyncInv, NovaTypeOK
    <2>3. PlanSuffices(task, meta[sid], plan.update, plan.delete, FALSE, {})
        BY <2>2, PlanCorrect
    <2>6. EditedKeys = {}
        BY <2>1 DEF ProviderInv, SyncInv, RacedInv, EditedKeys
    <2> HIDE DEF plan
    <2>4. plan.update = EmptyMap /\ Proceed(FALSE, plan.delete)
        BY <1>6 DEF getMetadata, plan
    <2>5. plan.delete = {}
        BY <2>4 DEF Proceed
    <2> QED  BY <1>1, <2>1, <2>3, <2>4, <2>5, <2>6
<1>7. CASE updateMetadata
    <2>1. /\ pc = "update" /\ Proceed(FALSE, toDelete)
          /\ meta' = [meta EXCEPT ![sid] = Written(toUpdate, meta[sid])]
        BY <1>7 DEF updateMetadata
    <2>2. toDelete = {}
        BY <2>1 DEF Proceed
    <2>3. sid \in Server /\ taskFailed = FALSE
        BY <2>1 DEF ProviderInv, SyncInv, SyncTypeOK
    <2>4. meta'[sid] = Written(toUpdate, meta[sid])
        BY <2>1, <2>3 DEF ProviderInv, NovaTypeOK
    <2>5. PlanIsRight(task, toUpdate, {})
        BY <2>1, <2>2 DEF ProviderInv, SyncInv, PlanInv
    <2>6. PlanSuffices(task, meta[sid], toUpdate, {}, FALSE, EditedKeys)
        BY <2>1, <2>2, <2>3 DEF ProviderInv, SyncInv, PlanInv, ToWrite
    <2> QED  BY <1>1, <2>1, <2>4, <2>5, <2>6, PlanAfterUpdate
<1>8. CASE deleteMetadatum
    <2>1. PICK key \in toDelete :
            /\ pc = "delete" /\ Proceed(taskFailed, toDelete \ {key})
            /\ meta' = [meta EXCEPT ![sid] = Without(meta[sid], key)]
        BY <1>8 DEF deleteMetadatum
    <2>2. sid \in Server /\ taskFailed \in BOOLEAN
        BY <2>1 DEF ProviderInv, SyncInv, SyncTypeOK
    <2>3. taskFailed = FALSE /\ toDelete \ {key} = {}
        BY <1>3, <2>1, <2>2 DEF Proceed
    <2>4. meta'[sid] = Without(meta[sid], key)
        BY <2>1, <2>2 DEF ProviderInv, NovaTypeOK
    <2>5. \A k \in toDelete : k \notin DOMAIN Target(task)
        BY <2>1 DEF ProviderInv, SyncInv, PlanInv, PlanIsRight
    <2>6. PlanSuffices(task, meta[sid], EmptyMap, toDelete, FALSE, EditedKeys)
        BY <2>1, <2>3 DEF ProviderInv, SyncInv, PlanInv, ToWrite
    <2>7. PlanSuffices(task, Without(meta[sid], key), EmptyMap, toDelete \ {key}, FALSE, EditedKeys)
        BY <2>5, <2>6, PlanAfterDelete
    <2> QED  BY <1>1, <2>1, <2>3, <2>4, <2>7
<1>9. ~ (PackingFails \/ NotFound \/ Reauthenticate \/ AuthenticationFails \/ RejectedAgain
         \/ CallFails \/ AnswerLost)
    BY <1>2, <1>3, <1>4 DEF PackingFails, NotFound, Reauthenticate, AuthenticationFails,
        RejectedAgain, CallFails, AnswerLost
<1> QED  BY <1>5, <1>6, <1>7, <1>8, <1>9 DEF Call

\* A call changes metadata and nothing else that NodeReconciled depends on.
LEMMA ReconciledAfterCall ==
    ASSUME NEW j,
           live' = live, touched' = touched, tasks' = tasks, aliases' = aliases,
           \A s \in Listed(tasks[j].node) \ touched : Reconciled(tasks[j], meta'[s])
    PROVE  NodeReconciled(j)'
<1>1. Listed(tasks[j].node)' = Listed(tasks[j].node)
    BY DEF Listed
<1>2. Target(tasks[j])' = Target(tasks[j])
    BY DEF Target, SuffixedAliases
<1>3. ASSUME NEW s
      PROVE  Reconciled(tasks[j], meta[s])' = Reconciled(tasks[j], meta'[s])
    BY <1>2 DEF Reconciled, Owns
<1> QED  BY <1>1, <1>3 DEF NodeReconciled

\* What an earlier task has established is not undone by a later one.
LEMMA EarlierTaskKept ==
    ASSUME UniqueNames, ProviderInv, Call, NEW j \in 1..(pos - 1), NodeReconciled(j)
    PROVE  NodeReconciled(j)'
<1>1. /\ live' = live /\ touched' = touched /\ tasks' = tasks /\ aliases' = aliases
      /\ pc \in CallPc /\ edits' = edits
    BY DEF Call, PackingFails, getServerID, getMetadata, updateMetadata, deleteMetadatum,
           NotFound, Reauthenticate, AuthenticationFails, RejectedAgain, CallFails,
           AnswerLost, ReadyToCall, CallReturnsError, Proceed, EndTask, CallPc, novaVars
<1>2. pos \in 1..Len(tasks) /\ Len(tasks) \in Nat /\ task \in Task
    BY <1>1, TaskType DEF ProviderInv, SyncInv
<1>3. j \in 1..Len(tasks) /\ j # pos
    BY <1>2
<1>4. tasks[j] \in Task
    BY <1>3, SeqElements DEF ProviderInv, SyncInv, SyncTypeOK
<1>5. ASSUME NEW s \in Listed(tasks[j].node) \ touched
      PROVE  Reconciled(tasks[j], meta'[s])
    <2>1. Reconciled(tasks[j], meta[s])
        BY DEF NodeReconciled
    <2>2. CASE meta'[s] = meta[s]
        BY <2>1, <2>2
    <2>3. CASE meta'[s] # meta[s]
        <3>1. s \in Server
            BY DEF ProviderInv, NovaTypeOK, Listed
        <3>2. s \in NameMatch[task.node] /\ s \in NameMatch[tasks[j].node]
            BY <1>1, <2>3, <3>1, WriteBySync DEF Listed, Next
        <3>3. task.node = tasks[j].node
            BY <1>2, <1>4, <3>2 DEF UniqueNames, Task
        <3>4. ~(IsAliasTask(task) <=> IsAliasTask(tasks[j]))
            BY <1>2, <1>3, <3>3 DEF ProviderInv, SyncInv, DistinctTasks, task
        <3>5. \A k : ~(Owns(task, k) /\ Owns(tasks[j], k))
            BY <3>4 DEF Owns, landbSetMetadataKey
        <3> DEFINE old == {k \in DOMAIN meta[s] : Owns(tasks[j], k)}
                   new == {k \in DOMAIN meta'[s] : Owns(tasks[j], k)}
        <3>6. ASSUME NEW k \in old \cup new
              PROVE  k \in DOMAIN meta[s] /\ k \in DOMAIN meta'[s] /\ meta'[s][k] = meta[s][k]
            BY <1>1, <2>3, <3>1, <3>5, OtherKeysKept DEF Next
        <3>7. old = new /\ Restrict(meta'[s], new) = Restrict(meta[s], old)
            BY <3>6 DEF Restrict
        <3> QED  BY <2>1, <3>7 DEF Reconciled
    <2> QED  BY <2>2, <2>3
<1> QED  BY <1>1, <1>5, ReconciledAfterCall

\* Every step keeps what the tasks have established.
LEMMA TasksReconciledStep ==
    ASSUME UniqueNames, ProviderInv, TasksReconciled, [Next]_vars
    PROVE  TasksReconciled'
<1>1. CASE Call
    <2>1. /\ live' = live /\ touched' = touched /\ tasks' = tasks /\ aliases' = aliases
          /\ pc \in CallPc /\ errs \subseteq errs' /\ pos' \in {pos, pos + 1}
        BY <1>1 DEF Call, PackingFails, getServerID, getMetadata, updateMetadata, deleteMetadatum,
               NotFound, Reauthenticate, AuthenticationFails, RejectedAgain, CallFails,
               AnswerLost, ReadyToCall, CallReturnsError, Proceed, EndTask, CallPc, novaVars
    <2>2. pos \in 1..Len(tasks) /\ Len(tasks) \in Nat /\ task \in Task
        BY <2>1, TaskType DEF ProviderInv, SyncInv
    <2>3. ASSUME NEW j \in (1..(pos - 1)) \ errs' PROVE NodeReconciled(j)'
        BY <1>1, <2>1, EarlierTaskKept DEF TasksReconciled
    <2>4. ASSUME NEW j \in {pos} \ errs', pos' = pos + 1 PROVE NodeReconciled(j)'
        <3>1. pos' # pos
            BY <2>2, <2>4
        <3>2. /\ pc \in {"read", "update", "delete"}
              /\ sid \notin touched => PlanSuffices(task, meta'[sid], EmptyMap, {}, FALSE, {})
            BY <1>1, <2>4, <3>1, TaskDone
        <3>3. Listed(task.node) \ touched \subseteq {sid}
            BY <3>2 DEF ProviderInv, SyncInv, ServerResolved
        <3>4. ASSUME NEW s \in Listed(task.node) \ touched
              PROVE  Reconciled(task, meta'[s])
            <4>1. s = sid /\ PlanSuffices(task, meta'[s], EmptyMap, {}, FALSE, {})
                BY <3>2, <3>3
            <4> QED  BY <2>2, <4>1, EmptyMapType, ReconciledByKey DEF PlanSuffices
        <3>5. task = tasks[j]
            BY DEF task
        <3>6. ASSUME NEW s \in Listed(tasks[j].node) \ touched
              PROVE  Reconciled(tasks[j], meta'[s])
            BY <3>4, <3>5
        <3> QED  BY <2>1, <3>6, ReconciledAfterCall
    <2>5. ASSUME NEW j \in (1..(pos' - 1)) \ errs' PROVE NodeReconciled(j)'
        <3>1. j \in 1..(pos - 1) \/ (pos' = pos + 1 /\ j = pos)
            <4>1. pos \in Nat /\ pos >= 1
                BY <2>2
            <4>2. CASE pos' = pos
                BY <4>1, <4>2
            <4>3. CASE pos' = pos + 1
                BY <4>1, <4>3
            <4> QED  BY <2>1, <4>2, <4>3
        <3>2. CASE j \in 1..(pos - 1)
            BY <2>3, <3>2
        <3>3. CASE pos' = pos + 1 /\ j = pos
            BY <2>4, <3>3
        <3> QED  BY <3>1, <3>2, <3>3
    <2> QED  BY <2>5 DEF TasksReconciled
<1>2. CASE World
    <2>1. UNCHANGED syncVars /\ live' \subseteq live /\ touched \subseteq touched'
        BY <1>2 DEF World, TokenExpires, ManualEdit, ServerDeleted
    <2>2. \A s \in Server \ touched' : meta'[s] = meta[s]
        BY <1>2 DEF World, TokenExpires, ManualEdit, ServerDeleted, ProviderInv, NovaTypeOK
    <2>3. live \subseteq Server
        BY DEF ProviderInv, NovaTypeOK
    <2>4. ASSUME NEW j \in (1..(pos - 1)) \ errs PROVE NodeReconciled(j)'
        <3>1. NodeReconciled(j)
            BY DEF TasksReconciled
        <3>2. ASSUME NEW s \in Listed(tasks[j].node)' \ touched'
              PROVE  Reconciled(tasks[j], meta[s]) /\ meta'[s] = meta[s]
            BY <2>1, <2>2, <2>3, <3>1 DEF NodeReconciled, Listed, syncVars
        <3> QED  BY <2>1, <3>2 DEF syncVars, NodeReconciled, Reconciled, Target, SuffixedAliases,
                    EmptyMap, Owns, IsAliasTask
    <2> QED  BY <2>1, <2>4 DEF TasksReconciled, syncVars
<1>3. CASE \E d \in DesiredStates : StartSync(d)
    <2>1. pos' = 1
        BY <1>3 DEF StartSync
    <2> QED  BY <2>1 DEF TasksReconciled
<1>4. CASE UNCHANGED vars
    <2>1. /\ live' = live /\ meta' = meta /\ touched' = touched
          /\ tasks' = tasks /\ aliases' = aliases /\ pos' = pos /\ errs' = errs
        BY <1>4 DEF vars, syncVars, novaVars
    <2>2. ASSUME NEW j \in (1..(pos - 1)) \ errs PROVE NodeReconciled(j)'
        <3>1. NodeReconciled(j)
            BY DEF TasksReconciled
        <3> QED  BY <2>1, <3>1 DEF NodeReconciled, Listed, Reconciled, Target,
                    SuffixedAliases, EmptyMap, Owns, IsAliasTask
    <2> QED  BY <2>1, <2>2 DEF TasksReconciled
<1> QED  BY <1>1, <1>2, <1>3, <1>4 DEF Next

\* Sync's contract: when no server is listed for two node names, every node
\* whose task has gone through without an error is as desired, whatever failed
\* or expired and whatever else was edited meanwhile (TasksReconciled).
THEOREM TasksAreReconciled == UniqueNames => (Spec => []TasksReconciled)
<1> SUFFICES ASSUME UniqueNames PROVE Spec => []TasksReconciled
    OBVIOUS
<1>1. Init => TasksReconciled
    BY DEF Init, TasksReconciled
<1>2. ProviderInv /\ TasksReconciled /\ [Next]_vars => TasksReconciled'
    BY TasksReconciledStep
<1> QED  BY <1>1, <1>2, ProviderInvariant, PTL DEF Spec

-----------------------------------------------------------------------------
(***************************************************************************)
(* Nothing is written that is right already.                               *)
(***************************************************************************)

\* What each handler writes differs from what the server has.
LEMMA PlanWritesDifferences ==
    ASSUME NEW t \in Task, NEW m, NEW k \in DOMAIN Plan(t, m).update
    PROVE  ~(k \in DOMAIN m /\ m[k] = Target(t)[k])
<1>1. CASE t.op = "syncAlias"
    <2> DEFINE desired == packAliases(SuffixedAliases(t))
               diff == {x \in DOMAIN desired : x \notin DOMAIN m \/ m[x] # desired[x]}
    <2>1. Plan(t, m).update = Restrict(desired, diff) /\ Target(t) = desired
        BY <1>1 DEF Plan, SyncAliasPlan, Target
    <2> HIDE DEF desired
    <2> QED  BY <2>1 DEF Restrict
<1>2. CASE t.op \in {"cleanupAlias", "cleanupSet"}
    <2>1. Plan(t, m).update = EmptyMap
        BY <1>2 DEF Plan, CleanupAliasPlan, CleanupSetPlan
    <2> QED  BY <2>1, EmptyMapType
<1>3. CASE t.op = "syncSet"
    <2>1. Plan(t, m).update = reconcileLandbSet(t, m)
        BY <1>3 DEF Plan, SyncSetPlan
    <2>2. Target(t) = [x \in {landbSetMetadataKey} |-> t.landbSet]
        BY <1>3 DEF Target
    <2>3. CASE landbSetMetadataKey \in DOMAIN m /\ m[landbSetMetadataKey] = t.landbSet
        BY <2>1, <2>3, EmptyMapType DEF reconcileLandbSet
    <2>4. CASE ~(landbSetMetadataKey \in DOMAIN m /\ m[landbSetMetadataKey] = t.landbSet)
        <3>1. k = landbSetMetadataKey
            BY <2>1, EmptyMapType DEF reconcileLandbSet
        <3> QED  BY <2>2, <2>4, <3>1
    <2> QED  BY <2>3, <2>4
<1> QED  BY <1>1, <1>2, <1>3 DEF Task

\* A reconciled server gives an empty plan.
LEMMA NothingToDo ==
    ASSUME NEW t \in Task, NEW m, IsMetadata(m), Reconciled(t, m)
    PROVE  Plan(t, m).update = EmptyMap /\ Plan(t, m).delete = {}
<1> DEFINE owned == {k \in DOMAIN m : Owns(t, k)}
<1>1. /\ IsMetadata(Plan(t, m).update)
      /\ PlanIsRight(t, Plan(t, m).update, Plan(t, m).delete)
      /\ PlanSuffices(t, m, Plan(t, m).update, Plan(t, m).delete, FALSE, {})
    BY PlanCorrect
<1>2. /\ DOMAIN Target(t) = owned
      /\ \A k \in owned : Target(t)[k] = m[k]
    <2>1. Target(t) = [k \in owned |-> m[k]]
        BY DEF Reconciled, Restrict
    <2> QED  BY <2>1
<1>3. DOMAIN Plan(t, m).update = {}
    BY <1>1, <1>2, PlanWritesDifferences DEF PlanIsRight
<1>4. Plan(t, m).update = EmptyMap
    BY <1>1, <1>3 DEF IsMetadata, EmptyMap
<1>5. Plan(t, m).delete = {}
    BY <1>1, <1>2 DEF PlanIsRight, PlanSuffices
<1> QED  BY <1>4, <1>5

\* Only the diff computed by getMetadata leads from the reading to a write.
LEMMA WriteAfterRead ==
    ASSUME ProviderInv, [Next]_vars, pc = "read", pc' \in {"update", "delete"}
    PROVE  ~Reconciled(task, meta[sid])
<1>1. getMetadata
    BY DEF Next, vars, syncVars, Call, PackingFails, getServerID, updateMetadata, deleteMetadatum,
           NotFound, Reauthenticate, AuthenticationFails, RejectedAgain, CallFails, AnswerLost,
           CallReturnsError, EndTask, World, TokenExpires, ManualEdit, ServerDeleted, StartSync
<1>2. task \in Task /\ IsMetadata(meta[sid])
    <2>1. sid \in Server /\ pc \in CallPc
        BY <1>1 DEF ProviderInv, SyncInv, SyncTypeOK, CallPc
    <2> QED  BY <2>1, TaskType DEF ProviderInv, SyncInv, NovaTypeOK
<1>3. Plan(task, meta[sid]).update # EmptyMap \/ Plan(task, meta[sid]).delete # {}
    BY <1>1 DEF getMetadata, Proceed, EndTask
<1> QED  BY <1>2, <1>3, NothingToDo

\* A server found as desired is not written to (NoNeedlessWrite).
THEOREM WritesAreNeeded == Spec => NoNeedlessWrite
<1> DEFINE A == pc = "read" /\ pc' \in {"update", "delete"} => ~Reconciled(task, meta[sid])
<1>1. ProviderInv /\ [Next]_vars => [A]_vars
    BY WriteAfterRead
<1> QED  BY <1>1, ProviderInvariant, PTL DEF Spec, NoNeedlessWrite

-----------------------------------------------------------------------------
(***************************************************************************)
(* What a server serves.                                                   *)
(***************************************************************************)

\* The aliases of a Sync are a list without repetition, a task that has come to
\* a call can be packed, and so could the tasks that succeeded, each of which
\* found one server.
PackedInv ==
    /\ \A i, j \in 1..Len(aliases) : aliases[i] = aliases[j] => i = j
    /\ pc \in {"read", "update", "delete"} /\ task.op = "syncAlias"
        => Packable(SuffixedAliases(task))
    /\ TasksShape(tasks)
    /\ \A j \in (1..(pos - 1)) \ errs :
        /\ tasks[j].op = "syncAlias" => Packable(SuffixedAliases(tasks[j]))
        /\ touched = {} => \E s \in Server : Listed(tasks[j].node) = {s}

LEMMA PackedInvInit == Init => PackedInv
<1> SUFFICES ASSUME Init PROVE PackedInv
    OBVIOUS
<1>1. aliases = <<>> /\ tasks = <<>> /\ pos = 1 /\ pc = "idle"
    BY DEF Init
<1>2. Len(aliases) = 0 /\ Len(tasks) = 0
    BY <1>1
<1>3. TasksShape(tasks)
    BY <1>2 DEF TasksShape
<1> QED  BY <1>1, <1>2, <1>3 DEF PackedInv

\* A call of the provider keeps it.
LEMMA PackedInvCall ==
    ASSUME ProviderInv, PackedInv, Call
    PROVE  PackedInv'
<1>1. /\ live' = live /\ touched' = touched /\ tasks' = tasks /\ aliases' = aliases
      /\ pc \in CallPc /\ errs \subseteq errs' /\ pos' \in {pos, pos + 1}
    BY DEF Call, PackingFails, getServerID, getMetadata, updateMetadata, deleteMetadatum,
           NotFound, Reauthenticate, AuthenticationFails, RejectedAgain, CallFails,
           AnswerLost, ReadyToCall, CallReturnsError, Proceed, EndTask, CallPc, novaVars
<1>2. pos \in 1..Len(tasks) /\ Len(tasks) \in Nat /\ pos # pos + 1
    BY <1>1, TaskType DEF ProviderInv, SyncInv
<1>3. pos' = pos + 1 => pc' \in {"resolve", "idle"}
    BY <1>2 DEF Call, PackingFails, getServerID, getMetadata, updateMetadata, deleteMetadatum,
           NotFound, Reauthenticate, AuthenticationFails, RejectedAgain, CallFails,
           AnswerLost, CallReturnsError, Proceed, EndTask
<1>4. pos' = pos => pc \in {"read", "update", "delete"} \/ pc' = "resolve" \/ getServerID
    <2>1. ASSUME EndTask(TRUE) \/ EndTask(FALSE) PROVE pos' # pos
        BY <1>2, <2>1 DEF EndTask
    <2>2. ASSUME pc = "resolve", CallReturnsError PROVE EndTask(TRUE)
        BY <2>2 DEF CallReturnsError
    <2> QED  BY <1>1, <2>1, <2>2 DEF Call, PackingFails, getMetadata, updateMetadata,
                deleteMetadatum, NotFound, Reauthenticate, AuthenticationFails, RejectedAgain,
                CallFails, AnswerLost, CallPc
<1>5. (\A i, j \in 1..Len(aliases) : aliases[i] = aliases[j] => i = j)'
    BY <1>1 DEF PackedInv
<1>6. TasksShape(tasks)'
    BY <1>1 DEF PackedInv, TasksShape, IsAliasTask
<1>7. \A j : /\ SuffixedAliases(tasks[j])' = SuffixedAliases(tasks[j])
             /\ Packable(SuffixedAliases(tasks[j]))' = Packable(SuffixedAliases(tasks[j]))
             /\ Listed(tasks[j].node)' = Listed(tasks[j].node)
    BY <1>1 DEF SuffixedAliases, Packable, Listed
<1>8. ASSUME pc' \in {"read", "update", "delete"}, task'.op = "syncAlias"
      PROVE  Packable(SuffixedAliases(task))'
    <2>1. pos' = pos /\ task' = task
        BY <1>1, <1>2, <1>3, <1>8 DEF task
    <2>2. Packable(SuffixedAliases(task))
        BY <1>1, <1>4, <1>8, <2>1 DEF PackedInv, getServerID, ReadyToCall
    <2> QED  BY <1>7, <2>1, <2>2 DEF task
<1>9. ASSUME NEW j \in (1..(pos' - 1)) \ errs'
      PROVE  /\ tasks[j].op = "syncAlias" => Packable(SuffixedAliases(tasks[j]))
             /\ touched = {} => \E s \in Server : Listed(tasks[j].node) = {s}
    <2>1. CASE j \in 1..(pos - 1)
        BY <1>1, <1>9, <2>1 DEF PackedInv
    <2>2. CASE j = pos /\ pos' # pos
        <3>1. pc \in {"read", "update", "delete"} /\ tasks[j] = task
            BY <1>9, <2>2, TaskDone DEF task
        <3>2. sid \in Server /\ Listed(task.node) \ touched \subseteq {sid}
              /\ sid \in NameMatch[task.node] /\ (sid \notin touched => sid \in live)
            BY <3>1 DEF ProviderInv, SyncInv, SyncTypeOK, ServerResolved
        <3>3. touched = {} => Listed(task.node) = {sid}
            BY <3>2 DEF Listed
        <3> QED  BY <3>1, <3>2, <3>3 DEF PackedInv
    <2>3. j \in 1..(pos - 1) \/ (j = pos /\ pos' # pos)
        <3>1. CASE pos' = pos
            BY <3>1
        <3>2. CASE pos' = pos + 1
            BY <1>2, <3>2
        <3> QED  BY <1>1, <3>1, <3>2
    <2> QED  BY <2>1, <2>2, <2>3
<1>10. ASSUME NEW j \in ((1..(pos - 1)) \ errs)'
      PROVE  /\ (tasks[j].op = "syncAlias" => Packable(SuffixedAliases(tasks[j])))'
             /\ (touched = {} => \E s \in Server : Listed(tasks[j].node) = {s})'
    BY <1>1, <1>7, <1>9
<1> QED  BY <1>5, <1>6, <1>8, <1>10 DEF PackedInv

LEMMA PackedInvStep ==
    ASSUME ProviderInv, PackedInv, [Next]_vars
    PROVE  PackedInv'
<1>1. CASE Call
    BY <1>1, PackedInvCall
<1>2. CASE World \/ UNCHANGED vars
    <2>1. /\ tasks' = tasks /\ aliases' = aliases /\ pos' = pos /\ pc' = pc /\ errs' = errs
          /\ touched' = {} => live' = live /\ touched = {}
        BY <1>2 DEF World, TokenExpires, ManualEdit, ServerDeleted, syncVars, vars, novaVars
    <2>2. \A j : /\ SuffixedAliases(tasks[j])' = SuffixedAliases(tasks[j])
                 /\ Packable(SuffixedAliases(tasks[j]))' = Packable(SuffixedAliases(tasks[j]))
                 /\ touched' = {} => Listed(tasks[j].node)' = Listed(tasks[j].node)
        BY <2>1 DEF SuffixedAliases, Packable, Listed
    <2>3. (pc \in {"read", "update", "delete"} /\ task.op = "syncAlias"
            => Packable(SuffixedAliases(task)))'
        BY <2>1, <2>2 DEF PackedInv, task
    <2>4. TasksShape(tasks)'
        BY <2>1 DEF PackedInv, TasksShape, IsAliasTask
    <2>5. (\A i, j \in 1..Len(aliases) : aliases[i] = aliases[j] => i = j)'
        BY <2>1 DEF PackedInv
    <2>6. ASSUME NEW j \in ((1..(pos - 1)) \ errs)'
          PROVE  /\ (tasks[j].op = "syncAlias" => Packable(SuffixedAliases(tasks[j])))'
                 /\ (touched = {} => \E s \in Server : Listed(tasks[j].node) = {s})'
        <3>1. /\ tasks[j].op = "syncAlias" => Packable(SuffixedAliases(tasks[j]))
              /\ touched = {} => \E s \in Server : Listed(tasks[j].node) = {s}
            BY <2>1, <2>6 DEF PackedInv
        <3> QED  BY <2>1, <2>2, <3>1
    <2> QED  BY <2>3, <2>4, <2>5, <2>6 DEF PackedInv
<1>3. ASSUME NEW d \in DesiredStates, StartSync(d) PROVE PackedInv'
    <2>1. /\ aliases' = d.Aliases /\ tasks' = SyncTasks(d) /\ pos' = 1
          /\ pc' \in {"idle", "resolve"}
        BY <1>3 DEF StartSync
    <2>2. IsDesiredState(d)
        BY ProviderAssumption
    <2>3. TasksShape(tasks')
        BY <2>1, <2>2, SyncTasksShape
    <2>4. \A i, j \in 1..Len(aliases') : aliases'[i] = aliases'[j] => i = j
        BY <2>1, <2>2 DEF IsDesiredState
    <2> QED  BY <2>1, <2>3, <2>4 DEF PackedInv, TasksShape, IsAliasTask
<1> QED  BY <1>1, <1>2, <1>3 DEF Next

LEMMA PackedInvariant == Spec => []PackedInv
BY PackedInvInit, PackedInvStep, ProviderInvariant, PTL DEF Spec

\* What a task hands to packAliases is a list it is specified for.
LEMMA SuffixedAliasesType ==
    ASSUME ProviderInv, PackedInv, NEW t \in Task
    PROVE  /\ IsSuffixedList(SuffixedAliases(t))
           /\ ToSet(SuffixedAliases(t)) = {[alias |-> a, load |-> t.index] : a \in ToSet(aliases)}
<1>1. /\ aliases \in Seq(Alias) /\ Len(aliases) \in Nat /\ DOMAIN aliases = 1..Len(aliases)
      /\ \A i \in 1..Len(aliases) : aliases[i] \in Alias
    BY DEF ProviderInv, SyncInv, SyncTypeOK
<1>2. t.index \in Nat
    BY DEF Task
<1>3. SuffixedAliases(t) = [j \in 1..Len(aliases) |-> [alias |-> aliases[j], load |-> t.index]]
    BY <1>1 DEF SuffixedAliases, addSuffix
<1>4. \A j \in 1..Len(aliases) : [alias |-> aliases[j], load |-> t.index] \in Suffixed
    BY <1>1, <1>2 DEF Suffixed
<1>5. SuffixedAliases(t) \in [1..Len(aliases) -> Suffixed]
    BY <1>3, <1>4
<1>6. SuffixedAliases(t) \in Seq(Suffixed) /\ Len(SuffixedAliases(t)) = Len(aliases)
    <2> HIDE DEF Suffixed
    <2> QED  BY <1>1, <1>5
<1>7. ASSUME NEW i \in 1..Len(aliases), NEW j \in 1..Len(aliases)
      PROVE  /\ SuffixedAliases(t)[i].load = SuffixedAliases(t)[j].load
             /\ SuffixedAliases(t)[i] = SuffixedAliases(t)[j] => i = j
    <2>1. /\ SuffixedAliases(t)[i] = [alias |-> aliases[i], load |-> t.index]
          /\ SuffixedAliases(t)[j] = [alias |-> aliases[j], load |-> t.index]
        BY <1>3
    <2> QED  BY <2>1 DEF PackedInv
<1>8. ToSet(SuffixedAliases(t)) = {[alias |-> a, load |-> t.index] : a \in ToSet(aliases)}
    BY <1>1, <1>3 DEF ToSet
<1> QED  BY <1>6, <1>7, <1>8 DEF IsSuffixedList

\* The keys a task aims at hold the aliases, under its index.
LEMMA TargetUnpacked ==
    ASSUME ProviderInv, PackedInv, NEW t \in Task, t.op = "syncAlias",
           Packable(SuffixedAliases(t))
    PROVE  unpackAliases(Target(t)) = {[alias |-> a, load |-> t.index] : a \in ToSet(aliases)}
BY SuffixedAliasesType, UnpackInvertsPack DEF Target

\* A server that has the keys of the target serves every alias.
LEMMA TargetServed ==
    ASSUME ProviderInv, PackedInv, NEW t \in Task, t.op = "syncAlias",
           Packable(SuffixedAliases(t)), NEW m,
           \A k \in DOMAIN Target(t) : k \in DOMAIN m /\ m[k] = Target(t)[k]
    PROVE  ToSet(aliases) \subseteq Served(m)
<1> SUFFICES ASSUME NEW a \in ToSet(aliases) PROVE a \in Served(m)
    OBVIOUS
<1> DEFINE x == [alias |-> a, load |-> t.index]
<1>1. x \in unpackAliases(Target(t))
    BY TargetUnpacked
<1>2. PICK k \in DOMAIN Target(t) : HasAliasPrefix(k) /\ x \in Target(t)[k]
    BY <1>1 DEF unpackAliases
<1>3. x \in unpackAliases(m)
    BY <1>2 DEF unpackAliases
<1>4. x.alias = a
    OBVIOUS
<1> QED  BY <1>3, <1>4 DEF Served

\* Whatever fails, and whatever is edited but the keys to stay of a server already
\* read, an ingress node never stops serving by an act of the program a name that
\* it serves and should go on serving (AliasNeverDropped).
THEOREM NoAliasDropped == Spec => AliasNeverDropped
<1> DEFINE A == \A s \in Server :
            meta'[s] # meta[s] /\ edits' = edits /\ task.op = "syncAlias" /\ TargetUnraced
                => Served(meta[s]) \cap ToSet(aliases) \subseteq Served(meta'[s])
<1>1. ASSUME ProviderInv, PackedInv, [Next]_vars, edits' = edits,
             NEW s \in Server, meta'[s] # meta[s], task.op = "syncAlias", TargetUnraced
      PROVE  ToSet(aliases) \subseteq Served(meta'[s])
    <2>1. /\ pc \in {"update", "delete"} /\ s = sid /\ task \in Task
          /\ PlanIsRight(task, toUpdate, toDelete)
          /\ \/ pc = "update" /\ meta'[s] = Written(toUpdate, meta[s])
             \/ pc = "delete" /\ \E key \in toDelete : meta'[s] = Without(meta[s], key)
        BY <1>1, WriteBySync
    <2>2. Packable(SuffixedAliases(task))
        BY <1>1, <2>1 DEF PackedInv
    <2>3. PlanSuffices(task, meta[s], ToWrite, toDelete, taskFailed, EditedKeys)
        BY <1>1, <2>1 DEF ProviderInv, SyncInv, PlanInv
    <2>4. DOMAIN Target(task) \cap EditedKeys = {}
        BY <1>1 DEF TargetUnraced, EditedKeys
    <2>5. \A k \in DOMAIN Target(task) : k \in DOMAIN meta'[s] /\ meta'[s][k] = Target(task)[k]
        <3>1. CASE pc = "update" /\ meta'[s] = Written(toUpdate, meta[s])
            <4>1. PlanSuffices(task, meta[s], toUpdate, toDelete, taskFailed, EditedKeys)
                BY <2>3, <3>1 DEF ToWrite
            <4>2. PlanSuffices(task, meta'[s], EmptyMap, toDelete, taskFailed, EditedKeys)
                BY <2>1, <3>1, <4>1, PlanAfterUpdate
            <4> QED  BY <2>4, <4>2, EmptyMapType DEF PlanSuffices
        <3>2. ASSUME pc = "delete", NEW key \in toDelete, meta'[s] = Without(meta[s], key)
              PROVE  PlanSuffices(task, meta'[s], EmptyMap, toDelete \ {key}, taskFailed, EditedKeys)
            <4>1. PlanSuffices(task, meta[s], EmptyMap, toDelete, taskFailed, EditedKeys)
                BY <2>3, <3>2 DEF ToWrite
            <4>2. \A k \in toDelete : k \notin DOMAIN Target(task)
                BY <2>1 DEF PlanIsRight
            <4> QED  BY <3>2, <4>1, <4>2, PlanAfterDelete
        <3> QED  BY <2>1, <2>4, <3>1, <3>2, EmptyMapType DEF PlanSuffices
    <2> QED  BY <1>1, <2>1, <2>2, <2>5, TargetServed
<1>2. ProviderInv /\ PackedInv /\ [Next]_vars => [A]_vars
    BY <1>1
<1> QED  BY <1>2, ProviderInvariant, PackedInvariant, PTL DEF Spec, AliasNeverDropped

-----------------------------------------------------------------------------
(***************************************************************************)
(* The load indexes.                                                       *)
(***************************************************************************)

\* The aliases of a reconciled server.
LEMMA ReconciledUnpacked ==
    ASSUME NEW t \in Task, IsAliasTask(t), NEW m, Reconciled(t, m)
    PROVE  unpackAliases(m) = unpackAliases(Target(t))
<1> DEFINE owned == {k \in DOMAIN m : Owns(t, k)}
<1>1. \A k : Owns(t, k) <=> HasAliasPrefix(k)
    BY DEF Owns, HasAliasPrefix
<1>2. Target(t) = [k \in owned |-> m[k]]
    BY DEF Reconciled, Restrict
<1>3. DOMAIN Target(t) = owned /\ \A k \in owned : Target(t)[k] = m[k]
    BY <1>2
<1> QED  BY <1>1, <1>3 DEF unpackAliases

\* When Sync has returned without an error, server and index determine each
\* other for every alias.
LEMMA IndexesContiguous ==
    ASSUME ProviderInv, PackedInv, TasksReconciled, pc = "idle", errs = {}, touched = {}
    PROVE  SuffixRangeContiguous
<1>1. /\ tasks \in Seq(Task) /\ Len(tasks) \in Nat /\ pos - 1 = Len(tasks)
      /\ DOMAIN tasks = 1..Len(tasks) /\ live \subseteq Server
    BY DEF ProviderInv, SyncInv, SyncTypeOK, NovaTypeOK
<1>2. \A j \in 1..Len(tasks) : tasks[j] \in Task
    BY <1>1, SeqElements
<1>3. PICK m \in 0..Len(tasks) : \A j \in 1..Len(tasks) :
        /\ tasks[j].op = "syncAlias" <=> j <= m
        /\ tasks[j].op = "syncAlias" => tasks[j].index = j - 1
    BY DEF PackedInv, TasksShape
<1> DEFINE ingress == {j \in DOMAIN tasks : tasks[j].op = "syncAlias"}
           servers == UNION {Listed(tasks[j].node) : j \in DOMAIN tasks}
           With(a, i) == {s \in servers : [alias |-> a, load |-> i] \in unpackAliases(meta[s])}
<1>4. Cardinality(ingress) = m
    <2>1. ingress = 1..m /\ m \in Nat
        BY <1>1, <1>3
    <2>2. Cardinality(1..m) = m
        <3>1. m = 0 => 1..m = {}
            OBVIOUS
        <3>2. m # 0 => Cardinality(1..m) = m - 1 + 1
            BY <2>1, FS_Interval
        <3> QED  BY <2>1, <3>1, <3>2, FS_EmptySet
    <2> QED  BY <2>1, <2>2
<1>5. ASSUME NEW j \in 1..Len(tasks), IsAliasTask(tasks[j]), NEW s \in Listed(tasks[j].node)
      PROVE  unpackAliases(meta[s]) =
                IF j <= m THEN {[alias |-> a, load |-> j - 1] : a \in ToSet(aliases)} ELSE {}
    <2>1. Reconciled(tasks[j], meta[s])
        BY <1>1, <1>5 DEF TasksReconciled, NodeReconciled
    <2>2. unpackAliases(meta[s]) = unpackAliases(Target(tasks[j]))
        BY <1>2, <1>5, <2>1, ReconciledUnpacked
    <2>3. CASE j <= m
        <3>1. tasks[j].op = "syncAlias" /\ tasks[j].index = j - 1
            BY <1>3, <2>3
        <3>2. Packable(SuffixedAliases(tasks[j]))
            BY <1>1, <3>1 DEF PackedInv
        <3> QED  BY <1>2, <2>2, <2>3, <3>1, <3>2, TargetUnpacked
    <2>4. CASE ~(j <= m)
        <3>1. tasks[j].op # "syncAlias" /\ tasks[j].op # "syncSet"
            BY <1>3, <1>5, <2>4 DEF IsAliasTask
        <3>2. Target(tasks[j]) = EmptyMap
            BY <3>1 DEF Target
        <3> QED  BY <2>2, <2>4, <3>2, EmptyMapType DEF unpackAliases
    <2> QED  BY <2>3, <2>4
<1>6. ASSUME NEW s \in servers
      PROVE  \E j \in 1..Len(tasks) : IsAliasTask(tasks[j]) /\ s \in Listed(tasks[j].node)
    <2>1. PICK k \in 1..Len(tasks) : s \in Listed(tasks[k].node)
        BY <1>1
    <2>2. \E j \in 1..Len(tasks) : IsAliasTask(tasks[j]) /\ tasks[j].node = tasks[k].node
        BY <2>1 DEF PackedInv, TasksShape
    <2> QED  BY <2>1, <2>2
<1>7. ASSUME NEW a \in ToSet(aliases), NEW i \in Nat
      PROVE  Cardinality(With(a, i)) = IF i < m THEN 1 ELSE 0
    <2> DEFINE x == [alias |-> a, load |-> i]
    <2>1. ASSUME NEW s \in With(a, i)
          PROVE  i < m /\ s \in Listed(tasks[i + 1].node)
        <3>1. PICK j \in 1..Len(tasks) : IsAliasTask(tasks[j]) /\ s \in Listed(tasks[j].node)
            BY <1>6
        <3>2. x \in unpackAliases(meta[s])
            OBVIOUS
        <3>3. j <= m /\ \E b \in ToSet(aliases) : x = [alias |-> b, load |-> j - 1]
            BY <1>5, <3>1, <3>2
        <3>4. i = j - 1
            BY <3>3
        <3> QED  BY <1>3, <3>1, <3>3, <3>4
    <2>2. CASE i < m
        <3>1. i + 1 \in 1..Len(tasks) /\ i + 1 <= m /\ (i + 1) - 1 = i
            BY <1>3, <2>2
        <3>2. tasks[i + 1].op = "syncAlias"
            BY <1>3, <3>1
        <3>3. PICK s \in Server : Listed(tasks[i + 1].node) = {s}
            BY <1>1, <3>1 DEF PackedInv
        <3>4. s \in servers
            BY <1>1, <3>1, <3>3
        <3>5. x \in unpackAliases(meta[s])
            BY <1>5, <3>1, <3>2, <3>3 DEF IsAliasTask
        <3>6. With(a, i) = {s}
            BY <2>1, <3>3, <3>4, <3>5
        <3> HIDE DEF With
        <3> QED  BY <2>2, <3>6, FS_Singleton
    <2>3. CASE ~(i < m)
        <3>1. With(a, i) = {}
            BY <2>1, <2>3
        <3> HIDE DEF With
        <3> QED  BY <2>3, <3>1, FS_EmptySet
    <2> QED  BY <2>2, <2>3
<1>8. 0..Cardinality(Node) \subseteq Nat
    OBVIOUS
<1>9. ASSUME NEW a \in ToSet(aliases), NEW i \in 0..Cardinality(Node)
      PROVE  Cardinality(With(a, i)) = IF i < Cardinality(ingress) THEN 1 ELSE 0
    <2> HIDE DEF With, ingress
    <2> QED  BY <1>4, <1>7, <1>8
<1> QED  BY <1>9 DEF SuffixRangeContiguous

\* When Sync has returned without an error the load indexes of every wanted
\* alias are contiguous, each announced by one server (SuffixRangeContiguous).
THEOREM IndexesAreContiguous == UniqueNames => (Spec => []SuffixRangeContiguous)
<1> SUFFICES ASSUME UniqueNames PROVE Spec => []SuffixRangeContiguous
    OBVIOUS
<1>1. ProviderInv /\ PackedInv /\ TasksReconciled => SuffixRangeContiguous
    BY IndexesContiguous DEF SuffixRangeContiguous
<1> QED  BY <1>1, TasksAreReconciled, ProviderInvariant, PackedInvariant, PTL
=============================================================================
