--------------------- MODULE ProviderRefinement_proofs ---------------------
(***************************************************************************)
(* The OpenStack provider implements the contract of provider.go, for      *)
(* every value of the constants: every step of OpenStackProvider is a step *)
(* of ProviderContract or leaves its variables unchanged.                  *)
(***************************************************************************)
EXTENDS ProviderRefinement, OpenStackProvider_proofs, SequenceTheorems

-----------------------------------------------------------------------------
(***************************************************************************)
(* The mapped variables, as functions of the variables they depend on.     *)
(***************************************************************************)
ServedIn(servers, metadata, n) == UNION {unpackAliases(metadata[s]) : s \in servers \cap NameMatch[n]}

SetsIn(servers, metadata, n) ==
    {metadata[s][landbSetMetadataKey] :
        s \in {t \in servers \cap NameMatch[n] : landbSetMetadataKey \in DOMAIN metadata[t]}}

TheSet(values) == IF values = {} THEN <<>> ELSE CHOOSE value \in values : TRUE

WorkOf(names, t) ==
    [node |-> t.node, part |-> IF IsAliasTask(t) THEN "served" ELSE "set",
     value |-> CASE t.op = "syncAlias"    -> ToSet(addSuffix(names, t.index))
                 [] t.op = "cleanupAlias" -> {}
                 [] t.op = "syncSet"      -> t.landbSet
                 [] t.op = "cleanupSet"   -> <<>>]

WorkFrom(names, ts, k) == [i \in 1..(Len(ts) - k + 1) |-> WorkOf(names, ts[k + i - 1])]

LEMMA MappedVariables ==
    /\ ServedByNode = [n \in Node |-> ServedIn(live, meta, n)]
    /\ SetByNode = [n \in Node |-> TheSet(SetsIn(live, meta, n))]
    /\ WorkLeft = WorkFrom(aliases, tasks, pos)
<1>1. ServedByNode = [n \in Node |-> ServedIn(live, meta, n)]
    BY DEF ServedByNode, ServedBy, ServedIn, Listed
<1>2. SetByNode = [n \in Node |-> TheSet(SetsIn(live, meta, n))]
    BY DEF SetByNode, SetOf, SetsIn, TheSet, Listed
<1>3. WorkLeft = WorkFrom(aliases, tasks, pos)
    BY DEF WorkLeft, Work, WorkFrom, WorkOf, TaskValue, SuffixedAliases
<1> QED  BY <1>1, <1>2, <1>3

LEMMA MappedVariablesNext ==
    /\ ServedByNode' = [n \in Node |-> ServedIn(live', meta', n)]
    /\ SetByNode' = [n \in Node |-> TheSet(SetsIn(live', meta', n))]
    /\ WorkLeft' = WorkFrom(aliases', tasks', pos')
<1>1. ServedByNode' = [n \in Node |-> ServedIn(live', meta', n)]
    BY DEF ServedByNode, ServedBy, ServedIn, Listed
<1>2. SetByNode' = [n \in Node |-> TheSet(SetsIn(live', meta', n))]
    BY DEF SetByNode, SetOf, SetsIn, TheSet, Listed
<1>3. WorkLeft' = WorkFrom(aliases', tasks', pos')
    BY DEF WorkLeft, Work, WorkFrom, WorkOf, TaskValue, SuffixedAliases, IsAliasTask
<1> QED  BY <1>1, <1>2, <1>3

-----------------------------------------------------------------------------
(***************************************************************************)
(* What is left to do.                                                     *)
(***************************************************************************)

\* The work of a Sync is a sequence; leaving a task takes the first item off it.
LEMMA WorkFromIs ==
    ASSUME NEW names, NEW ts, Len(ts) \in Nat, NEW k \in 1..(Len(ts) + 1)
    PROVE  /\ k > Len(ts) => WorkFrom(names, ts, k) = <<>>
           /\ k <= Len(ts) =>
                /\ WorkFrom(names, ts, k) # <<>>
                /\ Head(WorkFrom(names, ts, k)) = WorkOf(names, ts[k])
                /\ Tail(WorkFrom(names, ts, k)) = WorkFrom(names, ts, k + 1)
<1> DEFINE w == WorkFrom(names, ts, k)
           R == {WorkOf(names, ts[i]) : i \in Nat}
           n == Len(ts) - k + 1
<1>1. n \in Nat /\ w \in [1..n -> R]
    <2>1. ASSUME NEW i \in 1..n PROVE k + i - 1 \in Nat
        OBVIOUS
    <2>2. n \in Nat
        OBVIOUS
    <2> QED  BY <2>1, <2>2 DEF WorkFrom
<1>2. w \in Seq(R) /\ Len(w) = n /\ \A i \in 1..n : w[i] = WorkOf(names, ts[k + i - 1])
    <2>1. \A i \in 1..n : w[i] = WorkOf(names, ts[k + i - 1])
        BY DEF WorkFrom
    <2> HIDE DEF R, w, n
    <2> QED  BY <1>1, <2>1
<1> HIDE DEF R, w
<1>3. ASSUME k > Len(ts) PROVE w = <<>>
    <2>1. n = 0
        BY <1>3
    <2> QED  BY <1>2, <2>1
<1>4. ASSUME k <= Len(ts) PROVE w # <<>> /\ Head(w) = WorkOf(names, ts[k])
    <2>1. n # 0 /\ 1 \in 1..n /\ k + 1 - 1 = k
        BY <1>4
    <2> QED  BY <1>2, <2>1
<1>5. ASSUME k <= Len(ts) PROVE Tail(w) = WorkFrom(names, ts, k + 1)
    <2>1. Tail(w) = [i \in 1..(n - 1) |-> w[i + 1]]
        <3>1. Len(Tail(w)) = Len(w) - 1 /\ \A i \in 1..(Len(w) - 1) : Tail(w)[i] = w[i + 1]
            BY <1>2, <1>4, <1>5, HeadTailProperties
        <3>2. Tail(w) \in Seq(R)
            BY <1>2, <1>4, <1>5, HeadTailProperties
        <3> DEFINE v == Tail(w)
                   m == n - 1
        <3>3. m = Len(w) - 1
            BY <1>2
        <3> HIDE DEF v, m
        <3>4. v \in Seq(R) /\ Len(v) = m /\ \A i \in 1..m : v[i] = w[i + 1]
            BY <3>1, <3>2, <3>3 DEF v
        <3>5. v = [i \in 1..m |-> v[i]]
            BY <3>4
        <3>6. v = [i \in 1..m |-> w[i + 1]]
            BY <3>4, <3>5
        <3> QED  BY <3>6 DEF v, m
    <2>2. \A i \in 1..(n - 1) : i + 1 \in 1..n /\ k + (i + 1) - 1 = (k + 1) + i - 1
        OBVIOUS
    <2>3. Len(ts) - (k + 1) + 1 = n - 1
        OBVIOUS
    <2>4. \A i \in 1..(n - 1) : w[i + 1] = WorkOf(names, ts[(k + 1) + i - 1])
        BY <1>2, <2>2
    <2> HIDE DEF n
    <2> QED  BY <2>1, <2>3, <2>4 DEF WorkFrom
<1> QED  BY <1>3, <1>4, <1>5 DEF w

\* A function over 1..n is a sequence.
LEMMA FunctionIsSeq ==
    ASSUME NEW S, NEW n \in Nat, NEW u \in [1..n -> S]
    PROVE  u \in Seq(S) /\ Len(u) = n
OBVIOUS

\* Sequence u is s with f applied to each element.
Mapped(f, s, u) == Len(u) = Len(s) /\ \A i \in 1..Len(s) : u[i] = f[s[i]]

LEMMA MapConcat ==
    ASSUME NEW S, NEW R, NEW f, NEW s \in Seq(S), NEW t \in Seq(S),
           NEW u \in Seq(R), NEW v \in Seq(R), Mapped(f, s, u), Mapped(f, t, v)
    PROVE  s \o t \in Seq(S) /\ u \o v \in Seq(R) /\ Mapped(f, s \o t, u \o v)
<1> DEFINE st == s \o t
           uv == u \o v
<1>1. /\ st \in Seq(S) /\ Len(s) \in Nat /\ Len(t) \in Nat /\ Len(st) = Len(s) + Len(t)
      /\ \A i \in 1..Len(st) : st[i] = IF i <= Len(s) THEN s[i] ELSE t[i - Len(s)]
    BY ConcatElements
<1>2. /\ uv \in Seq(R) /\ Len(uv) = Len(u) + Len(v)
      /\ \A i \in 1..Len(uv) : uv[i] = IF i <= Len(u) THEN u[i] ELSE v[i - Len(u)]
    BY ConcatElements
<1> HIDE DEF st, uv
<1>3. Len(uv) = Len(st) /\ Len(u) = Len(s) /\ Len(v) = Len(t)
    BY <1>1, <1>2 DEF Mapped
<1>4. ASSUME NEW i \in 1..Len(st) PROVE uv[i] = f[st[i]]
    <2>1. CASE i <= Len(s)
        <3>1. i \in 1..Len(s) /\ st[i] = s[i] /\ uv[i] = u[i]
            BY <1>1, <1>2, <1>3, <2>1
        <3> QED  BY <3>1 DEF Mapped
    <2>2. CASE i > Len(s)
        <3>1. i - Len(s) \in 1..Len(t) /\ st[i] = t[i - Len(s)] /\ uv[i] = v[i - Len(s)]
            BY <1>1, <1>2, <1>3, <2>2
        <3> QED  BY <3>1 DEF Mapped
    <2> QED  BY <1>1, <2>1, <2>2
<1> QED  BY <1>1, <1>2, <1>3, <1>4 DEF Mapped, st, uv

\* The tasks of a Sync stand for the work the contract speaks of.
LEMMA SyncWorkMapped ==
    ASSUME NEW d, IsDesiredState(d)
    PROVE  WorkFrom(d.Aliases, SyncTasks(d), 1) = Promise!SyncWork(d)
<1> DEFINE I == d.IngressNodes   A == d.StaleAliasNodes
           L == d.LandbSetNodes  C == d.StaleLandbSetNodes
           f == [t \in Task |-> WorkOf(d.Aliases, t)]
           R == {WorkOf(d.Aliases, t) : t \in Task}
           s1 == Loop("syncAlias", I)  s2 == Loop("cleanupAlias", A)
           s3 == Loop("syncSet", L)    s4 == Loop("cleanupSet", C)
           u1 == [i \in 1..Len(I) |->
                    Promise!ServedWork(I[i], Promise!WithSuffix(d.Aliases, i - 1))]
           u2 == [i \in 1..Len(A) |-> Promise!ServedWork(A[i], {})]
           u3 == [i \in 1..Len(L) |-> Promise!SetWork(L[i], L[i].LandbSet)]
           u4 == [i \in 1..Len(C) |-> Promise!SetWork(C[i], <<>>)]
<1>1. /\ IsNodeList(I) /\ IsNodeList(A) /\ IsNodeList(L) /\ IsNodeList(C)
      /\ \A i \in 1..Len(L) : L[i].LandbSet \in LandbSetValue
    BY DEF IsDesiredState
<1>2. /\ Len(I) \in Nat /\ Len(A) \in Nat /\ Len(L) \in Nat /\ Len(C) \in Nat
      /\ d.Aliases \in Seq(Alias)
    BY <1>1, SeqElements DEF IsNodeList, IsDesiredState
<1>3. /\ SyncTasks(d) = s1 \o s2 \o s3 \o s4
      /\ Promise!SyncWork(d) = u1 \o u2 \o u3 \o u4
    BY DEF SyncTasks, Promise!SyncWork
<1> HIDE DEF I, A, L, C
<1>4. /\ TasksOver("syncAlias", I, s1) /\ TasksOver("cleanupAlias", A, s2)
      /\ TasksOver("syncSet", L, s3) /\ TasksOver("cleanupSet", C, s4)
    BY <1>1, LoopTasks
<1>5. /\ s1 \in Seq(Task) /\ Len(s1) = Len(I) /\ s2 \in Seq(Task) /\ Len(s2) = Len(A)
      /\ s3 \in Seq(Task) /\ Len(s3) = Len(L) /\ s4 \in Seq(Task) /\ Len(s4) = Len(C)
    BY <1>4 DEF TasksOver
<1>6. /\ \A i \in 1..Len(I) : s1[i] \in Task
      /\ \A i \in 1..Len(A) : s2[i] \in Task
      /\ \A i \in 1..Len(L) : s3[i] \in Task
      /\ \A i \in 1..Len(C) : s4[i] \in Task
    <2> HIDE DEF s1, s2, s3, s4
    <2> QED  BY <1>5, SeqElements
<1>7. ASSUME NEW i \in 1..Len(I) PROVE u1[i] = f[s1[i]]
    <2>1. s1[i].op = "syncAlias" /\ s1[i].node = I[i].Name /\ s1[i].index = i - 1
        BY DEF Loop
    <2>2. ToSet(addSuffix(d.Aliases, i - 1)) = Promise!WithSuffix(d.Aliases, i - 1)
        BY <1>2 DEF addSuffix, ToSet, Promise!WithSuffix, Promise!ToSet
    <2>3. WorkOf(d.Aliases, s1[i]) = u1[i]
        BY <2>1, <2>2 DEF WorkOf, IsAliasTask, Promise!ServedWork
    <2> HIDE DEF s1, u1
    <2> QED  BY <1>6, <2>3
<1>8. ASSUME NEW i \in 1..Len(A) PROVE u2[i] = f[s2[i]]
    <2>1. s2[i].op = "cleanupAlias" /\ s2[i].node = A[i].Name
        BY DEF Loop
    <2>2. WorkOf(d.Aliases, s2[i]) = u2[i]
        BY <2>1 DEF WorkOf, IsAliasTask, Promise!ServedWork
    <2> HIDE DEF s2, u2
    <2> QED  BY <1>6, <2>2
<1>9. ASSUME NEW i \in 1..Len(L) PROVE u3[i] = f[s3[i]]
    <2>1. s3[i].op = "syncSet" /\ s3[i].node = L[i].Name /\ s3[i].landbSet = L[i].LandbSet
        BY DEF Loop
    <2>2. WorkOf(d.Aliases, s3[i]) = u3[i]
        BY <2>1 DEF WorkOf, IsAliasTask, Promise!SetWork
    <2> HIDE DEF s3, u3
    <2> QED  BY <1>6, <2>2
<1>10. ASSUME NEW i \in 1..Len(C) PROVE u4[i] = f[s4[i]]
    <2>1. s4[i].op = "cleanupSet" /\ s4[i].node = C[i].Name
        BY DEF Loop
    <2>2. WorkOf(d.Aliases, s4[i]) = u4[i]
        BY <2>1 DEF WorkOf, IsAliasTask, Promise!SetWork
    <2> HIDE DEF s4, u4
    <2> QED  BY <1>6, <2>2
<1>11. /\ \A i \in 1..Len(I) : u1[i] \in R
       /\ \A i \in 1..Len(A) : u2[i] \in R
       /\ \A i \in 1..Len(L) : u3[i] \in R
       /\ \A i \in 1..Len(C) : u4[i] \in R
    <2> HIDE DEF u1, u2, u3, u4, s1, s2, s3, s4
    <2> QED  BY <1>6, <1>7, <1>8, <1>9, <1>10
<1>12. /\ u1 \in [1..Len(I) -> R] /\ u2 \in [1..Len(A) -> R]
       /\ u3 \in [1..Len(L) -> R] /\ u4 \in [1..Len(C) -> R]
    <2> HIDE DEF R
    <2> QED  BY <1>11
<1> HIDE DEF u1, u2, u3, u4, s1, s2, s3, s4, f, R
<1>13. /\ u1 \in Seq(R) /\ u2 \in Seq(R) /\ u3 \in Seq(R) /\ u4 \in Seq(R)
       /\ Len(u1) = Len(I) /\ Len(u2) = Len(A) /\ Len(u3) = Len(L) /\ Len(u4) = Len(C)
    BY <1>2, <1>12, FunctionIsSeq
<1>14. Mapped(f, s1, u1) /\ Mapped(f, s2, u2) /\ Mapped(f, s3, u3) /\ Mapped(f, s4, u4)
    BY <1>5, <1>7, <1>8, <1>9, <1>10, <1>13 DEF Mapped
<1> HIDE DEF Task
<1> DEFINE s12 == s1 \o s2    u12 == u1 \o u2
           s123 == s12 \o s3  u123 == u12 \o u3
           ts == s123 \o s4   ws == u123 \o u4
<1>15. s12 \in Seq(Task) /\ u12 \in Seq(R) /\ Mapped(f, s12, u12)
    BY <1>5, <1>13, <1>14, MapConcat
<1> HIDE DEF s12, u12
<1>16. s123 \in Seq(Task) /\ u123 \in Seq(R) /\ Mapped(f, s123, u123)
    BY <1>5, <1>13, <1>14, <1>15, MapConcat
<1> HIDE DEF s123, u123
<1>17. ts \in Seq(Task) /\ ws \in Seq(R) /\ Mapped(f, ts, ws)
    BY <1>5, <1>13, <1>14, <1>16, MapConcat
<1>18. SyncTasks(d) = ts /\ Promise!SyncWork(d) = ws
    BY <1>3 DEF s12, s123, u12, u123
<1> HIDE DEF ts, ws
<1>19. Len(ts) \in Nat /\ Len(ws) = Len(ts) /\ Len(ts) - 1 + 1 = Len(ts)
    BY <1>17 DEF Mapped
<1>20. ASSUME NEW i \in 1..Len(ts) PROVE WorkOf(d.Aliases, ts[1 + i - 1]) = ws[i]
    <2>1. ws[i] = f[ts[i]] /\ ts[i] \in Task /\ 1 + i - 1 = i
        BY <1>17, <1>19, SeqElements DEF Mapped
    <2> QED  BY <2>1 DEF f
<1>21. ws = [i \in 1..Len(ts) |-> ws[i]]
    BY <1>17, <1>19
<1>22. WorkFrom(d.Aliases, ts, 1) = ws
    BY <1>19, <1>20, <1>21 DEF WorkFrom
<1> QED  BY <1>18, <1>22

-----------------------------------------------------------------------------
(***************************************************************************)
(* What a call does to the mapped metadata.                                *)
(***************************************************************************)
Quiet == UniqueNames /\ ProviderInv /\ PackedInv /\ touched = {}

\* What a call leaves alone, and how it leaves the task.
LEMMA CallControl ==
    ASSUME Quiet, Call
    PROVE  /\ live' = live /\ touched' = {} /\ tasks' = tasks /\ aliases' = aliases
           /\ edits' = edits
           /\ pos \in 1..Len(tasks) /\ Len(tasks) \in Nat /\ task \in Task /\ task.node \in Node
           /\ \/ pos' = pos /\ errs' = errs
              \/ pos' = pos + 1 /\ errs' = errs /\ pos \notin errs'
              \/ pos' = pos + 1 /\ errs' = errs \cup {pos}
<1>1. /\ live' = live /\ touched' = touched /\ tasks' = tasks /\ aliases' = aliases
      /\ pc \in CallPc /\ edits' = edits
      /\ \/ pos' = pos /\ errs' = errs
         \/ pos' = pos + 1 /\ errs' = errs
         \/ pos' = pos + 1 /\ errs' = errs \cup {pos}
    BY DEF Call, PackingFails, getServerID, getMetadata, updateMetadata, deleteMetadatum,
           NotFound, Reauthenticate, AuthenticationFails, RejectedAgain, CallFails,
           AnswerLost, ReadyToCall, CallReturnsError, Proceed, EndTask, CallPc, novaVars
<1>2. pos \in 1..Len(tasks) /\ Len(tasks) \in Nat /\ task \in Task
    BY <1>1, TaskType DEF Quiet, ProviderInv, SyncInv
<1>3. pos \notin errs
    BY <1>2 DEF Quiet, ProviderInv, SyncInv, SyncTypeOK
<1> QED  BY <1>1, <1>2, <1>3 DEF Quiet, Task

\* A server whose metadata a call changes is the only server of the task's node.
LEMMA CallWrites ==
    ASSUME Quiet, Call, NEW n \in Node, NEW s \in live \cap NameMatch[n], meta'[s] # meta[s]
    PROVE  /\ n = task.node /\ s = sid /\ live \cap NameMatch[n] = {s}
           /\ PlanIsRight(task, toUpdate, toDelete)
           /\ \/ meta'[s] = Written(toUpdate, meta[s])
              \/ \E key \in toDelete : meta'[s] = Without(meta[s], key)
<1>1. s \in Server /\ edits' = edits
    BY CallControl DEF Quiet, ProviderInv, NovaTypeOK
<1>2. /\ pc \in {"update", "delete"} /\ s = sid /\ s \in NameMatch[task.node]
      /\ PlanIsRight(task, toUpdate, toDelete)
      /\ \/ meta'[s] = Written(toUpdate, meta[s])
         \/ \E key \in toDelete : meta'[s] = Without(meta[s], key)
    BY <1>1, WriteBySync DEF Quiet, Next
<1>3. n = task.node
    BY <1>2, CallControl DEF Quiet, UniqueNames
<1>4. Listed(n) \ touched \subseteq {sid}
    BY <1>2, <1>3 DEF Quiet, ProviderInv, SyncInv, ServerResolved
<1>5. live \cap NameMatch[n] = {s}
    BY <1>2, <1>4 DEF Listed, Quiet
<1> QED  BY <1>2, <1>3, <1>5

\* Nothing changes at another node.
LEMMA OtherNodesKept ==
    ASSUME Quiet, Call, NEW n \in Node, n # task.node
    PROVE  /\ ServedIn(live, meta', n) = ServedIn(live, meta, n)
           /\ SetsIn(live, meta', n) = SetsIn(live, meta, n)
<1>1. \A s \in live \cap NameMatch[n] : meta'[s] = meta[s]
    BY CallWrites
<1> QED  BY <1>1 DEF ServedIn, SetsIn

\* Nothing changes in the other kind of metadata.
LEMMA OtherPartKept ==
    ASSUME Quiet, Call, NEW n \in Node
    PROVE  /\ ~IsAliasTask(task) => ServedIn(live, meta', n) = ServedIn(live, meta, n)
           /\ IsAliasTask(task) => SetsIn(live, meta', n) = SetsIn(live, meta, n)
<1>1. live \subseteq Server /\ edits' = edits
    BY CallControl DEF Quiet, ProviderInv, NovaTypeOK
<1>2. ASSUME NEW s \in live, NEW k \in DOMAIN meta[s] \cup DOMAIN meta'[s], ~Owns(task, k)
      PROVE  k \in DOMAIN meta[s] /\ k \in DOMAIN meta'[s] /\ meta'[s][k] = meta[s][k]
    <2>1. CASE meta'[s] = meta[s]
        BY <2>1
    <2>2. CASE meta'[s] # meta[s]
        BY <1>1, <1>2, <2>2, OtherKeysKept DEF Quiet, Next
    <2> QED  BY <2>1, <2>2
<1>3. ASSUME ~IsAliasTask(task), NEW s \in live
      PROVE  unpackAliases(meta'[s]) = unpackAliases(meta[s])
    <2>1. \A k : HasAliasPrefix(k) => ~Owns(task, k)
        BY <1>3 DEF HasAliasPrefix, Owns, landbSetMetadataKey
    <2> QED  BY <1>2, <2>1 DEF unpackAliases
<1>4. ASSUME IsAliasTask(task), NEW s \in live
      PROVE  /\ landbSetMetadataKey \in DOMAIN meta'[s] <=> landbSetMetadataKey \in DOMAIN meta[s]
             /\ landbSetMetadataKey \in DOMAIN meta[s]
                    => meta'[s][landbSetMetadataKey] = meta[s][landbSetMetadataKey]
    <2>1. ~Owns(task, landbSetMetadataKey)
        BY <1>4 DEF Owns, landbSetMetadataKey
    <2> QED  BY <1>2, <2>1
<1>5. ~IsAliasTask(task) => ServedIn(live, meta', n) = ServedIn(live, meta, n)
    BY <1>3 DEF ServedIn
<1>6. IsAliasTask(task) => SetsIn(live, meta', n) = SetsIn(live, meta, n)
    BY <1>4 DEF SetsIn
<1> QED  BY <1>5, <1>6

\* What the landb-alias keys of a task's target hold is what the node is to serve.
LEMMA TargetValue ==
    ASSUME Quiet, pc \in {"read", "update", "delete"}, IsAliasTask(task)
    PROVE  unpackAliases(Target(task)) = WorkOf(aliases, task).value
<1>1. task \in Task
    BY TaskType DEF Quiet, ProviderInv, SyncInv, CallPc
<1>2. CASE task.op = "syncAlias"
    <2>1. Packable(SuffixedAliases(task))
        BY <1>2 DEF Quiet, PackedInv
    <2>2. IsSuffixedList(SuffixedAliases(task))
        BY <1>1, SuffixedAliasesType DEF Quiet
    <2>3. unpackAliases(Target(task)) = ToSet(SuffixedAliases(task))
        BY <1>2, <2>1, <2>2, UnpackInvertsPack DEF Target
    <2> QED  BY <1>2, <2>3 DEF WorkOf, SuffixedAliases
<1>3. CASE task.op = "cleanupAlias"
    <2>1. Target(task) = EmptyMap
        BY <1>3 DEF Target
    <2> QED  BY <1>3, <2>1, EmptyMapType DEF WorkOf, unpackAliases
<1> QED  BY <1>2, <1>3 DEF IsAliasTask

\* A call leaves the aliases of its node between the old and the desired.
LEMMA ServedBetween ==
    ASSUME Quiet, Call, IsAliasTask(task)
    PROVE  ServedIn(live, meta', task.node)
                \subseteq ServedIn(live, meta, task.node) \cup WorkOf(aliases, task).value
<1> DEFINE n == task.node
<1>1. n \in Node
    BY CallControl
<1>2. ASSUME NEW s \in live \cap NameMatch[n]
      PROVE  unpackAliases(meta'[s]) \subseteq unpackAliases(meta[s]) \cup WorkOf(aliases, task).value
    <2>1. CASE meta'[s] = meta[s]
        BY <2>1
    <2>2. CASE meta'[s] = Written(toUpdate, meta[s]) /\ meta'[s] # meta[s]
        <3>1. \A k \in DOMAIN toUpdate : k \in DOMAIN Target(task) /\ toUpdate[k] = Target(task)[k]
            BY <1>1, <2>2, CallWrites DEF PlanIsRight
        <3>2. pc \in {"read", "update", "delete"}
            <4>1. s \in Server /\ edits' = edits
                BY CallControl DEF Quiet, ProviderInv, NovaTypeOK
            <4> QED  BY <2>2, <4>1, WriteBySync DEF Quiet, Next
        <3>3. unpackAliases(meta'[s]) \subseteq unpackAliases(meta[s]) \cup unpackAliases(Target(task))
            BY <2>2, <3>1 DEF unpackAliases, Written
        <3> QED  BY <3>2, <3>3, TargetValue
    <2>3. ASSUME NEW key, meta'[s] = Without(meta[s], key)
          PROVE  unpackAliases(meta'[s]) \subseteq unpackAliases(meta[s])
        BY <2>3 DEF unpackAliases, Without, Restrict
    <2> QED  BY <1>1, <2>1, <2>2, <2>3, CallWrites
<1> QED  BY <1>2 DEF ServedIn

\* The landb-set of a node with one server.
LEMMA OneServer ==
    ASSUME NEW servers, NEW metadata, NEW n, NEW s, servers \cap NameMatch[n] = {s}
    PROVE  /\ ServedIn(servers, metadata, n) = unpackAliases(metadata[s])
           /\ TheSet(SetsIn(servers, metadata, n)) =
                IF landbSetMetadataKey \in DOMAIN metadata[s]
                THEN metadata[s][landbSetMetadataKey] ELSE <<>>
<1>1. ServedIn(servers, metadata, n) = unpackAliases(metadata[s])
    BY DEF ServedIn
<1>2. CASE landbSetMetadataKey \in DOMAIN metadata[s]
    <2> DEFINE v == metadata[s][landbSetMetadataKey]
    <2>1. SetsIn(servers, metadata, n) = {v}
        BY <1>2 DEF SetsIn
    <2> HIDE DEF v
    <2>2. TheSet({v}) = v
        BY DEF TheSet
    <2> QED  BY <1>1, <1>2, <2>1, <2>2 DEF v
<1>3. CASE landbSetMetadataKey \notin DOMAIN metadata[s]
    <2>1. SetsIn(servers, metadata, n) = {}
        BY <1>3 DEF SetsIn
    <2> QED  BY <1>1, <1>3, <2>1 DEF TheSet
<1> QED  BY <1>2, <1>3

\* A call leaves the landb-set of its node at the old value or the desired one.
LEMMA SetBetween ==
    ASSUME Quiet, Call, ~IsAliasTask(task)
    PROVE  TheSet(SetsIn(live, meta', task.node))
                \in {TheSet(SetsIn(live, meta, task.node)), WorkOf(aliases, task).value}
<1> DEFINE n == task.node
           K == landbSetMetadataKey
<1>1. n \in Node /\ task \in Task
    BY CallControl
<1>2. CASE \A s \in live \cap NameMatch[n] : meta'[s] = meta[s]
    <2>1. SetsIn(live, meta', n) = SetsIn(live, meta, n)
        BY <1>2 DEF SetsIn
    <2> QED  BY <2>1
<1>3. ASSUME NEW s \in live \cap NameMatch[n], meta'[s] # meta[s]
      PROVE  TheSet(SetsIn(live, meta', n)) \in {TheSet(SetsIn(live, meta, n)), WorkOf(aliases, task).value}
    <2>1. /\ live \cap NameMatch[n] = {s} /\ PlanIsRight(task, toUpdate, toDelete)
          /\ \/ meta'[s] = Written(toUpdate, meta[s])
             \/ \E key \in toDelete : meta'[s] = Without(meta[s], key)
        BY <1>1, <1>3, CallWrites
    <2>2. /\ TheSet(SetsIn(live, meta', n)) = IF K \in DOMAIN meta'[s] THEN meta'[s][K] ELSE <<>>
          /\ TheSet(SetsIn(live, meta, n)) = IF K \in DOMAIN meta[s] THEN meta[s][K] ELSE <<>>
        BY <2>1, OneServer
    <2>3. task.op \in {"syncSet", "cleanupSet"}
        BY <1>1 DEF IsAliasTask, Task
    <2>4. /\ task.op = "syncSet" => Target(task) = [k \in {K} |-> task.landbSet]
          /\ task.op = "cleanupSet" => Target(task) = EmptyMap
        BY DEF Target
    <2>5. /\ task.op = "syncSet" => WorkOf(aliases, task).value = task.landbSet
          /\ task.op = "cleanupSet" => WorkOf(aliases, task).value = <<>>
        BY DEF WorkOf
    <2> HIDE DEF K
    <2>6. CASE meta'[s] = Written(toUpdate, meta[s])
        <3>1. CASE K \in DOMAIN toUpdate
            <4>1. K \in DOMAIN Target(task) /\ toUpdate[K] = Target(task)[K]
                BY <2>1, <3>1 DEF PlanIsRight
            <4>2. task.op = "syncSet" /\ toUpdate[K] = task.landbSet
                BY <2>3, <2>4, <4>1, EmptyMapType
            <4>3. K \in DOMAIN meta'[s] /\ meta'[s][K] = toUpdate[K]
                BY <2>6, <3>1 DEF Written
            <4> QED  BY <2>2, <2>5, <4>2, <4>3
        <3>2. CASE K \notin DOMAIN toUpdate
            <4>1. /\ K \in DOMAIN meta'[s] <=> K \in DOMAIN meta[s]
                  /\ K \in DOMAIN meta[s] => meta'[s][K] = meta[s][K]
                BY <2>6, <3>2 DEF Written
            <4> QED  BY <2>2, <4>1
        <3> QED  BY <3>1, <3>2
    <2>7. ASSUME NEW key \in toDelete, meta'[s] = Without(meta[s], key)
          PROVE  TheSet(SetsIn(live, meta', n))
                    \in {TheSet(SetsIn(live, meta, n)), WorkOf(aliases, task).value}
        <3>1. CASE key = K
            <4>1. K \notin DOMAIN Target(task)
                BY <2>1, <3>1 DEF PlanIsRight
            <4>2. task.op = "cleanupSet"
                BY <2>3, <2>4, <4>1
            <4>3. K \notin DOMAIN meta'[s]
                BY <2>7, <3>1 DEF Without, Restrict
            <4> QED  BY <2>2, <2>5, <4>2, <4>3
        <3>2. CASE key # K
            <4>1. /\ K \in DOMAIN meta'[s] <=> K \in DOMAIN meta[s]
                  /\ K \in DOMAIN meta[s] => meta'[s][K] = meta[s][K]
                BY <2>7, <3>2 DEF Without, Restrict
            <4> QED  BY <2>2, <4>1
        <3> QED  BY <3>1, <3>2
    <2> QED  BY <2>1, <2>6, <2>7
<1> QED  BY <1>2, <1>3

\* A task that ends without an error has brought its node to the desired value.
LEMMA ValueReached ==
    ASSUME Quiet, Call, pos' # pos, pos \notin errs'
    PROVE  /\ IsAliasTask(task)
                => ServedIn(live, meta', task.node) = WorkOf(aliases, task).value
           /\ ~IsAliasTask(task)
                => TheSet(SetsIn(live, meta', task.node)) = WorkOf(aliases, task).value
<1> DEFINE n == task.node
           K == landbSetMetadataKey
<1>1. /\ pc \in {"read", "update", "delete"}
      /\ PlanSuffices(task, meta'[sid], EmptyMap, {}, FALSE, {})
    BY TaskDone DEF Quiet
<1>2. live \cap NameMatch[n] = {sid}
    BY <1>1 DEF Quiet, ProviderInv, SyncInv, ServerResolved, Listed
<1>3. task \in Task
    BY CallControl
<1>4. Reconciled(task, meta'[sid])
    BY <1>1, <1>3, EmptyMapType, ReconciledByKey DEF PlanSuffices
<1>5. /\ ServedIn(live, meta', n) = unpackAliases(meta'[sid])
      /\ TheSet(SetsIn(live, meta', n)) = IF K \in DOMAIN meta'[sid] THEN meta'[sid][K] ELSE <<>>
    BY <1>2, OneServer
<1>6. ASSUME IsAliasTask(task) PROVE ServedIn(live, meta', n) = WorkOf(aliases, task).value
    BY <1>1, <1>3, <1>4, <1>5, <1>6, ReconciledUnpacked, TargetValue
<1>7. CASE task.op = "syncSet"
    <2>1. Target(task) = [k \in {K} |-> task.landbSet] /\ WorkOf(aliases, task).value = task.landbSet
        BY <1>7 DEF Target, WorkOf
    <2>2. K \in DOMAIN meta'[sid] /\ meta'[sid][K] = task.landbSet
        BY <1>1, <2>1, EmptyMapType DEF PlanSuffices
    <2> QED  BY <1>5, <1>7, <2>1, <2>2 DEF IsAliasTask
<1>8. CASE task.op = "cleanupSet"
    <2>1. Target(task) = EmptyMap /\ WorkOf(aliases, task).value = <<>> /\ Owns(task, K)
        BY <1>8 DEF Target, WorkOf, Owns, IsAliasTask
    <2>2. K \notin DOMAIN meta'[sid]
        BY <1>1, <2>1, EmptyMapType DEF PlanSuffices
    <2> QED  BY <1>5, <1>8, <2>1, <2>2 DEF IsAliasTask
<1> QED  BY <1>3, <1>6, <1>7, <1>8 DEF IsAliasTask, Task

-----------------------------------------------------------------------------
(***************************************************************************)
(* Every step is a step of the contract.                                   *)
(***************************************************************************)

\* What a call does, in the contract's variables.
LEMMA CallMapped ==
    ASSUME Quiet, Call
    PROVE  /\ WorkLeft # <<>> /\ Head(WorkLeft) = WorkOf(aliases, task)
           /\ pos' = pos => WorkLeft' = WorkLeft
           /\ pos' # pos => WorkLeft' = Tail(WorkLeft)
           /\ IsAliasTask(task) =>
                /\ SetByNode' = SetByNode
                /\ ServedByNode' =
                    [ServedByNode EXCEPT ![task.node] = ServedIn(live, meta', task.node)]
           /\ ~IsAliasTask(task) =>
                /\ ServedByNode' = ServedByNode
                /\ SetByNode' =
                    [SetByNode EXCEPT ![task.node] = TheSet(SetsIn(live, meta', task.node))]
<1> DEFINE n == task.node
<1>1. /\ live' = live /\ tasks' = tasks /\ aliases' = aliases /\ n \in Node
      /\ pos \in 1..Len(tasks) /\ Len(tasks) \in Nat /\ pos' \in {pos, pos + 1}
    BY CallControl
<1>2. pos \in 1..(Len(tasks) + 1) /\ pos <= Len(tasks)
    BY <1>1
<1>3. /\ WorkLeft # <<>> /\ Head(WorkLeft) = WorkOf(aliases, task)
      /\ Tail(WorkLeft) = WorkFrom(aliases, tasks, pos + 1)
      /\ WorkLeft = WorkFrom(aliases, tasks, pos)
    BY <1>1, <1>2, MappedVariables, WorkFromIs DEF task
<1>4. WorkLeft' = WorkFrom(aliases, tasks, pos')
    BY <1>1, MappedVariablesNext
<1>5. /\ ServedByNode = [m \in Node |-> ServedIn(live, meta, m)]
      /\ SetByNode = [m \in Node |-> TheSet(SetsIn(live, meta, m))]
    BY MappedVariables
<1>6. /\ ServedByNode' = [m \in Node |-> ServedIn(live, meta', m)]
      /\ SetByNode' = [m \in Node |-> TheSet(SetsIn(live, meta', m))]
    BY <1>1, MappedVariablesNext
<1>7. \A m \in Node \ {n} : /\ ServedIn(live, meta', m) = ServedIn(live, meta, m)
                            /\ SetsIn(live, meta', m) = SetsIn(live, meta, m)
    BY OtherNodesKept
<1>8. ASSUME IsAliasTask(task)
      PROVE  /\ SetByNode' = SetByNode
             /\ ServedByNode' = [ServedByNode EXCEPT ![n] = ServedIn(live, meta', n)]
    <2>1. \A m \in Node : SetsIn(live, meta', m) = SetsIn(live, meta, m)
        BY <1>8, OtherPartKept
    <2> QED  BY <1>1, <1>5, <1>6, <1>7, <2>1
<1>9. ASSUME ~IsAliasTask(task)
      PROVE  /\ ServedByNode' = ServedByNode
             /\ SetByNode' = [SetByNode EXCEPT ![n] = TheSet(SetsIn(live, meta', n))]
    <2>1. \A m \in Node : ServedIn(live, meta', m) = ServedIn(live, meta, m)
        BY <1>9, OtherPartKept
    <2> QED  BY <1>1, <1>5, <1>6, <1>7, <2>1
<1> QED  BY <1>1, <1>3, <1>4, <1>8, <1>9

\* A call is a step of the contract: a node is done, has failed, or has come
\* nearer to what is desired.
LEMMA CallRefines ==
    ASSUME Quiet, Call
    PROVE  Promise!ContractNext(DesiredStates)
<1> DEFINE n == task.node
           w == WorkOf(aliases, task)
<1>1. n \in Node
    BY CallControl
<1>2. /\ w.node = n
      /\ IsAliasTask(task) => w.part = "served"
      /\ ~IsAliasTask(task) => w.part # "served"
    BY DEF WorkOf
<1>3. /\ ServedByNode[n] = ServedIn(live, meta, n)
      /\ SetByNode[n] = TheSet(SetsIn(live, meta, n))
    BY <1>1, MappedVariables
<1> HIDE DEF n, w
<1>4. Promise!LeaveBetween(w)
    <2>1. CASE IsAliasTask(task)
        <3>1. ServedIn(live, meta', n) \in SUBSET (ServedByNode[w.node] \cup w.value)
            BY <1>2, <1>3, <2>1, ServedBetween DEF n, w
        <3>2. /\ ServedByNode' = [ServedByNode EXCEPT ![w.node] = ServedIn(live, meta', n)]
              /\ SetByNode' = SetByNode
            BY <1>2, <2>1, CallMapped DEF n
        <3> QED  BY <1>2, <2>1, <3>1, <3>2 DEF Promise!LeaveBetween
    <2>2. CASE ~IsAliasTask(task)
        <3>1. TheSet(SetsIn(live, meta', n)) \in {SetByNode[w.node], w.value}
            BY <1>2, <1>3, <2>2, SetBetween DEF n, w
        <3>2. /\ SetByNode' = [SetByNode EXCEPT ![w.node] = TheSet(SetsIn(live, meta', n))]
              /\ ServedByNode' = ServedByNode
            BY <1>2, <2>2, CallMapped DEF n
        <3> QED  BY <1>2, <2>2, <3>1, <3>2 DEF Promise!LeaveBetween
    <2> QED  BY <2>1, <2>2
<1>5. WorkLeft # <<>> /\ Head(WorkLeft) = w
    BY CallMapped DEF w
<1>6. pos \in Nat /\ pos # pos + 1
    BY CallControl
<1>7. CASE pos' = pos /\ errs' = errs
    <2>1. WorkLeft' = WorkLeft /\ NodeFailed' = NodeFailed
        BY <1>7, CallMapped DEF NodeFailed
    <2>2. Promise!SyncProgress
        BY <1>4, <1>5, <2>1 DEF Promise!SyncProgress
    <2> QED  BY <2>2 DEF Promise!ContractNext
<1>8. CASE pos' = pos + 1 /\ errs' = errs \cup {pos}
    <2>1. WorkLeft' = Tail(WorkLeft) /\ NodeFailed' = TRUE
        BY <1>6, <1>8, CallMapped DEF NodeFailed
    <2>2. Promise!SyncNodeFails
        BY <1>4, <1>5, <2>1 DEF Promise!SyncNodeFails
    <2> QED  BY <2>2 DEF Promise!ContractNext
<1>9. CASE pos' = pos + 1 /\ errs' = errs /\ pos \notin errs'
    <2>1. WorkLeft' = Tail(WorkLeft) /\ NodeFailed' = NodeFailed
        BY <1>6, <1>9, CallMapped DEF NodeFailed
    <2>2. Promise!Reach(w)
        <3>1. CASE IsAliasTask(task)
            <4>1. ServedIn(live, meta', n) = w.value
                BY <1>6, <1>9, <3>1, ValueReached DEF n, w
            <4> QED  BY <1>2, <3>1, <4>1, CallMapped DEF Promise!Reach, n
        <3>2. CASE ~IsAliasTask(task)
            <4>1. TheSet(SetsIn(live, meta', n)) = w.value
                BY <1>6, <1>9, <3>2, ValueReached DEF n, w
            <4> QED  BY <1>2, <3>2, <4>1, CallMapped DEF Promise!Reach, n
        <3> QED  BY <3>1, <3>2
    <2>3. Promise!SyncNode
        BY <1>5, <2>1, <2>2 DEF Promise!SyncNode
    <2> QED  BY <2>3 DEF Promise!ContractNext
<1> QED  BY <1>7, <1>8, <1>9, CallControl

\* So is the call of Sync.
LEMMA StartRefines ==
    ASSUME Quiet, NEW d \in DesiredStates, StartSync(d)
    PROVE  Promise!ContractNext(DesiredStates)
<1>1. /\ pc = "idle" /\ aliases' = d.Aliases /\ tasks' = SyncTasks(d) /\ pos' = 1 /\ errs' = {}
      /\ live' = live /\ meta' = meta
    BY DEF StartSync, novaVars
<1>2. WorkLeft = <<>>
    <2>1. Len(tasks) \in Nat /\ pos \in 1..(Len(tasks) + 1) /\ pos > Len(tasks)
        BY <1>1 DEF Quiet, ProviderInv, SyncInv, SyncTypeOK
    <2> QED  BY <2>1, MappedVariables, WorkFromIs
<1>3. WorkLeft' = Promise!SyncWork(d)
    <2>1. IsDesiredState(d)
        BY ProviderAssumption
    <2> QED  BY <1>1, <2>1, MappedVariablesNext, SyncWorkMapped
<1>4. NodeFailed' = FALSE
    BY <1>1 DEF NodeFailed
<1>5. ServedByNode' = ServedByNode /\ SetByNode' = SetByNode
    BY <1>1, MappedVariables, MappedVariablesNext
<1>6. Promise!BeginSync(d)
    BY <1>3, <1>4, <1>5 DEF Promise!BeginSync
<1> QED  BY <1>2, <1>6 DEF Promise!ContractNext, Promise!CallSync

\* The initial states are the contract's.
LEMMA InitRefines == Init => Promise!ContractInit
<1> SUFFICES ASSUME Init PROVE Promise!ContractInit
    OBVIOUS
<1>1. tasks = <<>> /\ pos = 1 /\ errs = {}
    BY DEF Init
<1>2. Len(tasks) \in Nat /\ pos \in 1..(Len(tasks) + 1) /\ pos > Len(tasks)
    BY <1>1
<1>3. WorkLeft = <<>>
    BY <1>2, MappedVariables, WorkFromIs
<1>4. NodeFailed = FALSE
    BY <1>1 DEF NodeFailed
<1> QED  BY <1>3, <1>4 DEF Promise!ContractInit

\* While nobody else edits metadata, no server is touched.
LEMMA NobodyElse == MaxEdits = 0 => (Spec => [](touched = {}))
<1> SUFFICES ASSUME MaxEdits = 0 PROVE Spec => [](touched = {})
    OBVIOUS
<1>1. Init => touched = {}
    BY DEF Init
<1>2. ProviderInv /\ touched = {} /\ [Next]_vars => (touched = {})'
    <2> SUFFICES ASSUME ProviderInv, touched = {}, [Next]_vars PROVE touched' = {}
        OBVIOUS
    <2>1. CASE Call
        BY <2>1 DEF Call, PackingFails, getServerID, getMetadata, updateMetadata, deleteMetadatum,
            NotFound, Reauthenticate, AuthenticationFails, RejectedAgain, CallFails, AnswerLost
    <2>2. ~(edits < MaxEdits)
        BY DEF ProviderInv, ObservedTypeOK
    <2>3. CASE World
        BY <2>2, <2>3 DEF World, TokenExpires, ManualEdit, ServerDeleted
    <2> QED  BY <2>1, <2>3 DEF Next, StartSync, vars
<1> QED  BY <1>1, <1>2, ProviderInvariant, PTL DEF Spec

\* The OpenStack provider does what the controller relies on, for any number of
\* nodes and aliases and whatever calls fail: Spec implements the contract under
\* the refinement mapping, as long as nobody else edits metadata and no server
\* is listed for two node names (ImplementsContract).
THEOREM ContractImplemented == UniqueNames /\ MaxEdits = 0 => (Spec => ImplementsContract)
<1> SUFFICES ASSUME UniqueNames, MaxEdits = 0 PROVE Spec => ImplementsContract
    OBVIOUS
<1>1. ASSUME ProviderInv, PackedInv, touched = {}, [Next]_vars
      PROVE  Promise!ContractNext(DesiredStates) \/ UNCHANGED Promise!syncVars
    <2>1. Quiet
        BY <1>1 DEF Quiet
    <2>2. CASE Call
        BY <2>1, <2>2, CallRefines
    <2>3. ASSUME NEW d \in DesiredStates, StartSync(d)
          PROVE  Promise!ContractNext(DesiredStates)
        BY <2>1, <2>3, StartRefines
    <2>4. CASE World \/ UNCHANGED vars
        <3>1. ~(edits < MaxEdits)
            BY <1>1 DEF ProviderInv, ObservedTypeOK
        <3>2. /\ live' = live /\ meta' = meta /\ aliases' = aliases /\ tasks' = tasks
              /\ pos' = pos /\ errs' = errs
            BY <2>4, <3>1 DEF World, TokenExpires, ManualEdit, ServerDeleted, syncVars, vars, novaVars
        <3>3. /\ ServedByNode' = ServedByNode /\ SetByNode' = SetByNode /\ WorkLeft' = WorkLeft
              /\ NodeFailed' = NodeFailed
            BY <3>2, MappedVariables, MappedVariablesNext DEF NodeFailed
        <3> QED  BY <3>3 DEF Promise!syncVars
    <2> QED  BY <1>1, <2>2, <2>3, <2>4 DEF Next
<1>2. ProviderInv /\ PackedInv /\ touched = {} /\ [Next]_vars
        => [Promise!ContractNext(DesiredStates)]_(Promise!syncVars)
    BY <1>1
<1> QED  BY <1>2, InitRefines, NobodyElse, ProviderInvariant, PackedInvariant, PTL
         DEF Spec, ImplementsContract
============================================================================
