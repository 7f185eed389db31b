--------------------------- MODULE TaskGroup_proofs ---------------------------
(***************************************************************************)
(* Proofs about TaskGroup, for any tasks, dependencies, ends of tasks and  *)
(* number of copies.                                                       *)
(***************************************************************************)
EXTENDS TaskGroup, FiniteSetTheorems, TLAPS

(***************************************************************************)
(* The inductive invariant: the tasks of a name are numbered from 0, and a *)
(* name that is not run again has one.  (What is bounded is their number,  *)
(* but the next copy is numbered after the last.)                          *)
(***************************************************************************)
Row(t, k) == {<<t, i>> : i \in 0..(k - 1)}
Bounded(t, k) ==
  /\ 2 * k <= Max({2, RetriggerCount}) + 2 * RetriggerCount
  /\ t \notin Wpt => k <= 1
CopiesNumbered(t) == \E k \in Nat : Named(t) = Row(t, k) /\ Bounded(t, k)

TaskInv == TypeOK /\ \A t \in Task : CopiesNumbered(t)

-----------------------------------------------------------------------------
(* Lemmas on rows of tasks. *)

LEMMA LimitIs ==
  LET max == Max({2, RetriggerCount})
  IN  max \in {2, RetriggerCount} /\ max >= 2 /\ max >= RetriggerCount /\ max \in Nat
<1>1. RetriggerCount \in Nat
  BY TaskAssumption
<1>2. \E x \in {2, RetriggerCount} : \A y \in {2, RetriggerCount} : x >= y
  <2>1. CASE RetriggerCount >= 2
    BY <1>1, <2>1
  <2>2. CASE RetriggerCount < 2
    BY <1>1, <2>2
  <2>3. QED
    BY <1>1, <2>1, <2>2
<1>3. QED
  BY <1>1, <1>2 DEF Max

LEMMA RowSize ==
  ASSUME NEW t, NEW k \in Nat
  PROVE  Cardinality(Row(t, k)) = k
<1> DEFINE f == [i \in 1..k |-> <<t, i - 1>>]
<1>1. f \in [1..k -> Row(t, k)]
  BY DEF Row
<1>2. \A i, j \in 1..k : f[i] = f[j] => i = j
  OBVIOUS
<1>3. ASSUME NEW x \in Row(t, k) PROVE \E i \in 1..k : f[i] = x
  <2>1. PICK i \in 0..(k - 1) : x = <<t, i>>
    BY DEF Row
  <2>2. i + 1 \in 1..k /\ f[i + 1] = <<t, i>>
    OBVIOUS
  <2>3. QED
    BY <2>1, <2>2
<1> HIDE DEF f
<1>4. ExistsBijection(1..k, Row(t, k))
  BY <1>1, <1>2, <1>3 DEF ExistsBijection, Bijection, Injection, Surjection, IsInjective
<1>5. QED
  BY <1>4, FS_CountingElements

LEMMA RowLast ==
  ASSUME NEW t, NEW k \in Nat, k > 0
  PROVE  Max({i[2] : i \in Row(t, k)}) = k - 1
<1>1. {i[2] : i \in Row(t, k)} = 0..(k - 1)
  <2>1. \A i \in 0..(k - 1) : <<t, i>> \in Row(t, k) /\ <<t, i>>[2] = i
    BY DEF Row
  <2>2. \A x \in Row(t, k) : x[2] \in 0..(k - 1)
    BY DEF Row
  <2>3. QED
    BY <2>1, <2>2
<1>2. k - 1 \in 0..(k - 1) /\ \A y \in 0..(k - 1) : k - 1 >= y
  OBVIOUS
<1>3. \A x \in 0..(k - 1) : (\A y \in 0..(k - 1) : x >= y) => x = k - 1
  BY <1>2
<1>4. QED
  BY <1>1, <1>2, <1>3 DEF Max

-----------------------------------------------------------------------------
(* What the steps make of the group. *)

LEMMA InTasks ==
  ASSUME TaskInv, NEW i \in DOMAIN group
  PROVE  /\ i[1] \in Task /\ i = <<i[1], i[2]>> /\ group[i] \in States
BY DEF TaskInv, TypeOK, Tasks

\* A step that changes states of tasks only.
LEMMA SameTasks ==
  ASSUME TaskInv, DOMAIN group' = DOMAIN group
  PROVE  \A t \in Task : CopiesNumbered(t)'
BY DEF TaskInv, CopiesNumbered, Named, Row, Bounded

\* New tasks, at the end of each row.
LEMMA NewTasks ==
  ASSUME TaskInv, NEW new, NEW more \in [Task -> Nat], group' = New(new),
         \A i \in new : i[1] \in Task,
         \A t \in Task, k \in Nat :
           Named(t) = Row(t, k) /\ Bounded(t, k) =>
             /\ {i \in new : i[1] = t} = {<<t, k + j>> : j \in 0..(more[t] - 1)}
             /\ Bounded(t, k + more[t])
  PROVE  /\ DOMAIN group' \subseteq Tasks /\ \A i \in DOMAIN group' : group'[i] \in States
         /\ \A t \in Task : CopiesNumbered(t)'
<1>1. DOMAIN group' = new \cup DOMAIN group
  BY DEF New
<1>2. ASSUME NEW t \in Task
      PROVE  \E k \in Nat : {i \in DOMAIN group' : i[1] = t} = Row(t, k) /\ Bounded(t, k)
  <2>1. PICK k \in Nat : Named(t) = Row(t, k) /\ Bounded(t, k)
    BY DEF TaskInv, CopiesNumbered
  <2>2. PICK m \in Nat : m = more[t]
    OBVIOUS
  <2>3. {i \in new : i[1] = t} = {<<t, k + j>> : j \in 0..(m - 1)} /\ Bounded(t, k + m)
    BY <2>1, <2>2
  <2>4. {i \in DOMAIN group' : i[1] = t} = Row(t, k) \cup {<<t, k + j>> : j \in 0..(m - 1)}
    BY <1>1, <2>1, <2>3 DEF Named
  <2>5. Row(t, k) \cup {<<t, k + j>> : j \in 0..(m - 1)} = Row(t, k + m)
    <3>1. ASSUME NEW i \in 0..(k + m - 1)
          PROVE  i \in 0..(k - 1) \/ \E j \in 0..(m - 1) : i = k + j
      <4>1. i >= k => i - k \in 0..(m - 1) /\ i = k + (i - k)
        OBVIOUS
      <4>2. QED
        BY <4>1
    <3>2. \A j \in 0..(m - 1) : k + j \in 0..(k + m - 1)
      OBVIOUS
    <3>3. 0..(k - 1) \subseteq 0..(k + m - 1)
      OBVIOUS
    <3>4. Row(t, k + m) = {<<t, i>> : i \in 0..(k + m - 1)} /\ Row(t, k) = {<<t, i>> : i \in 0..(k - 1)}
      BY DEF Row
    <3>5. \A x \in Row(t, k + m) : x \in Row(t, k) \/ \E j \in 0..(m - 1) : x = <<t, k + j>>
      BY <3>1, <3>4
    <3>6. \A x \in Row(t, k) : x \in Row(t, k + m)
      BY <3>3, <3>4
    <3>7. \A j \in 0..(m - 1) : <<t, k + j>> \in Row(t, k + m)
      BY <3>2, <3>4
    <3>8. QED
      BY <3>5, <3>6, <3>7
  <2>6. k + m \in Nat
    OBVIOUS
  <2>7. QED
    BY <2>3, <2>4, <2>5, <2>6
<1>3. \A t \in Task : CopiesNumbered(t)'
  BY <1>2 DEF CopiesNumbered, Named, Row, Bounded
<1>4. ASSUME NEW i \in DOMAIN group' PROVE i \in Tasks /\ group'[i] \in States
  <2>1. i[1] \in Task
    BY <1>1, InTasks
  <2>2. PICK k \in Nat : {j \in DOMAIN group' : j[1] = i[1]} = Row(i[1], k) /\ Bounded(i[1], k)
    BY <1>2, <2>1
  <2>3. PICK n \in 0..(k - 1) : i = <<i[1], n>>
    BY <2>2 DEF Row
  <2>4. n \in 0 .. 2 * RetriggerCount
    <3>1. PICK max \in Nat : max = Max({2, RetriggerCount}) /\ max \in {2, RetriggerCount}
      BY LimitIs
    <3>2. 2 * k <= max + 2 * RetriggerCount /\ RetriggerCount \in Nat \ {0}
      BY <2>2, <3>1, TaskAssumption DEF Bounded
    <3>3. QED
      BY <2>3, <3>1, <3>2
  <2>5. group'[i] \in States
    BY <1>1, InTasks DEF New, States
  <2>6. QED
    BY <2>1, <2>3, <2>4, <2>5 DEF Tasks
<1>5. QED
  BY <1>3, <1>4

\* A task of each of the names ts.
LEMMA CreateKeeps ==
  ASSUME TaskInv, NEW t \in Task, CreateTask(t)
  PROVE  /\ DOMAIN group' \subseteq Tasks /\ \A i \in DOMAIN group' : group'[i] \in States
         /\ \A u \in Task : CopiesNumbered(u)'
<1> DEFINE more == [u \in Task |-> IF u = t THEN 1 ELSE 0]
           new == {<<t, 0>>}
<1>1. group' = New(new) /\ <<t, 0>> \notin DOMAIN group /\ \A i \in new : i[1] \in Task
  BY DEF CreateTask
<1>2. ASSUME NEW u \in Task, NEW k \in Nat, Named(u) = Row(u, k), Bounded(u, k)
      PROVE  /\ {i \in new : i[1] = u} = {<<u, k + j>> : j \in 0..(more[u] - 1)}
             /\ Bounded(u, k + more[u])
  <2>1. CASE u = t
    <3>1. k = 0
      <4>1. k > 0 => <<t, 0>> \in Row(t, k)
        BY DEF Row
      <4>2. QED
        BY <1>1, <1>2, <2>1, <4>1 DEF Named
    <3>2. Bounded(t, 1)
      <4>1. PICK max \in Nat : max = Max({2, RetriggerCount}) /\ max >= 2
        BY LimitIs
      <4>2. QED
        BY <4>1, TaskAssumption DEF Bounded
    <3>3. {i \in new : i[1] = t} = {<<t, 0>>} /\ {<<t, 0 + j>> : j \in 0..(1 - 1)} = {<<t, 0>>}
      OBVIOUS
    <3>4. QED
      BY <2>1, <3>1, <3>2, <3>3
  <2>2. CASE u # t
    <3>1. {i \in new : i[1] = u} = {} /\ more[u] = 0
      BY <2>2
    <3>2. {<<u, k + j>> : j \in 0..(0 - 1)} = {} /\ k + 0 = k
      OBVIOUS
    <3>3. QED
      BY <1>2, <3>1, <3>2
  <2>3. QED
    BY <2>1, <2>2
<1>3. more \in [Task -> Nat]
  OBVIOUS
<1> HIDE DEF more, new
<1>4. QED
  BY <1>1, <1>2, <1>3, NewTasks

LEMMA CopiesKeep ==
  ASSUME TaskInv, Retriggered = {}, NEW new \in Copies, group' = New(new)
  PROVE  /\ DOMAIN group' \subseteq Tasks /\ \A i \in DOMAIN group' : group'[i] \in States
         /\ \A t \in Task : CopiesNumbered(t)'
<1> DEFINE Add(t, n) == {<<t, Max({i[2] : i \in Named(t)}) + k>> : k \in 1..n}
<1>1. PICK n \in [Failures -> 0..RetriggerCount] : new = UNION {Add(t, n[t]) : t \in Failures}
  BY DEF Copies
<1>2. Failures \subseteq Task /\ Failures \subseteq Wpt /\ RetriggerCount \in Nat
  BY TaskAssumption DEF Failures
<1> DEFINE more == [t \in Task |-> IF t \in Failures THEN n[t] ELSE 0]
<1>3. more \in [Task -> Nat]
  BY <1>2
<1>4. ASSUME NEW t, NEW k, NEW i \in Add(t, k) PROVE i[1] = t
  <2>1. PICK m : i = <<t, m>>
    OBVIOUS
  <2>2. QED
    BY <2>1
<1>5. \A i : i \in new <=> \E t \in Failures : i \in Add(t, n[t])
  BY <1>1
<1> HIDE DEF Add
<1>6. \A i \in new : i[1] \in Task
  BY <1>4, <1>5, <1>2
<1>7. ASSUME NEW t \in Task, NEW k \in Nat, Named(t) = Row(t, k), Bounded(t, k)
      PROVE  /\ {i \in new : i[1] = t} = {<<t, k + j>> : j \in 0..(more[t] - 1)}
             /\ Bounded(t, k + more[t])
  <2>1. CASE t \in Failures
    <3>1. Named(t) # {}
      BY <2>1 DEF Failures, InState
    <3>2. k > 0
      BY <1>7, <3>1 DEF Row
    <3>3. Max({i[2] : i \in Named(t)}) = k - 1
      BY <1>7, <3>2, RowLast
    <3>4. PICK m \in 0..RetriggerCount : m = n[t] /\ m = more[t]
      BY <2>1
    <3>5. {i \in new : i[1] = t} = Add(t, m)
      BY <1>4, <1>5, <2>1, <3>4
    <3>6. Add(t, m) = {<<t, k + j>> : j \in 0..(m - 1)}
      <4>1. \A j \in 1..m : j - 1 \in 0..(m - 1) /\ (k - 1) + j = k + (j - 1)
        OBVIOUS
      <4>2. \A j \in 0..(m - 1) : j + 1 \in 1..m /\ k + j = (k - 1) + (j + 1)
        OBVIOUS
      <4>3. Add(t, m) = {<<t, (k - 1) + j>> : j \in 1..m}
        BY <3>3 DEF Add
      <4>4. QED
        BY <4>1, <4>2, <4>3
    <3>7. Bounded(t, k + m)
      <4>1. PICK max \in Nat : max = Max({2, RetriggerCount})
        BY LimitIs
      <4>2. t \in Wpt /\ ~(2 * k > max)
        <5>1. Cardinality(Named(t)) = k
          BY <1>7, RowSize
        <5>2. QED
          BY <1>2, <2>1, <4>1, <5>1 DEF Retriggered
      <4>3. 2 * (k + m) <= max + 2 * RetriggerCount
        BY <1>2, <4>2
      <4>4. QED
        BY <4>1, <4>2, <4>3 DEF Bounded
    <3>8. QED
      BY <3>4, <3>5, <3>6, <3>7
  <2>2. CASE t \notin Failures
    <3>1. {i \in new : i[1] = t} = {}
      BY <1>4, <1>5, <2>2
    <3>2. more[t] = 0 /\ {<<t, k + j>> : j \in 0..(0 - 1)} = {} /\ k + 0 = k
      BY <2>2
    <3>3. QED
      BY <1>7, <3>1, <3>2
  <2>3. QED
    BY <2>1, <2>2
<1> HIDE DEF more
<1>8. QED
  BY <1>3, <1>6, <1>7, NewTasks

-----------------------------------------------------------------------------
(* The steps. *)

Grown ==   \* the part of TaskInv' that is about the group
  /\ DOMAIN group' \subseteq Tasks /\ \A i \in DOMAIN group' : group'[i] \in States
  /\ \A t \in Task : CopiesNumbered(t)'

PushSet == [kind : Kinds, status : {"open", "complete"}, verdict : Verdicts,
            accept : BOOLEAN, infra : BOOLEAN, raised : BOOLEAN]

LEMMA Parts ==
  ASSUME Grown, decision' \in {"running", "completed"}, known' \in BOOLEAN, woken' \in BOOLEAN,
         early' \in BOOLEAN, push' \in PushSet
  PROVE  TaskInv'
BY DEF Grown, TaskInv, TypeOK, PushSet

LEMMA Rest ==
  ASSUME TaskInv
  PROVE  /\ decision \in {"running", "completed"} /\ known \in BOOLEAN /\ woken \in BOOLEAN
         /\ early \in BOOLEAN /\ push \in PushSet
BY DEF TaskInv, TypeOK, PushSet

LEMMA GroupStays ==
  ASSUME TaskInv, DOMAIN group' = DOMAIN group, \A i \in DOMAIN group : group'[i] \in States
  PROVE  Grown
BY SameTasks DEF Grown, TaskInv, TypeOK

\* What a verdict makes of a try push.
LEMMA VerdictFits ==
  ASSUME NEW p \in PushSet, NEW v \in Verdicts, NEW infra \in BOOLEAN, NEW raised \in BOOLEAN
  PROVE  /\ Completed(p, v) \in PushSet /\ Raised(p, v) \in PushSet
         /\ [Completed(p, v) EXCEPT !.infra = infra, !.raised = raised] \in PushSet
BY DEF PushSet, Completed, Raised

LEMMA JudgeKeeps ==
  ASSUME TaskInv, NEW p \in PushSet, Judge(p)
  PROVE  Grown /\ push' \in PushSet /\ early' \in BOOLEAN
<1>1. early' \in BOOLEAN
  BY Rest DEF Judge
<1>2. CASE UNCHANGED group /\ push' = p
  BY <1>1, <1>2, GroupStays, InTasks
<1>3. CASE DownstreamJudges(p)
  <2>1. DownstreamResult \in Verdicts
    BY DEF DownstreamResult, Verdicts
  <2>2. PICK v \in Verdicts : v = DownstreamResult
    BY <2>1
  <2>3. PICK infra \in BOOLEAN, raised \in BOOLEAN :
          push' = [Completed(p, v) EXCEPT !.infra = infra, !.raised = raised]
    <3>1. (v \in {"invalid", "builds"}) \in BOOLEAN /\ (v = "builds") \in BOOLEAN
      OBVIOUS
    <3>2. push' = [Completed(p, v) EXCEPT !.infra = v \in {"invalid", "builds"},
                                          !.raised = v = "builds"]
      BY <1>3, <2>2 DEF DownstreamJudges
    <3>3. QED
      BY <3>1, <3>2
  <2>4. push' \in PushSet
    BY <2>3, VerdictFits
  <2>5. Grown
    BY <1>3, GroupStays, InTasks DEF DownstreamJudges
  <2>6. QED
    BY <1>1, <2>4, <2>5
<1>4. CASE LandingJudges(p)
  <2>1. TryResult(p.accept) \in Verdicts
    BY DEF TryResult, Verdicts
  <2>2. PICK v \in Verdicts : v = TryResult(p.accept)
    BY <2>1
  <2>3. Completed(p, v) \in PushSet /\ Raised(p, v) \in PushSet
    BY VerdictFits
  <2>4. \/ push' \in {Completed(p, v), Raised(p, v)} /\ UNCHANGED group
        \/ /\ Retriggered = {} /\ push' \in {Completed(p, v), p}
           /\ \E new \in Copies : group' = New(new)
    BY <1>4, <2>2 DEF LandingJudges
  <2>5. CASE UNCHANGED group
    BY <1>1, <2>3, <2>4, <2>5, GroupStays, InTasks
  <2>6. CASE /\ Retriggered = {} /\ push' \in {Completed(p, v), p}
             /\ \E new \in Copies : group' = New(new)
    BY <1>1, <2>3, <2>6, CopiesKeep DEF Grown
  <2>7. QED
    BY <2>4, <2>5, <2>6
<1>5. QED
  BY <1>2, <1>3, <1>4 DEF Judge

LEMMA TaskInvStarts == Init => TaskInv
<1> SUFFICES ASSUME Init PROVE TaskInv
  OBVIOUS
<1>1. DOMAIN group = {} /\ known \in BOOLEAN /\ woken \in BOOLEAN /\ early \in BOOLEAN
      /\ decision \in {"running", "completed"}
  BY DEF Init
<1>2. push \in PushSet
  BY DEF Init, PushSet, Verdicts
<1>3. TypeOK
  BY <1>1, <1>2 DEF TypeOK, PushSet
<1>4. ASSUME NEW t \in Task PROVE CopiesNumbered(t)
  <2>1. Named(t) = {} /\ Row(t, 0) = {}
    BY <1>1 DEF Named, Row
  <2>2. Bounded(t, 0)
    <3>1. PICK max \in Nat : max = Max({2, RetriggerCount})
      BY LimitIs
    <3>2. QED
      BY <3>1, TaskAssumption DEF Bounded
  <2>3. QED
    BY <2>1, <2>2 DEF CopiesNumbered
<1>5. QED
  BY <1>3, <1>4 DEF TaskInv

LEMMA TaskInvKept ==
  ASSUME TaskInv, [Next]_vars
  PROVE  TaskInv'
<1>1. ASSUME NEW t \in Task, CreateTask(t) PROVE TaskInv'
  BY <1>1, CreateKeeps, Parts, Rest DEF CreateTask, Grown
<1>2. CASE DecisionCompletes \/ DecisionTaskHandler \/ UNCHANGED vars
  <2>1. Grown
    BY <1>2, GroupStays, InTasks DEF DecisionCompletes, DecisionTaskHandler, vars
  <2>2. QED
    BY <1>2, <2>1, Parts, Rest DEF DecisionCompletes, DecisionTaskHandler, vars
<1>3. ASSUME NEW i \in DOMAIN group, NEW s \in Ends, Resolve(i, s) PROVE TaskInv'
  <2>1. s \in States
    BY TaskAssumption DEF States
  <2>2. Grown
    BY <1>3, <2>1, GroupStays, InTasks DEF Resolve
  <2>3. QED
    BY <1>3, <2>2, Parts, Rest DEF Resolve
<1>4. ASSUME NEW i \in DOMAIN group, Schedule(i) PROVE TaskInv'
  <2>1. Grown
    BY <1>4, GroupStays, InTasks DEF Schedule, States
  <2>2. QED
    BY <1>4, <2>1, Parts, Rest DEF Schedule
<1>5. CASE Expire
  <2>1. Grown
    BY <1>5, GroupStays, InTasks DEF Expire, States
  <2>2. QED
    BY <1>5, <2>1, Parts, Rest DEF Expire
<1>6. CASE TryTaskHandler
  <2>1. CASE UNCHANGED <<group, push, early>>
    <3>1. Grown
      BY <2>1, GroupStays, InTasks
    <3>2. QED
      BY <1>6, <2>1, <3>1, Parts, Rest DEF TryTaskHandler
  <2>2. CASE Judge(push)
    <3>1. Grown /\ push' \in PushSet /\ early' \in BOOLEAN
      BY <2>2, JudgeKeeps, Rest
    <3>2. QED
      BY <1>6, <3>1, Parts, Rest DEF TryTaskHandler
  <2>3. QED
    BY <1>6, <2>1, <2>2 DEF TryTaskHandler
<1>7. CASE AcceptFailures
  <2>1. [push EXCEPT !.accept = TRUE] \in PushSet
    BY Rest DEF PushSet
  <2>2. Grown /\ push' \in PushSet /\ early' \in BOOLEAN
    BY <1>7, <2>1, JudgeKeeps DEF AcceptFailures
  <2>3. QED
    BY <1>7, <2>2, Parts, Rest DEF AcceptFailures
<1>8. QED
  BY <1>1, <1>2, <1>3, <1>4, <1>5, <1>6, <1>7 DEF Next

\* The invariant holds of every state of the specification.
THEOREM TaskInvHolds == Spec => []TaskInv
BY TaskInvStarts, TaskInvKept, PTL DEF Spec

\* The task group has the tasks that the decision task and retrigger_failures create, in the
\* states of Taskcluster, and the try push a verdict of try_result, however tasks end.
THEOREM TypeCorrect == Spec => []TypeOK
<1>1. TaskInv => TypeOK
  BY DEF TaskInv
<1>2. QED
  BY <1>1, TaskInvHolds, PTL

\* retrigger_failures is called for every event of a stability try push that has failures, but
\* adds copies for one round only (retriggered_wpt_states).
THEOREM RetriggersOnce == Spec => []RetriggersBounded
<1>1. TaskInv => RetriggersBounded
  <2> SUFFICES ASSUME TaskInv, NEW t \in Wpt
               PROVE  2 * Cardinality(Named(t)) <= Max({2, RetriggerCount}) + 2 * RetriggerCount
    BY DEF RetriggersBounded
  <2>1. t \in Task
    BY TaskAssumption
  <2>2. PICK k \in Nat : Named(t) = Row(t, k) /\ Bounded(t, k)
    BY <2>1 DEF TaskInv, CopiesNumbered
  <2>3. QED
    BY <2>2, RowSize DEF Bounded
<1>2. QED
  BY <1>1, TaskInvHolds, PTL

-----------------------------------------------------------------------------
(***************************************************************************)
(* task_is_incomplete recurses into dependencies.  Its recursion has a     *)
(* solution in any group (the least one, even of tasks that wait for each  *)
(* other), so that what it says of a task follows from what it says of     *)
(* those the task depends on: the lemma IncompleteOf.                      *)
(***************************************************************************)
OthersOf(i) == Deps[i[1]] \ Image[i[1]]

Solves(w) ==
  w = [j \in DOMAIN group |->
        \/ group[j] = "running"
        \/ /\ group[j] = "unscheduled"
           /\ OthersOf(j) = {} \/ \E d \in Originals(OthersOf(j)) : w[d]]

\* j waits if the tasks of X do.
WaitsOn(j, X) ==
  \/ group[j] = "running"
  \/ /\ group[j] = "unscheduled"
     /\ OthersOf(j) = {} \/ Originals(OthersOf(j)) \cap X # {}
ClosedBy(X) == \A j \in DOMAIN group : WaitsOn(j, X) => j \in X
Least == {j \in DOMAIN group : \A X \in SUBSET DOMAIN group : ClosedBy(X) => j \in X}

LEMMA LeastSolves == \A j \in DOMAIN group : j \in Least <=> WaitsOn(j, Least)
<1>1. ASSUME NEW X, NEW Y, X \subseteq Y, NEW j, WaitsOn(j, X)
      PROVE  WaitsOn(j, Y)
  BY <1>1 DEF WaitsOn
<1>2. ASSUME NEW j \in DOMAIN group, WaitsOn(j, Least)
      PROVE  j \in Least
  <2>1. ASSUME NEW X \in SUBSET DOMAIN group, ClosedBy(X) PROVE j \in X
    <3>1. Least \subseteq X
      BY <2>1 DEF Least
    <3>2. WaitsOn(j, X)
      BY <1>1, <1>2, <3>1
    <3>3. QED
      BY <2>1, <3>2 DEF ClosedBy
  <2>2. QED
    BY <2>1 DEF Least
<1>3. ASSUME NEW j \in Least, ~WaitsOn(j, Least)
      PROVE  FALSE
  <2> DEFINE X == Least \ {j}
  <2>1. X \in SUBSET DOMAIN group
    BY DEF Least
  <2>2. ASSUME NEW k \in DOMAIN group, WaitsOn(k, X) PROVE k \in X
    <3>1. WaitsOn(k, Least)
      <4>1. X \subseteq Least
        OBVIOUS
      <4>2. QED
        BY <1>1, <2>2, <4>1
    <3>2. k \in Least /\ k # j
      BY <1>2, <1>3, <3>1
    <3>3. QED
      BY <3>2
  <2>3. ClosedBy(X)
    BY <2>2 DEF ClosedBy
  <2>4. j \in X
    BY <2>1, <2>3 DEF Least
  <2>5. QED
    BY <2>4
<1>4. QED
  BY <1>2, <1>3

LEMMA SolutionExists == \E w : Solves(w)
<1> DEFINE w == [j \in DOMAIN group |-> j \in Least]
           v == [j \in DOMAIN group |->
                  \/ group[j] = "running"
                  \/ /\ group[j] = "unscheduled"
                     /\ OthersOf(j) = {} \/ \E d \in Originals(OthersOf(j)) : w[d]]
<1>1. ASSUME NEW j \in DOMAIN group PROVE w[j] = v[j]
  <2>1. Originals(OthersOf(j)) \subseteq DOMAIN group
    BY DEF Originals
  <2>2. (\E d \in Originals(OthersOf(j)) : w[d]) <=> Originals(OthersOf(j)) \cap Least # {}
    BY <2>1
  <2>3. v[j] <=> WaitsOn(j, Least)
    BY <2>2 DEF WaitsOn
  <2>4. w[j] <=> WaitsOn(j, Least)
    BY LeastSolves
  <2>5. w[j] \in BOOLEAN /\ v[j] \in BOOLEAN
    OBVIOUS
  <2>6. QED
    BY <2>3, <2>4, <2>5
<1>2. w = v
  <2>1. DOMAIN w = DOMAIN group /\ DOMAIN v = DOMAIN group
    OBVIOUS
  <2> HIDE DEF w, v
  <2>2. w = [j \in DOMAIN w |-> w[j]] /\ v = [j \in DOMAIN v |-> v[j]]
    BY DEF w, v
  <2>3. QED
    BY <1>1, <2>1, <2>2
<1>3. Solves(w)
  BY <1>2 DEF Solves
<1>4. QED
  BY <1>3

LEMMA IncompleteOf ==
  \A i \in DOMAIN group :
    Incomplete(i) <=> \/ group[i] = "running"
                      \/ /\ group[i] = "unscheduled"
                         /\ \/ OthersOf(i) = {}
                            \/ \E d \in Originals(OthersOf(i)) : Incomplete(d)
<1> DEFINE w == CHOOSE v : Solves(v)
<1>1. \A i : Incomplete(i) = w[i]
  BY DEF Incomplete, Solves, OthersOf
<1>2. Solves(w)
  BY SolutionExists
<1> HIDE DEF w
<1>3. ASSUME NEW i \in DOMAIN group
      PROVE  w[i] = (\/ group[i] = "running"
                     \/ /\ group[i] = "unscheduled"
                        /\ OthersOf(i) = {} \/ \E d \in Originals(OthersOf(i)) : w[d])
  BY <1>2 DEF Solves
<1>4. QED
  BY <1>1, <1>3

-----------------------------------------------------------------------------
(***************************************************************************)
(* What the decision task and Taskcluster do for the worker: a task is     *)
(* created after those it depends on, so no tasks wait for each other in a *)
(* circle, and runs when they have completed; and the worker looks at the  *)
(* tasks only when it knows that all of them are there.                    *)
(***************************************************************************)
Created == {t \in Task : <<t, 0>> \in DOMAIN group}
Started(t) == group[<<t, 0>>] \in {"running", "completed"}

Ordered ==
  /\ \A t \in Created : Deps[t] \subseteq Created
  /\ \A S \in SUBSET Created : S # {} => \E t \in S : Deps[t] \cap S = {}
Listed  == decision = "completed" => Created = Task
Looked  == known \/ push.verdict # "none" => decision = "completed"
Over    == push.status = "complete" => push.verdict # "none"
Unheard == ~known /\ ~woken => \A i \in DOMAIN group : group[i] \in {"unscheduled", "running"}
InOrder == \A t \in Created : Started(t) => \A u \in Deps[t] : group[<<u, 0>>] = "completed"

GroupInv == TaskInv /\ Ordered /\ Listed /\ Looked /\ Over /\ Unheard /\ InOrder

LEMMA FirstCreated ==
  ASSUME TaskInv, NEW i \in DOMAIN group
  PROVE  i[1] \in Created
<1>1. i[1] \in Task
  BY InTasks
<1>2. PICK k \in Nat : Named(i[1]) = Row(i[1], k)
  BY <1>1 DEF TaskInv, CopiesNumbered
<1>3. k > 0
  BY <1>2 DEF Named, Row
<1>4. <<i[1], 0>> \in Row(i[1], k)
  BY <1>3 DEF Row
<1>5. QED
  BY <1>1, <1>2, <1>4 DEF Named, Created

\* Copies are numbered from 1.
LEMMA CopiesFollow ==
  ASSUME TaskInv, NEW new \in Copies, NEW i \in new
  PROVE  /\ i[1] \in Task /\ i[2] > 0 /\ i = <<i[1], i[2]>> /\ i[1] \in Created
         /\ i \notin DOMAIN group
<1> DEFINE Add(t, n) == {<<t, Max({j[2] : j \in Named(t)}) + k>> : k \in 1..n}
<1>1. PICK n \in [Failures -> 0..RetriggerCount] : new = UNION {Add(t, n[t]) : t \in Failures}
  BY DEF Copies
<1>2. PICK t \in Failures : i \in Add(t, n[t])
  BY <1>1
<1>3. PICK m \in 1..n[t] : i = <<t, Max({j[2] : j \in Named(t)}) + m>>
  BY <1>2
<1>4. t \in Task /\ Named(t) # {}
  BY TaskAssumption DEF Failures, InState
<1>5. PICK k \in Nat : Named(t) = Row(t, k)
  BY <1>4 DEF TaskInv, CopiesNumbered
<1>6. k > 0
  BY <1>4, <1>5 DEF Row
<1>7. Max({j[2] : j \in Named(t)}) = k - 1
  BY <1>5, <1>6, RowLast
<1>8. n[t] \in Nat
  BY TaskAssumption
<1>9. m \in Nat /\ m >= 1
  BY <1>8
<1>10. i = <<t, (k - 1) + m>> /\ (k - 1) + m >= k
  BY <1>3, <1>7, <1>9
<1>11. t \in Created
  BY <1>4, FirstCreated DEF Named
<1>12. i \notin Row(t, k)
  BY <1>10 DEF Row
<1>13. QED
  BY <1>4, <1>5, <1>6, <1>10, <1>11, <1>12 DEF Named

\* At rest nothing runs or can run, so a task that is incomplete waits for an image or is a copy.
LEMMA RestIsComplete ==
  ASSUME GroupInv, AtRest, ~WaitsForImage, ~DoomedCopies
  PROVE  Complete
<1> DEFINE S == {t \in Created : Incomplete(<<t, 0>>)}
<1>1. ASSUME NEW i \in DOMAIN group, Incomplete(i)
      PROVE  /\ group[i] = "unscheduled" /\ i[1] \in S
             /\ \E d \in Originals(OthersOf(i)) : Incomplete(d)
  <2>1. group[i] = "unscheduled"
    BY <1>1, IncompleteOf DEF AtRest
  <2>2. i = <<i[1], i[2]>> /\ i[1] \in Task
    BY InTasks DEF GroupInv
  <2>3. i[2] = 0
    <3>1. i \in Tasks
      BY DEF GroupInv, TaskInv, TypeOK
    <3>2. i[2] \in 0 .. 2 * RetriggerCount
      BY <3>1 DEF Tasks
    <3>3. ~(i[2] > 0)
      BY <2>1 DEF DoomedCopies
    <3>4. QED
      BY <3>2, <3>3, TaskAssumption
  <2>4. i[1] \in S
    BY <1>1, <2>2, <2>3 DEF Created
  <2>5. OthersOf(i) # {}
    BY <2>1, <2>2, TaskAssumption DEF OthersOf, WaitsForImage
  <2>6. QED
    BY <1>1, <2>1, <2>4, <2>5, IncompleteOf
<1>2. ASSUME S # {} PROVE FALSE
  <2>1. PICK t \in S : Deps[t] \cap S = {}
    BY <1>2 DEF GroupInv, Ordered
  <2>2. <<t, 0>> \in DOMAIN group /\ Incomplete(<<t, 0>>)
    BY DEF Created
  <2>3. PICK d \in Originals(OthersOf(<<t, 0>>)) : Incomplete(d)
    BY <1>1, <2>2
  <2>4. d \in DOMAIN group /\ d[1] \in Deps[t]
    BY DEF Originals, OthersOf
  <2>5. d[1] \in S
    BY <1>1, <2>3, <2>4
  <2>6. QED
    BY <2>1, <2>4, <2>5
<1>3. QED
  BY <1>1, <1>2 DEF Complete, WptTasks, InGroup

-----------------------------------------------------------------------------
(* What a step makes of the group, as far as GroupInv reads it. *)

OrderInv == Ordered /\ InOrder

\* Every task that was there keeps its state.
Undisturbed ==
  /\ DOMAIN group \subseteq DOMAIN group' /\ \A i \in DOMAIN group : group'[i] = group[i]
  /\ \A i \in DOMAIN group' \ DOMAIN group : group'[i] = "unscheduled" /\ i[2] > 0

LEMMA SameCreated ==
  ASSUME Ordered, Created' = Created
  PROVE  Ordered'
BY DEF Ordered

LEMMA UndisturbedOrder ==
  ASSUME OrderInv, Undisturbed
  PROVE  OrderInv' /\ Created' = Created
<1>1. Created' = Created
  <2>1. \A t \in Task : ~(<<t, 0>>[2] > 0)
    OBVIOUS
  <2>2. \A t \in Task : <<t, 0>> \in DOMAIN group' <=> <<t, 0>> \in DOMAIN group
    BY <2>1 DEF Undisturbed
  <2>3. QED
    BY <2>2 DEF Created
<1>2. Ordered'
  BY <1>1, SameCreated DEF OrderInv
<1>3. \A t \in Created : group'[<<t, 0>>] = group[<<t, 0>>]
  BY DEF Created, Undisturbed
<1>4. \A t \in Created : Deps[t] \subseteq Created
  BY DEF OrderInv, Ordered
<1>5. ASSUME NEW t \in Created', Started(t)', NEW u \in Deps[t]
      PROVE  group'[<<u, 0>>] = "completed"
  <2>1. Started(t)
    BY <1>1, <1>3, <1>5 DEF Started
  <2>2. group[<<u, 0>>] = "completed" /\ u \in Created
    BY <1>1, <1>4, <1>5, <2>1 DEF OrderInv, InOrder
  <2>3. QED
    BY <1>3, <2>2
<1>6. InOrder'
  BY <1>5 DEF InOrder
<1>7. QED
  BY <1>1, <1>2, <1>6 DEF OrderInv

\* A step of Taskcluster: a task runs when it is ready, and what has completed stays completed.
LEMMA MovedOrder ==
  ASSUME OrderInv, DOMAIN group' = DOMAIN group,
         \A i \in DOMAIN group : group[i] = "completed" => group'[i] = "completed",
         \A i \in DOMAIN group :
           group'[i] \in {"running", "completed"} => Ready(i) \/ group[i] \in {"running", "completed"}
  PROVE  OrderInv' /\ Created' = Created
<1>1. Created' = Created
  BY DEF Created
<1>2. Ordered'
  BY <1>1, SameCreated DEF OrderInv
<1>3. \A t \in Created : Deps[t] \subseteq Created
  BY DEF OrderInv, Ordered
<1>4. ASSUME NEW t \in Created', Started(t)', NEW u \in Deps[t]
      PROVE  group'[<<u, 0>>] = "completed"
  <2>1. <<t, 0>> \in DOMAIN group /\ <<u, 0>> \in DOMAIN group /\ t \in Created
    BY <1>1, <1>3, <1>4 DEF Created
  <2>2. Ready(<<t, 0>>) \/ Started(t)
    BY <1>4, <2>1 DEF Started
  <2>3. group[<<u, 0>>] = "completed"
    <3>1. CASE Ready(<<t, 0>>)
      <4>1. <<t, 0>>[1] = t
        OBVIOUS
      <4>2. <<u, 0>> \in Originals(Deps[t])
        BY <1>4, <2>1 DEF Originals
      <4>3. QED
        BY <3>1, <4>1, <4>2 DEF Ready
    <3>2. CASE Started(t)
      BY <1>4, <2>1, <3>2 DEF OrderInv, InOrder
    <3>3. QED
      BY <2>2, <3>1, <3>2
  <2>4. QED
    BY <2>1, <2>3
<1>5. InOrder'
  BY <1>4 DEF InOrder
<1>6. QED
  BY <1>1, <1>2, <1>5 DEF OrderInv

LEMMA CreateOrder ==
  ASSUME OrderInv, NEW t \in Task, CreateTask(t)
  PROVE  OrderInv' /\ Created' = Created \cup {t}
<1>1. /\ DOMAIN group' = DOMAIN group \cup {<<t, 0>>} /\ <<t, 0>> \notin DOMAIN group
      /\ group'[<<t, 0>>] = "unscheduled" /\ \A i \in DOMAIN group : group'[i] = group[i]
  BY DEF CreateTask, New
<1>2. Created' = Created \cup {t} /\ t \notin Created
  BY <1>1 DEF Created
<1>3. Deps[t] \subseteq Created
  BY TaskAssumption DEF CreateTask, Created
<1>4. \A u \in Created : Deps[u] \subseteq Created
  BY DEF OrderInv, Ordered
<1>5. ASSUME NEW S \in SUBSET Created', S # {}
      PROVE  \E u \in S : Deps[u] \cap S = {}
  <2>1. CASE S = {t}
    BY <1>2, <1>3, <2>1
  <2>2. CASE S # {t}
    <3>1. S \ {t} \in SUBSET Created /\ S \ {t} # {}
      BY <1>2, <1>5, <2>2
    <3>2. PICK u \in S \ {t} : Deps[u] \cap (S \ {t}) = {}
      BY <3>1 DEF OrderInv, Ordered
    <3>3. t \notin Deps[u]
      BY <1>2, <1>4, <3>1, <3>2
    <3>4. QED
      BY <3>2, <3>3
  <2>3. QED
    BY <2>1, <2>2
<1>6. Ordered'
  BY <1>2, <1>3, <1>4, <1>5 DEF Ordered
<1>7. ASSUME NEW u \in Created', Started(u)', NEW d \in Deps[u]
      PROVE  group'[<<d, 0>>] = "completed"
  <2>1. u # t
    BY <1>1, <1>7 DEF Started
  <2>2. u \in Created /\ d \in Created
    BY <1>2, <1>4, <1>7, <2>1
  <2>3. <<u, 0>> \in DOMAIN group /\ <<d, 0>> \in DOMAIN group
    BY <2>2 DEF Created
  <2>4. Started(u)
    BY <1>1, <1>7, <2>3 DEF Started
  <2>5. QED
    BY <1>1, <1>7, <2>2, <2>3, <2>4 DEF OrderInv, InOrder
<1>8. InOrder'
  BY <1>7 DEF InOrder
<1>9. QED
  BY <1>2, <1>6, <1>8 DEF OrderInv

-----------------------------------------------------------------------------
(***************************************************************************)
(* What try_push_complete makes of a try push: nothing while a task is     *)
(* incomplete, a verdict, or copies of failed tests for which it waits.    *)
(***************************************************************************)
SameGroup == DOMAIN group' = DOMAIN group /\ \A i \in DOMAIN group : group'[i] = group[i]

Waits(p)    == ~Complete /\ push' = p /\ SameGroup
Decides(p)  ==
  /\ Complete /\ SameGroup
  /\ push'.verdict # "none" /\ push'.kind = p.kind
  /\ p.kind = "stability" /\ FailedBuilds = {} => push'.status = "complete"
RunsAgain(p) ==
  /\ Complete /\ p.kind = "stability" /\ push' = p
  /\ \E new \in Copies : new # {} /\ group' = New(new)

LEMMA JudgeDoes ==
  ASSUME NEW p \in PushSet, Judge(p)
  PROVE  Waits(p) \/ Decides(p) \/ RunsAgain(p)
<1>1. CASE ~Complete
  BY <1>1 DEF Judge, Waits, SameGroup
<1>2. CASE Complete /\ p.kind = "downstream"
  <2>1. DownstreamResult # "none"
    BY DEF DownstreamResult
  <2>2. PICK v : v = DownstreamResult
    OBVIOUS
  <2>3. push' = [Completed(p, v) EXCEPT !.infra = v \in {"invalid", "builds"}, !.raised = v = "builds"]
        /\ UNCHANGED group
    BY <1>2, <2>2 DEF Judge, DownstreamJudges
  <2>4. push'.verdict = v /\ push'.kind = p.kind
    BY <2>3 DEF Completed, PushSet
  <2>5. QED
    BY <1>2, <2>1, <2>2, <2>3, <2>4 DEF Decides, SameGroup
<1>3. CASE Complete /\ p.kind # "downstream"
  <2>1. PICK v : v = TryResult(p.accept)
    OBVIOUS
  <2>2. v # "none" /\ (v = "builds" => FailedBuilds # {})
    BY <2>1 DEF TryResult
  <2>3. \/ p.kind = "first" /\ push' = Raised(p, v) /\ UNCHANGED group
        \/ v = "builds" /\ push' = Raised(p, v) /\ UNCHANGED group
        \/ push' = Completed(p, v) /\ UNCHANGED group
        \/ p.kind = "stability" /\ \E new \in Copies : group' = New(new) /\ push' = IF new = {} THEN Completed(p, v) ELSE p
    BY <1>3, <2>1 DEF Judge, LandingJudges
  <2>4. /\ Raised(p, v).verdict = v /\ Raised(p, v).kind = p.kind
        /\ Completed(p, v).verdict = v /\ Completed(p, v).kind = p.kind /\ Completed(p, v).status = "complete"
    BY DEF Raised, Completed, PushSet
  <2>5. CASE push' = Raised(p, v) /\ UNCHANGED group /\ (p.kind = "first" \/ v = "builds")
    BY <1>3, <2>2, <2>4, <2>5 DEF Decides, SameGroup
  <2>6. CASE push' = Completed(p, v) /\ UNCHANGED group
    BY <1>3, <2>2, <2>4, <2>6 DEF Decides, SameGroup
  <2>7. ASSUME p.kind = "stability", NEW new \in Copies, group' = New(new),
               push' = IF new = {} THEN Completed(p, v) ELSE p
        PROVE  Decides(p) \/ RunsAgain(p)
    <3>1. CASE new = {}
      <4>1. SameGroup
        BY <2>7, <3>1 DEF New, SameGroup
      <4>2. QED
        BY <1>3, <2>2, <2>4, <2>7, <3>1, <4>1 DEF Decides
    <3>2. CASE new # {}
      BY <1>3, <2>7, <3>2 DEF RunsAgain
    <3>3. QED
      BY <3>1, <3>2
  <2>8. QED
    BY <2>3, <2>5, <2>6, <2>7
<1>4. QED
  BY <1>1, <1>2, <1>3

LEMMA CopiesUndisturbed ==
  ASSUME TaskInv, NEW new \in Copies, group' = New(new)
  PROVE  Undisturbed /\ \A i \in new : i \in DOMAIN group' /\ group'[i] = "unscheduled" /\ i[2] > 0
BY CopiesFollow DEF New, Undisturbed

LEMMA JudgeUndisturbed ==
  ASSUME TaskInv, NEW p, Waits(p) \/ Decides(p) \/ RunsAgain(p)
  PROVE  Undisturbed
<1>1. SameGroup => Undisturbed
  BY DEF SameGroup, Undisturbed
<1>2. QED
  BY <1>1, CopiesUndisturbed DEF Waits, Decides, RunsAgain

\* A step of the worker, for the try push or for the one with --accept-failures.
LEMMA WorkerSteps ==
  ASSUME GroupInv, TryTaskHandler \/ AcceptFailures
  PROVE  /\ decision = "completed" /\ UNCHANGED decision /\ known'
         /\ woken' => woken
         /\ \/ SameGroup /\ UNCHANGED <<push, early>> /\ push.status = "complete"
            \/ \E p \in PushSet :
                 /\ p.kind = push.kind /\ p.status = push.status /\ p.verdict = push.verdict
                 /\ push.status = "open"
                 /\ Waits(p) \/ Decides(p) \/ RunsAgain(p)
                 /\ early' = (early \/ (Complete /\ \E i \in DOMAIN group : Ready(i)))
                 /\ Complete \/ (woken /\ ~woken')
<1>1. push \in PushSet
  BY Rest DEF GroupInv
<1>2. CASE TryTaskHandler
  <2>1. CASE push.status = "complete"
    BY <1>2, <2>1 DEF TryTaskHandler, GroupInv, Looked, SameGroup
  <2>2. CASE push.status # "complete"
    <3>1. Judge(push) /\ push.status = "open"
      BY <1>1, <1>2, <2>2 DEF TryTaskHandler, PushSet
    <3>2. early' = (early \/ (Complete /\ \E i \in DOMAIN group : Ready(i)))
      BY <3>1 DEF Judge
    <3>3. Waits(push) \/ Decides(push) \/ RunsAgain(push)
      BY <1>1, <3>1, JudgeDoes
    <3>4. decision = "completed" /\ UNCHANGED decision /\ known' /\ woken /\ ~woken'
      BY <1>2 DEF TryTaskHandler, GroupInv, Looked
    <3>5. QED
      BY <1>1, <3>1, <3>2, <3>3, <3>4
  <2>3. QED
    BY <2>1, <2>2
<1>3. CASE AcceptFailures
  <2> DEFINE p == [push EXCEPT !.accept = TRUE]
  <2>1. p \in PushSet /\ p.kind = push.kind /\ p.status = push.status /\ p.verdict = push.verdict
    BY <1>1 DEF PushSet
  <2>2. Judge(p) /\ push.status = "open" /\ Complete
    BY <1>3 DEF AcceptFailures
  <2>3. early' = (early \/ (Complete /\ \E i \in DOMAIN group : Ready(i)))
    BY <2>2 DEF Judge
  <2> HIDE DEF p
  <2>4. Waits(p) \/ Decides(p) \/ RunsAgain(p)
    BY <2>1, <2>2, JudgeDoes
  <2>5. decision = "completed" /\ UNCHANGED decision /\ known' /\ UNCHANGED woken
    BY <1>3 DEF AcceptFailures, GroupInv, Looked
  <2>6. QED
    BY <2>1, <2>2, <2>3, <2>4, <2>5
<1>4. QED
  BY <1>2, <1>3

LEMMA GroupInvStarts == Init => GroupInv
<1> SUFFICES ASSUME Init PROVE GroupInv
  OBVIOUS
<1>1. DOMAIN group = {} /\ decision = "running" /\ ~known
  BY DEF Init
<1>2. Created = {}
  BY <1>1 DEF Created
<1>3. push.status = "open" /\ push.verdict = "none"
  BY DEF Init
<1>4. Ordered /\ InOrder
  BY <1>2 DEF Ordered, InOrder
<1>5. Listed /\ Looked /\ Over /\ Unheard
  BY <1>1, <1>3 DEF Listed, Looked, Over, Unheard
<1>6. QED
  BY <1>4, <1>5, TaskInvStarts DEF GroupInv

LEMMA GroupInvKept ==
  ASSUME GroupInv, [Next]_vars
  PROVE  GroupInv'
<1>1. TaskInv' /\ OrderInv
  BY TaskInvKept DEF GroupInv, OrderInv
<1>2. ASSUME NEW t \in Task, CreateTask(t) PROVE GroupInv'
  <2>1. OrderInv'
    BY <1>1, <1>2, CreateOrder
  <2>2. decision' = "running" /\ UNCHANGED <<decision, known, push, woken>>
    BY <1>2 DEF CreateTask
  <2>3. \A i \in DOMAIN group' : group'[i] = "unscheduled" \/ (i \in DOMAIN group /\ group'[i] = group[i])
    BY <1>2 DEF CreateTask, New
  <2>4. QED
    BY <1>1, <2>1, <2>2, <2>3 DEF GroupInv, OrderInv, Listed, Looked, Over, Unheard
<1>3. CASE DecisionCompletes
  <2>1. Created = Task
    <3>1. \A t \in Task : <<t, 0>> \in Originals(Task)
      BY <1>3 DEF DecisionCompletes
    <3>2. QED
      BY <3>1 DEF Originals, Created
  <2>2. UNCHANGED <<group, known, push, woken>> /\ decision' = "completed"
    BY <1>3 DEF DecisionCompletes
  <2>3. Created' = Created /\ OrderInv'
    BY <1>1, <2>2 DEF Created, OrderInv, Ordered, InOrder, Started
  <2>4. QED
    BY <1>1, <2>1, <2>2, <2>3 DEF GroupInv, OrderInv, Listed, Looked, Over, Unheard
<1>4. ASSUME NEW i \in DOMAIN group, Schedule(i) PROVE GroupInv'
  <2>1. /\ DOMAIN group' = DOMAIN group /\ Ready(i) /\ group[i] = "unscheduled"
        /\ group'[i] = "running" /\ \A j \in DOMAIN group : j # i => group'[j] = group[j]
    BY <1>4 DEF Schedule, Ready
  <2>2. OrderInv' /\ Created' = Created
    BY <1>1, <2>1, MovedOrder
  <2>3. UNCHANGED <<decision, known, push, woken>>
    BY <1>4 DEF Schedule
  <2>4. Unheard'
    BY <2>1, <2>3 DEF GroupInv, Unheard
  <2>5. QED
    BY <1>1, <2>2, <2>3, <2>4 DEF GroupInv, OrderInv, Listed, Looked, Over
<1>5. ASSUME NEW i \in DOMAIN group, NEW s \in Ends, Resolve(i, s) PROVE GroupInv'
  <2>1. /\ DOMAIN group' = DOMAIN group /\ group[i] = "running"
        /\ \A j \in DOMAIN group : j # i => group'[j] = group[j]
    BY <1>5 DEF Resolve
  <2>2. OrderInv' /\ Created' = Created
    BY <1>1, <2>1, MovedOrder
  <2>3. UNCHANGED <<decision, known, push>> /\ woken'
    BY <1>5 DEF Resolve
  <2>4. QED
    BY <1>1, <2>2, <2>3 DEF GroupInv, OrderInv, Listed, Looked, Over, Unheard
<1>6. CASE Expire
  <2>1. /\ DOMAIN group' = DOMAIN group
        /\ \A j \in DOMAIN group : group'[j] = IF group[j] = "unscheduled" THEN "exception" ELSE group[j]
    BY <1>6 DEF Expire
  <2>2. OrderInv' /\ Created' = Created
    BY <1>1, <2>1, MovedOrder
  <2>3. UNCHANGED <<decision, known, push>> /\ woken'
    BY <1>6 DEF Expire
  <2>4. QED
    BY <1>1, <2>2, <2>3 DEF GroupInv, OrderInv, Listed, Looked, Over, Unheard
<1>7. CASE DecisionTaskHandler
  <2>1. UNCHANGED <<group, decision, push>> /\ decision = "completed" /\ known'
    BY <1>7 DEF DecisionTaskHandler
  <2>2. Created' = Created /\ OrderInv'
    BY <1>1, <2>1 DEF Created, OrderInv, Ordered, InOrder, Started
  <2>3. QED
    BY <1>1, <2>1, <2>2 DEF GroupInv, OrderInv, Listed, Looked, Over, Unheard
<1>8. CASE TryTaskHandler \/ AcceptFailures
  <2>1. decision = "completed" /\ UNCHANGED decision /\ known'
    BY <1>8, WorkerSteps
  <2>2. Undisturbed
    <3>1. SameGroup => Undisturbed
      BY DEF SameGroup, Undisturbed
    <3>2. QED
      BY <1>8, <3>1, WorkerSteps, JudgeUndisturbed DEF GroupInv
  <2>3. OrderInv' /\ Created' = Created
    BY <1>1, <2>2, UndisturbedOrder
  <2>4. Over'
    <3>1. CASE UNCHANGED push
      BY <3>1 DEF GroupInv, Over
    <3>2. ASSUME NEW p \in PushSet, p.status = push.status, p.verdict = push.verdict,
                 Waits(p) \/ Decides(p) \/ RunsAgain(p)
          PROVE  Over'
      BY <3>2 DEF GroupInv, Over, Waits, Decides, RunsAgain
    <3>3. QED
      BY <1>8, <3>1, <3>2, WorkerSteps
  <2>5. QED
    BY <1>1, <2>1, <2>3, <2>4 DEF GroupInv, OrderInv, Listed, Looked, Unheard
<1>9. CASE UNCHANGED vars
  <2>1. Created' = Created /\ OrderInv'
    BY <1>1, <1>9 DEF Created, OrderInv, Ordered, InOrder, Started, vars
  <2>2. QED
    BY <1>1, <1>9, <2>1 DEF GroupInv, OrderInv, Listed, Looked, Over, Unheard, vars
<1>10. QED
  BY <1>2, <1>3, <1>4, <1>5, <1>6, <1>7, <1>8, <1>9 DEF Next

\* Tasks run after those they depend on, and the try push has a verdict only of a whole group.
THEOREM GroupInvHolds == Spec => []GroupInv
BY GroupInvStarts, GroupInvKept, PTL DEF Spec

LEMMA AtRestStarts == Init => JudgedAtRest
BY DEF Init, JudgedAtRest, AtRest

LEMMA AtRestKept ==
  ASSUME Task # {}, GroupInv, JudgedAtRest, [Next]_vars
  PROVE  JudgedAtRest'
<1> SUFFICES ASSUME AtRest', ~woken', push'.verdict = "none", ~WaitsForImage', ~DoomedCopies'
             PROVE  FALSE
  BY DEF JudgedAtRest
<1>1. ASSUME NEW t \in Task, CreateTask(t) PROVE FALSE
  BY <1>1 DEF CreateTask, AtRest
<1>2. CASE DecisionCompletes
  <2>1. UNCHANGED <<group, known, push, woken>> /\ decision = "running"
    BY <1>2 DEF DecisionCompletes
  <2>2. Created = Task
    <3>1. \A t \in Task : <<t, 0>> \in Originals(Task)
      BY <1>2 DEF DecisionCompletes
    <3>2. QED
      BY <3>1 DEF Originals, Created
  <2>3. PICK t \in Created : Deps[t] \cap Created = {}
    BY <2>2 DEF GroupInv, Ordered
  <2>4. <<t, 0>> \in DOMAIN group /\ Deps[t] = {}
    BY <2>2, <2>3, TaskAssumption DEF Created
  <2>5. group[<<t, 0>>] \in {"unscheduled", "running"}
    BY <2>1, <2>4 DEF GroupInv, Unheard, Looked
  <2>6. Originals(Deps[<<t, 0>>[1]]) = {}
    BY <2>4 DEF Originals
  <2>7. group[<<t, 0>>] = "running" \/ Ready(<<t, 0>>)
    BY <2>5, <2>6 DEF Ready
  <2>8. AtRest' => group[<<t, 0>>] # "running" /\ ~Ready(<<t, 0>>)
    BY <2>1, <2>4 DEF AtRest, Ready, Originals
  <2>9. QED
    BY <2>7, <2>8
<1>3. ASSUME NEW i \in DOMAIN group, Schedule(i) PROVE FALSE
  <2>1. i \in DOMAIN group' /\ group'[i] = "running"
    BY <1>3 DEF Schedule
  <2>2. QED
    BY <2>1 DEF AtRest
<1>4. ASSUME NEW i \in DOMAIN group, NEW s \in Ends, Resolve(i, s) PROVE FALSE
  BY <1>4 DEF Resolve
<1>5. CASE Expire
  BY <1>5 DEF Expire
<1>6. CASE DecisionTaskHandler
  BY <1>6 DEF DecisionTaskHandler, JudgedAtRest, AtRest, Ready, Originals, WaitsForImage, DoomedCopies
<1>7. CASE TryTaskHandler \/ AcceptFailures
  <2>1. CASE SameGroup /\ UNCHANGED push /\ push.status = "complete"
    BY <2>1 DEF GroupInv, Over
  <2>2. ASSUME NEW p, Waits(p) \/ Decides(p) \/ RunsAgain(p), Complete \/ (woken /\ ~woken')
        PROVE  FALSE
    <3>1. CASE Waits(p)
      <4>1. \A i \in DOMAIN group : Ready(i)' <=> Ready(i)
        BY <3>1 DEF Waits, SameGroup, Ready, Originals
      <4>2. AtRest
        BY <1>7, <3>1, <4>1, WorkerSteps DEF AtRest, Waits, SameGroup
      <4>3. ~WaitsForImage /\ ~DoomedCopies
        BY <3>1 DEF Waits, SameGroup, WaitsForImage, DoomedCopies
      <4>4. QED
        BY <3>1, <4>2, <4>3, RestIsComplete DEF Waits
    <3>2. CASE Decides(p)
      BY <3>2 DEF Decides
    <3>3. CASE RunsAgain(p)
      <4>1. PICK new \in Copies : new # {} /\ group' = New(new)
        BY <3>3 DEF RunsAgain
      <4>2. \A i \in new : i \in DOMAIN group' /\ group'[i] = "unscheduled" /\ i[2] > 0
        BY <4>1, CopiesUndisturbed DEF GroupInv
      <4>3. QED
        BY <4>1, <4>2 DEF DoomedCopies
    <3>4. QED
      BY <2>2, <3>1, <3>2, <3>3
  <2>3. QED
    BY <1>7, <2>1, <2>2, WorkerSteps
<1>8. CASE UNCHANGED vars
  BY <1>8 DEF vars, JudgedAtRest, AtRest, Ready, Originals, WaitsForImage, DoomedCopies
<1>9. QED
  BY <1>1, <1>2, <1>3, <1>4, <1>5, <1>6, <1>7, <1>8 DEF Next

\* A try push is judged when Taskcluster has nothing left to run and the last event is handled,
\* whatever its tasks depend on and however they end: nobody waits for a deadline, save for a
\* task that depends on its image alone and for copies that cannot run.
THEOREM NobodyWaits == Task # {} => (Spec => []JudgedAtRest)
<1> SUFFICES ASSUME Task # {} PROVE Spec => []JudgedAtRest
  OBVIOUS
<1>1. GroupInv /\ JudgedAtRest /\ [Next]_vars => JudgedAtRest'
  BY AtRestKept
<1>2. QED
  BY <1>1, AtRestStarts, GroupInvHolds, PTL DEF Spec

-----------------------------------------------------------------------------
(***************************************************************************)
(* JudgedWhenOver needs two things of the tasks that the code takes for    *)
(* granted.  task_is_incomplete ignores images: the images of a task must  *)
(* be needed by the other tasks it depends on, so that they have completed *)
(* when those have.  And a stability try push must not be left open by     *)
(* failed builds, of which only those in the suite of the tests count.     *)
(***************************************************************************)
ImagesFirst ==
  \A t \in Task, S \in SUBSET Task :
    /\ \A u \in S : Deps[u] \subseteq S
    /\ Deps[t] \ Image[t] # {} /\ Deps[t] \ Image[t] \subseteq S
    => Image[t] \subseteq S
NoTestBuilds == Wpt \cap Build = {} \/ "stability" \notin Kinds

\* The tasks C will not run: each has ended badly or waits for one of them.
Lost == {"failed", "exception"}
Blocked(C) ==
  \A i \in C : \/ group[i] \in Lost
               \/ group[i] = "unscheduled" /\ Originals(Deps[i[1]]) \cap C # {}
Final(C) ==
  /\ C \subseteq DOMAIN group /\ Blocked(C)
  /\ \A i \in WptTasks : group[i] # "running" /\ (group[i] = "unscheduled" => i \in C)

Ended  == push.verdict # "none" /\ ~early => \E C : Final(C)
Unopen == push.kind = "stability" /\ push.status = "open" => push.verdict = "none"

EndInv == GroupInv /\ Ended /\ Unopen

LEMMA BlockedNotReady ==
  ASSUME NEW C, Blocked(C), NEW i \in C
  PROVE  ~Ready(i) /\ group[i] \notin {"running", "completed"}
<1>1. \A j \in C : group[j] \notin {"running", "completed"}
  BY DEF Blocked, Lost
<1>2. ASSUME Ready(i) PROVE FALSE
  <2>1. PICK d \in Originals(Deps[i[1]]) : d \in C
    BY <1>2 DEF Blocked, Lost, Ready
  <2>2. group[d] = "completed"
    BY <1>2, <2>1 DEF Ready
  <2>3. QED
    BY <1>1, <2>1, <2>2
<1>3. QED
  BY <1>1, <1>2

\* Complete tasks, none of which is ready, are over.
LEMMA CompleteIsFinal ==
  ASSUME ImagesFirst, GroupInv, decision = "completed", Complete, \A i \in DOMAIN group : ~Ready(i)
  PROVE  \E C : Final(C)
<1> DEFINE C == {i \in DOMAIN group :
                   group[i] \in Lost \/ (group[i] = "unscheduled" /\ ~Incomplete(i))}
           Done == {t \in Task : group[<<t, 0>>] = "completed"}
<1>1. Created = Task /\ \A t \in Task : <<t, 0>> \in DOMAIN group
  BY DEF GroupInv, Listed, Created
<1>2. \A u \in Done : Deps[u] \subseteq Done
  BY <1>1, TaskAssumption DEF GroupInv, InOrder, Started
<1>3. ASSUME NEW i \in DOMAIN group, group[i] = "unscheduled", ~Incomplete(i)
      PROVE  Originals(Deps[i[1]]) \cap C # {}
  <2>1. i[1] \in Task
    BY InTasks DEF GroupInv
  <2>2. OthersOf(i) # {} /\ \A d \in Originals(OthersOf(i)) : ~Incomplete(d)
    BY <1>3, IncompleteOf
  <2>3. Originals(OthersOf(i)) \subseteq Originals(Deps[i[1]])
    BY DEF Originals, OthersOf
  <2>4. ASSUME Originals(Deps[i[1]]) \cap C = {} PROVE FALSE
    <3>1. ASSUME NEW d \in Originals(OthersOf(i)) PROVE group[d] = "completed"
      <4>1. d \in DOMAIN group /\ d \notin C /\ ~Incomplete(d)
        BY <2>2, <2>3, <2>4 DEF Originals
      <4>2. group[d] # "running"
        BY <4>1, IncompleteOf
      <4>3. group[d] \in States
        BY <4>1, InTasks DEF GroupInv
      <4>4. QED
        BY <4>1, <4>2, <4>3 DEF States, Lost
    <3>2. OthersOf(i) \subseteq Task
      BY <2>1, TaskAssumption DEF OthersOf
    <3>3. \A u \in OthersOf(i) : <<u, 0>> \in Originals(OthersOf(i))
      BY <1>1, <3>2 DEF Originals
    <3>4. OthersOf(i) \subseteq Done
      BY <3>1, <3>2, <3>3
    <3>5. Image[i[1]] \subseteq Done
      <4>1. Done \in SUBSET Task
        OBVIOUS
      <4>2. Deps[i[1]] \ Image[i[1]] # {} /\ Deps[i[1]] \ Image[i[1]] \subseteq Done
        BY <2>2, <3>4 DEF OthersOf
      <4> HIDE DEF Done
      <4>3. QED
        BY <1>2, <2>1, <4>1, <4>2 DEF ImagesFirst
    <3>6. Deps[i[1]] \subseteq Done
      BY <3>4, <3>5 DEF OthersOf
    <3>7. \A d \in Originals(Deps[i[1]]) : group[d] = "completed"
      BY <3>6 DEF Originals
    <3>8. Ready(i)
      BY <1>3, <3>7 DEF Ready
    <3>9. QED
      BY <3>8
  <2>5. QED
    BY <2>4
<1>4. Blocked(C)
  BY <1>3 DEF Blocked
<1>5. ASSUME NEW i \in WptTasks
      PROVE  group[i] # "running" /\ (group[i] = "unscheduled" => i \in C)
  <2>1. i \in DOMAIN group /\ ~Incomplete(i)
    BY DEF Complete, WptTasks, InGroup
  <2>2. group[i] # "running"
    BY <2>1, IncompleteOf
  <2>3. QED
    BY <2>1, <2>2
<1>6. Final(C)
  BY <1>4, <1>5 DEF Final
<1>7. QED
  BY <1>6

LEMMA SameFinal ==
  ASSUME SameGroup, NEW C, Final(C)
  PROVE  Final(C)'
BY DEF SameGroup, Final, Blocked, WptTasks, InGroup, Originals

LEMMA EndInvStarts == Init => EndInv
<1>1. Init => push.verdict = "none"
  BY DEF Init
<1>2. QED
  BY <1>1, GroupInvStarts DEF EndInv, Ended, Unopen

LEMMA EndInvKept ==
  ASSUME ImagesFirst, NoTestBuilds, EndInv, [Next]_vars
  PROVE  EndInv'
<1>1. GroupInv' /\ GroupInv
  BY GroupInvKept DEF EndInv
<1> USE <1>1
<1>2. CASE SameGroup /\ UNCHANGED <<push, early>>
  BY <1>2, SameFinal DEF EndInv, Ended, Unopen
<1>3. ASSUME NEW t \in Task, CreateTask(t) PROVE EndInv'
  <2>1. decision = "running" /\ UNCHANGED <<push, early>>
    BY <1>3 DEF CreateTask
  <2>2. push.verdict = "none"
    BY <2>1 DEF GroupInv, Looked
  <2>3. QED
    BY <2>1, <2>2 DEF EndInv, Ended, Unopen
<1>4. CASE DecisionCompletes \/ DecisionTaskHandler \/ UNCHANGED vars
  <2>1. SameGroup /\ UNCHANGED <<push, early>>
    BY <1>4 DEF DecisionCompletes, DecisionTaskHandler, vars, SameGroup
  <2>2. QED
    BY <1>2, <2>1
<1>5. ASSUME UNCHANGED <<push, early>>, DOMAIN group' = DOMAIN group,
             \A C : Final(C) => Final(C)'
      PROVE  EndInv'
  BY <1>5 DEF EndInv, Ended, Unopen
<1>6. ASSUME DOMAIN group' = DOMAIN group
      PROVE  WptTasks' = WptTasks /\ \A ts : Originals(ts)' = Originals(ts)
  BY <1>6 DEF WptTasks, InGroup, Originals
<1>7. ASSUME NEW i \in DOMAIN group, Schedule(i) PROVE EndInv'
  <2>1. /\ DOMAIN group' = DOMAIN group /\ Ready(i) /\ group[i] = "unscheduled"
        /\ \A j \in DOMAIN group : j # i => group'[j] = group[j]
    BY <1>7 DEF Schedule, Ready
  <2>2. ASSUME NEW C, Final(C) PROVE Final(C)'
    <3>1. i \notin C
      BY <2>1, <2>2, BlockedNotReady DEF Final
    <3>2. i \notin WptTasks
      BY <2>1, <2>2, <3>1 DEF Final
    <3>3. WptTasks \subseteq DOMAIN group
      BY DEF WptTasks, InGroup
    <3>4. QED
      BY <1>6, <2>1, <2>2, <3>1, <3>2, <3>3 DEF Final, Blocked
  <2>3. QED
    BY <1>5, <1>7, <2>1, <2>2 DEF Schedule
<1>8. ASSUME NEW i \in DOMAIN group, NEW s \in Ends, Resolve(i, s) PROVE EndInv'
  <2>1. /\ DOMAIN group' = DOMAIN group /\ group[i] = "running"
        /\ \A j \in DOMAIN group : j # i => group'[j] = group[j]
    BY <1>8 DEF Resolve
  <2>2. ASSUME NEW C, Final(C) PROVE Final(C)'
    <3>1. i \notin C
      BY <2>1, <2>2, BlockedNotReady DEF Final
    <3>2. i \notin WptTasks
      BY <2>1, <2>2 DEF Final
    <3>3. WptTasks \subseteq DOMAIN group
      BY DEF WptTasks, InGroup
    <3>4. QED
      BY <1>6, <2>1, <2>2, <3>1, <3>2, <3>3 DEF Final, Blocked
  <2>3. QED
    BY <1>5, <1>8, <2>1, <2>2 DEF Resolve
<1>9. CASE Expire
  <2>1. /\ DOMAIN group' = DOMAIN group
        /\ \A j \in DOMAIN group : group'[j] = IF group[j] = "unscheduled" THEN "exception" ELSE group[j]
    BY <1>9 DEF Expire
  <2>2. ASSUME NEW C, Final(C) PROVE Final(C)'
    <3>1. WptTasks \subseteq DOMAIN group
      BY DEF WptTasks, InGroup
    <3>2. \A j \in C : group'[j] \in Lost
      BY <2>1, <2>2 DEF Final, Blocked, Lost
    <3>3. QED
      BY <1>6, <2>1, <2>2, <3>1, <3>2 DEF Final, Blocked
  <2>3. QED
    BY <1>5, <1>9, <2>1, <2>2 DEF Expire
<1>10. CASE TryTaskHandler \/ AcceptFailures
  <2>1. CASE SameGroup /\ UNCHANGED <<push, early>>
    BY <1>2, <2>1
  <2>2. ASSUME NEW p \in PushSet, push.status = "open",
               p.kind = push.kind, p.status = push.status, p.verdict = push.verdict,
               Waits(p) \/ Decides(p) \/ RunsAgain(p),
               early' = (early \/ (Complete /\ \E i \in DOMAIN group : Ready(i)))
        PROVE  EndInv'
    <3>1. CASE Waits(p)
      <4>1. SameGroup /\ push' = p /\ (early' <=> early)
        BY <2>2, <3>1 DEF Waits
      <4>2. QED
        BY <2>2, <4>1, SameFinal DEF EndInv, Ended, Unopen
    <3>2. CASE Decides(p)
      <4>1. Ended'
        <5>1. SUFFICES ASSUME ~early' PROVE (\E C : Final(C))'
          BY DEF Ended
        <5>2. Complete /\ SameGroup /\ \A i \in DOMAIN group : ~Ready(i)
          BY <2>2, <3>2, <5>1 DEF Decides
        <5>3. decision = "completed"
          BY <1>10, WorkerSteps
        <5>4. PICK C : Final(C)
          BY <5>2, <5>3, CompleteIsFinal
        <5>5. QED
          BY <5>2, <5>4, SameFinal
      <4>2. Unopen'
        <5>1. CASE Wpt \cap Build = {}
          <6>1. FailedBuilds = {}
            BY <5>1 DEF FailedBuilds, InState, WptTasks, InGroup
          <6>2. QED
            BY <3>2, <6>1 DEF Decides, Unopen
        <5>2. CASE "stability" \notin Kinds
          <6>1. p.kind \in Kinds
            BY DEF PushSet
          <6>2. QED
            BY <3>2, <5>2, <6>1 DEF Decides, Unopen
        <5>3. QED
          BY <5>1, <5>2 DEF NoTestBuilds
      <4>3. QED
        BY <4>1, <4>2 DEF EndInv
    <3>3. CASE RunsAgain(p)
      BY <2>2, <3>3 DEF RunsAgain, EndInv, Ended, Unopen
    <3>4. QED
      BY <2>2, <3>1, <3>2, <3>3
  <2>3. QED
    BY <1>10, <2>1, <2>2, WorkerSteps
<1>11. QED
  BY <1>3, <1>4, <1>7, <1>8, <1>9, <1>10 DEF Next

LEMMA EndedIsOver ==
  ASSUME EndInv
  PROVE  JudgedWhenOver
<1> SUFFICES ASSUME push.verdict # "none", ~early, NEW t \in Wpt
             PROVE  /\ <<t, 0>> \in DOMAIN group
                    /\ \A i \in Named(t) : group[i] # "running" /\ ~Ready(i)
  BY DEF JudgedWhenOver
<1>1. Created = Task
  BY DEF EndInv, GroupInv, Looked, Listed
<1>2. <<t, 0>> \in DOMAIN group
  BY <1>1, TaskAssumption DEF Created
<1>3. PICK C : Final(C)
  BY DEF EndInv, Ended
<1>4. ASSUME NEW i \in Named(t) PROVE group[i] # "running" /\ ~Ready(i)
  <2>1. i \in WptTasks
    BY DEF Named, WptTasks, InGroup
  <2>2. group[i] = "unscheduled" => i \in C
    BY <1>3, <2>1 DEF Final
  <2>3. ~Ready(i)
    <3>1. Ready(i) => group[i] = "unscheduled"
      BY DEF Ready
    <3>2. QED
      BY <1>3, <2>2, <3>1, BlockedNotReady DEF Final
  <2>4. QED
    BY <1>3, <2>1, <2>3 DEF Final
<1>5. QED
  BY <1>2, <1>4

\* A try push that was judged has no test that still runs or can run, though unscheduled tests
\* count as complete when what they depend on is: each of them waits for a task that ended badly.
THEOREM OverWhenJudged == ImagesFirst /\ NoTestBuilds => (Spec => []JudgedWhenOver)
<1> SUFFICES ASSUME ImagesFirst, NoTestBuilds PROVE Spec => []JudgedWhenOver
  OBVIOUS
<1>1. EndInv /\ [Next]_vars => EndInv'
  BY EndInvKept
<1>2. EndInv => JudgedWhenOver
  BY EndedIsOver
<1>3. QED
  BY <1>1, <1>2, EndInvStarts, PTL DEF Spec
=============================================================================
