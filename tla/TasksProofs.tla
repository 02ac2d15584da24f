---------------------------- MODULE TasksProofs ----------------------------
(***************************************************************************)
(* Proofs about Tasks, for any children and any number of items: nothing   *)
(* outlives the group, which is left with its first failure; the parallel  *)
(* call keeps its limit and its result is that of all its items.           *)
(***************************************************************************)
EXTENDS Tasks, SequenceTheorems, FiniteSetTheorems, WellFoundedInduction, TLAPS

\* The inductive invariant of the task group.
GroupInv == GroupTypeOK /\ StructuredGroup /\ (outcome # "pending" => Closed)

\* Only the first error is kept, and it aborts.
LEMMA FailsKeeps ==
  ASSUME GroupInv, NEW who \in Children \cup {Body}, Fails(who), outcome = "pending",
         outcome' = outcome
  PROVE  /\ error' \in Children \cup {Body} /\ groupAborted' = TRUE
         /\ failures' \in Seq(Children \cup {Body})
         /\ FirstFailureRethrown'
<1>1. /\ failures \in Seq(Children \cup {Body})
      /\ failures' = Append(failures, who) /\ groupAborted' = TRUE
      /\ error' = IF error = Nobody THEN who ELSE error
  BY DEF Fails, GroupInv, GroupTypeOK
<1>2. failures' \in Seq(Children \cup {Body}) /\ failures' # <<>>
  BY <1>1, AppendProperties
<1>3. CASE failures = <<>>
  <2>1. Head(failures') = who /\ error' = who
    BY <1>1, <1>3 DEF GroupInv, StructuredGroup, FirstFailureRethrown
  <2> QED
    BY <1>1, <1>2, <2>1 DEF FirstFailureRethrown
<1>4. CASE failures # <<>>
  <2>1. error = Head(failures) /\ Head(failures) \in Children \cup {Body}
    BY <1>1, <1>4, HeadTailProperties DEF GroupInv, StructuredGroup, FirstFailureRethrown
  <2>2. error' = error
    BY <1>1, <2>1, GroupAssumption
  <2>3. Head(failures') = Head(failures)
    BY <1>1, <1>4
  <2> QED
    BY <1>1, <1>2, <2>1, <2>2, <2>3 DEF FirstFailureRethrown
<1> QED
  BY <1>3, <1>4

\* A group is created without children.
LEMMA GroupInitially == GroupInit => GroupInv
BY EmptySeq DEF GroupInit, GroupInv, GroupTypeOK, StructuredGroup, NothingOutlivesGroup,
   FirstFailureRethrown

\* A step of the group that fails nobody.
LEMMA QuietKeeps ==
  ASSUME GroupInv, GroupTypeOK', UNCHANGED <<error, outcome, failures>>,
         groupAborted => groupAborted', Closed => Closed',
         outcome # "pending" => Tasks' = {}
  PROVE  GroupInv'
BY DEF GroupInv, StructuredGroup, NothingOutlivesGroup, FirstFailureRethrown

\* A step of the group that fails somebody.
LEMMA LoudKeeps ==
  ASSUME GroupInv, NEW who \in Children \cup {Body}, Fails(who), outcome = "pending",
         outcome' = outcome,
         body' \in {"new", "running", "returned", "threw"},
         child' \in [Children -> {"new", "scheduled", "running", "done", "threw", "refused"}]
  PROVE  GroupInv'
<1>1. GroupTypeOK' /\ FirstFailureRethrown'
  BY FailsKeeps DEF GroupInv, GroupTypeOK
<1> QED
  BY <1>1 DEF GroupInv, StructuredGroup, NothingOutlivesGroup

\* The group's invariant is inductive.
LEMMA GroupKeeps == GroupInv /\ [GroupNext]_groupVars => GroupInv'
<1> SUFFICES ASSUME GroupInv, [GroupNext]_groupVars PROVE GroupInv'
  OBVIOUS
<1>1. CASE Enter
  <2>1. outcome = "pending" /\ outcome' = outcome /\ child' = child
    BY <1>1 DEF Enter, Closed, GroupInv
  <2>2. CASE groupAborted /\ body' = "threw" /\ Fails(Body)
    BY <2>1, <2>2, LoudKeeps DEF GroupInv, GroupTypeOK
  <2>3. CASE ~groupAborted /\ body' = "running" /\ UNCHANGED <<error, groupAborted, failures>>
    BY <1>1, <2>1, <2>3, QuietKeeps DEF Enter, Closed, GroupInv, GroupTypeOK
  <2> QED
    BY <1>1, <2>2, <2>3 DEF Enter
<1>2. CASE BodyReturns
  <2>1. outcome = "pending"
    BY <1>2 DEF BodyReturns, Closed, GroupInv
  <2> QED
    BY <1>2, <2>1, QuietKeeps DEF BodyReturns, Closed, GroupInv, GroupTypeOK
<1>3. CASE BodyThrows
  <2>1. outcome = "pending"
    BY <1>3 DEF BodyThrows, Closed, GroupInv
  <2> QED
    BY <1>3, <2>1, LoudKeeps DEF BodyThrows, GroupInv, GroupTypeOK
<1>4. CASE ParentAborts
  BY <1>4, QuietKeeps DEF ParentAborts, Closed, GroupInv, GroupTypeOK
<1>5. CASE LeaveGroup
  <2>1. GroupTypeOK' /\ Closed'
    BY <1>5 DEF LeaveGroup, Closed, GroupInv, GroupTypeOK
  <2>2. NothingOutlivesGroup'
    BY <1>5 DEF LeaveGroup, NothingOutlivesGroup, Tasks
  <2>3. FirstFailureRethrown'
    <3>1. error = Nobody <=> failures = <<>>
      <4>1. failures # <<>> => Head(failures) \in Children \cup {Body}
        BY HeadTailProperties DEF GroupInv, GroupTypeOK
      <4> QED
        BY <4>1, GroupAssumption DEF GroupInv, StructuredGroup, FirstFailureRethrown
    <3> QED
      BY <1>5, <3>1 DEF LeaveGroup, GroupInv, StructuredGroup, FirstFailureRethrown
  <2> QED
    BY <2>1, <2>2, <2>3 DEF GroupInv, StructuredGroup
<1>6. ASSUME NEW t \in Children, Spawn(t) PROVE GroupInv'
  <2>1. GroupTypeOK'
    BY <1>6 DEF Spawn, GroupInv, GroupTypeOK
  <2>2. outcome # "pending" => Tasks' = {}
    BY <1>6 DEF Spawn, Accepts, Tasks, GroupInv, GroupTypeOK, StructuredGroup, NothingOutlivesGroup
  <2> QED
    BY <1>6, <2>1, <2>2, QuietKeeps DEF Spawn, Closed
<1>7. ASSUME NEW t \in Children, ChildBegins(t) PROVE GroupInv'
  <2>1. GroupTypeOK' /\ outcome = "pending"
    BY <1>7 DEF ChildBegins, GroupInv, GroupTypeOK, StructuredGroup, NothingOutlivesGroup, Tasks
  <2> QED
    BY <1>7, <2>1, QuietKeeps DEF ChildBegins, Closed
<1>8. ASSUME NEW t \in Children, ChildReturns(t) PROVE GroupInv'
  <2>1. GroupTypeOK' /\ outcome = "pending"
    BY <1>8 DEF ChildReturns, GroupInv, GroupTypeOK, StructuredGroup, NothingOutlivesGroup, Tasks
  <2> QED
    BY <1>8, <2>1, QuietKeeps DEF ChildReturns, Closed
<1>9. ASSUME NEW t \in Children, ChildThrows(t) PROVE GroupInv'
  <2>1. outcome = "pending"
    BY <1>9 DEF ChildThrows, GroupInv, StructuredGroup, NothingOutlivesGroup, Tasks
  <2> QED
    BY <1>9, <2>1, LoudKeeps DEF ChildThrows, GroupInv, GroupTypeOK
<1>10. CASE UNCHANGED groupVars
  BY <1>10 DEF groupVars, GroupInv, GroupTypeOK, StructuredGroup, NothingOutlivesGroup,
     FirstFailureRethrown, Tasks, Closed
<1> QED
  BY <1>1, <1>2, <1>3, <1>4, <1>5, <1>6, <1>7, <1>8, <1>9, <1>10 DEF GroupNext

\* No child runs once its group is left, and the group is left with the very
\* first failure, whatever the body and the siblings made of it
\* (src/task.ts:148-183).
THEOREM GroupSafe == GroupSpec => [](GroupTypeOK /\ StructuredGroup)
<1>1. GroupInv => GroupTypeOK /\ StructuredGroup
  BY DEF GroupInv
<1> QED
  BY <1>1, GroupInitially, GroupKeeps, PTL DEF GroupSpec

-----------------------------------------------------------------------------
\* A child that makes a parallel call takes the steps of any child.
LEMMA UsesGroup == [Next]_vars => [GroupNext]_groupVars
<1> SUFFICES ASSUME [Next]_vars PROVE [GroupNext]_groupVars
  OBVIOUS
<1>1. GroupOnly => GroupNext
  BY DEF GroupOnly, GroupNext
<1>2. PoolBegins \/ PoolReturns \/ PoolNeverCalls => GroupNext
  BY TasksAssumption DEF PoolBegins, PoolReturns, PoolNeverCalls, GroupNext
<1>3. PoolCalls \/ CallReturns \/ (\E i \in 1 .. N : ItemSettles(i)) => UNCHANGED groupVars
  BY DEF PoolCalls, CallReturns, ItemSettles
<1>4. UNCHANGED vars => UNCHANGED groupVars
  BY DEF vars, groupVars
<1> QED
  BY <1>1, <1>2, <1>3, <1>4 DEF Next

\* The call is under way only while its child is, and its items only while it is.
CallInv ==
  /\ item \in [1 .. N -> {"new", "running", "ok", "error"}]
  /\ call = "running" => child[Pool] = "running"
  /\ call # "running" => P!Running = {}

\* The invariant of the parallel call of a child is inductive.
LEMMA CallKeeps == GroupInv /\ CallInv /\ [Next]_vars => CallInv'
<1> SUFFICES ASSUME GroupInv, CallInv, [Next]_vars PROVE CallInv'
  OBVIOUS
<1> USE DEF P!Running, P!Items
<1>1. ASSUME UNCHANGED callVars, child'[Pool] = child[Pool] PROVE CallInv'
  BY <1>1 DEF callVars, CallInv
<1>2. CASE GroupOnly /\ UNCHANGED callVars
  <2>1. ASSUME call = "running" PROVE child'[Pool] = "running"
    <3>1. child[Pool] = "running" /\ Pool \in Children
      BY <2>1, TasksAssumption DEF CallInv
    <3> QED
      BY <1>2, <3>1
         DEF GroupOnly, Enter, BodyReturns, BodyThrows, ParentAborts, LeaveGroup, Spawn,
             ChildBegins, ChildReturns, ChildThrows, GroupInv, GroupTypeOK
  <2> QED
    BY <1>2, <2>1 DEF callVars, CallInv
<1>3. CASE PoolBegins
  BY <1>3, TasksAssumption DEF PoolBegins, ChildBegins, callVars, CallInv, GroupInv, GroupTypeOK
<1>4. CASE PoolCalls
  <2>1. item' \in [1 .. N -> {"new", "running", "ok", "error"}]
    BY <1>4 DEF PoolCalls, P!Call
  <2> QED
    BY <1>4, <2>1 DEF PoolCalls, P!Call, CallInv, groupVars
<1>5. CASE PoolReturns \/ PoolNeverCalls
  BY <1>5 DEF PoolReturns, PoolNeverCalls, P!Settled, callVars, CallInv
<1>6. ASSUME NEW i \in 1 .. N, ItemSettles(i) PROVE CallInv'
  <2>1. call = "running" /\ call' = call /\ child' = child
    BY <1>6 DEF ItemSettles, P!ItemStep, P!ItemSucceeds, P!ItemFails, CallInv, groupVars
  <2>2. item' \in [1 .. N -> {"new", "running", "ok", "error"}]
    BY <1>6 DEF ItemSettles, P!ItemStep, P!ItemSucceeds, P!ItemFails, CallInv
  <2> QED
    BY <2>1, <2>2 DEF CallInv
<1>7. CASE CallReturns
  BY <1>7 DEF CallReturns, P!Return, P!Result, CallInv, groupVars
<1>8. CASE UNCHANGED vars
  BY <1>1, <1>8 DEF vars, groupVars
<1> QED
  BY <1>2, <1>3, <1>4, <1>5, <1>6, <1>7, <1>8 DEF Next

\* Waiting reaches through both layers: when the group is left, no child of it
\* runs and no item of a call that a child made (src/task.ts:129-133,
\* src/all.ts:204-206).
THEOREM NothingLeftRunning == Spec => []StructuredTree
<1>1. Init => GroupInv /\ CallInv
  <2>1. Init => CallInv
    BY DEF Init, P!ParallelInit, CallInv, P!Running, P!Items
  <2> QED
    BY <2>1, GroupInitially DEF Init
<1>2. GroupInv /\ CallInv /\ [Next]_vars => GroupInv' /\ CallInv'
  BY GroupKeeps, UsesGroup, CallKeeps
<1>3. GroupInv /\ CallInv => StructuredTree
  BY TasksAssumption
     DEF GroupInv, CallInv, StructuredTree, StructuredGroup, NothingOutlivesGroup, Tasks
<1> QED
  BY <1>1, <1>2, <1>3, PTL DEF Spec

-----------------------------------------------------------------------------
\* A nonempty set of items has a least one.
LEMMA LeastItem ==
  ASSUME NEW T \in SUBSET Nat, T # {}
  PROVE  \E i \in T : \A j \in T : i <= j
<1>1. PICK i \in T : \A j \in T : <<j, i>> \notin OpToRel(<, Nat)
  BY WFMin, NatLessThanWellFounded, Zenon
<1>2. \A j \in T : ~(j < i)
  BY <1>1, Zenon DEF OpToRel
<1> QED
  BY <1>2

\* What LimitKept rests on: nothing runs before the call or after it.
LimitInv == GroupInv /\ CallInv /\ LimitKept

\* Parallel counts as the theorems about finite sets do.
LEMMA SameCount == \A S : P!Cardinality(S) = Cardinality(S)
BY Zenon DEF P!Cardinality, Cardinality, P!IsFiniteSet, IsFiniteSet

\* The items in flight are finitely many.
LEMMA FinitelyManyRun ==
  P!Running \in SUBSET (1 .. N) /\ IsFiniteSet(P!Running) /\ Cardinality(P!Running) \in Nat
<1>1. IsFiniteSet(1 .. N)
  BY FS_Interval, TasksAssumption
<1>2. P!Running \in SUBSET (1 .. N)
  BY DEF P!Running, P!Items
<1> QED
  BY <1>1, <1>2, FS_Subset, FS_CardinalityType

\* mapLimit() starts the first items, as many as it has workers.
LEMMA CallFillsRoom == ASSUME LimitInv, PoolCalls PROVE LimitKept'
<1> SUFFICES ASSUME kind = "mapLimit" PROVE P!LimitKept'
  BY DEF PoolCalls, P!Call, LimitKept, P!LimitKept
<1>1. /\ kind' = kind /\ first' = first /\ groupAborted' = groupAborted
      /\ item' = [i \in 1 .. N |-> IF i \in P!FirstItems THEN "running" ELSE "new"]
      /\ P!FirstItems = IF P!Cut THEN {} ELSE {i \in 1 .. N : i <= Concurrency}
  BY DEF PoolCalls, P!Call, groupVars, P!FirstItems, P!Items
<1>2. P!Running' = P!FirstItems
  BY <1>1 DEF P!Running, P!Items
<1>3. P!Cut' = P!Cut
  BY <1>1 DEF P!Cut
<1>4. \A i, j \in 1 .. N : i < j /\ item'[j] # "new" => item'[i] # "new"
  BY <1>1, TasksAssumption
<1>5. CASE P!Cut
  <2>1. Cardinality(P!Running') = 0
    BY <1>1, <1>2, <1>5, FS_EmptySet
  <2> QED
    BY <1>3, <1>4, <1>5, <2>1, TasksAssumption, SameCount DEF P!LimitKept, P!Items
<1>6. CASE ~P!Cut /\ N <= Concurrency
  <2>1. P!Running' = 1 .. N /\ P!Waiting' = {}
    BY <1>1, <1>2, <1>6, TasksAssumption DEF P!Waiting, P!Items
  <2>2. Cardinality(P!Running') <= Concurrency
    BY <1>6, <2>1, FS_Interval, TasksAssumption
  <2> QED
    BY <1>4, <2>1, <2>2, SameCount DEF P!LimitKept, P!Items
<1>7. CASE ~P!Cut /\ ~(N <= Concurrency)
  <2>1. P!Running' = 1 .. Concurrency
    BY <1>1, <1>2, <1>7, TasksAssumption
  <2>2. Cardinality(P!Running') = Concurrency
    BY <2>1, FS_Interval, TasksAssumption
  <2> QED
    BY <1>4, <2>2, TasksAssumption, SameCount DEF P!LimitKept, P!Items
<1> QED
  BY <1>5, <1>6, <1>7

\* A worker that finished an item takes the next, if there is one and it may.
LEMMA SuccessKeepsLimit ==
  ASSUME LimitInv, NEW i \in 1 .. N, ItemSettles(i), P!ItemSucceeds(i)
  PROVE  LimitKept'
<1> SUFFICES ASSUME kind = "mapLimit" PROVE P!LimitKept'
  BY DEF P!ItemSucceeds, LimitKept, P!LimitKept
<1>1. /\ kind' = kind /\ first' = first /\ call' = call /\ groupAborted' = groupAborted
      /\ item[i] = "running" /\ call = "running"
      /\ item' = [j \in 1 .. N |->
                    IF j = i THEN "ok" ELSE IF j \in P!WorkerTakes THEN "running" ELSE item[j]]
  BY DEF ItemSettles, groupVars, P!ItemSucceeds, P!Items, LimitInv, CallInv, P!Running
<1>2. /\ Cardinality(P!Running) <= Concurrency
      /\ \A j, k \in 1 .. N : j < k /\ item[k] # "new" => item[j] # "new"
      /\ ~P!Cut => Cardinality(P!Running) = Concurrency \/ P!Waiting = {}
  BY <1>1, SameCount DEF LimitInv, LimitKept, P!LimitKept, P!Items
<1>3. P!Cut' = P!Cut
  BY <1>1 DEF P!Cut
<1>4. /\ IsFiniteSet(P!Running \ {i})
      /\ Cardinality(P!Running \ {i}) = Cardinality(P!Running) - 1
  <2>1. i \in P!Running
    BY <1>1 DEF P!Running, P!Items
  <2> QED
    BY <2>1, FinitelyManyRun, FS_RemoveElement
<1>5. CASE P!Cut \/ P!Waiting = {}
  <2>1. P!WorkerTakes = {}
    BY <1>5 DEF P!WorkerTakes
  <2>2. P!Running' = P!Running \ {i} /\ P!Waiting' = P!Waiting
    BY <1>1, <2>1 DEF P!Running, P!Waiting, P!Items, LimitInv, CallInv
  <2>3. Cardinality(P!Running') <= Concurrency
    BY <1>2, <1>4, <2>2, FinitelyManyRun, TasksAssumption
  <2>4. \A j, k \in 1 .. N : j < k /\ item'[k] # "new" => item'[j] # "new"
    BY <1>1, <1>2, <2>1
  <2> QED
    BY <1>3, <1>5, <2>2, <2>3, <2>4, SameCount DEF P!LimitKept, P!Items
<1>6. CASE ~P!Cut /\ P!Waiting # {}
  <2>1. PICK m \in P!Waiting : \A j \in P!Waiting : m <= j
    <3>1. P!Waiting \in SUBSET Nat
      BY DEF P!Waiting, P!Items
    <3> QED
      BY <1>6, <3>1, LeastItem
  <2>2. m \in 1 .. N /\ item[m] = "new" /\ m # i
    BY <1>1, <2>1 DEF P!Waiting, P!Items
  <2>3. P!WorkerTakes = {m}
    BY <1>6, <2>1, <2>2 DEF P!WorkerTakes, P!Waiting, P!Items
  <2>4. P!Running' = (P!Running \ {i}) \cup {m}
    BY <1>1, <2>2, <2>3 DEF P!Running, P!Items, LimitInv, CallInv
  <2>5. Cardinality(P!Running') = Concurrency
    <3>1. m \notin P!Running \ {i}
      BY <2>2 DEF P!Running
    <3>2. Cardinality((P!Running \ {i}) \cup {m}) = Cardinality(P!Running \ {i}) + 1
      BY <1>4, <3>1, FS_AddElement
    <3> QED
      BY <1>2, <1>4, <1>6, <2>4, <3>2, FinitelyManyRun
  <2>6. ASSUME NEW j \in 1 .. N, NEW k \in 1 .. N, j < k, item'[k] # "new"
        PROVE  item'[j] # "new"
    <3>1. CASE item[k] # "new"
      BY <1>1, <1>2, <2>6, <3>1
    <3>2. CASE item[k] = "new"
      <4>1. k = m
        BY <1>1, <2>3, <2>6, <3>2
      <4>2. item[j] # "new"
        BY <2>1, <2>6, <4>1 DEF P!Waiting, P!Items
      <4> QED
        BY <1>1, <4>2
    <3> QED
      BY <3>1, <3>2
  <2> QED
    BY <2>5, <2>6, TasksAssumption, SameCount DEF P!LimitKept, P!Items
<1> QED
  BY <1>5, <1>6

\* A failure cuts the call.
LEMMA FailureKeepsLimit ==
  ASSUME LimitInv, NEW i \in 1 .. N, ItemSettles(i), P!ItemFails(i)
  PROVE  LimitKept'
<1> SUFFICES ASSUME kind = "mapLimit" PROVE P!LimitKept'
  BY DEF P!ItemFails, LimitKept, P!LimitKept
<1>1. /\ kind' = kind /\ item[i] = "running"
      /\ item' = [item EXCEPT ![i] = "error"] /\ first' # 0
  BY DEF P!ItemFails, P!NoteFailure
<1>2. /\ Cardinality(P!Running) <= Concurrency
      /\ \A j, k \in 1 .. N : j < k /\ item[k] # "new" => item[j] # "new"
  BY SameCount DEF LimitInv, LimitKept, P!LimitKept, P!Items
<1>3. P!Running' = P!Running \ {i}
  BY <1>1 DEF P!Running, P!Items, LimitInv, CallInv
<1>4. Cardinality(P!Running') <= Cardinality(P!Running) /\ Cardinality(P!Running') \in Nat
  <2>1. i \in P!Running
    BY <1>1 DEF P!Running, P!Items
  <2>2. Cardinality(P!Running \ {i}) = Cardinality(P!Running) - 1
    BY <2>1, FinitelyManyRun, FS_RemoveElement
  <2>3. Cardinality(P!Running \ {i}) \in Nat
    BY FinitelyManyRun, FS_RemoveElement, FS_CardinalityType
  <2> QED
    BY <1>3, <2>2, <2>3, FinitelyManyRun
<1>5. \A j, k \in 1 .. N : j < k /\ item'[k] # "new" => item'[j] # "new"
  BY <1>1, <1>2 DEF LimitInv, CallInv
<1>6. Cardinality(P!Running') <= Concurrency
  BY <1>2, <1>4, FinitelyManyRun, TasksAssumption
<1>7. P!Cut'
  BY <1>1 DEF P!Cut
<1> QED
  BY <1>5, <1>6, <1>7, SameCount DEF P!LimitKept, P!Items

\* Whatever else happens, the signal of the group never goes back.
LEMMA OthersKeepLimit ==
  ASSUME LimitInv, UNCHANGED <<kind, item, first>>, groupAborted => groupAborted',
         call' = "running" => call = "running"
  PROVE  LimitKept'
BY DEF LimitInv, LimitKept, P!LimitKept, P!Running, P!Waiting, P!Cut, P!Items

\* Before the call everything waits.
LEMMA LimitInitially == Init => LimitInv
<1>1. Init => GroupInv /\ CallInv
  BY GroupInitially DEF Init, P!ParallelInit, CallInv, P!Running, P!Items
<1>2. ASSUME Init PROVE LimitKept
  <2>1. P!Running = {} /\ call = "none" /\ \A i \in 1 .. N : item[i] = "new"
    BY <1>2 DEF Init, P!ParallelInit, P!Running, P!Items
  <2>2. P!Cardinality(P!Running) = 0
    BY <2>1, SameCount, FS_EmptySet
  <2> QED
    BY <2>1, <2>2, TasksAssumption DEF LimitKept, P!LimitKept, P!Items
<1> QED
  BY <1>1, <1>2 DEF LimitInv

\* The limit is inductive.
LEMMA LimitKeeps == LimitInv /\ [Next]_vars => LimitInv'
<1> SUFFICES ASSUME LimitInv, [Next]_vars PROVE LimitInv'
  OBVIOUS
<1>1. GroupInv' /\ CallInv'
  BY GroupKeeps, UsesGroup, CallKeeps DEF LimitInv
<1>2. CASE GroupOnly /\ UNCHANGED callVars
  <2>1. groupAborted => groupAborted'
    BY <1>2 DEF GroupOnly, Enter, BodyReturns, BodyThrows, ParentAborts, LeaveGroup, Spawn,
       ChildBegins, ChildReturns, ChildThrows, Fails
  <2> QED
    BY <1>1, <1>2, <2>1, OthersKeepLimit DEF callVars, LimitInv
<1>3. CASE PoolBegins \/ PoolReturns \/ PoolNeverCalls
  <2>1. groupAborted => groupAborted'
    BY <1>3 DEF PoolBegins, PoolReturns, PoolNeverCalls, ChildBegins, ChildReturns,
       ChildThrows, Fails
  <2>2. UNCHANGED callVars
    BY <1>3 DEF PoolBegins, PoolReturns, PoolNeverCalls
  <2> QED
    BY <1>1, <2>1, <2>2, OthersKeepLimit DEF callVars, LimitInv
<1>4. CASE CallReturns
  BY <1>1, <1>4, OthersKeepLimit DEF CallReturns, P!Return, P!Result, groupVars, LimitInv
<1>5. CASE UNCHANGED vars
  BY <1>1, <1>5, OthersKeepLimit DEF vars, callVars, groupVars, LimitInv
<1>6. ASSUME NEW i \in 1 .. N, ItemSettles(i) PROVE LimitKept'
  BY <1>6, SuccessKeepsLimit, FailureKeepsLimit DEF ItemSettles, P!ItemStep
<1> QED
  BY <1>1, <1>2, <1>3, <1>4, <1>5, <1>6, CallFillsRoom DEF Next, LimitInv

\* mapLimit() keeps its limit, starts items in order and leaves no worker idle
\* unless it is cut, for any number of items and workers (src/all.ts:165-208).
THEOREM ParallelKeepsLimit == Spec => []LimitKept
<1>1. LimitInv => LimitKept
  BY DEF LimitInv
<1> QED
  BY <1>1, LimitInitially, LimitKeeps, PTL DEF Spec

-----------------------------------------------------------------------------
\* What concerns the result only.
ResultParts == <<kind, item, first, order>>

\* The order in which the items settled names each of them.
SettledInOrder ==
  \A i \in 1 .. N : item[i] \in {"ok", "error"} <=> \E n \in DOMAIN order : order[n] = i

\* What the first failure, or the first result, left in `first`.
FirstKept ==
  /\ kind = "race" => IF order = <<>> THEN first = 0 ELSE first = order[1]
  /\ kind # "race" => IF first = 0 THEN \A i \in 1 .. N : item[i] # "error"
                                   ELSE P!FirstFailure(first)

\* The inductive invariant of the result of a parallel call.
ResultInv ==
  /\ LimitInv
  /\ kind \in {"all", "mapLimit", "race"} /\ first \in 0 .. N /\ order \in Seq(1 .. N)
  /\ call \in {"none", "running", "value", "failure", "aborted"}
  /\ SettledInOrder /\ FirstKept
  /\ call = "none" => \A i \in 1 .. N : item[i] = "new"
  /\ call # "none" /\ kind # "mapLimit" => \A i \in 1 .. N : item[i] # "new"
  /\ kind # "race" /\ call = "value" => first = 0 /\ \A i \in 1 .. N : item[i] # "new"
  /\ kind # "race" /\ call = "failure" => first # 0

\* A step that settles no item and does not end the call.
LEMMA ResultUntouched ==
  ASSUME ResultInv, LimitInv', UNCHANGED <<ResultParts, call>>
  PROVE  ResultInv'
BY DEF ResultInv, ResultParts, SettledInOrder, FirstKept, P!FirstFailure

\* The call starts its first items.
LEMMA CallStarts == ASSUME ResultInv, LimitInv', PoolCalls PROVE ResultInv'
<1>1. /\ UNCHANGED <<kind, first, order>> /\ call = "none" /\ call' = "running"
      /\ item' = [i \in 1 .. N |-> IF i \in P!FirstItems THEN "running" ELSE "new"]
      /\ kind # "mapLimit" => P!FirstItems = 1 .. N
  BY DEF PoolCalls, P!Call, P!Items, P!FirstItems
<1>2. \A i \in 1 .. N : item'[i] \notin {"ok", "error"}
  BY <1>1
<1>3. \A n \in DOMAIN order : FALSE
  <2>1. \A n \in DOMAIN order : order[n] \in 1 .. N
    BY ElementOfSeq, LenProperties DEF ResultInv
  <2> QED
    BY <1>1, <2>1 DEF ResultInv, SettledInOrder
<1>4. SettledInOrder'
  BY <1>1, <1>2, <1>3 DEF SettledInOrder
<1>5. FirstKept'
  BY <1>1, <1>2, <1>3 DEF ResultInv, FirstKept, P!FirstFailure
<1>6. kind # "mapLimit" => \A i \in 1 .. N : item'[i] # "new"
  BY <1>1
<1> QED
  BY <1>1, <1>4, <1>5, <1>6 DEF ResultInv

\* An item settles, and is the last in order.
LEMMA ItemGoesLast ==
  ASSUME ResultInv, NEW i \in 1 .. N, item[i] = "running", order' = Append(order, i),
         \A j \in 1 .. N \ {i} : item'[j] \in {"ok", "error"} <=> item[j] \in {"ok", "error"},
         item'[i] \in {"ok", "error"}
  PROVE  /\ order' \in Seq(1 .. N) /\ Len(order') = Len(order) + 1 /\ Len(order) \in Nat
         /\ DOMAIN order' = 1 .. Len(order) + 1 /\ DOMAIN order = 1 .. Len(order)
         /\ order'[Len(order) + 1] = i
         /\ \A n \in DOMAIN order : order'[n] = order[n] /\ order[n] \in 1 .. N \ {i}
         /\ SettledInOrder'
<1>1. /\ order' \in Seq(1 .. N) /\ Len(order') = Len(order) + 1 /\ Len(order) \in Nat
      /\ DOMAIN order' = 1 .. Len(order) + 1 /\ DOMAIN order = 1 .. Len(order)
      /\ order'[Len(order) + 1] = i
      /\ \A n \in DOMAIN order : order'[n] = order[n] /\ order[n] \in 1 .. N
  <2>1. order \in Seq(1 .. N)
    BY DEF ResultInv
  <2>2. /\ Len(order) \in Nat /\ DOMAIN order = 1 .. Len(order)
        /\ \A n \in 1 .. Len(order) : order[n] \in 1 .. N
    BY <2>1, LenProperties, ElementOfSeq
  <2>3. /\ order' \in Seq(1 .. N) /\ Len(order') = Len(order) + 1
        /\ order'[Len(order) + 1] = i /\ \A n \in 1 .. Len(order) : order'[n] = order[n]
    BY <2>1, AppendProperties
  <2>4. DOMAIN order' = 1 .. Len(order) + 1
    BY <2>3, LenProperties
  <2> QED
    BY <2>2, <2>3, <2>4
<1>2. \A n \in DOMAIN order : order[n] # i
  BY DEF ResultInv, SettledInOrder
<1>3. ASSUME NEW j \in 1 .. N
      PROVE  item'[j] \in {"ok", "error"} <=> \E n \in DOMAIN order' : order'[n] = j
  <2>1. CASE j = i
    <3>1. Len(order) + 1 \in DOMAIN order'
      BY <1>1
    <3> QED
      BY <1>1, <2>1, <3>1
  <2>2. CASE j # i
    <3>1. (\E n \in DOMAIN order' : order'[n] = j) <=> \E n \in DOMAIN order : order[n] = j
      BY <1>1, <2>2
    <3> QED
      BY <2>2, <3>1 DEF ResultInv, SettledInOrder
  <2> QED
    BY <2>1, <2>2
<1> QED
  BY <1>1, <1>2, <1>3 DEF SettledInOrder

\* A success changes the first result of a race only.
LEMMA SuccessKeepsFirst ==
  ASSUME ResultInv, NEW i \in 1 .. N, P!ItemSucceeds(i), LimitInv', call = "running", call' = call
  PROVE  ResultInv'
<1>1. /\ item[i] = "running" /\ order' = Append(order, i) /\ kind' = kind
      /\ item' = [j \in 1 .. N |->
                    IF j = i THEN "ok"
                    ELSE IF kind = "mapLimit" /\ j \in P!WorkerTakes THEN "running" ELSE item[j]]
      /\ first' = IF kind = "race" /\ first = 0 THEN i ELSE first
  BY DEF P!ItemSucceeds, P!Items
<1>2. \A j \in 1 .. N \ {i} : item'[j] = item[j] \/ (item[j] = "new" /\ item'[j] = "running")
  BY <1>1 DEF P!WorkerTakes, P!Waiting, P!Items
<1>3. /\ \A j \in 1 .. N \ {i} : item'[j] \in {"ok", "error"} <=> item[j] \in {"ok", "error"}
      /\ item'[i] = "ok" /\ \A j \in 1 .. N : item'[j] = "error" <=> item[j] = "error"
  BY <1>1, <1>2
<1>4. /\ order' \in Seq(1 .. N) /\ Len(order') = Len(order) + 1 /\ Len(order) \in Nat
      /\ DOMAIN order' = 1 .. Len(order) + 1 /\ DOMAIN order = 1 .. Len(order)
      /\ order'[Len(order) + 1] = i
      /\ \A n \in DOMAIN order : order'[n] = order[n] /\ order[n] \in 1 .. N \ {i}
      /\ SettledInOrder'
  BY <1>1, <1>3, ItemGoesLast
<1>5. FirstKept'
  <2>1. CASE kind = "race"
    <3>1. order = <<>> <=> Len(order) = 0
      BY EmptySeq DEF ResultInv
    <3>2. order' # <<>> /\ first' = order'[1]
      BY <1>1, <1>4, <2>1, <3>1 DEF ResultInv, FirstKept
    <3> QED
      BY <1>1, <2>1, <3>2 DEF FirstKept
  <2>2. CASE kind # "race" /\ first = 0
    BY <1>1, <1>3, <2>2 DEF ResultInv, FirstKept
  <2>3. CASE kind # "race" /\ first # 0
    <3>1. PICK n \in DOMAIN order :
            /\ order[n] = first /\ item[first] = "error"
            /\ \A m \in 1 .. n - 1 : item[order[m]] # "error"
      BY <2>3 DEF ResultInv, FirstKept, P!FirstFailure
    <3>2. n \in DOMAIN order' /\ \A m \in 1 .. n - 1 : m \in DOMAIN order
      BY <1>4
    <3>3. first' = first /\ first \in 1 .. N
      BY <1>1, <1>4, <2>3, <3>1
    <3>4. order'[n] = first' /\ item'[first'] = "error"
      BY <1>3, <1>4, <3>1, <3>3
    <3>5. \A m \in 1 .. n - 1 : item'[order'[m]] # "error"
      BY <1>3, <1>4, <3>1, <3>2
    <3>6. P!FirstFailure(first)'
      BY <3>2, <3>4, <3>5 DEF P!FirstFailure
    <3> QED
      BY <1>1, <2>3, <3>6 DEF FirstKept
  <2> QED
    BY <2>1, <2>2, <2>3
<1>6. first' \in 0 .. N
  BY <1>1 DEF ResultInv
<1>7. kind # "mapLimit" => \A j \in 1 .. N : item'[j] # "new"
  BY <1>1, <1>2 DEF ResultInv
<1> QED
  BY <1>1, <1>4, <1>5, <1>6, <1>7 DEF ResultInv

\* A failure changes `first` when it is the first one, in a race when nothing
\* has settled yet.
LEMMA FailureKeepsFirst ==
  ASSUME ResultInv, NEW i \in 1 .. N, P!ItemFails(i), LimitInv', call = "running", call' = call
  PROVE  ResultInv'
<1>1. /\ item[i] = "running" /\ order' = Append(order, i) /\ kind' = kind
      /\ item' = [item EXCEPT ![i] = "error"]
      /\ first' = IF first = 0 THEN i ELSE first
  BY DEF P!ItemFails, P!NoteFailure
<1>2. item'[i] = "error" /\ \A j \in 1 .. N \ {i} : item'[j] = item[j]
  BY <1>1 DEF ResultInv, LimitInv, CallInv
<1>3. /\ order' \in Seq(1 .. N) /\ Len(order') = Len(order) + 1 /\ Len(order) \in Nat
      /\ DOMAIN order' = 1 .. Len(order) + 1 /\ DOMAIN order = 1 .. Len(order)
      /\ order'[Len(order) + 1] = i
      /\ \A n \in DOMAIN order : order'[n] = order[n] /\ order[n] \in 1 .. N \ {i}
      /\ SettledInOrder'
  BY <1>1, <1>2, ItemGoesLast
<1>4. FirstKept'
  <2>1. CASE kind = "race"
    <3>1. order = <<>> <=> Len(order) = 0
      BY EmptySeq DEF ResultInv
    <3>2. order' # <<>> /\ first' = order'[1]
      BY <1>1, <1>3, <2>1, <3>1 DEF ResultInv, FirstKept
    <3> QED
      BY <1>1, <2>1, <3>2 DEF FirstKept
  <2>2. CASE kind # "race" /\ first = 0
    <3>1. \A n \in DOMAIN order : item'[order'[n]] # "error"
      BY <1>2, <1>3, <2>2 DEF ResultInv, FirstKept
    <3>2. Len(order) + 1 \in DOMAIN order' /\ 1 .. Len(order) + 1 - 1 = DOMAIN order
      BY <1>3
    <3>3. P!FirstFailure(i)'
      BY <1>2, <1>3, <3>1, <3>2 DEF P!FirstFailure
    <3> QED
      BY <1>1, <2>2, <3>3 DEF FirstKept
  <2>3. CASE kind # "race" /\ first # 0
    <3>1. PICK n \in DOMAIN order :
            /\ order[n] = first /\ item[first] = "error"
            /\ \A m \in 1 .. n - 1 : item[order[m]] # "error"
      BY <2>3 DEF ResultInv, FirstKept, P!FirstFailure
    <3>2. n \in DOMAIN order' /\ \A m \in 1 .. n - 1 : m \in DOMAIN order
      BY <1>3
    <3>3. P!FirstFailure(first)'
      BY <1>1, <1>2, <1>3, <2>3, <3>1, <3>2 DEF P!FirstFailure
    <3> QED
      BY <1>1, <2>3, <3>3 DEF FirstKept
  <2> QED
    BY <2>1, <2>2, <2>3
<1>5. first' \in 0 .. N
  BY <1>1 DEF ResultInv
<1>6. kind # "mapLimit" => \A j \in 1 .. N : item'[j] # "new"
  BY <1>2 DEF ResultInv
<1> QED
  BY <1>1, <1>3, <1>4, <1>5, <1>6 DEF ResultInv

\* The call ends: with a value only if nothing cut it, and then no worker left
\* an item behind.
LEMMA CallEnds == ASSUME ResultInv, LimitInv', CallReturns PROVE ResultInv'
<1>1. /\ UNCHANGED <<kind, item, first, order>> /\ call = "running" /\ P!Running = {}
      /\ call' = P!Result
  BY DEF CallReturns, P!Return
<1>2. call' \in {"value", "failure", "aborted"}
  BY <1>1 DEF P!Result
<1>3. kind # "race" /\ first # 0 => item[first] = "error"
  BY DEF ResultInv, FirstKept, P!FirstFailure
<1>4. kind # "race" /\ call' = "value" => first = 0 /\ ~P!Cut
  BY <1>1, <1>3 DEF P!Result, P!Cut
<1>5. kind # "race" /\ call' = "failure" => first # 0
  BY <1>1 DEF P!Result
<1>6. ASSUME kind = "mapLimit", ~P!Cut PROVE \A i \in 1 .. N : item[i] # "new"
  <2>1. Cardinality(P!Running) = 0
    BY <1>1, FS_EmptySet
  <2>2. P!Waiting = {}
    BY <1>1, <1>6, <2>1, SameCount, TasksAssumption DEF ResultInv, LimitInv, LimitKept, P!LimitKept
  <2> QED
    BY <2>2 DEF P!Waiting, P!Items
<1>7. SettledInOrder' /\ FirstKept'
  BY <1>1 DEF ResultInv, SettledInOrder, FirstKept, P!FirstFailure
<1> QED
  BY <1>1, <1>2, <1>4, <1>5, <1>6, <1>7 DEF ResultInv

\* No item has settled at first.
LEMMA ResultInitially == Init => ResultInv
<1> SUFFICES ASSUME Init PROVE ResultInv
  OBVIOUS
<1>1. LimitInv
  BY LimitInitially
<1>2. order = <<>> /\ first = 0 /\ call = "none" /\ item = [i \in 1 .. N |-> "new"]
      /\ kind \in {"all", "mapLimit", "race"}
  BY DEF Init, P!ParallelInit, P!Items
<1>3. SettledInOrder
  BY <1>2 DEF SettledInOrder
<1>4. first \in 0 .. N /\ order \in Seq(1 .. N)
  BY <1>2, EmptySeq, TasksAssumption
<1> QED
  BY <1>1, <1>2, <1>3, <1>4 DEF ResultInv, FirstKept

\* Every step keeps what the result is made of.
LEMMA ResultKeeps == ResultInv /\ [Next]_vars => ResultInv'
<1> SUFFICES ASSUME ResultInv, [Next]_vars PROVE ResultInv'
  OBVIOUS
<1>1. LimitInv'
  BY LimitKeeps DEF ResultInv
<1>2. CASE UNCHANGED callVars
  BY <1>1, <1>2, ResultUntouched DEF callVars, ResultParts
<1>3. CASE PoolCalls
  BY <1>1, <1>3, CallStarts
<1>4. ASSUME NEW i \in 1 .. N, ItemSettles(i) PROVE ResultInv'
  <2>1. call = "running" /\ call' = call
    BY <1>4 DEF ItemSettles, P!ItemStep, P!ItemSucceeds, P!ItemFails, P!Running, P!Items,
       ResultInv, LimitInv, CallInv
  <2> QED
    BY <1>1, <1>4, <2>1, SuccessKeepsFirst, FailureKeepsFirst DEF ItemSettles, P!ItemStep
<1>5. CASE CallReturns
  BY <1>1, <1>5, CallEnds
<1> QED
  BY <1>2, <1>3, <1>4, <1>5 DEF Next, PoolBegins, PoolReturns, PoolNeverCalls, vars

\* A value of all() or mapLimit() speaks for every item, a failure is the one
\* that came first, and race() answers with the item that settled first, for
\* any number of items and workers and whenever the signal fires
\* (src/all.ts:97-221).
THEOREM ParallelHonest == Spec => []HonestResult
<1>1. ResultInv => HonestResult
  <2> SUFFICES ASSUME ResultInv, P!Settled PROVE P!HonestResult
    BY DEF HonestResult, P!HonestResult
  <2>1. P!Running = {} /\ call # "none"
    BY DEF P!Settled, ResultInv, LimitInv, CallInv
  <2>2. \A i \in 1 .. N : item[i] \in {"new", "ok", "error"}
    BY <2>1 DEF P!Running, P!Items, ResultInv, LimitInv, CallInv
  <2>3. kind # "race" /\ call = "value" => \A i \in 1 .. N : item[i] = "ok"
    BY <2>2 DEF ResultInv, FirstKept
  <2>4. kind # "race" /\ call = "failure" => P!FirstFailure(first)
    BY DEF ResultInv, FirstKept
  <2>5. kind = "race" => order # <<>> /\ first = order[1]
    <3>1. ASSUME kind = "race" PROVE item[1] \in {"ok", "error"} /\ 1 \in 1 .. N
      BY <2>1, <2>2, <3>1, TasksAssumption DEF ResultInv
    <3>2. kind = "race" => order # <<>>
      BY <3>1, EmptySeq DEF ResultInv, SettledInOrder
    <3> QED
      BY <3>2 DEF ResultInv, FirstKept
  <2> QED
    BY <2>1, <2>3, <2>4, <2>5 DEF P!HonestResult, P!Items
<1> QED
  BY <1>1, ResultInitially, ResultKeeps, PTL DEF Spec

\* No child and no item settles twice, whatever succeeds, fails or is cut
\* (src/all.ts:63-91, 186-201).
THEOREM TasksTypeCorrect == Spec => []TypeOK
<1> DEFINE Once == \A m, n \in DOMAIN order : order[m] = order[n] => m = n
<1>1. Init => Once
  BY DEF Init, P!ParallelInit
<1>2. ResultInv /\ Once /\ [Next]_vars => Once'
  <2> SUFFICES ASSUME ResultInv, Once, [Next]_vars PROVE Once'
    OBVIOUS
  <2>1. CASE order' = order
    BY <2>1
  <2>2. ASSUME NEW i \in 1 .. N, ItemSettles(i) PROVE Once'
    <3>1. /\ item[i] = "running" /\ order' = Append(order, i)
          /\ \A j \in 1 .. N \ {i} : item'[j] \in {"ok", "error"} <=> item[j] \in {"ok", "error"}
          /\ item'[i] \in {"ok", "error"}
      BY <2>2
      DEF ItemSettles, P!ItemStep, P!ItemSucceeds, P!ItemFails, P!WorkerTakes, P!Waiting, P!Items,
          ResultInv, LimitInv, CallInv
    <3>2. /\ Len(order) \in Nat
          /\ DOMAIN order' = 1 .. Len(order) + 1 /\ DOMAIN order = 1 .. Len(order)
          /\ order'[Len(order) + 1] = i
          /\ \A n \in DOMAIN order : order'[n] = order[n] /\ order[n] # i
      BY <3>1, ItemGoesLast
    <3> QED
      BY <3>2
  <2> QED
    BY <2>1, <2>2
    DEF Next, vars, callVars, PoolBegins, PoolCalls, PoolReturns, PoolNeverCalls, CallReturns,
        P!Call, P!Return
<1>3. ResultInv /\ Once => TypeOK
  BY DEF TypeOK, P!ParallelTypeOK, P!Items, P!IsInjective, IsInjective, ResultInv, LimitInv, CallInv, GroupInv
<1> QED
  BY <1>1, <1>2, <1>3, ResultInitially, ResultKeeps, PTL DEF Spec

\* Once the signal has fired no child begins and mapLimit() starts no further
\* item, for any children and items (src/task.ts:88-92, src/all.ts:171-178).
THEOREM AbortStopsStarts == Spec => NoStartOnceAborted
<1>1. GroupInv /\ CallInv /\ [Next]_vars =>
        [groupAborted =>
           /\ \A t \in Children : child'[t] = "running" => child[t] = "running"
           /\ kind = "mapLimit" => \A i \in 1 .. N : item'[i] = "running" => item[i] = "running"]_vars
  <2> SUFFICES ASSUME GroupInv, CallInv, [Next]_vars, groupAborted
               PROVE  /\ \A t \in Children : child'[t] = "running" => child[t] = "running"
                      /\ kind = "mapLimit" =>
                           \A i \in 1 .. N : item'[i] = "running" => item[i] = "running"
    OBVIOUS
  <2>1. \A t \in Children : child'[t] = "running" => child[t] = "running"
    <3>1. [GroupNext]_groupVars
      BY UsesGroup
    <3>2. CASE Enter \/ BodyReturns \/ BodyThrows \/ ParentAborts \/ LeaveGroup
      BY <3>2 DEF Enter, BodyReturns, BodyThrows, ParentAborts, LeaveGroup
    <3>3. ASSUME NEW t \in Children,
                 Spawn(t) \/ ChildBegins(t) \/ ChildReturns(t) \/ ChildThrows(t)
          PROVE  \A u \in Children : child'[u] = "running" => child[u] = "running"
      BY <3>3 DEF Spawn, ChildBegins, MayBegin, ChildReturns, ChildThrows, GroupInv, GroupTypeOK
    <3>4. CASE UNCHANGED groupVars
      BY <3>4 DEF groupVars
    <3> QED
      BY <3>1, <3>2, <3>3, <3>4 DEF GroupNext
  <2>2. ASSUME kind = "mapLimit", NEW i \in 1 .. N, item'[i] = "running"
        PROVE  item[i] = "running"
    <3>1. P!Cut
      BY DEF P!Cut
    <3>2. CASE PoolCalls
      BY <2>2, <3>1, <3>2 DEF PoolCalls, P!Call, P!FirstItems, P!Items
    <3>3. ASSUME NEW j \in 1 .. N, ItemSettles(j) PROVE item[i] = "running"
      <4>1. CASE P!ItemSucceeds(j)
        BY <2>2, <3>1, <4>1 DEF P!ItemSucceeds, P!WorkerTakes, P!Items
      <4>2. CASE P!ItemFails(j)
        BY <2>2, <4>2 DEF P!ItemFails, CallInv
      <4> QED
        BY <3>3, <4>1, <4>2 DEF ItemSettles, P!ItemStep
    <3>4. CASE CallReturns \/ UNCHANGED callVars
      BY <2>2, <3>4 DEF CallReturns, P!Return, callVars
    <3> QED
      BY <3>2, <3>3, <3>4 DEF Next, PoolBegins, PoolReturns, PoolNeverCalls, vars
  <2> QED
    BY <2>1, <2>2
<1>2. Init => GroupInv /\ CallInv
  BY LimitInitially DEF LimitInv
<1>3. GroupInv /\ CallInv /\ [Next]_vars => GroupInv' /\ CallInv'
  BY GroupKeeps, UsesGroup, CallKeeps
<1> QED
  BY <1>1, <1>2, <1>3, PTL DEF Spec, NoStartOnceAborted
=============================================================================
