------------------------------- MODULE Tasks -------------------------------
(***************************************************************************)
(* A task group one of whose children awaits a parallel call under the     *)
(* signal of the group, for instance a bounded mapLimit() over files.  The *)
(* child passes the result of the call on, as a value or as an error.      *)
(***************************************************************************)
EXTENDS TaskGroup, Naturals

CONSTANTS
  Pool,        \* the child that makes the parallel call
  N,
  Concurrency

ASSUME TasksAssumption ==
  /\ Pool \in Children
  /\ N \in Nat \ {0} /\ Concurrency \in Nat \ {0}

VARIABLES kind, item, first, call, order

P == INSTANCE Parallel WITH parentAborted <- groupAborted

callVars == <<kind, item, first, call, order>>
vars == <<groupVars, callVars>>

Init == GroupInit /\ P!ParallelInit

\* Steps of the group that are not about the child Pool.
GroupOnly ==
  \/ Enter \/ BodyReturns \/ BodyThrows \/ ParentAborts \/ LeaveGroup
  \/ \E t \in Children : Spawn(t)
  \/ \E t \in Children \ {Pool} : ChildBegins(t) \/ ChildReturns(t) \/ ChildThrows(t)

PoolBegins == ChildBegins(Pool) /\ UNCHANGED callVars
\* By the time the child calls, the signal may have fired.
PoolCalls == child[Pool] = "running" /\ P!Call /\ UNCHANGED groupVars
PoolReturns ==
  /\ P!Settled
  /\ ChildReturns(Pool) \/ (call # "value" /\ ChildThrows(Pool))
  /\ UNCHANGED callVars
PoolNeverCalls == call = "none" /\ ChildThrows(Pool) /\ UNCHANGED callVars

ItemSettles(i) == P!ItemStep(i) /\ UNCHANGED groupVars
CallReturns == P!Return /\ UNCHANGED groupVars

Next ==
  \/ GroupOnly /\ UNCHANGED callVars
  \/ PoolBegins \/ PoolCalls \/ PoolReturns \/ PoolNeverCalls
  \/ \E i \in 1 .. N : ItemSettles(i)
  \/ CallReturns

Spec == Init /\ [][Next]_vars

\* The body, the children and the items settle, and the microtasks they
\* schedule run; nobody has to spawn or to abort.
Progress ==
  \/ (Enter \/ BodyReturns \/ BodyThrows \/ LeaveGroup
       \/ \E t \in Children \ {Pool} : ChildBegins(t) \/ ChildReturns(t) \/ ChildThrows(t))
     /\ UNCHANGED callVars
  \/ PoolBegins \/ PoolCalls \/ PoolReturns \/ PoolNeverCalls
  \/ \E i \in 1 .. N : ItemSettles(i)
  \/ CallReturns

FairSpec == Spec /\ WF_vars(Progress)

-----------------------------------------------------------------------------
TypeOK == GroupTypeOK /\ P!ParallelTypeOK

HonestResult == P!HonestResult
LimitKept == P!LimitKept

\* Cancellation and waiting reach through both layers: once the group is left,
\* no item of the call runs; and once the signal has fired, no child begins
\* and mapLimit() starts no further item.
StructuredTree == StructuredGroup /\ (outcome # "pending" => P!Running = {})
NoStartOnceAborted ==
  [][groupAborted =>
       /\ \A t \in Children : child'[t] = "running" => child[t] = "running"
       /\ kind = "mapLimit" => \A i \in 1 .. N : item'[i] = "running" => item[i] = "running"]_vars

\* The group is always left.
GroupEnds == <>(outcome # "pending")
=============================================================================
