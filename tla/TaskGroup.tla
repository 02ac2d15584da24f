----------------------------- MODULE TaskGroup -----------------------------
(***************************************************************************)
(* The task group of src/task.ts (runTaskGroup): a body and the children   *)
(* it spawns share one abort signal; the group is left only when every     *)
(* child has settled.  A child runs in a later microtask than its spawn(). *)
(* A child that throws is caught, aborts the group and leaves the set of   *)
(* tasks in the microtasks that follow, which is one step here.            *)
(***************************************************************************)
EXTENDS Sequences

CONSTANTS
  Children, \* tasks that may be spawned
  Body,     \* the body, as an origin of errors
  Nobody

ASSUME GroupAssumption == {Body, Nobody} \cap Children = {} /\ Body # Nobody

VARIABLES
  body,
  child,
  groupAborted,  \* whether the group's signal has fired
  error,         \* #error: who failed, or Nobody while #hasError is false
  outcome,       \* what runTaskGroup() resolved to
  failures       \* history: who threw, in order

groupVars == <<body, child, groupAborted, error, outcome, failures>>

GroupInit ==
  /\ body = "new"
  /\ child = [t \in Children |-> "new"]
  /\ groupAborted \in BOOLEAN \* the upstream signal may have fired already
  /\ error = Nobody
  /\ outcome = "pending"
  /\ failures = <<>>

\* Erroneous variant: a child that throws does not leave the set.
TasksKeepFailed == {t \in Children : child[t] \in {"scheduled", "running", "threw"}}

\* #tasks
Tasks == {t \in Children : child[t] \in {"scheduled", "running"}}
Closed == body \in {"returned", "threw"}

\* Erroneous variant: the last error is kept.
FailsLast(who) ==
  /\ error' = who
  /\ groupAborted' = TRUE
  /\ failures' = Append(failures, who)

\* abort(reason) with the error of a child or of the body.
Fails(who) ==
  /\ error' = IF error = Nobody THEN who ELSE error
  /\ groupAborted' = TRUE
  /\ failures' = Append(failures, who)

\* runTaskGroup() calls the body, unless the upstream signal has fired.
Enter ==
  /\ body = "new"
  /\ \/ groupAborted /\ body' = "threw" /\ Fails(Body)
     \/ ~groupAborted /\ body' = "running" /\ UNCHANGED <<error, groupAborted, failures>>
  /\ UNCHANGED <<child, outcome>>

\* Erroneous variant: a group that has closed still takes tasks.
AcceptsAlways == ~groupAborted

Accepts == ~Closed /\ ~groupAborted

\* spawn(task), by the body, by a child or by somebody who kept the group.
Spawn(t) ==
  /\ body # "new"
  /\ child[t] = "new"
  /\ child' = [child EXCEPT ![t] = IF Accepts THEN "scheduled" ELSE "refused"]
  /\ UNCHANGED <<body, error, groupAborted, outcome, failures>>

\* Erroneous variant: a scheduled child does not look at the signal.
MayBeginAlways == TRUE

\* throwIfAborted() in the microtask that starts a child.
MayBegin == ~groupAborted

ChildBegins(t) ==
  /\ child[t] = "scheduled" /\ MayBegin
  /\ child' = [child EXCEPT ![t] = "running"]
  /\ UNCHANGED <<body, error, groupAborted, outcome, failures>>

ChildReturns(t) ==
  /\ child[t] = "running"
  /\ child' = [child EXCEPT ![t] = "done"]
  /\ UNCHANGED <<body, error, groupAborted, outcome, failures>>

ChildThrows(t) ==
  /\ child[t] = "running" \/ (child[t] = "scheduled" /\ ~MayBegin)
  /\ child' = [child EXCEPT ![t] = "threw"]
  /\ Fails(t)
  /\ UNCHANGED <<body, outcome>>

\* The body settles, and the group closes.
BodyReturns ==
  /\ body = "running"
  /\ body' = "returned"
  /\ UNCHANGED <<child, error, groupAborted, outcome, failures>>

BodyThrows ==
  /\ body = "running"
  /\ body' = "threw"
  /\ Fails(Body)
  /\ UNCHANGED <<child, outcome>>

\* The upstream signal fires; the group has listened since it was made.
ParentAborts ==
  /\ outcome = "pending" /\ ~groupAborted
  /\ groupAborted' = TRUE
  /\ UNCHANGED <<body, child, error, outcome, failures>>

\* waitForChildren() and rethrowIfFailed().
LeaveGroup ==
  /\ Closed /\ Tasks = {} /\ outcome = "pending"
  /\ outcome' = IF error = Nobody THEN "value" ELSE "error"
  /\ UNCHANGED <<body, child, error, groupAborted, failures>>

GroupNext ==
  \/ Enter \/ BodyReturns \/ BodyThrows \/ ParentAborts \/ LeaveGroup
  \/ \E t \in Children : Spawn(t) \/ ChildBegins(t) \/ ChildReturns(t) \/ ChildThrows(t)

GroupSpec == GroupInit /\ [][GroupNext]_groupVars

-----------------------------------------------------------------------------
GroupTypeOK ==
  /\ body \in {"new", "running", "returned", "threw"}
  /\ child \in [Children -> {"new", "scheduled", "running", "done", "threw", "refused"}]
  /\ groupAborted \in BOOLEAN
  /\ error \in Children \cup {Body, Nobody}
  /\ outcome \in {"pending", "value", "error"}
  /\ failures \in Seq(Children \cup {Body})

\* "The first failure aborts the group, waits for every child to settle, then
\* rethrows the original error" (src/task.ts:148-155): once the group is left
\* no child of it runs or will, and it was left with the very first failure,
\* also if the body or a sibling swallowed it, or failed because of it.
NothingOutlivesGroup == outcome # "pending" => Tasks = {}
FirstFailureRethrown ==
  IF failures = <<>> THEN error = Nobody /\ outcome # "error"
  ELSE error = Head(failures) /\ outcome # "value" /\ groupAborted
StructuredGroup == NothingOutlivesGroup /\ FirstFailureRethrown
=============================================================================
