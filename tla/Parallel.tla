------------------------------ MODULE Parallel ------------------------------
(***************************************************************************)
(* The parallel combinators of src/all.ts: one call of all(), mapLimit()   *)
(* or race() over N items.  An item is a task or a mapper call; whether it *)
(* heeds its signal is its own affair.  The controller of the call aborts  *)
(* with the first failure, for race() with the first result, and with the  *)
(* parent signal.                                                          *)
(***************************************************************************)
EXTENDS Naturals, Sequences, FiniteSets, Functions

CONSTANTS
  N,          \* how many items
  Concurrency \* options.concurrency of mapLimit()

VARIABLES
  kind,          \* "all", "mapLimit" or "race"
  item,          \* where each item stands
  first,         \* the item with the first failure (race: first result), or 0
  call,          \* what the call resolved to
  order,         \* history: items in the order they settled
  parentAborted  \* options.signal

callVars == <<kind, item, first, call, order>>

Items == 1 .. N
Running == {i \in Items : item[i] = "running"}
Waiting == {i \in Items : item[i] = "new"}
Cut == first # 0 \/ parentAborted

ParallelInit ==
  /\ kind \in {"all", "mapLimit", "race"}
  /\ item = [i \in Items |-> "new"]
  /\ first = 0
  /\ call = "none"
  /\ order = <<>>

\* Erroneous variant: one worker too many.
FirstItemsAndOne ==
  IF kind # "mapLimit" THEN Items
  ELSE IF Cut THEN {} ELSE {i \in Items : i <= Concurrency + 1}

\* all() and race() start everything, even when the signal has fired;
\* mapLimit() starts as many workers as it may, and each takes an item.
FirstItems ==
  IF kind # "mapLimit" THEN Items
  ELSE IF Cut THEN {} ELSE {i \in Items : i <= Concurrency}

Call ==
  /\ call = "none"
  /\ call' = "running"
  /\ item' = [i \in Items |-> IF i \in FirstItems THEN "running" ELSE "new"]
  /\ UNCHANGED <<kind, first, order>>

\* Erroneous variant: a worker goes on although the call was cut.
WorkerTakesAlways == {i \in Waiting : \A j \in Waiting : i <= j}

\* The items a worker of mapLimit() takes when it has finished one.
WorkerTakes == IF Cut THEN {} ELSE {i \in Waiting : \A j \in Waiting : i <= j}

ItemSucceeds(i) ==
  /\ item[i] = "running"
  /\ order' = Append(order, i)
  /\ item' = [j \in Items |->
                IF j = i THEN "ok"
                ELSE IF kind = "mapLimit" /\ j \in WorkerTakes THEN "running" ELSE item[j]]
  /\ first' = IF kind = "race" /\ first = 0 THEN i ELSE first
  /\ UNCHANGED <<kind, call>>

\* Erroneous variant: a later failure replaces the first.
NoteFailureLast(i) == first' = i

NoteFailure(i) == first' = IF first = 0 THEN i ELSE first

ItemFails(i) ==
  /\ item[i] = "running"
  /\ order' = Append(order, i)
  /\ item' = [item EXCEPT ![i] = "error"]
  /\ NoteFailure(i)
  /\ UNCHANGED <<kind, call>>

\* Erroneous variant: mapLimit() with an aborted signal and no failure succeeds.
ResultUnlessFailed ==
  IF first = 0 \/ item[first] = "ok" THEN "value" ELSE "failure"

\* All running items have settled.
Result ==
  IF first # 0 THEN IF item[first] = "ok" THEN "value" ELSE "failure"
  ELSE IF parentAborted THEN "aborted" ELSE "value"

Return ==
  /\ call = "running" /\ Running = {}
  /\ call' = Result
  /\ UNCHANGED <<kind, item, first, order>>

ItemStep(i) == ItemSucceeds(i) \/ ItemFails(i)

-----------------------------------------------------------------------------
ParallelTypeOK ==
  /\ kind \in {"all", "mapLimit", "race"}
  /\ item \in [Items -> {"new", "running", "ok", "error"}]
  /\ first \in 0 .. N
  /\ call \in {"none", "running", "value", "failure", "aborted"}
  /\ order \in Seq(Items) /\ IsInjective(order) \* no item settles twice

Settled == call \in {"value", "failure", "aborted"}

\* The failure that came first.
FirstFailure(i) ==
  \E n \in DOMAIN order :
    /\ order[n] = i /\ item[i] = "error"
    /\ \A m \in 1 .. n - 1 : item[order[m]] # "error"

\* The result of a call is that of all its items: a value of all() or
\* mapLimit() means that every item was mapped, none skipped by an abort; a
\* failure is the one that came first; race() answers with the item that
\* settled first; and nothing of the call runs on once it has returned.
HonestResult == Settled =>
  /\ Running = {}
  /\ kind # "race" /\ call = "value" => \A i \in Items : item[i] = "ok"
  /\ kind # "race" /\ call = "failure" => FirstFailure(first)
  /\ kind = "race" => order # <<>> /\ first = order[1]

\* mapLimit() keeps at most Concurrency items in flight, starts them in order,
\* and leaves no item waiting while it has room, unless it was cut.
LimitKept == kind = "mapLimit" =>
  /\ Cardinality(Running) <= Concurrency
  /\ \A i, j \in Items : i < j /\ item[j] # "new" => item[i] # "new"
  /\ call = "running" /\ ~Cut => Cardinality(Running) = Concurrency \/ Waiting = {}
=============================================================================
