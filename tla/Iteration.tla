----------------------------- MODULE Iteration -----------------------------
(***************************************************************************)
(* The iteration helpers of src/iterable.ts: one call of collect(),        *)
(* forEach() or mapAsyncLimit() over an asynchronous source.  The source   *)
(* yields up to N items, ends or throws; the mappers of mapAsyncLimit()    *)
(* run while it is read.  `item` says how far the work on an item is; an   *)
(* item of mapAsyncLimit() is mapped in a later microtask than it is read. *)
(***************************************************************************)
EXTENDS Naturals, FiniteSets

CONSTANTS
  N,           \* items the source has at most
  Concurrency, \* options.concurrency of mapAsyncLimit()
  Source,      \* the source, as an origin of failures
  Nothing

ASSUME IterationAssumption ==
  /\ N \in Nat \ {0} /\ Concurrency \in Nat \ {0}
  /\ {Source, Nothing} \cap (1 .. N) = {} /\ Source # Nothing

VARIABLES
  kind,    \* "collect", "forEach" or "mapAsyncLimit"
  reader,  \* what the call awaits
  source,  \* the iterator: "open", "ended", "threw" or "closed"
  item,
  failure, \* what failed first, or Nothing
  aborted, \* options.signal
  verdict, \* what the call will resolve to once it has cleaned up
  outcome  \* what it resolved to

iterationVars == <<kind, reader, source, item, failure, aborted, verdict, outcome>>

Items == 1 .. N
Mapping == kind = "mapAsyncLimit"
Unread == {i \in Items : item[i] = "unread"}
Cut == failure # Nothing \/ aborted

\* Erroneous variant: a mapper that fails is not taken out of the set.
RunningAndFailed == {i \in Items : item[i] \in {"read", "running", "error"}}

\* running
Running == {i \in Items : item[i] \in {"read", "running"}}

IterationInit ==
  /\ kind \in {"collect", "forEach", "mapAsyncLimit"}
  /\ reader = "idle" /\ source = "open"
  /\ item = [i \in Items |-> "unread"]
  /\ failure = Nothing
  /\ aborted = FALSE
  /\ verdict = "none" /\ outcome = "none"

\* The call, perhaps under a signal that has fired.
Iterate(preAborted) ==
  /\ reader = "idle"
  /\ reader' = "ready" /\ outcome' = "pending"
  /\ aborted' = preAborted
  /\ UNCHANGED <<kind, source, item, failure, verdict>>

Await(what) == reader' = what /\ UNCHANGED <<verdict, outcome>>
ReturnNow(result) == reader' = "done" /\ outcome' = result /\ UNCHANGED verdict
CloseAndReturn(result) == reader' = "closing" /\ verdict' = result /\ UNCHANGED outcome

\* Erroneous variant: reading goes on after the abort.
MayReadAborted ==
  Mapping => Cardinality(Running) < Concurrency /\ source = "open" /\ failure = Nothing

\* Whether the call asks for another item.
MayRead == Mapping => Cardinality(Running) < Concurrency /\ source = "open" /\ ~Cut

\* The head of the loops.  mapAsyncLimit() waits for a mapper when it may not
\* read, even if it is cut, and concludes when none runs or a race is over.
Looks == reader = "ready" \/ (reader = "raced" /\ ~Cut)

Read ==
  /\ Looks /\ MayRead
  /\ Await("reading")
  /\ UNCHANGED <<kind, source, item, failure, aborted>>

Race ==
  /\ Looks /\ ~MayRead /\ Running # {}
  /\ Await("racing")
  /\ UNCHANGED <<kind, source, item, failure, aborted>>

Conclude ==
  /\ (Looks /\ ~MayRead /\ Running = {}) \/ (reader = "raced" /\ Cut)
  /\ \/ failure # Nothing /\ CloseAndReturn("failure")
     \/ failure = Nothing /\ aborted /\ CloseAndReturn("aborted")
     \/ ~Cut /\ ReturnNow("value")
  /\ UNCHANGED <<kind, source, item, failure, aborted>>

\* iterator.next() resolves with an item.
Yield(i) ==
  /\ reader = "reading" /\ i \in Unread /\ \A j \in Unread : i <= j
  /\ \/ /\ Mapping
        /\ item' = [item EXCEPT ![i] = "read"] /\ Await("ready")
     \/ /\ ~Mapping /\ aborted
        /\ CloseAndReturn("aborted") /\ UNCHANGED item
     \/ /\ kind = "collect" /\ ~aborted
        /\ item' = [item EXCEPT ![i] = "ok"] /\ Await("ready")
     \/ /\ kind = "forEach" /\ ~aborted
        /\ item' = [item EXCEPT ![i] = "running"] /\ Await("working")
  /\ UNCHANGED <<kind, source, failure, aborted>>

\* It resolves with the end.
End ==
  /\ reader = "reading"
  /\ source' = "ended"
  /\ \/ Mapping /\ Await("ready")
     \/ ~Mapping /\ ReturnNow(IF aborted THEN "aborted" ELSE "value")
  /\ UNCHANGED <<kind, item, failure, aborted>>

NoteFailure(what) == failure' = IF failure = Nothing THEN what ELSE failure

\* It rejects.  forEach() has no catch around its loop.
Throw ==
  /\ reader = "reading"
  /\ source' = "threw"
  /\ NoteFailure(Source)
  /\ \/ Mapping /\ Await("ready")
     \/ kind = "collect" /\ ReturnNow("failure")
     \/ kind = "forEach" /\ ReturnNow("rejected")
  /\ UNCHANGED <<kind, item, aborted>>

\* The microtask that calls a mapper does not look at the signal.
MapperBegins(i) ==
  /\ item[i] = "read"
  /\ item' = [item EXCEPT ![i] = "running"]
  /\ UNCHANGED <<kind, reader, source, failure, aborted, verdict, outcome>>

\* A mapper that settles ends the race, if there is one.
MapperSettles(i) ==
  /\ Mapping /\ item[i] = "running"
  /\ Await(IF reader = "racing" THEN "raced" ELSE reader)
  /\ \/ item' = [item EXCEPT ![i] = "ok"] /\ UNCHANGED failure
     \/ item' = [item EXCEPT ![i] = "error"] /\ NoteFailure(i)
  /\ UNCHANGED <<kind, source, aborted>>

\* The worker of forEach() settles.
WorkerSettles(i) ==
  /\ reader = "working" /\ item[i] = "running"
  /\ \/ item' = [item EXCEPT ![i] = "ok"] /\ Await("ready") /\ UNCHANGED failure
     \/ item' = [item EXCEPT ![i] = "error"] /\ NoteFailure(i) /\ CloseAndReturn("failure")
  /\ UNCHANGED <<kind, source, aborted>>

\* iterator.return() resolves; it does so at once for a source that is over.
CloseResolves ==
  /\ reader = "closing"
  /\ source' = IF source = "open" THEN "closed" ELSE source
  /\ IF Mapping THEN Await("settling") ELSE ReturnNow(verdict)
  /\ UNCHANGED <<kind, item, failure, aborted>>

\* It rejects, which a source can do that was read from and is not over.
CloseThrows ==
  /\ reader = "closing" /\ source = "open" /\ 1 \notin Unread
  /\ source' = "closed"
  /\ ReturnNow(IF kind = "collect" THEN "failure" ELSE "rejected")
  /\ UNCHANGED <<kind, item, failure, aborted>>

\* Erroneous variant: the call returns with its mappers running.
SettleAtOnce ==
  /\ reader = "settling"
  /\ ReturnNow(verdict)
  /\ UNCHANGED <<kind, source, item, failure, aborted>>

\* Promise.allSettled(running)
Settle ==
  /\ reader = "settling" /\ Running = {}
  /\ ReturnNow(verdict)
  /\ UNCHANGED <<kind, source, item, failure, aborted>>

\* The abort listener, which the call removes when it ends.
IterationAbort ==
  \/ /\ outcome = "pending"
     /\ aborted' = TRUE
     /\ UNCHANGED <<kind, reader, source, item, failure, verdict, outcome>>
  \/ outcome # "pending" /\ UNCHANGED iterationVars

\* The source, the mappers and the workers answer, and the call goes on.
IterationStep ==
  \/ Read \/ Race \/ Conclude \/ End \/ Throw
  \/ \E i \in Items : Yield(i) \/ MapperBegins(i) \/ MapperSettles(i) \/ WorkerSettles(i)
  \/ CloseResolves \/ CloseThrows \/ Settle

-----------------------------------------------------------------------------
IterationTypeOK ==
  /\ kind \in {"collect", "forEach", "mapAsyncLimit"}
  /\ reader \in {"idle", "ready", "reading", "working", "racing", "raced", "closing",
                 "settling", "done"}
  /\ source \in {"open", "ended", "threw", "closed"}
  /\ item \in [Items -> {"unread", "read", "running", "ok", "error"}]
  /\ failure \in Items \cup {Source, Nothing}
  /\ aborted \in BOOLEAN
  /\ verdict \in {"none", "failure", "aborted"}
  /\ outcome \in {"none", "pending", "value", "failure", "aborted", "rejected"}
  /\ Cardinality(Running) <= IF Mapping THEN Concurrency ELSE 1

Ended == outcome \notin {"none", "pending"}
MayReject ==
  \/ kind = "forEach" /\ source = "threw"
  \/ kind # "collect" /\ source = "closed" /\ Cut

\* A call that ends leaves its source closed or over, whichever of the source,
\* the mappers and the signal was first, and no mapper runs or will.  A value
\* stands for a source that was read to its end with every item mapped
\* (src/iterable.ts:256-294).  collect() never rejects, forEach() only for a
\* source that threw, and both it and mapAsyncLimit() for one they had to close
\* early and whose return() rejects; only then, told by their signal, may
\* mappers go on.
NothingLeftBehind == Ended =>
  /\ source # "open"
  /\ outcome = "rejected" => MayReject
  /\ Running # {} => Mapping /\ outcome = "rejected"
  /\ outcome = "value" => source = "ended" /\ \A i \in Items : item[i] \in {"ok", "unread"}
  /\ outcome = "failure" /\ source = "ended" => failure # Nothing

\* "Iterator throws are captured as tuple errors."
\* (docs/content/docs/reference/iterable.mdx:96)  The code refutes it, by a
\* forEach() whose source throws (DeadlineThrows.cfg).
ThrowsAreTuples == outcome # "rejected"

\* Once it is cut, mapAsyncLimit() asks for no further item, though the one it
\* has asked for is still mapped; the others start no further work.
NoWorkOnceCut ==
  [][Cut =>
       /\ Mapping /\ reader' = "reading" => reader = "reading"
       /\ ~Mapping => \A i \in Items : item'[i] \in {"running", "ok"} => item[i] # "unread"]_iterationVars
=============================================================================
