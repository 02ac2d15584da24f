------------------------------ MODULE Deadline ------------------------------
(***************************************************************************)
(* Work under a deadline.  A caller that may abort runs                    *)
(*                                                                         *)
(*   withTimeout(async (signal) => {                                       *)
(*     await using resource = await acquireResource(acquire, release);     *)
(*     return await work(signal);                                          *)
(*   }, { timeoutMs, signal: caller })                                     *)
(*                                                                         *)
(* where the work is a command, a wait for an event, a fetch, or an        *)
(* iteration.  Acquiring takes no signal, so the work may begin under one  *)
(* that has fired.                                                         *)
(***************************************************************************)
EXTENDS TimeoutSignal, Resource, Command, OnceEvent, Iteration

VARIABLES
  work,    \* "command", "event", "fetch" or "iteration"
  stage,   \* of withTimeout(): "idle", "acquiring", "working", "leaving" or "done"
  request  \* of fetchSafe(): "none", "pending", "response", "status" or "failed"

workVars == <<commandVars, eventVars, iterationVars, request>>
vars == <<timeoutVars, resourceVars, workVars, work, stage>>

Init ==
  /\ TimeoutInit /\ ResourceInit /\ CommandInit /\ EventInit /\ IterationInit
  /\ work \in {"command", "event", "fetch", "iteration"}
  /\ (work # "iteration" => kind = "collect") /\ (work # "event" => removable)
  /\ stage = "idle" /\ request = "none"

-----------------------------------------------------------------------------
(* fetchSafe() of src/fetch.ts *)

\* With options.timeoutMs a signal below the given one is made, else not.
Fetch ==
  /\ request = "none" /\ request' = "pending"
  /\ CreateTimeoutSignal(Inner) \/ UNCHANGED timeoutVars

FetchSignalFired == IF signal[Inner] = "none" THEN Aborted(Outer) ELSE Aborted(Inner)

\* The finally of fetchSafe() disposes of its timeout.
FetchEnds(result) ==
  /\ request = "pending" /\ request' = result
  /\ Dispose(Inner)

\* fetch() resolves with a response or an HTTP error status, or rejects.
FetchSettles ==
  /\ \E result \in {"response", "status", "failed"} : FetchEnds(result)
  /\ UNCHANGED <<commandVars, eventVars, iterationVars>>

-----------------------------------------------------------------------------
(* withTimeout() and its operation *)

\* A caller whose signal has fired is thrown its reason before the operation.
Begin ==
  /\ stage = "idle"
  /\ CreateTimeoutSignal(Outer)
  /\ \/ callerAborted /\ stage' = "done" /\ UNCHANGED resourceVars
     \/ ~callerAborted /\ stage' = "acquiring" /\ Acquire
  /\ UNCHANGED <<workVars, work>>

Start ==
  \/ /\ work = "command" /\ RunCommand(Aborted(Outer))
     /\ UNCHANGED <<eventVars, iterationVars, request, timeoutVars>>
  \/ /\ work = "event" /\ OnceEvent(Aborted(Outer))
     /\ UNCHANGED <<commandVars, iterationVars, request, timeoutVars>>
  \/ /\ work = "fetch" /\ Fetch
     /\ UNCHANGED <<commandVars, eventVars, iterationVars>>
  \/ /\ work = "iteration" /\ Iterate(Aborted(Outer))
     /\ UNCHANGED <<commandVars, eventVars, request, timeoutVars>>

Acquired == stage = "acquiring" /\ AcquireSucceeds /\ stage' = "working" /\ Start /\ UNCHANGED work

\* The operation settles, and withTimeout() with it.
Leave == stage' = "done" /\ Dispose(Outer)

NotAcquired == stage = "acquiring" /\ AcquireFails /\ Leave /\ UNCHANGED <<workVars, work>>

WorkEnded ==
  \/ commandOutcome \notin {"none", "pending"} \/ eventOutcome \notin {"none", "pending"}
  \/ outcome \notin {"none", "pending"} \/ request \notin {"none", "pending"}

\* The work disposes of the resource before the scope ends, without waiting.
DisposesEarly ==
  /\ stage = "working" /\ resource = "held" /\ DisposeResource
  /\ UNCHANGED <<timeoutVars, workVars, work, stage>>

\* The scope ends, and waits for the release if it calls it.
ScopeEnds ==
  /\ stage = "working" /\ WorkEnded
  /\ DisposeResource
  /\ \/ resource = "held" /\ stage' = "leaving" /\ UNCHANGED timeoutVars
     \/ resource # "held" /\ Leave
  /\ UNCHANGED <<workVars, work>>

Released ==
  /\ ReleaseSettles
  /\ \/ stage = "leaving" /\ Leave
     \/ stage # "leaving" /\ UNCHANGED <<stage, timeoutVars>>
  /\ UNCHANGED <<workVars, work>>

\* What firing the signal of withTimeout() does to the work that listens.
WorkHears == CommandAbort /\ EventAbort /\ IterationAbort /\ UNCHANGED request

TimeoutOrAbort ==
  \/ /\ TimeoutFires(Outer) \/ (CallerAborts /\ Outer \in linked)
     /\ WorkHears
  \/ /\ TimeoutFires(Inner) \/ (CallerAborts /\ Outer \notin linked)
     /\ UNCHANGED workVars

EventSourceStep == EventArrives \/ ErrorArrives

WorkStep ==
  \/ CommandStep /\ UNCHANGED <<timeoutVars, eventVars, iterationVars, request>>
  \/ EventSourceStep /\ UNCHANGED <<timeoutVars, commandVars, iterationVars, request>>
  \/ IterationStep /\ UNCHANGED <<timeoutVars, commandVars, eventVars, request>>
  \/ FetchSettles

Next ==
  \/ Begin \/ Acquired \/ NotAcquired \/ DisposesEarly \/ ScopeEnds \/ Released
  \/ (WorkStep \/ TimeoutOrAbort) /\ UNCHANGED <<resourceVars, work, stage>>

Spec == Init /\ [][Next]_vars

\* What is sure to happen: resources are acquired and released, scopes end,
\* timers fire, a child exits once it has been killed and its pipes close then,
\* fetch() heeds its signal, and what is iterated over answers.
Ending ==
  \/ Begin \/ Acquired \/ NotAcquired \/ ScopeEnds \/ Released
  \/ /\ UNCHANGED <<resourceVars, work, stage>>
     /\ \/ TimeoutFires(Outer) /\ WorkHears
        \/ /\ (controller /\ ChildExits) \/ ChildCloses
           /\ UNCHANGED <<timeoutVars, eventVars, iterationVars, request>>
        \/ FetchSignalFired /\ FetchSettles
        \/ IterationStep /\ UNCHANGED <<timeoutVars, commandVars, eventVars, request>>

FairSpec == Spec /\ WF_vars(Ending)

-----------------------------------------------------------------------------
TypeOK ==
  /\ TimeoutTypeOK /\ ResourceTypeOK /\ CommandTypeOK /\ EventTypeOK /\ IterationTypeOK
  /\ work \in {"command", "event", "fetch", "iteration"}
  /\ stage \in {"idle", "acquiring", "working", "leaving", "done"}
  /\ request \in {"none", "pending", "response", "status", "failed"}

\* Each layer cleans up after itself, whatever ended it and whatever the layer
\* above still does: the command leaves no timer, listener or process, the
\* wait no listener, unless its source cannot take it off, fetchSafe() and withTimeout() no timer and no listener
\* (src/signal.ts:79-88, src/event.ts:82-133, src/fetch.ts:110-112), and the
\* resource is released once, and by the end whoever asked for it.
EachLayerCleansUp ==
  /\ CommandLeavesNothing
  /\ eventOutcome # "pending" => "abort" \notin listeners
  /\ eventOutcome # "pending" /\ removable => listeners = {}
  /\ request # "pending" => Inner \notin timer \cup linked
  /\ stage = "done" => timer = {} /\ linked = {}
  /\ releases <= 1
  /\ stage = "done" => resource \notin {"acquiring", "held"}

\* A call under a deadline ends, though events need not come, children need
\* not exit by themselves and fetches need not answer.
CallEnds == stage = "acquiring" ~> stage = "done"
=============================================================================
