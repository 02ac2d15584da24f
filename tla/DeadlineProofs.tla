--------------------------- MODULE DeadlineProofs ---------------------------
(***************************************************************************)
(* Proofs about work under a deadline, for any limit on the output, any    *)
(* chunks of it, any number of items and any concurrency: the outcome of a *)
(* command is true, an iteration leaves nothing behind, and each layer     *)
(* cleans up after itself.                                                 *)
(***************************************************************************)
EXTENDS Deadline, FiniteSetTheorems, TLAPS

-----------------------------------------------------------------------------
\* What holds of a command in between, which its outcome is made of.  The
\* reason it was given up for is what the controller was aborted for.
CausesKnown ==
  /\ child \in {"none", "failed", "running", "exited", "closed"}
  /\ commandOutcome = "none" =>
       /\ child = "none" /\ firstCause = "none" /\ abortReason = "null" /\ pendingError = "null"
       /\ ~commandTimer /\ ~commandLinked
  /\ commandOutcome = "pending" => child \in {"failed", "running", "exited"}
  /\ CommandLeavesNothing
  /\ controller <=> firstCause # "none"
  /\ abortReason = "timeout" <=> firstCause = "timeout"
  /\ abortReason \in {"null", "timeout", "output-limit"} /\ (abortReason # "null" => controller)
  /\ pendingError \in {"null", "spawn", "callback", "abort"}
  /\ pendingError = "abort" /\ abortReason = "null" => firstCause = "signal"
  /\ commandOutcome = "abort" => firstCause = "signal"
  /\ commandOutcome = "timeout" <=>
       firstCause = "timeout" /\ commandOutcome \notin {"none", "pending"}

\* The output is counted until the limit is passed or a callback throws.
OutputKnown ==
  /\ totalOutputBytes \in Nat /\ produced \in Nat
  /\ totalOutputBytes <= produced /\ totalOutputBytes <= MaxOutputBytes
  /\ commandOutcome = "none" => totalOutputBytes = 0 /\ produced = 0
  /\ abortReason = "output-limit" => produced > MaxOutputBytes /\ totalOutputBytes = MaxOutputBytes
  /\ abortReason = "null" /\ pendingError # "callback" => totalOutputBytes = produced
  /\ commandOutcome = "output-limit" => abortReason = "output-limit"
  /\ commandOutcome = "value" =>
       exitCode = "zero" /\ abortReason = "null" /\ pendingError # "callback"

\* The inductive invariant of a command.
CommandInv == CausesKnown /\ OutputKnown

\* The steps of a command, as the work of the composition takes them.
CommandNext == (\E preAborted \in BOOLEAN : RunCommand(preAborted)) \/ CommandAbort \/ CommandStep

\* The bounds are positive.
LEMMA OutputBounds ==
  /\ MaxOutputBytes \in Nat /\ MaxOutputBytes > 0 /\ MaxProduced \in Nat
  /\ \A n \in ChunkSizes : n \in Nat /\ n > 0
BY CommandAssumption

\* Nothing has been called.
LEMMA CommandInitially == CommandInit => CommandInv
<1>1. CommandInit => CausesKnown
  BY DEF CommandInit, CausesKnown, CommandLeavesNothing
<1>2. CommandInit => OutputKnown
  BY OutputBounds DEF CommandInit, OutputKnown
<1> QED
  BY <1>1, <1>2 DEF CommandInv

\* The call.
LEMMA RunCommandKeeps ==
  ASSUME CommandInv, NEW preAborted \in BOOLEAN, RunCommand(preAborted)
  PROVE  CommandInv'
<1>1. CausesKnown'
  <2> USE DEF CommandInv, CausesKnown, CommandLeavesNothing, RunCommand, AbortChild, Kill, linkVars
  <2>1. CASE preAborted
    BY <2>1
  <2>2. CASE ~preAborted
    BY <2>2
  <2> QED
    BY <2>1, <2>2
<1>2. UNCHANGED <<abortReason, totalOutputBytes, produced>> /\ abortReason = "null"
  BY DEF RunCommand, outputVars, CommandInv, CausesKnown
<1>3. totalOutputBytes = 0 /\ produced = 0 /\ commandOutcome' \in {"pending", "spawn"}
  BY DEF RunCommand, CommandInv, OutputKnown
<1>4. OutputKnown'
  BY <1>2, <1>3, OutputBounds DEF OutputKnown
<1> QED
  BY <1>1, <1>4 DEF CommandInv

\* Whatever stops the child, a callback that threw is not forgotten.
LEMMA CallbackRemembered ==
  ASSUME NEW cause, NEW error, AbortChild(cause, error), error = "callback"
  PROVE  pendingError' = "callback"
BY DEF AbortChild, Kill

\* A step that leaves the output alone.
LEMMA OutputUntouched ==
  ASSUME OutputKnown, UNCHANGED <<outputVars, exitCode, commandOutcome>>,
         abortReason' # abortReason => abortReason' = "timeout",
         commandOutcome = "value" => UNCHANGED <<abortReason, pendingError>>,
         commandOutcome = "output-limit" => abortReason' = abortReason,
         pendingError = "callback" => pendingError' = "callback"
  PROVE  OutputKnown'
BY DEF OutputKnown, outputVars

\* The timer fires, or the signal.
LEMMA CommandStops ==
  ASSUME CommandInv, CommandTimeout \/ CommandAbort
  PROVE  CommandInv'
<1> USE DEF CommandInv
<1>1. CASE CommandTimeout
  <2>1. CausesKnown'
    BY <1>1 DEF CommandTimeout, CausesKnown, CommandLeavesNothing, AbortChild, Kill
  <2>2. /\ UNCHANGED <<outputVars, exitCode, commandOutcome>> /\ commandOutcome \in {"none", "pending"}
        /\ abortReason' # abortReason => abortReason' = "timeout"
    BY <1>1 DEF CommandTimeout, CausesKnown, CommandLeavesNothing
  <2>3. pendingError = "callback" => pendingError' = "callback"
    BY <1>1, CallbackRemembered DEF CommandTimeout
  <2> QED
    BY <2>1, <2>2, <2>3, OutputUntouched
<1>2. CASE CommandAbort /\ commandLinked
  <2>1. CausesKnown'
    BY <1>2 DEF CommandAbort, CausesKnown, CommandLeavesNothing, AbortChild, Kill, commandVars
  <2>2. /\ UNCHANGED <<outputVars, exitCode, commandOutcome, abortReason>>
        /\ commandOutcome \in {"none", "pending"}
    BY <1>2 DEF CommandAbort, CausesKnown, CommandLeavesNothing
  <2>3. pendingError = "callback" => pendingError' = "callback"
    BY <1>2, CallbackRemembered DEF CommandAbort
  <2> QED
    BY <2>1, <2>2, <2>3, OutputUntouched
<1>3. CASE UNCHANGED commandVars
  BY <1>3 DEF commandVars, CausesKnown, OutputKnown, CommandLeavesNothing
<1> QED
  BY <1>1, <1>2, <1>3 DEF CommandAbort

\* A chunk of output.
LEMMA OutputCounted ==
  ASSUME CommandInv, NEW n \in ChunkSizes, Output(n)
  PROVE  CommandInv'
<1> USE DEF CommandInv
<1>1. /\ UNCHANGED <<child, exitCode, commandTimer, commandLinked, commandOutcome>>
      /\ produced' = produced + n /\ commandOutcome = "pending"
  BY DEF Output, linkVars, CausesKnown, CommandLeavesNothing
<1>2. CASE AppendOutput(n)
  <2>1. CausesKnown'
    BY <1>1, <1>2 DEF AppendOutput, AbortChild, Kill, CausesKnown, CommandLeavesNothing
  <2>2. /\ pendingError' = "callback" <=> pendingError = "callback"
        /\ totalOutputBytes' = Kept(n)
        /\ \/ (totalOutputBytes + n <= MaxOutputBytes \/ abortReason # "null") /\ abortReason' = abortReason
           \/ /\ totalOutputBytes + n > MaxOutputBytes /\ abortReason = "null"
              /\ abortReason' = "output-limit"
    BY <1>2 DEF AppendOutput, AbortChild, Kill
  <2>3. OutputKnown'
    BY <1>1, <2>2, OutputBounds DEF OutputKnown, Kept
  <2> QED
    BY <2>1, <2>3
<1>3. CASE CallbackThrows
  <2>1. CausesKnown'
    BY <1>1, <1>3 DEF CallbackThrows, AbortChild, Kill, CausesKnown, CommandLeavesNothing
  <2>2. pendingError' = "callback" /\ UNCHANGED <<abortReason, totalOutputBytes>>
    BY <1>3 DEF CallbackThrows, AbortChild, Kill
  <2>3. OutputKnown'
    BY <1>1, <2>2, OutputBounds DEF OutputKnown
  <2> QED
    BY <2>1, <2>3
<1> QED
  BY <1>2, <1>3 DEF Output

\* The child exits, or its pipes close.
LEMMA ChildEnds ==
  ASSUME CommandInv, ChildExits \/ ChildCloses
  PROVE  CommandInv'
<1> USE DEF CommandInv
<1>1. CASE ChildExits
  <2>1. CausesKnown'
    BY <1>1 DEF ChildExits, CausesKnown, CommandLeavesNothing, linkVars
  <2>2. /\ abortReason' = abortReason /\ pendingError' = pendingError
        /\ totalOutputBytes' = totalOutputBytes /\ produced' = produced
        /\ commandOutcome' = commandOutcome
    BY <1>1 DEF ChildExits, outputVars
  <2>3. commandOutcome # "value"
    BY <1>1 DEF ChildExits, CausesKnown, CommandLeavesNothing
  <2>4. OutputKnown'
    BY <2>2, <2>3 DEF OutputKnown
  <2> QED
    BY <2>1, <2>4
<1>2. CASE ChildCloses
  <2>1. CausesKnown'
    BY <1>2 DEF ChildCloses, Closed, Cleanup, CausesKnown, CommandLeavesNothing
  <2>2. /\ UNCHANGED <<abortReason, pendingError, totalOutputBytes, produced, exitCode>>
        /\ commandOutcome' = "output-limit" => abortReason = "output-limit"
        /\ commandOutcome' = "value" =>
             exitCode = "zero" /\ abortReason = "null" /\ pendingError # "callback"
        /\ commandOutcome' # "none"
    BY <1>2 DEF ChildCloses, Closed, outputVars, CausesKnown
  <2>3. OutputKnown'
    BY <2>2 DEF OutputKnown
  <2> QED
    BY <2>1, <2>3
<1> QED
  BY <1>1, <1>2

\* The invariant of the command is inductive.
LEMMA CommandKeeps == CommandInv /\ [CommandNext]_commandVars => CommandInv'
<1> SUFFICES ASSUME CommandInv, [CommandNext]_commandVars PROVE CommandInv'
  OBVIOUS
<1>1. CASE UNCHANGED commandVars
  BY <1>1 DEF commandVars, CommandInv, CausesKnown, OutputKnown, CommandLeavesNothing
<1> QED
  BY <1>1, RunCommandKeeps, CommandStops, OutputCounted, ChildEnds DEF CommandNext, CommandStep

\* It says what the outcome tells.
LEMMA CommandTells == CommandInv => HonestOutcome /\ CommandLeavesNothing
BY DEF CommandInv, CausesKnown, OutputKnown, HonestOutcome

-----------------------------------------------------------------------------
\* How far an iteration has come.
IterationShape ==
  /\ kind \in {"collect", "forEach", "mapAsyncLimit"}
  /\ reader \in {"idle", "ready", "reading", "working", "racing", "raced", "closing",
                 "settling", "done"}
  /\ source \in {"open", "ended", "threw", "closed"}
  /\ item \in [Items -> {"unread", "read", "running", "ok", "error"}]
  /\ failure \in Items \cup {Source, Nothing}
  /\ verdict \in {"none", "failure", "aborted"}
  /\ outcome \in {"none", "pending", "value", "failure", "aborted", "rejected"}
  /\ reader = "idle" <=> outcome = "none"
  /\ reader = "done" <=> outcome \notin {"none", "pending"}
  /\ reader = "idle" => source = "open" /\ failure = Nothing /\ Running = {}
  /\ reader \in {"closing", "settling"} => verdict # "none"

\* collect() and forEach() do one thing at a time.
OneAtATime == ~Mapping =>
  /\ reader \notin {"racing", "raced", "settling"}
  /\ reader # "working" => Running = {}
  /\ \A i, j \in Running : i = j
  /\ failure # Nothing => reader \in {"closing", "done"}
  /\ \A i \in Items : item[i] # "read"

\* What failed is noted.
FailuresNoted ==
  /\ source = "threw" => failure # Nothing
  /\ \A i \in Items : item[i] = "error" => failure # Nothing
  /\ verdict = "failure" => failure # Nothing
  /\ reader = "closing" => Cut

\* The source is closed, or over, by the time the call waits for its mappers.
SourceClosed ==
  /\ reader \in {"settling", "done"} => source # "open"
  /\ source = "closed" => reader \in {"settling", "done"}

\* The mappers of mapAsyncLimit(), and the one it may read an item for, are at
\* most Concurrency.
RoomKept ==
  /\ Cardinality(Running) <= IF Mapping THEN Concurrency ELSE 1
  /\ Mapping /\ reader = "reading" => Cardinality(Running) < Concurrency

\* The inductive invariant of an iteration.
IterationInv ==
  /\ IterationShape /\ OneAtATime /\ FailuresNoted /\ SourceClosed /\ RoomKept
  /\ NothingLeftBehind

\* The steps of an iteration.
IterationNext == (\E preAborted : Iterate(preAborted)) \/ IterationAbort \/ IterationStep

\* The items that are worked on are finitely many.
LEMMA FinitelyManyRun == IsFiniteSet(Running) /\ Cardinality(Running) \in Nat
<1>1. IsFiniteSet(1 .. N) /\ Running \subseteq 1 .. N
  BY FS_Interval, IterationAssumption DEF Running, Items
<1> QED
  BY <1>1, FS_Subset, FS_CardinalityType

\* A step that takes nothing up keeps the limit.
LEMMA RoomStill ==
  ASSUME RoomKept, Running' \subseteq Running, kind' = kind,
         Mapping /\ reader' = "reading" => reader = "reading"
  PROVE  RoomKept'
<1>1. Cardinality(Running') \in Nat /\ Cardinality(Running') <= Cardinality(Running)
  BY FinitelyManyRun, FS_Subset, FS_CardinalityType
<1>2. Concurrency \in Nat
  BY IterationAssumption
<1> QED
  BY <1>1, <1>2, FinitelyManyRun DEF RoomKept, Mapping

\* Nothing has been read.
LEMMA IterationInitially == IterationInit => IterationInv
<1> SUFFICES ASSUME IterationInit PROVE IterationInv
  OBVIOUS
<1>1. Running = {}
  BY DEF IterationInit, Running
<1>2. RoomKept
  BY <1>1, FS_EmptySet, IterationAssumption DEF RoomKept, IterationInit
<1>3. IterationShape /\ OneAtATime /\ FailuresNoted /\ SourceClosed /\ NothingLeftBehind
  BY <1>1, IterationAssumption
  DEF IterationInit, IterationShape, OneAtATime, FailuresNoted, SourceClosed, NothingLeftBehind, Ended, MayReject, Cut
<1> QED
  BY <1>2, <1>3 DEF IterationInv

\* What an iteration is made of, when no step adds to what it has taken up.
LEMMA HeadKeeps ==
  ASSUME IterationInv, Race \/ Conclude \/ Read
  PROVE  IterationInv'
<1>1. /\ Running' = Running /\ kind' = kind
      /\ UNCHANGED <<item, source, failure, aborted>>
  BY DEF Race, Conclude, Read, Running
<1>2. RoomKept'
  <2>1. CASE Race \/ Conclude
    BY <1>1, <2>1, RoomStill DEF Race, Conclude, Await, ReturnNow, CloseAndReturn, IterationInv
  <2>2. CASE Read
    BY <1>1, <2>2 DEF Read, MayRead, Mapping, RoomKept, IterationInv
  <2> QED
    BY <2>1, <2>2
<1>3. Mapping \/ MayRead
  BY DEF MayRead
<1>4. Cardinality({}) < Concurrency
  BY FS_EmptySet, IterationAssumption
<1>5. CASE Read
  BY <1>1, <1>2, <1>5
  DEF Read, Looks, Await, IterationInv, IterationShape, OneAtATime, FailuresNoted, SourceClosed,
      NothingLeftBehind, Ended, MayReject, Cut, Mapping
<1>6. CASE Race
  BY <1>1, <1>2, <1>3, <1>6
  DEF Race, Looks, Await, IterationInv, IterationShape, OneAtATime, FailuresNoted, SourceClosed,
      NothingLeftBehind, Ended, MayReject, Cut, Mapping
<1>7. CASE Conclude
  <2>1. Mapping /\ reader \in {"ready", "raced"}
    BY <1>3, <1>7 DEF Conclude, Looks, IterationInv, OneAtATime
  <2>2. ASSUME CloseAndReturn("failure"), failure # Nothing PROVE IterationInv'
    BY <1>1, <1>2, <2>1, <2>2
    DEF CloseAndReturn, IterationInv, IterationShape, OneAtATime, FailuresNoted, SourceClosed,
        NothingLeftBehind, Ended, MayReject, Cut, Mapping
  <2>3. ASSUME CloseAndReturn("aborted"), aborted PROVE IterationInv'
    BY <1>1, <1>2, <2>1, <2>3
    DEF CloseAndReturn, IterationInv, IterationShape, OneAtATime, FailuresNoted, SourceClosed,
        NothingLeftBehind, Ended, MayReject, Cut, Mapping
  <2>4. ASSUME ReturnNow("value"), ~Cut PROVE IterationInv'
    <3>1. Running = {} /\ ~MayRead /\ failure = Nothing
      BY <1>7, <2>4 DEF Conclude, Cut
    <3>2. source = "ended"
      BY <1>4, <2>1, <2>4, <3>1
      DEF MayRead, IterationInv, IterationShape, FailuresNoted, SourceClosed
    <3>3. \A i \in Items : item[i] \in {"ok", "unread"}
      BY <3>1 DEF Running, IterationInv, IterationShape, FailuresNoted
    <3> QED
      BY <1>1, <1>2, <2>1, <2>4, <3>1, <3>2, <3>3
      DEF ReturnNow, IterationInv, IterationShape, OneAtATime, FailuresNoted, SourceClosed,
          NothingLeftBehind, Ended, MayReject, Cut, Mapping
  <2> QED
    BY <1>7, <2>2, <2>3, <2>4 DEF Conclude
<1> QED
  BY <1>5, <1>6, <1>7

\* The call.
LEMMA IterateKeeps ==
  ASSUME IterationInv, NEW preAborted, Iterate(preAborted)
  PROVE  IterationInv'
<1>1. RoomKept'
  BY RoomStill DEF Iterate, Running, Items, Mapping, IterationInv, IterationShape
<1>2. Running' = Running /\ Running = {}
  BY DEF Iterate, Running, IterationInv, IterationShape
<1> QED
  BY <1>1, <1>2
  DEF Iterate, IterationInv, IterationShape, OneAtATime, FailuresNoted, SourceClosed,
      NothingLeftBehind, Ended, MayReject, Cut, Mapping

\* The source yields an item.
LEMMA YieldKeeps ==
  ASSUME IterationInv, NEW i \in Items, Yield(i)
  PROVE  IterationInv'
<1>1. /\ reader = "reading" /\ item[i] = "unread" /\ UNCHANGED <<kind, source, failure, aborted>>
      /\ Mapping' = Mapping
  BY DEF Yield, Unread, Mapping
<1>2. i \notin Running
  BY <1>1 DEF Running
<1>3. /\ Cardinality(Running \cup {i}) = Cardinality(Running) + 1
      /\ Cardinality({}) = 0 /\ Cardinality({i}) = 1
  BY <1>2, FinitelyManyRun, FS_AddElement, FS_EmptySet, FS_Singleton
<1>4. CASE Mapping /\ item' = [item EXCEPT ![i] = "read"] /\ Await("ready")
  <2>1. Running' = Running \cup {i}
    BY <1>4 DEF Running, IterationInv, IterationShape
  <2>2. RoomKept'
    BY <1>1, <1>3, <1>4, <2>1, FinitelyManyRun, IterationAssumption
    DEF RoomKept, IterationInv, Await
  <2> QED
    BY <1>1, <1>4, <2>1, <2>2
    DEF Await, IterationInv, IterationShape, OneAtATime, FailuresNoted, SourceClosed,
        NothingLeftBehind, Ended, MayReject, Cut
<1>5. CASE ~Mapping
  <2>1. Running = {}
    BY <1>1, <1>5 DEF IterationInv, OneAtATime
  <2>2. CASE aborted /\ CloseAndReturn("aborted") /\ UNCHANGED item
    <3>1. Running' = {}
      BY <2>1, <2>2 DEF Running
    <3>2. RoomKept'
      BY <1>1, <1>3, <1>5, <3>1, IterationAssumption DEF RoomKept
    <3> QED
      BY <1>1, <1>5, <2>1, <2>2, <3>1, <3>2
      DEF CloseAndReturn, IterationInv, IterationShape, OneAtATime, FailuresNoted, SourceClosed,
          NothingLeftBehind, Ended, MayReject, Cut
  <2>3. CASE item' = [item EXCEPT ![i] = "ok"] /\ Await("ready")
    <3>1. Running' = {}
      BY <2>1, <2>3 DEF Running, IterationInv, IterationShape
    <3>2. RoomKept'
      BY <1>1, <1>3, <1>5, <3>1, IterationAssumption DEF RoomKept
    <3> QED
      BY <1>1, <1>5, <2>1, <2>3, <3>1, <3>2
      DEF Await, IterationInv, IterationShape, OneAtATime, FailuresNoted, SourceClosed,
          NothingLeftBehind, Ended, MayReject, Cut
  <2>4. CASE item' = [item EXCEPT ![i] = "running"] /\ Await("working")
    <3>1. Running' = {i}
      BY <2>1, <2>4 DEF Running, IterationInv, IterationShape
    <3>2. RoomKept'
      BY <1>1, <1>3, <1>5, <3>1, IterationAssumption DEF RoomKept
    <3> QED
      BY <1>1, <1>5, <2>1, <2>4, <3>1, <3>2
      DEF Await, IterationInv, IterationShape, OneAtATime, FailuresNoted, SourceClosed,
          NothingLeftBehind, Ended, MayReject, Cut
  <2> QED
    BY <1>5, <2>2, <2>3, <2>4 DEF Yield
<1>6. Mapping => item' = [item EXCEPT ![i] = "read"] /\ Await("ready")
  BY DEF Yield, Mapping
<1> QED
  BY <1>4, <1>5, <1>6

\* The source ends or throws.
LEMMA SourceOverKeeps ==
  ASSUME IterationInv, End \/ Throw
  PROVE  IterationInv'
<1>1. Running' = Running /\ kind' = kind /\ item' = item /\ Mapping' = Mapping /\ reader = "reading"
  BY DEF End, Throw, Running, Mapping
<1>2. RoomKept'
  BY <1>1, RoomStill DEF End, Throw, Await, ReturnNow, IterationInv
<1>3. ~Mapping => failure = Nothing /\ Running = {}
  BY <1>1 DEF IterationInv, OneAtATime
<1>4. ~Mapping => \A i \in Items : item[i] \in {"ok", "unread"}
  BY <1>3 DEF Running, IterationInv, IterationShape, FailuresNoted
<1>5. CASE End
  <2>1. source' = "ended" /\ failure' = failure
    BY <1>5 DEF End
  <2>2. CASE Mapping /\ Await("ready")
    BY <1>1, <1>2, <2>1, <2>2
    DEF Await, IterationInv, IterationShape, OneAtATime, FailuresNoted, SourceClosed,
        NothingLeftBehind, Ended, MayReject, Cut
  <2>3. ASSUME NEW result \in {"aborted", "value"}, ~Mapping, ReturnNow(result)
        PROVE  IterationInv'
    BY <1>1, <1>2, <1>3, <1>4, <2>1, <2>3
    DEF ReturnNow, IterationInv, IterationShape, OneAtATime, FailuresNoted, SourceClosed,
        NothingLeftBehind, Ended, MayReject, Cut
  <2>4. (IF aborted THEN "aborted" ELSE "value") \in {"aborted", "value"}
    OBVIOUS
  <2> QED
    BY <1>5, <2>2, <2>3, <2>4 DEF End
<1>6. CASE Throw
  <2>1. failure' # Nothing /\ failure' \in Items \cup {Source}
    BY <1>6, IterationAssumption DEF Throw, NoteFailure, IterationInv, IterationShape
  <2>2. source' = "threw"
    BY <1>6 DEF Throw
  <2>3. CASE Mapping /\ Await("ready")
    BY <1>1, <1>2, <2>1, <2>2, <2>3
    DEF Await, IterationInv, IterationShape, OneAtATime, FailuresNoted, SourceClosed,
        NothingLeftBehind, Ended, MayReject, Cut
  <2>4. ASSUME NEW result \in {"failure", "rejected"}, ~Mapping, ReturnNow(result),
               result = "rejected" => kind = "forEach"
        PROVE  IterationInv'
    BY <1>1, <1>2, <1>3, <2>1, <2>2, <2>4
    DEF ReturnNow, IterationInv, IterationShape, OneAtATime, FailuresNoted, SourceClosed,
        NothingLeftBehind, Ended, MayReject, Cut
  <2> QED
    BY <1>6, <2>3, <2>4 DEF Throw, Mapping
<1> QED
  BY <1>5, <1>6

\* A mapper begins or settles.
LEMMA MapperKeeps ==
  ASSUME IterationInv, NEW i \in Items, MapperBegins(i) \/ MapperSettles(i)
  PROVE  IterationInv'
<1>1. kind' = kind /\ source' = source /\ Mapping' = Mapping
  BY DEF MapperBegins, MapperSettles, Mapping
<1>2. Running' \subseteq Running /\ i \in Running
  BY DEF MapperBegins, MapperSettles, Running, IterationInv, IterationShape
<1>3. RoomKept'
  BY <1>1, <1>2, RoomStill DEF MapperBegins, MapperSettles, Await, IterationInv
<1>4. Mapping
  BY DEF MapperBegins, MapperSettles, IterationInv, OneAtATime
<1>5. reader # "idle"
  BY <1>2 DEF IterationInv, IterationShape
<1>6. CASE MapperBegins(i)
  BY <1>1, <1>2, <1>3, <1>4, <1>5, <1>6
  DEF MapperBegins, IterationInv, IterationShape, OneAtATime, FailuresNoted, SourceClosed,
      NothingLeftBehind, Ended, MayReject, Cut
<1>7. CASE MapperSettles(i) /\ item' = [item EXCEPT ![i] = "ok"] /\ UNCHANGED failure
  BY <1>1, <1>2, <1>3, <1>4, <1>5, <1>7
  DEF MapperSettles, Await, IterationInv, IterationShape, OneAtATime, FailuresNoted, SourceClosed,
      NothingLeftBehind, Ended, MayReject, Cut
<1>8. CASE MapperSettles(i) /\ item' = [item EXCEPT ![i] = "error"] /\ NoteFailure(i)
  <2>1. failure' # Nothing /\ failure' \in Items \cup {Source}
    BY <1>8, IterationAssumption DEF NoteFailure, Items, IterationInv, IterationShape
  <2> QED
    BY <1>1, <1>2, <1>3, <1>4, <1>5, <1>8, <2>1
    DEF MapperSettles, Await, IterationInv, IterationShape, OneAtATime, FailuresNoted,
        SourceClosed, NothingLeftBehind, Ended, MayReject, Cut
<1> QED
  BY <1>6, <1>7, <1>8 DEF MapperSettles

\* The worker of forEach() settles.
LEMMA WorkerKeeps ==
  ASSUME IterationInv, NEW i \in Items, WorkerSettles(i)
  PROVE  IterationInv'
<1>1. /\ kind' = kind /\ source' = source /\ Mapping' = Mapping /\ reader = "working"
      /\ reader' \in {"ready", "closing"} /\ i \in Running
  BY DEF WorkerSettles, Mapping, Await, CloseAndReturn, Running
<1>2. Running' \subseteq Running \ {i}
  BY DEF WorkerSettles, Running, IterationInv, IterationShape
<1>3. RoomKept'
  BY <1>1, <1>2, RoomStill DEF IterationInv
<1>4. ~Mapping => Running' = {} /\ failure = Nothing
  BY <1>1, <1>2 DEF IterationInv, OneAtATime
<1>5. CASE item' = [item EXCEPT ![i] = "ok"] /\ Await("ready") /\ UNCHANGED failure
  BY <1>1, <1>2, <1>3, <1>4, <1>5
  DEF Await, IterationInv, IterationShape, OneAtATime, FailuresNoted, SourceClosed,
      NothingLeftBehind, Ended, MayReject, Cut
<1>6. CASE item' = [item EXCEPT ![i] = "error"] /\ NoteFailure(i) /\ CloseAndReturn("failure")
  <2>1. failure' # Nothing /\ failure' \in Items \cup {Source}
    BY <1>6, IterationAssumption DEF NoteFailure, Items, IterationInv, IterationShape
  <2> QED
    BY <1>1, <1>2, <1>3, <1>4, <1>6, <2>1
    DEF CloseAndReturn, IterationInv, IterationShape, OneAtATime, FailuresNoted, SourceClosed,
        NothingLeftBehind, Ended, MayReject, Cut
<1> QED
  BY <1>5, <1>6 DEF WorkerSettles

\* The call closes its source, and waits for its mappers.
LEMMA CloseKeeps ==
  ASSUME IterationInv, CloseResolves \/ CloseThrows \/ Settle
  PROVE  IterationInv'
<1>1. /\ kind' = kind /\ item' = item /\ failure' = failure /\ Mapping' = Mapping
      /\ Running' = Running /\ reader \in {"closing", "settling"} /\ reader' # "reading"
  BY DEF CloseResolves, CloseThrows, Settle, Await, ReturnNow, Running, Mapping
<1>2. RoomKept'
  BY <1>1, RoomStill DEF IterationInv
<1>3. ~Mapping => Running = {}
  BY <1>1 DEF IterationInv, OneAtATime
<1>4. verdict \in {"failure", "aborted"}
  BY <1>1 DEF IterationInv, IterationShape
<1>5. CASE CloseResolves
  <2>1. source' # "open" /\ source' \in {"ended", "threw", "closed"} /\ (source' = "threw" => source = "threw")
    BY <1>5 DEF CloseResolves, IterationInv, IterationShape
  <2>2. CASE Mapping /\ Await("settling")
    BY <1>1, <1>2, <1>4, <1>5, <2>1, <2>2
    DEF CloseResolves, Await, IterationInv, IterationShape, OneAtATime, FailuresNoted, SourceClosed,
        NothingLeftBehind, Ended, MayReject, Cut
  <2>3. CASE ~Mapping /\ ReturnNow(verdict)
    BY <1>1, <1>2, <1>3, <1>4, <1>5, <2>1, <2>3
    DEF CloseResolves, ReturnNow, IterationInv, IterationShape, OneAtATime, FailuresNoted,
        SourceClosed, NothingLeftBehind, Ended, MayReject, Cut
  <2> QED
    BY <1>5, <2>2, <2>3 DEF CloseResolves
<1>6. CASE CloseThrows
  <2>1. ASSUME NEW result, result = IF kind = "collect" THEN "failure" ELSE "rejected",
               ReturnNow(result)
        PROVE  IterationInv'
    BY <1>1, <1>2, <1>3, <1>6, <2>1
    DEF CloseThrows, ReturnNow, IterationInv, IterationShape, OneAtATime, FailuresNoted,
        SourceClosed, NothingLeftBehind, Ended, MayReject, Cut, Mapping
  <2> QED
    BY <1>6, <2>1 DEF CloseThrows
<1>7. CASE Settle
  BY <1>1, <1>2, <1>3, <1>4, <1>7
  DEF Settle, ReturnNow, IterationInv, IterationShape, OneAtATime, FailuresNoted, SourceClosed,
      NothingLeftBehind, Ended, MayReject, Cut
<1> QED
  BY <1>5, <1>6, <1>7

\* The invariant of the iteration is inductive.
LEMMA IterationKeeps == IterationInv /\ [IterationNext]_iterationVars => IterationInv'
<1> SUFFICES ASSUME IterationInv, [IterationNext]_iterationVars PROVE IterationInv'
  OBVIOUS
<1>1. ASSUME UNCHANGED <<kind, reader, source, item, failure, verdict, outcome>>,
             aborted => aborted'
      PROVE  IterationInv'
  BY <1>1
  DEF IterationInv, IterationShape, OneAtATime, FailuresNoted, SourceClosed, RoomKept,
      NothingLeftBehind, Ended, MayReject, Cut, Mapping, Running, Items
<1>2. CASE IterationAbort \/ UNCHANGED iterationVars
  BY <1>1, <1>2 DEF IterationAbort, iterationVars
<1>3. CASE IterationStep
  BY <1>3, HeadKeeps, YieldKeeps, SourceOverKeeps, MapperKeeps, WorkerKeeps, CloseKeeps
  DEF IterationStep
<1> QED
  BY <1>2, <1>3, IterateKeeps DEF IterationNext

-----------------------------------------------------------------------------
\* The layers: which of them has begun, what the resource is held for, and
\* which of the two timeouts may still be armed.
LayersKnown ==
  /\ timer \subseteq Timeouts /\ linked \subseteq Timeouts
  /\ work # "command" \/ stage \in {"idle", "acquiring"} => commandOutcome = "none"
  /\ work # "event" \/ stage \in {"idle", "acquiring"} => eventOutcome = "none"
  /\ work # "fetch" \/ stage \in {"idle", "acquiring"} => request = "none"
  /\ work # "iteration" \/ stage \in {"idle", "acquiring"} => outcome = "none"
  /\ stage \in {"leaving", "done"} => request # "pending"
  /\ request # "pending" => Inner \notin timer \cup linked
  /\ stage \in {"idle", "done"} => timer = {} /\ linked = {}
  /\ eventOutcome = "none" => listeners = {}
  /\ eventOutcome # "pending" => "abort" \notin listeners
  /\ eventOutcome # "pending" /\ removable => listeners = {}

\* The resource is released once.
ResourceKnown ==
  /\ releases = IF resource \in {"releasing", "released"} THEN 1 ELSE 0
  /\ stage \in {"idle", "acquiring", "working", "leaving", "done"}
  /\ stage = "idle" => resource = "none"
  /\ stage = "acquiring" => resource = "acquiring"
  /\ stage = "working" => resource \in {"held", "releasing", "released"}
  /\ stage = "leaving" => resource = "releasing"
  /\ stage = "done" => resource \notin {"acquiring", "held"}

\* The inductive invariant of what surrounds the work.
DeadlineInv == LayersKnown /\ ResourceKnown

\* The work takes the steps of a command and of an iteration.
LEMMA UsesWork == [Next]_vars => [CommandNext]_commandVars /\ [IterationNext]_iterationVars
<1> SUFFICES ASSUME [Next]_vars
             PROVE  [CommandNext]_commandVars /\ [IterationNext]_iterationVars
  OBVIOUS
<1>1. Aborted(Outer) \in BOOLEAN
  BY DEF Aborted
<1>2. CASE Acquired
  <2>1. Start
    BY <1>2 DEF Acquired
  <2> QED
    BY <1>1, <2>1 DEF Start, CommandNext, IterationNext
<1>3. CASE WorkStep
  BY <1>3 DEF WorkStep, CommandNext, IterationNext, FetchSettles
<1>4. CASE TimeoutOrAbort
  BY <1>4 DEF TimeoutOrAbort, WorkHears, workVars, CommandNext, IterationNext
<1>5. CASE UNCHANGED workVars
  BY <1>5 DEF workVars
<1>6. CASE UNCHANGED vars
  BY <1>6 DEF vars, workVars
<1> QED
  BY <1>2, <1>3, <1>4, <1>5, <1>6
  DEF Next, Begin, NotAcquired, DisposesEarly, ScopeEnds, Released

\* The outcome of a command is true, whatever the chunks of its output, its
\* timer, its signal, its callbacks and its end come before
\* (src/node.ts:513-583, 601-681).
THEOREM CommandHonest == Spec => []HonestOutcome
<1>1. Init => CommandInv
  BY CommandInitially DEF Init
<1>2. CommandInv /\ [Next]_vars => CommandInv'
  BY UsesWork, CommandKeeps
<1>3. CommandInv => HonestOutcome
  BY CommandTells
<1> QED
  BY <1>1, <1>2, <1>3, PTL DEF Spec

\* An iteration that ends leaves its source closed or over; it leaves a mapper
\* at work only in a mapAsyncLimit() that rejects, which, like forEach(), it
\* does only once it was cut; and a value stands for every item
\* (src/iterable.ts:77-300).
THEOREM IterationCleansUp == Spec => []NothingLeftBehind
<1>1. Init => IterationInv
  BY IterationInitially DEF Init
<1>2. IterationInv /\ [Next]_vars => IterationInv'
  BY UsesWork, IterationKeeps
<1>3. IterationInv => NothingLeftBehind
  BY DEF IterationInv
<1> QED
  BY <1>1, <1>2, <1>3, PTL DEF Spec

\* mapAsyncLimit() never has more than Concurrency mappers at work, the one it is
\* about to start included (src/iterable.ts:254-278).
THEOREM MapperLimit == Spec => []RoomKept
<1>1. Init => IterationInv
  BY IterationInitially DEF Init
<1>2. IterationInv /\ [Next]_vars => IterationInv'
  BY UsesWork, IterationKeeps
<1>3. IterationInv => RoomKept
  BY DEF IterationInv
<1> QED
  BY <1>1, <1>2, <1>3, PTL DEF Spec

\* Once it is cut, mapAsyncLimit() asks for no further item and the other
\* helpers start no further work (src/iterable.ts:87-93, 120-136, 207-211, 254-278).
THEOREM CutStopsWork == Spec => NoWorkOnceCut
<1> DEFINE Held == Cut =>
             /\ Mapping /\ reader' = "reading" => reader = "reading"
             /\ ~Mapping => \A i \in Items : item'[i] \in {"running", "ok"} => item[i] # "unread"
<1>1. IterationInv /\ [Next]_vars => [Held]_iterationVars
  <2> SUFFICES ASSUME IterationInv, IterationNext, Cut PROVE Held
    BY UsesWork
  <2>1. CASE \E preAborted : Iterate(preAborted)
    BY <2>1 DEF Iterate
  <2>2. CASE IterationAbort
    BY <2>2 DEF IterationAbort, iterationVars
  <2>3. CASE Read \/ Race \/ Conclude
    BY <2>3 DEF Read, Race, Conclude, MayRead, Await, ReturnNow, CloseAndReturn
  <2>4. CASE End \/ Throw \/ CloseResolves \/ CloseThrows \/ Settle
    BY <2>4 DEF End, Throw, CloseResolves, CloseThrows, Settle, Await, ReturnNow
  <2>5. ASSUME NEW i \in Items, Yield(i) PROVE Held
    <3>1. reader = "reading"
      BY <2>5 DEF Yield
    <3>2. ~Mapping => aborted
      BY <3>1 DEF Cut, IterationInv, OneAtATime
    <3>3. ~Mapping => UNCHANGED item
      BY <2>5, <3>2 DEF Yield
    <3> QED
      BY <3>1, <3>3
  <2>6. ASSUME NEW i \in Items, MapperBegins(i) \/ MapperSettles(i) \/ WorkerSettles(i)
        PROVE  Held
    BY <2>6
    DEF MapperBegins, MapperSettles, WorkerSettles, Await, CloseAndReturn, Mapping, IterationInv,
        IterationShape, OneAtATime
  <2> QED
    BY <2>1, <2>2, <2>3, <2>4, <2>5, <2>6 DEF IterationNext, IterationStep
<1>2. Init => IterationInv
  BY IterationInitially DEF Init
<1>3. IterationInv /\ [Next]_vars => IterationInv'
  BY UsesWork, IterationKeeps
<1> QED
  BY <1>1, <1>2, <1>3, PTL DEF Spec, NoWorkOnceCut

\* Nothing has begun.
LEMMA DeadlineInitially == Init => DeadlineInv
BY DEF Init, TimeoutInit, ResourceInit, CommandInit, EventInit, IterationInit, DeadlineInv,
   LayersKnown, ResourceKnown

\* A step of a call adds nothing to its outcome before it begins.
LEMMA WorkNotBegun ==
  ASSUME CommandInv, IterationInv
  PROVE  /\ commandOutcome = "none" /\ (CommandStep \/ CommandAbort) => commandOutcome' = "none"
         /\ outcome = "none" /\ (IterationStep \/ IterationAbort) => outcome' = "none"
<1>1. ASSUME commandOutcome = "none", CommandStep \/ CommandAbort PROVE commandOutcome' = "none"
  BY <1>1
  DEF CommandInv, CausesKnown, CommandStep, CommandTimeout, CommandAbort, Output, ChildExits,
      ChildCloses, commandVars
<1>2. ASSUME outcome = "none", IterationStep \/ IterationAbort PROVE outcome' = "none"
  <2>1. reader = "idle" /\ Running = {}
    BY <1>2 DEF IterationInv, IterationShape
  <2> QED
    BY <1>2, <2>1
    DEF IterationStep, IterationAbort, iterationVars, Read, Race, Conclude, Looks, End, Throw, Yield,
        MapperBegins, MapperSettles, WorkerSettles, CloseResolves, CloseThrows, Settle, Running
<1> QED
  BY <1>1, <1>2

\* The resource does its part.
LEMMA ResourceKeeps ==
  ASSUME ResourceKnown, [Next]_vars
  PROVE  ResourceKnown'
<1> USE DEF ResourceKnown
<1>1. CASE Begin
  BY <1>1 DEF Begin, Acquire, resourceVars
<1>2. CASE Acquired
  BY <1>2 DEF Acquired, AcquireSucceeds
<1>3. CASE NotAcquired
  BY <1>3 DEF NotAcquired, AcquireFails, Leave
<1>4. CASE DisposesEarly
  BY <1>4 DEF DisposesEarly, DisposeResource, resourceVars
<1>5. CASE ScopeEnds
  BY <1>5 DEF ScopeEnds, DisposeResource, resourceVars, Leave
<1>6. CASE Released
  BY <1>6 DEF Released, ReleaseSettles, Leave
<1>7. CASE UNCHANGED <<resourceVars, work, stage>> \/ UNCHANGED vars
  BY <1>7 DEF resourceVars, vars
<1> QED
  BY <1>1, <1>2, <1>3, <1>4, <1>5, <1>6, <1>7 DEF Next

\* A step that starts no timeout but the outer one at the beginning.
LEMMA TimeoutsShrink ==
  /\ \A t \in Timeouts : Dispose(t) => timer' = timer \ {t} /\ linked' = linked \ {t}
  /\ \A t \in Timeouts : TimeoutFires(t) => timer' \subseteq timer /\ linked' \subseteq linked
  /\ CallerAborts => timer' \subseteq timer /\ linked' \subseteq linked
  /\ \A t \in Timeouts : CreateTimeoutSignal(t) =>
       timer' \subseteq timer \cup {t} /\ linked' \subseteq linked \cup {t}
BY DEF Dispose, TimeoutFires, CallerAborts, CreateTimeoutSignal, AbortSignal, Release

\* withTimeout() is called.
LEMMA BeginKeeps == ASSUME LayersKnown, Begin PROVE LayersKnown'
<1>1. /\ UNCHANGED <<commandOutcome, eventVars, outcome, request, work>>
      /\ stage = "idle" /\ timer = {} /\ linked = {} /\ request = "none"
  BY DEF Begin, workVars, commandVars, eventVars, iterationVars, LayersKnown
<1>2. CASE callerAborted
  <2>1. stage' = "done" /\ timer' = {} /\ linked' = {}
    BY <1>1, <1>2 DEF Begin, CreateTimeoutSignal, ParentAborted
  <2> QED
    BY <1>1, <2>1 DEF LayersKnown, eventVars
<1>3. CASE ~callerAborted
  <2>1. stage' = "acquiring" /\ timer' \subseteq {Outer} /\ linked' \subseteq {Outer}
    BY <1>1, <1>3, TimeoutsShrink DEF Begin, Timeouts
  <2> QED
    BY <1>1, <2>1 DEF LayersKnown, eventVars, Timeouts, Outer, Inner
<1> QED
  BY <1>2, <1>3

\* The resource has been acquired, and the work starts.
LEMMA AcquiredKeeps == ASSUME LayersKnown, Acquired PROVE LayersKnown'
<1>1. /\ stage = "acquiring" /\ stage' = "working" /\ work' = work
      /\ commandOutcome = "none" /\ eventOutcome = "none" /\ outcome = "none" /\ request = "none"
      /\ Start
  BY DEF Acquired, LayersKnown
<1>2. CASE work = "command" /\ UNCHANGED <<eventVars, iterationVars, request, timeoutVars>>
  BY <1>1, <1>2 DEF LayersKnown, eventVars, iterationVars, timeoutVars
<1>3. CASE /\ work = "event" /\ OnceEvent(Aborted(Outer))
           /\ UNCHANGED <<commandVars, iterationVars, request, timeoutVars>>
  <2>1. /\ eventOutcome' # "none"
        /\ eventOutcome' # "pending" => "abort" \notin listeners'
        /\ eventOutcome' # "pending" /\ removable' => listeners' = {}
    BY <1>1, <1>3 DEF OnceEvent, LayersKnown
  <2> QED
    BY <1>1, <1>3, <2>1 DEF LayersKnown, commandVars, iterationVars, timeoutVars
<1>4. CASE work = "fetch" /\ Fetch /\ UNCHANGED <<commandVars, eventVars, iterationVars>>
  <2>1. request' = "pending" /\ timer' \subseteq Timeouts /\ linked' \subseteq Timeouts
    BY <1>4, TimeoutsShrink DEF Fetch, LayersKnown, Timeouts, timeoutVars
  <2> QED
    BY <1>1, <1>4, <2>1 DEF LayersKnown, commandVars, eventVars, iterationVars
<1>5. CASE work = "iteration" /\ UNCHANGED <<commandVars, eventVars, request, timeoutVars>>
  BY <1>1, <1>5 DEF LayersKnown, commandVars, eventVars, timeoutVars
<1> QED
  BY <1>1, <1>2, <1>3, <1>4, <1>5 DEF Start

\* withTimeout() settles, with the work that it was for.
LEMMA LeaveKeeps ==
  ASSUME LayersKnown, Leave, UNCHANGED <<workVars, work>>, request # "pending", stage # "idle",
         stage = "done" \/ stage = "leaving" \/ stage = "working" \/ stage = "acquiring"
  PROVE  LayersKnown'
<1>1. /\ stage' = "done" /\ timer' = timer \ {Outer} /\ linked' = linked \ {Outer}
  BY TimeoutsShrink DEF Leave, Timeouts
<1>2. timer' = {} /\ linked' = {}
  BY <1>1 DEF LayersKnown, Timeouts
<1> QED
  BY <1>1, <1>2 DEF LayersKnown, workVars, commandVars, eventVars, iterationVars

\* A step that leaves the work alone and makes the timeouts fewer at most.
LEMMA LayersStill ==
  ASSUME LayersKnown, UNCHANGED <<work, stage, commandOutcome, eventVars, outcome, request>>,
         timer' \subseteq timer, linked' \subseteq linked
  PROVE  LayersKnown'
BY DEF LayersKnown, eventVars

\* The work goes on.
LEMMA WorkKeeps ==
  ASSUME CommandInv, IterationInv, LayersKnown, WorkStep, UNCHANGED <<work, stage>>
  PROVE  LayersKnown'
<1>1. CASE CommandStep /\ UNCHANGED <<timeoutVars, eventVars, iterationVars, request>>
  <2>1. commandOutcome = "none" => commandOutcome' = "none"
    BY <1>1, WorkNotBegun
  <2> QED
    BY <1>1, <2>1 DEF LayersKnown, timeoutVars, eventVars, iterationVars
<1>2. CASE EventSourceStep /\ UNCHANGED <<timeoutVars, commandVars, iterationVars, request>>
  <2>1. /\ eventOutcome # "none" /\ eventOutcome' # "none"
        /\ eventOutcome' # "pending" => "abort" \notin listeners'
        /\ eventOutcome' # "pending" /\ removable' => listeners' = {}
    BY <1>2 DEF EventSourceStep, EventArrives, ErrorArrives, SettleEvent, RemoveListeners, LayersKnown
  <2> QED
    BY <1>2, <2>1 DEF LayersKnown, timeoutVars, commandVars, iterationVars
<1>3. CASE IterationStep /\ UNCHANGED <<timeoutVars, commandVars, eventVars, request>>
  <2>1. outcome = "none" => outcome' = "none"
    BY <1>3, WorkNotBegun
  <2> QED
    BY <1>3, <2>1 DEF LayersKnown, timeoutVars, commandVars, eventVars
<1>4. CASE FetchSettles
  <2>1. /\ request = "pending" /\ request' # "pending" /\ request' # "none"
        /\ timer' = timer \ {Inner} /\ linked' = linked \ {Inner}
    BY <1>4, TimeoutsShrink DEF FetchSettles, FetchEnds, Timeouts
  <2> QED
    BY <1>4, <2>1 DEF FetchSettles, LayersKnown, commandVars, eventVars, iterationVars
<1> QED
  BY <1>1, <1>2, <1>3, <1>4 DEF WorkStep

\* A timer fires, or the caller aborts.
LEMMA AbortKeeps ==
  ASSUME CommandInv, IterationInv, LayersKnown, TimeoutOrAbort, UNCHANGED <<work, stage>>
  PROVE  LayersKnown'
<1>1. timer' \subseteq timer /\ linked' \subseteq linked
  BY TimeoutsShrink DEF TimeoutOrAbort, Timeouts
<1>2. CASE UNCHANGED workVars
  BY <1>1, <1>2, LayersStill DEF workVars, commandVars, eventVars, iterationVars
<1>3. CASE WorkHears
  <2>1. /\ commandOutcome = "none" => commandOutcome' = "none"
        /\ outcome = "none" => outcome' = "none"
    BY <1>3, WorkNotBegun DEF WorkHears
  <2>2. CASE UNCHANGED eventVars
    BY <1>1, <1>3, <2>1, <2>2 DEF WorkHears, LayersKnown, eventVars
  <2>3. CASE SettleEvent("abort", "aborted")
    <3>1. /\ eventOutcome = "pending" /\ eventOutcome' = "aborted"
          /\ "abort" \notin listeners'
          /\ removable' => listeners' = {}
      BY <2>3 DEF SettleEvent, RemoveListeners, LayersKnown
    <3> QED
      BY <1>1, <1>3, <2>1, <3>1 DEF WorkHears, LayersKnown
  <2> QED
    BY <1>3, <2>2, <2>3 DEF WorkHears, EventAbort
<1> QED
  BY <1>2, <1>3 DEF TimeoutOrAbort

\* The layers stay in step.
LEMMA LayersKeep ==
  ASSUME CommandInv, IterationInv, DeadlineInv, [Next]_vars
  PROVE  LayersKnown'
<1> USE DEF DeadlineInv
<1>1. CASE NotAcquired
  <2>1. stage = "acquiring" /\ request # "pending"
    BY <1>1 DEF NotAcquired, LayersKnown
  <2> QED
    BY <1>1, <2>1, LeaveKeeps DEF NotAcquired
<1>2. CASE DisposesEarly \/ UNCHANGED vars
  BY <1>2, LayersStill
  DEF DisposesEarly, vars, timeoutVars, workVars, commandVars, eventVars, iterationVars
<1>3. CASE ScopeEnds
  <2>1. stage = "working" /\ request # "pending"
    BY <1>3 DEF ScopeEnds, WorkEnded, LayersKnown
  <2>2. CASE stage' = "leaving" /\ UNCHANGED timeoutVars
    BY <1>3, <2>1, <2>2
    DEF ScopeEnds, LayersKnown, timeoutVars, workVars, commandVars, eventVars, iterationVars
  <2>3. CASE Leave
    BY <1>3, <2>1, <2>3, LeaveKeeps DEF ScopeEnds
  <2> QED
    BY <1>3, <2>2, <2>3 DEF ScopeEnds
<1>4. CASE Released
  <2>1. CASE stage = "leaving" /\ Leave
    BY <1>4, <2>1, LeaveKeeps DEF Released, LayersKnown
  <2>2. CASE UNCHANGED <<stage, timeoutVars>>
    BY <1>4, <2>2, LayersStill
    DEF Released, timeoutVars, workVars, commandVars, eventVars, iterationVars
  <2> QED
    BY <1>4, <2>1, <2>2 DEF Released
<1> QED
  BY <1>1, <1>2, <1>3, <1>4, BeginKeeps, AcquiredKeeps, WorkKeeps, AbortKeeps DEF Next

\* Whatever ends the work, the deadline or the caller, and in whatever order,
\* no layer leaves a timer, a process, or a listener that can be taken off,
\* and the resource is released once at most (src/signal.ts:79-88, src/event.ts:82-133,
\* src/fetch.ts:110-112, src/resource.ts:20-26).
THEOREM LayersCleanUp == Spec => []EachLayerCleansUp
<1> DEFINE Inv == CommandInv /\ IterationInv /\ DeadlineInv
<1>1. Init => Inv
  BY CommandInitially, IterationInitially, DeadlineInitially DEF Init
<1>2. Inv /\ [Next]_vars => Inv'
  BY UsesWork, CommandKeeps, IterationKeeps, ResourceKeeps, LayersKeep DEF DeadlineInv
<1>3. Inv => EachLayerCleansUp
  <2> SUFFICES ASSUME CommandInv, DeadlineInv PROVE EachLayerCleansUp
    OBVIOUS
  <2>1. releases <= 1
    BY DEF DeadlineInv, ResourceKnown
  <2> QED
    BY <2>1, CommandTells DEF DeadlineInv, LayersKnown, ResourceKnown, EachLayerCleansUp
<1> QED
  BY <1>1, <1>2, <1>3, PTL DEF Spec
=============================================================================
