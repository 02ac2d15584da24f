------------------------------ MODULE Command ------------------------------
(***************************************************************************)
(* runCommand() of src/node.ts: one child process under a signal, a        *)
(* timeout of its own and a limit on its output.  The child is Node's:     *)
(* aborting the signal it was spawned with kills it and makes it emit an   *)
(* error while it runs; its output may come until its pipes close, also    *)
(* after it was killed or has exited.                                      *)
(***************************************************************************)
EXTENDS Naturals

CONSTANTS
  MaxOutputBytes, \* options.maxOutputBytes
  ChunkSizes,     \* the sizes of its chunks
  MaxProduced     \* what the child writes at most (a bound of the model)

ASSUME CommandAssumption ==
  MaxOutputBytes \in Nat \ {0} /\ ChunkSizes \subseteq Nat \ {0} /\ MaxProduced \in Nat

VARIABLES
  child,            \* "none", "failed", "running", "exited" or "closed"
  exitCode,         \* "none", "zero" or "other"
  controller,       \* whether the controller behind the child has aborted
  firstCause,       \* what aborted it
  abortReason,      \* commandAbortReason: "null", "timeout" or "output-limit"
  pendingError,     \* "null", "spawn", "callback" or "abort"
  totalOutputBytes,
  produced,         \* what the child has written
  commandTimer,
  commandLinked,    \* whether onAbort listens on the signal of the options
  commandOutcome

commandVars ==
  <<child, exitCode, controller, firstCause, abortReason, pendingError,
    totalOutputBytes, produced, commandTimer, commandLinked, commandOutcome>>
outputVars == <<totalOutputBytes, produced>>
linkVars == <<commandTimer, commandLinked>>

CommandInit ==
  /\ child = "none" /\ exitCode = "none"
  /\ controller = FALSE /\ firstCause = "none"
  /\ abortReason = "null" /\ pendingError = "null"
  /\ totalOutputBytes = 0 /\ produced = 0
  /\ commandTimer = FALSE /\ commandLinked = FALSE
  /\ commandOutcome = "none"

\* The controller aborts, once, and with it a running child, whose error
\* event counts if there was no error before.
Kill(error) ==
  pendingError' = IF child' = "running" /\ ~controller /\ error = "null" THEN "abort" ELSE error

AbortChild(cause, error) ==
  /\ controller' = TRUE
  /\ firstCause' = IF controller THEN firstCause ELSE cause
  /\ Kill(error)

Cleanup == commandTimer' = FALSE /\ commandLinked' = FALSE

\* The call: spawn() throws, cannot start the process, which the next tick
\* reports as an error event, or starts it.  Under a signal that has fired the
\* next tick kills the process, before it has done anything.
RunCommand(preAborted) ==
  /\ commandOutcome = "none"
  /\ child' \in {"none", "failed", "running"}
  /\ \/ /\ child' = "none" /\ commandOutcome' = "spawn"
        /\ UNCHANGED <<exitCode, linkVars>>
     \/ /\ child' # "none" /\ commandOutcome' = "pending"
        /\ commandTimer' \in BOOLEAN /\ commandLinked' = ~preAborted
        /\ exitCode' = IF child' = "failed" THEN "other" ELSE "none"
  /\ LET error == IF child' = "failed" THEN "spawn" ELSE "null" IN
     \/ preAborted /\ AbortChild("signal", error)
     \/ ~preAborted /\ pendingError' = error /\ UNCHANGED <<controller, firstCause>>
  /\ UNCHANGED <<abortReason, outputVars>>

\* The timer of the command fires.
CommandTimeout ==
  /\ commandTimer /\ commandTimer' = FALSE
  /\ UNCHANGED <<child, exitCode, outputVars, commandLinked, commandOutcome>>
  /\ \/ controller /\ UNCHANGED <<controller, firstCause, abortReason, pendingError>>
     \/ /\ ~controller
        /\ abortReason' = "timeout" /\ AbortChild("timeout", pendingError)

\* onAbort, when the signal of the options fires
CommandAbort ==
  \/ ~commandLinked /\ UNCHANGED commandVars
  \/ /\ commandLinked /\ commandLinked' = FALSE
     /\ UNCHANGED <<child, exitCode, abortReason, outputVars, commandTimer, commandOutcome>>
     /\ AbortChild("signal", pendingError)

\* What is captured once a chunk of n bytes has come.
Kept(n) ==
  IF totalOutputBytes + n <= MaxOutputBytes THEN totalOutputBytes + n ELSE MaxOutputBytes

\* appendOutput: the chunk stays within the limit or passes it, which stops
\* the child unless the command has been given up for a reason before.
AppendOutput(n) ==
  /\ totalOutputBytes' = Kept(n)
  /\ \/ /\ totalOutputBytes + n <= MaxOutputBytes \/ abortReason # "null"
        /\ UNCHANGED <<abortReason, controller, firstCause, pendingError>>
     \/ /\ totalOutputBytes + n > MaxOutputBytes /\ abortReason = "null"
        /\ abortReason' = "output-limit"
        /\ AbortChild("output-limit", pendingError)

\* onStdout or onStderr throws: the chunk is dropped and its error counts.
CallbackThrows ==
  /\ AbortChild("callback", "callback")
  /\ UNCHANGED <<abortReason, totalOutputBytes>>

Output(n) ==
  /\ child \in {"running", "exited"}
  /\ produced + n <= MaxProduced /\ produced' = produced + n
  /\ UNCHANGED <<child, exitCode, linkVars, commandOutcome>>
  /\ AppendOutput(n) \/ CallbackThrows

\* The child exits, killed or by itself, with whatever code it likes.
ChildExits ==
  /\ child = "running" /\ child' = "exited"
  /\ exitCode' \in {"zero", "other"}
  /\ UNCHANGED <<controller, firstCause, abortReason, pendingError, outputVars, linkVars, commandOutcome>>

\* Erroneous variant: the error events come before the causes of the abort.
ClosedWithError ==
  IF pendingError # "null" THEN pendingError
  ELSE IF abortReason # "null" THEN abortReason
  ELSE IF exitCode = "zero" THEN "value" ELSE "failed"

\* What the close of the child settles the promise with.
Closed ==
  IF abortReason # "null" THEN abortReason
  ELSE IF pendingError # "null" THEN pendingError
  ELSE IF exitCode = "zero" THEN "value" ELSE "failed"

ChildCloses ==
  /\ child \in {"exited", "failed"} /\ child' = "closed"
  /\ Cleanup
  /\ commandOutcome' = Closed
  /\ UNCHANGED <<exitCode, controller, firstCause, abortReason, pendingError, outputVars>>

CommandStep ==
  CommandTimeout \/ (\E n \in ChunkSizes : Output(n)) \/ ChildExits \/ ChildCloses

CommandTypeOK ==
  /\ child \in {"none", "failed", "running", "exited", "closed"}
  /\ exitCode \in {"none", "zero", "other"}
  /\ controller \in BOOLEAN
  /\ firstCause \in {"none", "timeout", "output-limit", "callback", "signal"}
  /\ abortReason \in {"null", "timeout", "output-limit"}
  /\ pendingError \in {"null", "spawn", "callback", "abort"}
  /\ totalOutputBytes \in 0 .. MaxOutputBytes /\ produced \in 0 .. MaxProduced
  /\ commandTimer \in BOOLEAN /\ commandLinked \in BOOLEAN
  /\ commandOutcome \in {"none", "pending", "value", "failed", "timeout", "output-limit",
                         "spawn", "callback", "abort"}

\* A command that has been called ends with its child, and with nothing of
\* it left: no timer, no listener, no process (src/node.ts:487-511, 601-602).
CommandLeavesNothing ==
  commandOutcome \notin {"none", "pending"} =>
    ~commandTimer /\ ~commandLinked /\ child \in {"none", "closed"}

\* The outcome tells what happened, in whatever order the output, the timer,
\* the signal, the callbacks and the end of the child come
\* (src/node.ts:513-583, 601-681): a value stands for an exit code of zero
\* and output that is complete; the limit is reported when it was passed, with
\* as much output as it allows; a timeout exactly when the timer was the first
\* to stop the child; an abort only when the signal was.
HonestOutcome ==
  /\ totalOutputBytes <= MaxOutputBytes
  /\ commandOutcome = "value" => exitCode = "zero" /\ totalOutputBytes = produced
  /\ commandOutcome = "output-limit" =>
       produced > MaxOutputBytes /\ totalOutputBytes = MaxOutputBytes
  /\ commandOutcome = "timeout" <=>
       firstCause = "timeout" /\ commandOutcome \notin {"none", "pending"}
  /\ commandOutcome = "abort" => firstCause = "signal"
=============================================================================
