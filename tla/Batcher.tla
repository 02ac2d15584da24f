------------------------------ MODULE Batcher ------------------------------
(***************************************************************************)
(* The batcher of src/batcher.ts (createBatcher).  Loads that come close   *)
(* together wait in one line; a timer or a full line sends them off as one *)
(* batch, whose answers are handed out by position.  A load stands here    *)
(* for its key as well: value c is the right answer for load c.  Each      *)
(* client loads once, and the oldest load of a batch is the batch's name.  *)
(***************************************************************************)
EXTENDS Signals, WaitingLine

CONSTANT MaxBatchSize \* options.maxBatchSize

Failures == {"error", "missing", "cleared", "aborted"}

ASSUME BatcherAssumption ==
  /\ MaxBatchSize \in Nat \ {0}
  /\ Clients \cap ({"new", "waiting"} \cup Failures) = {}

VARIABLES
  pending,  \* loads that wait for a batch
  timer,    \* whether the flush timer is set
  batch,    \* the loads of each batch that is under way
  keys,     \* the keys that loadMany() was called with
  answer    \* what each load resolved to

batcherVars == <<pending, timer, batch, keys, answer, aborted>>

NoBatch == <<>>

BatcherInit ==
  /\ pending = <<>> /\ timer = FALSE
  /\ batch = [b \in Clients |-> NoBatch] /\ keys = [b \in Clients |-> NoBatch]
  /\ answer = [c \in Clients |-> "new"]
  /\ aborted = {}

\* resolve() of some loads: for each the first call counts.
Resolve(loads, result) ==
  answer' = [c \in Clients |-> IF c \in loads /\ answer[c] = "waiting" THEN result[c] ELSE answer[c]]

\* pending.splice(0, maxBatchSize): what goes and what stays.
Batch(line) == IF Len(line) <= MaxBatchSize THEN line ELSE SubSeq(line, 1, MaxBatchSize)
Rest(line) == IF Len(line) <= MaxBatchSize THEN <<>> ELSE SubSeq(line, MaxBatchSize + 1, Len(line))

\* flush()
Flush(line) ==
  /\ pending' = Rest(line) /\ timer' = (Rest(line) # <<>>)
  /\ \/ line = <<>> /\ UNCHANGED <<batch, keys>>
     \/ /\ line # <<>>
        /\ batch' = [batch EXCEPT ![Head(line)] = Batch(line)]
        /\ keys' = [keys EXCEPT ![Head(line)] = Batch(line)]

Full(line) == Len(line) >= MaxBatchSize

\* load(key) with a live signal: the load joins the line.
Load(c) ==
  /\ answer[c] = "new" /\ c \notin aborted
  /\ answer' = [answer EXCEPT ![c] = "waiting"]
  /\ \/ Full(Append(pending, c)) /\ Flush(Append(pending, c))
     \/ /\ ~Full(Append(pending, c))
        /\ pending' = Append(pending, c) /\ timer' = TRUE
        /\ UNCHANGED <<batch, keys>>
  /\ UNCHANGED aborted

\* load(key) when the signal has fired.
LoadAborted(c) ==
  /\ answer[c] = "new" /\ c \in aborted
  /\ answer' = [answer EXCEPT ![c] = "aborted"]
  /\ UNCHANGED <<pending, timer, batch, keys, aborted>>

\* Also after the line was emptied by aborts.
TimerFires == timer /\ Flush(pending) /\ UNCHANGED <<answer, aborted>>

BatchEnds(b) ==
  /\ batch' = [batch EXCEPT ![b] = NoBatch]
  /\ keys' = [keys EXCEPT ![b] = NoBatch]
  /\ UNCHANGED <<pending, timer, aborted>>

\* Erroneous variant: a loadMany() that throws is not caught.
BatchThrows(b) == batch[b] # NoBatch /\ BatchEnds(b) /\ UNCHANGED answer

\* loadMany() resolves with an error, or throws.
BatchFails(b) ==
  /\ batch[b] # NoBatch
  /\ Resolve(ToSet(batch[b]), [c \in Clients |-> "error"])
  /\ BatchEnds(b)

Position(b, c) == CHOOSE i \in DOMAIN batch[b] : batch[b][i] = c

\* loadMany() resolves with values for the first n of its keys.
BatchSucceeds(b, n) ==
  /\ batch[b] # NoBatch
  /\ Resolve(ToSet(batch[b]),
       [c \in ToSet(batch[b]) |-> IF Position(b, c) <= n THEN keys[b][Position(b, c)] ELSE "missing"])
  /\ BatchEnds(b)

BatchSettles(b) == BatchFails(b) \/ \E n \in 0 .. Len(keys[b]) : BatchSucceeds(b, n)

\* clear(reason) resolves the loads of the line, not those of a batch.
ClearBatcher ==
  /\ timer' = FALSE /\ pending' = <<>>
  /\ Resolve(ToSet(pending), [c \in Clients |-> "cleared"])
  /\ UNCHANGED <<batch, keys, aborted>>

\* Erroneous variant: the load leaves a batch under way too, and the loads
\* behind it move up.
LeavesBatch(c) == batch' = [b \in Clients |-> LeaveLine(batch[b], c)] /\ UNCHANGED <<timer, keys>>

\* Erroneous variant: the load takes the timer of the others with it.
LeavesWithTimer(c) == timer' = FALSE /\ UNCHANGED <<batch, keys>>

\* What a load that aborts leaves as it is.
LeavesAlone(c) == UNCHANGED <<timer, batch, keys>>

\* The abort listener of a load: removePending() and resolve().
Abort(c) ==
  /\ Fire(c)
  /\ pending' = LeaveLine(pending, c)
  /\ Resolve({c}, [d \in {c} |-> "aborted"])
  /\ LeavesAlone(c)

BatcherNext ==
  \/ \E c \in Clients : Load(c) \/ LoadAborted(c) \/ Abort(c) \/ BatchSettles(c)
  \/ TimerFires \/ ClearBatcher

BatcherSpec == BatcherInit /\ [][BatcherNext]_batcherVars

\* Timers fire and loadMany() settles.
BatcherFairSpec == BatcherSpec /\ WF_batcherVars(TimerFires) /\ \A b \in Clients : WF_batcherVars(BatchSettles(b))

-----------------------------------------------------------------------------
BatcherTypeOK ==
  /\ pending \in Seq(Clients) /\ Len(pending) < MaxBatchSize
  /\ timer \in BOOLEAN
  /\ batch \in [Clients -> Seq(Clients)]
  /\ keys \in [Clients -> Seq(Clients)]
  /\ answer \in [Clients -> {"new", "waiting"} \cup Failures \cup Clients]
  /\ aborted \subseteq AbortableClients

\* A load that resolves with a value gets the value of its own key, whatever
\* loads of its batch were aborted meanwhile and however few values came
\* (src/batcher.ts:117-128).
OwnValue == \A c \in Clients : answer[c] \in Clients => answer[c] = c

\* A load without an answer is in the line or in a batch under way, and a line
\* that is not empty has a timer (src/batcher.ts:80-92, 183-191), whatever
\* became of the loads beside it.
NobodyForgotten ==
  /\ \A c \in Clients : answer[c] = "waiting" =>
       c \in ToSet(pending) \/ \E b \in Clients : c \in ToSet(batch[b])
  /\ pending # <<>> => timer

\* Every load is answered in the end.
Answered == \A c \in Clients : answer[c] = "waiting" ~> answer[c] # "waiting"
=============================================================================
