--------------------------- MODULE TimeoutSignal ---------------------------
(***************************************************************************)
(* The timeout signals of src/signal.ts.  There are two of them, one       *)
(* derived from the other: Outer, which withTimeout() makes for a caller   *)
(* that may abort, and Inner, which fetchSafe() makes below it.  Firing a  *)
(* signal runs its listeners at once, so an abort reaches Inner in the     *)
(* step that aborts Outer.                                                 *)
(***************************************************************************)

Outer == "outer"
Inner == "inner"
Timeouts == {Outer, Inner}

VARIABLES
  callerAborted, \* the caller's own signal
  signal,        \* each derived signal: "none", "live", "timeout" or "parent"
  timer,         \* timeouts whose timer is armed
  linked         \* timeouts with a listener on the signal they derive from

timeoutVars == <<callerAborted, signal, timer, linked>>

TimeoutInit ==
  /\ callerAborted = FALSE
  /\ signal = [t \in Timeouts |-> "none"]
  /\ timer = {} /\ linked = {}

Aborted(t) == signal[t] \in {"timeout", "parent"}
ParentAborted(t) == IF t = Outer THEN callerAborted ELSE Aborted(Outer)

\* createTimeoutSignal(): a signal whose parent has fired is born aborted,
\* without a timer or a listener.
CreateTimeoutSignal(t) ==
  /\ signal[t] = "none"
  /\ \/ /\ ParentAborted(t)
        /\ signal' = [signal EXCEPT ![t] = "parent"]
        /\ UNCHANGED <<timer, linked>>
     \/ /\ ~ParentAborted(t)
        /\ signal' = [signal EXCEPT ![t] = "live"]
        /\ timer' = timer \cup {t} /\ linked' = linked \cup {t}
  /\ UNCHANGED callerAborted

\* Erroneous variant: the listener stays on the parent signal.
ReleaseTimers(some) == timer' = timer \ some /\ UNCHANGED linked

\* [Symbol.dispose]
Release(some) == timer' = timer \ some /\ linked' = linked \ some

Dispose(t) == Release({t}) /\ UNCHANGED <<callerAborted, signal>>

\* The signals that an abort of t reaches: its own and the linked one below.
Reached(t) == {t} \cup (IF t = Outer THEN linked \cap {Inner} ELSE {})

\* abort(): a live signal fires and is disposed of, with those below it.
AbortSignal(t, why) ==
  /\ signal' = [u \in Timeouts |->
       IF u = t /\ ~Aborted(t) THEN why
       ELSE IF u \in Reached(t) /\ ~Aborted(u) THEN "parent" ELSE signal[u]]
  /\ Release(Reached(t))

TimeoutFires(t) ==
  /\ t \in timer
  /\ AbortSignal(t, "timeout")
  /\ UNCHANGED callerAborted

CallerAborts ==
  /\ ~callerAborted /\ callerAborted' = TRUE
  /\ \/ Outer \in linked /\ AbortSignal(Outer, "parent")
     \/ Outer \notin linked /\ UNCHANGED <<signal, timer, linked>>

TimeoutTypeOK ==
  /\ callerAborted \in BOOLEAN
  /\ signal \in [Timeouts -> {"none", "live", "timeout", "parent"}]
  /\ timer \subseteq Timeouts /\ linked \subseteq Timeouts
=============================================================================
