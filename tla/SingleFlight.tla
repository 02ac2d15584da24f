---------------------------- MODULE SingleFlight ----------------------------
(***************************************************************************)
(* The in-flight map of src/singleflight.ts (singleFlight): calls with the *)
(* same key share one flight.  A flight is the promise run() makes: its    *)
(* operation starts in a later microtask, settles whenever it likes (an    *)
(* abort is only a request), and its finally callback runs in a microtask  *)
(* after that.  Between any two of these steps other calls may run, clear  *)
(* or join.  A flight whose callers have their result can be used again.   *)
(***************************************************************************)
EXTENDS Naturals, FiniteSets

CONSTANTS
  Keys,
  Calls,    \* callers, each with one call at a time
  Flights,  \* bounds the flights that are active at once
  NoFlight,
  NoKey

ASSUME FlightAssumption == NoFlight \notin Flights /\ NoKey \notin Keys

VARIABLES
  inFlight,      \* the map: key -> flight, or NoFlight
  phase,         \* where each flight stands
  keyOf,         \* the key an active flight was started for
  cancelled,     \* flights whose controller is aborted
  joined,        \* the flight each call waits for
  parentAborted, \* options.signal
  cleared        \* history: keys cleared at some time

flightVars == <<inFlight, phase, keyOf, cancelled, joined, parentAborted, cleared>>

Active(f) == phase[f] # "unused"

FlightInit ==
  /\ inFlight = [k \in Keys |-> NoFlight]
  /\ phase = [f \in Flights |-> "unused"]
  /\ keyOf = [f \in Flights |-> NoKey]
  /\ cancelled = {}
  /\ joined = [c \in Calls |-> NoFlight]
  /\ parentAborted = FALSE
  /\ cleared = {}

\* run(...args): join the flight of the key, or start one.
Join(c, k) ==
  /\ inFlight[k] # NoFlight
  /\ joined' = [joined EXCEPT ![c] = inFlight[k]]
  /\ UNCHANGED <<inFlight, phase, keyOf, cancelled, parentAborted, cleared>>

Start(c, k) ==
  /\ inFlight[k] = NoFlight
  /\ \E f \in Flights :
       /\ ~Active(f)
       /\ inFlight' = [inFlight EXCEPT ![k] = f]
       /\ phase' = [phase EXCEPT ![f] = "scheduled"]
       /\ keyOf' = [keyOf EXCEPT ![f] = k]
       /\ joined' = [joined EXCEPT ![c] = f]
       /\ cancelled' = IF parentAborted THEN cancelled \cup {f} ELSE cancelled
       /\ UNCHANGED <<parentAborted, cleared>>

Run(c, k) ==
  /\ joined[c] = NoFlight
  /\ Join(c, k) \/ Start(c, k)

\* The first microtask: an aborted flight settles without calling operation.
Begin(f) ==
  /\ phase[f] = "scheduled"
  /\ phase' = [phase EXCEPT ![f] = IF f \in cancelled THEN "settled" ELSE "running"]
  /\ UNCHANGED <<inFlight, keyOf, cancelled, joined, parentAborted, cleared>>

OperationSettles(f) ==
  /\ phase[f] = "running"
  /\ phase' = [phase EXCEPT ![f] = "settled"]
  /\ UNCHANGED <<inFlight, keyOf, cancelled, joined, parentAborted, cleared>>

\* Erroneous variant: a cancelled flight leaves its entry behind.
FinallyKeepsCancelled(f) ==
  /\ phase[f] = "settled"
  /\ phase' = [phase EXCEPT ![f] = "unused"]
  /\ inFlight' = IF f \in cancelled THEN inFlight ELSE [inFlight EXCEPT ![keyOf[f]] = NoFlight]
  /\ joined' = [c \in Calls |-> IF joined[c] = f THEN NoFlight ELSE joined[c]]
  /\ keyOf' = [keyOf EXCEPT ![f] = NoKey]
  /\ cancelled' = cancelled \ {f}
  /\ UNCHANGED <<parentAborted, cleared>>

\* The finally callback deletes the entry of the key, whichever flight that
\* entry is, and the callers get the result.
Finally(f) ==
  /\ phase[f] = "settled"
  /\ phase' = [phase EXCEPT ![f] = "unused"]
  /\ inFlight' = [inFlight EXCEPT ![keyOf[f]] = NoFlight]
  /\ joined' = [c \in Calls |-> IF joined[c] = f THEN NoFlight ELSE joined[c]]
  /\ keyOf' = [keyOf EXCEPT ![f] = NoKey]
  /\ cancelled' = cancelled \ {f}
  /\ UNCHANGED <<parentAborted, cleared>>

\* clear(...args), and for every key at once clearAll().
Forget(ks) ==
  /\ cancelled' = cancelled \cup ({inFlight[k] : k \in ks} \ {NoFlight})
  /\ inFlight' = [k \in Keys |-> IF k \in ks THEN NoFlight ELSE inFlight[k]]
  /\ cleared' = cleared \cup {k \in ks : inFlight[k] # NoFlight}
  /\ UNCHANGED <<phase, keyOf, joined, parentAborted>>

Clear(k) == inFlight[k] # NoFlight /\ Forget({k})
ClearAll == (\E k \in Keys : inFlight[k] # NoFlight) /\ Forget(Keys)

\* Erroneous variant: an aborted flight is taken out of the map at once.
SignalForgets(flights) ==
  /\ cancelled' = cancelled \cup flights
  /\ inFlight' = [k \in Keys |-> IF inFlight[k] \in flights THEN NoFlight ELSE inFlight[k]]
  /\ UNCHANGED <<phase, keyOf, joined, cleared>>

\* A signal linked to the controllers of some flights fires.
SignalFires(flights) ==
  /\ cancelled' = cancelled \cup flights
  /\ UNCHANGED <<inFlight, phase, keyOf, joined, cleared>>

\* options.signal fires, which also aborts the flights that start later.
ParentAborts ==
  /\ ~parentAborted
  /\ parentAborted' = TRUE
  /\ SignalFires({f \in Flights : Active(f)})

FlightStep(f) == Begin(f) \/ OperationSettles(f) \/ Finally(f)

FlightNext ==
  \/ \E c \in Calls, k \in Keys : Run(c, k)
  \/ \E f \in Flights : FlightStep(f)
  \/ \E k \in Keys : Clear(k)
  \/ ClearAll
  \/ ParentAborts

FlightSpec == FlightInit /\ [][FlightNext]_flightVars

-----------------------------------------------------------------------------
FlightTypeOK ==
  /\ inFlight \in [Keys -> Flights \cup {NoFlight}]
  /\ phase \in [Flights -> {"unused", "scheduled", "running", "settled"}]
  /\ keyOf \in [Flights -> Keys \cup {NoKey}]
  /\ cancelled \subseteq Flights
  /\ joined \in [Calls -> Flights \cup {NoFlight}]
  /\ parentAborted \in BOOLEAN
  /\ cleared \subseteq Keys

\* The map never holds a flight that is over or that serves another key, and
\* nobody waits for a flight that is over.
NoDeadEntry ==
  /\ \A k \in Keys : inFlight[k] # NoFlight => Active(inFlight[k]) /\ keyOf[inFlight[k]] = k
  /\ \A c \in Calls : joined[c] # NoFlight => Active(joined[c])

\* As long as a key has never been cleared, all its calls share one flight,
\* and clear() could still reach it.
SharedUnlessCleared ==
  \A f \in Flights :
    Active(f) /\ keyOf[f] \notin cleared => inFlight[keyOf[f]] = f

\* "Deduplicates concurrent calls with the same key so only one operation runs
\* at a time" (src/singleflight.ts:62-65): of two operations running for one
\* key at least one has been told to stop by clear().
OneOperationPerKey ==
  \A f, g \in Flights :
    f # g /\ keyOf[f] = keyOf[g] /\ phase[f] = "running" /\ phase[g] = "running"
      => f \in cancelled \/ g \in cancelled
=============================================================================
