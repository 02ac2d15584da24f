------------------------------- MODULE Cache -------------------------------
(***************************************************************************)
(* The read-through cache of src/cache.ts (createCache): a Map of entries  *)
(* in the order of their last use, and an in-flight map that is the one of *)
(* SingleFlight line for line.  The loads are flights; a load that settles *)
(* with a value stores it in the same step, whatever became of its         *)
(* controller meanwhile.  Values are abstracted to the time they were      *)
(* stored; the hit and miss counters, which nothing reads, are left out.   *)
(***************************************************************************)
EXTENDS SingleFlight, Sequences, SequencesExt

CONSTANTS
  MaxSize, \* options.maxSize
  TTL,     \* options.ttlMs, in clock ticks
  MaxTime  \* bound on the clock

ASSUME CacheAssumption == MaxSize \in Nat \ {0} /\ TTL \in Nat /\ MaxTime \in Nat

VARIABLES
  entries,   \* the Map, least recently used first
  now,
  usedBefore \* history: pairs of cached keys, the first last used before the second

cacheOnly == <<entries, usedBefore>>
vars == <<flightVars, cacheOnly, now>>

Init ==
  /\ FlightInit
  /\ entries = <<>>
  /\ now = 0
  /\ usedBefore = {}

\* An entry also records when its value was stored: a history component.
Entry == [key : Keys, expiresAt : Nat, storedAt : Nat]

KeysIn(map) == {map[i].key : i \in DOMAIN map}
PositionOf(k, map) == CHOOSE i \in DOMAIN map : map[i].key = k
Without(map, k) == IF k \in KeysIn(map) THEN RemoveAt(map, PositionOf(k, map)) ELSE map
EntryOf(k) == entries[PositionOf(k, entries)]

\* The history after the Map became `map`, with k used last.
Used(k, map) ==
  usedBefore' = {p \in usedBefore : {p[1], p[2]} \subseteq KeysIn(map) \ {k}}
                  \cup ((KeysIn(map) \ {k}) \X {k})

\* The entry of k leaves the Map.
Drop(k) ==
  /\ entries' = Without(entries, k)
  /\ usedBefore' = {p \in usedBefore : k \notin {p[1], p[2]}}

Fresh(k) == k \in KeysIn(entries) /\ EntryOf(k).expiresAt > now

\* Erroneous variant: a hit leaves the entry where it is.
LookupInPlace(k) ==
  \/ Fresh(k) /\ UNCHANGED entries /\ Used(k, entries)
  \/ ~Fresh(k) /\ Drop(k)

\* Erroneous variant: a hit starts the time to live anew.
LookupRenews(k) ==
  \/ /\ Fresh(k)
     /\ entries' = Append(Without(entries, k), [EntryOf(k) EXCEPT !.expiresAt = now + TTL])
     /\ Used(k, entries')
  \/ ~Fresh(k) /\ Drop(k)

\* getFreshEntry(): a fresh entry moves to the end of the Map, an expired one
\* is deleted.
Lookup(k) ==
  \/ /\ Fresh(k)
     /\ entries' = Append(Without(entries, k), EntryOf(k))
     /\ Used(k, entries')
  \/ /\ ~Fresh(k)
     /\ Drop(k)

\* loadFresh()
LoadFresh(c, k) == Run(c, k)

\* get(key): a hit answers at once, a miss loads or joins a load.
Get(c, k) ==
  /\ joined[c] = NoFlight
  /\ Lookup(k)
  /\ \/ Fresh(k) /\ UNCHANGED flightVars
     \/ ~Fresh(k) /\ LoadFresh(c, k)
  /\ UNCHANGED now

Has(k) == Lookup(k) /\ UNCHANGED <<flightVars, now>>

Refresh(c, k) ==
  /\ Drop(k)
  /\ LoadFresh(c, k)
  /\ UNCHANGED now

\* store(): Map.set() leaves a key that is present where it is; the oldest
\* entry makes room.
Store(k) ==
  LET new == [key |-> k, expiresAt |-> now + TTL, storedAt |-> now]
      stored == IF k \in KeysIn(entries)
                THEN [i \in DOMAIN entries |-> IF entries[i].key = k THEN new ELSE entries[i]]
                ELSE Append(entries, new)
  IN
  /\ entries' = IF Len(stored) > MaxSize THEN Tail(stored) ELSE stored
  /\ Used(k, entries')

\* A load settles: with a value that is stored, or with an error that is not.
LoadSettles(f) ==
  /\ OperationSettles(f)
  /\ Store(keyOf[f]) \/ UNCHANGED cacheOnly
  /\ UNCHANGED now

LoadStep(f) == (Begin(f) \/ Finally(f)) /\ UNCHANGED <<cacheOnly, now>>

Delete(k) ==
  /\ k \in KeysIn(entries) \/ inFlight[k] # NoFlight
  /\ Drop(k)
  /\ Forget({k})
  /\ UNCHANGED now

ClearCache ==
  /\ entries' = <<>> /\ usedBefore' = {}
  /\ Forget(Keys)
  /\ UNCHANGED now

\* The signal of the caller that started a load fires; the loads of a cache
\* have no signal in common.
StarterAborts(f) ==
  /\ Active(f) /\ SignalFires({f})
  /\ UNCHANGED <<parentAborted, cacheOnly, now>>

Tick == now < MaxTime /\ now' = now + 1 /\ UNCHANGED <<flightVars, cacheOnly>>

Next ==
  \/ \E c \in Calls, k \in Keys : Get(c, k) \/ Refresh(c, k)
  \/ \E k \in Keys : Has(k) \/ Delete(k)
  \/ \E f \in Flights : LoadStep(f) \/ LoadSettles(f) \/ StarterAborts(f)
  \/ ClearCache
  \/ Tick

Spec == Init /\ [][Next]_vars

-----------------------------------------------------------------------------
TypeOK ==
  /\ FlightTypeOK
  /\ entries \in Seq(Entry) /\ Len(entries) <= MaxSize
  /\ now \in 0 .. MaxTime
  /\ usedBefore \subseteq Keys \X Keys

\* Keys stand in a map once each and in the order of their last use, but for
\* those in `some`.
InOrderOfUse(map, before, some) ==
  \A i, j \in DOMAIN map : i < j =>
    /\ map[i].key # map[j].key
    /\ {map[i].key, map[j].key} \cap some = {} =>
         <<map[i].key, map[j].key>> \in before /\ <<map[j].key, map[i].key>> \notin before

\* The cache holds a key once, never more keys than it may, and evicts in the
\* order of last use: of two keys neither of which was cleared under a load,
\* the Map has the one first that was last read or stored before the other,
\* whatever the loads of other keys do (src/cache.ts:113-135).
LeastRecentlyUsedFirst ==
  Len(entries) <= MaxSize /\ InOrderOfUse(entries, usedBefore, cleared)

\* No value can be served once it is older than its time to live, however
\* often it was read meanwhile.
HitsAreFresh == \A i \in DOMAIN entries : entries[i].expiresAt > now => now - entries[i].storedAt < TTL

\* "delete(key) removes cached and in-flight work for the key, aborting an
\* in-flight load" (docs/content/docs/reference/cache.mdx:38): only a load that
\* is still in the in-flight map fills the cache.
DeleteRemovesLoad ==
  [][\A k \in Keys :
       k \in KeysIn(entries') \ KeysIn(entries) =>
         /\ inFlight[k] # NoFlight
         /\ phase[inFlight[k]] = "running" /\ phase'[inFlight[k]] = "settled"]_vars
=============================================================================
