----------------------------- MODULE LoadProofs -----------------------------
(***************************************************************************)
(* Theorems about loads that are shared: the in-flight map of singleFlight *)
(* and of the cache, what the cache holds, and the batches of the batcher. *)
(* finally() deletes the entry of its key without looking whose it is; the *)
(* theorems show that this is harmless as long as the key is not cleared.  *)
(***************************************************************************)
EXTENDS Cache, Batcher, WaitingLineProofs

\* NoDeadEntry and SharedUnlessCleared need each other: a finished flight may
\* delete the entry of its key because that entry is its own.
FlightInv ==
  /\ FlightTypeOK
  /\ NoDeadEntry
  /\ SharedUnlessCleared
  /\ \A f \in Flights : Active(f) => keyOf[f] \in Keys

\* Nothing is in flight at first.
LEMMA FlightInitInv == FlightInit => FlightInv
  BY FlightAssumption
  DEF FlightInit, FlightInv, FlightTypeOK, NoDeadEntry, SharedUnlessCleared, Active

\* A call joins the flight of its key or starts one.
LEMMA RunInv ==
  ASSUME FlightInv, NEW c \in Calls, NEW k \in Keys, Run(c, k)
  PROVE  FlightInv'
<1> USE FlightAssumption DEF FlightInv, FlightTypeOK, NoDeadEntry, SharedUnlessCleared, Active
<1>1. CASE Join(c, k)
  BY <1>1 DEF Join
<1>2. CASE Start(c, k)
  <2>1. PICK f \in Flights :
          /\ phase[f] = "unused"
          /\ inFlight' = [inFlight EXCEPT ![k] = f]
          /\ phase' = [phase EXCEPT ![f] = "scheduled"]
          /\ keyOf' = [keyOf EXCEPT ![f] = k]
          /\ joined' = [joined EXCEPT ![c] = f]
          /\ cancelled' = IF parentAborted THEN cancelled \cup {f} ELSE cancelled
          /\ UNCHANGED <<parentAborted, cleared>>
    BY <1>2 DEF Start
  <2>2. inFlight[k] = NoFlight
    BY <1>2 DEF Start
  <2>3. FlightTypeOK'
    BY <2>1
  <2>4. NoDeadEntry'
    BY <2>1
  <2>5. SharedUnlessCleared'
    BY <2>1, <2>2
  <2>6. (\A g \in Flights : Active(g) => keyOf[g] \in Keys)'
    BY <2>1
  <2> QED
    BY <2>3, <2>4, <2>5, <2>6
<1> QED
  BY <1>1, <1>2 DEF Run

\* A flight starts its operation, or the operation settles.
LEMMA ProgressInv ==
  ASSUME FlightInv, NEW f \in Flights, Begin(f) \/ OperationSettles(f)
  PROVE  FlightInv'
  BY DEF FlightInv, FlightTypeOK, NoDeadEntry, SharedUnlessCleared, Active, Begin, OperationSettles

\* The finally callback.
LEMMA FinallyInv ==
  ASSUME FlightInv, NEW f \in Flights, Finally(f)
  PROVE  FlightInv'
<1> USE FlightAssumption DEF FlightInv, FlightTypeOK, Active, Finally
<1>1. FlightTypeOK'
  OBVIOUS
<1>2. NoDeadEntry'
  BY DEF NoDeadEntry
<1>3. ASSUME NEW g \in Flights, Active(g)', keyOf'[g] \notin cleared'
      PROVE  inFlight'[keyOf'[g]] = g
  <2>1. g # f /\ Active(g) /\ keyOf'[g] = keyOf[g] /\ keyOf[g] \notin cleared
    BY <1>3
  <2>2. inFlight[keyOf[g]] = g
    BY <2>1 DEF SharedUnlessCleared
  <2>3. keyOf[g] # keyOf[f]
    <3>1. CASE keyOf[f] \in cleared
      BY <2>1, <3>1
    <3>2. CASE keyOf[f] \notin cleared
      BY <2>1, <2>2, <3>2 DEF SharedUnlessCleared
    <3> QED
      BY <3>1, <3>2
  <2> QED
    BY <2>1, <2>2, <2>3
<1>4. (\A g \in Flights : Active(g) => keyOf[g] \in Keys)'
  OBVIOUS
<1> QED
  BY <1>1, <1>2, <1>3, <1>4 DEF SharedUnlessCleared

\* clear(), delete(), clearAll(): the keys that were in the map are cleared.
LEMMA ForgetInv ==
  ASSUME FlightInv, NEW ks \in SUBSET Keys, Forget(ks)
  PROVE  FlightInv'
<1> USE FlightAssumption DEF FlightInv, FlightTypeOK, Active, Forget
<1>1. FlightTypeOK'
  OBVIOUS
<1>2. NoDeadEntry'
  BY DEF NoDeadEntry
<1>3. SharedUnlessCleared'
  BY DEF SharedUnlessCleared
<1>4. (\A g \in Flights : Active(g) => keyOf[g] \in Keys)'
  OBVIOUS
<1> QED
  BY <1>1, <1>2, <1>3, <1>4

\* An abort signal only asks.
LEMMA SignalInv ==
  ASSUME FlightInv, NEW flights \in SUBSET Flights, SignalFires(flights), parentAborted' \in BOOLEAN
  PROVE  FlightInv'
  BY DEF FlightInv, FlightTypeOK, NoDeadEntry, SharedUnlessCleared, Active, SignalFires

\* A step that is not about flights.
LEMMA FlightStutter == ASSUME FlightInv, UNCHANGED flightVars PROVE FlightInv'
  BY DEF FlightInv, FlightTypeOK, NoDeadEntry, SharedUnlessCleared, Active, flightVars

\* Until a key is cleared all its calls share one flight, which clear() can
\* reach, and the map never holds a flight that is over: for singleFlight
\* (src/singleflight.ts:66-147).
THEOREM SingleFlightShares == FlightSpec => [](NoDeadEntry /\ SharedUnlessCleared)
<1>1. ASSUME FlightInv, [FlightNext]_flightVars PROVE FlightInv'
  <2>1. ASSUME NEW c \in Calls, NEW k \in Keys, Run(c, k) PROVE FlightInv'
    BY <1>1, <2>1, RunInv
  <2>2. ASSUME NEW f \in Flights, FlightStep(f) PROVE FlightInv'
    BY <1>1, <2>2, ProgressInv, FinallyInv DEF FlightStep
  <2>3. ASSUME NEW k \in Keys, Clear(k) PROVE FlightInv'
    BY <1>1, <2>3, ForgetInv, {k} \in SUBSET Keys DEF Clear
  <2>4. CASE ClearAll
    BY <1>1, <2>4, ForgetInv DEF ClearAll
  <2>5. CASE ParentAborts
    BY <1>1, <2>5, SignalInv, {f \in Flights : Active(f)} \in SUBSET Flights DEF ParentAborts
  <2>6. CASE UNCHANGED flightVars
    BY <1>1, <2>6, FlightStutter
  <2> QED
    BY <1>1, <2>1, <2>2, <2>3, <2>4, <2>5, <2>6 DEF FlightNext
<1>2. FlightInv => NoDeadEntry /\ SharedUnlessCleared
  BY DEF FlightInv
<1> QED
  BY <1>1, <1>2, FlightInitInv, PTL DEF FlightSpec

\* The cache takes the steps of its flights only.
LEMMA FlightKept == ASSUME FlightInv, [Next]_vars PROVE FlightInv'
<1>1. ASSUME NEW c \in Calls, NEW k \in Keys, Get(c, k) \/ Refresh(c, k) PROVE FlightInv'
  BY <1>1, RunInv, FlightStutter DEF Get, Refresh, LoadFresh
<1>2. ASSUME NEW k \in Keys, Has(k) PROVE FlightInv'
  BY <1>2, FlightStutter DEF Has
<1>3. ASSUME NEW k \in Keys, Delete(k) PROVE FlightInv'
  BY <1>3, ForgetInv, {k} \in SUBSET Keys DEF Delete
<1>4. ASSUME NEW f \in Flights, LoadStep(f) \/ LoadSettles(f) PROVE FlightInv'
  BY <1>4, ProgressInv, FinallyInv DEF LoadStep, LoadSettles
<1>5. ASSUME NEW f \in Flights, StarterAborts(f) PROVE FlightInv'
  BY <1>5, SignalInv, {f} \in SUBSET Flights
  DEF StarterAborts, FlightInv, FlightTypeOK
<1>6. CASE ClearCache
  BY <1>6, ForgetInv DEF ClearCache
<1>7. CASE Tick
  BY <1>7, FlightStutter DEF Tick
<1>8. CASE UNCHANGED vars
  BY <1>8, FlightStutter DEF vars
<1> QED
  BY <1>1, <1>2, <1>3, <1>4, <1>5, <1>6, <1>7, <1>8 DEF Next

\* The same for the loads of the cache (src/cache.ts:121-245).
THEOREM CacheShares == Spec => [](NoDeadEntry /\ SharedUnlessCleared)
<1>1. FlightInv /\ [Next]_vars => FlightInv'
  BY FlightKept
<1>2. FlightInv => NoDeadEntry /\ SharedUnlessCleared
  BY DEF FlightInv
<1> QED
  BY <1>1, <1>2, FlightInitInv, PTL DEF Spec, Init

-----------------------------------------------------------------------------
\* An entry whose time to live runs from the moment its value was stored.
Stamped == {e \in Entry : e.expiresAt = e.storedAt + TTL}

\* What freshness rests on.
FreshInv == FlightInv /\ entries \in Seq(Stamped) /\ now \in Nat

\* Deleting a key keeps the other entries as they are.
LEMMA WithoutKeeps ==
  ASSUME NEW S, NEW map \in Seq(S), NEW k
  PROVE  Without(map, k) \in Seq(S)
<1>1. CASE k \in KeysIn(map)
  <2> DEFINE p == PositionOf(k, map)
  <2>1. p \in 1 .. Len(map)
    BY <1>1, LenProperties DEF KeysIn, PositionOf
  <2> HIDE DEF p
  <2>2. SubSeq(map, 1, p - 1) \in Seq(S)
    <3>1. \A i \in 1 .. p - 1 : map[i] \in S
      BY <2>1, ElementOfSeq, LenProperties
    <3> QED
      BY <2>1, <3>1, SubSeqProperties, LenProperties
  <2>3. SubSeq(map, p + 1, Len(map)) \in Seq(S)
    <3>1. \A i \in p + 1 .. Len(map) : map[i] \in S
      BY <2>1, ElementOfSeq, LenProperties
    <3> QED
      BY <2>1, <3>1, SubSeqProperties, LenProperties
  <2> QED
    BY <1>1, <2>2, <2>3, ConcatProperties DEF Without, RemoveAt, p
<1>2. CASE k \notin KeysIn(map)
  BY <1>2 DEF Without
<1> QED
  BY <1>1, <1>2

\* A hit moves an entry to the end as it is, a miss drops it.
LEMMA LookupStamped == ASSUME FreshInv, NEW k \in Keys, Lookup(k) PROVE entries' \in Seq(Stamped)
<1>1. Without(entries, k) \in Seq(Stamped)
  BY WithoutKeeps DEF FreshInv
<1>2. CASE Fresh(k) /\ entries' = Append(Without(entries, k), EntryOf(k))
  <2>1. PositionOf(k, entries) \in 1 .. Len(entries)
    BY <1>2, LenProperties DEF Fresh, KeysIn, PositionOf, FreshInv
  <2>2. EntryOf(k) \in Stamped
    BY <2>1, ElementOfSeq DEF EntryOf, FreshInv
  <2> QED
    BY <1>1, <1>2, <2>2, AppendProperties
<1>3. CASE Drop(k)
  BY <1>1, <1>3 DEF Drop
<1> QED
  BY <1>2, <1>3 DEF Lookup

\* What a load stores is stamped with the present, and evicts the oldest.
LEMMA StoreStamped == ASSUME FreshInv, NEW k \in Keys, Store(k) PROVE entries' \in Seq(Stamped)
<1> DEFINE new == [key |-> k, expiresAt |-> now + TTL, storedAt |-> now]
           stored == IF k \in KeysIn(entries)
                     THEN [i \in DOMAIN entries |->
                             IF entries[i].key = k THEN new ELSE entries[i]]
                     ELSE Append(entries, new)
<1>1. new \in Stamped
  BY CacheAssumption DEF FreshInv, Stamped, Entry
<1>2. entries' = IF Len(stored) > MaxSize THEN Tail(stored) ELSE stored
  BY DEF Store
<1>3. stored \in Seq(Stamped)
  <2>1. CASE k \in KeysIn(entries)
    <3> HIDE DEF new
    <3>1. \A i \in 1 .. Len(entries) : entries[i] \in Stamped
      BY ElementOfSeq DEF FreshInv
    <3>2. [i \in 1 .. Len(entries) |-> IF entries[i].key = k THEN new ELSE entries[i]]
            \in [1 .. Len(entries) -> Stamped]
      BY <1>1, <3>1
    <3>3. DOMAIN entries = 1 .. Len(entries) /\ Len(entries) \in Nat
      BY LenProperties DEF FreshInv
    <3>4. [i \in 1 .. Len(entries) |-> IF entries[i].key = k THEN new ELSE entries[i]]
            \in Seq(Stamped)
      BY <3>2, <3>3, IsASeq
    <3> QED
      BY <2>1, <3>3, <3>4
  <2>2. CASE k \notin KeysIn(entries)
    <3> HIDE DEF new
    <3> QED
      BY <1>1, <2>2, AppendProperties DEF FreshInv
  <2> QED
    BY <2>1, <2>2
<1>4. stored # <<>> => Tail(stored) \in Seq(Stamped)
  <2> HIDE DEF stored
  <2> QED
    BY <1>3, HeadTailProperties
<1>5. Len(stored) > MaxSize => stored # <<>>
  <2> HIDE DEF stored
  <2> QED
    BY <1>3, EmptySeq, LenProperties, CacheAssumption
<1> HIDE DEF stored
<1> QED
  BY <1>2, <1>3, <1>4, <1>5

\* However often a value is read, moved or joined, it is never served once it
\* is older than its time to live, for any keys, any size of the cache and any
\* time to live (src/cache.ts:100-119, 174-190).
THEOREM NothingStaleIsServed == Spec => []HitsAreFresh
<1>1. Init => FreshInv
  BY FlightInitInv, EmptySeq DEF Init, FreshInv
<1>2. FreshInv /\ [Next]_vars => FreshInv'
  <2> SUFFICES ASSUME FreshInv, [Next]_vars PROVE FreshInv'
    OBVIOUS
  <2>1. FlightInv'
    BY FlightKept DEF FreshInv
  <2>2. ASSUME NEW k \in Keys, Drop(k) PROVE entries' \in Seq(Stamped)
    BY <2>2, WithoutKeeps DEF Drop, FreshInv
  <2>3. ASSUME NEW c \in Calls, NEW k \in Keys, Get(c, k) \/ Refresh(c, k) PROVE FreshInv'
    BY <2>1, <2>2, <2>3, LookupStamped DEF Get, Refresh, FreshInv
  <2>4. ASSUME NEW k \in Keys, Has(k) \/ Delete(k) PROVE FreshInv'
    BY <2>1, <2>2, <2>4, LookupStamped DEF Has, Delete, FreshInv
  <2>5. ASSUME NEW f \in Flights, LoadSettles(f) PROVE FreshInv'
    <3>1. keyOf[f] \in Keys
      BY <2>5 DEF LoadSettles, OperationSettles, FreshInv, FlightInv, Active
    <3> QED
      BY <2>1, <2>5, <3>1, StoreStamped DEF LoadSettles, cacheOnly, FreshInv
  <2>6. ASSUME NEW f \in Flights, LoadStep(f) \/ StarterAborts(f) PROVE FreshInv'
    BY <2>1, <2>6 DEF LoadStep, StarterAborts, cacheOnly, FreshInv
  <2>7. CASE ClearCache
    BY <2>1, <2>7, EmptySeq DEF ClearCache, FreshInv
  <2>8. CASE Tick
    BY <2>1, <2>8 DEF Tick, cacheOnly, FreshInv
  <2>9. CASE UNCHANGED vars
    BY <2>1, <2>9 DEF vars, cacheOnly, FreshInv
  <2> QED
    BY <2>3, <2>4, <2>5, <2>6, <2>7, <2>8, <2>9 DEF Next
<1>3. FreshInv => HitsAreFresh
  <2> SUFFICES ASSUME FreshInv, NEW i \in DOMAIN entries, entries[i].expiresAt > now
               PROVE  now - entries[i].storedAt < TTL
    BY DEF HitsAreFresh
  <2>1. entries[i] \in Stamped
    BY ElementOfSeq, LenProperties DEF FreshInv
  <2> QED
    BY <2>1, CacheAssumption DEF FreshInv, Stamped, Entry
<1> QED
  BY <1>1, <1>2, <1>3, PTL DEF Spec

-----------------------------------------------------------------------------

-----------------------------------------------------------------------------
\* A map whose entries are those of another, in the same order but perhaps
\* fewer.
Thinned(few, map) ==
  /\ \A i \in DOMAIN few : \E a \in DOMAIN map : few[i] = map[a]
  /\ \A i, j \in DOMAIN few : i < j =>
       \E a, b \in DOMAIN map : a < b /\ few[i] = map[a] /\ few[j] = map[b]

\* Order and distinctness survive that.
LEMMA ThinnedInOrder ==
  ASSUME NEW few, NEW map, Thinned(few, map), NEW before, NEW some,
         InOrderOfUse(map, before, some)
  PROVE  InOrderOfUse(few, before, some) /\ KeysIn(few) \subseteq KeysIn(map)
<1>1. ASSUME NEW i \in DOMAIN few, NEW j \in DOMAIN few, i < j
      PROVE  /\ few[i].key # few[j].key
             /\ {few[i].key, few[j].key} \cap some = {} =>
                  /\ <<few[i].key, few[j].key>> \in before
                  /\ <<few[j].key, few[i].key>> \notin before
  <2>1. PICK a \in DOMAIN map, b \in DOMAIN map : a < b /\ few[i] = map[a] /\ few[j] = map[b]
    BY <1>1 DEF Thinned
  <2> QED
    BY <2>1 DEF InOrderOfUse
<1>2. KeysIn(few) \subseteq KeysIn(map)
  BY DEF Thinned, KeysIn
<1> QED
  BY <1>1, <1>2 DEF InOrderOfUse

\* Deleting a key thins the map, and the key is gone.
LEMMA WithoutThins ==
  ASSUME NEW S, NEW map \in Seq(S), NEW k,
         \A i, j \in DOMAIN map : i < j => map[i].key # map[j].key
  PROVE  /\ Thinned(Without(map, k), map) /\ k \notin KeysIn(Without(map, k))
         /\ Len(Without(map, k)) <= Len(map)
         /\ k \in KeysIn(map) => Len(Without(map, k)) = Len(map) - 1
<1>1. Len(map) \in Nat /\ DOMAIN map = 1 .. Len(map)
  BY LenProperties
<1>2. CASE k \in KeysIn(map)
  <2> DEFINE p == PositionOf(k, map)
             few == RemoveAt(map, p)
  <2>1. p \in 1 .. Len(map) /\ map[p].key = k
    BY <1>1, <1>2 DEF KeysIn, PositionOf
  <2>2. Without(map, k) = few
    BY <1>2 DEF Without
  <2> HIDE DEF p
  <2>5. /\ few \in Seq(S) /\ Len(few) = Len(map) - 1
        /\ \A i \in 1 .. Len(map) - 1 : few[i] = IF i < p THEN map[i] ELSE map[i + 1]
    BY <2>1, RemoveAtProperties
  <2> HIDE DEF few
  <2> DEFINE from(i) == IF i < p THEN i ELSE i + 1
  <2>6. /\ DOMAIN few = 1 .. Len(map) - 1
        /\ \A i \in DOMAIN few : from(i) \in DOMAIN map /\ from(i) # p /\ few[i] = map[from(i)]
        /\ \A i, j \in DOMAIN few : i < j => from(i) < from(j)
    BY <1>1, <2>1, <2>5, LenProperties
  <2> HIDE DEF from
  <2>7. Thinned(few, map)
    BY <2>6 DEF Thinned
  <2>8. k \notin KeysIn(few)
    <3> SUFFICES ASSUME NEW i \in DOMAIN few, few[i].key = k PROVE FALSE
      BY DEF KeysIn
    <3>1. from(i) \in DOMAIN map /\ from(i) # p /\ map[from(i)].key = map[p].key /\ p \in DOMAIN map
      BY <1>1, <2>1, <2>6
    <3>2. from(i) < p \/ p < from(i)
      BY <1>1, <2>1, <3>1
    <3> QED
      BY <3>1, <3>2
  <2>9. Len(few) <= Len(map)
    BY <1>1, <2>5
  <2>10. Thinned(Without(map, k), map) /\ k \notin KeysIn(Without(map, k))
    BY <2>2, <2>7, <2>8
  <2>11. Len(Without(map, k)) = Len(map) - 1 /\ Len(Without(map, k)) <= Len(map)
    BY <2>2, <2>5, <2>9
  <2> QED
    BY <2>10, <2>11
<1>3. CASE k \notin KeysIn(map)
  <2>1. Without(map, k) = map
    BY <1>3 DEF Without
  <2>2. Thinned(map, map)
    BY DEF Thinned
  <2>3. Thinned(Without(map, k), map) /\ k \notin KeysIn(Without(map, k))
    BY <1>3, <2>1, <2>2
  <2>4. Len(Without(map, k)) <= Len(map)
    BY <1>1, <2>1
  <2> QED
    BY <1>3, <2>3, <2>4
<1> QED
  BY <1>2, <1>3

\* A map stays in order when its keys are related as before, and when more
\* keys are cleared.
LEMMA InOrderStill ==
  ASSUME NEW map, NEW before, NEW after, NEW some, NEW more, some \subseteq more,
         InOrderOfUse(map, before, some),
         \A a, b \in KeysIn(map) \ more : <<a, b>> \in after <=> <<a, b>> \in before
  PROVE  InOrderOfUse(map, after, more)
<1> SUFFICES ASSUME NEW i \in DOMAIN map, NEW j \in DOMAIN map, i < j
             PROVE  /\ map[i].key # map[j].key
                    /\ {map[i].key, map[j].key} \cap more = {} =>
                         /\ <<map[i].key, map[j].key>> \in after
                         /\ <<map[j].key, map[i].key>> \notin after
  BY DEF InOrderOfUse
<1>1. map[i].key # map[j].key
  BY DEF InOrderOfUse
<1>2. ASSUME {map[i].key, map[j].key} \cap more = {}
      PROVE  <<map[i].key, map[j].key>> \in after /\ <<map[j].key, map[i].key>> \notin after
  <2>1. map[i].key \in KeysIn(map) \ more /\ map[j].key \in KeysIn(map) \ more
    BY <1>2 DEF KeysIn
  <2>2. <<map[i].key, map[j].key>> \in before /\ <<map[j].key, map[i].key>> \notin before
    BY <1>2 DEF InOrderOfUse
  <2> QED
    BY <2>1, <2>2
<1> QED
  BY <1>1, <1>2

\* An entry whose key was used after all the others goes to the end.
LEMMA AppendInOrder ==
  ASSUME NEW S, NEW map \in Seq(S), NEW e \in S, NEW before, NEW some,
         InOrderOfUse(map, before, some), e.key \notin KeysIn(map),
         \A a \in KeysIn(map) : <<a, e.key>> \in before /\ <<e.key, a>> \notin before
  PROVE  InOrderOfUse(Append(map, e), before, some)
<1> DEFINE more == Append(map, e)
<1>1. /\ Len(map) \in Nat /\ DOMAIN map = 1 .. Len(map) /\ DOMAIN more = 1 .. Len(map) + 1
      /\ more[Len(map) + 1] = e /\ \A i \in DOMAIN map : more[i] = map[i]
  BY AppendProperties, LenProperties
<1> HIDE DEF more
<1> SUFFICES ASSUME NEW i \in DOMAIN more, NEW j \in DOMAIN more, i < j
             PROVE  /\ more[i].key # more[j].key
                    /\ {more[i].key, more[j].key} \cap some = {} =>
                         /\ <<more[i].key, more[j].key>> \in before
                         /\ <<more[j].key, more[i].key>> \notin before
  BY DEF InOrderOfUse, more
<1>2. i \in DOMAIN map /\ more[i] = map[i]
  BY <1>1
<1>3. CASE j \in DOMAIN map
  BY <1>1, <1>2, <1>3 DEF InOrderOfUse
<1>4. CASE j \notin DOMAIN map
  <2>1. more[j] = e
    BY <1>1, <1>4
  <2>2. map[i].key \in KeysIn(map)
    BY <1>2 DEF KeysIn
  <2> QED
    BY <1>2, <2>1, <2>2
<1> QED
  BY <1>3, <1>4

\* The keys of a map with one more entry.
LEMMA AppendKeys ==
  ASSUME NEW S, NEW map \in Seq(S), NEW e \in S
  PROVE  KeysIn(Append(map, e)) = KeysIn(map) \cup {e.key}
<1> DEFINE more == Append(map, e)
<1>1. /\ Len(map) \in Nat /\ DOMAIN map = 1 .. Len(map) /\ DOMAIN more = 1 .. Len(map) + 1
      /\ more[Len(map) + 1] = e /\ \A i \in DOMAIN map : more[i] = map[i]
  BY AppendProperties, LenProperties
<1> HIDE DEF more
<1>2. ASSUME NEW a \in KeysIn(more) PROVE a \in KeysIn(map) \cup {e.key}
  BY <1>1 DEF KeysIn
<1>3. ASSUME NEW a \in KeysIn(map) PROVE a \in KeysIn(more)
  <2>1. PICK i \in DOMAIN map : map[i].key = a
    BY DEF KeysIn
  <2>2. i \in DOMAIN more /\ more[i].key = a
    BY <1>1, <2>1
  <2> QED
    BY <2>2 DEF KeysIn
<1>4. e.key \in KeysIn(more)
  <2>1. Len(map) + 1 \in DOMAIN more /\ more[Len(map) + 1].key = e.key
    BY <1>1
  <2> QED
    BY <2>1 DEF KeysIn
<1> QED
  BY <1>2, <1>3, <1>4 DEF more

\* The first entry leaves.
LEMMA TailThins ==
  ASSUME NEW S, NEW map \in Seq(S), map # <<>>
  PROVE  /\ Tail(map) \in Seq(S) /\ Thinned(Tail(map), map) /\ Len(Tail(map)) = Len(map) - 1
         /\ \A e \in S : Tail(Append(map, e)) = Append(Tail(map), e)
<1>1. /\ Tail(map) \in Seq(S) /\ Len(Tail(map)) = Len(map) - 1
      /\ \A i \in 1 .. Len(map) - 1 : Tail(map)[i] = map[i + 1]
  BY HeadTailProperties
<1>2. Len(map) \in Nat /\ Len(map) > 0 /\ DOMAIN map = 1 .. Len(map) /\ DOMAIN Tail(map) = 1 .. Len(map) - 1
  BY <1>1, EmptySeq, LenProperties
<1>3. Thinned(Tail(map), map)
  <2> DEFINE few == Tail(map)
  <2>1. DOMAIN few = 1 .. Len(map) - 1 /\ \A i \in DOMAIN few : few[i] = map[i + 1]
    BY <1>1, <1>2
  <2> HIDE DEF few
  <2>2. \A i \in DOMAIN few : i + 1 \in DOMAIN map /\ few[i] = map[i + 1]
    BY <1>2, <2>1
  <2>3. \A i, j \in DOMAIN few : i < j => i + 1 < j + 1
    BY <2>1
  <2>4. Thinned(few, map)
    BY <2>2, <2>3 DEF Thinned
  <2> QED
    BY <2>4 DEF few
<1>4. ASSUME NEW e \in S PROVE Tail(Append(map, e)) = Append(Tail(map), e)
  BY HeadTailAppend
<1> QED
  BY <1>1, <1>3, <1>4

-----------------------------------------------------------------------------
\* The key of a load that is under way and was not cleared is not cached: the
\* load began because the key was missing or dropped, and only it could store.
NotCachedWhileLoading ==
  \A f \in Flights :
    phase[f] \in {"scheduled", "running"} /\ keyOf[f] \notin cleared =>
      keyOf[f] \notin KeysIn(entries)

\* The inductive invariant of the order of the entries.
OrderInv ==
  /\ FlightInv
  /\ entries \in Seq(Entry) /\ now \in Nat
  /\ LeastRecentlyUsedFirst
  /\ NotCachedWhileLoading

\* Cleared keys stay cleared, and a flight that is scheduled or running was
\* so before, with the same key, or has just been started.
Onward ==
  /\ cleared \subseteq cleared'
  /\ \A f \in Flights :
       phase'[f] \in {"scheduled", "running"} =>
         phase[f] \in {"scheduled", "running"} /\ keyOf'[f] = keyOf[f]

\* What a step keeps while no load starts and no key is added.
LEMMA NoKeyAdded ==
  ASSUME OrderInv, Onward, KeysIn(entries') \subseteq KeysIn(entries)
  PROVE  NotCachedWhileLoading'
<1> SUFFICES ASSUME NEW f \in Flights, phase'[f] \in {"scheduled", "running"},
                    keyOf'[f] \notin cleared'
             PROVE  keyOf'[f] \notin KeysIn(entries')
  BY DEF NotCachedWhileLoading
<1>1. phase[f] \in {"scheduled", "running"} /\ keyOf'[f] = keyOf[f] /\ keyOf[f] \notin cleared
  BY DEF Onward
<1> QED
  BY <1>1 DEF OrderInv, NotCachedWhileLoading

\* Which pairs the history holds once k was used last.
LEMMA UsedLast ==
  ASSUME NEW k, NEW map, Used(k, map)
  PROVE  /\ \A a, b \in KeysIn(map) \ {k} : <<a, b>> \in usedBefore' <=> <<a, b>> \in usedBefore
         /\ \A a \in KeysIn(map) \ {k} : <<a, k>> \in usedBefore' /\ <<k, a>> \notin usedBefore'
<1> DEFINE others == KeysIn(map) \ {k}
<1>1. usedBefore' = {p \in usedBefore : {p[1], p[2]} \subseteq others} \cup (others \X {k})
  BY DEF Used
<1>2. k \notin others
  OBVIOUS
<1> HIDE DEF others
<1>3. ASSUME NEW a \in others, NEW b \in others
      PROVE  <<a, b>> \in usedBefore' <=> <<a, b>> \in usedBefore
  BY <1>1, <1>2
<1>4. ASSUME NEW a \in others PROVE <<a, k>> \in usedBefore' /\ <<k, a>> \notin usedBefore'
  BY <1>1, <1>2
<1> QED
  BY <1>3, <1>4 DEF others

\* A key leaves.
LEMMA DropInOrder ==
  ASSUME OrderInv, NEW k, Drop(k), cleared \subseteq cleared'
  PROVE  /\ entries' \in Seq(Entry) /\ LeastRecentlyUsedFirst'
         /\ KeysIn(entries') \subseteq KeysIn(entries) \ {k}
<1>1. /\ entries \in Seq(Entry) /\ Len(entries) <= MaxSize
      /\ InOrderOfUse(entries, usedBefore, cleared)
      /\ \A i, j \in DOMAIN entries : i < j => entries[i].key # entries[j].key
  BY DEF OrderInv, LeastRecentlyUsedFirst, InOrderOfUse
<1> DEFINE few == Without(entries, k)
<1>2. /\ few \in Seq(Entry) /\ Thinned(few, entries) /\ k \notin KeysIn(few)
      /\ Len(few) <= Len(entries)
  BY <1>1, WithoutThins, WithoutKeeps
<1>3. entries' = few /\ usedBefore' = {p \in usedBefore : k \notin {p[1], p[2]}}
  BY DEF Drop
<1> HIDE DEF few
<1>4. InOrderOfUse(few, usedBefore, cleared) /\ KeysIn(few) \subseteq KeysIn(entries)
  BY <1>1, <1>2, ThinnedInOrder
<1>5. \A a, b \in KeysIn(few) : <<a, b>> \in usedBefore' <=> <<a, b>> \in usedBefore
  BY <1>2, <1>3
<1>6. InOrderOfUse(few, usedBefore', cleared')
  BY <1>4, <1>5, InOrderStill
<1>7. Len(few) <= MaxSize
  BY <1>1, <1>2, LenProperties, CacheAssumption
<1> QED
  BY <1>2, <1>3, <1>4, <1>6, <1>7 DEF LeastRecentlyUsedFirst

\* An entry goes to the end of what is left of the map, used last.
LEMMA UsedAtEnd ==
  ASSUME OrderInv, NEW few \in Seq(Entry), Thinned(few, entries), NEW e \in Entry,
         e.key \notin KeysIn(few), Len(few) < MaxSize,
         entries' = Append(few, e), Used(e.key, entries'), cleared \subseteq cleared'
  PROVE  /\ entries' \in Seq(Entry) /\ LeastRecentlyUsedFirst'
         /\ KeysIn(entries') \subseteq KeysIn(entries) \cup {e.key}
<1>1. InOrderOfUse(few, usedBefore, cleared) /\ KeysIn(few) \subseteq KeysIn(entries)
  BY ThinnedInOrder DEF OrderInv, LeastRecentlyUsedFirst
<1>2. KeysIn(entries') = KeysIn(few) \cup {e.key}
  BY AppendKeys
<1>3. /\ \A a, b \in KeysIn(few) : <<a, b>> \in usedBefore' <=> <<a, b>> \in usedBefore
      /\ \A a \in KeysIn(few) : <<a, e.key>> \in usedBefore' /\ <<e.key, a>> \notin usedBefore'
  BY <1>2, UsedLast
<1>4. InOrderOfUse(few, usedBefore', cleared')
  BY <1>1, <1>3, InOrderStill
<1>5. InOrderOfUse(entries', usedBefore', cleared')
  BY <1>3, <1>4, AppendInOrder
<1>6. entries' \in Seq(Entry) /\ Len(entries') <= MaxSize
  BY AppendProperties, LenProperties, CacheAssumption
<1> QED
  BY <1>1, <1>2, <1>5, <1>6 DEF LeastRecentlyUsedFirst

\* A read: a hit is used last, a miss is dropped.
LEMMA LookupInOrder ==
  ASSUME OrderInv, NEW k \in Keys, Lookup(k), cleared \subseteq cleared'
  PROVE  /\ entries' \in Seq(Entry) /\ LeastRecentlyUsedFirst'
         /\ KeysIn(entries') \subseteq KeysIn(entries) /\ (~Fresh(k) => k \notin KeysIn(entries'))
<1>1. CASE Fresh(k) /\ entries' = Append(Without(entries, k), EntryOf(k)) /\ Used(k, entries')
  <2>1. /\ entries \in Seq(Entry) /\ Len(entries) <= MaxSize
        /\ \A i, j \in DOMAIN entries : i < j => entries[i].key # entries[j].key
    BY DEF OrderInv, LeastRecentlyUsedFirst, InOrderOfUse
  <2>2. k \in KeysIn(entries)
    BY <1>1 DEF Fresh
  <2>3. PositionOf(k, entries) \in DOMAIN entries /\ entries[PositionOf(k, entries)].key = k
    BY <2>2 DEF KeysIn, PositionOf
  <2>4. EntryOf(k) \in Entry /\ EntryOf(k).key = k
    BY <2>1, <2>3, ElementOfSeq, LenProperties DEF EntryOf
  <2>5. /\ Without(entries, k) \in Seq(Entry) /\ Thinned(Without(entries, k), entries)
        /\ k \notin KeysIn(Without(entries, k)) /\ Len(Without(entries, k)) = Len(entries) - 1
    BY <2>1, <2>2, WithoutThins, WithoutKeeps
  <2>6. Len(Without(entries, k)) < MaxSize
    BY <2>1, <2>5, LenProperties, CacheAssumption
  <2> QED
    BY <1>1, <2>2, <2>4, <2>5, <2>6, UsedAtEnd
<1>2. CASE ~Fresh(k) /\ Drop(k)
  BY <1>2, DropInOrder
<1> QED
  BY <1>1, <1>2 DEF Lookup

\* A load stores its value: under a key that is cached already only if that
\* key was cleared, and otherwise last, in the place of the oldest if need be.
LEMMA StoreInOrder ==
  ASSUME OrderInv, NEW f \in Flights, phase[f] = "running", Store(keyOf[f]), UNCHANGED cleared
  PROVE  /\ entries' \in Seq(Entry) /\ LeastRecentlyUsedFirst'
         /\ KeysIn(entries') \subseteq KeysIn(entries) \cup {keyOf[f]}
<1> DEFINE k == keyOf[f]
           new == [key |-> k, expiresAt |-> now + TTL, storedAt |-> now]
           renewed == [i \in DOMAIN entries |-> IF entries[i].key = k THEN new ELSE entries[i]]
           more == Append(entries, new)
<1>0. MaxSize \in Nat /\ MaxSize > 0
  BY CacheAssumption
<1>1. /\ entries \in Seq(Entry) /\ Len(entries) <= MaxSize
      /\ InOrderOfUse(entries, usedBefore, cleared)
      /\ Len(entries) \in Nat /\ DOMAIN entries = 1 .. Len(entries)
  BY LenProperties DEF OrderInv, LeastRecentlyUsedFirst
<1>2. new \in Entry /\ new.key = k
  <2>1. k \in Keys
    BY DEF OrderInv, FlightInv, Active
  <2> QED
    BY <2>1, CacheAssumption DEF Entry, OrderInv
<1>3. CASE k \in KeysIn(entries)
  <2>1. k \in cleared
    BY <1>3 DEF OrderInv, NotCachedWhileLoading
  <2> HIDE DEF new, k
  <2>2. /\ renewed \in Seq(Entry) /\ DOMAIN renewed = DOMAIN entries /\ Len(renewed) = Len(entries)
        /\ \A i \in DOMAIN entries : renewed[i].key = entries[i].key
    <3>1. \A i \in DOMAIN entries : entries[i] \in Entry
      BY <1>1, ElementOfSeq
    <3>2. renewed \in [1 .. Len(entries) -> Entry]
      BY <1>1, <1>2, <3>1
    <3>3. renewed \in Seq(Entry)
      BY <1>1, <3>2, IsASeq
    <3>4. Len(renewed) = Len(entries)
      BY <1>1, <3>3, LenProperties
    <3> QED
      BY <1>2, <3>3, <3>4
  <2>3. entries' = renewed /\ Used(k, entries')
    <3>1. entries' = (IF Len(renewed) > MaxSize THEN Tail(renewed) ELSE renewed) /\ Used(k, entries')
      BY <1>3 DEF Store, k, new
    <3> HIDE DEF renewed
    <3>2. ~(Len(renewed) > MaxSize)
      BY <1>0, <1>1, <2>2
    <3> QED
      BY <3>1, <3>2
  <2> HIDE DEF renewed
  <2>4. KeysIn(renewed) = KeysIn(entries)
    BY <2>2 DEF KeysIn
  <2>5. InOrderOfUse(renewed, usedBefore, cleared)
    BY <1>1, <2>2 DEF InOrderOfUse
  <2>6. \A a, b \in KeysIn(renewed) \ cleared : <<a, b>> \in usedBefore' <=> <<a, b>> \in usedBefore
    BY <2>1, <2>3, UsedLast
  <2>7. InOrderOfUse(renewed, usedBefore', cleared)
    BY <2>5, <2>6, InOrderStill
  <2> QED
    BY <1>1, <2>2, <2>3, <2>4, <2>7 DEF LeastRecentlyUsedFirst
<1>4. CASE k \notin KeysIn(entries)
  <2> HIDE DEF new
  <2>1. more \in Seq(Entry) /\ Len(more) = Len(entries) + 1
    BY <1>1, <1>2, AppendProperties
  <2>2. entries' = (IF Len(more) > MaxSize THEN Tail(more) ELSE more) /\ Used(k, entries')
    BY <1>4 DEF Store, new
  <2>3. CASE Len(entries) = MaxSize
    <3>1. entries # <<>>
      BY <1>1, <2>3, EmptySeq, CacheAssumption
    <3>2. /\ Tail(entries) \in Seq(Entry) /\ Thinned(Tail(entries), entries)
          /\ Len(Tail(entries)) = Len(entries) - 1
          /\ Tail(more) = Append(Tail(entries), new)
      BY <1>1, <1>2, <3>1, TailThins
    <3>3. entries' = Append(Tail(entries), new) /\ Len(Tail(entries)) < MaxSize
      BY <1>1, <2>1, <2>2, <2>3, <3>2
    <3>4. k \notin KeysIn(Tail(entries))
      BY <1>1, <1>4, <3>2, ThinnedInOrder
    <3> QED
      BY <1>2, <2>2, <3>2, <3>3, <3>4, UsedAtEnd
  <2>4. CASE Len(entries) < MaxSize
    <3>1. entries' = more
      <4>1. ~(Len(more) > MaxSize)
        BY <1>0, <1>1, <2>1, <2>4
      <4> QED
        BY <2>2, <4>1
    <3>2. Thinned(entries, entries)
      BY DEF Thinned
    <3> QED
      BY <1>1, <1>2, <1>4, <2>2, <2>4, <3>1, <3>2, UsedAtEnd
  <2>5. Len(entries) = MaxSize \/ Len(entries) < MaxSize
    <3>1. \A l, m \in Nat : l <= m => l = m \/ l < m
      OBVIOUS
    <3> QED
      BY <1>0, <1>1, <3>1
  <2> QED
    BY <2>3, <2>4, <2>5
<1> QED
  BY <1>3, <1>4

\* A load that starts, for a key that is not cached, and the finally callback.
LEMMA RunOrFinally ==
  ASSUME OrderInv
  PROVE  /\ \A c \in Calls, k \in Keys : Run(c, k) =>
              /\ cleared' = cleared
              /\ \A f \in Flights : phase'[f] \in {"scheduled", "running"} =>
                   \/ phase[f] \in {"scheduled", "running"} /\ keyOf'[f] = keyOf[f]
                   \/ keyOf'[f] = k
         /\ \A f \in Flights : LoadStep(f) => Onward
<1>1. FlightTypeOK
  BY DEF OrderInv, FlightInv
<1>2. ASSUME NEW c \in Calls, NEW k \in Keys, Run(c, k)
      PROVE  /\ cleared' = cleared
             /\ \A f \in Flights : phase'[f] \in {"scheduled", "running"} =>
                  \/ phase[f] \in {"scheduled", "running"} /\ keyOf'[f] = keyOf[f]
                  \/ keyOf'[f] = k
  BY <1>1, <1>2 DEF Run, Join, Start, FlightTypeOK
<1>3. ASSUME NEW f \in Flights, LoadStep(f) PROVE Onward
  BY <1>1, <1>3 DEF LoadStep, Begin, Finally, Onward, FlightTypeOK
<1> QED
  BY <1>2, <1>3

\* Nothing is cached at first.
LEMMA OrderInitially == Init => OrderInv
BY FlightInitInv, EmptySeq, CacheAssumption
DEF Init, FlightInit, OrderInv, LeastRecentlyUsedFirst, InOrderOfUse, NotCachedWhileLoading

\* Every step of the cache keeps the order.
LEMMA OrderKeeps == OrderInv /\ [Next]_vars => OrderInv'
<1> SUFFICES ASSUME OrderInv, [Next]_vars PROVE OrderInv'
  OBVIOUS
<1> USE DEF OrderInv
<1>1. FlightInv'
  BY FlightKept
<1>2. ASSUME NEW k \in Keys, Has(k) PROVE OrderInv'
  <2>1. Onward /\ now' = now
    BY <1>2 DEF Has, flightVars, Onward
  <2>2. Lookup(k)
    BY <1>2 DEF Has
  <2> QED
    BY <1>1, <2>1, <2>2, LookupInOrder, NoKeyAdded DEF Onward
<1>3. ASSUME NEW k \in Keys, Delete(k) PROVE OrderInv'
  <2>1. Onward /\ now' = now
    BY <1>3 DEF Delete, Forget, Onward
  <2>2. Drop(k)
    BY <1>3 DEF Delete
  <2> QED
    BY <1>1, <2>1, <2>2, DropInOrder, NoKeyAdded DEF Onward
<1>4. ASSUME NEW c \in Calls, NEW k \in Keys, Get(c, k), Fresh(k) PROVE OrderInv'
  <2>1. Onward /\ now' = now
    BY <1>4 DEF Get, flightVars, Onward
  <2>2. Lookup(k)
    BY <1>4 DEF Get
  <2> QED
    BY <1>1, <2>1, <2>2, LookupInOrder, NoKeyAdded DEF Onward
<1>5. ASSUME NEW c \in Calls, NEW k \in Keys, Refresh(c, k) \/ (Get(c, k) /\ ~Fresh(k))
      PROVE  OrderInv'
  <2>1. Run(c, k) /\ now' = now
    BY <1>5 DEF Refresh, Get, LoadFresh
  <2>2. /\ cleared' = cleared
        /\ \A f \in Flights : phase'[f] \in {"scheduled", "running"} =>
             \/ phase[f] \in {"scheduled", "running"} /\ keyOf'[f] = keyOf[f]
             \/ keyOf'[f] = k
    BY <2>1, RunOrFinally
  <2>3. /\ entries' \in Seq(Entry) /\ LeastRecentlyUsedFirst'
        /\ KeysIn(entries') \subseteq KeysIn(entries) /\ k \notin KeysIn(entries')
    BY <1>5, <2>2, LookupInOrder, DropInOrder DEF Refresh, Get
  <2>4. NotCachedWhileLoading'
    BY <2>2, <2>3 DEF NotCachedWhileLoading
  <2> QED
    BY <1>1, <2>1, <2>3, <2>4
<1>6. ASSUME NEW f \in Flights, LoadSettles(f) PROVE OrderInv'
  <2>1. /\ phase[f] = "running" /\ phase' = [phase EXCEPT ![f] = "settled"]
        /\ keyOf' = keyOf /\ cleared' = cleared /\ now' = now
    BY <1>6 DEF LoadSettles, OperationSettles
  <2>2. CASE UNCHANGED cacheOnly
    <3>1. Onward /\ UNCHANGED <<entries, usedBefore>>
      BY <2>1, <2>2 DEF cacheOnly, Onward, FlightInv, FlightTypeOK
    <3>2. LeastRecentlyUsedFirst'
      BY <2>1, <3>1 DEF LeastRecentlyUsedFirst, InOrderOfUse
    <3> QED
      BY <1>1, <2>1, <3>1, <3>2, NoKeyAdded
  <2>3. CASE Store(keyOf[f])
    <3>1. /\ entries' \in Seq(Entry) /\ LeastRecentlyUsedFirst'
          /\ KeysIn(entries') \subseteq KeysIn(entries) \cup {keyOf[f]}
      BY <2>1, <2>3, StoreInOrder
    <3>2. ASSUME NEW g \in Flights, phase'[g] \in {"scheduled", "running"},
                 keyOf'[g] \notin cleared'
          PROVE  keyOf'[g] \notin KeysIn(entries')
      <4>1. g # f /\ phase[g] \in {"scheduled", "running"} /\ keyOf[g] \notin cleared
        BY <2>1, <3>2 DEF FlightInv, FlightTypeOK
      <4>2. keyOf[g] # keyOf[f]
        BY <2>1, <4>1 DEF FlightInv, SharedUnlessCleared, Active
      <4>3. keyOf[g] \notin KeysIn(entries)
        BY <4>1 DEF NotCachedWhileLoading
      <4> QED
        BY <2>1, <3>1, <4>2, <4>3
    <3> QED
      BY <1>1, <2>1, <3>1, <3>2 DEF NotCachedWhileLoading
  <2> QED
    BY <1>6, <2>2, <2>3 DEF LoadSettles
<1>7. ASSUME Onward, UNCHANGED cacheOnly, now' \in Nat PROVE OrderInv'
  <2>1. UNCHANGED <<entries, usedBefore>>
    BY <1>7 DEF cacheOnly
  <2>2. LeastRecentlyUsedFirst'
    BY <1>7, <2>1, InOrderStill DEF LeastRecentlyUsedFirst, Onward
  <2> QED
    BY <1>1, <1>7, <2>1, <2>2, NoKeyAdded
<1>8. ASSUME NEW f \in Flights, LoadStep(f) \/ StarterAborts(f) PROVE OrderInv'
  <2>1. Onward
    BY <1>8, RunOrFinally DEF StarterAborts, SignalFires, Onward
  <2> QED
    BY <1>7, <1>8, <2>1 DEF LoadStep, StarterAborts
<1>9. CASE ClearCache
  <2>1. Onward /\ entries' = <<>> /\ now' = now
    BY <1>9 DEF ClearCache, Forget, Onward
  <2>2. LeastRecentlyUsedFirst' /\ NotCachedWhileLoading'
    BY <2>1, EmptySeq, CacheAssumption
    DEF LeastRecentlyUsedFirst, InOrderOfUse, NotCachedWhileLoading, KeysIn
  <2> QED
    BY <1>1, <2>1, <2>2, EmptySeq
<1>10. CASE Tick \/ UNCHANGED vars
  <2>1. Onward /\ UNCHANGED cacheOnly /\ now' \in Nat
    BY <1>10 DEF Tick, vars, flightVars, Onward
  <2> QED
    BY <1>7, <2>1
<1> QED
  BY <1>2, <1>3, <1>4, <1>5, <1>6, <1>8, <1>9, <1>10 DEF Next

\* Whatever the loads of other keys do, and whenever they finish, the cache
\* evicts the key last used the longest ago, holds a key once, and never holds
\* more keys than it may (src/cache.ts:113-135).
THEOREM LeastRecentlyUsedGoesFirst == Spec => []LeastRecentlyUsedFirst
<1>1. OrderInv => LeastRecentlyUsedFirst
  BY DEF OrderInv
<1> QED
  BY <1>1, OrderInitially, OrderKeeps, PTL DEF Spec

\* The sizes and times of the cache stay within their bounds, and what its
\* history relates are keys.
THEOREM CacheTypeCorrect == Spec => []TypeOK
<1> DEFINE Bounded == now \in 0 .. MaxTime /\ usedBefore \subseteq Keys \X Keys
<1>1. Init => Bounded
  BY CacheAssumption DEF Init
<1>2. OrderInv /\ Bounded /\ [Next]_vars => Bounded'
  <2> SUFFICES ASSUME OrderInv, Bounded, [Next]_vars PROVE Bounded'
    OBVIOUS
  <2>1. entries' \in Seq(Entry)
    BY OrderKeeps DEF OrderInv
  <2>2. KeysIn(entries') \subseteq Keys
    <3>1. \A i \in DOMAIN entries' : entries'[i] \in Entry
      BY <2>1, ElementOfSeq, LenProperties
    <3> QED
      BY <3>1 DEF KeysIn, Entry
  <2>3. ASSUME NEW k \in Keys, Drop(k) \/ Lookup(k) \/ Store(k)
        PROVE  usedBefore' \subseteq Keys \X Keys
    <3>1. CASE Drop(k)
      BY <3>1 DEF Drop
    <3>2. CASE Used(k, entries')
      BY <2>2, <3>2 DEF Used
    <3> QED
      BY <2>3, <3>1, <3>2 DEF Lookup, Store
  <2>4. now' \in 0 .. MaxTime
    <3>1. CASE Tick
      BY <3>1, CacheAssumption DEF Tick
    <3>2. CASE now' = now
      BY <3>2
    <3> QED
      BY <3>1, <3>2
      DEF Next, Get, Refresh, Has, Delete, LoadStep, LoadSettles, StarterAborts, ClearCache, vars
  <2>5. ASSUME NEW c \in Calls, NEW k \in Keys, Get(c, k) \/ Refresh(c, k)
        PROVE  usedBefore' \subseteq Keys \X Keys
    BY <2>3, <2>5 DEF Get, Refresh
  <2>6. ASSUME NEW k \in Keys, Has(k) \/ Delete(k) PROVE usedBefore' \subseteq Keys \X Keys
    BY <2>3, <2>6 DEF Has, Delete
  <2>7. ASSUME NEW f \in Flights, LoadStep(f) \/ LoadSettles(f) \/ StarterAborts(f)
        PROVE  usedBefore' \subseteq Keys \X Keys
    <3>1. CASE UNCHANGED cacheOnly
      BY <3>1 DEF cacheOnly
    <3>2. CASE OperationSettles(f) /\ Store(keyOf[f])
      <4>1. keyOf[f] \in Keys
        BY <3>2 DEF OperationSettles, OrderInv, FlightInv, Active
      <4> QED
        BY <2>3, <3>2, <4>1
    <3> QED
      BY <2>7, <3>1, <3>2 DEF LoadStep, LoadSettles, StarterAborts, cacheOnly
  <2>8. ASSUME ClearCache \/ Tick \/ UNCHANGED vars PROVE usedBefore' \subseteq Keys \X Keys
    BY <2>8 DEF ClearCache, Tick, vars, cacheOnly
  <2>9. usedBefore' \subseteq Keys \X Keys
    BY <2>5, <2>6, <2>7, <2>8 DEF Next
  <2> QED
    BY <2>4, <2>9
<1>3. OrderInv /\ Bounded => TypeOK
  BY DEF OrderInv, FlightInv, LeastRecentlyUsedFirst, TypeOK
<1> QED
  BY <1>1, <1>2, <1>3, OrderInitially, OrderKeeps, PTL DEF Spec

\* A key that was neither deleted nor cleared under a load enters the cache
\* only when the load that callers of that key wait for ends
\* (src/cache.ts:118-171).
THEOREM StoresItsOwnLoad == Spec =>
  [][\A k \in Keys \ cleared : k \in KeysIn(entries') \ KeysIn(entries) =>
       /\ inFlight[k] # NoFlight
       /\ phase[inFlight[k]] = "running" /\ phase'[inFlight[k]] = "settled"]_vars
<1> DEFINE Own ==
      \A k \in Keys \ cleared : k \in KeysIn(entries') \ KeysIn(entries) =>
        /\ inFlight[k] # NoFlight
        /\ phase[inFlight[k]] = "running" /\ phase'[inFlight[k]] = "settled"
<1>1. OrderInv /\ [Next]_vars => [Own]_vars
  <2> SUFFICES ASSUME OrderInv, Next PROVE Own
    OBVIOUS
  <2>1. CASE KeysIn(entries') \subseteq KeysIn(entries)
    BY <2>1
  <2>2. ASSUME NEW k \in Keys, Drop(k) \/ Lookup(k), cleared \subseteq cleared' PROVE Own
    BY <2>1, <2>2, DropInOrder, LookupInOrder
  <2>3. ASSUME NEW c \in Calls, NEW k \in Keys, Get(c, k) \/ Refresh(c, k) PROVE Own
    <3>1. cleared' = cleared
      BY <2>3, RunOrFinally DEF Get, Refresh, LoadFresh, flightVars
    <3> QED
      BY <2>2, <2>3, <3>1 DEF Get, Refresh
  <2>4. ASSUME NEW k \in Keys, Has(k) \/ Delete(k) PROVE Own
    <3>1. cleared \subseteq cleared'
      BY <2>4 DEF Has, Delete, Forget, flightVars
    <3> QED
      BY <2>2, <2>4, <3>1 DEF Has, Delete
  <2>5. ASSUME NEW f \in Flights, OperationSettles(f), Store(keyOf[f]), now' = now PROVE Own
    <3>1. /\ phase[f] = "running" /\ phase' = [phase EXCEPT ![f] = "settled"]
          /\ keyOf[f] \in Keys /\ UNCHANGED <<cleared, keyOf>>
      BY <2>5 DEF OperationSettles, OrderInv, FlightInv, Active
    <3>2. KeysIn(entries') \subseteq KeysIn(entries) \cup {keyOf[f]}
      BY <2>5, <3>1, StoreInOrder
    <3>3. keyOf[f] \notin cleared => inFlight[keyOf[f]] = f
      BY <3>1 DEF OrderInv, FlightInv, SharedUnlessCleared, Active
    <3>4. f # NoFlight /\ phase'[f] = "settled"
      BY <3>1, FlightAssumption DEF OrderInv, FlightInv, FlightTypeOK
    <3> QED
      BY <3>1, <3>2, <3>3, <3>4
  <2>6. CASE UNCHANGED cacheOnly
    BY <2>1, <2>6 DEF cacheOnly
  <2>7. ASSUME NEW f \in Flights, LoadStep(f) \/ LoadSettles(f) \/ StarterAborts(f) PROVE Own
    BY <2>5, <2>6, <2>7 DEF LoadStep, LoadSettles, StarterAborts, cacheOnly
  <2>8. CASE ClearCache
    BY <2>8, EmptySeq DEF ClearCache, KeysIn
  <2>9. CASE Tick
    BY <2>6, <2>9 DEF Tick
  <2> QED
    BY <2>3, <2>4, <2>7, <2>8, <2>9 DEF Next
<1> QED
  BY <1>1, OrderInitially, OrderKeeps, PTL DEF Spec

\* What src/singleflight.ts:62-65 promises holds for the keys that were never
\* cleared: two operations never run for one of them at a time.
THEOREM OneOperationUnlessCleared == FlightSpec =>
  [](\A f, g \in Flights :
       /\ f # g /\ keyOf[f] = keyOf[g] /\ keyOf[f] \notin cleared
       => ~(phase[f] = "running" /\ phase[g] = "running"))
<1>1. NoDeadEntry /\ SharedUnlessCleared =>
        \A f, g \in Flights :
          /\ f # g /\ keyOf[f] = keyOf[g] /\ keyOf[f] \notin cleared
          => ~(phase[f] = "running" /\ phase[g] = "running")
  BY DEF SharedUnlessCleared, Active
<1> QED
  BY <1>1, SingleFlightShares, PTL

-----------------------------------------------------------------------------

\* Where a load can be: those in the line wait, and none of them is in a batch;
\* a batch under way holds the load that names it, so that no other batch takes
\* that name; and it holds the loads whose keys were sent, in their order.
Placed ==
  /\ IsInjective(pending)
  /\ \A c \in ToSet(pending) : answer[c] = "waiting"
  /\ \A b \in Clients : \A c \in ToSet(batch[b]) : answer[c] # "new" /\ c \notin ToSet(pending)
  /\ \A b \in Clients : batch[b] # NoBatch => b \in ToSet(batch[b])
  /\ keys = batch

\* The inductive invariant of the batcher.
BatcherInv == BatcherTypeOK /\ Placed /\ NobodyForgotten /\ OwnValue

\* A batch takes a whole line, since lines are flushed when full.
LEMMA WholeLine ==
  ASSUME NEW line \in Seq(Clients), Len(line) <= MaxBatchSize
  PROVE  Batch(line) = line /\ Rest(line) = <<>>
BY DEF Batch, Rest

\* Nobody is in an empty line, which is shorter than any batch may be.
LEMMA EmptyPending ==
  /\ <<>> \in Seq(Clients) /\ Len(<<>>) < MaxBatchSize
  /\ ToSet(<<>>) = {} /\ IsInjective(<<>>)
<1>1. <<>> \in Seq(Clients) /\ Len(<<>>) = 0
  BY EmptySeq
<1>2. \A i \in 1 .. Len(<<>>) : FALSE
  BY <1>1
<1>3. ToSet(<<>>) = {}
  BY <1>1, EmptyLine
<1>4. IsInjective(<<>>)
  BY <1>1, <1>2, LineElements
<1> QED
  BY <1>1, <1>3, <1>4, BatcherAssumption

\* The loads of a sequence are clients.
LEMMA Loads ==
  ASSUME NEW line \in Seq(Clients)
  PROVE  ToSet(line) \subseteq Clients
BY LineElements, ElementOfSeq

\* Flushing a line that is not overfull, and whose loads wait and are in no batch,
\* moves them into a batch of their own.
LEMMA FlushMoves ==
  ASSUME BatcherInv, NEW line \in Seq(Clients), Len(line) <= MaxBatchSize, Flush(line),
         IsInjective(line),
         \A b \in Clients : ToSet(batch[b]) \cap ToSet(line) = {},
         NEW c
  PROVE  /\ pending' = <<>> /\ timer' = FALSE
         /\ batch' \in [Clients -> Seq(Clients)] /\ keys' = batch'
         /\ \A b \in Clients : batch'[b] # NoBatch => b \in ToSet(batch'[b])
         /\ \A b \in Clients : batch'[b] = batch[b] \/ batch'[b] = line
         /\ c \in ToSet(line) => \E b \in Clients : c \in ToSet(batch'[b])
         /\ \A b \in Clients : c \in ToSet(batch[b]) => c \in ToSet(batch'[b])
<1>1. pending' = <<>> /\ timer' = FALSE /\ Batch(line) = line
  BY WholeLine DEF Flush
<1>2. CASE line = <<>>
  BY <1>1, <1>2, EmptyPending DEF Flush, BatcherInv, BatcherTypeOK, Placed
<1>3. CASE line # <<>>
  <2>1. Head(line) \in Clients /\ Head(line) \in ToSet(line)
    BY <1>3, ShiftLine, Loads
  <2>2. batch' = [batch EXCEPT ![Head(line)] = line] /\ keys' = batch'
    BY <1>1, <1>3 DEF Flush, BatcherInv, Placed
  <2>3. batch[Head(line)] = NoBatch
    BY <2>1 DEF BatcherInv, Placed
  <2>4. ToSet(NoBatch) = {}
    BY EmptyPending DEF NoBatch
  <2> QED
    BY <1>1, <2>1, <2>2, <2>3, <2>4 DEF BatcherInv, Placed, BatcherTypeOK
<1> QED
  BY <1>2, <1>3

\* No load has been made when a batcher is created.
LEMMA BatcherInitially == BatcherInit => BatcherInv
<1> SUFFICES ASSUME BatcherInit PROVE BatcherInv
  OBVIOUS
<1>1. BatcherTypeOK
  BY EmptyPending DEF BatcherInit, BatcherTypeOK, NoBatch
<1>2. Placed
  BY EmptyPending DEF BatcherInit, Placed, NoBatch
<1>3. NobodyForgotten /\ OwnValue
  BY BatcherAssumption DEF BatcherInit, NobodyForgotten, OwnValue
<1> QED
  BY <1>1, <1>2, <1>3 DEF BatcherInv

\* load() puts its item in the line, and flushes a line that is full.
LEMMA LoadKeeps == ASSUME BatcherInv, NEW c \in Clients, Load(c) PROVE BatcherInv'
<1> DEFINE line == Append(pending, c)
<1>1. c \notin ToSet(pending)
  BY DEF BatcherInv, Placed, Load
<1>2. line \in Seq(Clients) /\ ToSet(line) = ToSet(pending) \cup {c} /\ IsInjective(line)
  BY <1>1, JoinLine DEF BatcherInv, BatcherTypeOK, Placed
<1>3. Len(line) = Len(pending) + 1 /\ Len(pending) \in Nat /\ line # <<>>
  <2>1. pending \in Seq(Clients)
    BY DEF BatcherInv, BatcherTypeOK
  <2> QED
    BY <2>1, AppendProperties, LenProperties
<1>4. Len(line) <= MaxBatchSize
  BY <1>3, BatcherAssumption DEF BatcherInv, BatcherTypeOK
<1>5. /\ answer' = [answer EXCEPT ![c] = "waiting"] /\ answer[c] = "new"
      /\ aborted' = aborted
  BY DEF Load
<1>6. \A b \in Clients : ToSet(batch[b]) \cap ToSet(line) = {}
  BY <1>2, <1>5 DEF BatcherInv, Placed
<1>7. CASE Full(line) /\ Flush(line)
  <2> HIDE DEF line
  <2>2. /\ pending' = <<>> /\ timer' = FALSE
        /\ batch' \in [Clients -> Seq(Clients)] /\ keys' = batch'
        /\ \A b \in Clients : batch'[b] # NoBatch => b \in ToSet(batch'[b])
        /\ \A b \in Clients : batch'[b] = batch[b] \/ batch'[b] = line
    BY <1>2, <1>4, <1>6, <1>7, FlushMoves
  <2>3. BatcherTypeOK'
    BY <1>5, <2>2, EmptyPending DEF BatcherInv, BatcherTypeOK
  <2>4. Placed'
    <3>1. ASSUME NEW b \in Clients, NEW d \in ToSet(batch'[b])
          PROVE  answer'[d] # "new"
      <4>1. CASE d \in ToSet(line)
        BY <1>2, <1>5, <4>1, Loads DEF BatcherInv, Placed, BatcherTypeOK
      <4>2. CASE d \in ToSet(batch[b])
        BY <1>5, <4>2, Loads DEF BatcherInv, Placed, BatcherTypeOK
      <4> QED
        BY <2>2, <3>1, <4>1, <4>2
    <3> QED
      BY <2>2, <3>1, EmptyPending DEF Placed
  <2>5. NobodyForgotten'
    <3>1. ASSUME NEW d \in Clients, answer'[d] = "waiting"
          PROVE  \E b \in Clients : d \in ToSet(batch'[b])
      <4>1. d \in ToSet(line) \/ \E b \in Clients : d \in ToSet(batch[b])
        BY <1>2, <1>5, <3>1 DEF BatcherInv, NobodyForgotten, BatcherTypeOK
      <4> QED
        BY <1>2, <1>4, <1>6, <1>7, <4>1, FlushMoves
    <3> QED
      BY <2>2, <3>1 DEF NobodyForgotten
  <2>6. OwnValue'
    BY <1>5, BatcherAssumption DEF BatcherInv, OwnValue, BatcherTypeOK
  <2> QED
    BY <2>3, <2>4, <2>5, <2>6 DEF BatcherInv
<1>8. CASE /\ ~Full(line)
           /\ pending' = line /\ timer' = TRUE
           /\ UNCHANGED <<batch, keys>>
  <2> HIDE DEF line
  <2>1. BatcherTypeOK'
    BY <1>2, <1>3, <1>5, <1>8, BatcherAssumption DEF BatcherInv, BatcherTypeOK, Full
  <2>2. Placed'
    <3>1. \A d \in ToSet(pending') : d \in Clients /\ answer'[d] = "waiting"
      BY <1>2, <1>5, <1>8, Loads DEF BatcherInv, Placed, BatcherTypeOK
    <3>2. ASSUME NEW b \in Clients, NEW d \in ToSet(batch[b])
          PROVE  answer'[d] # "new" /\ d \notin ToSet(pending')
      <4>1. d \in Clients /\ answer[d] # "new" /\ d \notin ToSet(line)
        BY <1>6, <3>2, Loads DEF BatcherInv, Placed, BatcherTypeOK
      <4> QED
        BY <1>5, <1>8, <4>1 DEF BatcherInv, BatcherTypeOK
    <3> QED
      BY <1>2, <1>8, <3>1, <3>2 DEF BatcherInv, Placed
  <2>3. NobodyForgotten'
    BY <1>2, <1>5, <1>8 DEF BatcherInv, NobodyForgotten, BatcherTypeOK
  <2>4. OwnValue'
    BY <1>5, BatcherAssumption DEF BatcherInv, OwnValue, BatcherTypeOK
  <2> QED
    BY <2>1, <2>2, <2>3, <2>4 DEF BatcherInv
<1> QED
  BY <1>7, <1>8 DEF Load

\* The timer flushes the line as it stands.
LEMMA TimerKeeps == ASSUME BatcherInv, TimerFires PROVE BatcherInv'
<1>1. Flush(pending) /\ answer' = answer /\ aborted' = aborted
  BY DEF TimerFires
<1>2. /\ pending \in Seq(Clients) /\ Len(pending) <= MaxBatchSize
      /\ \A b \in Clients : ToSet(batch[b]) \cap ToSet(pending) = {}
      /\ IsInjective(pending)
  BY BatcherAssumption, LenProperties DEF BatcherInv, BatcherTypeOK, Placed
<1>4. /\ pending' = <<>> /\ timer' = FALSE
      /\ batch' \in [Clients -> Seq(Clients)] /\ keys' = batch'
      /\ \A b \in Clients : batch'[b] # NoBatch => b \in ToSet(batch'[b])
      /\ \A b \in Clients : batch'[b] = batch[b] \/ batch'[b] = pending
  BY <1>1, <1>2, FlushMoves
<1>5. BatcherTypeOK'
  BY <1>1, <1>4, EmptyPending DEF BatcherInv, BatcherTypeOK
<1>6. Placed'
  BY <1>1, <1>4, EmptyPending DEF BatcherInv, Placed, BatcherTypeOK
<1>7. NobodyForgotten'
  <2>1. ASSUME NEW d \in Clients, answer'[d] = "waiting"
        PROVE  \E b \in Clients : d \in ToSet(batch'[b])
    <3>1. d \in ToSet(pending) \/ \E b \in Clients : d \in ToSet(batch[b])
      BY <1>1, <2>1 DEF BatcherInv, NobodyForgotten
    <3> QED
      BY <1>1, <1>2, <3>1, FlushMoves
  <2> QED
    BY <1>4, <2>1 DEF NobodyForgotten
<1> QED
  BY <1>1, <1>5, <1>6, <1>7 DEF BatcherInv, OwnValue

\* A batch that ends resolves each of its loads that still waits.
LEMMA BatchKeeps ==
  ASSUME BatcherInv, NEW b \in Clients, BatchEnds(b), NEW result, Resolve(ToSet(batch[b]), result),
         \A c \in ToSet(batch[b]) : result[c] \in Failures \cup {c}
  PROVE  BatcherInv'
<1>1. /\ batch' = [batch EXCEPT ![b] = NoBatch] /\ keys' = [keys EXCEPT ![b] = NoBatch]
      /\ pending' = pending /\ timer' = timer /\ aborted' = aborted
  BY DEF BatchEnds
<1>2. answer' = [c \in Clients |->
        IF c \in ToSet(batch[b]) /\ answer[c] = "waiting" THEN result[c] ELSE answer[c]]
  BY DEF Resolve
<1>3. NoBatch \in Seq(Clients) /\ ToSet(NoBatch) = {} /\ ToSet(batch[b]) \subseteq Clients
  BY Loads, EmptyPending DEF NoBatch, BatcherInv, BatcherTypeOK
<1>4. BatcherTypeOK'
  BY <1>1, <1>2, <1>3 DEF BatcherInv, BatcherTypeOK
<1>5. Placed'
  <2>1. \A c \in ToSet(pending) : answer'[c] = answer[c]
    BY <1>2, Loads DEF BatcherInv, Placed, BatcherTypeOK
  <2>2. \A c \in Clients : answer[c] # "new" => answer'[c] # "new"
    BY <1>2, <1>3, BatcherAssumption DEF Failures
  <2>3. \A d \in Clients : batch'[d] = IF d = b THEN NoBatch ELSE batch[d]
    BY <1>1 DEF BatcherInv, BatcherTypeOK
  <2>4. \A d \in Clients : ToSet(batch[d]) \subseteq Clients
    BY Loads DEF BatcherInv, BatcherTypeOK
  <2> QED
    BY <1>1, <1>3, <2>1, <2>2, <2>3, <2>4 DEF BatcherInv, Placed
<1>6. NobodyForgotten'
  <2>1. ASSUME NEW c \in Clients, answer'[c] = "waiting"
        PROVE  answer[c] = "waiting" /\ c \notin ToSet(batch[b])
    BY <1>2, <2>1, BatcherAssumption DEF Failures
  <2>2. \A d \in Clients : d # b => batch'[d] = batch[d]
    BY <1>1 DEF BatcherInv, BatcherTypeOK
  <2> QED
    BY <1>1, <2>1, <2>2 DEF BatcherInv, NobodyForgotten
<1>7. OwnValue'
  BY <1>2, BatcherAssumption DEF BatcherInv, OwnValue
<1> QED
  BY <1>4, <1>5, <1>6, <1>7 DEF BatcherInv

\* A batch ends with a failure or with values, each at the position of its load.
LEMMA SettleKeeps == ASSUME BatcherInv, NEW b \in Clients, BatchSettles(b) PROVE BatcherInv'
<1>1. CASE BatchFails(b)
  <2> DEFINE result == [c \in Clients |-> "error"]
  <2>1. \A c \in ToSet(batch[b]) : result[c] \in Failures
    BY Loads DEF Failures, BatcherInv, BatcherTypeOK
  <2>2. Resolve(ToSet(batch[b]), result) /\ BatchEnds(b)
    BY <1>1 DEF BatchFails
  <2> QED
    BY <2>1, <2>2, BatchKeeps
<1>2. ASSUME NEW n \in 0 .. Len(keys[b]), BatchSucceeds(b, n) PROVE BatcherInv'
  <2> DEFINE result == [c \in ToSet(batch[b]) |->
               IF Position(b, c) <= n THEN keys[b][Position(b, c)] ELSE "missing"]
  <2>1. ASSUME NEW c \in ToSet(batch[b]) PROVE result[c] \in Failures \cup {c}
    <3>1. \E i \in DOMAIN batch[b] : batch[b][i] = c
      BY DEF ToSet
    <3>2. keys[b][Position(b, c)] = c
      BY <3>1 DEF Position, BatcherInv, Placed
    <3> QED
      BY <3>2 DEF Failures
  <2>2. Resolve(ToSet(batch[b]), result) /\ BatchEnds(b)
    BY <1>2 DEF BatchSucceeds
  <2> QED
    BY <2>1, <2>2, BatchKeeps
<1> QED
  BY <1>1, <1>2 DEF BatchSettles

\* An abort listener takes its load out of the line, if it still is in it.
LEMMA AbortKeeps == ASSUME BatcherInv, NEW c \in Clients, Abort(c) PROVE BatcherInv'
<1>1. /\ pending' = LeaveLine(pending, c) /\ UNCHANGED <<timer, batch, keys>>
      /\ aborted' = aborted \cup {c} /\ c \in AbortableClients
  BY DEF Abort, Fire, LeavesAlone
<1>2. answer' = [d \in Clients |-> IF d = c /\ answer[d] = "waiting" THEN "aborted" ELSE answer[d]]
  BY DEF Abort, Resolve
<1>3. /\ pending' \in Seq(Clients) /\ IsInjective(pending')
      /\ ToSet(pending') = ToSet(pending) \ {c}
  BY <1>1, GiveUpLine DEF BatcherInv, BatcherTypeOK, Placed
<1>4. Len(pending') <= Len(pending) /\ Len(pending) \in Nat /\ Len(pending') \in Nat
  <2>1. pending \in Seq(Clients)
    BY DEF BatcherInv, BatcherTypeOK
  <2>2. Len(pending) \in Nat /\ Len(pending') \in Nat
    BY <1>3, <2>1, LenProperties
  <2>3. Len(pending') = Len(pending) \/ Len(pending') = Len(pending) - 1
    BY <1>1, <2>1, LeaveLineProperties
  <2> QED
    BY <2>2, <2>3
<1>5. BatcherTypeOK'
  BY <1>1, <1>2, <1>3, <1>4, BatcherAssumption DEF BatcherInv, BatcherTypeOK, Failures
<1>6. Placed'
  <2>1. \A d \in ToSet(pending') : d \in ToSet(pending) /\ d \in Clients /\ d # c
    BY <1>3, Loads
  <2>2. \A d \in Clients : ToSet(batch[d]) \subseteq Clients
    BY Loads DEF BatcherInv, BatcherTypeOK
  <2> QED
    BY <1>1, <1>2, <1>3, <2>1, <2>2 DEF BatcherInv, Placed
<1>7. NobodyForgotten'
  <2>1. pending' # <<>> => pending # <<>>
    BY <1>3, EmptyLine DEF BatcherInv, BatcherTypeOK
  <2> QED
    BY <1>1, <1>2, <1>3, <2>1 DEF BatcherInv, NobodyForgotten
<1>8. OwnValue'
  BY <1>2, BatcherAssumption DEF BatcherInv, OwnValue, Failures
<1> QED
  BY <1>5, <1>6, <1>7, <1>8 DEF BatcherInv

\* clear() rejects the line and leaves the batches under way alone.
LEMMA ClearKeeps == ASSUME BatcherInv, ClearBatcher PROVE BatcherInv'
<1>1. /\ pending' = <<>> /\ timer' = FALSE /\ UNCHANGED <<batch, keys, aborted>>
      /\ answer' = [d \in Clients |->
           IF d \in ToSet(pending) /\ answer[d] = "waiting" THEN "cleared" ELSE answer[d]]
  BY DEF ClearBatcher, Resolve
<1>3. BatcherTypeOK'
  BY <1>1, EmptyPending DEF BatcherInv, BatcherTypeOK, Failures
<1>4. Placed'
  <2>1. \A d \in Clients : ToSet(batch[d]) \subseteq Clients
    BY Loads DEF BatcherInv, BatcherTypeOK
  <2> QED
    BY <1>1, <2>1, EmptyPending DEF BatcherInv, Placed
<1>5. NobodyForgotten' /\ OwnValue'
  BY <1>1, BatcherAssumption DEF BatcherInv, NobodyForgotten, OwnValue, Failures
<1> QED
  BY <1>3, <1>4, <1>5 DEF BatcherInv

\* The invariant is inductive.
LEMMA BatcherStepKeeps == BatcherInv /\ [BatcherNext]_batcherVars => BatcherInv'
<1> SUFFICES ASSUME BatcherInv, [BatcherNext]_batcherVars PROVE BatcherInv'
  OBVIOUS
<1>1. ASSUME NEW c \in Clients, LoadAborted(c) PROVE BatcherInv'
  <2>1. /\ UNCHANGED <<pending, timer, batch, keys, aborted>>
        /\ answer[c] = "new" /\ answer' = [answer EXCEPT ![c] = "aborted"]
    BY <1>1 DEF LoadAborted
  <2>2. BatcherTypeOK' /\ OwnValue'
    BY <2>1, BatcherAssumption DEF BatcherInv, BatcherTypeOK, OwnValue, Failures
  <2>3. Placed'
    <3>1. \A d \in Clients : ToSet(batch[d]) \subseteq Clients
      BY Loads DEF BatcherInv, BatcherTypeOK
    <3> QED
      BY <2>1, <3>1, Loads DEF BatcherInv, Placed, BatcherTypeOK
  <2>4. NobodyForgotten'
    BY <2>1 DEF BatcherInv, NobodyForgotten, BatcherTypeOK
  <2> QED
    BY <2>2, <2>3, <2>4 DEF BatcherInv
<1>2. CASE UNCHANGED batcherVars
  BY <1>2 DEF batcherVars, BatcherInv, BatcherTypeOK, Placed, NobodyForgotten, OwnValue
<1> QED
  BY <1>1, <1>2, LoadKeeps, AbortKeeps, SettleKeeps, TimerKeeps, ClearKeeps DEF BatcherNext

\* Whatever is aborted, cleared or fails, and whenever: no load waits that no
\* timer and no batch will answer, and the line stays below the batch size
\* (src/batcher.ts:62-196).
THEOREM BatcherSafe == BatcherSpec => [](BatcherTypeOK /\ NobodyForgotten)
<1>1. BatcherInv => BatcherTypeOK /\ NobodyForgotten
  BY DEF BatcherInv
<1> QED
  BY <1>1, BatcherInitially, BatcherStepKeeps, PTL DEF BatcherSpec

\* A load that gets a value gets the one of its own key, although values are
\* matched by their position in a batch that others join and leave
\* (src/batcher.ts:95-126).
THEOREM ValuesAreOwn == BatcherSpec => []OwnValue
<1>1. BatcherInv => OwnValue
  BY DEF BatcherInv
<1> QED
  BY <1>1, BatcherInitially, BatcherStepKeeps, PTL DEF BatcherSpec
=============================================================================
