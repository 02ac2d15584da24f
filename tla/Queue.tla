------------------------------- MODULE Queue -------------------------------
(***************************************************************************)
(* The bounded asynchronous queue of src/queue.ts (createQueue).           *)
(*                                                                         *)
(* An offer or a take is a call that runs synchronously up to the promise  *)
(* it may wait on, so each call, each abort listener and each of clear,    *)
(* drain and close is one atomic action; the interleavings are those of    *)
(* the callers.  Every call of offer() is a member of Offers and is also   *)
(* the item it carries; every call of take() is a member of Takes.  An     *)
(* iterator is a for-await loop: it calls take() again after each item.    *)
(* Each call in Signalled has an AbortSignal of its own; one signal shared *)
(* by several calls fires their listeners one after another, which is a    *)
(* sequence of Abort steps.                                                *)
(***************************************************************************)
EXTENDS Naturals, Sequences, SequencesExt, WaitingLine

CONSTANTS
  Offers,     \* calls of offer(), and the items they carry
  Takes,      \* calls of take() by ordinary code
  Iterators,  \* for-await loops over the queue
  Signalled,  \* calls made with options.signal
  Capacity,   \* options.capacity; an infinite one is any value >= |Offers|
  NoItem

Takers == Takes \cup Iterators
Calls == Offers \cup Takers

ASSUME QueueAssumption ==
  /\ Capacity \in Nat \ {0}
  /\ Offers \cap Takers = {}
  /\ Takes \cap Iterators = {}
  /\ Signalled \subseteq Offers \cup Takes
  /\ NoItem \notin Offers

VARIABLES
  values,       \* buffered items
  offerWaiters, \* offers waiting for room
  takeWaiters,  \* takes waiting for an item
  closed,
  aborted,      \* calls whose signal has fired
  listening,    \* calls with an abort listener registered
  status,       \* where the promise of each call stands
  got,          \* the item a take was resolved with
  delivered,    \* history: items handed to takers, in order
  dropped       \* history: items thrown away by clear() or returned by drain()

lines == <<values, offerWaiters, takeWaiters>>
vars == <<values, offerWaiters, takeWaiters, closed, aborted, listening,
          status, got, delivered, dropped>>

Init ==
  /\ values = <<>> /\ offerWaiters = <<>> /\ takeWaiters = <<>>
  /\ closed = FALSE
  /\ aborted = {}
  /\ listening = {}
  /\ status = [c \in Calls |-> "idle"]
  /\ got = [t \in Takers |-> NoItem]
  /\ delivered = <<>>
  /\ dropped = {}

Least(m, n) == IF m <= n THEN m ELSE n
Room(buffer) == IF Len(buffer) < Capacity THEN Capacity - Len(buffer) ELSE 0
Settle(calls, outcome) ==
  [c \in Calls |-> IF c \in calls THEN outcome ELSE status[c]]

-----------------------------------------------------------------------------
\* flushOffers() when the buffer has become `buffer`: waiting offers go to
\* waiting takers first, then into the free room, in order.
Handed == Least(Len(offerWaiters), Len(takeWaiters))
Moved(buffer) == Least(Len(offerWaiters) - Handed, Room(buffer))
Released(buffer) == ToSet(SubSeq(offerWaiters, 1, Handed + Moved(buffer)))
Served == ToSet(SubSeq(takeWaiters, 1, Handed))

\* Erroneous variant: released offers overtake the buffered items.
FlushOffersInFront(buffer) ==
  /\ values' = SubSeq(offerWaiters, Handed + 1, Handed + Moved(buffer)) \o buffer
  /\ offerWaiters' = SubSeq(offerWaiters, Handed + Moved(buffer) + 1, Len(offerWaiters))
  /\ takeWaiters' = SubSeq(takeWaiters, Handed + 1, Len(takeWaiters))
  /\ listening' = (listening \ Released(buffer)) \ Served

FlushOffers(buffer) ==
  /\ values' = buffer \o SubSeq(offerWaiters, Handed + 1, Handed + Moved(buffer))
  /\ offerWaiters' = SubSeq(offerWaiters, Handed + Moved(buffer) + 1, Len(offerWaiters))
  /\ takeWaiters' = SubSeq(takeWaiters, Handed + 1, Len(takeWaiters))
  /\ listening' = (listening \ Released(buffer)) \ Served

\* What the takers hold after a flush: the k-th one served has the k-th offer.
FlushedGot ==
  [t \in Takers |->
     IF t \in Served
     THEN offerWaiters[CHOOSE k \in 1 .. Handed : takeWaiters[k] = t]
     ELSE got[t]]

-----------------------------------------------------------------------------
\* offer(item, options)
OfferRejected(o) ==
  /\ status' = [status EXCEPT ![o] = IF o \in aborted THEN "aborted" ELSE "closed"]
  /\ UNCHANGED <<lines, listening, got, delivered>>

\* Erroneous variant: the taker is served but its abort listener stays.
OfferHandedOverLeaking(o) ==
  LET t == Head(takeWaiters) IN
  /\ takeWaiters' = Tail(takeWaiters)
  /\ status' = Settle({o, t}, "ok")
  /\ got' = [got EXCEPT ![t] = o]
  /\ delivered' = Append(delivered, o)
  /\ UNCHANGED <<values, offerWaiters, listening>>

\* Erroneous variant: the item is buffered although a taker waits.
OfferNotHandedOver(o) ==
  /\ values' = Append(values, o)
  /\ status' = [status EXCEPT ![o] = "ok"]
  /\ UNCHANGED <<offerWaiters, takeWaiters, listening, got, delivered>>

OfferHandedOver(o) ==
  LET t == Head(takeWaiters) IN
  /\ takeWaiters' = Tail(takeWaiters)
  /\ listening' = listening \ {t}
  /\ status' = Settle({o, t}, "ok")
  /\ got' = [got EXCEPT ![t] = o]
  /\ delivered' = Append(delivered, o)
  /\ UNCHANGED <<values, offerWaiters>>

OfferBuffered(o) ==
  /\ values' = Append(values, o)
  /\ status' = [status EXCEPT ![o] = "ok"]
  /\ UNCHANGED <<offerWaiters, takeWaiters, listening, got, delivered>>

OfferWaits(o) ==
  /\ offerWaiters' = Append(offerWaiters, o)
  /\ listening' = listening \cup ({o} \cap Signalled)
  /\ status' = [status EXCEPT ![o] = "waiting"]
  /\ UNCHANGED <<values, takeWaiters, got, delivered>>

Offer(o) ==
  /\ status[o] = "idle"
  /\ \/ (o \in aborted \/ closed) /\ OfferRejected(o)
     \/ /\ ~(o \in aborted \/ closed)
        /\ \/ takeWaiters # <<>> /\ OfferHandedOver(o)
           \/ takeWaiters = <<>> /\ Len(values) < Capacity /\ OfferBuffered(o)
           \/ takeWaiters = <<>> /\ Len(values) >= Capacity /\ OfferWaits(o)
  /\ UNCHANGED <<closed, aborted, dropped>>

-----------------------------------------------------------------------------
\* Erroneous variant: a take frees a slot and forgets the waiting offers.
TakeWithoutFlush(t) ==
  /\ values' = Tail(values)
  /\ status' = [status EXCEPT ![t] = "ok"]
  /\ got' = [got EXCEPT ![t] = Head(values)]
  /\ delivered' = Append(delivered, Head(values))
  /\ UNCHANGED <<offerWaiters, takeWaiters, listening>>

\* take(options): the buffer first, then a waiting offer, and only then the
\* closed flag.
TakeBuffered(t) ==
  LET rest == Tail(values) IN
  /\ FlushOffers(rest)
  /\ status' = Settle({t} \cup Released(rest) \cup Served, "ok")
  /\ got' = [FlushedGot EXCEPT ![t] = Head(values)]
  /\ delivered' = delivered \o <<Head(values)>> \o SubSeq(offerWaiters, 1, Handed)

TakeFromOffer(t) ==
  LET o == Head(offerWaiters) IN
  /\ offerWaiters' = Tail(offerWaiters)
  /\ listening' = listening \ {o}
  /\ status' = Settle({o, t}, "ok")
  /\ got' = [got EXCEPT ![t] = o]
  /\ delivered' = Append(delivered, o)
  /\ UNCHANGED <<values, takeWaiters>>

TakeWaits(t) ==
  /\ takeWaiters' = Append(takeWaiters, t)
  /\ listening' = listening \cup ({t} \cap Signalled)
  /\ status' = [status EXCEPT ![t] = "waiting"]
  /\ UNCHANGED <<values, offerWaiters, got, delivered>>

TakeRefused(t, outcome) ==
  /\ status' = [status EXCEPT ![t] = outcome]
  /\ UNCHANGED <<lines, listening, got, delivered>>

Take(t) ==
  /\ status[t] = "idle"
  /\ \/ t \in aborted /\ TakeRefused(t, "aborted")
     \/ /\ t \notin aborted
        /\ \/ values # <<>> /\ TakeBuffered(t)
           \/ values = <<>> /\ offerWaiters # <<>> /\ TakeFromOffer(t)
           \/ values = <<>> /\ offerWaiters = <<>> /\ closed /\ TakeRefused(t, "closed")
           \/ values = <<>> /\ offerWaiters = <<>> /\ ~closed /\ TakeWaits(t)
  /\ UNCHANGED <<closed, aborted, dropped>>

\* The loop body of a for-await has run: the generator calls take() again.
\* After an error result it returns and never does.
IteratorResumes(i) ==
  /\ status[i] = "ok"
  /\ status' = [status EXCEPT ![i] = "idle"]
  /\ got' = [got EXCEPT ![i] = NoItem]
  /\ UNCHANGED <<lines, closed, aborted, listening, delivered, dropped>>

-----------------------------------------------------------------------------
\* Erroneous variant: the aborted call is settled but stays in the line.
OnAbortStaysInLine(c) ==
  /\ status' = [status EXCEPT ![c] = IF @ = "waiting" THEN "aborted" ELSE @]
  /\ listening' = listening \ {c}
  /\ UNCHANGED <<offerWaiters, takeWaiters>>

\* onAbort of a waiting offer or take: leave the line, settle the promise
\* (which a promise does once).
OnAbort(c) ==
  /\ offerWaiters' = LeaveLine(offerWaiters, c)
  /\ takeWaiters' = LeaveLine(takeWaiters, c)
  /\ status' = [status EXCEPT ![c] = IF @ = "waiting" THEN "aborted" ELSE @]
  /\ listening' = listening \ {c}

Abort(c) ==
  /\ c \in Signalled \ aborted
  /\ aborted' = aborted \cup {c}
  /\ \/ c \in listening /\ OnAbort(c)
     \/ c \notin listening /\ UNCHANGED <<offerWaiters, takeWaiters, status, listening>>
  /\ UNCHANGED <<values, closed, got, delivered, dropped>>

\* clear() and drain(): the same effect on the queue.
Clear ==
  /\ dropped' = dropped \cup ToSet(values)
  /\ FlushOffers(<<>>)
  /\ status' = Settle(Released(<<>>) \cup Served, "ok")
  /\ got' = FlushedGot
  /\ delivered' = delivered \o SubSeq(offerWaiters, 1, Handed)
  /\ UNCHANGED <<closed, aborted>>

\* Erroneous variant: only the waiting offers are answered.
CloseForgetsTakes ==
  /\ ~closed
  /\ closed' = TRUE
  /\ offerWaiters' = <<>> /\ takeWaiters' = <<>>
  /\ listening' = (listening \ ToSet(offerWaiters)) \ ToSet(takeWaiters)
  /\ status' = Settle(ToSet(offerWaiters), "closed")
  /\ UNCHANGED <<values, aborted, got, delivered, dropped>>

\* close(reason): a second close returns at once and changes nothing.
Close ==
  /\ ~closed
  /\ closed' = TRUE
  /\ offerWaiters' = <<>> /\ takeWaiters' = <<>>
  /\ listening' = (listening \ ToSet(offerWaiters)) \ ToSet(takeWaiters)
  /\ status' = Settle(ToSet(offerWaiters) \cup ToSet(takeWaiters), "closed")
  /\ UNCHANGED <<values, aborted, got, delivered, dropped>>

Next ==
  \/ \E o \in Offers : Offer(o)
  \/ \E t \in Takers : Take(t)
  \/ \E i \in Iterators : IteratorResumes(i)
  \/ \E c \in Signalled : Abort(c)
  \/ Clear
  \/ Close

Spec == Init /\ [][Next]_vars

\* The callers owe nothing except the for-await loops, whose generator calls
\* take() whenever its body has finished.
FairSpec ==
  /\ Spec
  /\ \A i \in Iterators : WF_vars(Take(i)) /\ WF_vars(IteratorResumes(i))

-----------------------------------------------------------------------------
TypeOK ==
  /\ values \in Seq(Offers)
  /\ offerWaiters \in Seq(Offers)
  /\ takeWaiters \in Seq(Takers)
  /\ closed \in BOOLEAN
  /\ aborted \subseteq Signalled
  /\ listening \subseteq Signalled
  /\ status \in [Calls -> {"idle", "waiting", "ok", "closed", "aborted"}]
  /\ got \in [Takers -> Offers \cup {NoItem}]
  /\ delivered \in Seq(Offers)
  /\ dropped \subseteq Offers

\* Nobody waits for what is there (src/queue.ts:102-127, 184-199, 233-247): a
\* take waits only while there is neither a buffered item nor a waiting
\* offer, an offer waits only while the buffer is full, and a closed queue
\* has no waiter.  A wake-up lost by any of offer, take, clear, drain, close
\* or an abort listener breaks it.
NoTakerBeforeItem == takeWaiters # <<>> => values = <<>> /\ offerWaiters = <<>>
NoOfferBeforeRoom == offerWaiters # <<>> => Len(values) = Capacity
NoWaiterOnceClosed == closed => offerWaiters = <<>> /\ takeWaiters = <<>>
NoLostWakeup ==
  /\ Len(values) <= Capacity
  /\ NoTakerBeforeItem
  /\ NoOfferBeforeRoom
  /\ NoWaiterOnceClosed

\* A call waits exactly while it stands in its line, and it stands there once
\* (src/queue.ts:86-100, 108-125, 157-168, 221, 272): one that left its line
\* unanswered would never be answered, one that was answered and still stands
\* would swallow the next item or the next free slot, and one that stood twice
\* would get two.
WaitersStandOnce ==
  /\ IsInjective(offerWaiters) /\ IsInjective(takeWaiters)
  /\ \A c \in Calls :
       status[c] = "waiting" <=> c \in ToSet(offerWaiters) \cup ToSet(takeWaiters)

\* No item is lost or duplicated: an item whose offer succeeded is in exactly
\* one of the buffer, the takers' hands or the discarded items, once; one
\* whose offer still waits is in the waiting line only; and an item whose
\* offer reported failure (closed or aborted) is nowhere, so a producer that
\* retries it does not deliver it twice.
Accounted == delivered \o values \o offerWaiters
Conservation ==
  /\ IsInjective(Accounted)
  /\ ToSet(offerWaiters) = {o \in Offers : status[o] = "waiting"}
  /\ ToSet(delivered \o values) \cup dropped = {o \in Offers : status[o] = "ok"}
  /\ dropped \cap ToSet(Accounted) = {}

\* Abort listeners are registered exactly while their call waits: none leaks
\* after its call settled (src/queue.ts:61-71, 114, 119, 161, 166, 191, 244),
\* and no waiting call with a signal is deaf to it.
WaitersListen ==
  /\ listening = {c \in Signalled : status[c] = "waiting"}
  /\ listening \cap aborted = {}

\* The queue implements a FIFO channel: the waiting offers are the items in
\* transit that are not acknowledged yet.  What the buffer holds when the queue
\* is closed stays takeable (src/queue.ts:233-239 come before 249).
Channel == INSTANCE Channel
  WITH Items <- Offers, Receivers <- Takers,
       chan <- values \o offerWaiters, ready <- Len(values),
       waiting <- takeWaiters
ImplementsChannel == Channel!Spec

\* "close(reason) resolves pending and future operations with [reason, null]"
\* (docs/content/docs/reference/queue.mdx:40): a call made once the queue is
\* closed gets that answer, or that of its own signal.  The code refutes it
\* (MCQueueClose.cfg).
ClosedAnswersReason ==
  [][\A c \in Calls : closed /\ status[c] = "idle" /\ status'[c] # "idle" =>
       status'[c] \in {"closed", "aborted"}]_vars

\* With a for-await loop that keeps running, no item stays in the buffer and
\* no offer stays waiting for ever, whatever the other callers do.
Drained ==
  \A o \in Offers :
    (o \in ToSet(values \o offerWaiters)) ~> (o \notin ToSet(values \o offerWaiters))
=============================================================================
