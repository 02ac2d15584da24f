------------------------------- MODULE PubSub -------------------------------
(***************************************************************************)
(* The in-process broadcaster of src/pubsub.ts (createPubSub).  Every      *)
(* subscription owns a queue of src/queue.ts; publish() offers the message *)
(* to each of them without waiting for the offer, so a slow subscriber's   *)
(* messages wait as offers once its buffer is full.  A subscription is     *)
(* read by one for-await loop, hence one take at a time.  Messages are     *)
(* numbered in the order they are published.                               *)
(***************************************************************************)
EXTENDS Naturals, FiniteSets, Sequences, SequencesExt

CONSTANTS
  Subscriptions,      \* calls of subscribe()
  Replay,             \* options.replay
  SubscriberCapacity, \* options.subscriberCapacity
  MaxPublished        \* bound on the messages

ASSUME PubSubAssumption ==
  /\ Replay \in Nat
  /\ SubscriberCapacity \in Nat \ {0}
  /\ MaxPublished \in Nat

VARIABLES
  published,   \* how many messages were published
  history,     \* the messages kept for replay
  closed,
  subscribers, \* the Set of live subscriptions
  queue,       \* the queue of each subscription
  first        \* history: the first message a subscription is to hear, or 0

pubSubVars == <<published, history, closed, subscribers, queue, first>>

\* received is what the loop has been given; taking tells that it waits.
EmptyQueue ==
  [open |-> TRUE, values |-> <<>>, offers |-> <<>>, taking |-> FALSE, received |-> <<>>]

PubSubInit ==
  /\ published = 0
  /\ history = <<>>
  /\ closed = FALSE
  /\ subscribers = {}
  /\ queue = [s \in Subscriptions |-> EmptyQueue]
  /\ first = [s \in Subscriptions |-> 0]

-----------------------------------------------------------------------------
\* Erroneous variant: a message that finds the buffer full is dropped.
OfferOrDrop(q, m) ==
  CASE ~q.open -> q
    [] q.open /\ q.taking -> [q EXCEPT !.taking = FALSE, !.received = Append(@, m)]
    [] OTHER -> IF Len(q.values) < SubscriberCapacity
                THEN [q EXCEPT !.values = Append(@, m)] ELSE q

\* queue.offer(m), not awaited.
Offer(q, m) ==
  CASE ~q.open -> q
    [] q.open /\ q.taking -> [q EXCEPT !.taking = FALSE, !.received = Append(@, m)]
    [] OTHER -> IF Len(q.values) < SubscriberCapacity
                THEN [q EXCEPT !.values = Append(@, m)]
                ELSE [q EXCEPT !.offers = Append(@, m)]

\* Erroneous variant: a take that frees a slot leaves the offers waiting.
TakeNoFlush(q) ==
  IF q.values # <<>>
  THEN [q EXCEPT !.received = Append(@, Head(q.values)), !.values = Tail(@)]
  ELSE [q EXCEPT !.taking = q.open]

\* queue.take() with the flushOffers() that moves one waiting offer in.
Take(q) ==
  IF q.values # <<>>
  THEN [q EXCEPT !.received = Append(@, Head(q.values)),
                 !.values = IF q.offers = <<>> THEN Tail(@) ELSE Append(Tail(@), Head(q.offers)),
                 !.offers = IF @ = <<>> THEN @ ELSE Tail(@)]
  ELSE [q EXCEPT !.taking = q.open]

\* queue.close(reason): the buffer stays readable, everything waiting is resolved.
CloseQueue(q) == [q EXCEPT !.open = FALSE, !.offers = <<>>, !.taking = FALSE]

-----------------------------------------------------------------------------
Remember(m) ==
  IF Replay = 0 THEN <<>>
  ELSE IF Len(history) >= Replay THEN Append(Tail(history), m) ELSE Append(history, m)

Publish ==
  /\ published < MaxPublished
  /\ ~closed
  /\ published' = published + 1
  /\ history' = Remember(published')
  /\ queue' = [s \in Subscriptions |->
                 IF s \in subscribers THEN Offer(queue[s], published') ELSE queue[s]]
  /\ UNCHANGED <<closed, subscribers, first>>

\* A new queue that was offered the history one by one: the buffer is full, or
\* has all of it, and the other messages wait as offers.
Replayed ==
  LET kept == Min({SubscriberCapacity, Len(history)}) IN
  [EmptyQueue EXCEPT !.values = SubSeq(history, 1, kept),
                     !.offers = SubSeq(history, kept + 1, Len(history))]

\* subscribe(): the replayed messages first; a closed pub/sub hands out a
\* subscription whose queue is closed behind them.
Subscribe(s) ==
  /\ first[s] = 0
  /\ first' = [first EXCEPT ![s] = Max({1, published + 1 - Replay})]
  /\ queue' = [queue EXCEPT ![s] = IF closed THEN CloseQueue(Replayed) ELSE Replayed]
  /\ subscribers' = IF closed THEN subscribers ELSE subscribers \cup {s}
  /\ UNCHANGED <<published, history, closed>>

\* The loop over a subscription asks for its next message.
NextMessage(s) ==
  /\ first[s] # 0
  /\ ~queue[s].taking
  /\ queue[s].open \/ queue[s].values # <<>>
  /\ queue' = [queue EXCEPT ![s] = Take(queue[s])]
  /\ UNCHANGED <<published, history, closed, subscribers, first>>

\* subscription.close()
Unsubscribe(s) ==
  /\ first[s] # 0 /\ queue[s].open
  /\ subscribers' = subscribers \ {s}
  /\ queue' = [queue EXCEPT ![s] = CloseQueue(queue[s])]
  /\ UNCHANGED <<published, history, closed, first>>

\* close(reason)
Close ==
  /\ ~closed
  /\ closed' = TRUE
  /\ subscribers' = {}
  /\ queue' = [s \in Subscriptions |->
                 IF s \in subscribers THEN CloseQueue(queue[s]) ELSE queue[s]]
  /\ UNCHANGED <<published, history, first>>

PubSubNext ==
  \/ Publish
  \/ \E s \in Subscriptions : Subscribe(s) \/ NextMessage(s) \/ Unsubscribe(s)
  \/ Close

PubSubSpec == PubSubInit /\ [][PubSubNext]_pubSubVars

\* Each for-await loop asks for the next message when its body is done.
PubSubFairSpec ==
  PubSubSpec /\ \A s \in Subscriptions : WF_pubSubVars(NextMessage(s))

-----------------------------------------------------------------------------
PubSubTypeOK ==
  /\ published \in 0 .. MaxPublished
  /\ history \in Seq(1 .. published) /\ Len(history) <= Replay
  /\ closed \in BOOLEAN
  /\ subscribers \subseteq Subscriptions
  /\ first \in [Subscriptions -> 0 .. published + 1]
  /\ \A s \in Subscriptions :
       /\ {queue[s].open, queue[s].taking} \subseteq BOOLEAN
       /\ {queue[s].values, queue[s].offers, queue[s].received} \subseteq Seq(1 .. published)

\* What a subscription has been given, then what it can still be given.
Heard(s) == queue[s].received \o queue[s].values \o queue[s].offers

\* Every current listener hears the same updates: the messages of a
\* subscription, replayed ones first, are consecutive, each once and in order;
\* while it is open none is missing up to the last one published; and it is
\* open exactly while publish() reaches it.  The replay buffer holds the last
\* messages, as many as it may (src/pubsub.ts:69-102).
GapFree ==
  /\ Len(history) = Min({Replay, published})
  /\ \A i \in DOMAIN history : history[i] = published - Len(history) + i
  /\ \A s \in Subscriptions : first[s] # 0 =>
       /\ \A i \in 1 .. Len(Heard(s)) : Heard(s)[i] = first[s] + i - 1
       /\ queue[s].open => first[s] + Len(Heard(s)) = published + 1
       /\ queue[s].open <=> s \in subscribers

\* A subscriber that keeps reading hears every message published while it is
\* subscribed, unless its subscription is closed.
EverySubscriberHears ==
  \A s \in Subscriptions, m \in 1 .. MaxPublished :
    (s \in subscribers /\ first[s] <= m /\ m <= published)
      ~> (m \in ToSet(queue[s].received) \/ s \notin subscribers)
=============================================================================
