---------------------------- MODULE QueueProofs ----------------------------
(***************************************************************************)
(* What Queue keeps for every set of callers and every capacity: no        *)
(* wake-up and no item is lost, the buffer keeps its bound, lines and      *)
(* listeners belong to the calls that wait, and the queue is a channel.    *)
(***************************************************************************)
EXTENDS Queue, WaitingLineProofs

\* The inductive invariant: nobody waits for what is there is inductive once
\* the lines are known to be sequences.
Inv == TypeOK /\ NoLostWakeup

USE DEF lines, Takers, Calls

\* Offers and takers never wait together, so a flush serves no taker.
LEMMA NothingHanded ==
  ASSUME Inv
  PROVE  /\ Handed = 0
         /\ Served = {}
         /\ SubSeq(takeWaiters, Handed + 1, Len(takeWaiters)) = takeWaiters
         /\ SubSeq(offerWaiters, 1, Handed) = <<>>
         /\ FlushedGot = got
<1>1. Len(offerWaiters) \in Nat /\ Len(takeWaiters) \in Nat
  BY LenProperties DEF Inv, TypeOK
<1>2. offerWaiters = <<>> \/ takeWaiters = <<>>
  BY DEF Inv, NoLostWakeup, NoTakerBeforeItem
<1>3. Handed = 0
  BY <1>1, <1>2, EmptySeq DEF Handed, Least
<1>4. SubSeq(takeWaiters, 1, 0) = <<>> /\ SubSeq(offerWaiters, 1, 0) = <<>>
  BY SubSeqEmpty
<1>5. Served = {}
  BY <1>3, <1>4 DEF Served, ToSet
<1>6. SubSeq(takeWaiters, Handed + 1, Len(takeWaiters)) = takeWaiters
  BY <1>3, SubSeqFull DEF Inv, TypeOK
<1>7. FlushedGot = got
  BY <1>5 DEF FlushedGot, Inv, TypeOK
<1> QED
  BY <1>3, <1>4, <1>5, <1>6, <1>7

\* flushOffers() fills the buffer as far as it goes: afterwards an offer waits
\* only if the buffer is full.
LEMMA FlushFills ==
  ASSUME Inv, NEW buffer \in Seq(Offers), Len(buffer) <= Capacity,
         FlushOffers(buffer)
  PROVE  /\ values' \in Seq(Offers)
         /\ offerWaiters' \in Seq(Offers)
         /\ takeWaiters' = takeWaiters
         /\ Len(values') <= Capacity
         /\ offerWaiters' # <<>> => Len(values') = Capacity
         /\ listening' \subseteq listening
         /\ Released(buffer) \subseteq Offers
<1> DEFINE n == Moved(buffer)
<1>0. Handed = 0 /\ Served = {} /\ takeWaiters' = takeWaiters
  BY NothingHanded DEF FlushOffers
<1>1. Len(offerWaiters) \in Nat /\ Len(buffer) \in Nat /\ Capacity \in Nat
  BY LenProperties, QueueAssumption DEF Inv, TypeOK
<1>2. /\ n \in Nat /\ n <= Len(offerWaiters)
      /\ n < Len(offerWaiters) => n = Capacity - Len(buffer)
      /\ Len(buffer) + n <= Capacity
  BY <1>0, <1>1 DEF Moved, Room, Least
<1> HIDE DEF n
<1>3. /\ values' = buffer \o SubSeq(offerWaiters, 1, n)
      /\ offerWaiters' = SubSeq(offerWaiters, n + 1, Len(offerWaiters))
      /\ listening' = listening \ Released(buffer)
      /\ Released(buffer) = ToSet(SubSeq(offerWaiters, 1, n))
  <2>1. Handed + 1 = 1 /\ Handed + Moved(buffer) = n /\ Handed + Moved(buffer) + 1 = n + 1
    BY <1>0, <1>2 DEF n
  <2>2. Released(buffer) = ToSet(SubSeq(offerWaiters, 1, n))
    BY <2>1, Zenon DEF Released
  <2> QED
    BY <1>0, <2>1, <2>2, Zenon DEF FlushOffers
<1>4. offerWaiters \in Seq(Offers)
  BY DEF Inv, TypeOK
<1>5. SubSeq(offerWaiters, 1, n) \in Seq(Offers) /\ Len(SubSeq(offerWaiters, 1, n)) = n
  BY <1>2, <1>4, SubSeqType
<1>6. /\ offerWaiters' \in Seq(Offers)
      /\ Len(offerWaiters') = Len(offerWaiters) - n
  BY <1>1, <1>2, <1>3, <1>4, SubSeqType, n + 1 \in Nat \ {0}
<1>7. values' \in Seq(Offers) /\ Len(values') = Len(buffer) + n
  BY <1>3, <1>5, ConcatProperties
<1>8. offerWaiters' # <<>> => n < Len(offerWaiters)
  BY <1>1, <1>2, <1>6, EmptySeq
<1>9. Released(buffer) \subseteq Offers
  BY <1>3, <1>5, ElementOfSeq, LenProperties DEF ToSet
<1> QED
  BY <1>0, <1>1, <1>2, <1>3, <1>6, <1>7, <1>8, <1>9

\* A queue is created empty.
LEMMA InitInv == Init => Inv
<1> SUFFICES ASSUME Init PROVE Inv
  OBVIOUS
<1>1. <<>> \in Seq(Offers) /\ <<>> \in Seq(Takers) /\ Len(values) = 0
  BY EmptySeq DEF Init
<1>2. TypeOK
  BY <1>1 DEF Init, TypeOK
<1>3. NoLostWakeup
  BY <1>1, QueueAssumption
     DEF Init, NoLostWakeup, NoTakerBeforeItem, NoOfferBeforeRoom, NoWaiterOnceClosed
<1> QED
  BY <1>2, <1>3 DEF Inv

\* offer() in each of its outcomes.
LEMMA OfferInv ==
  ASSUME Inv, NEW o \in Offers, Offer(o)
  PROVE  Inv'
<1> USE DEF Inv
<1>0. /\ Len(values) \in Nat /\ Capacity \in Nat \ {0}
      /\ UNCHANGED <<closed, aborted, dropped>>
  BY LenProperties, QueueAssumption DEF TypeOK, Offer
<1>1. CASE OfferRejected(o)
  BY <1>0, <1>1 DEF OfferRejected, TypeOK, NoLostWakeup, NoTakerBeforeItem,
                    NoOfferBeforeRoom, NoWaiterOnceClosed
<1>2. CASE takeWaiters # <<>> /\ OfferHandedOver(o)
  <2>1. Head(takeWaiters) \in Takers /\ Tail(takeWaiters) \in Seq(Takers)
    BY <1>2, HeadTailProperties DEF TypeOK
  <2>2. delivered' \in Seq(Offers)
    BY <1>2, AppendProperties DEF OfferHandedOver, TypeOK
  <2>3. TypeOK'
    BY <1>0, <1>2, <2>1, <2>2 DEF OfferHandedOver, TypeOK, Settle
  <2>4. NoLostWakeup'
    BY <1>0, <1>2 DEF OfferHandedOver, NoLostWakeup, NoTakerBeforeItem,
                      NoOfferBeforeRoom, NoWaiterOnceClosed
  <2> QED
    BY <2>3, <2>4
<1>3. CASE takeWaiters = <<>> /\ Len(values) < Capacity /\ OfferBuffered(o)
  <2>1. values' \in Seq(Offers) /\ Len(values') = Len(values) + 1
    BY <1>3, AppendProperties DEF OfferBuffered, TypeOK
  <2>2. TypeOK'
    BY <1>0, <1>3, <2>1 DEF OfferBuffered, TypeOK
  <2>3. offerWaiters' = <<>> /\ takeWaiters' = <<>> /\ Len(values') <= Capacity
    BY <1>0, <1>3, <2>1 DEF OfferBuffered, NoLostWakeup, NoOfferBeforeRoom
  <2>4. NoLostWakeup'
    BY <2>3 DEF NoLostWakeup, NoTakerBeforeItem, NoOfferBeforeRoom, NoWaiterOnceClosed
  <2> QED
    BY <2>2, <2>4
<1>4. CASE ~closed /\ takeWaiters = <<>> /\ Len(values) >= Capacity /\ OfferWaits(o)
  <2>1. offerWaiters' \in Seq(Offers)
    BY <1>4, AppendProperties DEF OfferWaits, TypeOK
  <2>2. TypeOK'
    BY <1>0, <1>4, <2>1 DEF OfferWaits, TypeOK
  <2>3. NoLostWakeup'
    BY <1>0, <1>4 DEF OfferWaits, NoLostWakeup, NoTakerBeforeItem,
                      NoOfferBeforeRoom, NoWaiterOnceClosed
  <2> QED
    BY <2>2, <2>3
<1> QED
  BY <1>1, <1>2, <1>3, <1>4 DEF Offer

\* take() in each of its outcomes.
LEMMA TakeInv ==
  ASSUME Inv, NEW t \in Takers, Take(t)
  PROVE  Inv'
<1>0. /\ Len(values) \in Nat /\ Capacity \in Nat \ {0}
      /\ UNCHANGED <<closed, aborted, dropped>>
  BY LenProperties, QueueAssumption DEF Inv, TypeOK, Take
<1>1. CASE values # <<>> /\ TakeBuffered(t)
  <2> DEFINE rest == Tail(values)
  <2>1. Head(values) \in Offers /\ rest \in Seq(Offers) /\ Len(rest) = Len(values) - 1
    BY <1>1, HeadTailProperties DEF Inv, TypeOK
  <2>2. Len(rest) <= Capacity /\ FlushOffers(rest)
    BY <1>0, <1>1, <2>1 DEF TakeBuffered, Inv, NoLostWakeup
  <2>3. /\ Handed = 0 /\ Served = {} /\ SubSeq(offerWaiters, 1, Handed) = <<>>
        /\ FlushedGot = got
    BY NothingHanded
  <2>4. takeWaiters = <<>>
    BY <1>1 DEF Inv, NoLostWakeup, NoTakerBeforeItem
  <2>5. /\ values' \in Seq(Offers) /\ offerWaiters' \in Seq(Offers)
        /\ takeWaiters' = <<>>
        /\ Len(values') <= Capacity
        /\ offerWaiters' # <<>> => Len(values') = Capacity
        /\ listening' \subseteq listening
    BY <2>1, <2>2, <2>4, FlushFills
  <2>6. delivered' \in Seq(Offers)
    <3>1. <<Head(values)>> \in Seq(Offers) /\ <<>> \in Seq(Offers) /\ delivered \in Seq(Offers)
      BY <2>1 DEF Inv, TypeOK
    <3>2. delivered' = (delivered \o <<Head(values)>>) \o <<>>
      BY <1>1, <2>3, Zenon DEF TakeBuffered
    <3> QED
      BY <3>1, <3>2, ConcatProperties
  <2>7. got' \in [Takers -> Offers \cup {NoItem}]
    <3>1. got' = [got EXCEPT ![t] = Head(values)]
      BY <1>1, <2>3, Zenon DEF TakeBuffered
    <3> QED
      BY <2>1, <3>1 DEF Inv, TypeOK
  <2>8. status' \in [Calls -> {"idle", "waiting", "ok", "closed", "aborted"}]
    BY <1>1 DEF TakeBuffered, Settle, Inv, TypeOK
  <2>9. TypeOK'
    BY <1>0, <2>5, <2>6, <2>7, <2>8 DEF Inv, TypeOK
  <2>10. closed => offerWaiters' = <<>>
    <3> SUFFICES ASSUME closed PROVE offerWaiters' = <<>>
      OBVIOUS
    <3>1. offerWaiters = <<>>
      BY DEF Inv, NoLostWakeup, NoWaiterOnceClosed
    <3>2. Len(offerWaiters) = 0 /\ Moved(rest) = 0
      <4>1. Len(offerWaiters) = 0
        BY <3>1, EmptySeq
      <4>2. Room(rest) \in Nat
        BY <1>0, <2>1, LenProperties DEF Room
      <4> QED
        BY <2>3, <4>1, <4>2 DEF Moved, Least
    <3>3. offerWaiters' = SubSeq(offerWaiters, 1, 0)
      BY <2>2, <2>3, <3>2 DEF FlushOffers
    <3> QED
      BY <3>3, SubSeqEmpty
  <2>11. NoLostWakeup'
    BY <1>0, <2>5, <2>10 DEF NoLostWakeup, NoTakerBeforeItem,
                             NoOfferBeforeRoom, NoWaiterOnceClosed
  <2> QED
    BY <2>9, <2>11 DEF Inv
<1>2. CASE values = <<>> /\ offerWaiters # <<>> /\ TakeFromOffer(t)
  BY <1>0, <1>2, EmptySeq DEF Inv, NoLostWakeup, NoOfferBeforeRoom
<1>3. CASE \E outcome \in {"aborted", "closed"} : TakeRefused(t, outcome)
  BY <1>0, <1>3 DEF TakeRefused, Inv, TypeOK, NoLostWakeup, NoTakerBeforeItem,
                    NoOfferBeforeRoom, NoWaiterOnceClosed
<1>4. CASE values = <<>> /\ offerWaiters = <<>> /\ ~closed /\ TakeWaits(t)
  <2>1. takeWaiters' \in Seq(Takers)
    BY <1>4, AppendProperties DEF TakeWaits, Inv, TypeOK
  <2>2. TypeOK'
    BY <1>0, <1>4, <2>1 DEF TakeWaits, Inv, TypeOK
  <2>3. NoLostWakeup'
    BY <1>0, <1>4 DEF TakeWaits, Inv, NoLostWakeup, NoTakerBeforeItem,
                      NoOfferBeforeRoom, NoWaiterOnceClosed
  <2> QED
    BY <2>2, <2>3 DEF Inv
<1> QED
  BY <1>1, <1>2, <1>3, <1>4 DEF Take

\* An abort listener: the call leaves the line it waits in.
LEMMA AbortInv ==
  ASSUME Inv, NEW c \in Signalled, Abort(c)
  PROVE  Inv'
<1>0. /\ UNCHANGED <<values, closed, got, delivered, dropped>>
      /\ aborted' \subseteq Signalled
      /\ c \in Calls
  BY QueueAssumption DEF Abort, Inv, TypeOK
<1>1. CASE OnAbort(c)
  <2>1. /\ offerWaiters' \in Seq(Offers)
        /\ offerWaiters = <<>> => offerWaiters' = <<>>
    <3>1. offerWaiters' = LeaveLine(offerWaiters, c)
      BY <1>1 DEF OnAbort
    <3>2. offerWaiters = <<>> => c \notin ToSet(offerWaiters)
      BY EmptySeq DEF ToSet
    <3> QED
      BY <3>1, <3>2, LeaveLineProperties DEF Inv, TypeOK
  <2>2. /\ takeWaiters' \in Seq(Takers)
        /\ takeWaiters = <<>> => takeWaiters' = <<>>
    <3>1. takeWaiters' = LeaveLine(takeWaiters, c)
      BY <1>1 DEF OnAbort
    <3>2. takeWaiters = <<>> => c \notin ToSet(takeWaiters)
      BY EmptySeq DEF ToSet
    <3> QED
      BY <3>1, <3>2, LeaveLineProperties DEF Inv, TypeOK
  <2>3. TypeOK'
    BY <1>0, <1>1, <2>1, <2>2 DEF OnAbort, Inv, TypeOK
  <2>4. NoLostWakeup'
    BY <1>0, <2>1, <2>2 DEF Inv, NoLostWakeup, NoTakerBeforeItem,
                            NoOfferBeforeRoom, NoWaiterOnceClosed
  <2> QED
    BY <2>3, <2>4 DEF Inv
<1>2. CASE UNCHANGED <<offerWaiters, takeWaiters, status, listening>>
  BY <1>0, <1>2 DEF Inv, TypeOK, NoLostWakeup, NoTakerBeforeItem,
                    NoOfferBeforeRoom, NoWaiterOnceClosed
<1> QED
  BY <1>1, <1>2 DEF Abort

\* clear() and drain().
LEMMA ClearInv ==
  ASSUME Inv, Clear
  PROVE  Inv'
<1>0. <<>> \in Seq(Offers) /\ Len(<<>>) = 0 /\ Capacity \in Nat \ {0}
  BY EmptySeq, QueueAssumption
<1>1. FlushOffers(<<>>) /\ UNCHANGED <<closed, aborted>>
  BY DEF Clear
<1>2. /\ Handed = 0 /\ Served = {} /\ SubSeq(offerWaiters, 1, Handed) = <<>>
      /\ FlushedGot = got
  BY NothingHanded
<1>3. /\ values' \in Seq(Offers) /\ offerWaiters' \in Seq(Offers)
      /\ takeWaiters' = takeWaiters
      /\ Len(values') <= Capacity
      /\ offerWaiters' # <<>> => Len(values') = Capacity
      /\ listening' \subseteq listening
  <2>1. <<>> \in Seq(Offers) /\ Len(<<>>) <= Capacity
    BY <1>0
  <2> QED
    BY <1>1, <2>1, FlushFills
<1>4. delivered' = delivered \o <<>> /\ got' = got
  BY <1>2, Zenon DEF Clear
<1>5. delivered' = delivered
  BY <1>4, ConcatEmptySeq DEF Inv, TypeOK
<1>6. dropped' \subseteq Offers
  BY ElementOfSeq, LenProperties DEF Clear, ToSet, Inv, TypeOK
<1>7. status' \in [Calls -> {"idle", "waiting", "ok", "closed", "aborted"}]
  BY DEF Clear, Settle, Inv, TypeOK
<1>8. TypeOK'
  BY <1>1, <1>3, <1>4, <1>5, <1>6, <1>7 DEF Inv, TypeOK
<1>9. offerWaiters = <<>> => values' = <<>> /\ offerWaiters' = <<>>
  <2> SUFFICES ASSUME offerWaiters = <<>> PROVE values' = <<>> /\ offerWaiters' = <<>>
    OBVIOUS
  <2>1. Len(offerWaiters) = 0 /\ Moved(<<>>) = 0
    <3>1. Len(offerWaiters) = 0
      BY EmptySeq
    <3>2. Room(<<>>) \in Nat
      BY <1>0 DEF Room
    <3> QED
      BY <1>2, <3>1, <3>2 DEF Moved, Least
  <2>2. values' = <<>> \o SubSeq(offerWaiters, 1, 0) /\ offerWaiters' = SubSeq(offerWaiters, 1, 0)
    BY <1>1, <1>2, <2>1 DEF FlushOffers
  <2> QED
    BY <1>0, <2>2, SubSeqEmpty, ConcatEmptySeq
<1>10. NoLostWakeup'
  BY <1>1, <1>3, <1>9 DEF Inv, NoLostWakeup, NoTakerBeforeItem,
                          NoOfferBeforeRoom, NoWaiterOnceClosed
<1> QED
  BY <1>8, <1>10 DEF Inv

\* close() answers everyone who waits.
LEMMA CloseInv ==
  ASSUME Inv, Close
  PROVE  Inv'
<1>1. <<>> \in Seq(Offers) /\ <<>> \in Seq(Takers)
  OBVIOUS
<1>2. TypeOK'
  BY <1>1 DEF Close, Settle, Inv, TypeOK
<1>3. NoLostWakeup'
  BY DEF Close, Inv, NoLostWakeup, NoTakerBeforeItem, NoOfferBeforeRoom, NoWaiterOnceClosed
<1> QED
  BY <1>2, <1>3 DEF Inv

\* The invariant is inductive.
LEMMA StepInv == Inv /\ [Next]_vars => Inv'
<1> SUFFICES ASSUME Inv, [Next]_vars PROVE Inv'
  OBVIOUS
<1>1. ASSUME NEW o \in Offers, Offer(o) PROVE Inv'
  BY <1>1, OfferInv
<1>2. ASSUME NEW t \in Takers, Take(t) PROVE Inv'
  BY <1>2, TakeInv
<1>3. ASSUME NEW i \in Iterators, IteratorResumes(i) PROVE Inv'
  BY <1>3 DEF IteratorResumes, Inv, TypeOK, NoLostWakeup, NoTakerBeforeItem,
              NoOfferBeforeRoom, NoWaiterOnceClosed
<1>4. ASSUME NEW c \in Signalled, Abort(c) PROVE Inv'
  BY <1>4, AbortInv
<1>5. CASE UNCHANGED vars
  BY <1>5 DEF vars, Inv, TypeOK, NoLostWakeup, NoTakerBeforeItem,
              NoOfferBeforeRoom, NoWaiterOnceClosed
<1> QED
  BY <1>1, <1>2, <1>3, <1>4, <1>5, ClearInv, CloseInv DEF Next

\* For any callers, any capacity and any order of calls, aborts, clears and
\* the close: no take waits while there is something to take, no offer waits
\* while there is room, the buffer stays within the capacity, and nobody waits
\* on a closed queue.
THEOREM NoWakeupIsLost == Spec => []NoLostWakeup
<1>1. Inv => NoLostWakeup
  BY DEF Inv
<1> QED
  BY <1>1, InitInv, StepInv, PTL DEF Spec

-----------------------------------------------------------------------------
\* Where the items and the waiters are, as sets: the lines and the buffer have
\* nobody twice, the buffer and what was delivered or dropped share no item
\* and are together what was accepted, and whoever waits stands in its line
\* with its listener.  Conservation and WaitersListen follow from it.
Accounting ==
  /\ IsInjective(values) /\ IsInjective(offerWaiters)
  /\ IsInjective(takeWaiters) /\ IsInjective(delivered)
  /\ ToSet(values) \cap ToSet(delivered) = {}
  /\ dropped \cap (ToSet(values) \cup ToSet(delivered)) = {}
  /\ ToSet(values) \cup ToSet(delivered) \cup dropped = {o \in Offers : status[o] = "ok"}
  /\ ToSet(offerWaiters) = {o \in Offers : status[o] = "waiting"}
  /\ ToSet(takeWaiters) = {t \in Takers : status[t] = "waiting"}
  /\ listening = {c \in Signalled : status[c] = "waiting"}
  /\ listening \cap aborted = {}

\* Nothing has happened to a new queue.
LEMMA InitAccounts == Init => Accounting
<1>1. IsInjective(<<>>) /\ ToSet(<<>>) = {}
  BY DEF IsInjective, ToSet
<1>2. Offers \subseteq Calls /\ Takers \subseteq Calls /\ Signalled \subseteq Calls
  BY QueueAssumption
<1> QED
  BY <1>1, <1>2 DEF Init, Accounting

\* flushOffers() as sets: the offers it lets in move to the end of the buffer.
LEMMA FlushMoves ==
  ASSUME Inv, NEW buffer \in Seq(Offers), IsInjective(buffer), IsInjective(offerWaiters),
         ToSet(buffer) \cap ToSet(offerWaiters) = {}, FlushOffers(buffer)
  PROVE  /\ Handed = 0 /\ Served = {} /\ takeWaiters' = takeWaiters
         /\ IsInjective(values') /\ ToSet(values') = ToSet(buffer) \cup Released(buffer)
         /\ IsInjective(offerWaiters')
         /\ ToSet(offerWaiters') = ToSet(offerWaiters) \ Released(buffer)
         /\ Released(buffer) \subseteq ToSet(offerWaiters)
         /\ listening' = listening \ Released(buffer)
<1> DEFINE n == Moved(buffer)
           gone == SubSeq(offerWaiters, 1, n)
           left == SubSeq(offerWaiters, n + 1, Len(offerWaiters))
<1>0. Handed = 0 /\ Served = {} /\ takeWaiters' = takeWaiters
  BY NothingHanded DEF FlushOffers
<1>1. Len(offerWaiters) \in Nat /\ Len(buffer) \in Nat /\ Capacity \in Nat
  BY LenProperties, QueueAssumption DEF Inv, TypeOK
<1>2. n \in Nat /\ n <= Len(offerWaiters)
  BY <1>0, <1>1 DEF Moved, Room, Least
<1>3. Handed + 1 = 1 /\ Handed + Moved(buffer) = n /\ Handed + Moved(buffer) + 1 = n + 1
  BY <1>0, <1>2
<1>4. Released(buffer) = ToSet(gone)
  BY <1>3, Zenon DEF Released
<1>5. values' = buffer \o gone /\ offerWaiters' = left /\ listening' = listening \ Released(buffer)
  BY <1>0, <1>3, Zenon DEF FlushOffers
<1>6. /\ gone \in Seq(Offers) /\ IsInjective(gone)
      /\ left \in Seq(Offers) /\ IsInjective(left)
      /\ ToSet(gone) \cup ToSet(left) = ToSet(offerWaiters)
      /\ ToSet(gone) \cap ToSet(left) = {}
  <2>1. offerWaiters \in Seq(Offers)
    BY DEF Inv, TypeOK
  <2> HIDE DEF n
  <2> QED
    BY <1>2, <2>1, SplitLine
<1> HIDE DEF gone, left, n
<1>7. IsInjective(buffer \o gone) /\ ToSet(buffer \o gone) = ToSet(buffer) \cup ToSet(gone)
  <2>1. ToSet(buffer) \cap ToSet(gone) = {}
    BY <1>6
  <2> QED
    BY <1>6, <2>1, JoinLines
<1> QED
  BY <1>0, <1>4, <1>5, <1>6, <1>7

\* offer() in each of its outcomes.
LEMMA OfferAccounts ==
  ASSUME Inv, Accounting, NEW o \in Offers, Offer(o)
  PROVE  Accounting'
<1>0. /\ UNCHANGED <<closed, aborted, dropped>>
      /\ status[o] = "idle" /\ o \notin Takers
      /\ status \in [Calls -> {"idle", "waiting", "ok", "closed", "aborted"}]
      /\ Signalled \subseteq Calls
  BY QueueAssumption DEF Offer, Inv, TypeOK
<1>1. /\ o \notin ToSet(values) /\ o \notin ToSet(delivered) /\ o \notin dropped
      /\ o \notin ToSet(offerWaiters) /\ o \notin listening
  BY <1>0 DEF Accounting
<1>2. CASE OfferRejected(o)
  BY <1>0, <1>1, <1>2 DEF OfferRejected, Accounting
<1>3. CASE takeWaiters # <<>> /\ OfferHandedOver(o)
  <2> DEFINE t == Head(takeWaiters)
  <2>1. /\ t \in ToSet(takeWaiters)
        /\ ToSet(takeWaiters') = ToSet(takeWaiters) \ {t}
        /\ IsInjective(takeWaiters')
    BY <1>3, ShiftLine DEF OfferHandedOver, Accounting, Inv, TypeOK
  <2>2. ToSet(delivered') = ToSet(delivered) \cup {o} /\ IsInjective(delivered')
    BY <1>1, <1>3, JoinLine DEF OfferHandedOver, Accounting, Inv, TypeOK
  <2>3. /\ status' = Settle({o, t}, "ok") /\ listening' = listening \ {t}
        /\ UNCHANGED <<values, offerWaiters>>
    BY <1>3 DEF OfferHandedOver
  <2>4. t \in Takers /\ t \notin Offers
    BY <2>1, QueueAssumption DEF Accounting
  <2> HIDE DEF t
  <2> QED
    BY <1>0, <1>1, <2>1, <2>2, <2>3, <2>4 DEF Accounting, Settle
<1>4. CASE OfferBuffered(o)
  <2>1. ToSet(values') = ToSet(values) \cup {o} /\ IsInjective(values')
    BY <1>1, <1>4, JoinLine DEF OfferBuffered, Accounting, Inv, TypeOK
  <2> QED
    BY <1>0, <1>1, <1>4, <2>1 DEF OfferBuffered, Accounting
<1>5. CASE o \notin aborted /\ OfferWaits(o)
  <2>1. ToSet(offerWaiters') = ToSet(offerWaiters) \cup {o} /\ IsInjective(offerWaiters')
    BY <1>1, <1>5, JoinLine DEF OfferWaits, Accounting, Inv, TypeOK
  <2> QED
    BY <1>0, <1>1, <1>5, <2>1 DEF OfferWaits, Accounting
<1> QED
  BY <1>2, <1>3, <1>4, <1>5 DEF Offer

\* take() in each of its outcomes.
LEMMA TakeAccounts ==
  ASSUME Inv, Accounting, NEW t \in Takers, Take(t)
  PROVE  Accounting'
<1>0. /\ UNCHANGED <<closed, aborted, dropped>>
      /\ status[t] = "idle" /\ t \notin Offers
      /\ status \in [Calls -> {"idle", "waiting", "ok", "closed", "aborted"}]
      /\ Signalled \subseteq Calls
  BY QueueAssumption DEF Take, Inv, TypeOK
<1>1. t \notin ToSet(takeWaiters) /\ t \notin listening
  BY <1>0 DEF Accounting
<1>2. CASE values # <<>> /\ TakeBuffered(t)
  <2> DEFINE rest == Tail(values)
             first == Head(values)
  <2>1. /\ first \in ToSet(values) /\ rest \in Seq(Offers)
        /\ ToSet(rest) = ToSet(values) \ {first} /\ IsInjective(rest)
    BY <1>2, ShiftLine DEF Accounting, Inv, TypeOK
  <2>2. ToSet(rest) \cap ToSet(offerWaiters) = {} /\ IsInjective(offerWaiters)
    BY <2>1 DEF Accounting
  <2>3. FlushOffers(rest) /\ status' = Settle({t} \cup Released(rest) \cup Served, "ok")
    BY <1>2 DEF TakeBuffered
  <2>4. /\ Served = {} /\ takeWaiters' = takeWaiters
        /\ IsInjective(values') /\ ToSet(values') = ToSet(rest) \cup Released(rest)
        /\ IsInjective(offerWaiters')
        /\ ToSet(offerWaiters') = ToSet(offerWaiters) \ Released(rest)
        /\ Released(rest) \subseteq ToSet(offerWaiters)
        /\ listening' = listening \ Released(rest)
    BY <2>1, <2>2, <2>3, FlushMoves
  <2>5. delivered' = Append(delivered, first)
    <3>1. delivered \in Seq(Offers) /\ first \in Offers
      BY <2>1 DEF Accounting, Inv, TypeOK
    <3>2. delivered' = (delivered \o <<first>>) \o <<>>
      <4>1. SubSeq(offerWaiters, 1, Handed) = <<>>
        BY NothingHanded
      <4> QED
        BY <1>2, <4>1, Zenon DEF TakeBuffered
    <3>3. delivered \o <<first>> = Append(delivered, first)
      BY <3>1, AppendIsConcat
    <3> QED
      BY <3>1, <3>2, <3>3, AppendProperties, ConcatEmptySeq
  <2>6. first \in Offers /\ first \notin ToSet(delivered) /\ delivered \in Seq(Offers)
    BY <2>1 DEF Accounting, Inv, TypeOK
  <2> HIDE DEF first, rest
  <2>7. ToSet(delivered') = ToSet(delivered) \cup {first} /\ IsInjective(delivered')
    BY <2>5, <2>6, JoinLine DEF Accounting
  <2>8. status' = [c \in Calls |-> IF c \in {t} \cup Released(rest) THEN "ok" ELSE status[c]]
    BY <2>3, <2>4 DEF Settle
  <2>9. Released(rest) \subseteq Offers /\ Released(rest) \cap Takers = {}
    BY <2>4, QueueAssumption DEF Accounting
  <2>10. /\ ToSet(values') \cap ToSet(delivered') = {}
         /\ dropped \cap (ToSet(values') \cup ToSet(delivered')) = {}
         /\ ToSet(values') \cup ToSet(delivered') \cup dropped
              = {o \in Offers : status[o] = "ok"} \cup Released(rest)
    BY <2>1, <2>4, <2>7 DEF Accounting
  <2> QED
    BY <1>0, <1>1, <2>4, <2>7, <2>8, <2>9, <2>10 DEF Accounting
<1>3. CASE values = <<>> /\ offerWaiters # <<>> /\ TakeFromOffer(t)
  BY <1>3, EmptySeq, QueueAssumption DEF Inv, NoLostWakeup, NoOfferBeforeRoom
<1>4. CASE \E outcome \in {"aborted", "closed"} : TakeRefused(t, outcome)
  BY <1>0, <1>1, <1>4 DEF TakeRefused, Accounting
<1>5. CASE t \notin aborted /\ TakeWaits(t)
  <2>1. ToSet(takeWaiters') = ToSet(takeWaiters) \cup {t} /\ IsInjective(takeWaiters')
    BY <1>1, <1>5, JoinLine DEF TakeWaits, Accounting, Inv, TypeOK
  <2> QED
    BY <1>0, <1>1, <1>5, <2>1 DEF TakeWaits, Accounting
<1> QED
  BY <1>2, <1>3, <1>4, <1>5 DEF Take

\* An abort takes the call out of its line, and only a waiting one.
LEMMA AbortAccounts ==
  ASSUME Inv, Accounting, NEW c \in Signalled, Abort(c)
  PROVE  Accounting'
<1>0. /\ UNCHANGED <<values, delivered, dropped>>
      /\ aborted' = aborted \cup {c}
      /\ status \in [Calls -> {"idle", "waiting", "ok", "closed", "aborted"}]
      /\ c \in Calls /\ Signalled \subseteq Calls
  BY QueueAssumption DEF Abort, Inv, TypeOK
<1>1. CASE c \in listening /\ OnAbort(c)
  <2>1. ToSet(offerWaiters') = ToSet(offerWaiters) \ {c} /\ IsInjective(offerWaiters')
    BY <1>1, GiveUpLine DEF OnAbort, Accounting, Inv, TypeOK
  <2>2. ToSet(takeWaiters') = ToSet(takeWaiters) \ {c} /\ IsInjective(takeWaiters')
    BY <1>1, GiveUpLine DEF OnAbort, Accounting, Inv, TypeOK
  <2>3. status[c] = "waiting"
    BY <1>1 DEF Accounting
  <2>4. status' = [status EXCEPT ![c] = "aborted"] /\ listening' = listening \ {c}
    BY <1>1, <2>3 DEF OnAbort
  <2> QED
    BY <1>0, <2>1, <2>2, <2>3, <2>4 DEF Accounting
<1>2. CASE c \notin listening /\ UNCHANGED <<offerWaiters, takeWaiters, status, listening>>
  BY <1>0, <1>2 DEF Accounting
<1> QED
  BY <1>1, <1>2 DEF Abort

\* clear() and drain() discard the buffer and let offers in.
LEMMA ClearAccounts ==
  ASSUME Inv, Accounting, Clear
  PROVE  Accounting'
<1>0. <<>> \in Seq(Offers) /\ IsInjective(<<>>) /\ ToSet(<<>>) = {}
  BY DEF IsInjective, ToSet
<1>1. /\ FlushOffers(<<>>) /\ UNCHANGED aborted
      /\ dropped' = dropped \cup ToSet(values)
      /\ status' = Settle(Released(<<>>) \cup Served, "ok")
  BY DEF Clear
<1>2. /\ Served = {} /\ takeWaiters' = takeWaiters
      /\ IsInjective(values') /\ ToSet(values') = {} \cup Released(<<>>)
      /\ IsInjective(offerWaiters')
      /\ ToSet(offerWaiters') = ToSet(offerWaiters) \ Released(<<>>)
      /\ Released(<<>>) \subseteq ToSet(offerWaiters)
      /\ listening' = listening \ Released(<<>>)
  <2>1. ToSet(<<>>) \cap ToSet(offerWaiters) = {} /\ IsInjective(offerWaiters)
    BY <1>0 DEF Accounting
  <2> QED
    BY <1>0, <1>1, <2>1, FlushMoves
<1>3. delivered' = delivered
  <2>1. delivered' = delivered \o <<>>
    BY NothingHanded, Zenon DEF Clear
  <2> QED
    BY <2>1, ConcatEmptySeq DEF Inv, TypeOK
<1>4. status' = [c \in Calls |-> IF c \in Released(<<>>) THEN "ok" ELSE status[c]]
  BY <1>1, <1>2 DEF Settle
<1>5. Released(<<>>) \subseteq Offers /\ Released(<<>>) \cap Takers = {} /\ Signalled \subseteq Calls
  BY <1>2, QueueAssumption DEF Accounting
<1>6. /\ ToSet(values') \cap ToSet(delivered') = {}
      /\ dropped' \cap (ToSet(values') \cup ToSet(delivered')) = {}
      /\ ToSet(values') \cup ToSet(delivered') \cup dropped'
           = {o \in Offers : status[o] = "ok"} \cup Released(<<>>)
  BY <1>1, <1>2, <1>3 DEF Accounting
<1> QED
  BY <1>1, <1>2, <1>3, <1>4, <1>5, <1>6 DEF Accounting

\* close() empties the two lines.
LEMMA CloseAccounts ==
  ASSUME Inv, Accounting, Close
  PROVE  Accounting'
<1>1. ToSet(offerWaiters') = {} /\ ToSet(takeWaiters') = {}
      /\ IsInjective(offerWaiters') /\ IsInjective(takeWaiters')
  BY DEF Close, IsInjective, ToSet
<1>2. /\ UNCHANGED <<values, aborted, delivered, dropped>>
      /\ listening' = (listening \ ToSet(offerWaiters)) \ ToSet(takeWaiters)
      /\ status' = Settle(ToSet(offerWaiters) \cup ToSet(takeWaiters), "closed")
  BY DEF Close
<1>3. Signalled \subseteq Offers \cup Takers
  BY QueueAssumption
<1>4. listening' = {}
  BY <1>2, <1>3 DEF Accounting
<1>5. ASSUME NEW c \in Calls
      PROVE  status'[c] = IF status[c] = "waiting" THEN "closed" ELSE status[c]
  BY <1>2 DEF Settle, Accounting
<1> QED
  BY <1>1, <1>2, <1>3, <1>4, <1>5 DEF Accounting

\* The accounts stay right.
LEMMA StepAccounts == Inv /\ Accounting /\ [Next]_vars => Accounting'
<1> SUFFICES ASSUME Inv, Accounting, [Next]_vars PROVE Accounting'
  OBVIOUS
<1>1. ASSUME NEW o \in Offers, Offer(o) PROVE Accounting'
  BY <1>1, OfferAccounts
<1>2. ASSUME NEW t \in Takers, Take(t) PROVE Accounting'
  BY <1>2, TakeAccounts
<1>3. ASSUME NEW i \in Iterators, IteratorResumes(i) PROVE Accounting'
  BY <1>3, QueueAssumption DEF IteratorResumes, Accounting, Inv, TypeOK
<1>4. ASSUME NEW c \in Signalled, Abort(c) PROVE Accounting'
  BY <1>4, AbortAccounts
<1>5. CASE UNCHANGED vars
  BY <1>5 DEF vars, Accounting
<1> QED
  BY <1>1, <1>2, <1>3, <1>4, <1>5, ClearAccounts, CloseAccounts DEF Next

\* No item is lost or duplicated: each accepted one is in exactly one of the
\* buffer, the takers' hands and the discarded items, each waiting one in its
\* line, and a refused one nowhere, whatever calls, aborts, clears and closes
\* are interleaved.
THEOREM NothingLostOrDuplicated == Spec => []Conservation
<1>1. Inv /\ Accounting => Conservation
  <2> SUFFICES ASSUME Inv, Accounting PROVE Conservation
    OBVIOUS
  <2>1. values \in Seq(Offers) /\ offerWaiters \in Seq(Offers) /\ delivered \in Seq(Offers)
    BY DEF Inv, TypeOK
  <2>2. /\ delivered \o values \in Seq(Offers)
        /\ ToSet(delivered \o values) = ToSet(delivered) \cup ToSet(values)
        /\ IsInjective(delivered \o values)
    BY <2>1, JoinLines DEF Accounting
  <2>3. ToSet(delivered \o values) \cap ToSet(offerWaiters) = {}
    BY <2>2 DEF Accounting
  <2>4. /\ ToSet(Accounted) = ToSet(delivered \o values) \cup ToSet(offerWaiters)
        /\ IsInjective(Accounted)
    <3> DEFINE out == delivered \o values
    <3>1. Accounted = out \o offerWaiters
      BY DEF Accounted
    <3>2. IsInjective(offerWaiters)
      BY DEF Accounting
    <3>3. out \in Seq(Offers) /\ IsInjective(out) /\ ToSet(out) \cap ToSet(offerWaiters) = {}
      BY <2>2, <2>3
    <3> HIDE DEF out
    <3>4. /\ ToSet(out \o offerWaiters) = ToSet(out) \cup ToSet(offerWaiters)
          /\ IsInjective(out \o offerWaiters)
      BY <2>1, <3>2, <3>3, JoinLines
    <3> QED
      BY <3>1, <3>4 DEF out
  <2> QED
    BY <2>2, <2>4 DEF Accounting, Conservation
<1> QED
  BY <1>1, InitInv, InitAccounts, StepInv, StepAccounts, PTL DEF Spec

\* Whoever waits with a signal listens to it, and nobody else does: no abort
\* listener outlives its call and no waiting call is deaf.
THEOREM ListenersAreWaiters == Spec => []WaitersListen
<1>1. Accounting => WaitersListen
  BY DEF Accounting, WaitersListen
<1> QED
  BY <1>1, InitInv, InitAccounts, StepInv, StepAccounts, PTL DEF Spec

\* Whoever waits stands in its line, once, and nobody else stands there: an
\* abort, a flush, a close or a call that serves another answers exactly those
\* it takes out (src/queue.ts:86-100, 108-125, 157-168).
THEOREM WaitersAreInLine == Spec => [](TypeOK /\ WaitersStandOnce)
<1>1. Inv /\ Accounting => TypeOK /\ WaitersStandOnce
  BY DEF Inv, Accounting, WaitersStandOnce
<1> QED
  BY <1>1, InitInv, InitAccounts, StepInv, StepAccounts, PTL DEF Spec

-----------------------------------------------------------------------------
\* A taker holds an item exactly when its call was answered with one.
Hands == \A t \in Takers : got[t] = NoItem <=> status[t] # "ok"

\* Who holds an item stays right.
LEMMA HandsKeep == Inv /\ Accounting /\ Hands /\ [Next]_vars => Hands'
<1> SUFFICES ASSUME Inv, Accounting, Hands, [Next]_vars PROVE Hands'
  OBVIOUS
<1> USE QueueAssumption DEF Hands
<1>0. /\ status \in [Calls -> {"idle", "waiting", "ok", "closed", "aborted"}]
      /\ got \in [Takers -> Offers \cup {NoItem}]
      /\ \A x \in Offers : x \notin Takers /\ x # NoItem
  BY DEF Inv, TypeOK
<1>1. ASSUME NEW o \in Offers, Offer(o) PROVE Hands'
  <2>1. CASE OfferRejected(o)
    BY <1>0, <2>1 DEF OfferRejected
  <2>2. CASE takeWaiters # <<>> /\ OfferHandedOver(o)
    <3>1. Head(takeWaiters) \in Takers
      BY <2>2, HeadTailProperties DEF Inv, TypeOK
    <3> QED
      BY <1>0, <2>2, <3>1 DEF OfferHandedOver, Settle
  <2>3. CASE OfferBuffered(o) \/ OfferWaits(o)
    BY <1>0, <2>3 DEF OfferBuffered, OfferWaits
  <2> QED
    BY <1>1, <2>1, <2>2, <2>3 DEF Offer
<1>2. ASSUME NEW t \in Takers, Take(t) PROVE Hands'
  <2>1. CASE values # <<>> /\ TakeBuffered(t)
    <3>1. got' = [got EXCEPT ![t] = Head(values)] /\ Served = {}
      BY <2>1, NothingHanded, Zenon DEF TakeBuffered
    <3>2. Head(values) \in Offers /\ Tail(values) \in Seq(Offers) /\ Len(Tail(values)) <= Capacity
      <4>1. Head(values) \in Offers /\ Tail(values) \in Seq(Offers) /\ Len(Tail(values)) = Len(values) - 1
        BY <2>1, HeadTailProperties DEF Inv, TypeOK
      <4>2. Len(values) \in Nat /\ Len(values) <= Capacity /\ Capacity \in Nat
        BY LenProperties DEF Inv, TypeOK, NoLostWakeup
      <4> QED
        BY <4>1, <4>2
    <3>3. Released(Tail(values)) \subseteq Offers
      <4>1. FlushOffers(Tail(values))
        BY <2>1 DEF TakeBuffered
      <4> QED
        BY <3>2, <4>1, FlushFills
    <3>4. status' = [c \in Calls |-> IF c \in {t} \cup Released(Tail(values)) THEN "ok" ELSE status[c]]
      BY <2>1, <3>1 DEF TakeBuffered, Settle
    <3> QED
      BY <1>0, <3>1, <3>2, <3>3, <3>4
  <2>2. CASE values = <<>> /\ offerWaiters # <<>> /\ TakeFromOffer(t)
    BY <2>2, EmptySeq DEF Inv, NoLostWakeup, NoOfferBeforeRoom
  <2>3. CASE (\E outcome \in {"aborted", "closed"} : TakeRefused(t, outcome)) \/ TakeWaits(t)
    BY <1>0, <1>2, <2>3 DEF TakeRefused, TakeWaits, Take
  <2> QED
    BY <1>2, <2>1, <2>2, <2>3 DEF Take
<1>3. ASSUME NEW i \in Iterators, IteratorResumes(i) PROVE Hands'
  BY <1>0, <1>3 DEF IteratorResumes
<1>4. ASSUME NEW c \in Signalled, Abort(c) PROVE Hands'
  BY <1>0, <1>4 DEF Abort, OnAbort
<1>5. CASE Clear
  <2>1. got' = got /\ Served = {}
    BY <1>5, NothingHanded, Zenon DEF Clear
  <2>2. Released(<<>>) \subseteq Offers
    <3>1. <<>> \in Seq(Offers) /\ Len(<<>>) <= Capacity /\ FlushOffers(<<>>)
      BY <1>5, EmptySeq DEF Clear
    <3> QED
      BY <3>1, FlushFills
  <2>3. status' = [c \in Calls |-> IF c \in Released(<<>>) THEN "ok" ELSE status[c]]
    BY <1>5, <2>1 DEF Clear, Settle
  <2> QED
    BY <1>0, <2>1, <2>2, <2>3
<1>6. CASE Close
  <2>1. ASSUME NEW c \in Calls
        PROVE  status'[c] = IF status[c] = "waiting" THEN "closed" ELSE status[c]
    BY <1>6 DEF Close, Settle, Accounting
  <2> QED
    BY <1>0, <1>6, <2>1 DEF Close
<1>7. CASE UNCHANGED vars
  BY <1>7 DEF vars
<1> QED
  BY <1>1, <1>2, <1>3, <1>4, <1>5, <1>6, <1>7 DEF Next

\* After flushOffers() the buffer and the waiting offers hold, in one line,
\* what the new buffer and the waiting offers held before.
LEMMA FlushKeepsOrder ==
  ASSUME Inv, Accounting, NEW buffer \in Seq(Offers), Len(buffer) <= Capacity, FlushOffers(buffer)
  PROVE  /\ values' \o offerWaiters' = buffer \o offerWaiters
         /\ Len(values') \in Len(buffer) .. Len(buffer \o offerWaiters)
<1> DEFINE n == Moved(buffer)
           gone == SubSeq(offerWaiters, 1, n)
           left == SubSeq(offerWaiters, n + 1, Len(offerWaiters))
<1>1. Len(offerWaiters) \in Nat /\ Len(buffer) \in Nat /\ Capacity \in Nat /\ Handed = 0
  BY LenProperties, QueueAssumption, NothingHanded DEF Inv, TypeOK
<1>2. n \in Nat /\ n <= Len(offerWaiters)
  BY <1>1 DEF Moved, Room, Least
<1>3. Handed + 1 = 1 /\ Handed + Moved(buffer) = n /\ Handed + Moved(buffer) + 1 = n + 1
  BY <1>1, <1>2
<1>4. values' = buffer \o gone /\ offerWaiters' = left
  BY <1>3, Zenon DEF FlushOffers
<1>5. offerWaiters \in Seq(Offers) /\ IsInjective(offerWaiters)
  BY DEF Inv, TypeOK, Accounting
<1> HIDE DEF n
<1>6. gone \in Seq(Offers) /\ left \in Seq(Offers) /\ Len(gone) = n
  BY <1>1, <1>2, <1>5, SubSeqType, 1 \in Nat \ {0}, n + 1 \in Nat \ {0}
<1>7. gone \o left = offerWaiters
  <2>1. /\ 1 \in 1 .. Len(offerWaiters) + 1
        /\ n \in (1 - 1) .. Len(offerWaiters)
        /\ Len(offerWaiters) \in n .. Len(offerWaiters)
    BY <1>1, <1>2
  <2>2. gone \o left = SubSeq(offerWaiters, 1, Len(offerWaiters))
    BY <1>5, <2>1, ConcatAdjacentSubSeq
  <2> QED
    BY <1>5, <2>2, SubSeqFull
<1> HIDE DEF gone, left
<1>8. (buffer \o gone) \o left = buffer \o (gone \o left)
  BY <1>6, ConcatAssociative
<1>9. Len(buffer \o gone) = Len(buffer) + n /\ Len(buffer \o offerWaiters) = Len(buffer) + Len(offerWaiters)
  BY <1>5, <1>6, ConcatProperties
<1> QED
  BY <1>1, <1>2, <1>4, <1>7, <1>8, <1>9

\* Steps that touch neither the items nor the takers are none of the channel's.
LEMMA ChannelStutters == UNCHANGED <<lines, got, closed>> => UNCHANGED Channel!vars
  BY DEF Channel!vars

\* offer(): the item is sent, or refused.
LEMMA OfferSends ==
  ASSUME Inv, Accounting, NEW o \in Offers, Offer(o)
  PROVE  Channel!Send(o) \/ UNCHANGED Channel!vars
<1>0. /\ values \in Seq(Offers) /\ offerWaiters \in Seq(Offers) /\ closed' = closed
      /\ Len(values) \in Nat /\ Capacity \in Nat \ {0}
  BY LenProperties, QueueAssumption DEF Inv, TypeOK, Offer
<1>1. CASE OfferRejected(o)
  BY <1>0, <1>1, ChannelStutters DEF OfferRejected
<1>2. CASE ~closed /\ takeWaiters # <<>> /\ OfferHandedOver(o)
  <2>1. got' = [got EXCEPT ![Head(takeWaiters)] = o]
    BY <1>2 DEF OfferHandedOver
  <2> QED
    BY <1>0, <1>2, <2>1 DEF OfferHandedOver, Channel!Send
<1>3. CASE ~closed /\ takeWaiters = <<>> /\ Len(values) < Capacity /\ OfferBuffered(o)
  <2>1. offerWaiters = <<>> /\ offerWaiters' = <<>> /\ values' = Append(values, o)
    BY <1>0, <1>3 DEF OfferBuffered, Inv, NoLostWakeup, NoOfferBeforeRoom
  <2>2. Append(values, o) \in Seq(Offers) /\ Len(Append(values, o)) = Len(values) + 1
    BY <1>0, AppendProperties
  <2>3. values \o offerWaiters = values /\ values' \o offerWaiters' = Append(values, o)
    BY <1>0, <2>1, <2>2, ConcatEmptySeq
  <2>4. Len(values') \in Len(values) .. Len(values' \o offerWaiters')
    BY <1>0, <2>1, <2>2, <2>3
  <2> QED
    BY <1>0, <1>3, <2>3, <2>4 DEF OfferBuffered, Channel!Send
<1>4. CASE ~closed /\ takeWaiters = <<>> /\ OfferWaits(o)
  <2>1. values' = values /\ offerWaiters' = Append(offerWaiters, o)
    BY <1>4 DEF OfferWaits
  <2>2. Append(offerWaiters, o) = offerWaiters \o <<o>> /\ <<o>> \in Seq(Offers)
    BY <1>0, AppendIsConcat
  <2>3. values \o offerWaiters \in Seq(Offers) /\ Len(values \o offerWaiters) = Len(values) + Len(offerWaiters)
    BY <1>0, ConcatProperties
  <2>4. Append(values \o offerWaiters, o) = (values \o offerWaiters) \o <<o>>
    BY <2>3, AppendIsConcat
  <2>5. (values \o offerWaiters) \o <<o>> = values \o (offerWaiters \o <<o>>)
    BY <1>0, <2>2, ConcatAssociative
  <2>6. values' \o offerWaiters' = Append(values \o offerWaiters, o)
    BY <2>1, <2>2, <2>4, <2>5
  <2>7. Len(values' \o offerWaiters') = Len(values) + Len(offerWaiters) + 1
    BY <2>3, <2>6, AppendProperties
  <2>8. Len(values') \in Len(values) .. Len(values' \o offerWaiters')
    BY <1>0, <2>1, <2>7, LenProperties
  <2> QED
    BY <1>0, <1>4, <2>6, <2>8 DEF OfferWaits, Channel!Send
<1> QED
  BY <1>1, <1>2, <1>3, <1>4 DEF Offer

\* take(): the oldest item is received, or the taker waits or is refused.
LEMMA TakeReceives ==
  ASSUME Inv, Accounting, Hands, NEW t \in Takers, Take(t)
  PROVE  Channel!Receive(t) \/ Channel!Wait(t) \/ UNCHANGED Channel!vars
<1>0. /\ values \in Seq(Offers) /\ offerWaiters \in Seq(Offers) /\ closed' = closed
      /\ Len(values) \in Nat /\ Capacity \in Nat \ {0}
      /\ got[t] = NoItem /\ got \in [Takers -> Offers \cup {NoItem}]
  BY LenProperties, QueueAssumption DEF Inv, TypeOK, Take, Hands
<1>1. CASE values # <<>> /\ TakeBuffered(t)
  <2> DEFINE rest == Tail(values)
  <2>1. rest \in Seq(Offers) /\ Len(rest) = Len(values) - 1 /\ Len(values) > 0
    BY <1>0, <1>1, HeadTailProperties, EmptySeq
  <2>2. FlushOffers(rest) /\ Len(rest) <= Capacity
    BY <1>0, <1>1, <2>1 DEF TakeBuffered, Inv, NoLostWakeup
  <2>3. /\ values' \o offerWaiters' = rest \o offerWaiters
        /\ Len(values') \in Len(rest) .. Len(rest \o offerWaiters)
    BY <2>1, <2>2, FlushKeepsOrder
  <2>4. got' = [got EXCEPT ![t] = Head(values)] /\ takeWaiters' = takeWaiters
    <3>1. got' = [got EXCEPT ![t] = Head(values)]
      BY <1>1, NothingHanded, Zenon DEF TakeBuffered
    <3>2. takeWaiters' = takeWaiters
      BY <2>2, NothingHanded, Zenon DEF FlushOffers
    <3> QED
      BY <3>1, <3>2
  <2> HIDE DEF rest
  <2>5. values \o offerWaiters # <<>> /\ Head(values \o offerWaiters) = Head(values)
        /\ Tail(values \o offerWaiters) = rest \o offerWaiters
    <3>1. /\ values \o offerWaiters \in Seq(Offers)
          /\ Len(values \o offerWaiters) = Len(values) + Len(offerWaiters)
          /\ \A i \in 1 .. Len(values) + Len(offerWaiters) :
               (values \o offerWaiters)[i]
                 = IF i <= Len(values) THEN values[i] ELSE offerWaiters[i - Len(values)]
      BY <1>0, ConcatProperties
    <3>2. /\ rest \o offerWaiters \in Seq(Offers)
          /\ Len(rest \o offerWaiters) = Len(rest) + Len(offerWaiters)
          /\ \A i \in 1 .. Len(rest) + Len(offerWaiters) :
               (rest \o offerWaiters)[i] = IF i <= Len(rest) THEN rest[i] ELSE offerWaiters[i - Len(rest)]
      BY <1>0, <2>1, ConcatProperties
    <3>3. \A i \in 1 .. Len(rest) : rest[i] = values[i + 1]
      BY <1>0, <1>1, HeadTailProperties DEF rest
    <3> DEFINE all == values \o offerWaiters
               others == rest \o offerWaiters
    <3>4. Len(offerWaiters) \in Nat
      BY <1>0, LenProperties
    <3> HIDE DEF all, others
    <3>5. all \in Seq(Offers) /\ Len(all) = Len(values) + Len(offerWaiters) /\ all # <<>>
      BY <2>1, <3>1, <3>4, EmptySeq DEF all
    <3>6. Tail(all) \in Seq(Offers) /\ Len(Tail(all)) = Len(all) - 1
          /\ \A i \in 1 .. Len(all) - 1 : Tail(all)[i] = all[i + 1]
      BY <3>5, HeadTailProperties
    <3>7. ASSUME NEW i \in 1 .. Len(all) - 1 PROVE Tail(all)[i] = others[i]
      <4>1. i \in 1 .. Len(rest) + Len(offerWaiters) /\ i + 1 \in 1 .. Len(values) + Len(offerWaiters)
        BY <1>0, <2>1, <3>4, <3>5
      <4>2. CASE i <= Len(rest)
        <5>1. all[i + 1] = values[i + 1] /\ others[i] = rest[i]
          BY <1>0, <2>1, <3>1, <3>2, <4>1, <4>2 DEF all, others
        <5>2. i \in 1 .. Len(rest)
          BY <1>0, <2>1, <4>2
        <5> QED
          BY <3>3, <3>6, <5>1, <5>2
      <4>3. CASE ~(i <= Len(rest))
        <5>1. (i + 1) - Len(values) = i - Len(rest) /\ ~(i + 1 <= Len(values))
          BY <1>0, <2>1, <4>3
        <5>2. all[i + 1] = offerWaiters[i - Len(rest)] /\ others[i] = offerWaiters[i - Len(rest)]
          BY <3>1, <3>2, <4>1, <4>3, <5>1 DEF all, others
        <5> QED
          BY <3>6, <5>2
      <4> QED
        BY <4>2, <4>3
    <3>8. others \in Seq(Offers) /\ Len(others) = Len(all) - 1
      BY <1>0, <2>1, <3>2, <3>4, <3>5 DEF others
    <3>9. Tail(all) = others
      BY <3>6, <3>7, <3>8, SeqEqual
    <3>10. Head(all) = Head(values)
      <4>1. 1 \in 1 .. Len(values) + Len(offerWaiters) /\ 1 <= Len(values)
        BY <1>0, <2>1, <3>4
      <4>2. all[1] = values[1]
        BY <3>1, <4>1 DEF all
      <4> QED
        BY <1>0, <1>1, <3>5, <4>2
    <3> QED
      BY <3>5, <3>9, <3>10 DEF all, others
  <2>6. Len(values') \in (IF Len(values) > 0 THEN Len(values) - 1 ELSE 0) .. Len(values' \o offerWaiters')
    BY <2>1, <2>3
  <2> QED
    BY <1>0, <2>3, <2>4, <2>5, <2>6 DEF Channel!Receive
<1>2. CASE values = <<>> /\ offerWaiters # <<>> /\ TakeFromOffer(t)
  BY <1>0, <1>2, EmptySeq DEF Inv, NoLostWakeup, NoOfferBeforeRoom
<1>3. CASE \E outcome \in {"aborted", "closed"} : TakeRefused(t, outcome)
  BY <1>0, <1>3, ChannelStutters DEF TakeRefused
<1>4. CASE values = <<>> /\ offerWaiters = <<>> /\ ~closed /\ TakeWaits(t)
  <2>1. values \o offerWaiters = <<>>
    BY <1>0, <1>4, ConcatEmptySeq
  <2> QED
    BY <1>0, <1>4, <2>1 DEF TakeWaits, Channel!Wait
<1> QED
  BY <1>1, <1>2, <1>3, <1>4 DEF Take

\* An abort takes a receiver out of the line or withdraws an item.
LEMMA AbortLeaves ==
  ASSUME Inv, Accounting, NEW c \in Signalled, Abort(c)
  PROVE  Channel!Leave \/ Channel!Withdraw \/ UNCHANGED Channel!vars
<1>0. /\ values \in Seq(Offers) /\ offerWaiters \in Seq(Offers) /\ takeWaiters \in Seq(Takers)
      /\ UNCHANGED <<values, got, closed>>
  BY DEF Abort, Inv, TypeOK
<1>1. CASE c \in ToSet(takeWaiters) /\ OnAbort(c)
  <2>1. c \notin ToSet(offerWaiters)
    BY <1>1, QueueAssumption DEF Accounting
  <2>2. offerWaiters' = offerWaiters /\ takeWaiters' = LeaveLine(takeWaiters, c)
    BY <1>0, <1>1, <2>1, LeaveLineProperties DEF OnAbort
  <2>3. \E i \in 1 .. Len(takeWaiters) : LeaveLine(takeWaiters, c) = RemoveAt(takeWaiters, i)
    <3>1. \E i \in 1 .. Len(takeWaiters) : takeWaiters[i] = c
      BY <1>0, <1>1, LineElements
    <3> QED
      BY <1>1, <3>1 DEF LeaveLine
  <2>4. \E i \in 1 .. Len(takeWaiters) : takeWaiters' = RemoveAt(takeWaiters, i)
    BY <2>2, <2>3
  <2>5. /\ values' \o offerWaiters' = values \o offerWaiters
        /\ Len(values') = Len(values) /\ got' = got /\ closed' = closed
    BY <1>0, <2>2
  <2> QED
    BY <2>4, <2>5 DEF Channel!Leave, RemoveAt, Channel!RemoveAt
<1>2. CASE c \in ToSet(offerWaiters) /\ OnAbort(c)
  <2>1. c \notin ToSet(takeWaiters)
    BY <1>2, QueueAssumption DEF Accounting
  <2>2. takeWaiters' = takeWaiters /\ offerWaiters' = LeaveLine(offerWaiters, c)
    BY <1>0, <1>2, <2>1, LeaveLineProperties DEF OnAbort
  <2>3. \E i \in Len(values) + 1 .. Len(values \o offerWaiters) :
          values \o LeaveLine(offerWaiters, c) = RemoveAt(values \o offerWaiters, i)
    BY <1>0, <1>2, GiveUpBehind
  <2>4. \E i \in Len(values) + 1 .. Len(values \o offerWaiters) :
          values' \o offerWaiters' = RemoveAt(values \o offerWaiters, i)
    BY <1>0, <2>2, <2>3
  <2>5. Len(values') = Len(values) /\ takeWaiters' = takeWaiters /\ got' = got /\ closed' = closed
    BY <1>0, <2>2
  <2> QED
    BY <2>4, <2>5 DEF Channel!Withdraw, RemoveAt, Channel!RemoveAt
<1>3. CASE c \notin listening /\ UNCHANGED <<offerWaiters, takeWaiters, status, listening>>
  BY <1>0, <1>3, ChannelStutters
<1>4. c \in listening => c \in ToSet(takeWaiters) \/ c \in ToSet(offerWaiters)
  BY QueueAssumption DEF Accounting
<1> QED
  BY <1>1, <1>2, <1>3, <1>4 DEF Abort

\* clear() and drain() discard what was acknowledged.
LEMMA ClearDiscards ==
  ASSUME Inv, Accounting, Clear
  PROVE  Channel!Discard
<1>0. /\ values \in Seq(Offers) /\ offerWaiters \in Seq(Offers) /\ <<>> \in Seq(Offers)
      /\ Len(values) \in Nat /\ Len(offerWaiters) \in Nat /\ Len(<<>>) = 0
  BY LenProperties DEF Inv, TypeOK
<1>1. FlushOffers(<<>>) /\ closed' = closed
  BY DEF Clear
<1>2. got' = got /\ takeWaiters' = takeWaiters
  <2>1. got' = got
    BY NothingHanded, Zenon DEF Clear
  <2>2. takeWaiters' = takeWaiters
    BY <1>1, NothingHanded, Zenon DEF FlushOffers
  <2> QED
    BY <2>1, <2>2
<1>3. /\ values' \o offerWaiters' = <<>> \o offerWaiters
      /\ Len(values') \in Len(<<>>) .. Len(<<>> \o offerWaiters)
  <2>1. Len(<<>>) <= Capacity
    BY <1>0, QueueAssumption
  <2> QED
    BY <1>0, <1>1, <2>1, FlushKeepsOrder
<1>4. <<>> \o offerWaiters = offerWaiters
  BY <1>0, ConcatEmptySeq
<1>5. SubSeq(values \o offerWaiters, Len(values) + 1, Len(values \o offerWaiters)) = offerWaiters
  <2>1. SubSeq(values \o offerWaiters, Len(values) + 0 + 1, Len(values \o offerWaiters))
          = SubSeq(offerWaiters, 0 + 1, Len(offerWaiters))
    BY <1>0, CutBehind, 0 \in Nat
  <2>2. SubSeq(offerWaiters, 1, Len(offerWaiters)) = offerWaiters
    BY <1>0, SubSeqFull
  <2>3. Len(values) + 0 + 1 = Len(values) + 1 /\ 0 + 1 = 1
    BY <1>0
  <2> QED
    BY <2>1, <2>2, <2>3
<1> QED
  BY <1>0, <1>1, <1>2, <1>3, <1>4, <1>5 DEF Channel!Discard

\* close() refuses what was not acknowledged.
LEMMA CloseCloses ==
  ASSUME Inv, Close
  PROVE  Channel!Close
<1>0. /\ values \in Seq(Offers) /\ offerWaiters \in Seq(Offers)
      /\ Len(values) \in Nat /\ Len(offerWaiters) \in Nat
  BY LenProperties DEF Inv, TypeOK
<1>1. SubSeq(values \o offerWaiters, 1, Len(values)) = values
  <2>1. SubSeq(values \o offerWaiters, 1, Len(values) + 0) = values \o SubSeq(offerWaiters, 1, 0)
    BY <1>0, CutBehind, 0 \in Nat
  <2>2. SubSeq(offerWaiters, 1, 0) = <<>> /\ Len(values) + 0 = Len(values)
    BY <1>0, SubSeqEmpty
  <2> QED
    BY <1>0, <2>1, <2>2, ConcatEmptySeq
<1>2. values' \o offerWaiters' = values
  BY <1>0, ConcatEmptySeq DEF Close
<1> QED
  BY <1>1, <1>2 DEF Close, Channel!Close

\* The queue implements the channel: items come out in the order they went in,
\* an accepted one leaves only by a take or an explicit discard, nobody waits
\* in front of an item, and close() refuses exactly what was not accepted.
THEOREM QueueIsAChannel == Spec => ImplementsChannel
<1>1. Init => Channel!Init /\ Hands
  <2>1. <<>> \o <<>> = <<>> /\ Len(<<>>) = 0
    BY EmptySeq, ConcatEmptySeq
  <2> QED
    BY <2>1, QueueAssumption DEF Init, Channel!Init, Hands
<1>2. Inv /\ Accounting /\ Hands /\ [Next]_vars => [Channel!Next]_(Channel!vars)
  <2> SUFFICES ASSUME Inv, Accounting, Hands, [Next]_vars
               PROVE  [Channel!Next]_(Channel!vars)
    OBVIOUS
  <2>1. ASSUME NEW o \in Offers, Offer(o) PROVE [Channel!Next]_(Channel!vars)
    BY <2>1, OfferSends DEF Channel!Next
  <2>2. ASSUME NEW t \in Takers, Take(t) PROVE [Channel!Next]_(Channel!vars)
    BY <2>2, TakeReceives DEF Channel!Next
  <2>3. ASSUME NEW i \in Iterators, IteratorResumes(i) PROVE [Channel!Next]_(Channel!vars)
    <3>1. Channel!Consume(i)
      BY <2>3 DEF IteratorResumes, Hands, Channel!Consume
    <3> QED
      BY <3>1 DEF Channel!Next
  <2>4. ASSUME NEW c \in Signalled, Abort(c) PROVE [Channel!Next]_(Channel!vars)
    BY <2>4, AbortLeaves DEF Channel!Next
  <2>5. CASE Clear
    BY <2>5, ClearDiscards DEF Channel!Next
  <2>6. CASE Close
    BY <2>6, CloseCloses DEF Channel!Next
  <2>7. CASE UNCHANGED vars
    BY <2>7, ChannelStutters DEF vars
  <2> QED
    BY <2>1, <2>2, <2>3, <2>4, <2>5, <2>6, <2>7 DEF Next
<1> QED
  BY <1>1, <1>2, InitInv, InitAccounts, StepInv, StepAccounts, HandsKeep, PTL
     DEF Spec, ImplementsChannel, Channel!Spec
=============================================================================
