------------------------------ MODULE Channel ------------------------------
(***************************************************************************)
(* What a yieldless queue keeps, whatever its capacity: a first-in         *)
(* first-out channel.  Items travel in chan; the first ready of them have  *)
(* been acknowledged to their sender, the others may still be withdrawn.   *)
(* An acknowledged item leaves the channel only by being received or by an *)
(* explicit discard; a receiver waits only while there is nothing to       *)
(* receive.  Queue.tla implements this specification.                      *)
(***************************************************************************)
EXTENDS Naturals, Sequences, SequencesExt

CONSTANTS
  Items,     \* what is sent
  Receivers, \* calls that receive
  NoItem     \* "has received nothing", not one of Items

VARIABLES
  chan,    \* items sent and not yet received, oldest first
  ready,   \* how many of them, from the head, are acknowledged
  waiting, \* receivers that found nothing, oldest first
  got,     \* the item each receiver holds
  closed   \* no item is accepted any more

vars == <<chan, ready, waiting, got, closed>>

Init ==
  /\ chan = <<>>
  /\ ready = 0
  /\ waiting = <<>>
  /\ got = [r \in Receivers |-> NoItem]
  /\ closed = FALSE

\* An item goes to the receiver that has waited longest, or to the tail.
Send(item) ==
  /\ ~closed
  /\ \/ /\ waiting # <<>>
        /\ got' = [got EXCEPT ![Head(waiting)] = item]
        /\ waiting' = Tail(waiting)
        /\ UNCHANGED <<chan, ready>>
     \/ /\ waiting = <<>>
        /\ chan' = Append(chan, item)
        /\ ready' \in ready .. Len(chan')
        /\ UNCHANGED <<waiting, got>>
  /\ UNCHANGED closed

\* A receiver takes the head, which may make room to acknowledge others.
Receive(r) ==
  /\ chan # <<>>
  /\ got[r] = NoItem
  /\ got' = [got EXCEPT ![r] = Head(chan)]
  /\ chan' = Tail(chan)
  /\ ready' \in (IF ready > 0 THEN ready - 1 ELSE 0) .. Len(chan')
  /\ UNCHANGED <<waiting, closed>>

\* Nobody waits in front of an item, nor once the channel is closed.
Wait(r) ==
  /\ chan = <<>>
  /\ ~closed
  /\ waiting' = Append(waiting, r)
  /\ UNCHANGED <<chan, ready, got, closed>>

\* A receiver leaves the waiting line.
Leave ==
  /\ \E i \in 1 .. Len(waiting) : waiting' = RemoveAt(waiting, i)
  /\ UNCHANGED <<chan, ready, got, closed>>

\* A sender takes back an item that was not acknowledged.
Withdraw ==
  /\ \E i \in ready + 1 .. Len(chan) : chan' = RemoveAt(chan, i)
  /\ UNCHANGED <<ready, waiting, got, closed>>

\* The acknowledged items are thrown away, which makes room for others.
Discard ==
  /\ chan' = SubSeq(chan, ready + 1, Len(chan))
  /\ ready' \in 0 .. Len(chan')
  /\ UNCHANGED <<waiting, got, closed>>

\* Closing refuses what was not acknowledged and keeps what was for receivers
\* to come, as the code does; the reference page of the queue says otherwise
\* (ClosedAnswersReason of Queue.tla).
Close ==
  /\ ~closed
  /\ closed' = TRUE
  /\ chan' = SubSeq(chan, 1, ready)
  /\ waiting' = <<>>
  /\ UNCHANGED <<ready, got>>

\* A receiver has used its item and may receive again.
Consume(r) ==
  /\ got[r] # NoItem
  /\ got' = [got EXCEPT ![r] = NoItem]
  /\ UNCHANGED <<chan, ready, waiting, closed>>

Next ==
  \/ \E item \in Items : Send(item)
  \/ \E r \in Receivers : Receive(r) \/ Wait(r) \/ Consume(r)
  \/ Leave \/ Withdraw \/ Discard \/ Close

Spec == Init /\ [][Next]_vars
=============================================================================
