--------------------------- MODULE MessageProofs ----------------------------
(***************************************************************************)
(* Proofs about messages.  For the abortable IPC calls, with any number of *)
(* calls, of messages under way and of registrations, when all the calls   *)
(* that may be aborted come from one renderer: request ids are unique then, *)
(* and what Ipc promises of cancels and of the table of active requests    *)
(* holds.  For publish/subscribe, with any number of subscriptions and     *)
(* messages and any capacity: no subscription misses a message.            *)
(***************************************************************************)
EXTENDS Ipc, PubSub, SequenceTheorems, TLAPS

\* The calls that may be aborted come from one renderer.
OneRenderer == \A c, d \in Calls \ Plain : RendererOf[c] = RendererOf[d]

\* The messages a renderer sends.
Messages == [type : {"request"}, call : Calls, id : Nat] \cup [type : {"cancel"}, id : Nat]

\* Ids are handed out in order, and plain requests have none.
IdsUnique ==
  /\ \A c \in Calls : id[c] <= counter[RendererOf[c]]
  /\ \A c \in Plain : id[c] = 0
  /\ \A c, d \in Calls : id[c] # 0 /\ id[c] = id[d] => c = d

\* A call sends its request when it begins to wait.
SentWhenWaiting ==
  \A c \in Calls :
    /\ outcome[c] = "idle" => id[c] = 0 /\ served[c] = "no"
    /\ outcome[c] = "waiting" /\ c \notin Plain => id[c] # 0
    /\ served[c] = "running" => id[c] # 0
    /\ servedBy[c] <= registration

\* A request under way is that of a call that waits to be served, and its only one.
RequestsOwn ==
  \A r \in Renderers : \A i \in DOMAIN pipe[r] : pipe[r][i].type = "request" =>
    /\ RendererOf[pipe[r][i].call] = r
    /\ pipe[r][i].id = id[pipe[r][i].call]
    /\ served[pipe[r][i].call] = "no"
    /\ outcome[pipe[r][i].call] # "idle"
    /\ \A j \in DOMAIN pipe[r] :
         pipe[r][j].type = "request" /\ pipe[r][j].call = pipe[r][i].call => j = i

\* A cancel under way is that of a call whose caller gave up.
CancelsOwn ==
  \A r \in Renderers : \A i \in DOMAIN pipe[r] : pipe[r][i].type = "cancel" =>
    \E c \in Calls : id[c] = pipe[r][i].id /\ id[c] # 0 /\ outcome[c] = "aborted"

\* The cancel follows its request.
Follows(c) ==
  LET p == pipe[RendererOf[c]] IN
  \E i \in DOMAIN p :
    /\ p[i] = Request(c, id[c])
    /\ outcome[c] = "aborted" => \E j \in DOMAIN p : i < j /\ p[j] = Cancel(id[c])
RequestOnItsWay == \A c \in Calls : served[c] = "no" /\ id[c] # 0 => Follows(c)

\* An active request is known by the id of its call.
EntriesOwn == \A e \in table : e.id = id[e.call] /\ id[e.call] # 0

\* The inductive invariant of the calls.
Inv ==
  /\ TypeOK
  /\ IdsUnique /\ SentWhenWaiting
  /\ RequestsOwn /\ CancelsOwn /\ RequestOnItsWay
  /\ NoWorkInVain /\ CancelHitsOwn
  /\ EntriesOwn /\ TableExact

-----------------------------------------------------------------------------
(* The pipes *)

\* A message that is sent comes behind those under way (webContents.send).
LEMMA SendAppends ==
  ASSUME pipe \in [Renderers -> Seq(Messages)], NEW r \in Renderers, NEW msg \in Messages,
         Send(r, msg)
  PROVE  /\ pipe' \in [Renderers -> Seq(Messages)]
         /\ \A q \in Renderers \ {r} : pipe'[q] = pipe[q]
         /\ DOMAIN pipe[r] = 1 .. Len(pipe[r]) /\ Len(pipe[r]) \in Nat
         /\ DOMAIN pipe'[r] = 1 .. (Len(pipe[r]) + 1)
         /\ \A i \in DOMAIN pipe[r] : i \in DOMAIN pipe'[r] /\ pipe'[r][i] = pipe[r][i]
         /\ pipe'[r][Len(pipe[r]) + 1] = msg
         /\ \A q \in Renderers : \A i \in DOMAIN pipe'[q] :
              \/ i \in DOMAIN pipe[q] /\ pipe'[q][i] = pipe[q][i]
              \/ q = r /\ i = Len(pipe[r]) + 1 /\ pipe'[q][i] = msg
<1>1. pipe'[r] = Append(pipe[r], msg) /\ pipe[r] \in Seq(Messages)
  BY DEF Send
<1>2. /\ pipe'[r] \in Seq(Messages)
      /\ Len(pipe'[r]) = Len(pipe[r]) + 1
      /\ \A i \in 1 .. Len(pipe[r]) : pipe'[r][i] = pipe[r][i]
      /\ pipe'[r][Len(pipe[r]) + 1] = msg
  BY <1>1, AppendProperties
<1>3. DOMAIN pipe[r] = 1 .. Len(pipe[r]) /\ Len(pipe[r]) \in Nat /\ DOMAIN pipe'[r] = 1 .. Len(pipe'[r])
  BY <1>1, <1>2, LenProperties
<1>4. \A q \in Renderers \ {r} : pipe'[q] = pipe[q]
  BY DEF Send
<1>5. \A i \in DOMAIN pipe'[r] :
        \/ i \in DOMAIN pipe[r] /\ pipe'[r][i] = pipe[r][i]
        \/ i = Len(pipe[r]) + 1 /\ pipe'[r][i] = msg
  BY <1>2, <1>3
<1> QED
  BY <1>2, <1>3, <1>4, <1>5 DEF Send

\* A message that is received was the first, and the others move up.
LEMMA ReceiveTakesFirst ==
  ASSUME pipe \in [Renderers -> Seq(Messages)], NEW r \in Renderers, pipe[r] # <<>>,
         pipe' = [pipe EXCEPT ![r] = Tail(@)]
  PROVE  /\ pipe' \in [Renderers -> Seq(Messages)]
         /\ \A q \in Renderers \ {r} : pipe'[q] = pipe[q]
         /\ DOMAIN pipe[r] = 1 .. Len(pipe[r]) /\ Len(pipe[r]) \in Nat \ {0}
         /\ DOMAIN pipe'[r] = 1 .. (Len(pipe[r]) - 1)
         /\ \A i \in DOMAIN pipe'[r] : i + 1 \in DOMAIN pipe[r] /\ pipe'[r][i] = pipe[r][i + 1]
         /\ \A i \in DOMAIN pipe[r] \ {1} : i - 1 \in DOMAIN pipe'[r] /\ pipe'[r][i - 1] = pipe[r][i]
         /\ Head(pipe[r]) = pipe[r][1] /\ pipe[r][1] \in Messages
<1>1. pipe'[r] = Tail(pipe[r]) /\ pipe[r] \in Seq(Messages)
  OBVIOUS
<1>2. /\ pipe'[r] \in Seq(Messages)
      /\ Len(pipe'[r]) = Len(pipe[r]) - 1
      /\ \A i \in 1 .. Len(pipe'[r]) : pipe'[r][i] = pipe[r][i + 1]
  BY <1>1, HeadTailProperties
<1>3. /\ DOMAIN pipe[r] = 1 .. Len(pipe[r]) /\ Len(pipe[r]) \in Nat
      /\ DOMAIN pipe'[r] = 1 .. Len(pipe'[r])
  BY <1>1, <1>2, LenProperties
<1>4. Len(pipe[r]) # 0
  BY <1>1, EmptySeq
<1>5. Head(pipe[r]) = pipe[r][1] /\ pipe[r][1] \in Messages
  BY <1>1, <1>3, <1>4, HeadTailProperties, ElementOfSeq
<1> QED
  BY <1>2, <1>3, <1>4, <1>5

-----------------------------------------------------------------------------
(* The actions *)

\* Before the first call (src/ipc.ts:388-400) everything is in order.
LEMMA Initially == Init => Inv
<1> SUFFICES ASSUME Init PROVE Inv
  OBVIOUS
<1>1. pipe \in [Renderers -> Seq(Messages)]
  BY EmptySeq DEF Init
<1>2. \A r \in Renderers : pipe[r] = <<>> /\ DOMAIN pipe[r] = {}
  BY EmptySeq, LenProperties DEF Init
<1>3. TypeOK
  BY <1>1, IpcAssumption DEF Init, TypeOK, Messages
<1>4. IdsUnique /\ SentWhenWaiting
  BY IpcAssumption DEF Init, IdsUnique, SentWhenWaiting
<1>5. RequestsOwn /\ CancelsOwn
  BY <1>2 DEF RequestsOwn, CancelsOwn
<1>6. RequestOnItsWay /\ NoWorkInVain /\ CancelHitsOwn /\ EntriesOwn /\ TableExact
  BY DEF Init, RequestOnItsWay, NoWorkInVain, AbortReachesPresent, Present, CancelHitsOwn, EntriesOwn, TableExact, Kept
<1> QED
  BY <1>3, <1>4, <1>5, <1>6 DEF Inv

\* A call that is aborted before it is made sends nothing (src/ipc.ts:364-376).
LEMMA InvokeAborted ==
  ASSUME Inv, NEW c \in Calls, outcome[c] = "idle", c \in aborted,
         SettleCall(c, "aborted"), UNCHANGED <<counter, id, pipe, aborted, mainVars, answers>>
  PROVE  Inv'
<1> USE DEF Inv, mainVars, SettleCall
<1>1. outcome' = [outcome EXCEPT ![c] = "aborted"] /\ outcome \in [Calls -> {"idle", "waiting", "value", "error", "rejected", "aborted"}]
  BY DEF TypeOK
<1>2. TypeOK'
  BY <1>1 DEF TypeOK
<1>3. IdsUnique' /\ SentWhenWaiting'
  BY <1>1 DEF IdsUnique, SentWhenWaiting
<1>4. RequestsOwn'
  BY <1>1 DEF RequestsOwn, TypeOK
<1>5. CancelsOwn'
  BY <1>1 DEF CancelsOwn
<1>6. RequestOnItsWay'
  <2> SUFFICES ASSUME NEW d \in Calls, served[d] = "no", id[d] # 0 PROVE Follows(d)'
    BY DEF RequestOnItsWay
  <2>1. d # c
    BY DEF SentWhenWaiting
  <2> QED
    BY <1>1, <2>1 DEF RequestOnItsWay, Follows
<1>7. NoWorkInVain' /\ CancelHitsOwn'
  BY <1>1 DEF NoWorkInVain, AbortReachesPresent, Present, Told, Underway, CancelHitsOwn, SentWhenWaiting
<1>8. EntriesOwn' /\ TableExact'
  BY DEF EntriesOwn, TableExact, Kept
<1> QED
  BY <1>2, <1>3, <1>4, <1>5, <1>6, <1>7, <1>8

\* A request under way has the one identity its call has.
LEMMA RequestMessage ==
  ASSUME NEW c \in Calls, NEW i \in Nat
  PROVE  /\ Request(c, i) \in Messages /\ Request(c, i).type = "request"
         /\ Request(c, i).call = c /\ Request(c, i).id = i
         /\ Cancel(i) \in Messages /\ Cancel(i).type = "cancel" /\ Cancel(i).id = i
BY DEF Request, Cancel, Messages

\* What is under way stays under way when more is sent.
LEMMA SendKeepsUnderway ==
  ASSUME pipe \in [Renderers -> Seq(Messages)], NEW r \in Renderers, NEW msg \in Messages,
         Send(r, msg), NEW c \in Calls, id'[c] = id[c]
  PROVE  /\ Underway(c) => Underway(c)'
         /\ Follows(c) /\ (outcome'[c] = "aborted" => outcome[c] = "aborted") => Follows(c)'
<1>1. RendererOf[c] \in Renderers
  BY IpcAssumption
<1>2. \A i \in DOMAIN pipe[RendererOf[c]] :
        i \in DOMAIN pipe'[RendererOf[c]] /\ pipe'[RendererOf[c]][i] = pipe[RendererOf[c]][i]
  BY <1>1, SendAppends
<1> QED
  BY <1>2 DEF Underway, Follows

\* A call sends a request: with a fresh id, or a plain one without
\* (src/ipc.ts:377-384, 490-513).
LEMMA InvokeSends ==
  ASSUME Inv, NEW c \in Calls, outcome[c] = "idle", SettleCall(c, "waiting"),
         Send(RendererOf[c], Request(c, id'[c])),
         id' \in [Calls -> Nat], counter' \in [Renderers -> Nat], IdsUnique',
         \A d \in Calls \ {c} : id'[d] = id[d],
         c \notin Plain => id'[c] # 0,
         UNCHANGED <<aborted, mainVars, answers>>
  PROVE  Inv'
<1> USE DEF Inv, mainVars, SettleCall
<1> DEFINE r == RendererOf[c]
<1>1. /\ outcome' = [outcome EXCEPT ![c] = "waiting"]
      /\ outcome \in [Calls -> {"idle", "waiting", "value", "error", "rejected", "aborted"}]
      /\ pipe \in [Renderers -> Seq(Messages)] /\ r \in Renderers
      /\ id'[c] \in Nat /\ id[c] = 0 /\ served[c] = "no" /\ id \in [Calls -> Nat]
  BY IpcAssumption DEF TypeOK, Messages, SentWhenWaiting
<1> DEFINE msg == Request(c, id'[c])
<1>2. msg \in Messages /\ msg.type = "request" /\ msg.call = c /\ msg.id = id'[c]
  BY <1>1, RequestMessage
<1>3. /\ pipe' \in [Renderers -> Seq(Messages)]
      /\ \A q \in Renderers \ {r} : pipe'[q] = pipe[q]
      /\ DOMAIN pipe[r] = 1 .. Len(pipe[r]) /\ Len(pipe[r]) \in Nat
      /\ DOMAIN pipe'[r] = 1 .. (Len(pipe[r]) + 1)
      /\ \A i \in DOMAIN pipe[r] : i \in DOMAIN pipe'[r] /\ pipe'[r][i] = pipe[r][i]
      /\ pipe'[r][Len(pipe[r]) + 1] = msg
      /\ \A q \in Renderers : \A i \in DOMAIN pipe'[q] :
           \/ i \in DOMAIN pipe[q] /\ pipe'[q][i] = pipe[q][i]
           \/ q = r /\ i = Len(pipe[r]) + 1 /\ pipe'[q][i] = msg
  BY <1>1, <1>2, SendAppends
<1> HIDE DEF r, msg
<1>4. TypeOK'
  BY <1>1, <1>3 DEF TypeOK, Messages
<1>5. SentWhenWaiting'
  BY <1>1 DEF SentWhenWaiting
<1>6. RequestsOwn'
  <2> SUFFICES ASSUME NEW q \in Renderers, NEW i \in DOMAIN pipe'[q], pipe'[q][i].type = "request"
               PROVE  /\ RendererOf[pipe'[q][i].call] = q
                      /\ pipe'[q][i].id = id'[pipe'[q][i].call]
                      /\ served[pipe'[q][i].call] = "no"
                      /\ outcome'[pipe'[q][i].call] # "idle"
                      /\ \A j \in DOMAIN pipe'[q] :
                           pipe'[q][j].type = "request" /\ pipe'[q][j].call = pipe'[q][i].call => j = i
    BY DEF RequestsOwn
  <2>1. ASSUME NEW j \in DOMAIN pipe[q], pipe[q][j].type = "request"
        PROVE  /\ pipe[q][j].call \in Calls \ {c}
               /\ RendererOf[pipe[q][j].call] = q
               /\ pipe[q][j].id = id'[pipe[q][j].call]
               /\ served[pipe[q][j].call] = "no"
               /\ outcome'[pipe[q][j].call] # "idle"
    <3>1. pipe[q][j] \in Messages
      BY <1>1, ElementOfSeq, LenProperties
    <3>2. pipe[q][j].call \in Calls
      BY <3>1, <2>1 DEF Messages
    <3> QED
      BY <1>1, <2>1, <3>2 DEF RequestsOwn
  <2>2. CASE i \in DOMAIN pipe[q] /\ pipe'[q][i] = pipe[q][i]
    <3>1. ASSUME NEW j \in DOMAIN pipe'[q], pipe'[q][j].type = "request",
                 pipe'[q][j].call = pipe'[q][i].call
          PROVE  j = i
      <4>1. pipe'[q][j] # msg
        BY <1>2, <2>1, <2>2, <3>1
      <4>2. j \in DOMAIN pipe[q] /\ pipe'[q][j] = pipe[q][j]
        BY <1>3, <4>1
      <4> QED
        BY <2>2, <3>1, <4>2 DEF RequestsOwn
    <3> QED
      BY <2>1, <2>2, <3>1
  <2>3. CASE q = r /\ i = Len(pipe[r]) + 1 /\ pipe'[q][i] = msg
    <3>1. ASSUME NEW j \in DOMAIN pipe'[q], pipe'[q][j].type = "request", pipe'[q][j].call = c
          PROVE  j = i
      <4>1. CASE j \in DOMAIN pipe[q] /\ pipe'[q][j] = pipe[q][j]
        <5>1. pipe[q][j].call # c
          BY <2>1, <3>1, <4>1
        <5> QED
          BY <3>1, <4>1, <5>1
      <4> QED
        BY <1>3, <2>3, <4>1
    <3>2. RendererOf[c] = q /\ outcome'[c] = "waiting"
      BY <1>1, <2>3 DEF r
    <3> QED
      BY <1>1, <1>2, <2>3, <3>1, <3>2
  <2> QED
    BY <1>3, <2>2, <2>3
<1>7. CancelsOwn'
  <2> SUFFICES ASSUME NEW q \in Renderers, NEW i \in DOMAIN pipe'[q], pipe'[q][i].type = "cancel"
               PROVE  \E d \in Calls : id'[d] = pipe'[q][i].id /\ id'[d] # 0 /\ outcome'[d] = "aborted"
    BY DEF CancelsOwn
  <2>1. i \in DOMAIN pipe[q] /\ pipe'[q][i] = pipe[q][i]
    <3>1. pipe'[q][i] # msg
      BY <1>2
    <3> QED
      BY <1>3, <3>1
  <2>2. PICK d \in Calls : id[d] = pipe[q][i].id /\ id[d] # 0 /\ outcome[d] = "aborted"
    BY <2>1 DEF CancelsOwn
  <2>3. d # c
    BY <2>2
  <2> QED
    BY <1>1, <2>1, <2>2, <2>3
<1>8. RequestOnItsWay'
  <2> SUFFICES ASSUME NEW d \in Calls, served[d] = "no", id'[d] # 0 PROVE Follows(d)'
    BY DEF RequestOnItsWay
  <2>1. CASE d = c
    BY <1>1, <1>3, <2>1 DEF Follows, r, msg
  <2>2. CASE d # c
    <3>1. Follows(d) /\ id'[d] = id[d] /\ outcome'[d] = outcome[d]
      BY <1>1, <2>2 DEF RequestOnItsWay
    <3> QED
      BY <1>1, <1>2, <3>1, SendKeepsUnderway DEF r, msg
  <2> QED
    BY <2>1, <2>2
<1>9. NoWorkInVain'
  <2>1. ASSUME NEW d \in Calls, outcome'[d] = "aborted", Present(d)
        PROVE  reason[d] # "none" \/ Underway(d)'
    <3>1. id'[d] = id[d] /\ (reason[d] # "none" \/ Underway(d))
      BY <1>1, <2>1 DEF NoWorkInVain, AbortReachesPresent, Present, Told
    <3> QED
      BY <1>1, <1>2, <3>1, SendKeepsUnderway DEF r, msg
  <2> QED
    BY <2>1 DEF NoWorkInVain, AbortReachesPresent, Present, Told
<1>10. CancelHitsOwn'
  BY <1>1 DEF CancelHitsOwn
<1>11. EntriesOwn' /\ TableExact'
  <2>1. \A e \in table : e.call # c /\ e.call \in Calls
    BY <1>1 DEF EntriesOwn, TypeOK
  <2>2. EntriesOwn'
    BY <2>1 DEF EntriesOwn
  <2>3. ASSUME NEW d \in Calls, d # c
        PROVE  Entry(d, id'[d]) \in table <=> served[d] = "running" /\ servedBy[d] = registration /\ Kept
    BY <2>3 DEF TableExact, Kept
  <2>4. Entry(c, id'[c]) \notin table
    BY <2>1 DEF Entry
  <2> QED
    BY <1>1, <2>2, <2>3, <2>4 DEF TableExact, Kept
<1> QED
  BY <1>4, <1>5, <1>6, <1>7, <1>8, <1>9, <1>10, <1>11

\* A call is made (src/ipc.ts:364-384, 490-513).
LEMMA InvokeKeeps == ASSUME OneRenderer, Inv, NEW c \in Calls, Invoke(c) PROVE Inv'
<1> USE DEF Inv
<1>1. outcome[c] = "idle" /\ UNCHANGED <<aborted, mainVars, answers>>
  BY DEF Invoke
<1>2. RendererOf[c] \in Renderers /\ id \in [Calls -> Nat] /\ counter \in [Renderers -> Nat]
  BY IpcAssumption DEF TypeOK
<1>3. CASE c \in aborted /\ SettleCall(c, "aborted") /\ UNCHANGED <<counter, id, pipe>>
  BY <1>1, <1>3, InvokeAborted
<1>4. CASE /\ c \notin aborted \cup Plain
           /\ FreshId(RendererOf[c])
           /\ id' = [id EXCEPT ![c] = counter'[RendererOf[c]]]
           /\ Send(RendererOf[c], Request(c, id'[c]))
           /\ SettleCall(c, "waiting")
  <2>1. /\ counter' = [counter EXCEPT ![RendererOf[c]] = counter[RendererOf[c]] + 1]
        /\ id'[c] = counter[RendererOf[c]] + 1
        /\ \A d \in Calls \ {c} : id'[d] = id[d]
    BY <1>2, <1>4 DEF FreshId
  <2>2. id' \in [Calls -> Nat] /\ counter' \in [Renderers -> Nat] /\ id'[c] # 0
    BY <1>2, <1>4, <2>1
  <2>3. ASSUME NEW d \in Calls, d # c, id[d] # 0 PROVE id'[d] < id'[c]
    <3>1. RendererOf[d] = RendererOf[c]
      BY <1>4, <2>3, IpcAssumption DEF OneRenderer, IdsUnique
    <3>2. id[d] <= counter[RendererOf[c]]
      BY <3>1 DEF IdsUnique
    <3> QED
      BY <1>2, <2>1, <2>3, <3>2
  <2>4. ASSUME NEW d \in Calls PROVE id'[d] <= counter'[RendererOf[d]]
    <3>1. RendererOf[d] \in Renderers /\ id[d] <= counter[RendererOf[d]]
      BY IpcAssumption DEF IdsUnique
    <3> QED
      BY <1>2, <2>1, <3>1
  <2>5. IdsUnique'
    <3>1. \A d \in Plain : id'[d] = 0
      BY <1>4, <2>1, IpcAssumption DEF IdsUnique
    <3>2. ASSUME NEW d \in Calls, NEW e \in Calls, id'[d] # 0, id'[d] = id'[e] PROVE d = e
      BY <1>2, <2>1, <2>2, <2>3, <3>2 DEF IdsUnique
    <3> QED
      BY <2>4, <3>1, <3>2 DEF IdsUnique
  <2> QED
    BY <1>1, <1>4, <2>1, <2>2, <2>5, InvokeSends
<1>5. CASE /\ c \in Plain
           /\ Send(RendererOf[c], Request(c, 0))
           /\ SettleCall(c, "waiting") /\ UNCHANGED <<counter, id>>
  <2>1. id'[c] = 0 /\ IdsUnique'
    BY <1>5 DEF IdsUnique
  <2> QED
    BY <1>1, <1>2, <1>5, <2>1, InvokeSends
<1> QED
  BY <1>3, <1>4, <1>5 DEF Invoke

\* The signal of a waiting call fires: its caller is answered, and a cancel
\* follows the request (src/ipc.ts:515-537).
LEMMA OnAbortKeeps ==
  ASSUME Inv, NEW c \in Signalled, outcome[c] = "waiting", OnAbort(c),
         aborted' = aborted \cup {c}, UNCHANGED <<counter, id, mainVars, answers>>
  PROVE  Inv'
<1> USE DEF Inv, mainVars, SettleCall, OnAbort
<1> DEFINE r == RendererOf[c]
           msg == Cancel(id[c])
<1>1. /\ outcome' = [outcome EXCEPT ![c] = "aborted"]
      /\ outcome \in [Calls -> {"idle", "waiting", "value", "error", "rejected", "aborted"}]
      /\ pipe \in [Renderers -> Seq(Messages)] /\ r \in Renderers
      /\ c \in Calls \ Plain /\ id[c] \in Nat \ {0}
  BY IpcAssumption DEF TypeOK, Messages, SentWhenWaiting
<1>2. msg \in Messages /\ msg.type = "cancel" /\ msg.id = id[c]
  BY <1>1, RequestMessage
<1>3. /\ pipe' \in [Renderers -> Seq(Messages)]
      /\ \A q \in Renderers \ {r} : pipe'[q] = pipe[q]
      /\ DOMAIN pipe[r] = 1 .. Len(pipe[r]) /\ Len(pipe[r]) \in Nat
      /\ DOMAIN pipe'[r] = 1 .. (Len(pipe[r]) + 1)
      /\ \A i \in DOMAIN pipe[r] : i \in DOMAIN pipe'[r] /\ pipe'[r][i] = pipe[r][i]
      /\ pipe'[r][Len(pipe[r]) + 1] = msg
      /\ \A q \in Renderers : \A i \in DOMAIN pipe'[q] :
           \/ i \in DOMAIN pipe[q] /\ pipe'[q][i] = pipe[q][i]
           \/ q = r /\ i = Len(pipe[r]) + 1 /\ pipe'[q][i] = msg
  BY <1>1, <1>2, SendAppends
<1>4. TypeOK'
  BY <1>1, <1>3, IpcAssumption DEF TypeOK, Messages
<1>5. IdsUnique' /\ SentWhenWaiting'
  BY <1>1 DEF IdsUnique, SentWhenWaiting
<1>6. RequestsOwn'
  <2>1. ASSUME NEW q \in Renderers, NEW i \in DOMAIN pipe'[q], pipe'[q][i].type = "request"
        PROVE  i \in DOMAIN pipe[q] /\ pipe'[q][i] = pipe[q][i]
    <3>1. pipe'[q][i] # msg
      BY <1>2, <2>1
    <3> QED
      BY <1>3, <3>1
  <2>2. \A d \in Calls : outcome[d] # "idle" => outcome'[d] # "idle"
    BY <1>1
  <2>3. ASSUME NEW q \in Renderers, NEW i \in DOMAIN pipe[q], pipe[q][i].type = "request"
        PROVE  pipe[q][i].call \in Calls
    <3>1. pipe[q][i] \in Messages
      BY <1>1, ElementOfSeq, LenProperties
    <3> QED
      BY <3>1, <2>3 DEF Messages
  <2> QED
    BY <2>1, <2>2, <2>3 DEF RequestsOwn
<1>7. CancelsOwn'
  <2> SUFFICES ASSUME NEW q \in Renderers, NEW i \in DOMAIN pipe'[q], pipe'[q][i].type = "cancel"
               PROVE  \E d \in Calls : id[d] = pipe'[q][i].id /\ id[d] # 0 /\ outcome'[d] = "aborted"
    BY DEF CancelsOwn
  <2>1. CASE i \in DOMAIN pipe[q] /\ pipe'[q][i] = pipe[q][i]
    <3>1. PICK d \in Calls : id[d] = pipe[q][i].id /\ id[d] # 0 /\ outcome[d] = "aborted"
      BY <2>1 DEF CancelsOwn
    <3> QED
      BY <1>1, <2>1, <3>1
  <2>2. CASE pipe'[q][i] = msg
    BY <1>1, <1>2, <2>2
  <2> QED
    BY <1>3, <2>1, <2>2
<1>8. RequestOnItsWay'
  <2> SUFFICES ASSUME NEW d \in Calls, served[d] = "no", id[d] # 0 PROVE Follows(d)'
    BY DEF RequestOnItsWay
  <2>1. Follows(d)
    BY DEF RequestOnItsWay
  <2>2. CASE d = c
    <3>1. PICK i \in DOMAIN pipe[r] : pipe[r][i] = Request(c, id[c])
      BY <2>1, <2>2 DEF Follows
    <3>2. i < Len(pipe[r]) + 1 /\ Len(pipe[r]) + 1 \in DOMAIN pipe'[r]
      BY <1>3
    <3> QED
      BY <1>3, <2>2, <3>1, <3>2 DEF Follows
  <2>3. CASE d # c
    <3>1. outcome'[d] = outcome[d]
      BY <1>1, <2>3
    <3> QED
      BY <1>1, <1>2, <2>1, <3>1, SendKeepsUnderway
  <2> QED
    BY <2>2, <2>3
<1>9. NoWorkInVain'
  <2>1. ASSUME NEW d \in Calls, outcome'[d] = "aborted", Present(d)
        PROVE  reason[d] # "none" \/ Underway(d)'
    <3>1. CASE d = c
      BY <1>3, <3>1 DEF Underway
    <3>2. CASE d # c
      <4>1. reason[d] # "none" \/ Underway(d)
        BY <1>1, <2>1, <3>2 DEF NoWorkInVain, AbortReachesPresent, Present, Told
      <4> QED
        BY <1>1, <1>2, <4>1, SendKeepsUnderway
    <3> QED
      BY <3>1, <3>2
  <2> QED
    BY <2>1 DEF NoWorkInVain, AbortReachesPresent, Present, Told
<1>10. CancelHitsOwn' /\ EntriesOwn' /\ TableExact'
  BY <1>1 DEF CancelHitsOwn, EntriesOwn, TableExact, Kept
<1> QED
  BY <1>4, <1>5, <1>6, <1>7, <1>8, <1>9, <1>10

\* Outcomes other than the abort of a call do not matter to the main process.
LEMMA OutcomeKeeps ==
  ASSUME Inv, NEW c \in Calls, NEW result \in {"value", "error", "rejected"},
         outcome[c] = "waiting", SettleCall(c, result),
         UNCHANGED <<counter, id, aborted, pipe, mainVars>>,
         answers' \subseteq answers
  PROVE  Inv'
<1> USE DEF Inv, mainVars, SettleCall
<1>1. /\ outcome' = [outcome EXCEPT ![c] = result]
      /\ outcome \in [Calls -> {"idle", "waiting", "value", "error", "rejected", "aborted"}]
  BY DEF TypeOK
<1>2. TypeOK'
  BY <1>1 DEF TypeOK
<1>3. IdsUnique' /\ SentWhenWaiting'
  BY <1>1 DEF IdsUnique, SentWhenWaiting
<1>4. RequestsOwn' /\ CancelsOwn'
  BY <1>1 DEF RequestsOwn, CancelsOwn
<1>5. RequestOnItsWay'
  BY <1>1 DEF RequestOnItsWay, Follows
<1>6. NoWorkInVain' /\ CancelHitsOwn'
  BY <1>1 DEF NoWorkInVain, AbortReachesPresent, Present, Told, Underway, CancelHitsOwn
<1>7. EntriesOwn' /\ TableExact'
  BY DEF EntriesOwn, TableExact, Kept
<1> QED
  BY <1>2, <1>3, <1>4, <1>5, <1>6, <1>7

\* Steps that touch none of what the invariant relates.
LEMMA OthersKeep ==
  ASSUME Inv, UNCHANGED <<counter, id, outcome, pipe, mainVars>>,
         aborted' \subseteq Signalled, answers' \subseteq [call : Calls, result : {"value", "error", "rejected"}]
  PROVE  Inv'
<1> USE DEF Inv, mainVars
<1>1. TypeOK'
  BY DEF TypeOK
<1>2. IdsUnique' /\ SentWhenWaiting' /\ RequestsOwn' /\ CancelsOwn' /\ EntriesOwn' /\ TableExact'
  BY DEF IdsUnique, SentWhenWaiting, RequestsOwn, CancelsOwn, EntriesOwn, TableExact, Kept
<1>3. RequestOnItsWay' /\ NoWorkInVain' /\ CancelHitsOwn'
  BY DEF RequestOnItsWay, Follows, NoWorkInVain, AbortReachesPresent, Present, Told, Underway, CancelHitsOwn
<1> QED
  BY <1>1, <1>2, <1>3

\* The signal of a call fires, waiting or not (src/ipc.ts:513-537).
LEMMA AbortKeeps == ASSUME Inv, NEW c \in Calls, Abort(c) PROVE Inv'
<1>1. c \in Signalled /\ aborted' = aborted \cup {c} /\ UNCHANGED <<counter, id, mainVars, answers>>
  BY DEF Abort
<1>2. CASE outcome[c] = "waiting" /\ OnAbort(c)
  BY <1>1, <1>2, OnAbortKeeps
<1>3. CASE UNCHANGED <<outcome, pipe>>
  BY <1>1, <1>3, OthersKeep DEF Inv, TypeOK
<1> QED
  BY <1>2, <1>3 DEF Abort

\* An answer reaches its caller, who may have given up (src/ipc.ts:539-548).
LEMMA AnswerKeeps == ASSUME Inv, NEW a \in answers, ReceiveAnswer(a) PROVE Inv'
<1>1. a.call \in Calls /\ a.result \in {"value", "error", "rejected"}
  BY DEF Inv, TypeOK
<1>2. answers' \subseteq answers /\ UNCHANGED <<counter, id, aborted, pipe, mainVars>>
  BY DEF ReceiveAnswer
<1>3. CASE outcome[a.call] = "waiting" /\ SettleCall(a.call, a.result)
  BY <1>1, <1>2, <1>3, OutcomeKeeps
<1>4. CASE UNCHANGED outcome
  BY <1>2, <1>4, OthersKeep DEF Inv, TypeOK
<1> QED
  BY <1>3, <1>4 DEF ReceiveAnswer

\* handle() where no handler is begins with an empty table, and one that throws
\* leaves the handlers theirs (src/ipc.ts:399-439).
LEMMA HandleKeeps == ASSUME Inv, Handle PROVE Inv'
<1> USE DEF Inv, Handle, renderVars
<1>1. CASE HandleAnew
  <2> USE <1>1 DEF HandleAnew
  <2>1. registration \in Nat /\ registration' = registration + 1 /\ registration' \in 1 .. MaxRegistrations
    BY IpcAssumption DEF TypeOK
  <2>2. TypeOK'
    BY <2>1 DEF TypeOK
  <2>3. \A c \in Calls : servedBy[c] \in Nat /\ servedBy[c] <= registration
    BY IpcAssumption DEF TypeOK, SentWhenWaiting
  <2>4. IdsUnique' /\ SentWhenWaiting' /\ RequestsOwn' /\ CancelsOwn'
    BY <2>1, <2>3 DEF IdsUnique, SentWhenWaiting, RequestsOwn, CancelsOwn
  <2>5. \A c \in Calls : ~ Present(c)'
    BY <2>1, <2>3 DEF Present
  <2>6. \A c \in Calls : served[c] = "running" /\ reason[c] = "none" => servedBy[c] \in displaced
    BY DEF NoWorkInVain, Present
  <2>7. RequestOnItsWay' /\ NoWorkInVain' /\ CancelHitsOwn'
    BY <2>5, <2>6 DEF RequestOnItsWay, Follows, NoWorkInVain, AbortReachesPresent, CancelHitsOwn
  <2>8. EntriesOwn' /\ TableExact'
    BY <2>1, <2>3 DEF EntriesOwn, TableExact
  <2> QED
    BY <2>2, <2>4, <2>7, <2>8
<1>2. CASE HandleThrows
  <2> USE <1>2 DEF HandleThrows
  <2>1. TypeOK' /\ IdsUnique' /\ SentWhenWaiting' /\ RequestsOwn' /\ CancelsOwn'
    BY DEF TypeOK, IdsUnique, SentWhenWaiting, RequestsOwn, CancelsOwn
  <2>2. RequestOnItsWay' /\ NoWorkInVain' /\ CancelHitsOwn'
    BY DEF RequestOnItsWay, Follows, NoWorkInVain, AbortReachesPresent, Present, Told, Underway, CancelHitsOwn
  <2>3. EntriesOwn' /\ TableExact'
    BY DEF EntriesOwn, TableExact, Kept
  <2> QED
    BY <2>1, <2>2, <2>3
<1> QED
  BY <1>1, <1>2

\* Controllers that abort keep the reason they have.
LEMMA AbortsKeepReasons ==
  ASSUME Inv, NEW entries \in SUBSET table, NEW why \in {"canceled", "removed"},
         AbortEntries(entries, why)
  PROVE  /\ reason' \in [Calls -> {"none", "canceled", "removed"}]
         /\ \A c \in Calls :
              /\ reason[c] # "none" => reason'[c] = reason[c]
              /\ reason[c] = "none" =>
                   reason'[c] = IF \E e \in entries : e.call = c THEN why ELSE "none"
BY DEF AbortEntries, Inv, TypeOK

\* removeHandler() aborts whatever the present handler works on, or nothing if
\* a second handle() has displaced its table (src/ipc.ts:457-473).
LEMMA RemoveKeeps == ASSUME Inv, RemoveHandler PROVE Inv'
<1> USE DEF Inv, RemoveHandler, renderVars
<1>1. /\ reason' \in [Calls -> {"none", "canceled", "removed"}]
      /\ \A c \in Calls :
           /\ reason[c] # "none" => reason'[c] = reason[c]
           /\ reason[c] = "none" =>
                reason'[c] = IF registration \notin displaced /\ \E e \in table : e.call = c
                             THEN "removed" ELSE "none"
  <2>1. CASE registration \notin displaced
    BY <2>1, AbortsKeepReasons
  <2>2. CASE registration \in displaced
    BY <2>2 DEF TypeOK
  <2> QED
    BY <2>1, <2>2
<1>2. TypeOK'
  BY <1>1 DEF TypeOK
<1>3. IdsUnique' /\ SentWhenWaiting' /\ RequestsOwn' /\ CancelsOwn'
  BY DEF IdsUnique, SentWhenWaiting, RequestsOwn, CancelsOwn
<1>4. ASSUME NEW c \in Calls, served[c] = "running", servedBy[c] \notin displaced
      PROVE  reason'[c] # "none"
  <2> SUFFICES ASSUME reason[c] = "none" PROVE reason'[c] # "none"
    BY <1>1
  <2>1. Entry(c, id[c]) \in table /\ registration \notin displaced
    BY <1>4 DEF NoWorkInVain, Present, TableExact, Kept
  <2>2. Entry(c, id[c]).call = c
    BY DEF Entry
  <2> QED
    BY <1>1, <2>1, <2>2
<1>5. RequestOnItsWay' /\ NoWorkInVain'
  BY <1>4 DEF RequestOnItsWay, Follows, NoWorkInVain, AbortReachesPresent, Present
<1>6. CancelHitsOwn'
  BY <1>1 DEF CancelHitsOwn
<1>7. EntriesOwn' /\ TableExact'
  BY DEF EntriesOwn, TableExact, Kept
<1> QED
  BY <1>2, <1>3, <1>5, <1>6, <1>7

\* A handler settles and takes its own entry out, no other (src/ipc.ts:424-437).
LEMMA SettlesKeep == ASSUME Inv, NEW c \in Calls, HandlerSettles(c) PROVE Inv'
<1> USE DEF Inv, renderVars
<1>1. /\ served[c] = "running" /\ served' = [served EXCEPT ![c] = "answered"]
      /\ served \in [Calls -> {"no", "running", "answered"}]
      /\ UNCHANGED <<renderVars, pipe, registration, registered, displaced, servedBy, reason>>
  BY DEF HandlerSettles, TypeOK
<1>2. table' \subseteq table /\ answers' \subseteq [call : Calls, result : {"value", "error", "rejected"}]
  BY DEF HandlerSettles, DeleteEntry, Answer, TypeOK
<1>3. TypeOK'
  BY <1>1, <1>2 DEF TypeOK
<1>4. IdsUnique' /\ SentWhenWaiting' /\ CancelsOwn'
  BY <1>1 DEF IdsUnique, SentWhenWaiting, CancelsOwn
<1>5. RequestsOwn'
  BY <1>1 DEF RequestsOwn
<1>6. RequestOnItsWay' /\ NoWorkInVain' /\ CancelHitsOwn'
  BY <1>1 DEF RequestOnItsWay, Follows, NoWorkInVain, AbortReachesPresent, Present, Told, Underway, CancelHitsOwn
<1>7. EntriesOwn'
  BY <1>1, <1>2 DEF EntriesOwn
<1>8. TableExact'
  <2> SUFFICES ASSUME NEW d \in Calls
               PROVE  Entry(d, id[d]) \in table'
                        <=> served'[d] = "running" /\ servedBy[d] = registration /\ Kept
    BY <1>1 DEF TableExact, Kept
  <2>1. Entry(d, id[d]) \in table <=> served[d] = "running" /\ servedBy[d] = registration /\ Kept
    BY DEF TableExact, Kept
  <2>2. CASE d = c
    <3>1. served'[d] # "running"
      BY <1>1, <2>2
    <3>2. CASE servedBy[c] = registration /\ DeleteEntry(id[c])
      BY <2>2, <3>1, <3>2 DEF DeleteEntry, Entry
    <3>3. CASE servedBy[c] # registration /\ UNCHANGED table
      BY <2>1, <2>2, <3>1, <3>3
    <3> QED
      BY <3>2, <3>3 DEF HandlerSettles
  <2>3. CASE d # c
    <3>1. served'[d] = served[d]
      BY <1>1, <2>3
    <3>2. id[d] # id[c]
      BY <1>1, <2>3 DEF SentWhenWaiting, IdsUnique
    <3>3. Entry(d, id[d]).id = id[d]
      BY DEF Entry
    <3>4. Entry(d, id[d]) \in table' <=> Entry(d, id[d]) \in table
      BY <3>2, <3>3 DEF HandlerSettles, DeleteEntry
    <3> QED
      BY <2>1, <3>1, <3>4
  <2> QED
    BY <2>2, <2>3
<1> QED
  BY <1>3, <1>4, <1>5, <1>6, <1>7, <1>8

\* Receiving a message keeps what is said of the others under way.
LEMMA ReceiveKeepsPipe ==
  ASSUME Inv, NEW r \in Renderers, pipe[r] # <<>>, pipe' = [pipe EXCEPT ![r] = Tail(@)],
         UNCHANGED renderVars,
         \A c \in Calls : served'[c] = served[c]
           \/ (pipe[r][1].type = "request" /\ c = pipe[r][1].call)
  PROVE  RequestsOwn' /\ CancelsOwn'
<1> USE DEF Inv, renderVars
<1>1. /\ \A q \in Renderers \ {r} : pipe'[q] = pipe[q]
      /\ DOMAIN pipe[r] = 1 .. Len(pipe[r]) /\ Len(pipe[r]) \in Nat \ {0}
      /\ DOMAIN pipe'[r] = 1 .. (Len(pipe[r]) - 1)
      /\ \A i \in DOMAIN pipe'[r] : i + 1 \in DOMAIN pipe[r] /\ pipe'[r][i] = pipe[r][i + 1]
      /\ pipe \in [Renderers -> Seq(Messages)]
  BY ReceiveTakesFirst DEF TypeOK, Messages
<1>2. CancelsOwn'
  <2> SUFFICES ASSUME NEW q \in Renderers, NEW i \in DOMAIN pipe'[q], pipe'[q][i].type = "cancel"
               PROVE  \E c \in Calls : id[c] = pipe'[q][i].id /\ id[c] # 0 /\ outcome[c] = "aborted"
    BY DEF CancelsOwn
  <2>1. CASE q = r
    BY <1>1, <2>1 DEF CancelsOwn
  <2>2. CASE q # r
    BY <1>1, <2>2 DEF CancelsOwn
  <2> QED
    BY <2>1, <2>2
<1>3. ASSUME NEW q \in Renderers, NEW i \in DOMAIN pipe[q], pipe[q][i].type = "request",
             q = r => i # 1
      PROVE  served'[pipe[q][i].call] = "no"
  <2>1. pipe[q][i].call \in Calls
    <3>1. pipe[q][i] \in Messages
      BY <1>1, ElementOfSeq, LenProperties
    <3> QED
      BY <3>1, <1>3 DEF Messages
  <2>2. served[pipe[q][i].call] = "no"
    BY <1>3 DEF RequestsOwn
  <2>3. ASSUME pipe[r][1].type = "request", pipe[q][i].call = pipe[r][1].call PROVE FALSE
    <3>1. 1 \in DOMAIN pipe[r]
      BY <1>1
    <3>2. RendererOf[pipe[q][i].call] = q /\ RendererOf[pipe[r][1].call] = r
      BY <1>3, <2>3, <3>1 DEF RequestsOwn
    <3>3. q = r
      BY <2>3, <3>2
    <3> QED
      BY <1>3, <2>3, <3>1, <3>3 DEF RequestsOwn
  <2> QED
    BY <2>1, <2>2, <2>3
<1>4. RequestsOwn'
  <2> SUFFICES ASSUME NEW q \in Renderers, NEW i \in DOMAIN pipe'[q], pipe'[q][i].type = "request"
               PROVE  /\ RendererOf[pipe'[q][i].call] = q
                      /\ pipe'[q][i].id = id[pipe'[q][i].call]
                      /\ served'[pipe'[q][i].call] = "no"
                      /\ outcome[pipe'[q][i].call] # "idle"
                      /\ \A j \in DOMAIN pipe'[q] :
                           pipe'[q][j].type = "request" /\ pipe'[q][j].call = pipe'[q][i].call => j = i
    BY DEF RequestsOwn
  <2>1. CASE q = r
    <3>1. i + 1 \in DOMAIN pipe[q] /\ i + 1 # 1 /\ pipe'[q][i] = pipe[q][i + 1] /\ i \in Nat
      BY <1>1, <2>1
    <3>2. ASSUME NEW j \in DOMAIN pipe'[q], pipe'[q][j].type = "request",
                 pipe'[q][j].call = pipe'[q][i].call
          PROVE  j = i
      <4>1. j + 1 \in DOMAIN pipe[q] /\ pipe'[q][j] = pipe[q][j + 1] /\ j \in Nat
        BY <1>1, <2>1
      <4>2. j + 1 = i + 1
        BY <3>1, <3>2, <4>1 DEF RequestsOwn
      <4> QED
        BY <3>1, <4>1, <4>2
    <3>3. served'[pipe'[q][i].call] = "no"
      BY <1>3, <3>1
    <3> QED
      BY <3>1, <3>2, <3>3 DEF RequestsOwn
  <2>2. CASE q # r
    BY <1>1, <1>3, <2>2 DEF RequestsOwn
  <2> QED
    BY <2>1, <2>2
<1> QED
  BY <1>2, <1>4

\* Whatever is not received stays under way, and a cancel stays behind its request.
LEMMA ReceiveKeepsUnderway ==
  ASSUME Inv, NEW r \in Renderers, pipe[r] # <<>>, pipe' = [pipe EXCEPT ![r] = Tail(@)],
         UNCHANGED renderVars, NEW c \in Calls
  PROVE  /\ Underway(c) /\ (r = RendererOf[c] => pipe[r][1] # Cancel(id[c])) => Underway(c)'
         /\ Follows(c) /\ (r = RendererOf[c] => pipe[r][1] # Request(c, id[c])) => Follows(c)'
         /\ Follows(c) /\ outcome[c] = "aborted" => Underway(c)'
<1> USE DEF Inv, renderVars
<1> DEFINE q == RendererOf[c]
<1>1. q \in Renderers /\ pipe \in [Renderers -> Seq(Messages)]
  BY IpcAssumption DEF TypeOK, Messages
<1>2. /\ q # r => pipe'[q] = pipe[q]
      /\ q = r => \A i \in DOMAIN pipe[q] \ {1} : i - 1 \in DOMAIN pipe'[q] /\ pipe'[q][i - 1] = pipe[q][i]
  BY <1>1, ReceiveTakesFirst
<1>3. DOMAIN pipe[q] = 1 .. Len(pipe[q]) /\ Len(pipe[q]) \in Nat
  BY <1>1, LenProperties
<1>4. Underway(c) /\ (r = q => pipe[r][1] # Cancel(id[c])) => Underway(c)'
  BY <1>2 DEF Underway
<1>5. ASSUME Follows(c), outcome[c] = "aborted" PROVE Underway(c)'
  <2>1. PICK i \in DOMAIN pipe[q], j \in DOMAIN pipe[q] : i < j /\ pipe[q][j] = Cancel(id[c])
    BY <1>5 DEF Follows
  <2>2. j # 1
    BY <1>3, <2>1
  <2> QED
    BY <1>2, <2>1, <2>2 DEF Underway
<1>6. ASSUME Follows(c), r = q => pipe[r][1] # Request(c, id[c]) PROVE Follows(c)'
  <2>1. PICK i \in DOMAIN pipe[q] :
          /\ pipe[q][i] = Request(c, id[c])
          /\ outcome[c] = "aborted" =>
               \E j \in DOMAIN pipe[q] : i < j /\ pipe[q][j] = Cancel(id[c])
    BY <1>6 DEF Follows
  <2>2. CASE q # r
    BY <1>2, <2>1, <2>2 DEF Follows
  <2>3. CASE q = r
    <3>1. i # 1
      BY <1>6, <2>1, <2>3
    <3>2. i - 1 \in DOMAIN pipe'[q] /\ pipe'[q][i - 1] = Request(c, id[c])
      BY <1>2, <2>1, <2>3, <3>1
    <3>3. ASSUME outcome[c] = "aborted"
          PROVE  \E k \in DOMAIN pipe'[q] : i - 1 < k /\ pipe'[q][k] = Cancel(id[c])
      <4>1. PICK j \in DOMAIN pipe[q] : i < j /\ pipe[q][j] = Cancel(id[c])
        BY <2>1, <3>3
      <4>2. j # 1 /\ i - 1 < j - 1
        BY <1>3, <4>1
      <4>3. j - 1 \in DOMAIN pipe'[q] /\ pipe'[q][j - 1] = Cancel(id[c])
        BY <1>2, <2>3, <4>1, <4>2
      <4> QED
        BY <4>2, <4>3
    <3> QED
      BY <3>2, <3>3 DEF Follows
  <2> QED
    BY <2>2, <2>3
<1> QED
  BY <1>4, <1>5, <1>6

\* A cancel finds the request it is for, if that is still worked on, and no
\* other (src/ipc.ts:441-454).
LEMMA CancelKeeps == ASSUME Inv, NEW r \in Renderers, ReceiveCancel(r) PROVE Inv'
<1> USE DEF Inv
<1> DEFINE msg == pipe[r][1]
<1>1. /\ pipe[r] # <<>> /\ pipe' = [pipe EXCEPT ![r] = Tail(@)]
      /\ UNCHANGED <<renderVars, registration, registered, displaced, table, served, servedBy, answers>>
      /\ Head(pipe[r]).type = "cancel"
  BY DEF ReceiveCancel
<1>2. /\ pipe' \in [Renderers -> Seq(Messages)] /\ 1 \in DOMAIN pipe[r]
      /\ Head(pipe[r]) = msg /\ msg.type = "cancel"
  BY <1>1, ReceiveTakesFirst DEF TypeOK, Messages
<1>3. /\ reason' \in [Calls -> {"none", "canceled", "removed"}]
      /\ \A c \in Calls :
           /\ reason[c] # "none" => reason'[c] = reason[c]
           /\ reason[c] = "none" =>
                reason'[c] = IF registered /\ \E e \in Canceled(msg.id) : e.call = c THEN "canceled" ELSE "none"
  <2>1. CASE registered /\ AbortEntries(Canceled(msg.id), "canceled")
    <3>1. Canceled(msg.id) \in SUBSET table
      BY DEF Canceled
    <3> QED
      BY <2>1, <3>1, AbortsKeepReasons
  <2>2. CASE ~registered /\ UNCHANGED reason
    BY <2>2 DEF TypeOK
  <2> QED
    BY <1>2, <2>1, <2>2 DEF ReceiveCancel
<1>4. TypeOK'
  BY <1>1, <1>2, <1>3 DEF TypeOK, renderVars, Messages
<1>5. IdsUnique' /\ SentWhenWaiting' /\ EntriesOwn' /\ TableExact'
  BY <1>1 DEF IdsUnique, SentWhenWaiting, EntriesOwn, TableExact, Kept, renderVars
<1>6. RequestsOwn' /\ CancelsOwn'
  BY <1>1, ReceiveKeepsPipe
<1>7. RequestOnItsWay'
  <2> SUFFICES ASSUME NEW c \in Calls, served[c] = "no", id[c] # 0 PROVE Follows(c)'
    BY <1>1 DEF RequestOnItsWay, renderVars
  <2>1. msg # Request(c, id[c])
    BY <1>2 DEF Request
  <2> QED
    BY <1>1, <2>1, ReceiveKeepsUnderway DEF RequestOnItsWay
<1>8. NoWorkInVain'
  <2>1. ASSUME NEW c \in Calls, served[c] = "running", reason'[c] = "none"
        PROVE  reason[c] = "none" /\ (Present(c) \/ servedBy[c] \in displaced)
    BY <1>3, <2>1 DEF NoWorkInVain
  <2>2. ASSUME NEW c \in Calls, outcome[c] = "aborted", Present(c), reason'[c] = "none"
        PROVE  Underway(c)'
    <3>1. reason[c] = "none" /\ registered /\ Entry(c, id[c]) \in table
      BY <2>1, <2>2 DEF Present, TableExact, Kept
    <3>2. Underway(c)
      BY <2>2, <3>1 DEF NoWorkInVain, AbortReachesPresent, Told
    <3>3. msg # Cancel(id[c])
      <4> SUFFICES ASSUME msg.id = id[c] PROVE FALSE
        BY DEF Cancel
      <4>1. Entry(c, id[c]) \in Canceled(msg.id) /\ Entry(c, id[c]).call = c
        BY <3>1 DEF Canceled, Entry
      <4> QED
        BY <1>3, <2>2, <3>1, <4>1
    <3> QED
      BY <1>1, <3>2, <3>3, ReceiveKeepsUnderway
  <2> QED
    BY <1>1, <2>1, <2>2 DEF NoWorkInVain, AbortReachesPresent, Present, Told, renderVars
<1>9. CancelHitsOwn'
  <2> SUFFICES ASSUME NEW c \in Calls, reason'[c] = "canceled" PROVE outcome[c] = "aborted"
    BY <1>1 DEF CancelHitsOwn, renderVars
  <2>1. CASE reason[c] # "none"
    BY <1>3, <2>1 DEF CancelHitsOwn
  <2>2. CASE reason[c] = "none"
    <3>1. PICK e \in table : e.id = msg.id /\ e.call = c
      BY <1>3, <2>2 DEF Canceled
    <3>2. PICK d \in Calls : id[d] = msg.id /\ id[d] # 0 /\ outcome[d] = "aborted"
      BY <1>2 DEF CancelsOwn
    <3>3. id[c] = id[d]
      BY <3>1, <3>2 DEF EntriesOwn
    <3> QED
      BY <3>2, <3>3 DEF IdsUnique
  <2> QED
    BY <2>1, <2>2
<1> QED
  BY <1>4, <1>5, <1>6, <1>7, <1>8, <1>9

\* A request gets a controller under its id, which nobody else has, or an
\* answer (src/ipc.ts:399-424).
LEMMA RequestKeeps == ASSUME Inv, NEW r \in Renderers, ReceiveRequest(r) PROVE Inv'
<1> USE DEF Inv
<1> DEFINE msg == pipe[r][1]
           c == msg.call
<1>1. /\ pipe[r] # <<>> /\ pipe' = [pipe EXCEPT ![r] = Tail(@)]
      /\ UNCHANGED <<renderVars, registration, registered, displaced, reason>>
      /\ Head(pipe[r]).type = "request" /\ ServeRequest(Head(pipe[r]))
  BY DEF ReceiveRequest
<1>2. /\ pipe' \in [Renderers -> Seq(Messages)] /\ 1 \in DOMAIN pipe[r]
      /\ Head(pipe[r]) = msg /\ msg \in Messages
  BY <1>1, ReceiveTakesFirst DEF TypeOK, Messages
<1>3. /\ msg.type = "request" /\ c \in Calls /\ ServeRequest(msg)
      /\ RendererOf[c] = r /\ msg.id = id[c] /\ served[c] = "no" /\ outcome[c] # "idle"
  BY <1>1, <1>2 DEF Messages, RequestsOwn
<1>4. /\ served \in [Calls -> {"no", "running", "answered"}]
      /\ servedBy \in [Calls -> 0 .. MaxRegistrations]
      /\ id \in [Calls -> Nat] /\ registration \in 1 .. MaxRegistrations
  BY DEF TypeOK
<1>5. UNCHANGED <<aborted, counter, id, outcome, registration, registered, displaced, reason>>
  BY <1>1 DEF renderVars
<1>6. /\ served'[c] # "no" /\ served' \in [Calls -> {"no", "running", "answered"}]
      /\ servedBy' \in [Calls -> 0 .. MaxRegistrations]
      /\ \A d \in Calls \ {c} : served'[d] = served[d] /\ servedBy'[d] = servedBy[d]
      /\ servedBy'[c] = servedBy[c] \/ servedBy'[c] = registration
  BY <1>3, <1>4, IpcAssumption DEF ServeRequest
<1>7. served'[c] = "running" => registered /\ id[c] # 0 /\ servedBy'[c] = registration
  BY <1>3, <1>4 DEF ServeRequest
<1>8. /\ \A e \in table' : e \in table \/ (e = Entry(c, id[c]) /\ id[c] # 0)
      /\ \A e \in table : e.id = id[c] => e.call = c
  <2>1. \A e \in table : e.call \in Calls
    BY DEF TypeOK
  <2> QED
    BY <1>3, <2>1 DEF ServeRequest, SetEntry, EntriesOwn, IdsUnique
<1>9. TypeOK'
  <2>1. table' \subseteq [id : Nat, call : Calls]
    BY <1>3, <1>4, <1>8 DEF TypeOK, Entry
  <2>2. answers' \subseteq [call : Calls, result : {"value", "error", "rejected"}]
    BY <1>3 DEF ServeRequest, Answer, TypeOK
  <2> QED
    BY <1>2, <1>5, <1>6, <2>1, <2>2 DEF TypeOK, Messages
<1>10. IdsUnique' /\ CancelHitsOwn'
  BY <1>5 DEF IdsUnique, CancelHitsOwn
<1>11. SentWhenWaiting'
  BY <1>3, <1>4, <1>5, <1>6, <1>7, IpcAssumption DEF SentWhenWaiting
<1>12. RequestsOwn' /\ CancelsOwn'
  BY <1>1, <1>3, <1>6, ReceiveKeepsPipe
<1>13. RequestOnItsWay'
  <2> SUFFICES ASSUME NEW d \in Calls, served'[d] = "no", id[d] # 0 PROVE Follows(d)'
    BY <1>5 DEF RequestOnItsWay
  <2>1. d # c /\ served[d] = "no"
    BY <1>6
  <2>2. msg # Request(d, id[d])
    BY <2>1 DEF Request
  <2> QED
    BY <1>1, <2>1, <2>2, ReceiveKeepsUnderway DEF RequestOnItsWay
<1>14. NoWorkInVain'
  <2>1. ASSUME NEW d \in Calls, served'[d] = "running", reason[d] = "none"
        PROVE  Present(d)' \/ servedBy'[d] \in displaced
    BY <1>5, <1>6, <1>7, <2>1 DEF NoWorkInVain, Present
  <2>2. ASSUME NEW d \in Calls, outcome[d] = "aborted", Present(d)', reason[d] = "none"
        PROVE  Underway(d)'
    <3>1. CASE d = c
      <4>1. Follows(c)
        BY <1>3, <1>7, <2>2, <3>1 DEF RequestOnItsWay, Present
      <4> QED
        BY <1>1, <2>2, <3>1, <4>1, ReceiveKeepsUnderway
    <3>2. CASE d # c
      <4>1. Underway(d)
        BY <1>5, <1>6, <2>2, <3>2 DEF NoWorkInVain, AbortReachesPresent, Present, Told
      <4>2. msg # Cancel(id[d])
        BY <1>3 DEF Cancel
      <4> QED
        BY <1>1, <4>1, <4>2, ReceiveKeepsUnderway
    <3> QED
      BY <3>1, <3>2
  <2> QED
    BY <1>5, <2>1, <2>2 DEF NoWorkInVain, AbortReachesPresent, Told
<1>15. EntriesOwn'
  BY <1>3, <1>5, <1>8 DEF EntriesOwn, Entry
<1>16. TableExact'
  <2> SUFFICES ASSUME NEW d \in Calls
               PROVE  Entry(d, id[d]) \in table'
                        <=> served'[d] = "running" /\ servedBy'[d] = registration /\ Kept
    BY <1>5 DEF TableExact, Kept
  <2>1. Entry(d, id[d]) \in table <=> served[d] = "running" /\ servedBy[d] = registration /\ Kept
    BY DEF TableExact, Kept
  <2>2. CASE d = c /\ registered /\ msg.id # 0
    BY <1>3, <1>4, <2>2 DEF ServeRequest, SetEntry, Kept
  <2>3. CASE d = c /\ (~registered \/ msg.id = 0)
    BY <1>3, <1>4, <2>1, <2>3 DEF ServeRequest
  <2>4. CASE d # c
    <3>1. Entry(d, id[d]) # Entry(c, id[c]) /\ Entry(d, id[d]).id = id[d] /\ Entry(d, id[d]).call = d
      BY <2>4 DEF Entry
    <3>2. Entry(d, id[d]) \in table' <=> Entry(d, id[d]) \in table
      BY <1>3, <1>8, <2>4, <3>1 DEF ServeRequest, SetEntry
    <3> QED
      BY <1>6, <2>1, <2>4, <3>2
  <2> QED
    BY <2>2, <2>3, <2>4
<1> QED
  BY <1>9, <1>10, <1>11, <1>12, <1>13, <1>14, <1>15, <1>16

\* Every step of a renderer or of the main process.
LEMMA StepsKeep == ASSUME OneRenderer, Inv, [Next]_vars PROVE Inv'
<1>1. CASE UNCHANGED vars
  BY <1>1, OthersKeep DEF vars, renderVars, Inv, TypeOK
<1>2. CASE Next
  BY <1>2, InvokeKeeps, AbortKeeps, SettlesKeep, RequestKeeps, CancelKeeps, AnswerKeeps,
     RemoveKeeps, HandleKeeps DEF Next, Receive
<1> QED
  BY <1>1, <1>2

\* The invariant holds throughout, when one renderer cancels.
LEMMA InvHolds == ASSUME OneRenderer PROVE Spec => []Inv
<1>1. Inv /\ [Next]_vars => Inv'
  BY StepsKeep
<1> QED
  BY <1>1, Initially, PTL DEF Spec

\* With one renderer that cancels, a cancel that races with its request, with
\* the answer or with removeHandler() aborts the request it is for and no
\* other, for any number of calls (src/ipc.ts:447-466).
THEOREM CancelsReachTheirOwn == ASSUME OneRenderer PROVE Spec => [](TypeOK /\ CancelHitsOwn)
<1>1. Inv => TypeOK /\ CancelHitsOwn
  BY DEF Inv
<1> QED
  BY <1>1, InvHolds, PTL

\* With one renderer that cancels: a handler whose caller gave up has been told
\* or is about to be as long as its registration stands, and one whose
\* registration is gone has been told, unless a second handle() displaced the
\* table of that registration (src/ipc.ts:399-473).
THEOREM NobodyWorksInVain == ASSUME OneRenderer PROVE Spec => []NoWorkInVain
<1>1. Inv => NoWorkInVain
  BY DEF Inv
<1> QED
  BY <1>1, InvHolds, PTL

\* With one renderer that cancels, the table of the last registration holds
\* exactly the controllers of its handlers that run, until a removeHandler()
\* that finds it empties it: none leaks, and none is missing when a cancel
\* comes, also when a second handle() threw in between (src/ipc.ts:403-473).
THEOREM NoControllerLeaks == ASSUME OneRenderer PROVE Spec => []TableExact
<1>1. Inv => TableExact
  BY DEF Inv
<1> QED
  BY <1>1, InvHolds, PTL

-----------------------------------------------------------------------------
\* The least of two numbers, and the greatest.
LEMMA LesserOfTwo ==
  ASSUME NEW a \in Int, NEW b \in Int
  PROVE  Min({a, b}) = IF a <= b THEN a ELSE b
<1> DEFINE least == IF a <= b THEN a ELSE b
<1>1. least \in {a, b} /\ \A y \in {a, b} : least <= y
  OBVIOUS
<1>2. \A x \in {a, b} : (\A y \in {a, b} : x <= y) => x = least
  OBVIOUS
<1> HIDE DEF least
<1>3. Min({a, b}) = least
  BY <1>1, <1>2 DEF Min
<1> QED
  BY <1>3 DEF least

\* The greater of two numbers.
LEMMA GreaterOfTwo ==
  ASSUME NEW a \in Int, NEW b \in Int
  PROVE  Max({a, b}) = IF a >= b THEN a ELSE b
<1> DEFINE most == IF a >= b THEN a ELSE b
<1>1. most \in {a, b} /\ \A y \in {a, b} : most >= y
  OBVIOUS
<1>2. \A x \in {a, b} : (\A y \in {a, b} : x >= y) => x = most
  OBVIOUS
<1> HIDE DEF most
<1>3. Max({a, b}) = most
  BY <1>1, <1>2 DEF Max
<1> QED
  BY <1>3 DEF most

-----------------------------------------------------------------------------
\* Consecutive messages, beginning with f.
Run(s, f) == \A i \in 1 .. Len(s) : s[i] = f + i - 1

\* A run goes on with the next message.
LEMMA RunGrows ==
  ASSUME NEW s \in Seq(Nat), NEW f \in Nat, Run(s, f)
  PROVE  /\ Append(s, f + Len(s)) \in Seq(Nat) /\ Len(Append(s, f + Len(s))) = Len(s) + 1
         /\ Run(Append(s, f + Len(s)), f)
<1> DEFINE m == f + Len(s)
<1>1. m \in Nat /\ Len(s) \in Nat
  BY LenProperties
<1> HIDE DEF m
<1>2. /\ Append(s, m) \in Seq(Nat)
      /\ Len(Append(s, m)) = Len(s) + 1
      /\ \A i \in 1 .. Len(s) : Append(s, m)[i] = s[i]
      /\ Append(s, m)[Len(s) + 1] = m
  BY <1>1, AppendProperties
<1>3. ASSUME NEW i \in 1 .. Len(s) + 1 PROVE Append(s, m)[i] = f + i - 1
  <2>1. CASE i \in 1 .. Len(s)
    BY <2>1, <1>2 DEF Run
  <2>2. CASE i = Len(s) + 1
    BY <2>2, <1>1, <1>2 DEF m
  <2> QED
    BY <2>1, <2>2, <1>1
<1> QED
  BY <1>2, <1>3 DEF Run, m

\* It loses its first message.
LEMMA RunShrinks ==
  ASSUME NEW s \in Seq(Nat), s # <<>>, NEW f \in Nat, Run(s, f)
  PROVE  /\ Head(s) = f
         /\ Tail(s) \in Seq(Nat) /\ Len(Tail(s)) = Len(s) - 1 /\ Len(s) >= 1
         /\ Run(Tail(s), f + 1)
<1>1. Len(s) \in Nat /\ Len(s) >= 1
  BY EmptySeq
<1>2. /\ Tail(s) \in Seq(Nat) /\ Len(Tail(s)) = Len(s) - 1
      /\ \A i \in 1 .. Len(Tail(s)) : Tail(s)[i] = s[i + 1]
  BY HeadTailProperties
<1>3. Head(s) = f
  BY <1>1 DEF Run
<1>4. ASSUME NEW i \in 1 .. Len(Tail(s)) PROVE Tail(s)[i] = (f + 1) + i - 1
  BY <1>1, <1>2 DEF Run
<1> QED
  BY <1>1, <1>2, <1>3, <1>4 DEF Run

\* A stretch of it is a run.
LEMMA RunCut ==
  ASSUME NEW s \in Seq(Nat), NEW f \in Nat, Run(s, f),
         NEW a \in 1 .. Len(s) + 1, NEW b \in 0 .. Len(s), a <= b + 1
  PROVE  /\ SubSeq(s, a, b) \in Seq(Nat) /\ Len(SubSeq(s, a, b)) = b - a + 1
         /\ Run(SubSeq(s, a, b), f + a - 1)
<1>1. Len(s) \in Nat
  BY LenProperties
<1>2. \A i \in a .. b : s[i] \in Nat
  BY <1>1, ElementOfSeq
<1>3. /\ SubSeq(s, a, b) \in Seq(Nat)
      /\ Len(SubSeq(s, a, b)) = IF a <= b THEN b - a + 1 ELSE 0
      /\ \A i \in 1 .. b - a + 1 : SubSeq(s, a, b)[i] = s[a + i - 1]
  BY <1>1, <1>2, SubSeqProperties
<1>4. Len(SubSeq(s, a, b)) = b - a + 1
  BY <1>1, <1>3
<1>5. ASSUME NEW i \in 1 .. b - a + 1 PROVE SubSeq(s, a, b)[i] = (f + a - 1) + i - 1
  <2>1. a + i - 1 \in 1 .. Len(s)
    BY <1>1
  <2>2. s[a + i - 1] = f + (a + i - 1) - 1
    BY <2>1 DEF Run
  <2> QED
    BY <1>1, <1>3, <2>2
<1> QED
  BY <1>3, <1>4, <1>5 DEF Run

\* Two runs are one when the second begins where the first ends.
LEMMA RunJoins ==
  ASSUME NEW s \in Seq(Nat), NEW t \in Seq(Nat), NEW f \in Nat, Run(s, f), Run(t, f + Len(s))
  PROVE  s \o t \in Seq(Nat) /\ Len(s \o t) = Len(s) + Len(t) /\ Run(s \o t, f)
<1>1. Len(s) \in Nat /\ Len(t) \in Nat
  BY LenProperties
<1>2. /\ s \o t \in Seq(Nat) /\ Len(s \o t) = Len(s) + Len(t)
      /\ \A i \in 1 .. Len(s) + Len(t) :
           (s \o t)[i] = IF i <= Len(s) THEN s[i] ELSE t[i - Len(s)]
  BY ConcatProperties
<1>3. ASSUME NEW i \in 1 .. Len(s) + Len(t) PROVE (s \o t)[i] = f + i - 1
  <2>1. CASE i <= Len(s)
    BY <2>1, <1>1, <1>2 DEF Run
  <2>2. CASE i > Len(s)
    <3>1. i - Len(s) \in 1 .. Len(t) /\ ~(i <= Len(s))
      BY <2>2, <1>1
    <3>2. t[i - Len(s)] = (f + Len(s)) + (i - Len(s)) - 1
      BY <3>1 DEF Run
    <3> QED
      BY <1>1, <1>2, <3>1, <3>2
  <2> QED
    BY <2>1, <2>2, <1>1
<1> QED
  BY <1>2, <1>3 DEF Run

\* What a subscription received, what its buffer holds and what waits as an
\* offer are consecutive messages, beginning with f.
Consecutive(received, values, offers, f) ==
  /\ Run(received, f)
  /\ Run(values, f + Len(received))
  /\ Run(offers, f + Len(received) + Len(values))

\* The message that is to follow them.
Following(received, values, offers, f) == f + Len(received) + Len(values) + Len(offers)

\* Offers wait behind a full buffer only.
Filled(values, offers) ==
  /\ Len(values) <= SubscriberCapacity
  /\ offers # <<>> => Len(values) = SubscriberCapacity

\* The queue of a subscription.
Queues ==
  [open : BOOLEAN, values : Seq(Nat), offers : Seq(Nat), taking : BOOLEAN, received : Seq(Nat)]

\* A queue that holds messages in order from f on, and waits in a take only if
\* it is empty.
InOrder(q, f) ==
  /\ q \in Queues
  /\ Consecutive(q.received, q.values, q.offers, f)
  /\ Filled(q.values, q.offers)
  /\ q.taking => q.values = <<>>

\* The message a queue expects that heard message f first.
NextOf(q, f) == Following(q.received, q.values, q.offers, f)

\* The next message may go behind the last sequence that is not empty.
LEMMA OneMore ==
  ASSUME NEW r \in Seq(Nat), NEW v \in Seq(Nat), NEW o \in Seq(Nat), NEW f \in Nat,
         Consecutive(r, v, o, f)
  PROVE  LET m == Following(r, v, o, f) IN
         /\ m \in Nat
         /\ Consecutive(r, v, Append(o, m), f) /\ Following(r, v, Append(o, m), f) = m + 1
         /\ o = <<>> =>
              /\ Consecutive(r, Append(v, m), o, f)
              /\ Following(r, Append(v, m), o, f) = m + 1
         /\ v = <<>> /\ o = <<>> =>
              /\ Consecutive(Append(r, m), v, o, f)
              /\ Following(Append(r, m), v, o, f) = m + 1
<1> DEFINE m == Following(r, v, o, f)
<1>1. /\ Len(r) \in Nat /\ Len(v) \in Nat /\ Len(o) \in Nat
      /\ Len(<<>>) = 0
  BY LenProperties, EmptySeq
<1>2. m \in Nat /\ m = f + Len(r) + Len(v) + Len(o)
  BY <1>1 DEF Following
<1>3. Run(r, f) /\ Run(v, f + Len(r)) /\ Run(o, f + Len(r) + Len(v))
  BY DEF Consecutive
<1> HIDE DEF m
<1>4. Run(Append(o, m), f + Len(r) + Len(v)) /\ Len(Append(o, m)) = Len(o) + 1
  BY <1>1, <1>2, <1>3, RunGrows, f + Len(r) + Len(v) \in Nat
<1>5. o = <<>> => Run(Append(v, m), f + Len(r)) /\ Len(Append(v, m)) = Len(v) + 1
  BY <1>1, <1>2, <1>3, RunGrows, f + Len(r) \in Nat, o = <<>> => m = f + Len(r) + Len(v)
<1>6. v = <<>> /\ o = <<>> => Run(Append(r, m), f) /\ Len(Append(r, m)) = Len(r) + 1
  BY <1>1, <1>2, <1>3, RunGrows, v = <<>> /\ o = <<>> => m = f + Len(r)
<1>7. \A g : Run(<<>>, g)
  BY <1>1 DEF Run
<1>8. Consecutive(r, v, Append(o, m), f) /\ Following(r, v, Append(o, m), f) = m + 1
  BY <1>1, <1>2, <1>3, <1>4 DEF Consecutive, Following
<1>9. ASSUME o = <<>>
      PROVE  Consecutive(r, Append(v, m), o, f) /\ Following(r, Append(v, m), o, f) = m + 1
  BY <1>1, <1>2, <1>3, <1>5, <1>7, <1>9 DEF Consecutive, Following
<1>10. ASSUME v = <<>>, o = <<>>
       PROVE  Consecutive(Append(r, m), v, o, f) /\ Following(Append(r, m), v, o, f) = m + 1
  BY <1>1, <1>2, <1>3, <1>6, <1>7, <1>10 DEF Consecutive, Following
<1> QED
  BY <1>2, <1>8, <1>9, <1>10 DEF m

\* A queue in order stays so when the next message is offered, whether it goes
\* to the take, into the buffer or into the line of offers.
LEMMA OfferKeepsOrder ==
  ASSUME NEW q, NEW f \in Nat, InOrder(q, f), q.open
  PROVE  LET p == Offer(q, NextOf(q, f)) IN
         InOrder(p, f) /\ p.open /\ NextOf(p, f) = NextOf(q, f) + 1
<1>1. PICK r \in Seq(Nat), v \in Seq(Nat), o \in Seq(Nat), t \in BOOLEAN :
        q.received = r /\ q.values = v /\ q.offers = o /\ q.taking = t
  BY DEF InOrder, Queues
<1> DEFINE m == Following(r, v, o, f)
           p == Offer(q, m)
<1>2. Consecutive(r, v, o, f) /\ Filled(v, o) /\ (t => v = <<>>) /\ NextOf(q, f) = m
  BY <1>1 DEF InOrder, NextOf
<1>3. \A s \in Seq(Nat) : Len(s) \in Nat /\ (s = <<>> <=> Len(s) = 0)
  BY EmptySeq, LenProperties
<1>4. /\ m \in Nat
      /\ Consecutive(r, v, Append(o, m), f) /\ Following(r, v, Append(o, m), f) = m + 1
      /\ o = <<>> =>
           /\ Consecutive(r, Append(v, m), o, f)
           /\ Following(r, Append(v, m), o, f) = m + 1
      /\ v = <<>> /\ o = <<>> =>
           /\ Consecutive(Append(r, m), v, o, f)
           /\ Following(Append(r, m), v, o, f) = m + 1
  BY <1>2, OneMore
<1> HIDE DEF m
<1>5. \A s \in Seq(Nat) : Append(s, m) \in Seq(Nat) /\ Len(Append(s, m)) = Len(s) + 1
  BY <1>4, AppendProperties
<1>6. CASE t
  <2>1. v = <<>> /\ o = <<>>
    BY <1>2, <1>3, <1>6, PubSubAssumption DEF Filled
  <2>2. p = [q EXCEPT !.taking = FALSE, !.received = Append(r, m)]
    BY <1>1, <1>6 DEF Offer
  <2>3. /\ p \in Queues /\ p.open /\ ~p.taking
        /\ p.received = Append(r, m) /\ p.values = v /\ p.offers = o
    BY <2>2, <1>1, <1>5 DEF InOrder, Queues
  <2> QED
    BY <2>1, <2>3, <1>2, <1>4 DEF InOrder, NextOf
<1>7. CASE ~t /\ Len(v) < SubscriberCapacity
  <2>1. o = <<>>
    BY <1>2, <1>3, <1>7, PubSubAssumption DEF Filled
  <2>2. p = [q EXCEPT !.values = Append(v, m)]
    BY <1>1, <1>7 DEF Offer
  <2>3. /\ p \in Queues /\ p.open /\ ~p.taking
        /\ p.received = r /\ p.values = Append(v, m) /\ p.offers = o
    BY <2>2, <1>1, <1>5, <1>7 DEF InOrder, Queues
  <2>4. Filled(Append(v, m), o)
    BY <2>1, <1>3, <1>5, <1>7, PubSubAssumption DEF Filled
  <2> QED
    BY <2>1, <2>3, <2>4, <1>2, <1>4 DEF InOrder, NextOf
<1>8. CASE ~t /\ ~(Len(v) < SubscriberCapacity)
  <2>1. Filled(v, Append(o, m))
    BY <1>2, <1>3, <1>8, PubSubAssumption DEF Filled
  <2>2. p = [q EXCEPT !.offers = Append(o, m)]
    BY <1>1, <1>8 DEF Offer
  <2>3. /\ p \in Queues /\ p.open /\ ~p.taking
        /\ p.received = r /\ p.values = v /\ p.offers = Append(o, m)
    BY <2>2, <1>1, <1>5, <1>8 DEF InOrder, Queues
  <2> QED
    BY <2>1, <2>3, <1>2, <1>4 DEF InOrder, NextOf
<1> HIDE DEF p
<1> QED
  BY <1>2, <1>6, <1>7, <1>8 DEF p
\* A take moves messages on: from the buffer to the reader, and from the line
\* of offers into the buffer.
LEMMA TakeKeepsOrder ==
  ASSUME NEW q, NEW f \in Nat, InOrder(q, f), ~q.taking
  PROVE  InOrder(Take(q), f) /\ Take(q).open = q.open /\ NextOf(Take(q), f) = NextOf(q, f)
<1>1. PICK r \in Seq(Nat), v \in Seq(Nat), o \in Seq(Nat) :
        q.received = r /\ q.values = v /\ q.offers = o
  BY DEF InOrder, Queues
<1>2. /\ Consecutive(r, v, o, f) /\ Filled(v, o) /\ q \in Queues
      /\ NextOf(q, f) = Following(r, v, o, f)
  BY <1>1 DEF InOrder, NextOf
<1>3. /\ Len(r) \in Nat /\ Len(v) \in Nat /\ Len(o) \in Nat /\ <<>> \in Seq(Nat)
      /\ \A s \in Seq(Nat) : s = <<>> <=> Len(s) = 0
  BY EmptySeq, LenProperties
<1> DEFINE p == Take(q)
<1>4. CASE v = <<>>
  <2>1. p = [q EXCEPT !.taking = q.open]
    BY <1>1, <1>4 DEF Take
  <2>2. /\ p \in Queues /\ p.open = q.open
        /\ p.received = r /\ p.values = v /\ p.offers = o
    BY <2>1, <1>1, <1>2 DEF Queues
  <2> QED
    BY <2>2, <1>2, <1>4 DEF InOrder, NextOf
<1>5. CASE v # <<>>
  <2>1. /\ Head(v) = f + Len(r)
        /\ Tail(v) \in Seq(Nat) /\ Len(Tail(v)) = Len(v) - 1 /\ Len(v) >= 1
        /\ Run(Tail(v), f + Len(r) + 1)
    BY <1>2, <1>3, <1>5, RunShrinks, f + Len(r) \in Nat DEF Consecutive
  <2>2. /\ Append(r, Head(v)) \in Seq(Nat) /\ Len(Append(r, Head(v))) = Len(r) + 1
        /\ Run(Append(r, Head(v)), f)
    BY <1>2, <2>1, RunGrows DEF Consecutive
  <2>3. CASE o = <<>>
    <3>1. p = [q EXCEPT !.received = Append(r, Head(v)), !.values = Tail(v), !.offers = o]
      BY <1>1, <1>5, <2>3 DEF Take
    <3>2. /\ p \in Queues /\ p.open = q.open /\ ~p.taking
          /\ p.received = Append(r, Head(v)) /\ p.values = Tail(v) /\ p.offers = o
      BY <3>1, <2>1, <2>2, <1>1, <1>2 DEF Queues
    <3>3. Run(o, f + (Len(r) + 1) + (Len(v) - 1))
      BY <1>3, <2>3 DEF Run
    <3>4. Consecutive(Append(r, Head(v)), Tail(v), o, f)
      BY <1>3, <2>1, <2>2, <3>3, f + (Len(r) + 1) = f + Len(r) + 1 DEF Consecutive
    <3>5. Following(Append(r, Head(v)), Tail(v), o, f) = Following(r, v, o, f)
      BY <1>3, <2>1, <2>2 DEF Following
    <3>6. Filled(Tail(v), o)
      BY <1>2, <1>3, <2>1, <2>3, PubSubAssumption DEF Filled
    <3> QED
      BY <3>2, <3>4, <3>5, <3>6, <1>2 DEF InOrder, NextOf
  <2>4. CASE o # <<>>
    <3>1. /\ Head(o) = f + Len(r) + Len(v)
          /\ Tail(o) \in Seq(Nat) /\ Len(Tail(o)) = Len(o) - 1 /\ Len(o) >= 1
          /\ Run(Tail(o), f + Len(r) + Len(v) + 1)
      BY <1>2, <1>3, <2>4, RunShrinks, f + Len(r) + Len(v) \in Nat DEF Consecutive
    <3>2. Head(o) = (f + Len(r) + 1) + Len(Tail(v)) /\ f + Len(r) + 1 \in Nat
      BY <1>3, <2>1, <3>1
    <3>3. /\ Append(Tail(v), Head(o)) \in Seq(Nat)
          /\ Len(Append(Tail(v), Head(o))) = Len(Tail(v)) + 1
          /\ Run(Append(Tail(v), Head(o)), f + Len(r) + 1)
      BY <2>1, <3>2, RunGrows
    <3>4. p = [q EXCEPT !.received = Append(r, Head(v)),
                        !.values = Append(Tail(v), Head(o)), !.offers = Tail(o)]
      BY <1>1, <1>5, <2>4 DEF Take
    <3>5. /\ p \in Queues /\ p.open = q.open /\ ~p.taking
          /\ p.received = Append(r, Head(v)) /\ p.values = Append(Tail(v), Head(o))
          /\ p.offers = Tail(o)
      BY <3>1, <3>3, <3>4, <2>1, <2>2, <1>1, <1>2 DEF Queues
    <3>6. f + (Len(r) + 1) = f + Len(r) + 1 /\ f + (Len(r) + 1) + Len(v) = f + Len(r) + Len(v) + 1
      BY <1>3
    <3>7. Len(Append(Tail(v), Head(o))) = Len(v)
      BY <1>3, <2>1, <3>3
    <3>8. Consecutive(Append(r, Head(v)), Append(Tail(v), Head(o)), Tail(o), f)
      BY <2>2, <3>1, <3>3, <3>6, <3>7 DEF Consecutive
    <3>9. Following(Append(r, Head(v)), Append(Tail(v), Head(o)), Tail(o), f)
            = Following(r, v, o, f)
      <4>1. f + (Len(r) + 1) + Len(v) + (Len(o) - 1) = f + Len(r) + Len(v) + Len(o)
        BY <1>3
      <4> QED
        BY <4>1, <2>2, <3>1, <3>7 DEF Following
    <3>10. Filled(Append(Tail(v), Head(o)), Tail(o))
      BY <1>2, <2>4, <3>7 DEF Filled
    <3> QED
      BY <3>5, <3>8, <3>9, <3>10, <1>2 DEF InOrder, NextOf
  <2> QED
    BY <2>3, <2>4
<1> QED
  BY <1>4, <1>5

\* A queue that closes drops its offers, and keeps the order of the others.
LEMMA CloseKeepsOrder ==
  ASSUME NEW q, NEW f \in Nat, InOrder(q, f)
  PROVE  /\ InOrder(CloseQueue(q), f) /\ ~CloseQueue(q).open
         /\ NextOf(CloseQueue(q), f) <= NextOf(q, f)
<1>1. PICK r \in Seq(Nat), v \in Seq(Nat), o \in Seq(Nat) :
        q.received = r /\ q.values = v /\ q.offers = o
  BY DEF InOrder, Queues
<1>2. Len(v) \in Nat /\ <<>> \in Seq(Nat) /\ \A g : Run(<<>>, g)
  BY EmptySeq, LenProperties DEF Run
<1>3. CloseQueue(q) = [q EXCEPT !.open = FALSE, !.offers = <<>>, !.taking = FALSE]
  BY DEF CloseQueue
<1> DEFINE p == CloseQueue(q)
<1>4. /\ p \in Queues /\ ~p.open /\ ~p.taking
      /\ p.received = r /\ p.values = v /\ p.offers = <<>>
  BY <1>1, <1>2, <1>3 DEF InOrder, Queues
<1>5. Consecutive(r, v, <<>>, f) /\ Filled(v, <<>>)
  BY <1>1, <1>2 DEF InOrder, Consecutive, Filled
<1>6. NextOf(p, f) <= NextOf(q, f)
  <2>1. Len(r) \in Nat /\ Len(v) \in Nat /\ Len(o) \in Nat /\ Len(<<>>) = 0
    BY LenProperties, EmptySeq
  <2>2. /\ NextOf(p, f) = f + Len(r) + Len(v) + Len(<<>>)
        /\ NextOf(q, f) = f + Len(r) + Len(v) + Len(o)
    BY <1>1, <1>4 DEF NextOf, Following
  <2> HIDE DEF p
  <2> QED
    BY <2>1, <2>2
<1> QED
  BY <1>4, <1>5, <1>6 DEF InOrder

-----------------------------------------------------------------------------
\* The replay buffer holds the last messages, as many as it may.
HistoryKept ==
  /\ published \in Nat /\ history \in Seq(Nat)
  /\ Len(history) = IF Replay <= published THEN Replay ELSE published
  /\ Run(history, published - Len(history) + 1)

\* A subscription hears messages in order from its first on, up to the last one
\* while it is open, which it is as long as it is in the set.
HearsInOrder(s) ==
  /\ first[s] \in Nat
  /\ first[s] = 0 => s \notin subscribers
  /\ first[s] # 0 =>
       /\ InOrder(queue[s], first[s])
       /\ queue[s].open => NextOf(queue[s], first[s]) = published + 1
       /\ queue[s].open <=> s \in subscribers

\* The inductive invariant of the hub: it keeps the messages published last, and
\* each subscription that is open expects the message that is published next.
PubSubInv ==
  /\ HistoryKept
  /\ subscribers \subseteq Subscriptions
  /\ DOMAIN queue = Subscriptions /\ DOMAIN first = Subscriptions
  /\ \A s \in Subscriptions : HearsInOrder(s)

\* The buffer takes a message and drops the oldest when it is full.
LEMMA RememberKeeps ==
  ASSUME HistoryKept, published' = published + 1, history' = Remember(published')
  PROVE  HistoryKept'
<1> DEFINE h == history
           m == published + 1
           f == published - Len(history) + 1
<1>1. /\ published \in Nat /\ h \in Seq(Nat) /\ Len(h) \in Nat /\ Replay \in Nat
      /\ Len(h) = IF Replay <= published THEN Replay ELSE published
      /\ f \in Nat /\ Run(h, f) /\ m = f + Len(h) /\ m \in Nat /\ published' = m
      /\ m = published + 1 /\ f = published - Len(h) + 1
  BY LenProperties, PubSubAssumption DEF HistoryKept
<1>2. /\ Len(<<>>) = 0 /\ <<>> \in Seq(Nat) /\ \A g : Run(<<>>, g)
      /\ (h = <<>> <=> Len(h) = 0)
  BY EmptySeq, <1>1 DEF Run
<1> HIDE DEF h, f, m
<1>3. CASE Replay = 0
  BY <1>1, <1>2, <1>3 DEF HistoryKept, Remember
<1>4. CASE Replay # 0 /\ Len(h) >= Replay
  <2>1. h # <<>> /\ Len(h) = Replay /\ Replay <= published
    BY <1>1, <1>2, <1>4
  <2>2. /\ Tail(h) \in Seq(Nat) /\ Len(Tail(h)) = Len(h) - 1 /\ Run(Tail(h), f + 1)
    BY <1>1, <2>1, RunShrinks
  <2>3. m = (f + 1) + Len(Tail(h))
    BY <1>1, <2>2
  <2>4. /\ Append(Tail(h), m) \in Seq(Nat) /\ Len(Append(Tail(h), m)) = Len(Tail(h)) + 1
        /\ Run(Append(Tail(h), m), f + 1)
    BY <1>1, <2>2, <2>3, RunGrows, f + 1 \in Nat
  <2>5. history' = Append(Tail(h), m)
    BY <1>1, <1>4 DEF Remember, h
  <2>6. Len(history') = Replay /\ m - Replay + 1 = f + 1
    BY <1>1, <2>1, <2>2, <2>4, <2>5
  <2> QED
    BY <1>1, <2>1, <2>4, <2>5, <2>6, Replay <= m DEF HistoryKept
<1>5. CASE Replay # 0 /\ ~(Len(h) >= Replay)
  <2>1. /\ Append(h, m) \in Seq(Nat) /\ Len(Append(h, m)) = Len(h) + 1
        /\ Run(Append(h, m), f)
    BY <1>1, RunGrows
  <2>2. history' = Append(h, m)
    BY <1>1, <1>5 DEF Remember, h
  <2>3. /\ m - Len(history') + 1 = f
        /\ Len(history') = IF Replay <= m THEN Replay ELSE m
    BY <1>1, <1>5, <2>1, <2>2
  <2> QED
    BY <1>1, <2>1, <2>2, <2>3 DEF HistoryKept
<1> QED
  BY <1>3, <1>4, <1>5

\* A new subscription is given what is kept, and is to hear the next message.
LEMMA ReplayedInOrder ==
  ASSUME HistoryKept
  PROVE  LET f == published - Len(history) + 1 IN
         /\ f \in Nat \ {0} /\ f = Max({1, published + 1 - Replay})
         /\ InOrder(Replayed, f) /\ Replayed.open /\ NextOf(Replayed, f) = published + 1
<1> DEFINE h == history
           f == published - Len(h) + 1
           kept == Min({SubscriberCapacity, Len(h)})
<1>1. /\ published \in Nat /\ h \in Seq(Nat) /\ Len(h) \in Nat /\ Replay \in Nat
      /\ Len(h) = IF Replay <= published THEN Replay ELSE published
      /\ f \in Nat \ {0} /\ Run(h, f)
  BY LenProperties, PubSubAssumption DEF HistoryKept
<1>2. f = Max({1, published + 1 - Replay})
  BY <1>1, GreaterOfTwo
<1>3. /\ kept \in Nat /\ kept = IF SubscriberCapacity <= Len(h) THEN SubscriberCapacity ELSE Len(h)
  BY <1>1, LesserOfTwo, PubSubAssumption
<1> HIDE DEF f, kept
<1> DEFINE v == SubSeq(h, 1, kept)
           o == SubSeq(h, kept + 1, Len(h))
<1>4. /\ v \in Seq(Nat) /\ Len(v) = kept /\ Run(v, f)
  <2>1. kept \in 0 .. Len(h) /\ 1 \in 1 .. Len(h) + 1 /\ 1 <= kept + 1
    BY <1>1, <1>3, PubSubAssumption
  <2>2. Len(v) = kept - 1 + 1 /\ Run(v, f + 1 - 1) /\ v \in Seq(Nat)
    BY <1>1, <2>1, RunCut
  <2> QED
    BY <1>1, <1>3, <2>2
<1>5. /\ o \in Seq(Nat) /\ Len(o) = Len(h) - kept /\ Run(o, f + kept)
  <2>1. kept + 1 \in 1 .. Len(h) + 1 /\ Len(h) \in 0 .. Len(h) /\ kept + 1 <= Len(h) + 1
    BY <1>1, <1>3, PubSubAssumption
  <2>2. Len(o) = Len(h) - (kept + 1) + 1 /\ Run(o, f + (kept + 1) - 1) /\ o \in Seq(Nat)
    BY <1>1, <2>1, RunCut
  <2>3. f + (kept + 1) - 1 = f + kept /\ Len(h) - (kept + 1) + 1 = Len(h) - kept
    BY <1>1, <1>3
  <2> QED
    BY <2>2, <2>3
<1> HIDE DEF v, o
<1>6. /\ Replayed.open /\ ~Replayed.taking /\ Replayed \in Queues
      /\ Replayed.received = <<>> /\ Replayed.values = v /\ Replayed.offers = o
  BY <1>4, <1>5, EmptySeq DEF Replayed, EmptyQueue, Queues, v, o, kept
<1>7. Len(<<>>) = 0 /\ (o = <<>> <=> Len(o) = 0) /\ \A g : Run(<<>>, g)
  BY <1>5, EmptySeq DEF Run
<1>8. Consecutive(<<>>, v, o, f)
  <2>1. f + 0 = f /\ f + 0 + kept = f + kept
    BY <1>1, <1>3
  <2> QED
    BY <1>4, <1>5, <1>7, <2>1 DEF Consecutive
<1>9. Following(<<>>, v, o, f) = published + 1
  <2>1. f + 0 + kept + (Len(h) - kept) = published + 1
    BY <1>1, <1>3 DEF f
  <2> QED
    BY <1>4, <1>5, <1>7, <2>1 DEF Following
<1>10. Filled(v, o)
  BY <1>1, <1>3, <1>4, <1>5, <1>7, PubSubAssumption DEF Filled
<1> QED
  BY <1>1, <1>2, <1>6, <1>8, <1>9, <1>10 DEF InOrder, NextOf, f

\* A step that leaves a subscription and the messages alone.
LEMMA HearingKept ==
  ASSUME NEW s \in Subscriptions, HearsInOrder(s), queue'[s] = queue[s], first'[s] = first[s],
         published' = published, s \in subscribers' <=> s \in subscribers
  PROVE  HearsInOrder(s)'
  BY DEF HearsInOrder, NextOf

\* Nothing is published at first.
LEMMA PubSubInitInv == PubSubInit => PubSubInv
<1> SUFFICES ASSUME PubSubInit PROVE PubSubInv
  OBVIOUS
<1>1. HistoryKept
  BY EmptySeq, PubSubAssumption DEF PubSubInit, HistoryKept, Run
<1> QED
  BY <1>1 DEF PubSubInit, PubSubInv, HearsInOrder

\* A message goes to each subscription, which expects it.
LEMMA PublishInv == ASSUME PubSubInv, Publish PROVE PubSubInv'
<1>1. HistoryKept'
  BY RememberKeeps DEF PubSubInv, Publish
<1>2. ASSUME NEW s \in Subscriptions PROVE HearsInOrder(s)'
  <2>1. /\ HearsInOrder(s) /\ first' = first /\ subscribers' = subscribers
        /\ published' = published + 1
    BY DEF PubSubInv, Publish
  <2>2. CASE s \in subscribers
    <3>1. /\ first[s] \in Nat /\ first[s] # 0 /\ InOrder(queue[s], first[s]) /\ queue[s].open
          /\ NextOf(queue[s], first[s]) = published + 1
      BY <2>1, <2>2 DEF HearsInOrder
    <3>2. queue'[s] = Offer(queue[s], NextOf(queue[s], first[s]))
      BY <2>2, <3>1 DEF Publish
    <3>3. /\ InOrder(queue'[s], first[s]) /\ queue'[s].open
          /\ NextOf(queue'[s], first[s]) = (published + 1) + 1
      BY <3>1, <3>2, OfferKeepsOrder
    <3> QED
      BY <2>1, <2>2, <3>1, <3>3 DEF HearsInOrder, NextOf
  <2>3. CASE s \notin subscribers
    <3>1. queue'[s] = queue[s]
      BY <2>3 DEF Publish
    <3> QED
      BY <2>1, <2>3, <3>1 DEF HearsInOrder
  <2> QED
    BY <2>2, <2>3
<1> QED
  BY <1>1, <1>2 DEF PubSubInv, Publish

\* A new subscription hears what is kept, and expects the next message.
LEMMA SubscribeInv == ASSUME PubSubInv, NEW s \in Subscriptions, Subscribe(s) PROVE PubSubInv'
<1> DEFINE f == published - Len(history) + 1
<1>1. HistoryKept /\ HistoryKept'
  BY DEF PubSubInv, Subscribe, HistoryKept
<1>2. /\ f \in Nat \ {0} /\ f = Max({1, published + 1 - Replay})
      /\ InOrder(Replayed, f) /\ Replayed.open /\ NextOf(Replayed, f) = published + 1
  BY <1>1, ReplayedInOrder
<1> HIDE DEF f
<1>3. InOrder(CloseQueue(Replayed), f) /\ ~CloseQueue(Replayed).open
  BY <1>2, CloseKeepsOrder
<1>4. /\ first'[s] = f /\ queue'[s] = IF closed THEN CloseQueue(Replayed) ELSE Replayed
      /\ published' = published /\ s \notin subscribers
      /\ subscribers' = IF closed THEN subscribers ELSE subscribers \cup {s}
      /\ \A d \in Subscriptions \ {s} : queue'[d] = queue[d] /\ first'[d] = first[d]
      /\ DOMAIN queue' = Subscriptions /\ DOMAIN first' = Subscriptions
  BY <1>2 DEF PubSubInv, HearsInOrder, Subscribe
<1>5. HearsInOrder(s)'
  BY <1>2, <1>3, <1>4 DEF HearsInOrder, NextOf
<1>6. ASSUME NEW d \in Subscriptions \ {s} PROVE HearsInOrder(d)'
  BY <1>4, HearingKept DEF PubSubInv
<1> QED
  BY <1>1, <1>4, <1>5, <1>6 DEF PubSubInv

\* Taking a message makes room for an offer that waits.
LEMMA NextMessageInv == ASSUME PubSubInv, NEW s \in Subscriptions, NextMessage(s) PROVE PubSubInv'
<1>1. HistoryKept'
  BY DEF PubSubInv, NextMessage, HistoryKept
<1>2. /\ first[s] \in Nat /\ first[s] # 0 /\ InOrder(queue[s], first[s]) /\ ~queue[s].taking
      /\ HearsInOrder(s)
  BY DEF PubSubInv, HearsInOrder, NextMessage
<1>3. /\ queue'[s] = Take(queue[s]) /\ first' = first /\ published' = published
      /\ subscribers' = subscribers
      /\ \A d \in Subscriptions \ {s} : queue'[d] = queue[d]
      /\ DOMAIN queue' = Subscriptions
  BY DEF PubSubInv, NextMessage
<1>4. /\ InOrder(queue'[s], first[s]) /\ queue'[s].open = queue[s].open
      /\ NextOf(queue'[s], first[s]) = NextOf(queue[s], first[s])
  BY <1>2, <1>3, TakeKeepsOrder
<1>5. HearsInOrder(s)'
  BY <1>2, <1>3, <1>4 DEF HearsInOrder, NextOf
<1>6. ASSUME NEW d \in Subscriptions \ {s} PROVE HearsInOrder(d)'
  BY <1>3, HearingKept DEF PubSubInv
<1> QED
  BY <1>1, <1>3, <1>5, <1>6 DEF PubSubInv

\* Subscriptions close, one or all that are open.
LEMMA ClosingInv ==
  ASSUME PubSubInv, NEW some \in SUBSET Subscriptions,
         \A s \in some : first[s] # 0,
         queue' = [s \in Subscriptions |-> IF s \in some THEN CloseQueue(queue[s]) ELSE queue[s]],
         subscribers' = subscribers \ some,
         UNCHANGED <<published, history, first>>
  PROVE  PubSubInv'
<1>1. HistoryKept'
  BY DEF PubSubInv, HistoryKept
<1>2. ASSUME NEW s \in some PROVE HearsInOrder(s)'
  <2>1. first[s] \in Nat /\ first[s] # 0 /\ InOrder(queue[s], first[s])
    BY DEF PubSubInv, HearsInOrder
  <2>2. InOrder(queue'[s], first[s]) /\ ~queue'[s].open
    BY <2>1, CloseKeepsOrder
  <2> QED
    BY <2>1, <2>2 DEF HearsInOrder
<1>3. ASSUME NEW s \in Subscriptions \ some PROVE HearsInOrder(s)'
  BY HearingKept DEF PubSubInv
<1> QED
  BY <1>1, <1>2, <1>3 DEF PubSubInv

\* Every step keeps the invariant of the hub.
LEMMA PubSubStep == ASSUME PubSubInv, [PubSubNext]_pubSubVars PROVE PubSubInv'
<1>1. CASE Publish
  BY <1>1, PublishInv
<1>2. ASSUME NEW s \in Subscriptions, Subscribe(s) \/ NextMessage(s) PROVE PubSubInv'
  BY <1>2, SubscribeInv, NextMessageInv
<1>3. ASSUME NEW s \in Subscriptions, Unsubscribe(s) PROVE PubSubInv'
  <2>1. queue' = [d \in Subscriptions |-> IF d \in {s} THEN CloseQueue(queue[d]) ELSE queue[d]]
    BY <1>3 DEF Unsubscribe, PubSubInv
  <2> QED
    BY <1>3, <2>1, ClosingInv, {s} \in SUBSET Subscriptions DEF Unsubscribe
<1>4. CASE Close
  <2>1. \A s \in subscribers : first[s] # 0
    BY DEF PubSubInv, HearsInOrder
  <2> QED
    BY <1>4, <2>1, ClosingInv, subscribers \ subscribers = {} DEF Close, PubSubInv
<1>5. CASE UNCHANGED pubSubVars
  <2>1. HistoryKept'
    BY <1>5 DEF PubSubInv, HistoryKept, pubSubVars
  <2>2. ASSUME NEW s \in Subscriptions PROVE HearsInOrder(s)'
    BY <1>5, HearingKept DEF PubSubInv, pubSubVars
  <2> QED
    BY <1>5, <2>1, <2>2 DEF PubSubInv, pubSubVars
<1> QED
  BY <1>1, <1>2, <1>3, <1>4, <1>5 DEF PubSubNext

\* Every subscriber hears consecutive messages, each once and in order, and
\* none is missing while it is subscribed, for any subscriptions that come and
\* go, any capacity and any replay (src/pubsub.ts:69-127).
THEOREM NobodyMissesAMessage == PubSubSpec => []GapFree
<1>1. PubSubInv => GapFree
  <2> SUFFICES ASSUME PubSubInv PROVE GapFree
    OBVIOUS
  <2>1. Len(history) = Min({Replay, published})
    BY LesserOfTwo, PubSubAssumption DEF PubSubInv, HistoryKept
  <2>2. \A i \in DOMAIN history : history[i] = published - Len(history) + i
    <3>1. published \in Nat /\ Len(history) \in Nat /\ DOMAIN history = 1 .. Len(history)
      BY LenProperties DEF PubSubInv, HistoryKept
    <3> QED
      BY <3>1 DEF PubSubInv, HistoryKept, Run
  <2>3. ASSUME NEW s \in Subscriptions, first[s] # 0
        PROVE  /\ \A i \in 1 .. Len(Heard(s)) : Heard(s)[i] = first[s] + i - 1
               /\ queue[s].open => first[s] + Len(Heard(s)) = published + 1
               /\ queue[s].open <=> s \in subscribers
    <3> DEFINE f == first[s]
    <3>1. /\ f \in Nat /\ InOrder(queue[s], f)
          /\ queue[s].open => NextOf(queue[s], f) = published + 1
          /\ queue[s].open <=> s \in subscribers
      BY <2>3 DEF PubSubInv, HearsInOrder
    <3> HIDE DEF f
    <3>2. PICK r \in Seq(Nat), v \in Seq(Nat), o \in Seq(Nat) :
            queue[s].received = r /\ queue[s].values = v /\ queue[s].offers = o
      BY <3>1 DEF InOrder, Queues
    <3>3. /\ Run(r, f) /\ Run(v, f + Len(r)) /\ Run(o, f + Len(r) + Len(v))
          /\ NextOf(queue[s], f) = f + Len(r) + Len(v) + Len(o)
          /\ Heard(s) = (r \o v) \o o
      BY <3>1, <3>2 DEF InOrder, Consecutive, NextOf, Following, Heard
    <3>4. Len(r) \in Nat /\ Len(v) \in Nat /\ Len(o) \in Nat
      BY LenProperties
    <3>5. /\ r \o v \in Seq(Nat) /\ Len(r \o v) = Len(r) + Len(v) /\ Run(r \o v, f)
      BY <3>1, <3>3, <3>4, RunJoins
    <3>6. /\ Len((r \o v) \o o) = Len(r \o v) + Len(o) /\ Run((r \o v) \o o, f)
      <4>1. f + Len(r \o v) = f + Len(r) + Len(v)
        BY <3>1, <3>4, <3>5
      <4> QED
        BY <3>1, <3>3, <3>5, <4>1, RunJoins
    <3>7. f + Len(Heard(s)) = f + Len(r) + Len(v) + Len(o)
      BY <3>1, <3>3, <3>4, <3>5, <3>6
    <3> QED
      BY <3>1, <3>3, <3>6, <3>7 DEF Run, f
  <2> QED
    BY <2>1, <2>2, <2>3 DEF GapFree
<1>2. PubSubInv /\ [PubSubNext]_pubSubVars => PubSubInv'
  BY PubSubStep
<1> QED
  BY <1>1, <1>2, PubSubInitInv, PTL DEF PubSubSpec

\* Nothing is heard before it is published, by nobody before it subscribes.
Published(s) ==
  /\ first[s] = 0 => queue[s] = EmptyQueue
  /\ first[s] # 0 => NextOf(queue[s], first[s]) <= published + 1

\* The next message of a queue is a number.
LEMMA NextKnown == ASSUME NEW q \in Queues, NEW f \in Nat PROVE NextOf(q, f) \in Nat
<1>1. PICK r \in Seq(Nat), v \in Seq(Nat), o \in Seq(Nat) :
        q.received = r /\ q.values = v /\ q.offers = o
  BY DEF Queues
<1>2. Len(r) \in Nat /\ Len(v) \in Nat /\ Len(o) \in Nat
  BY LenProperties
<1>3. NextOf(q, f) = f + Len(r) + Len(v) + Len(o)
  BY <1>1 DEF NextOf, Following
<1> QED
  BY <1>2, <1>3

\* A subscription that is left alone, while messages may be published.
LEMMA LeftAlone ==
  ASSUME NEW s \in Subscriptions, PubSubInv, Published(s), queue'[s] = queue[s],
         first'[s] = first[s], published' \in {published, published + 1}
  PROVE  Published(s)'
<1>1. published \in Nat
  BY DEF PubSubInv, HistoryKept
<1>2. ASSUME first[s] # 0 PROVE NextOf(queue[s], first[s]) \in Nat
  <2>1. first[s] \in Nat /\ queue[s] \in Queues
    BY <1>2 DEF PubSubInv, HearsInOrder, InOrder
  <2> QED
    BY <2>1, NextKnown
<1> QED
  BY <1>1, <1>2 DEF Published, NextOf

\* Each step gives a subscription only what has been published.
LEMMA PublishedStep ==
  ASSUME PubSubInv, \A s \in Subscriptions : Published(s), [PubSubNext]_pubSubVars
  PROVE  \A s \in Subscriptions : Published(s)'
<1>1. ASSUME NEW s \in Subscriptions, first[s] # 0
      PROVE  /\ first[s] \in Nat /\ InOrder(queue[s], first[s])
             /\ NextOf(queue[s], first[s]) \in Nat /\ published \in Nat
             /\ queue[s].open => NextOf(queue[s], first[s]) = published + 1
             /\ queue[s].open <=> s \in subscribers
  <2>1. /\ first[s] \in Nat /\ InOrder(queue[s], first[s]) /\ published \in Nat
        /\ queue[s].open => NextOf(queue[s], first[s]) = published + 1
        /\ queue[s].open <=> s \in subscribers
    BY <1>1 DEF PubSubInv, HearsInOrder, HistoryKept
  <2> QED
    BY <2>1, NextKnown DEF InOrder
<1>2. \A s \in subscribers : s \in Subscriptions /\ first[s] # 0
  BY DEF PubSubInv, HearsInOrder
<1>3. ASSUME NEW s \in Subscriptions, first[s] # 0, queue'[s] = CloseQueue(queue[s]),
             first' = first, published' = published
      PROVE  Published(s)'
  <2>1. /\ InOrder(CloseQueue(queue[s]), first[s])
        /\ NextOf(CloseQueue(queue[s]), first[s]) <= NextOf(queue[s], first[s])
    BY <1>1, <1>3, CloseKeepsOrder
  <2>2. NextOf(CloseQueue(queue[s]), first[s]) \in Nat
    BY <1>1, <1>3, <2>1, NextKnown DEF InOrder
  <2> QED
    BY <1>1, <1>3, <2>1, <2>2 DEF Published, NextOf
<1>4. CASE Publish
  <2>1. ASSUME NEW s \in subscribers PROVE Published(s)'
    <3>1. queue'[s] = Offer(queue[s], NextOf(queue[s], first[s])) /\ published' = published + 1
          /\ first' = first
      BY <1>1, <1>2, <1>4 DEF Publish
    <3>2. NextOf(queue'[s], first[s]) = NextOf(queue[s], first[s]) + 1
      BY <1>1, <1>2, <3>1, OfferKeepsOrder
    <3> QED
      BY <1>1, <1>2, <3>1, <3>2 DEF Published, NextOf
  <2>2. ASSUME NEW s \in Subscriptions \ subscribers PROVE Published(s)'
    BY <1>4, LeftAlone DEF Publish
  <2> QED
    BY <2>1, <2>2
<1>5. ASSUME NEW s \in Subscriptions, Subscribe(s) \/ NextMessage(s) \/ Unsubscribe(s)
      PROVE  \A d \in Subscriptions : Published(d)'
  <2>1. ASSUME NEW d \in Subscriptions \ {s} PROVE Published(d)'
    <3>1. queue'[d] = queue[d] /\ first'[d] = first[d] /\ published' = published
      BY <1>5 DEF Subscribe, NextMessage, Unsubscribe, PubSubInv
    <3> QED
      BY <3>1, LeftAlone
  <2>2. CASE Subscribe(s)
    <3> DEFINE f == published - Len(history) + 1
    <3>1. /\ f \in Nat \ {0} /\ f = Max({1, published + 1 - Replay})
          /\ InOrder(Replayed, f) /\ NextOf(Replayed, f) = published + 1 /\ published \in Nat
      BY ReplayedInOrder DEF PubSubInv, HistoryKept
    <3> HIDE DEF f
    <3>2. /\ first'[s] = f /\ published' = published
          /\ queue'[s] = IF closed THEN CloseQueue(Replayed) ELSE Replayed
      BY <2>2, <3>1 DEF Subscribe, PubSubInv
    <3>3. NextOf(CloseQueue(Replayed), f) <= published + 1
      BY <3>1, CloseKeepsOrder
    <3> QED
      BY <2>1, <3>1, <3>2, <3>3 DEF Published, NextOf
  <2>3. CASE NextMessage(s)
    <3>1. /\ queue'[s] = Take(queue[s]) /\ first[s] # 0 /\ ~queue[s].taking
          /\ first' = first /\ published' = published
      BY <2>3 DEF NextMessage, PubSubInv
    <3>2. NextOf(queue'[s], first[s]) = NextOf(queue[s], first[s])
      BY <1>1, <3>1, TakeKeepsOrder
    <3> QED
      BY <2>1, <3>1, <3>2 DEF Published, NextOf
  <2>4. CASE Unsubscribe(s)
    <3>1. /\ queue'[s] = CloseQueue(queue[s]) /\ first[s] # 0
          /\ first' = first /\ published' = published
      BY <2>4 DEF Unsubscribe, PubSubInv
    <3> QED
      BY <1>3, <2>1, <3>1
  <2> QED
    BY <1>5, <2>2, <2>3, <2>4
<1>6. CASE Close
  <2>1. ASSUME NEW s \in subscribers PROVE Published(s)'
    BY <1>2, <1>3, <1>6 DEF Close
  <2>2. ASSUME NEW s \in Subscriptions \ subscribers PROVE Published(s)'
    BY <1>6, LeftAlone DEF Close
  <2> QED
    BY <2>1, <2>2
<1>7. CASE UNCHANGED pubSubVars
  BY <1>7, LeftAlone DEF pubSubVars
<1> QED
  BY <1>4, <1>5, <1>6, <1>7 DEF PubSubNext

\* A run of messages up to a bound.
LEMMA RunWithin ==
  ASSUME NEW r \in Seq(Nat), NEW f \in Nat \ {0}, NEW m \in Nat, Run(r, f), f + Len(r) <= m + 1
  PROVE  r \in Seq(1 .. m)
<1>1. Len(r) \in Nat /\ r = [i \in 1 .. Len(r) |-> r[i]]
  BY LenProperties
<1>2. \A i \in 1 .. Len(r) : r[i] \in 1 .. m
  BY <1>1 DEF Run
<1> QED
  BY <1>1, <1>2, IsASeq

\* Also a subscription that is closed has heard, and holds, only messages that
\* were published, and the hub keeps no more of them than it may
\* (src/pubsub.ts:73-104).
THEOREM NothingUnpublished == PubSubSpec => []PubSubTypeOK
<1> DEFINE Bounded == /\ published <= MaxPublished /\ closed \in BOOLEAN
                      /\ first \in [Subscriptions -> Nat]
           Inv2 == PubSubInv /\ (\A s \in Subscriptions : Published(s)) /\ Bounded
<1>1. PubSubInit => Inv2
  <2> SUFFICES ASSUME PubSubInit PROVE Inv2
    OBVIOUS
  <2>1. \A s \in Subscriptions : Published(s)
    BY DEF PubSubInit, Published
  <2>2. Bounded
    <3>1. published = 0 /\ closed = FALSE /\ first = [s \in Subscriptions |-> 0]
      BY DEF PubSubInit
    <3>2. MaxPublished \in Nat
      BY PubSubAssumption
    <3>3. 0 <= MaxPublished
      BY <3>2
    <3>4. first \in [Subscriptions -> Nat]
      BY <3>1
    <3> QED
      BY <3>1, <3>3, <3>4
  <2> QED
    BY <2>1, <2>2, PubSubInitInv
<1>2. Inv2 /\ [PubSubNext]_pubSubVars => Inv2'
  <2> SUFFICES ASSUME Inv2, [PubSubNext]_pubSubVars PROVE Inv2'
    OBVIOUS
  <2>1. PubSubInv' /\ \A s \in Subscriptions : Published(s)'
    BY PubSubStep, PublishedStep
  <2>2. published' <= MaxPublished /\ closed' \in BOOLEAN
    <3>1. CASE Publish
      BY <3>1, PubSubAssumption DEF Publish, PubSubInv, HistoryKept
    <3>2. CASE UNCHANGED published /\ closed' \in {closed, TRUE}
      BY <3>2
    <3> QED
      BY <3>1, <3>2 DEF PubSubNext, pubSubVars, Subscribe, NextMessage, Unsubscribe, Close
  <2>3. first' \in [Subscriptions -> Nat]
    <3>1. \A s \in Subscriptions : first'[s] \in Nat
      BY <2>1 DEF PubSubInv, HearsInOrder
    <3>2. ASSUME NEW s \in Subscriptions, Subscribe(s)
          PROVE  first' = [d \in Subscriptions |-> first'[d]]
      BY <3>2 DEF Subscribe
    <3>3. CASE UNCHANGED first
      BY <3>3
    <3> QED
      BY <3>1, <3>2, <3>3 DEF PubSubNext, pubSubVars, Publish, NextMessage, Unsubscribe, Close
  <2> QED
    BY <2>1, <2>2, <2>3
<1>3. Inv2 => PubSubTypeOK
  <2> SUFFICES ASSUME Inv2 PROVE PubSubTypeOK
    OBVIOUS
  <2>1. published \in 0 .. MaxPublished /\ Replay \in Nat
    BY PubSubAssumption DEF PubSubInv, HistoryKept
  <2>2. history \in Seq(1 .. published) /\ Len(history) <= Replay
    <3> DEFINE f == published - Len(history) + 1
    <3>1. /\ history \in Seq(Nat) /\ Len(history) \in Nat /\ Len(history) <= published
          /\ Len(history) <= Replay /\ Run(history, f) /\ published \in Nat
      BY <2>1, LenProperties DEF PubSubInv, HistoryKept
    <3>2. f \in Nat \ {0} /\ f + Len(history) <= published + 1
      BY <3>1
    <3> HIDE DEF f
    <3> QED
      BY <3>1, <3>2, RunWithin
  <2>3. ASSUME NEW s \in Subscriptions
        PROVE  /\ first[s] \in 0 .. published + 1
               /\ {queue[s].open, queue[s].taking} \subseteq BOOLEAN
               /\ {queue[s].values, queue[s].offers, queue[s].received} \subseteq Seq(1 .. published)
    <3>1. CASE first[s] = 0
      <4>1. queue[s] = [open |-> TRUE, values |-> <<>>, offers |-> <<>>, taking |-> FALSE,
                        received |-> <<>>]
        BY <3>1 DEF Published, EmptyQueue
      <4>2. <<>> \in Seq(1 .. published)
        BY EmptySeq
      <4> QED
        BY <2>1, <3>1, <4>1, <4>2
    <3>2. CASE first[s] # 0
      <4> DEFINE f == first[s]
      <4>1. /\ f \in Nat \ {0} /\ InOrder(queue[s], f) /\ published \in Nat
            /\ NextOf(queue[s], f) <= published + 1
        BY <2>1, <3>2 DEF Published, PubSubInv, HearsInOrder
      <4> HIDE DEF f
      <4>2. PICK r \in Seq(Nat), v \in Seq(Nat), o \in Seq(Nat) :
              queue[s].received = r /\ queue[s].values = v /\ queue[s].offers = o
        BY <4>1 DEF InOrder, Queues
      <4>3. /\ Run(r, f) /\ Run(v, f + Len(r)) /\ Run(o, f + Len(r) + Len(v))
            /\ f + Len(r) + Len(v) + Len(o) <= published + 1
        BY <4>1, <4>2 DEF InOrder, Consecutive, NextOf, Following
      <4>4. Len(r) \in Nat /\ Len(v) \in Nat /\ Len(o) \in Nat
        BY LenProperties
      <4>5. /\ f + Len(r) \in Nat \ {0} /\ f + Len(r) + Len(v) \in Nat \ {0}
            /\ f + Len(r) <= published + 1 /\ f + Len(r) + Len(v) <= published + 1
            /\ f <= published + 1
        BY <4>1, <4>3, <4>4
      <4>6. r \in Seq(1 .. published)
        BY <4>1, <4>3, <4>5, RunWithin
      <4>7. v \in Seq(1 .. published)
        BY <4>1, <4>3, <4>5, RunWithin
      <4>8. o \in Seq(1 .. published)
        BY <4>1, <4>3, <4>5, RunWithin
      <4>9. queue[s].open \in BOOLEAN /\ queue[s].taking \in BOOLEAN
        BY <4>1 DEF InOrder, Queues
      <4> QED
        BY <4>1, <4>2, <4>5, <4>6, <4>7, <4>8, <4>9 DEF f
    <3> QED
      BY <3>1, <3>2
  <2>4. first \in [Subscriptions -> 0 .. published + 1]
    BY <2>3
  <2> QED
    BY <2>1, <2>2, <2>3, <2>4 DEF PubSubInv, PubSubTypeOK
<1> QED
  BY <1>1, <1>2, <1>3, PTL DEF PubSubSpec
=============================================================================
