-------------------------------- MODULE Ipc --------------------------------
(***************************************************************************)
(* The calls of src/ipc.ts between renderers and the main process, over    *)
(* one channel: requests that a renderer may cancel through a side channel *)
(* (createAbortableIpcRenderer, createAbortableIpcMain), and plain ones    *)
(* (createIpcRenderer).  Electron keeps the messages of one renderer in    *)
(* order; it returns answers in any order.  A renderer is one load of a    *)
(* page, since the counter behind its request ids starts at 0 again when   *)
(* the page is loaded anew.                                                *)
(***************************************************************************)
EXTENDS Naturals, Sequences

CONSTANTS
  Calls,
  Renderers,
  RendererOf,      \* the renderer that makes each call
  Signalled,       \* calls with a signal: invokeWithSignal()
  Plain,           \* calls through createIpcRenderer()
  MaxRegistrations \* how often the main process calls handle()

ASSUME IpcAssumption ==
  /\ RendererOf \in [Calls -> Renderers]
  /\ Signalled \subseteq Calls /\ Plain \subseteq Calls \ Signalled
  /\ MaxRegistrations \in Nat \ {0}

VARIABLES
  aborted,      \* calls whose signal has fired
  counter,      \* nextAbortableRequestId of each renderer
  id,           \* the requestId of each call
  outcome,      \* what the promise of each call is settled with
  pipe,         \* messages under way from each renderer
  registration, \* the number of the last handle()
  registered,   \* whether its handlers are still there
  displaced,    \* registrations whose table activeRequests has lost
  table,        \* channelRequests of that registration, as entries
  served,       \* the main process's side of each call
  servedBy,     \* the registration whose handler was called
  reason,       \* why the controller of the call was aborted
  answers       \* answers under way to the renderers

renderVars == <<counter, id, outcome, aborted>>
mainVars == <<registration, registered, displaced, table, served, servedBy, reason>>
vars == <<renderVars, pipe, mainVars, answers>>

Request(c, i) == [type |-> "request", call |-> c, id |-> i]
Cancel(i) == [type |-> "cancel", id |-> i]
Entry(c, i) == [id |-> i, call |-> c]

Init ==
  /\ aborted = {}
  /\ counter = [r \in Renderers |-> 0]
  /\ id = [c \in Calls |-> 0]
  /\ outcome = [c \in Calls |-> "idle"]
  /\ pipe = [r \in Renderers |-> <<>>]
  /\ registration = 1 /\ registered = TRUE /\ displaced = {} /\ table = {}
  /\ served = [c \in Calls |-> "no"]
  /\ servedBy = [c \in Calls |-> 0]
  /\ reason = [c \in Calls |-> "none"]
  /\ answers = {}

-----------------------------------------------------------------------------
(* The renderer *)

Send(r, msg) == pipe' = [pipe EXCEPT ![r] = Append(@, msg)]
SettleCall(c, result) == outcome' = [outcome EXCEPT ![c] = result]

\* createAbortableRequestId
FreshId(r) == counter' = [counter EXCEPT ![r] = @ + 1]

\* A call whose signal has fired sends nothing; any other sends its request
\* and waits, with a listener on the signal if it has one.
Invoke(c) ==
  /\ outcome[c] = "idle"
  /\ \/ /\ c \in aborted
        /\ SettleCall(c, "aborted") /\ UNCHANGED <<counter, id, pipe>>
     \/ /\ c \notin aborted \cup Plain
        /\ FreshId(RendererOf[c])
        /\ id' = [id EXCEPT ![c] = counter'[RendererOf[c]]]
        /\ Send(RendererOf[c], Request(c, id'[c]))
        /\ SettleCall(c, "waiting")
     \/ /\ c \in Plain
        /\ Send(RendererOf[c], Request(c, 0))
        /\ SettleCall(c, "waiting") /\ UNCHANGED <<counter, id>>
  /\ UNCHANGED <<aborted, mainVars, answers>>

\* Erroneous variant: the caller is answered and the main process is not told.
OnAbortUntold(c) == SettleCall(c, "aborted") /\ UNCHANGED pipe

\* onAbort: the caller is answered at once, the main process is told.
OnAbort(c) == SettleCall(c, "aborted") /\ Send(RendererOf[c], Cancel(id[c]))

\* The signal fires.
Abort(c) ==
  /\ c \in Signalled \ aborted
  /\ aborted' = aborted \cup {c}
  /\ \/ outcome[c] = "waiting" /\ OnAbort(c)
     \/ outcome[c] # "waiting" /\ UNCHANGED <<outcome, pipe>>
  /\ UNCHANGED <<counter, id, mainVars, answers>>

\* Erroneous variant: a rejection of the request is not passed on.
ReceiveAnswerOnly(a) ==
  /\ a \in answers
  /\ answers' = answers \ {a}
  /\ \/ outcome[a.call] = "waiting" /\ a.result # "rejected" /\ SettleCall(a.call, a.result)
     \/ ~(outcome[a.call] = "waiting" /\ a.result # "rejected") /\ UNCHANGED outcome
  /\ UNCHANGED <<counter, id, aborted, pipe, mainVars>>

\* An answer arrives: deserializeIpcResult() of what the handler returned, or
\* a rejection.  A call that has been aborted meanwhile ignores it.
ReceiveAnswer(a) ==
  /\ a \in answers
  /\ answers' = answers \ {a}
  /\ \/ outcome[a.call] = "waiting" /\ SettleCall(a.call, a.result)
     \/ outcome[a.call] # "waiting" /\ UNCHANGED outcome
  /\ UNCHANGED <<counter, id, aborted, pipe, mainVars>>

-----------------------------------------------------------------------------
(* The main process *)

Answer(c, result) == answers' = answers \cup {[call |-> c, result |-> result]}

\* channelRequests.set, channelRequests.delete
SetEntry(c, i) == table' = {e \in table : e.id # i} \cup {Entry(c, i)}

\* Erroneous variant: the entry stays.
DeleteNothing(i) == UNCHANGED table

DeleteEntry(i) == table' = {e \in table : e.id # i}

\* A request reaches a handler, which gets a controller under the id of the
\* request; without a handler, and for a payload without an id, it is over.
ServeRequest(msg) ==
  LET c == msg.call IN
  \/ /\ registered /\ msg.id # 0
     /\ SetEntry(c, msg.id)
     /\ served' = [served EXCEPT ![c] = "running"]
     /\ servedBy' = [servedBy EXCEPT ![c] = registration]
     /\ UNCHANGED answers
  \/ /\ ~registered \/ msg.id = 0
     /\ served' = [served EXCEPT ![c] = "answered"]
     /\ Answer(c, IF registered THEN "error" ELSE "rejected")
     /\ UNCHANGED <<table, servedBy>>

ReceiveRequest(r) ==
  /\ pipe[r] # <<>> /\ Head(pipe[r]).type = "request"
  /\ pipe' = [pipe EXCEPT ![r] = Tail(@)]
  /\ ServeRequest(Head(pipe[r]))
  /\ UNCHANGED <<renderVars, registration, registered, displaced, reason>>

\* The controllers of some entries abort; the first reason stays.
AbortEntries(entries, why) ==
  reason' = [c \in Calls |->
    IF reason[c] = "none" /\ \E e \in entries : e.call = c THEN why ELSE reason[c]]

\* Erroneous variant: a cancel without a match aborts everything.
CanceledOrAll(i) ==
  IF \E e \in table : e.id = i THEN {e \in table : e.id = i} ELSE table

\* channelRequests.get(payload.requestId)
Canceled(i) == {e \in table : e.id = i}

\* A cancel finds the request under its id, or nothing.
ReceiveCancel(r) ==
  /\ pipe[r] # <<>> /\ Head(pipe[r]).type = "cancel"
  /\ pipe' = [pipe EXCEPT ![r] = Tail(@)]
  /\ \/ registered /\ AbortEntries(Canceled(Head(pipe[r]).id), "canceled")
     \/ ~registered /\ UNCHANGED reason
  /\ UNCHANGED <<renderVars, registration, registered, displaced, table, served, servedBy, answers>>

\* The handler returns a value or an error, or throws, whether it heeds its
\* signal or not.  Its finally deletes what is under the id in the table of
\* the registration it belongs to.
HandlerSettles(c) ==
  /\ served[c] = "running"
  /\ served' = [served EXCEPT ![c] = "answered"]
  /\ Answer(c, "value") \/ Answer(c, "error")
  /\ \/ servedBy[c] = registration /\ DeleteEntry(id[c])
     \/ servedBy[c] # registration /\ UNCHANGED table
  /\ UNCHANGED <<renderVars, pipe, registration, registered, displaced, servedBy, reason>>

\* removeHandler() aborts what activeRequests holds: the table of the
\* registration, or the empty one of a handle() that threw.
RemoveHandler ==
  /\ registered
  /\ registered' = FALSE
  /\ \/ /\ registration \notin displaced
        /\ AbortEntries(table, "removed")
        /\ table' = {}
     \/ registration \in displaced /\ UNCHANGED <<table, reason>>
  /\ UNCHANGED <<renderVars, pipe, registration, displaced, served, servedBy, answers>>

\* handle() puts a new table into activeRequests before it asks Electron,
\* which has one handler per channel and throws if there is one: the handlers
\* then go on with the table they have.
HandleAnew ==
  /\ ~registered /\ registration < MaxRegistrations
  /\ registered' = TRUE /\ registration' = registration + 1 /\ table' = {}
  /\ UNCHANGED displaced

HandleThrows ==
  /\ registered
  /\ displaced' = displaced \cup {registration}
  /\ UNCHANGED <<registered, registration, table>>

Handle ==
  /\ HandleAnew \/ HandleThrows
  /\ UNCHANGED <<renderVars, pipe, served, servedBy, reason, answers>>

Receive(r) == ReceiveRequest(r) \/ ReceiveCancel(r)

Next ==
  \/ \E c \in Calls : Invoke(c) \/ Abort(c) \/ HandlerSettles(c)
  \/ \E r \in Renderers : Receive(r)
  \/ \E a \in answers : ReceiveAnswer(a)
  \/ RemoveHandler \/ Handle

Spec == Init /\ [][Next]_vars

\* Electron delivers messages and answers, and handlers settle.
FairSpec ==
  /\ Spec
  /\ \A r \in Renderers : WF_vars(Receive(r))
  /\ \A c \in Calls :
       /\ WF_vars(HandlerSettles(c))
       /\ WF_vars(\E a \in answers : a.call = c /\ ReceiveAnswer(a))

-----------------------------------------------------------------------------
TypeOK ==
  /\ aborted \subseteq Signalled
  /\ counter \in [Renderers -> Nat]
  /\ id \in [Calls -> Nat]
  /\ outcome \in [Calls -> {"idle", "waiting", "value", "error", "rejected", "aborted"}]
  /\ pipe \in [Renderers -> Seq([type : {"request"}, call : Calls, id : Nat]
                                 \cup [type : {"cancel"}, id : Nat])]
  /\ registration \in 1 .. MaxRegistrations /\ registered \in BOOLEAN
  /\ displaced \subseteq 1 .. MaxRegistrations
  /\ table \subseteq [id : Nat, call : Calls]
  /\ served \in [Calls -> {"no", "running", "answered"}]
  /\ servedBy \in [Calls -> 0 .. MaxRegistrations]
  /\ reason \in [Calls -> {"none", "canceled", "removed"}]
  /\ answers \subseteq [call : Calls, result : {"value", "error", "rejected"}]

Underway(c) ==
  \E i \in DOMAIN pipe[RendererOf[c]] : pipe[RendererOf[c]][i] = Cancel(id[c])
Told(c) == reason[c] # "none" \/ Underway(c)
Present(c) == served[c] = "running" /\ servedBy[c] = registration /\ registered
Kept == registered \/ registration \in displaced

\* "If the signal aborts, the renderer resolves immediately with an abort
\* tuple and notifies the main process to abort the in-flight request"
\* (src/ipc.ts:477-481): a handler that still runs for a caller that gave up
\* has been aborted, or the cancel that will do so is under way.  A handle()
\* that throws is enough to refute it (MCIpcHandle.cfg).
AbortReachesHandler ==
  \A c \in Calls : outcome[c] = "aborted" /\ served[c] = "running" => Told(c)

\* The same for the requests of the registration that stands, whose cancels
\* find a handler (src/ipc.ts:441-454).  Two renderers refute that as well.
AbortReachesPresent == \A c \in Calls : outcome[c] = "aborted" /\ Present(c) => Told(c)

\* Nothing runs in vain without being told so: neither for a caller that gave
\* up nor under a handler that was removed (src/ipc.ts:457-473), whatever
\* registration came after it, unless a second handle() had put an empty
\* table where removeHandler() looks for the one of the registration
\* (src/ipc.ts:403-404, 460).
NoWorkInVain ==
  /\ AbortReachesPresent
  /\ \A c \in Calls : served[c] = "running" /\ reason[c] = "none" =>
       Present(c) \/ servedBy[c] \in displaced

\* A handler is told that its request was canceled only if its own caller gave
\* up: a cancel that comes late, or after another registration has taken over
\* the channel, aborts nobody else (src/ipc.ts:441-454).
CancelHitsOwn == \A c \in Calls : reason[c] = "canceled" => outcome[c] = "aborted"

\* The table of the last registration has an entry for exactly the requests
\* its handler is working on: no controller is left behind or lost
\* (src/ipc.ts:421-437).  Only a removeHandler() that finds it empties it
\* before they end.
TableExact ==
  \A c \in Calls :
    Entry(c, id[c]) \in table <=> served[c] = "running" /\ servedBy[c] = registration /\ Kept

\* Every call is settled, by its answer, its rejection or its signal, also
\* when the handler is removed before the request arrives or while it is
\* worked on (src/ipc.ts:513-550).
CallsSettle == \A c \in Calls : outcome[c] = "waiting" ~> outcome[c] # "waiting"
=============================================================================
