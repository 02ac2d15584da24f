# A TLA+ verification of yieldless

yieldless is a TypeScript library of small concurrency primitives: promises of
`[error, value]` tuples, `AbortSignal` for cancellation, and no runtime of its
own. This directory models those primitives in TLA+, checks small instances
with TLC, and proves every safety property those checks are about for every
instance with TLAPS. Line numbers below refer to the repository's `src/` and `docs/`.

Contents

1. [The system](#1-the-system)
2. [How the code becomes a model](#2-how-the-code-becomes-a-model)
3. [Modules](#3-modules)
4. [Runs](#4-runs)
5. [Fairness](#5-fairness)
6. [Proofs](#6-proofs)
7. [Disagreements between documentation and code](#7-disagreements-between-documentation-and-code)
8. [Observations](#8-observations)
9. [What is not modelled](#9-what-is-not-modelled)
10. [Plan](#10-plan)

## 1. The system

Every primitive is a factory that closes over a few mutable variables, or a
single `async` function. JavaScript runs one callback at a time, so a method is
atomic up to its first `await`; everything interesting happens between two
callbacks: a caller, a timer, an abort listener, the settlement of a promise.

| Component | State | Operations | What must be right |
|---|---|---|---|
| Bounded queue (`queue.ts`) | `values`, `offerWaiters`, `takeWaiters`, `closed` | `offer`, `take`, `clear`, `drain`, `close`, `for await`, abort of either call | first in first out over buffer and pending offers; nothing lost or delivered twice; no lost wakeup; everybody who waits is answered on close |
| Semaphore (`limiter.ts`) | `available`, `waiters` | `acquire`, `tryAcquire`, `release`, `withPermit`, abort | permits conserved, none idle while somebody waits, first come first served |
| Rate limiter (`limiter.ts`) | `windowStart`, `usedInWindow`, timers | `take`, `takeSafe`, `clear`, abort | at most `limit` slots in an interval, also for reservations ahead of time and when the wall clock jumps |
| Single flight (`singleflight.ts`) | map of flights by key | `run`, `clear`, `clearAll`, abort by the starter | one operation per key, nobody joins a flight that is over |
| Cache (`cache.ts`) | `entries` in order of use, a single flight | `get`, `refresh`, `has`, `delete`, `clear` | shared loads, fresh hits, least-recently-used eviction, a deletion that lasts |
| Publish/subscribe (`pubsub.ts`) | `history`, subscribers with a queue each | `publish`, `subscribe`, `next`, `close` | replay and live messages meet without a gap; every subscriber hears everything |
| Circuit breaker (`breaker.ts`) | `state`, two counters, `openedAt` | `run`, `reset` | the counters belong to the state though results come late; recovery |
| Retry, polling, schedules (`retry.ts`, `timer.ts`, `schedule.ts`) | attempt number, a sleep with a timer and an abort listener | `safeRetry`, `poll`, `runScheduled`, `sleep`; the policies and `composeSchedules` | no attempt after the abort, no more of them and no other delays than the options allow, the loop ends |
| Task group (`task.ts`) | set of tasks, first failure, controller | `spawn`, the body, upstream abort | leaves with its first failure and after every child |
| Parallel combinators (`all.ts`) | settled results, next index, controller | `all`, `mapLimit`, `race` | bounded parallelism, an honest result, nothing started after the first failure |
| Batcher (`batcher.ts`) | `pending`, a timer, batches under way | `load`, flush, `clear`, abort | answers matched to loads, nobody forgotten |
| Async iteration (`iterable.ts`) | an iterator, the set of running mappers | `collect`, `forEach`, `mapAsyncLimit` | no mapper left running by a call that resolves, the source closed, no work after the cut |
| Abortable IPC (`ipc.ts`) | a counter of request ids per renderer, a table of active requests in the main process | `invoke`, `invokeWithSignal`, cancel, `handle`, `removeHandler` | a cancel reaches its own request and no other; the table is exact; every call is answered |
| Timeout signals (`signal.ts`), fetch (`fetch.ts`) | a controller, a timer, a listener on the parent signal | `createTimeoutSignal`, `abort`, dispose, `withTimeout`, `fetchSafe` | fires once, in the step of its cause; no timer or listener survives |
| Events (`event.ts`) | the listeners of one wait | `onceEvent` | one settlement, all listeners gone with it where the source can take them off |
| Resources (`resource.ts`) | a released flag | `acquireResource`, dispose | released once, on every way out |
| Processes (`node.ts`) | a child, its controller, a timer, captured output | `runCommand` | one outcome that fits what happened; no child, timer or listener survives |
| `error.ts`, `result.ts`, `env.ts`, `schema.ts`, `router.ts`, `di.ts`, `context.ts`, `index.ts` | none | conversions and adapters | pure |
| `test.ts` | a manual clock | `advance` | for tests only |

The components interact in five ways, and each of the five is modelled.

* **Calls.** The hub of `pubsub.ts` is built of the queues of `queue.ts`, and
  `cache.ts` of `singleflight.ts`; `PubSub` and `Cache` contain both.
* **A shared signal.** A task group hands its signal to its children, and a
  parallel call the one of its caller to its items. `Tasks` composes the two.
  `withTimeout` hands one to whatever runs under it. `Deadline` composes it with
  a resource and with a command, a wait, a fetch or an iteration.
* **Messages.** Renderers and the main process share nothing but the two
  streams of messages between them (`Ipc`).
* **A shared primitive.** Retry loops meet in a circuit breaker
  (`Resilience`); clients pass a rate limiter and then a semaphore (`Limiter`,
  the composition README.md:386 shows).
* **Callbacks.** Loaders, mappers, operations, hooks and observers are the
  caller's. They may succeed, fail, throw, heed their signal or not, and
  finish whenever they like.

What is hard here, and hardly reached by a test, is listed in `PROJECT.json`
under `hazards`, each at its line with the properties that would catch it.

## 2. How the code becomes a model

* **One action is one callback**: a synchronous call, an abort listener, a
  timer, or the continuation of an `await`, with everything it does to the
  state. Where the code awaits, the action ends. Two consecutive microtasks
  are one step only where nothing can tell them apart; the module says so
  where that is done.
* **A call is a constant.** Where calls are told apart (offers, takes, loads,
  flights, subscriptions) they are members of a set and made at most once;
  where clients come back (limiter, retry loops) they are reused. An item or a
  key is named by the call that brings it, so a wrong delivery shows.
* **Signals.** A client has a signal if it is in `AbortableClients` (or
  `Signalled`). Firing it and running the library's listeners is one step, as
  `dispatchEvent` is synchronous. One signal for several calls is a sequence
  of such steps.
* **The user's functions** are nondeterministic in their outcome and their
  time. They settle in the liveness properties and only there.
* **Time** counts ticks up to a bound, or only what the code can see of it (in
  the breaker, the time since `openedAt` up to the cooldown). A timer fires at
  or after its time, in any order with other callbacks. The rate limiter's
  clock may also be set back, as `Date.now()` may.
* **Erroneous variants.** A definition whose comment starts with "Erroneous
  variant" is not part of a model. It is a plausible bug in the definition
  that follows it; putting it in its place makes TLC report the property
  `PROJECT.json` pairs it with, which shows that the property sees that bug.

## 3. Modules

`WaitingLine` (a line of waiters, the abort of one of them) and `Signals`
(signals of clients) are shared. Variables and actions have the names of the
code's where TLA+ allows it; `PROJECT.json` maps each definition to its lines.

| Module | Models | State and actions |
|---|---|---|
| `Channel` | nothing of the code: a first-in first-out channel that keeps what it has acknowledged. It is what the queue keeps to, also after `close`, where its documentation says otherwise (section 7) | messages acknowledged or not, receivers that wait; `Send`, `Receive`, `Withdraw`, `Discard`, `Close` |
| `Queue` | `queue.ts` | `Offer` and `Take` with one disjunct per outcome, `FlushOffers` (`flushOffers`), `Abort` (both `onAbort`s), `Clear` (also `drain`), `Close`, `IteratorResumes` for the loop body of `for await` |
| `Semaphore` | `createSemaphore`, `withPermit` | `Acquire`, `TryAcquire`, `Release`, `ReleaseAgain`, `AbortAcquire` |
| `RateLimiter` | `createRateLimiter` | `Take` with `ReserveSlot`, `TimerFires`, `AbortTake`, `ClearTakes`, `Tick`, `ClockSetBack` |
| `Limiter` | a client in front of both, one signal for the two | `Pace` then `Enter`, `Leave`; `Abort` runs both listeners |
| `SingleFlight` | `singleflight.ts` | a flight is unused, scheduled, running or settled, since its operation starts and its `finally` runs in microtasks of their own: `Start`/`Join`, `Begin`, `OperationSettles`, `Finally`, `Clear`, `ClearAll`, `ParentAborts` |
| `Cache` | `cache.ts` over `SingleFlight` | `entries` is the `Map` in its order, `usedBefore` a history of which key was last used before which; `Get`, `Refresh`, `Has`, `LoadSettles` with `Store`, `Delete`, `ClearCache`, `StarterAborts`, `Tick` |
| `PubSub` | `pubsub.ts` | a queue per subscription; `Publish` with `Remember` and one `Offer` per queue, `Subscribe` with replay, `NextMessage`, `Unsubscribe`, `Close` |
| `Breaker` | `breaker.ts` | `Admit`/`Reject`, `Succeed`, `Fail`, `Open`, `CloseBreaker`, `Tick` |
| `Schedule` | the policies of `schedule.ts`, the delays of `retry.ts` | `ComputeDelay`, `RuleContinues`, `RuleDelays`, `PolicyContinues`, `PolicyDelays`: operators on records of options, without state. A delay that jitter leaves open is a set |
| `Retry` | `safeRetry`, `poll`, `runScheduled`, `sleep` | a phase per loop: attempt, hook, pause, sleep; `Abort` in each |
| `Resilience` | loops of `Retry` through one `Breaker` | an attempt is admitted, denied, or finds an `onStateChange` that throws; the dependency goes down and comes up |
| `TaskGroup` | `task.ts` | `Enter`, `Spawn`, `ChildBegins`, `ChildReturns`, `ChildThrows`, `BodyReturns`, `BodyThrows`, `ParentAborts`, `LeaveGroup` |
| `Parallel` | `all.ts` | `Call`, `WorkerTakes`, `ItemSucceeds`, `ItemFails`, `Return`; `kind` says which combinator |
| `Tasks` | a group one of whose children makes a parallel call | the group's abort is the parent signal of the call |
| `Batcher` | `batcher.ts` | `Load`, `TimerFires`, `BatchSettles`, `Abort`, `ClearBatcher` |
| `Iteration` | `iterable.ts` | `reader` is what the call awaits; `Read`, `Yield`, `End`, `Throw`, `Race`, `MapperBegins`, `MapperSettles`, `WorkerSettles`, `Conclude`, `CloseResolves`, `CloseThrows`, `Settle` |
| `TimeoutSignal` | `createTimeoutSignal` of `signal.ts` | two signals, one derived from the other: `CreateTimeoutSignal`, `AbortSignal`, `TimeoutFires`, `CallerAborts`, `Dispose` |
| `OnceEvent` | `event.ts` | `OnceEvent` registers what `SettleEvent` removes, unless the source is an emitter with neither `off` nor `removeListener` (`removable`); `EventArrives`, `ErrorArrives`, `EventAbort` |
| `Resource` | `resource.ts` | `Acquire`, `AcquireSucceeds`, `AcquireFails`, `DisposeResource`, `ReleaseSettles` |
| `Command` | `runCommand` of `node.ts` | `RunCommand`, `Output` with `AppendOutput` (`appendOutput`) or a callback that throws, `CommandTimeout`, `CommandAbort`, `ChildExits`, `ChildCloses`; the child itself is Node's, as the code relies on it |
| `Deadline` | `withTimeout` around a resource and one of the four kinds of work above, and `fetchSafe` | `Begin`, `Acquired`, `NotAcquired`, `DisposesEarly`, `ScopeEnds`, `Released`, `TimeoutOrAbort`: firing the signal runs the listeners of every layer in one step |
| `Ipc` | `ipc.ts` | a pipe per renderer, one table; `Invoke`, `Abort`, `ReceiveAnswer` in the renderer, `ReceiveRequest`, `ReceiveCancel`, `HandlerSettles`, `RemoveHandler`, `Handle` in the main process. `Handle` is accepted by Electron (`HandleAnew`) or throws for a channel that has a handler (`HandleThrows`), when it has already put another table into `activeRequests` (`displaced`) |
| `MC...` | TLC instances | constants only |
| `...Proofs` | theorems about the modules they extend. `Cache` and `Batcher` share `LoadProofs`, `Ipc` and `PubSub` share `MessageProofs`, so some names there carry that of their module (`BatcherSpec`, `PubSubNext`) | see section 6 |

What the models leave out of these files: hit and miss counters, the read-only
accessors (`size`, `pending`, `available`), validation of options, the text of
errors and their passage through IPC. In `Batcher` and `Ipc` each call is made
once. In `Breaker` the failure count stops at the
threshold and the elapsed time at the cooldown, beyond which the code treats
all values alike.

## 4. Runs

Each passing run finishes within two minutes with two workers.

| Run | Bounds | Distinct states | Shows |
|---|---|---|---|
| `queue` | capacity 2, four offers, one take, one loop, signals on an offer and on the take | 42,986 | `Conservation`: an item is in exactly one place and is delivered only if it was not refused. `NoLostWakeup`, which also bounds the buffer. `WaitersStandOnce`: a call waits exactly while it stands in its line, once. `WaitersListen` (an abort listener stands exactly for a waiter). `ImplementsChannel`: the refinement of `Channel`, which adds order. `Drained`: what a live loop can get, it gets |
| `limiter` | three clients (one with a signal), one permit, two slots in two ticks, four reservations, clock 0..3 | 129,548 | permits conserved and never idle, service in order, slots spaced, no start after the abort, the line moves |
| `cache` | three keys for two entries, two callers, two flights, time to live 2, clock 0..3 | 56,750 (with symmetry) | `SharedUnlessCleared`, `NoDeadEntry`, `LeastRecentlyUsedFirst`, `HitsAreFresh` |
| `pubsub` | two subscriptions with a buffer of one, two replayed, four published | 2,431 | `GapFree`: what a subscriber has heard, has buffered and has pending is one run of numbers up to the newest. `EverySubscriberHears` |
| `resilience` | a `safeRetry` with full jitter or a `poll` of two attempts, and a `runScheduled` of up to three under five combined rules; thresholds 2, cooldown 1, both with signals | 100,656 | `CountersMatchState`, `WithinOptions` (attempts and delays are those of the options), `NoAttemptAfterAbort`, `LoopsEnd`, `Recovers` |
| `tasks` | a plain child beside one that runs three items, two at a time | 19,176 | `StructuredTree`, `HonestResult`, `LimitKept`, `NoStartOnceAborted`, `GroupEnds` |
| `batcher` | four loads (three with signals), batches of three | 29,413 | `OwnValue`, `NobodyForgotten`, `Answered` |
| `deadline` | a command (chunks of 1 and 2 bytes, four in all, a limit of 2), an `onceEvent`, a fetch or an iteration (five items, three mappers, the three functions), with a timeout above and, for the fetch and the command, one of its own | 104,897 | `HonestOutcome`: what a command reports is what happened. `EachLayerCleansUp`: no timer, listener (but those an emitter cannot take off), process or resource survives its layer. `NothingLeftBehind`: a call that ends leaves its source closed or over, and a mapper at work only when it is a `mapAsyncLimit()` that rejects; it says when a call may reject. `NoWorkOnceCut`. `CallEnds`: the call as a whole ends |
| `ipc` | two calls with signals from one renderer, a plain one from another, two registrations, either of which a further `handle()` may displace | 282,944 | `NoWorkInVain`, `CancelHitsOwn`, `TableExact`, `CallsSettle` |
| `singleflight` | one key, three calls, three flights | violation | section 7 |
| `cache_delete` | as `cache` | violation | section 7 |
| `ipc_renderers` | two renderers with one call each, both with signals | violation | section 7 |

Why the bounds are enough to meet the cases:

* The queue can be full with two offers waiting, so that one `clear` lets two
  in, and one of the two can abort first; a take and a loop can wait together
  and be served in either order. Capacity 2 makes a partly full buffer.
* Three clients and one permit make a line of two, of which the first may
  leave. Four reservations with two per window reach a window that lies ahead
  of the clock, and the clock can be set back behind it.
* Three keys for two entries evict, and two flights overlap on one key (after
  a `delete`) or on two. A clock of three outlives an entry by a tick.
* A buffer of one with two replayed messages makes even a replay overflow
  into pending offers.
* Two clients and a threshold of 2 let one result arrive in each state that
  the other client's calls have caused. Two attempts reach both the retry and
  its exhaustion. Five rules with three different delays and two reasons to
  stop let each rule be the one that decides.
* Three items and a limit of two leave one item to be taken after another has
  failed, succeeded or been aborted. Four loads and batches of three let
  a batch be under way while the next line fills.
* An output of four with a limit of two ends below the limit, at it, and past
  it by one chunk or several. Chunks come before and after the timer, the
  signal, a throwing callback and the exit.
* Two cancellable calls of one renderer let a cancel pass the end of its
  request, follow the other's request, or come under the second registration.
  The plain call brings the request without an id, and a second stream.
* Five items and three mappers let reads, mappers that have not begun, and
  mappers that run overlap at every point of the loop.

Keys, callers and flights of the cache are interchangeable and the run has no
liveness property, so its symmetry is sound. No other run uses symmetry.

Deadlock is checked in `queue`, `limiter`, `cache`, `cache_delete` and
`resilience`. The others stop by design: a call or a group that has returned, a
hub that is closed, loads that are answered, messages that have run out.

The type invariants of all modules but `Deadline` are part of what section 6
proves; that of `Deadline` holds with the bounds above, and its proofs use only
the parts of it they need.

## 5. Fairness

Only the liveness properties use fairness, all of it weak, and each is what
the event loop or the contract of a callback gives.

| Module | Weakly fair | Because |
|---|---|---|
| `Queue` | the loop's `Take` and `IteratorResumes` | the loop body of `for await` returns, and the loop asks again. Offers, other takes, aborts and `close` are not fair |
| `Limiter` | `Leave(c)` | the operation under `withPermit` settles and its `finally` releases. Without it a permit may be held for good, as in the code |
| `PubSub` | `NextMessage(s)` | the subscriber keeps reading. Publishers are not fair |
| `Resilience` | the steps of a loop, the settlement of an operation, the clock | timers fire and promises of the operation settle. Starting a call, and the dependency's health, are not fair; `Recovers` assumes that the dependency stays up and that calls keep coming |
| `Tasks` | progress of the group and the call | the body, the children and the items settle, in whatever order. `Progress` is one disjunction: that is enough because each of its steps uses up a bounded amount of work |
| `Batcher` | `TimerFires`, `BatchSettles(b)` | a timer of the platform fires, `loadMany` settles |
| `Deadline` | `Ending`, one disjunction | acquiring and releasing settle, scopes end, the outer timer fires, a child that was killed exits and its pipes close, `fetch` heeds a signal that has fired, the source, mappers and workers answer. Events, answers of a server, output and a child that exits by itself are not fair: without a timeout such a call need not end. A single disjunction is enough as for `Tasks` |
| `Ipc` | `Receive(r)`, `HandlerSettles(c)`, the answer of each call | Electron delivers what is sent, and handlers settle. Callers, aborts and the registration are not fair |

`ParentAborts`, `CallerAborts`, `Abort` and `clear` are never fair: nothing holds because
somebody cancelled.

## 6. Proofs

The proofs hold for every value of the constants that satisfies the named
assumptions of the modules (`QueueAssumption`, `PermitsAssumption`,
`RateAssumption`, `SignalsAssumption`, `FlightAssumption`, `CacheAssumption`,
`BreakerAssumption`, `RetryAssumption`, `GroupAssumption`, `TasksAssumption`,
`BatcherAssumption`, `IpcAssumption`, `PubSubAssumption`, `CommandAssumption`,
`IterationAssumption`). Those say that a capacity or a limit is
a positive integer, as the code validates, that sets of calls are disjoint, and
that the markers (`NoItem`, `NoFlight`, ...) are none of the calls; TLC
evaluates each in some run. One hypothesis is stated in theorems and not
assumed: `OneRenderer`, for IPC.

| Module | Theorem | Says | Inductive invariant |
|---|---|---|---|
| `WaitingLineProofs` | lemmas | what appending to a line without repetition, taking its head, leaving it, cutting and joining lines do to the line and to the set of those in it | |
| `QueueProofs` | `WaitersAreInLine` | `TypeOK` and `WaitersStandOnce`: a call waits exactly while it stands in its line, once, for any callers and capacity | `TypeOK /\ NoLostWakeup` and `Accounting` (below) |
| | `NoWakeupIsLost` | no offer waits while there is room, no take while there is a value, nobody once closed, and the buffer keeps its capacity | `TypeOK /\ NoLostWakeup`. Each needs the other: that takers and offers never wait together makes `flushOffers` move offers into the buffer only |
| | `NothingLostOrDuplicated`, `ListenersAreWaiters` | `Conservation` and `WaitersListen` | adds `Accounting`: buffer, delivered and discarded items have nothing in common and are together what was accepted; the lines are exactly the calls that wait, each once |
| | `QueueIsAChannel` | every step is a step of `Channel` or a stutter, under the mapping of `Queue` (buffer and pending offers are one sequence of which the buffer is acknowledged) | adds `Hands`: a taker holds an item exactly when its call was answered with one. One lemma per operation; `FlushKeepsOrder` shows that what `flushOffers` moves stays where it was in the joined sequence |
| `LimiterProofs` | `SemaphoreSafe` | permits are conserved, none is idle while somebody waits | adds `LineIsWaiting`: the line is exactly the waiting clients, each once. Without it a release could serve somebody twice or a client that left |
| | `ServedInOrder`, `CancelledNeverStart` | `FirstComeFirstServed` and `NoStartAfterAbort` | the same invariant: whoever a release serves was the head of the line (`OnlyHeadIsServed`). The second adds that nobody waits whose signal has aborted (`NobodyWaitsAborted`) |
| | `BudgetKept` | any `Limit + 1` successive slots span an interval, even if the clock jumps | adds `WindowsApart`: the last `usedInWindow` slots start at `windowStart`, those before lie an interval earlier |
| | `Composed`, `LimiterSafe` | the composition implements both parts, so it inherits both | each step of `Limiter` is a step or a stutter of each part |
| `LoadProofs` | `SingleFlightShares`, `CacheShares` | the map never holds a flight that is over; calls of a key share one until it is cleared | the two properties together with the types of flights |
| | `NothingStaleIsServed` | `HitsAreFresh` | every entry is `Stamped`: its expiry is the time it was stored plus the time to live, which moving, replacing and evicting entries keep |
| | `LeastRecentlyUsedGoesFirst` | `LeastRecentlyUsedFirst`, for any keys, callers and size | `OrderInv`: adds `NotCachedWhileLoading`, that no key is cached while its load is scheduled or running unless it was cleared. Without it a load could store a key that is in the middle of the `Map`, where `Map.set()` would leave it, and the order would no longer be that of use. Deleting and evicting only thin out the `Map` (`Thinned`), which keeps any order |
| | `StoresItsOwnLoad`, `OneOperationUnlessCleared` | what the runs `cache_delete` and `singleflight` refute does hold for a key that was not deleted or cleared: the load that its callers wait for is the only one to store it, and one operation runs at a time | `OrderInv`, and `SharedUnlessCleared` |
| | `CacheTypeCorrect` | the size of the cache and its clock keep their bounds | `OrderInv` |
| | `BatcherSafe`, `ValuesAreOwn` | nobody is forgotten, the line stays below the batch size; values are the loads' own | adds `Placed`: lines and batches have no load twice and none in common, a batch contains the load it is named by, keys stay in position |
| `ResilienceProofs` | `BreakerSafe`, `ResilienceSafe` | counters belong to the state for any overlapping calls, alone and under retry loops | adds that the cooldown never started before the breaker opened |
| | `AbortEndsRetries` | no attempt after the abort, and none beyond what the options allow | adds `AttemptsAllowed`: the attempts made were each allowed, and a loop in a pause may make another; for schedules that is what every `maxAttempts` rule of the policy says |
| | `ResilienceTypeCorrect` | breaker, loops and dependency keep their types | the two above |
| | `LoopsKeepToOptions` | `WithinOptions`, for any number of attempts and any delays the options give | adds `DelayInv`: the delay of a loop that waits is one its options or its policy allow for the attempt it counts, and attempts are counted from one |
| `TasksProofs` | `GroupSafe` | the first failure is rethrown, and every child is over by then | adds that a group that was left is closed |
| | `NothingLeftRunning` | a group that was left has no item of a child's parallel call running | adds that the call is under way only while its child is, and items only while it is |
| | `ParallelKeepsLimit` | `LimitKept` for any number of items and workers | the same with `LimitKept`; that a worker takes one item needs the least of the waiting items to exist |
| | `ParallelHonest` | `HonestResult` for `all`, `mapLimit` and `race`: whatever the order in which items settle, and whenever the signal fires, the result is that of all items, the first failure, or the first to settle | `ResultInv`: the items that have settled are those in `order` (`SettledInOrder`), and `first` is what the first failure, or the first result of a race, left in it (`FirstKept`). That a value of `mapLimit` skips no item needs `LimitKept`: if nothing runs and nothing cut the call, nothing waits |
| | `AbortStopsStarts` | `NoStartOnceAborted` | a step property, from the invariants of the group and of the call |
| | `TasksTypeCorrect` | no item settles twice | `ResultInv`: an item in `order` is not running |
| `MessageProofs` | `CancelsReachTheirOwn`, `NobodyWorksInVain`, `NoControllerLeaks` | `CancelHitsOwn`, `NoWorkInVain`, `TableExact` when one renderer makes all the calls with signals (`OneRenderer`), whatever is registered, removed and registered twice. `NoWorkInVain` says of a handler whose registration stands that an abort of its caller has reached it or is on its way, and of one whose registration is gone that it was aborted, unless a `handle()` that threw had displaced its table; `TableExact` that the table of the last registration holds the requests its handler works on until `removeHandler` finds and empties it | adds that ids are unique (`IdsUnique`), that each request, cancel and entry of the table carries the id of its own call (`RequestsOwn`, `CancelsOwn`, `EntriesOwn`), and that a request not yet received is in its pipe with its cancel behind it (`RequestOnItsWay`) |
| | `NobodyMissesAMessage` | `GapFree`, for any subscriptions that come and go, any capacity and any number of replayed messages | `PubSubInv`: what a subscription received, buffered and has pending are three runs of numbers, each beginning where the one before ends (`Consecutive`), offers wait behind a full buffer only (`Filled`), a loop waits only at an empty buffer, and an open subscription expects the number that is published next. The second and third are what keeps `Offer` and `Take` from passing a message by another |
| | `NothingUnpublished` | a subscription that is closed has not heard of messages that came later, and the replay buffer keeps its bound | adds `Published`: the message a subscription expects is at most the next one, and it holds nothing before it subscribes |
| `DeadlineProofs` | `CommandHonest` | `HonestOutcome` of a command, whatever the chunks of its output, and whatever comes first: a timer, the signal, a callback that throws, its end | `CommandInv`: the controller is aborted exactly when there was a first cause, `commandAbortReason` says "timeout" exactly when that cause was the timer, and "output-limit" only when more output came than it allows, all of which was kept; what was captured is what was produced unless the limit or a callback cut it (`CausesKnown`, `OutputKnown`) |
| | `IterationCleansUp` | `NothingLeftBehind` of `collect`, `forEach`, `mapAsyncLimit`: the source of a call that ended is closed or over, a value covers every item, a mapper is still at work only if `mapAsyncLimit` rejected, and a call rejects only for a source that threw under `forEach` or whose `return()` rejected when the call was cut | `IterationInv`: which states of the source, the failure and the verdict go with which `await` (`IterationShape`, `SourceClosed`, `FailuresNoted`: a source is closed early only by a call that was cut), and that `collect` and `forEach` work on one item at a time (`OneAtATime`) |
| | `MapperLimit` | `mapAsyncLimit` runs at most `Concurrency` mappers and reads only when there is room | `RoomKept`, part of `IterationInv` |
| | `CutStopsWork` | `NoWorkOnceCut` | a step property, from `IterationInv` |
| | `LayersCleanUp` | `EachLayerCleansUp`, for the work of each kind under a deadline | adds `DeadlineInv`: which layer is in use in which stage, and that each timer and listener belongs to a layer that is (`LayersKnown`); what the resource is in each stage, and that it was released as often as it says (`ResourceKnown`) |

Each proof has one step or lemma per action, `Init => Inv` and `[Next]_vars`
preservation, and closes with PTL. TLC checks the same invariants on the small
instances first.

The steps of a part inside a composition are steps of that part or stutters, and
one lemma per composition says so (`UsesBreaker`, `UsesGroup`, `UsesWork`, ...):
the invariant of a part is proved once, of its own steps, and inherited.

Every invariant of a passing run, and every action property of one, is a
theorem. Two of them are stated without filtered sequences because of that, so
that no induction over the length of a sequence is needed: `HonestResult` asks
for the first failure by its position in `order`, and `LeastRecentlyUsedFirst`
compares positions in the `Map` with the relation `usedBefore`.

Only model-checked: all liveness properties (`Drained`, `LineMoves`,
`EverySubscriberHears`, `LoopsEnd`, `Recovers`, `GroupEnds`, `Answered`,
`CallEnds`, `CallsSettle`), since fairness and ENABLED are beyond the prover,
and the type invariant of `Deadline`. The properties section 7 refutes are not
theorems, of course; `StoresItsOwnLoad`, `OneOperationUnlessCleared` and, under
`OneRenderer`, `NobodyWorksInVain` say in which part they hold.

## 7. Disagreements between documentation and code

Three runs are expected to fail. Each checks what a text of the repository says.

* `singleflight`, `OneOperationPerKey`. "Deduplicates concurrent calls with the
  same key so only one operation runs at a time" (`src/singleflight.ts:62-65`).
  `clear(key)` removes a flight from the map; a new call starts another under
  the same key; the `finally` of the first (`:96-99`) then removes the second,
  and a third call runs beside it although nobody cleared it.
* `cache_delete`, `DeleteRemovesLoad`. "`delete(key)` removes cached and
  in-flight work for the key, aborting an in-flight load"
  (`docs/content/docs/reference/cache.mdx:38`). A load that resolves with a
  value after its deletion stores it (`src/cache.ts:157`). A loader is not
  obliged to heed its signal.
* `ipc_renderers`, `AbortReachesPresent`. "If the signal aborts, the renderer
  resolves immediately with an abort tuple and notifies the main process to
  abort the in-flight request" (`src/ipc.ts:477-481`). Ids are counted per
  renderer (`:188`), but the main process keeps one table per channel. The
  request of a second renderer replaces the entry of the first (`:422`), and
  whichever ends first deletes the entry of the other (`:436`): a cancel then
  finds the wrong controller or none, and a handler runs on for a caller that
  gave up, although its registration stands.

In three more places a passing run makes an exception where a text promises
otherwise. Each promise is a formula of its module, with a configuration that
has TLC print how the code breaks it.

* `MCIpcHandle.cfg` (module `MCIpc`), `AbortReachesHandler`: the same sentence,
  for every handler that runs. `handle()` puts a new map into `activeRequests` before it asks
  Electron (`src/ipc.ts:403-404`), which throws for a channel that has a handler.
  `removeHandler` then finds the new map (`:460-468`) and aborts nothing of what
  is in flight, and a cancel that comes later finds no handler for it: the
  handler runs on, told neither of the removal nor of the abort. One renderer
  and one call are enough.
* `MCQueueClose.cfg` (`MCQueue`), `ClosedAnswersReason`. "`close(reason)`
  resolves pending and future operations with `[reason, null]`"
  (`docs/content/docs/reference/queue.mdx:40`). Pending operations and future
  offers, yes; but `take()` looks at the buffer before it looks at `closed`
  (`src/queue.ts:233-239`), so future takes get the items that are buffered
  first. `Channel` has the code's behaviour, in which nothing acknowledged is
  lost, and `ImplementsChannel` shows no more than that.
* `DeadlineThrows.cfg` (`Deadline`), `ThrowsAreTuples`. "Iterator throws are
  captured as tuple errors" (`docs/content/docs/reference/iterable.mdx:96`). `forEach` has no catch
  around its loop (`src/iterable.ts:119-147`): when the iterator throws, its
  promise rejects, and so do those of `forEach` and `mapAsyncLimit` when
  `return()` rejects (`:283`), the latter while its mappers may still run.
  `NothingLeftBehind` says that there are no other cases.

`Cache.LeastRecentlyUsedFirst` and `SingleFlight.SharedUnlessCleared` hold in
the form they have for the same reason as the first two runs: they except keys that
`delete` or `clear` has touched while a load was in flight. The passing run
`ipc` has one renderer that cancels, which is the hypothesis of the theorems, and
its `NoWorkInVain` excepts the registrations that `MCIpcHandle.cfg` is about.

## 8. Observations

Behaviour that no run above is about, but that is worth knowing when reading
the models. Some of it differs from a sentence of the documentation.

* `take()` looks for a pending offer when the buffer is empty
  (`src/queue.ts:241-247`). No state reaches it: offers wait only while the
  buffer is full. `NoWakeupIsLost` proves that for every capacity.
* A rate limiter does not give slots back on `clear` or abort, so cancelled
  takes delay later ones.
* `publish` does not wait for its offers, so a slow subscriber keeps pending
  offers beyond `subscriberCapacity`; `GapFree` counts them.
* `flush` of the batcher reschedules a rest, but a line is flushed as soon as
  it is full, so there is none (`BatcherSafe` proves that the line is always
  shorter than a batch).
* `all` and `race` start every task even under a signal that has fired;
  `mapLimit` does not. `NoStartOnceAborted` therefore speaks of `mapLimit`.
* `safeRetry` still calls `onRetry` after an abort during the attempt, and
  looks at the signal in the sleep.
* A `jitter` function of the caller's is applied after the cap
  (`src/retry.ts:62`), so a delay may exceed `maxDelayMs`, which
  `docs/content/docs/reference/retry.mdx:18` calls an upper bound.
  `maxElapsedTime` looks at the time before the wait (`src/schedule.ts:171`),
  so the last attempt may start after it. `WithinOptions` allows both.
* A call that the breaker admitted before it opened and that fails late opens
  it again and restarts its cooldown (`src/breaker.ts:128`), although "after
  `cooldownMs`, the next call moves the breaker to `half-open`"
  (`docs/content/docs/reference/breaker.mdx:40`).
* The breaker passes its operation a signal that never fires.
* `mapAsyncLimit` maps the item it was reading when it was cut, and closes the
  source before it waits for its mappers.
* A load that joins another's load in the cache shares its abort: the starter's
  signal is the flight's.
* A command that was aborted before its output passed the limit keeps the
  signal's abort, but `commandAbortReason` is set by the output that follows
  (`src/node.ts:576-582`): it may be reported as an output-limit error.
  `HonestOutcome` asks only that what is reported did happen.
* A second dispose of a resource resolves at once, also while the release that
  the first one started is still running (`src/resource.ts:21-24`).

## 9. What is not modelled

`PROJECT.json` lists each part with its reason. In short:

* `env.ts`, `schema.ts`, `router.ts`, `di.ts`, `error.ts`, `result.ts` and
  `index.ts` are pure conversions and adapters; `context.ts` wraps the
  platform's `AsyncLocalStorage`; `test.ts` serves tests.
* Of `node.ts`, the file functions make one call of the file system each and
  keep no state; `runShellCommand` and the `Safe` wrappers forward to what is
  modelled. `sleepSafe`, `onceEventSafe` and `readJsonSafe` do the same.
* The timeout of `poll` is a `createTimeoutSignal`, which `TimeoutSignal`
  models; in `Retry` it is folded into the abort of the loop.
* `TimeoutSignal` has a parent in every instance. Without one the parent
  listener and its removal are absent, and nothing else differs.
* The passage of errors through IPC, and the bridges that forward to it.
* The input that `runCommand` writes to the child's stdin (`src/node.ts:683-690`)
  and an error of that stream, for which the code has no listener.
* Requests and cancels arrive in the order in which their renderer sent them,
  and nothing is lost: the code relies on Electron for that.

## 10. Plan

Done, in this order: the queue and its channel; the limiters and their
composition; single flight and the cache; publish/subscribe; breaker, retry and
the schedules; task group and parallel calls; batcher; iteration; the IPC
protocol; timeouts with resources, events, commands and fetches under them.

What is left:

1. The timeout of `poll` as a `TimeoutSignal` of its own, beside the interval.
2. A table keyed by renderer and id in a variant of `Ipc`, for which
   `AbortReachesPresent` would be proved without `OneRenderer`.
3. An abstract promise of publish/subscribe (each subscription is a channel) with
   `PubSub` shown to implement it step by step, and one of the semaphore.
4. Type correctness of `Deadline` as a theorem.
