# A TLA+ model of healthzkit

healthzkit answers the liveness, readiness and startup probes of a Node.js
service. A *kit* (`HealthKit`) is configured with *checks*; each check has an
*adapter* that asks one dependency (a database, a broker, a bucket) whether it is
well. The kit executes checks on demand or on a schedule, bounds each by a
deadline, caches the results of scheduled checks, reports executions to hooks,
drains, and disposes its adapters at the end.

The program has one thread and is concurrent everywhere: each `await` is a place
where another request, a timer, a late answer of a driver, or a call of `stop()`,
`beginDrain()` or `close()` comes in. Those orders are what this project models.
What a single synchronous pass computes (validation, status, routing, redaction)
is modelled as functions of configurations and results that sit on every boundary.

## 1. The system

| Component | Source | State it keeps | Operations |
| --- | --- | --- | --- |
| Executor | `packages/healthzkit/src/executor.ts`, `timeout.ts` | map of running operations by check name, set of unsettled operations, a deadline timer and an abort controller per operation | `run`, `settle`, the adapter's settlement, the deadline |
| Scheduler | `scheduler.ts` | interval timers, cache, pending runs, generation, observed operations, last statuses | `start`, `stop`, `stopTimers`, `runCheck`, interval tick, completion callback |
| HealthKit | `healthkit.ts`, `runner.ts`, `rollup.ts` | started, closing promise, draining, accepted requests | `start`, `stop`, `beginDrain`, `close`, `check*`, `handle*` |
| Configuration, HTTP and output | `healthkit.ts`, `rollup.ts`, `http.ts`, `formatter/` | the copied configuration | constructor, status mapping, routing, JSON and text output, redaction |
| Disposal wrapper | `tools/shared/src/index.ts` | pending calls, memoized promise of `dispose()` | `check`, `dispose` |
| Adapters with a client | 25 adapters under `packages/*/src` that own a client, their variants with a supplied one, prisma and drizzle | client, initialization promise, borrowed connections | `check`, cleanup |
| MongoDB adapter | `packages/mongo/src/mongodb.ts` | client, connection promise, reset promise | `check`, `close`, `dispose` |
| KafkaJS adapter | `packages/kafka/src/kafkajs.ts` | promise chain of checks, set of retained admins | `check`, cleanup |
| HTTP adapter | `packages/http/src/http.ts` | per call: a timer, a controller, a response body | `check` |
| Example application | `apps/example-node` | one pool, the pending shutdown and its deadline | `GET /`, probes, signals, `createShutdown` |
| Tooling, documentation site | `tools/`, `apps/` | none of the running kit | |

**Interaction.** A request (`check*` or `handle*`) calls `runChecks`, which takes
a cached result, waits for a scheduled run, or asks the scheduler to `runCheck`.
The scheduler asks the executor to `run`, which returns the operation already in
flight for that check or starts one. The executor calls the adapter in a job of
its own, with an abort signal. The adapter's promise and the deadline timer race
for the answer. The completion callback, the scheduled run and the branches of
requests are reactions to that answer. `close()` stops the timers, waits for
requests, then for operations, then disposes each distinct adapter; the adapter's
wrapper again waits for calls the kit does not know of. The example application
owns what a kit must not close: its server and the pool it shares with the check.

**What is hard.** An operation outlives its answer (the deadline answers, the
adapter still works), so there are three ends of one call: of the answer, of the
slot and of the operation. Operations and scheduled runs outlive the lifecycle in
which they began. One operation has callers of several kinds. `close()` waits for
sets that still grow. Clients are created lazily by calls that race. An HTTP check
races four parties, and each of them can leave something open. A shutdown relies on
time where no code waits. A configuration consists of objects that the application
goes on owning. `hazards` in
`PROJECT.json` lists these with their lines and the properties for them.

**What makes each component correct.**

* Executor: one adapter call per check at a time; every caller is answered by the
  deadline at the latest; the abort signal agrees with the answer.
* Scheduler: what is served without an execution belongs to this lifecycle and is
  the newest result; one completion event per execution; transitions are
  complete; the schedule never dies.
* HealthKit: every request is answered; drained readiness never succeeds; nothing
  begins after `close()` and adapters are disposed last, once each; `close()` ends
  if adapters do.
* Configuration, HTTP and output: every accepted delay is run as written; the worst
  checks decide the code; a response shows what the configuration permits, and
  none of this changes under the kit's feet.
* Disposal wrapper: cleanup is last, complete, and ends.
* Adapters: one client however many calls race, closed last, and only if it is
  owned; an old failure is not inherited; borrowed connections come back; an
  aborted check neither starts its request nor succeeds.
* HTTP adapter: a settled check has left no timer and no body, whoever won.
* Example application: the pool ends after its last user; the exit comes by the
  deadline, with the right code.

## 2. The modules

```
SingleFlight  <== Executor --+-- Scheduler --- HealthKit --- HealthKitProps ==> Lifecycle
                             \-- HttpAdapter                                      ^
                                                                     Disposal =====+
Freshness --- Shutdown                                                  |
                                               OwnedClient, KafkaAdmins, MongoReset
Redaction --- Answers --- MCAnswers

SchedulerProofs --+-- HealthKitProofs          DisposalProofs --+-- OwnedProofs
                  \-- HttpProofs                                \-- KafkaMongoProofs
ShutdownProofs        AnswersProofs
```

`---` is EXTENDS, `==>` "implements" (INSTANCE ... WITH, checked as a property).

| Module | What it is |
| --- | --- |
| `SingleFlight` | abstract: at most one call per check, and one final answer per call |
| `Executor` | `CheckExecutor` with `withTimeout`, over an adapter of which nothing is known |
| `HttpAdapter` | `httpAdapter`, composed with `Executor` |
| `Scheduler` | `Scheduler`, on top of `Executor` |
| `HealthKit` | `HealthKit` with `runChecks`, on top of `Scheduler`: the whole kit as one composition |
| `HealthKitProps` | its properties and its refinement mapping to `Lifecycle` |
| `Lifecycle` | abstract: what "close" promises to whoever calls something that is closed |
| `Freshness` | the age limit of cached results, in measured time |
| `Shutdown` | example-node from its start to its exit, in the time of `Freshness`, whose check uses the pool |
| `Disposal` | `withDisposal` |
| `OwnedClient` | adapters with a lazily created or a supplied client, inside `withDisposal`; one record of decisions per adapter |
| `KafkaAdmins`, `MongoReset` | the two adapters with a protocol of their own, inside `withDisposal` |
| `Redaction` | the projection of a response for the public |
| `Answers` | from a configuration to the answer to a request: constructor, routes, status, fetch handler |
| `MCExecutor`, `MCScheduler`, `MCHealthKit`, `MCAnswers` | instances for TLC; the other modules are instantiated by their `.cfg` alone |
| `MCMongoCrossed` | the behaviours of `MongoReset` in which the finding about MongoDB is looked for |
| `SchedulerProofs` | theorems about `Executor` and `Scheduler` |
| `ShutdownProofs` | theorems about `Freshness` and `Shutdown` |
| `KafkaMongoProofs` | theorems about `KafkaAdmins` and `MongoReset` |
| `HealthKitProofs`, `HttpProofs`, `DisposalProofs`, `OwnedProofs`, `AnswersProofs` | theorems about the module of that name |

An operator named `X_Why`, under the heading "Slips", is the definition `X` with
the mistake `Why` (a dropped guard, a missing reset, a wait for the wrong set).
No specification uses one. They document that each property can fail: putting a
slip in the place of its original makes TLC report the property named beside it
in `PROJECT.json`.

### How the code is read

*Promises and jobs.* The microtask queue is a set of enabled actions ("jobs").
What runs between two awaits is one action. A settlement and the chain of internal
reactions behind it (`finally`, `Promise.race`, `clearTimeout`) is one action,
`Settle`: no timer can come between, and the only thing another job could observe
in the middle, the freed slot, it can also observe right after. The reactions of
*different* parties are jobs of their own and run in every order, except where
the code fixes it: `runCheck` attaches the completion callback before any caller
can await the operation, so it runs first, and the continuation of `settle()` in
`close()` runs after the reactions to the answer.

*Timers.* A timer callback runs only when no job is left (`SchedulerJobs`,
`KitJobs`), and otherwise at any moment: no relation between intervals, deadlines
and the duration of calls is assumed, except in `Freshness` and `Shutdown`, which
measure time.

*Callers* (requests, lifecycle calls) may come between any two jobs.

*Outcomes.* An adapter call ends with a status; a rejection is "fail", as
`executeCheck` and `executeAndCache` make of it. A deadline is the separate value
"timeout", and a run that was stopped is "stopped".

*Identity.* An operation is the identity of its promise; a scheduled run is named
by its operation, since there is at most one per operation. Identities that
nothing refers to are used again (`Forget`, `ForgetRun`, `Collect`): this is garbage
collection, and keeps the sets finite without bounding the number of executions.

*The cache's age.* `HealthKit` lets each read of the cache find the result too old
or not, freely. `Freshness` measures the time and tells when it can be too old.

*History variables* (`events`, `followed`, `acceptedIn`, `disposals`, `attempts`, `crossed`)
are not in the code and no guard reads them.

### State and code

* `Executor`: `inFlight` and `operations` are the two fields of `CheckExecutor`.
  `phase[o]` is the inner promise, `result[o]` the promise callers hold, `armed[o]`
  and `aborted[o]` are the timer and the controller of `withTimeout`. `Launch` takes a set of checks, because
  `start()` launches all scheduled checks in one turn.
* `Scheduler`: `timers`, `cache`, `pending`, `generation`, `observed`, `statuses`
  are its fields; `unheard`/`heardIn` are the callbacks attached to an operation
  with the generation they captured, `run`/`runIn` the promise of
  `executeAndCache` with the generation it captured.
* `HealthKit`: `started`, `draining` as in the code; `stage` is the await that
  `close()` has reached; `progress`, `branch`, `answer` are the stack of one
  request: a branch of `Promise.all` looks at the cache in the accepting turn,
  one job later asks for an execution, and takes an answer.
* `Disposal`: `pending` as in the code, `closing` the memoized promise, `awaited`
  the snapshot given to `Promise.allSettled`.
* `OwnedClient`: `internal`, `init` are `internalClient` and its promise, whatever
  an adapter calls them. The adapters differ in seven decisions, and each adapter is
  one record of them (`pgAdapter`, `nodeRedisAdapter`, ...): where the client comes
  from and, if it is created, when it is tested against the import, what becomes of
  a rejected promise, whether connecting is a step of its own and what a failed one
  leaves, how many connections there are to borrow, whether it looks at the abort
  signal, whether it then imports the class of its command, whether it can be disposed.
  `OwnedInit` picks one of 32 adapters, seven of them with the application's client; they
  make 18 different records. A check with a signal makes its request in a turn that
  begins with an await and a test: of the client itself in the elasticsearch and v2
  adapters, of the command's import in the v3 adapters, which have their client by
  then. That await is the step `given`, and `BeginRequest` its end.
* `HttpAdapter`: `at` is the await the check has reached, `timer` and `own` the
  adapter's timer and controller, `body` the response's body: unlocked, locked by a
  reader, being cancelled, or gone. The kit's signal is `Executor`'s `aborted`.
* `Shutdown`: `step` is the await that the promise `pending` of `createShutdown`
  has reached, `deadline` its timer and `since` the time since it began; `querying`
  is how long a handler has used the pool. `Freshness` is the kit's scheduled check.
* `Answers`: `given` is the configuration when the constructor was called, `kit`
  what the kit holds, `answered` one request with its response. `Alter` is the
  application, which assigns to the objects it has passed: the kit still shares
  `onFail` (its code and its `treatAs`) and `onDegraded` of the checks and of the
  defaults, and the rollup with its `computeStatus`, none of which the constructor
  copies. Delays are counted in half-milliseconds, so that a fraction can be written.
* `Redaction`: metadata is a function from paths to kinds of nodes; a pointer is a
  path.
* `KafkaAdmins`: `queue` is the promise chain, `admins` the set; `opened` is what is really
  connected, which the code does not know when a disconnect fails.
* `MongoReset`: `owned` is `ownedConnectPromise`, named by the call that started
  it, `reset` is `resetting` with the await it has reached. `close()` may be called
  whenever no reset is in progress, also between the end of one and the turn of a check
  that waited for it; `crossed` remembers that such a check has started its attempt
  under another reset.

## 3. The runs

| Run | Module, config | Instance | Distinct states |
| --- | --- | --- | --- |
| `executor` | `MCExecutor` | 2 checks, one with an httpAdapter, 2 identities each, results ok and fail | 21 560 |
| `scheduler` | `MCScheduler` | 1 scheduled check, 3 identities, 1 stop, fairness | 143 580 |
| `kit_restart` | `MCHealthKit`, `...Restart.cfg` | 1 scheduled check, 1 request at a time, 1 stop, adapters may hang | 187 014 |
| `kit_share` | `MCHealthKit`, `...Share.cfg` | 2 requests at a time, a scheduled and an on-demand check on one adapter, an unused check on another | 1 144 312 |
| `disposal` | `Disposal`, `MCDisposal.cfg` | 3 calls at a time, 2 hooks | 3 384 |
| `owned` | `OwnedClient`, `MCOwned.cfg` | 32 adapters, 3 calls at a time, 3 clients | 294 514 |
| `owned_twice` | `OwnedClient`, `MCOwnedTwice.cfg` | 2 calls, 2 clients; a violation (section 6) | |
| `kafka_admins` | `KafkaAdmins`, `MCKafkaAdmins.cfg` | 3 calls at a time, 2 admins | 7 516 |
| `mongo_reset` | `MongoReset`, `MCMongoReset.cfg` | 2 calls at a time, 2 clients | 477 741 |
| `mongo_crossed` | `MCMongoCrossed` | 1 call at a time, 1 client; a violation (section 6) | |
| `shutdown` | `Shutdown`, `MCShutdown.cfg` | 2 handlers; interval 3, timeout 4, pool timeouts 7, drain 8, deadline 12 | 9 001 |
| `output` | `MCAnswers` | three families of configurations, one request each | 252 465 |

What they show:

* **executor**: `SingleFlightPerCheck`, also after a deadline has answered;
  `AbortIffTimedOut`; `EveryOperationAnswered` even when adapters hang for ever;
  `ImplementsSingleFlight`. For the http adapter under all this: `HttpReleasesAll`,
  no timer and no body that holds a connection outlives a check, in whatever order
  response, own timer, kit's deadline and metadata hook come; `HttpCheckEnds`, its own
  timer frees the slot although the kit's deadline frees none.
* **scheduler**: `ServedIsCurrent`, nothing but failures of an earlier lifecycle
  can be served after a restart; `RunsBeginOnce`, an operation in flight at a restart is not
  adopted as a new run; `CacheIsNewestRun`; `OneEventPerExecution` however many
  callers share or adopt it; `TransitionsTellStatus`, a listener that takes
  `onStatusChange` as a stream of differences is never wrong; `ScheduleRecovers` and
  `ScheduleKeepsRunning`, no skipped tick leaves a check unscheduled for good.
* **kit_restart**: `EveryRequestAnswered` with hanging adapters, `stop()` and
  `close()` under the request; `NoSuccessFromEarlierLifecycle` for what
  a request takes from the cache or from a run it waits for (a call of the executor that
  it shares may have begun earlier);
  `CloseEnds` if the adapters settle.
* **kit_share**: `DrainedReadinessFails` wherever the drain comes in;
  `DisposedExactlyOnce` with a shared adapter, an unused one and failing disposals;
  `ImplementsLifecycle`: nothing begins in a closed kit, dispose comes last.
* **disposal**: `CleanupComplete`, `DisposeEnds`, and `DisposalImplementsLifecycle`,
  the same `Lifecycle` for one adapter.
* **owned**: `OneOwnedClient`; `SuppliedIsShared`, a supplied client is never
  replaced or closed; `ClosedLast`; `NoInheritedFailure`; `AbortedCheckFails`,
  also when the signal fires during the import of the command;
  `EveryCallEnds`, which a connection that is not given back would break.
* **kafka_admins**: `OneAdmin` at any time, `DisposalTellsRest`, `EveryCheckEnds`.
* **mongo_reset**: `NoClientLost` under any order of checks, `close()`,
  `dispose()`, and failing imports, connects and closes, as long as no check has
  started an attempt under a reset.
* **mongo_crossed**: what may come of such an attempt. To show a behaviour that can be
  told, two action constraints leave out others: the jobs of a reset run before the
  driver answers (`JobsFirst`), and the owner does not call `close()` after
  `dispose()` (`ClosesBeforeDisposal`).
* **shutdown**: `StaleOnlyWhenOverdue`: with a limit of interval plus timeout a
  probe never fails a check that keeps its deadline, except in the instant in
  which that deadline is due. `PoolEndsLast`: nobody uses the pool when it is ended,
  although no code waits for the last scheduled run. `BoundedShutdown` and
  `ShutdownEnds` with clients that never read and closings that never end;
  `ExitTellsOutcome`.
* **output**: `TimersRunAsConfigured` for delays in, on and beyond the range,
  fractions and NaN; `DecidedByWorst` for every mixture of statuses, codes and
  rollups; `ExposesAsGiven` for every list of pointers. All three also after the
  application has assigned other values to the objects it passed.

**Bounds and why they are enough.** Checks do not interact below a request, so one
check shows the races of the scheduler; two show that slots are kept apart and that
a request waits for both; the third and unused one shows that close disposes what
no probe runs. Three identities of operations are the cached run,
the one in flight, and one whose reactions are still queued; a fourth would wait
for one of them. `MaxStops` bounds `generation` only: one stop gives operations of two
lifecycles, whose order is all that the code looks at; the safety of more lifecycles is
proved (section 5). `kit_share` has one lifecycle, as `kit_restart` restarts; its
refinement of `Lifecycle` holds a started kit to `close()`. Two requests at a time
show sharing; identities are used again, so the number of requests is not bounded.
Three calls show a waiter behind a waiter at a pool of one, and at one of two
(`MysqlPool` is 10 in the driver; the argument does not depend on it).

In `shutdown`, interval 3 and timeout 4 make a run overlap a tick and its deadline
fall between ticks; `Horizon` is the sum of the pool's connection and query timeouts
(1 and 1.5 s in example-node). The drain is longer than that sum and the deadline longer
than the drain (5 and 25 s there), and the instance keeps this order; section 5 proves
the properties for all numbers with it. `since` is counted to one beyond the deadline.

In `output`, a behaviour is one configuration, changes of it, and one request, as an
answer leaves the kit as it is. `MaxTimer = 3` stands for 2^31 - 1: delays from
-0.5 ms to two beyond the maximum, by halves, cross every boundary there is. Two checks
show every order of two codes; three pointers show a leaf beside, above and below
another; the tree has one node of each kind the code distinguishes.

Restarts and that one request excepted, the number of calls is unbounded in every run.

**Deadlock.** `scheduler`, the kit runs, `shutdown` and `output`
switch the check off: a stopped scheduler that has used up `MaxStops`, a closed kit, a
process that has exited and an invalid configuration really do stop.
Everywhere else a state without a successor would be reported.

## 4. Fairness

* *The event loop* runs every job (weak fairness of each job) and every due timer,
  however busy it is (strong fairness of the timers, because "no job is left"
  is true again and again but not for ever). Node's event loop gives both.
* *Adapters* are not assumed to settle for `EveryOperationAnswered` and
  `EveryRequestAnswered`: the deadline must be enough. They are assumed to settle
  for the schedule's liveness, and as an explicit antecedent of `CloseEnds`; the
  README of the package says that close waits for adapters without a limit.
* *Identities* are collected (weak fairness of `ForgetRun` and `Collect`): otherwise the
  finite set of identities could run out, which the program's memory does not.
* *Wrapped adapters*: imports, connections, queries and cleanups settle; a pool
  serves its waiters in turn (strong fairness of a successful `Borrow`), as the
  queues of the pg and mysql drivers do.

* *The http adapter*: its jobs and timers run, a metadata hook settles, and so does
  `cancel()` of a body. The server may never answer.
* *Shutdown*: time passes and its timers fire; what the pool's timeouts bound ends
  in time. Neither the server nor the pool need ever close, and a client need never
  read its answer.

No property depends on callers: nobody has to call `stop()`, `close()` or a probe.

## 5. What is proved

TLAPS checks the following for every value of the constants, that is for any sets
of checks, operations, requests, calls, hooks, clients and handlers, any
configurations, and any timers within the assumptions. These are the named `ASSUME`s
of the modules, which every run evaluates: beyond the shape of the constants they say that
special values lie outside the sets they are added to, that there is a client, that
configurations, requests and results have the fields and the kinds of values their
TypeScript types give them and every check has a result (`AnswersAssumption`), and in
which order the settings of example-node stand.

| Theorem | Result |
| --- | --- |
| `ExecutorTypeCorrect`, `SingleFlightTheorem`, `AbortTheorem` | invariants of `Executor` |
| `BookkeepingTheorem` | the map and the set of the executor hold precisely the outstanding calls |
| `DeadlineTheorem` | a deadline is armed exactly while an operation is unanswered |
| `AnswerIsFinalTheorem` | an answer, once given, does not change while the operation exists |
| `ExecutorImplementsSingleFlight` | `Executor` implements `SingleFlight` |
| `SchedulerInvariant`, `ServedIsCurrentTheorem`, `CacheIsNewestRunTheorem`, `OneEventTheorem`, `TransitionsTheorem` | the invariants of run `scheduler` |
| `RunsBeginOnceTheorem` | its action property |
| `SchedulerImplementsExecutor` | every step of the scheduler is one of `Executor`, or none |
| `KitInvariant`, `HealthKitTypeCorrect` | the invariant of the whole kit |
| `KitImplementsLifecycle` | `HealthKit` implements `Lifecycle` |
| `DisposedExactlyOnceTheorem`, `DrainedReadinessTheorem`, `NoSuccessFromEarlierTheorem` | the safety properties of the kit runs |
| `NobodyStrandedTheorem` | the safety behind `EveryRequestAnswered`: no request waits for what nothing will bring about |
| `KitServesCurrent`, `KitRunsBeginOnce`, `KitImplementsExecutor` | what is proved of the scheduler and of the executor holds under the kit |
| `HttpInvariant`, `HttpReleasesAllTheorem`, `HttpImplementsExecutor` | the http adapter leaves nothing, and is an adapter as `Executor` assumes it |
| `DisposalTypeCorrect`, `CleanupIsLastTheorem`, `CleanupCompleteTheorem` | the wrapper's cleanup comes last and is complete |
| `DisposalIsALifecycle` | `Disposal` implements `Lifecycle` |
| `OwnedImplementsDisposal`, `OwnedInvariant` | the invariant of the adapters with a client, inside the wrapper |
| `OneOwnedClientTheorem`, `SuppliedIsSharedTheorem`, `ClosedLastTheorem`, `AbortedCheckTheorem`, `NoInheritedFailureTheorem` | the safety properties of run `owned`, for each adapter |
| `LentIsHeldTheorem`, `PoolIsWholeTheorem` | a pool lends what it has, to checks that hold it, and is whole when it is closed |
| `NoCallStrandedTheorem` | the safety behind `EveryCallEnds`: no check waits for another that will not get on |
| `KafkaInvariant`, `OneAdminTheorem`, `DisposalTellsRestTheorem` | the invariants of run `kafka_admins` |
| `InChainTheorem` | the safety behind `EveryCheckEnds`: a running check is in the chain |
| `MongoInvariant`, `NoClientLostTheorem` | the invariant of run `mongo_reset`: no client is lost as long as no check has started an attempt under a reset |
| `NobodyWaitsInVainTheorem` | checks, resets and the disposal of the MongoDB adapter never wait in a circle, whenever `close()` is called |
| `FreshInvariant`, `StaleOnlyWhenOverdueTheorem` | the age limit is right for every interval and timeout |
| `ShutdownInvariant`, `ApplicationStaleTheorem`, `PoolEndsLastTheorem`, `BoundedShutdownTheorem`, `ExitTellsOutcomeTheorem` | the invariants of run `shutdown` |
| `ConfigInvariant`, `TimersTheorem` | every delay of the kit is one that the runtime keeps, and stays as configured |
| `DecidedByWorstTheorem` | the code of a probe is decided by its worst checks, in the order of the configuration |
| `ExposesAsGivenTheorem` | a response shows nothing hidden, and of listed metadata precisely the permitted leaves |

*Executor.* The invariant `ExecutorIInv` adds to the types: an operation is in the slot of its
own check if and only if its call is outstanding (hence two outstanding operations
of a check are the same one: this is single flight), the set `operations` holds
the outstanding ones, a timer is armed if and only if the operation is outstanding
and unanswered, the signal has fired if and only if the answer is the timeout, and an
operation that is not launched or still queued has no answer (`Launch` does not
write one). None of these parts is inductive alone: releasing the slot by check *name*
in `Settle` is right only because the slot holds the very operation that settles.
The refinement follows by step simulation: `Launch`, `Settle` and
`Deadline` map to steps of `SingleFlight`, `CallAdapter` to a stutter.

*Scheduler.* Below the scheduler runs the executor, so `SchedulerIInv` contains
`ExecutorIInv`. Its own parts say what the two maps refer to. `RunsAreKept`: a run
whose call is still out is the pending run of its check. `EntriesAreCurrent`: an entry
of the cache belongs to this lifecycle and is not older than the last run that ended.
`LatestRun`: of two runs of a check that both wait, only the older has its answer; this
holds because a timer fires only when every reaction to an answer has run, and is
what keeps the cache from going back. `Reports` counts events and callbacks still
attached to one per operation.

*HealthKit.* `KitIInv` contains `SchedulerIInv`; the kit's actions that launch, stop or
settle are the scheduler's, so its lemmas carry over. The kit's own parts: `StagesEnd`
says what `close()` has already ended, at each await: no timer from the first turn on,
no accepted request once the first wait is over. Only then can no new operation
come, and `settle()`, which waits for what it finds, is enough; this is the whole of
`KitImplementsLifecycle`. `BranchesWait` says what a branch of a request may wait for:
a run it took in its own lifecycle or that is not decided yet. `NoSuccessFromEarlierLifecycle`
follows, because a stopped run ends as "stopped", which is no result.
`DisposalsFollow` counts the disposals by stage. The scheduler alone has `StoppedIsOver`, no run
waits when there are no timers; `close()` breaks it, as it only clears the
timers and lets the runs end, so it is not part of `SchedulerIInv` and the kit has
it at stage "open" only.

`NobodyStranded` is what remains of `EveryRequestAnswered` when fairness is left out: a
branch of a request can go on, or waits for an operation that has reactions in the job
queue or a deadline that is set. It needs `BranchesBegun` besides `KitIInv`: a request
that runs its checks has a branch for each, and what a branch waits for has not been
collected. An operation that was launched is then either decided or has its timer
(`LaunchedIsOwed`, from the executor's part), whether or not the schedule was stopped.

*HTTP adapter.* `HttpIInv` says that a check that is not inside the adapter has no
timer and no body that is held, and that the timer is cleared before a body is
cancelled. As each step is one of the executor or leaves it alone, everything proved
of `Executor` holds with this adapter in it.

*Disposal.* `DisposalIInv` relates the wrapper's set to the outstanding calls
(`pending = Outstanding`), the snapshot to the set (once closing, every pending
call was awaited: no call is accepted after the snapshot), and the hooks to the
stage. `CleanupIsLast` needs the second part: waiting for a *snapshot* is enough
only because `check()` refuses from the same turn on.

*Adapters with a client.* Every step is one of the wrapper or none, so `OwnedIInv` starts
from `DisposalIInv`. The proof never looks at a single adapter: `AdaptersSound` says
what all of their records have in common (for instance, that one which tests before
the import alone has no `dispose()`), and the rest follows from the decisions. `Places`
ties where a call is to the decision that lets it be there; `Attempt` says that an
initialization in progress has a call that waits for it, so none is in progress when the
hooks run, and which client it works on; `OwnedClients` that every live client
is the one the adapter holds, or the one a failed attempt is closing. `OneOwnedClient` is
not inductive without `Attempt`: a client may be made only because no other attempt
is under way. `ClosedLast` needs `HookCloses`, that a hook which ended well leaves nothing
usable, and the wrapper's part that tells the verdict from the hooks. `SuppliedAlone`
is the counterpart for the application's client. `LentIsHeld` is separate: the
number a pool has lent is the number of checks that hold a connection, so a check that
ends gives back exactly its own, on whichever path. `NoCallStranded` rests on it: a
check that borrows from an exhausted pool waits for another check, which holds a
connection and gives it back. The other way to wait, for the shared promise, is safe
because a promise that settles answers all who wait (`CallsWait`).

*KafkaJS.* `OneAdmin` rests on three facts that each step keeps together: the set is
exactly what is connected, a check imports only when the set is empty, and only the
head of the chain takes steps. `DisposalTellsRest` needs the wrapper besides: once
the hook runs, no call is in the chain. `InChain` is the converse of the chain's part of
the invariant: no running check was left out of it.

*MongoDB.* `MongoIInv` has two kinds of parts. Some hold whenever `close()` is called:
a check is at work only while its call runs (`WorksWhileRunning`), it awaits the attempt it
has started (`OwnAwaits`), and a disposal joins a reset in progress (`JoinedWaits`). From these
nobody waits in vain (`MongoWaits`): a check for a reset in progress or for an attempt that has not
ended, a reset for such an attempt, the disposal for a reset; as an attempt waits for the
driver alone, there is no circle. The others (`Uncrossed`) hold until a check starts an
attempt under a reset: one connection attempt at most has not ended, and it connects the
client the adapter holds (`OneAttempt`); a reset waits for it before it closes anything,
and none begins under another (`ResetWaits`). Hence whatever is open is the adapter's
client. After such an attempt they fail, and so does the claim (section 6).

*Freshness.* `FreshIInv` bounds the age of the cached result separately for an
idle check (no older than the last tick), for a running
one (one interval plus the age of the call) and for an overdue one (only a timeout is
cached). The sum that the code allows, `intervalMs + timeout`, is exactly what the
second bound needs.

*Shutdown.* `DrainOutlastsRun` carries `PoolEndsLast`: a run that is still out during
the drain is as old as the drain at least, and none is older than the timeouts of the
pool, which are shorter than the drain. Without that order of the three settings,
`ShutdownAssumption`, the property is false.

*Answers.* `AnswersIInv` says that the kit, and the kit that answered, are copies of a
valid configuration but for status codes, `treatAs` and the rollup, because none of the objects
that stay shared holds anything else (`AlterInv`). That a validated delay is run as
written is arithmetic about `ValidTimer` and `Runs`. The other two theorems are about
loops: the filter that picks the checks of a type, and the selection of metadata by a
list of pointers. Both are folds, that is the function *chosen* to satisfy their
recursion, so the proof first shows that such a function exists (`FoldExists`), then
what one round adds (`ChecksForRuns`, `AllowRuns`), and then what the loop comes to, by
induction from the least element that every set of numbers has
(`LeastOf`, `Induction`): the filter keeps the order of the configuration
(`ChecksForKeepsOrder`), so the first check with a code among those of the type is the
first among all that there is (`FirstIsFirst`), which is `DecidedByWorst`; and what is left of
listed metadata is every leaf that one of the pointers permits and no other
(`AllowedLeaves`), unless a pointer runs through an object that throws when it is
inspected (`ThrowsIsTrapped`), which is `ExposesAsGiven`. That results belong to their checks
needs the validation: no two checks have the same name (`ResultOfCheck`).

**Only model-checked**:

* all liveness: `EveryOperationAnswered`, `HttpCheckEnds`, `ScheduleRecovers`,
  `ScheduleKeepsRunning`, `EveryRequestAnswered`, `CloseEnds`, `DisposeEnds`, `EveryCallEnds`,
  `EveryCheckEnds`, `ShutdownEnds`. This prover reasons about neither fairness nor ENABLED.
  Of `EveryRequestAnswered`, `EveryCallEnds` and `EveryCheckEnds` the safety is proved: nobody
  waits for what will not come.
* `ConstructsOnce` and `DisposesItsClients`, which the code violates (section 6).

## 6. Findings

*The S3 and DynamoDB v2 adapters may construct their client twice.* Their READMEs
say that it is constructed "once". The code tests `internalClient`, awaits the
import, and assigns without testing again, so two calls of `check()` that come
before the first import has settled each construct one (run `owned_twice`,
`ConstructsOnce`). Within one kit the executor keeps the calls of a *check* apart,
but two checks or two kits that share the adapter, or direct callers, do not.
Nothing leaks that the adapter would close, as it has no `dispose()`.

*The MongoDB adapter may be disposed with a client open.* The README says that
`kit.close()` disposes "adapter-owned clients and pools", and that of the package calls
`dispose()` the terminal shutdown. A check that waited for one reset does not look for another one
when it goes on (`mongodb.ts:71`). Run `mongo_crossed` finds this behaviour:

1. The owner calls `close()`; a check arrives and waits for this reset.
2. The reset ends. Before the check has its turn, the owner calls `close()` again, as in
   `await close(); await close()`. There is no attempt, so this second reset waits for none.
3. The check goes on and starts an attempt under the second reset, which ends by
   clearing the promise of that attempt.
4. The import settles: the attempt makes a client and calls `connect()`.
5. A third `close()` finds no promise to wait for, closes the client and forgets it.
6. `connect()` settles and the client is open; the adapter does not hold it.
7. `dispose()` finds nothing to close and resolves.

The sixth step needs a driver whose `connect()`, under way when `close()` is called, still
opens the client: for instance one that still looks up the host's SRV record, and so has
nothing to close yet. The model leaves the driver free there.

One observation contradicts no statement of the repository and is therefore not a
finding: the mysql adapters and amqp-connection-manager keep a rejected
initialization, so after one failed import every later check fails.
`NoInheritedFailure` excludes them by name of the decision (`rejected = "kept"`).

## 7. What is not modelled

* Latencies, messages, descriptions and dependencies, which are copied and shown;
  headers; the layout of the text and JSON output; the content of hook events. A hook
  that throws is caught by the code and changes no state.
* Custom rollups are a free choice of the status in `Answers`; in `HealthKit` the
  default one decides.
* Supplied clients of mongodb and mongoose, whose connect promise the adapter shares
  between calls; how drizzle detects the driver in a client, and how a value is
  extracted from its rows (no state, no order).
* example-hono, which has a kit and routes of its own and no shutdown; the tooling,
  the integration harness and the documentation site.
* Clock adjustments: the age of a result is a difference of wall-clock times in
  the code; `Freshness` measures elapsed time.
* Awaits that follow each other without a test or an assignment between them are one step:
  in the v3 adapters that of the client and that of the command's import.
* Inside one query: SDK request objects and their listeners, amqplib's channel,
  node-rdkafka's connect on first use are part of the step `Probes`. Which statuses
  an http check expects is free in `Respond`.

## 8. Plan

1. *What composes*: from `KitImplementsExecutor` and `HttpImplementsExecutor`, the http
   adapter under the whole kit; from `KitImplementsLifecycle`, that an adapter inside
   `withDisposal` that only the kit calls finds no call to wait for.
2. *Supplied clients* of mongodb and mongoose in `MongoReset`.
