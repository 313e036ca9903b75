----------------------------- MODULE Scheduler -----------------------------
(***************************************************************************)
(* Scheduler (scheduler.ts): interval timers, the cache of scheduled       *)
(* results, the runs it still waits for, and the observability hooks, on   *)
(* top of the executor.                                                    *)
(*                                                                         *)
(* A scheduled run is one call of executeAndCache.  It belongs to one      *)
(* operation and an operation has at most one of them, so the run carries  *)
(* the name of its operation: pending[c] = o is the map's entry            *)
(* { operation: o, result: the promise of o's run }, cache[c] = o is the   *)
(* CachedResult that o's run produced.                                     *)
(*                                                                         *)
(* Reactions to a settled promise are jobs.  Timer callbacks run only when *)
(* no job is left; callers may act between any two jobs.                   *)
(***************************************************************************)
EXTENDS Executor, Naturals

CONSTANTS
  Scheduled,  \* the checks configured with a schedule
  TreatAs,    \* check.onFail.treatAs, "none" where it is not configured
  MaxStops    \* bound: how often a behaviour stops the scheduler

ASSUME SchedulerAssumption ==
  /\ Scheduled \subseteq Check
  /\ TreatAs \in [Check -> Status \cup {"none"}]
  /\ MaxStops \in Nat

VARIABLES
  timers,     \* the checks whose interval timer is set
  cache,      \* cache[c]: the run whose result is cached
  pending,    \* pending[c]: the latest scheduled run
  generation, \* lifecycle counter, incremented by stop()
  observed,   \* the operations runCheck has attached hooks to
  statuses,   \* statuses[c]: status of the last completion of this lifecycle
  unheard,    \* unheard[o]: completion callbacks attached to o, not yet run
  heardIn,    \* heardIn[o]: generation captured when they were attached
  run,        \* run[o]: the promise of o's scheduled run
  runIn,      \* runIn[o]: generation captured when that run began
  events,     \* history: how many onCheckComplete events o has caused
  followed    \* history: followed[c]: the status a listener knows who takes the
              \* first completion of a lifecycle as baseline and then hears
              \* only onStatusChange

hookVars  == <<observed, statuses, unheard, heardIn, events, followed>>
cacheVars == <<timers, cache, pending, generation, run, runIn>>
schedulerVars == <<executorVars, hookVars, cacheVars>>

NoRun   == "none"
Waiting == "waiting"     \* executeAndCache awaits its operation
Stopped == "stopped"     \* it found that its lifecycle was over
RunState == Outcome \cup {Timeout, NoRun, Waiting, Stopped}

Generation == 0 .. MaxStops + 1

SchedulerTypeOK ==
  /\ ExecutorTypeOK
  /\ timers \subseteq Scheduled
  /\ cache \in [Check -> Op \cup {NoOp}]
  /\ pending \in [Check -> Op \cup {NoOp}]
  /\ generation \in Generation
  /\ observed \subseteq Op
  /\ statuses \in [Check -> Status \cup {"none"}]
  /\ unheard \in [Op -> Nat]
  /\ heardIn \in [Op -> Generation]
  /\ run \in [Op -> RunState]
  /\ runIn \in [Op -> Generation]
  /\ events \in [Op -> Nat]
  /\ followed \in [Check -> Status \cup {"none"}]

SchedulerInit ==
  /\ ExecutorInit
  /\ timers = {}
  /\ cache = [c \in Check |-> NoOp]
  /\ pending = [c \in Check |-> NoOp]
  /\ generation = 0
  /\ observed = {}
  /\ statuses = [c \in Check |-> "none"]
  /\ unheard = [o \in Op |-> 0]
  /\ heardIn = [o \in Op |-> 0]
  /\ run = [o \in Op |-> NoRun]
  /\ runIn = [o \in Op |-> 0]
  /\ events = [o \in Op |-> 0]
  /\ followed = [c \in Check |-> "none"]

-----------------------------------------------------------------------------
\* The status a result is reported with.
Effective(c, res) ==
  LET status == IF res \in Status THEN res ELSE "fail" IN
  IF status = "fail" /\ TreatAs[c] # "none" THEN TreatAs[c] ELSE status

\* An unused identity for the next operation of c.
Fresh(c)    == CHOOSE o \in Op : CheckOf[o] = c /\ phase[o] = "unused"
HasFresh(c) == \E o \in Op : CheckOf[o] = c /\ phase[o] = "unused"

\* The operation executor.run returns for c.
Running(c) == IF inFlight[c] = NoOp THEN Fresh(c) ELSE inFlight[c]

\* A slip (see Executor).
RunCheck_ObservesAgain(S) ==
  LET ops == {Running(c) : c \in S} IN
  /\ \A c \in S : inFlight[c] = NoOp => HasFresh(c)
  /\ Launch([c \in {d \in S : inFlight[d] = NoOp} |-> Fresh(c)])
  /\ observed' = observed \cup ops
  /\ unheard' = [o \in Op |-> IF o \in ops THEN unheard[o] + 1 ELSE unheard[o]]
  /\ heardIn' = [o \in Op |-> IF o \in ops THEN generation ELSE heardIn[o]]
  /\ UNCHANGED <<statuses, events, followed>>

\* runCheck for the checks of S in one synchronous turn: share or launch their
\* operations and attach the completion callback once to each.
RunCheck(S) ==
  LET ops == {Running(c) : c \in S}
      new == ops \ observed
  IN
  /\ \A c \in S : inFlight[c] = NoOp => HasFresh(c)
  /\ Launch([c \in {d \in S : inFlight[d] = NoOp} |-> Fresh(c)])
  /\ observed' = observed \cup ops
  /\ unheard' = [o \in Op |-> IF o \in new THEN unheard[o] + 1 ELSE unheard[o]]
  /\ heardIn' = [o \in Op |-> IF o \in new THEN generation ELSE heardIn[o]]
  /\ UNCHANGED <<statuses, events, followed>>

\* A slip (see Executor).
RunsAlready_EverRan(c) == pending[c] # NoOp

\* The scheduled run of c is the one already in flight.
RunsAlready(c) == inFlight[c] # NoOp /\ pending[c] = inFlight[c]

\* runAndCache for the checks of S in one synchronous turn.  An operation that
\* is in flight on somebody else's demand is adopted.
RunAndCache(S) ==
  LET live == {c \in S : ~RunsAlready(c)}
      ops  == {Running(c) : c \in live}
  IN
  /\ RunCheck(live)
  /\ pending' = [c \in Check |-> IF c \in live THEN Running(c) ELSE pending[c]]
  /\ run' = [o \in Op |-> IF o \in ops THEN Waiting ELSE run[o]]
  /\ runIn' = [o \in Op |-> IF o \in ops THEN generation ELSE runIn[o]]

\* start(): run every scheduled check at once and set its interval timer.
StartSchedule ==
  /\ RunAndCache(Scheduled \ timers)
  /\ timers' = Scheduled
  /\ UNCHANGED <<cache, generation>>

\* stopTimers(): the intervals end, everything else stays.
StopTimers == timers' = {}

\* Slips (see Executor).
StopSchedule_With(cached, kept) ==
  /\ StopTimers
  /\ cache' = cached
  /\ generation' = generation + 1
  /\ statuses' = [c \in Check |-> "none"]
  /\ followed' = [c \in Check |-> "none"]
  /\ pending' = kept
  /\ UNCHANGED <<executorVars, observed, unheard, heardIn, events, run, runIn>>
StopSchedule_KeepsCache   == StopSchedule_With(cache, [c \in Check |->
                               IF RunsAlready(c) THEN pending[c] ELSE NoOp])
StopSchedule_DropsPending == StopSchedule_With([c \in Check |-> NoOp], [c \in Check |-> NoOp])

\* stop(): a new lifecycle.  Runs whose operation is still in flight are kept,
\* so that a restart does not take their result for its own.
StopSchedule ==
  /\ StopTimers
  /\ cache' = [c \in Check |-> NoOp]
  /\ generation' = generation + 1
  /\ statuses' = [c \in Check |-> "none"]
  /\ followed' = [c \in Check |-> "none"]
  /\ pending' = [c \in Check |-> IF RunsAlready(c) THEN pending[c] ELSE NoOp]
  /\ UNCHANGED <<executorVars, observed, unheard, heardIn, events, run, runIn>>

-----------------------------------------------------------------------------
\* onStatusChange is called for a completion that follows another one of this
\* lifecycle with another status; the first completion is the baseline.
\* (The first is a slip, see Executor.)
ChangesStatus_ToFailOnly(c, status) == statuses[c] # "none" /\ status = "fail"
ChangesStatus(c, status) == statuses[c] # "none" /\ statuses[c] # status
IsBaseline(c)            == statuses[c] = "none"

\* The completion callback of runCheck.  It is silent in a later lifecycle.
Complete(o) ==
  LET c == CheckOf[o]
      status == Effective(c, result[o])
  IN
  /\ Decided(o)
  /\ unheard[o] > 0
  /\ unheard' = [unheard EXCEPT ![o] = @ - 1]
  /\ IF heardIn[o] = generation
     THEN /\ statuses' = [statuses EXCEPT ![c] = status]
          /\ events' = [events EXCEPT ![o] = @ + 1]
          /\ followed' = [followed EXCEPT ![c] =
                            IF ChangesStatus(c, status) \/ IsBaseline(c) THEN status ELSE @]
     ELSE UNCHANGED <<statuses, events, followed>>
  /\ UNCHANGED <<executorVars, observed, heardIn, cacheVars>>

\* Slips (see Executor).
FinishRun_With(o, current, worthCaching) ==
  /\ run[o] = Waiting
  /\ Decided(o)
  /\ unheard[o] = 0
  /\ run' = [run EXCEPT ![o] = IF current THEN result[o] ELSE Stopped]
  /\ cache' = IF current /\ worthCaching THEN [cache EXCEPT ![CheckOf[o]] = o] ELSE cache
  /\ UNCHANGED <<executorVars, hookVars, timers, pending, generation, runIn>>
FinishRun_AnyLifecycle(o) == FinishRun_With(o, TRUE, TRUE)
FinishRun_NoFailures(o)   == FinishRun_With(o, runIn[o] = generation, result[o] = "ok")

\* executeAndCache resumes: it caches the result in its own lifecycle only.
\* The completion callback was attached to the operation before.
FinishRun(o) ==
  /\ run[o] = Waiting
  /\ Decided(o)
  /\ unheard[o] = 0
  /\ IF runIn[o] = generation
     THEN /\ cache' = [cache EXCEPT ![CheckOf[o]] = o]
          /\ run' = [run EXCEPT ![o] = result[o]]
     ELSE /\ run' = [run EXCEPT ![o] = Stopped]
          /\ UNCHANGED cache
  /\ UNCHANGED <<executorVars, hookVars, timers, pending, generation, runIn>>

\* Reactions to the operation's answer wait in the job queue.
Reacting(o) == Decided(o) /\ (unheard[o] > 0 \/ run[o] = Waiting)

\* Jobs of the executor and of the scheduler wait to run.
SchedulerJobs == \E o \in Op : phase[o] = "queued" \/ Reacting(o)

\* The interval timer of c fires.
Tick(c) ==
  /\ c \in timers
  /\ ~SchedulerJobs
  /\ RunAndCache({c})
  /\ UNCHANGED <<timers, cache, generation>>

\* The steps of the executor below the scheduler.  The reactions to the
\* previous operation of a check are queued before the next one can settle.
AdapterCalled(o) ==
  CallAdapter(o) /\ UNCHANGED <<hookVars, cacheVars>>

AdapterSettles(o) ==
  /\ \A p \in Op \ {o} : CheckOf[p] = CheckOf[o] => ~Reacting(p)
  /\ \E v \in Outcome : Settle(o, v)
  /\ UNCHANGED <<hookVars, cacheVars>>

DeadlineFires(o) ==
  Deadline(o) /\ ~SchedulerJobs /\ UNCHANGED <<hookVars, cacheVars>>

\* Neither a map nor a job of the scheduler refers to the operation.
Unreferenced(o) ==
  /\ unheard[o] = 0
  /\ run[o] # Waiting
  /\ pending[CheckOf[o]] # o
  /\ cache[CheckOf[o]] # o

\* The operation and its run are collected.
ForgetRun(o) ==
  /\ Unreferenced(o)
  /\ Forget(o)
  /\ observed' = observed \ {o}
  /\ heardIn' = [heardIn EXCEPT ![o] = 0]
  /\ events' = [events EXCEPT ![o] = 0]
  /\ run' = [run EXCEPT ![o] = NoRun]
  /\ runIn' = [runIn EXCEPT ![o] = 0]
  /\ UNCHANGED <<statuses, unheard, followed, timers, cache, pending, generation>>

-----------------------------------------------------------------------------
\* Callers.  start() and stop() reach the scheduler through HealthKit, which
\* calls start only when it is stopped; runCheck comes from any request.
CallStart == timers = {} /\ Scheduled # {} /\ StartSchedule
CallStop  == generation < MaxStops /\ StopSchedule
OnDemand(c) ==
  /\ inFlight[c] = NoOp
  /\ RunCheck({c})
  /\ UNCHANGED cacheVars

SchedulerNext ==
  \/ CallStart
  \/ CallStop
  \/ \E c \in Check : OnDemand(c) \/ Tick(c)
  \/ \E o \in Op :
       \/ AdapterCalled(o) \/ AdapterSettles(o) \/ DeadlineFires(o)
       \/ Complete(o) \/ FinishRun(o) \/ ForgetRun(o)

SchedulerSpec == SchedulerInit /\ [][SchedulerNext]_schedulerVars

\* The event loop runs every job and, however busy it is, every due timer.
\* Operation identities are collected.
LoopFairness ==
  /\ \A o \in Op :
       /\ WF_schedulerVars(AdapterCalled(o))
       /\ WF_schedulerVars(Complete(o))
       /\ WF_schedulerVars(FinishRun(o))
       /\ WF_schedulerVars(ForgetRun(o))
       /\ SF_schedulerVars(DeadlineFires(o))
  /\ \A c \in Check : SF_schedulerVars(Tick(c))

\* Adapters that do settle in the end.
AdapterFairness == \A o \in Op : WF_schedulerVars(AdapterSettles(o))

SchedulerFairSpec == SchedulerSpec /\ LoopFairness /\ AdapterFairness
-----------------------------------------------------------------------------
\* Whatever a probe is given without a new execution is of this lifecycle: the
\* cache always, and the run a probe would wait for as far as an adapter has
\* answered it.  What may outlive a restart is a failure, the timeout of a call
\* that still hangs or the notice that its run was stopped (scheduler.ts,
\* "Retain stopped scheduled runs so a restart cannot adopt their old result").
ServedIsCurrent ==
  \A c \in Check :
    /\ cache[c] # NoOp => runIn[cache[c]] = generation
    /\ c \in timers /\ pending[c] # NoOp /\ run[pending[c]] \in Outcome
         => runIn[pending[c]] = generation

\* A run is begun once.  A scheduled operation that is still in flight at a
\* restart is not taken over as a run of the new lifecycle: its late success
\* would be cached as if it had been measured after the restart.
RunsBeginOnce ==
  [][\A o \in Op :
       run[o] # NoRun /\ phase'[o] # "unused" => runIn'[o] = runIn[o]]_schedulerVars

\* The cache is never older than the latest scheduled run that has ended,
\* failures and timeouts included: a cached success does not survive a run that
\* failed after it.
CacheIsNewestRun ==
  \A c \in timers : cache[c] # NoOp /\ cache[c] # pending[c] => run[pending[c]] = Waiting

\* One completion event per underlying execution, however many callers share
\* it or adopt it (types.ts, CheckCompleteEvent), and no execution that began
\* in this lifecycle goes unreported once its callbacks have run.
OneEventPerExecution ==
  \A o \in Op :
    /\ events[o] <= 1
    /\ o \in observed /\ unheard[o] = 0 /\ heardIn[o] = generation => events[o] = 1

\* Transitions are complete: a listener of onStatusChange always knows the
\* status of the check's latest completion of this lifecycle.
TransitionsTellStatus == followed = statuses

\* While scheduling stays on and adapters settle in the end, a check that has
\* no cached result gets one, also when the run of the previous lifecycle was
\* still in flight at the restart.
ScheduleRecovers ==
  \A c \in Scheduled : (c \in timers) ~> (cache[c] # NoOp \/ c \notin timers)

\* A schedule does not die: while it stays on, its check is executed again and
\* again, whatever timeouts and on-demand callers do in between.
ScheduleKeepsRunning ==
  \A c \in Scheduled :
    <>[](c \in timers) => []<>(inFlight[c] # NoOp) /\ []<>(inFlight[c] = NoOp)
=============================================================================
