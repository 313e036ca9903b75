----------------------------- MODULE HealthKit -----------------------------
(***************************************************************************)
(* HealthKit (healthkit.ts) with runChecks (runner.ts): requests, the      *)
(* schedule's lifecycle, drain and close, on top of the scheduler.         *)
(*                                                                         *)
(* A request runs its checks in parallel, one branch of Promise.all each.  *)
(* A branch begins in the turn that accepts the request: it takes the      *)
(* cached result, or it waits for the scheduled run, or, one job later, it *)
(* asks for an execution.                                                  *)
(*                                                                         *)
(* Time is abstract here: whether a cached result is older than the check  *)
(* allows is a free choice at each read (module Freshness measures it).    *)
(***************************************************************************)
EXTENDS Scheduler

CONSTANTS
  Request,    \* identities of requests; one is used again after its answer
  CheckType,  \* the probe types that are requested
  TypesOf,    \* the types a check is configured with
  Adapter,    \* the distinct adapter objects
  AdapterOf   \* the adapter of a check; checks may share one

ASSUME HealthKitAssumption ==
  /\ CheckType \subseteq {"liveness", "readiness", "startup"}
  /\ TypesOf \in [Check -> SUBSET CheckType]
  /\ AdapterOf \in [Check -> Adapter]
  /\ \A a \in Adapter : \E c \in Check : AdapterOf[c] = a

VARIABLES
  started,    \* start() has been called since the last stop()
  stage,      \* "open", then the await that close() has reached
  draining,   \* beginDrain() has been called
  progress,   \* progress[r]: what the request r is doing
  type,       \* type[r]: the probe type it asked for
  api,        \* api[r]: check*() or handle*()
  branch,     \* branch[r][c]: the branch of r for check c
  answer,     \* answer[r]: overall status, "none" before it is computed
  acceptedIn, \* history: acceptedIn[r]: the lifecycle r was accepted in
  disposal,   \* disposal[a]: progress of the adapter's dispose()
  disposals   \* history: how often dispose() of an adapter was called

requestVars == <<progress, type, api, branch, answer, acceptedIn>>
closeVars   == <<stage, disposal, disposals>>
kitVars     == <<started, draining, requestVars, closeVars>>
vars        == <<schedulerVars, kitVars>>

Api == {"structured", "http"}
Served == Outcome \cup {Timeout, Stopped, "stale"}

NoBranch         == [at |-> "none", op |-> NoOp, value |-> "none"]
Looking          == [at |-> "lookup", op |-> NoOp, value |-> "none"]
AwaitsRun(o)     == [at |-> "run", op |-> o, value |-> "none"]
AwaitsAnswer(o)  == [at |-> "operation", op |-> o, value |-> "none"]
Returned(v)      == [at |-> "done", op |-> NoOp, value |-> v]

Branch == [at : {"none", "lookup", "run", "operation", "done"},
           op : Op \cup {NoOp}, value : Served \cup {"none"}]

HealthKitTypeOK ==
  /\ SchedulerTypeOK
  /\ started \in BOOLEAN
  /\ stage \in {"open", "requests", "settling", "disposing", "closed", "failed"}
  /\ draining \in BOOLEAN
  /\ progress \in [Request -> {"idle", "checking", "formatting", "done"}]
  /\ type \in [Request -> CheckType \cup {"none"}]
  /\ api \in [Request -> Api]
  /\ branch \in [Request -> [Check -> Branch]]
  /\ answer \in [Request -> Status \cup {"none"}]
  /\ acceptedIn \in [Request -> Generation]
  /\ disposal \in [Adapter -> {"none", "called", "ok", "failed"}]
  /\ disposals \in [Adapter -> Nat]

HealthKitInit ==
  /\ SchedulerInit
  /\ started = FALSE
  /\ stage = "open"
  /\ draining = FALSE
  /\ progress = [r \in Request |-> "idle"]
  /\ type = [r \in Request |-> "none"]
  /\ api = [r \in Request |-> "structured"]
  /\ branch = [r \in Request |-> [c \in Check |-> NoBranch]]
  /\ answer = [r \in Request |-> "none"]
  /\ acceptedIn = [r \in Request |-> 0]
  /\ disposal = [a \in Adapter |-> "none"]
  /\ disposals = [a \in Adapter |-> 0]

Accepted(r)  == progress[r] \in {"checking", "formatting"}
ChecksFor(t) == {c \in Check : t \in TypesOf[c]}
Drained(t)   == t = "readiness" /\ draining

-----------------------------------------------------------------------------
\* start(): idempotent, refused once close() was called.
Start ==
  /\ stage = "open"
  /\ ~started
  /\ StartSchedule
  /\ started' = TRUE
  /\ UNCHANGED <<draining, requestVars, closeVars>>

\* stop(): allowed in every stage.
Stop ==
  /\ generation < MaxStops
  /\ StopSchedule
  /\ started' = FALSE
  /\ UNCHANGED <<draining, requestVars, closeVars>>

\* beginDrain(): permanent.
BeginDrain ==
  /\ ~draining
  /\ draining' = TRUE
  /\ UNCHANGED <<schedulerVars, started, requestVars, closeVars>>

\* What the branch for c does in the turn that accepts the request; old tells
\* whether a cached result is too old.
BeginBranch(c, old) ==
  IF cache[c] # NoOp
    THEN Returned(IF old THEN "stale" ELSE run[cache[c]])
  ELSE IF c \in timers /\ pending[c] # NoOp
    THEN AwaitsRun(pending[c])
  ELSE Looking

\* handle*() (a = "http") and check*() (a = "structured") for type t.  A
\* drained readiness request is answered without running any check.
Accept(r, t, a) ==
  /\ stage = "open"
  /\ ~Accepted(r)
  /\ type' = [type EXCEPT ![r] = t]
  /\ api' = [api EXCEPT ![r] = a]
  /\ acceptedIn' = [acceptedIn EXCEPT ![r] = generation]
  /\ IF Drained(t)
     THEN /\ progress' = [progress EXCEPT ![r] = IF a = "http" THEN "formatting" ELSE "done"]
          /\ answer' = [answer EXCEPT ![r] = "fail"]
          /\ UNCHANGED branch
     ELSE /\ progress' = [progress EXCEPT ![r] = "checking"]
          /\ answer' = [answer EXCEPT ![r] = "none"]
          /\ \E Old \in SUBSET {c \in ChecksFor(t) : cache[c] # NoOp} :
               branch' = [branch EXCEPT ![r] =
                 [c \in Check |-> IF c \in ChecksFor(t) THEN BeginBranch(c, c \in Old)
                                  ELSE NoBranch]]
  /\ UNCHANGED <<schedulerVars, started, draining, closeVars>>

\* Neither a cached result nor a run to wait for: the branch asks for an
\* execution, one job after it looked.
Execute(r, c) ==
  /\ branch[r][c].at = "lookup"
  /\ RunCheck({c})
  /\ branch' = [branch EXCEPT ![r][c] = AwaitsAnswer(Running(c))]
  /\ UNCHANGED <<cacheVars, started, draining, progress, type, api, answer, acceptedIn,
                 closeVars>>

\* The operation a branch waits for has been answered.  The completion
\* callback was attached before the branch.
CanTakeAnswer(r, c) ==
  LET b == branch[r][c] IN
  b.at = "operation" /\ Decided(b.op) /\ unheard[b.op] = 0

TakeAnswer(r, c) ==
  /\ CanTakeAnswer(r, c)
  /\ branch' = [branch EXCEPT ![r][c] = Returned(result[branch[r][c].op])]
  /\ UNCHANGED <<schedulerVars, started, draining, progress, type, api, answer,
                 acceptedIn, closeVars>>

\* The scheduled run a branch waits for has produced its CachedResult.  A run
\* that ended long ago is subject to the age limit like the cache.
CanTakeRun(r, c) ==
  LET b == branch[r][c] IN b.at = "run" /\ run[b.op] \notin {NoRun, Waiting}

TakeRun(r, c) ==
  /\ CanTakeRun(r, c)
  /\ \E v \in {run[branch[r][c].op], "stale"} :
       branch' = [branch EXCEPT ![r][c] = Returned(v)]
  /\ UNCHANGED <<schedulerVars, started, draining, progress, type, api, answer,
                 acceptedIn, closeVars>>

\* Default rollup of the statuses the checks are reported with.
Rollup(statusSet) ==
  IF "fail" \in statusSet THEN "fail"
  ELSE IF "degraded" \in statusSet THEN "degraded" ELSE "ok"

BranchesDone(r) ==
  progress[r] = "checking" /\ \A c \in ChecksFor(type[r]) : branch[r][c].at = "done"

\* A slip (see Executor).
Format_NoRecheck(r) ==
  /\ progress[r] = "formatting"
  /\ progress' = [progress EXCEPT ![r] = "done"]
  /\ UNCHANGED <<schedulerVars, started, draining, type, api, branch, answer, acceptedIn,
                 closeVars>>

\* Promise.all has resolved: the rest of checkForTypeOpen.
Conclude(r) ==
  /\ BranchesDone(r)
  /\ answer' = [answer EXCEPT ![r] =
       IF Drained(type[r]) THEN "fail"
       ELSE Rollup({Effective(c, branch[r][c].value) : c \in ChecksFor(type[r])})]
  /\ progress' = [progress EXCEPT ![r] = IF api[r] = "http" THEN "formatting" ELSE "done"]
  /\ branch' = [branch EXCEPT ![r] = [c \in Check |-> NoBranch]]
  /\ UNCHANGED <<schedulerVars, started, draining, type, api, acceptedIn, closeVars>>

\* runForTypeOpen resumes with the structured response.
Format(r) ==
  /\ progress[r] = "formatting"
  /\ answer' = [answer EXCEPT ![r] = IF Drained(type[r]) THEN "fail" ELSE @]
  /\ progress' = [progress EXCEPT ![r] = "done"]
  /\ UNCHANGED <<schedulerVars, started, draining, type, api, branch, acceptedIn, closeVars>>

-----------------------------------------------------------------------------
\* close(): the first call; later calls return the same promise.
Close ==
  /\ stage = "open"
  /\ stage' = "requests"
  /\ StopTimers
  /\ UNCHANGED <<executorVars, hookVars, cache, pending, generation, run, runIn,
                 started, draining, requestVars, disposal, disposals>>

\* A slip (see Executor).
CanSettleRequests_Now == stage = "requests"

\* Every accepted request has been answered.
CanSettleRequests == stage = "requests" /\ \A r \in Request : ~Accepted(r)

RequestsSettled ==
  /\ CanSettleRequests
  /\ stage' = "settling"
  /\ UNCHANGED <<schedulerVars, started, draining, requestVars, disposal, disposals>>

\* Every operation has settled; the reactions to its answer are queued before
\* the continuation of settle().  stop(), then dispose() of every adapter, all
\* called in the same turn.
CanDispose == stage = "settling" /\ operations = {} /\ \A o \in Op : ~Reacting(o)

\* A slip (see Executor).
DisposeAdapters_PerCheck ==
  /\ CanDispose
  /\ StopSchedule
  /\ started' = FALSE
  /\ stage' = "disposing"
  /\ disposal' = [a \in Adapter |-> "called"]
  /\ disposals' = [a \in Adapter |->
                    disposals[a] + Cardinality({c \in Check : AdapterOf[c] = a})]
  /\ UNCHANGED <<draining, requestVars>>

DisposeAdapters ==
  /\ CanDispose
  /\ StopSchedule
  /\ started' = FALSE
  /\ stage' = "disposing"
  /\ disposal' = [a \in Adapter |-> "called"]
  /\ disposals' = [a \in Adapter |-> disposals[a] + 1]
  /\ UNCHANGED <<draining, requestVars>>

\* dispose() of one adapter settles.
Disposed(a) ==
  /\ stage = "disposing"
  /\ disposal[a] = "called"
  /\ \E ending \in {"ok", "failed"} : disposal' = [disposal EXCEPT ![a] = ending]
  /\ UNCHANGED <<schedulerVars, started, draining, requestVars, stage, disposals>>

\* All of them have: close() resolves, or rejects with their errors.
CanFinish == stage = "disposing" /\ \A a \in Adapter : disposal[a] # "called"

FinishClose ==
  /\ CanFinish
  /\ stage' = IF \E a \in Adapter : disposal[a] = "failed" THEN "failed" ELSE "closed"
  /\ UNCHANGED <<schedulerVars, started, draining, requestVars, disposal, disposals>>

-----------------------------------------------------------------------------
\* Jobs of the kit wait to run: no timer fires before they have.
KitJobs ==
  \/ \E r \in Request :
       \/ BranchesDone(r)
       \/ progress[r] = "formatting"
       \/ \E c \in Check :
            branch[r][c].at = "lookup" \/ CanTakeAnswer(r, c) \/ CanTakeRun(r, c)
  \/ CanSettleRequests \/ CanDispose \/ CanFinish

\* The scheduler's own steps.  An operation is collected when no branch waits
\* for it either.
SchedulerJob(o) ==
  (AdapterCalled(o) \/ Complete(o) \/ FinishRun(o)) /\ UNCHANGED kitVars
Collect(o) ==
  /\ \A r \in Request, c \in Check : branch[r][c].op # o
  /\ ForgetRun(o)
  /\ UNCHANGED kitVars
AdapterAnswers(o) == AdapterSettles(o) /\ UNCHANGED kitVars
DeadlineTimer(o)  == DeadlineFires(o) /\ ~KitJobs /\ UNCHANGED kitVars
IntervalTimer(c)  == Tick(c) /\ ~KitJobs /\ UNCHANGED kitVars

RequestJob(r) ==
  \/ \E c \in Check : Execute(r, c) \/ TakeAnswer(r, c) \/ TakeRun(r, c)
  \/ Conclude(r)
  \/ Format(r)

CloseJob == RequestsSettled \/ DisposeAdapters \/ FinishClose

HealthKitNext ==
  \/ Start \/ Stop \/ BeginDrain \/ Close
  \/ \E r \in Request, t \in CheckType, a \in Api : Accept(r, t, a)
  \/ \E r \in Request : RequestJob(r)
  \/ \E o \in Op : SchedulerJob(o) \/ Collect(o) \/ AdapterAnswers(o) \/ DeadlineTimer(o)
  \/ \E c \in Check : IntervalTimer(c)
  \/ CloseJob
  \/ \E a \in Adapter : Disposed(a)

HealthKitSpec == HealthKitInit /\ [][HealthKitNext]_vars

\* The event loop runs every job, and every due timer however busy it is.
KitLoopFairness ==
  /\ \A r \in Request : WF_vars(RequestJob(r))
  /\ \A o \in Op :
       WF_vars(SchedulerJob(o)) /\ WF_vars(Collect(o)) /\ SF_vars(DeadlineTimer(o))
  /\ WF_vars(CloseJob)

\* check() and dispose() of every adapter settle in the end.
KitAdapterFairness ==
  /\ \A o \in Op : WF_vars(AdapterAnswers(o))
  /\ \A a \in Adapter : WF_vars(Disposed(a))

\* The kit with adapters that may hang.
HangingSpec == HealthKitSpec /\ KitLoopFairness
=============================================================================
