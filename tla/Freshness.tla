----------------------------- MODULE Freshness -----------------------------
(***************************************************************************)
(* How old the cached result of a scheduled check can get (runner.ts, the  *)
(* age limit; scheduler.ts, the interval timer; timeout.ts, the deadline), *)
(* in time units, for timers that fire when they are due.                  *)
(*                                                                         *)
(* Modules Scheduler and HealthKit leave time out and let a probe find any *)
(* cached result too old.  Here there is one check, started, without       *)
(* on-demand callers, and the question is when that can happen.            *)
(***************************************************************************)
EXTENDS Integers

CONSTANTS
  IntervalMs, \* check.schedule.intervalMs
  TimeoutMs,  \* check.timeout
  Horizon     \* bound: how long an adapter may hang

ASSUME FreshnessAssumption ==
  /\ IntervalMs \in Nat \ {0}
  /\ TimeoutMs \in Nat \ {0}
  /\ Horizon \in Nat

VARIABLES
  sinceTick,  \* time since the interval timer was set or last fired
  call,       \* the adapter call: "none", "running", or "overdue" once the
              \* deadline has answered for it
  age,        \* how long it has been outstanding
  cache,      \* what is cached: "none", a "result", or the "timeout"
  cacheAge    \* Date.now() - cachedAt

freshVars == <<sinceTick, call, age, cache, cacheAge>>

FreshTypeOK ==
  /\ sinceTick \in 0 .. IntervalMs
  /\ call \in {"none", "running", "overdue"}
  /\ age \in Nat
  /\ cache \in {"none", "result", "timeout"}
  /\ cacheAge \in Nat

\* start(): the first run begins with the interval.
FreshInit ==
  /\ sinceTick = 0
  /\ call = "running" /\ age = 0
  /\ cache = "none" /\ cacheAge = 0

TickDue     == sinceTick = IntervalMs
DeadlineDue == call = "running" /\ age = TimeoutMs

\* A slip: X_Why is the definition X with the mistake Why; no specification
\* uses it.
MaxAgeMs_IntervalOnly == IntervalMs

\* What runChecks allows a scheduled result.
MaxAgeMs == IntervalMs + TimeoutMs
Stale    == cache # "none" /\ cacheAge >= MaxAgeMs

Caches(v) == cache' = v /\ cacheAge' = 0

-----------------------------------------------------------------------------
\* Time passes when no timer is due.
Elapse ==
  /\ ~TickDue /\ ~DeadlineDue
  /\ age < Horizon
  /\ sinceTick' = sinceTick + 1
  /\ age' = IF call = "none" THEN 0 ELSE age + 1
  /\ cacheAge' = IF cache = "none" THEN 0 ELSE cacheAge + 1
  /\ UNCHANGED <<call, cache>>

\* The interval timer: a run begins unless one is in flight.
IntervalFires ==
  /\ TickDue
  /\ sinceTick' = 0
  /\ IF call = "none" THEN call' = "running" /\ age' = 0 ELSE UNCHANGED <<call, age>>
  /\ UNCHANGED <<cache, cacheAge>>

\* The adapter settles; its result is cached unless the timeout was.
AdapterSettles ==
  /\ call # "none"
  /\ call' = "none" /\ age' = 0
  /\ IF call = "running" THEN Caches("result") ELSE UNCHANGED <<cache, cacheAge>>
  /\ UNCHANGED sinceTick

\* The deadline answers, and the timeout is cached; the call stays in flight.
DeadlineFires ==
  /\ DeadlineDue
  /\ call' = "overdue"
  /\ Caches("timeout")
  /\ UNCHANGED <<sinceTick, age>>

FreshNext == Elapse \/ IntervalFires \/ AdapterSettles \/ DeadlineFires

FreshSpec == FreshInit /\ [][FreshNext]_freshVars
-----------------------------------------------------------------------------
\* The age limit never turns a result into a failure while the adapter keeps
\* its deadline, however ticks, skipped ticks and settlements fall: a probe
\* finds a result stale only in the very instant in which the deadline of the
\* next run is due.  Otherwise what is stale is a timeout.
StaleOnlyWhenOverdue == Stale => cache = "timeout" \/ DeadlineDue
=============================================================================
