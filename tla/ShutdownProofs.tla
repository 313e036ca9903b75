--------------------------- MODULE ShutdownProofs ---------------------------
(***************************************************************************)
(* What the age limit of scheduled results and the shutdown of the example *)
(* guarantee, for every interval and timeout, every number of request      *)
(* handlers and every setting of the timers in which pool operations are   *)
(* shorter than the drain and the drain is shorter than the deadline.      *)
(*                                                                         *)
(* The age limit is interval plus timeout, whichever is longer.  Its       *)
(* invariant bounds the age of the cache by the interval timer while no    *)
(* call is outstanding, and by one interval plus the age of the call while *)
(* one is: a run begins only at a tick, and at a tick without outstanding  *)
(* call the cache is at most one interval old.                             *)
(*                                                                         *)
(* That nobody uses the pool when it is ended rests on time alone: no code *)
(* waits for the last scheduled run.  DrainOutlastsRun carries the         *)
(* argument: a run that is still out during the drain is as old as the     *)
(* drain at least, and no run is older than Horizon.                       *)
(***************************************************************************)
EXTENDS Shutdown, TLAPS


\* A running call has not passed its deadline.
CallInTime == call = "running" => age <= TimeoutMs

\* Without outstanding call something is cached, and a result is no older than
\* the last tick.
IdleAge == call = "none" => cache # "none" /\ (cache = "result" => cacheAge <= sinceTick)

\* With a call running a result is at most one interval older than the call.
BusyAge == call = "running" /\ cache = "result" => cacheAge <= IntervalMs + age

\* A call that missed its deadline has its timeout cached.
OverdueCached == call = "overdue" => cache = "timeout"

FreshIInv == FreshTypeOK /\ CallInTime /\ IdleAge /\ BusyAge /\ OverdueCached

LEMMA FreshInitInv == FreshInit => FreshIInv
  BY FreshnessAssumption
  DEF FreshInit, FreshIInv, FreshTypeOK, CallInTime, IdleAge, BusyAge, OverdueCached

LEMMA FreshStepInv == FreshIInv /\ [FreshNext]_freshVars => FreshIInv'
<1> SUFFICES ASSUME FreshIInv, [FreshNext]_freshVars PROVE FreshIInv'
  OBVIOUS
<1> USE FreshnessAssumption DEF FreshIInv, FreshTypeOK, CallInTime, IdleAge, BusyAge, OverdueCached
<1>1. CASE Elapse
  <2>1. /\ sinceTick' = sinceTick + 1 /\ sinceTick # IntervalMs
        /\ call' = call /\ cache' = cache
        /\ call = "running" => age # TimeoutMs
    BY <1>1 DEF Elapse, TickDue, DeadlineDue
  <2>2. age' = IF call = "none" THEN 0 ELSE age + 1
    BY <1>1 DEF Elapse
  <2>3. cacheAge' = IF cache = "none" THEN 0 ELSE cacheAge + 1
    BY <1>1 DEF Elapse
  <2>4. FreshTypeOK'
    BY <2>1, <2>2, <2>3
  <2>5. CallInTime'
    BY <2>1, <2>2
  <2>6. IdleAge' /\ BusyAge' /\ OverdueCached'
    BY <2>1, <2>2, <2>3
  <2>7. QED BY <2>4, <2>5, <2>6
<1>2. CASE IntervalFires
  BY <1>2 DEF IntervalFires, TickDue
<1>3. CASE AdapterSettles
  <2>1. /\ call # "none" /\ call' = "none" /\ age' = 0 /\ sinceTick' = sinceTick
        /\ call = "running" => cache' = "result" /\ cacheAge' = 0
        /\ call # "running" => cache' = cache /\ cacheAge' = cacheAge
    BY <1>3 DEF AdapterSettles, Caches
  <2>2. CASE call = "running"
    BY <2>1, <2>2
  <2>3. CASE call = "overdue"
    BY <2>1, <2>3
  <2>4. QED BY <2>1, <2>2, <2>3
<1>4. CASE DeadlineFires
  BY <1>4 DEF DeadlineFires, DeadlineDue, Caches
<1>5. CASE UNCHANGED freshVars
  BY <1>5 DEF freshVars
<1>6. QED
  BY <1>1, <1>2, <1>3, <1>4, <1>5 DEF FreshNext

\* The inductive invariant of the timed schedule.
THEOREM FreshInvariant == FreshSpec => []FreshIInv
  BY FreshInitInv, FreshStepInv, PTL DEF FreshSpec

\* A result that is as old as the limit belongs to a run whose deadline is due.
LEMMA FreshIsStaleWhenDue == FreshIInv => StaleOnlyWhenOverdue
<1> SUFFICES ASSUME FreshIInv, Stale, cache # "timeout" PROVE DeadlineDue
  BY DEF StaleOnlyWhenOverdue
<1>1. cache = "result" /\ cacheAge >= IntervalMs + TimeoutMs
  BY DEF Stale, MaxAgeMs, FreshIInv, FreshTypeOK
<1>2. call # "none"
  BY <1>1, FreshnessAssumption DEF FreshIInv, FreshTypeOK, IdleAge
<1>3. call = "running" /\ age >= TimeoutMs
  BY <1>1, <1>2, FreshnessAssumption DEF FreshIInv, FreshTypeOK, BusyAge, OverdueCached
<1>4. QED
  BY <1>2, <1>3, FreshnessAssumption DEF FreshIInv, FreshTypeOK, CallInTime, DeadlineDue

\* A cached result of a run that kept its deadline is never reported as stale,
\* but for the instant in which the next deadline is due.
THEOREM StaleOnlyWhenOverdueTheorem == FreshSpec => []StaleOnlyWhenOverdue
  BY FreshInvariant, FreshIsStaleWhenDue, PTL

-----------------------------------------------------------------------------

\* How far the shutdown is, in every variable it writes.
StepTells ==
  /\ step = "none" => since = 0 /\ ~deadline
  /\ step # "none" => draining /\ ~scheduled
  /\ step \in {"none", "draining"} <=> server = "open"
  /\ step \in {"none", "draining", "closing"} <=> pool = "open"
  /\ step = "ending" <=> pool = "ending"
  /\ step \in {"ending", "done"} => \A h \in Handler : handler[h] = "idle"

\* A schedule that is on has the invariant of Freshness; one that has stopped
\* caches nothing.
ScheduleIsFresh == FreshTypeOK /\ (scheduled => FreshIInv) /\ (~scheduled => cache = "none")

DrainOutlastsRun ==
  /\ age <= Horizon
  /\ step = "draining" /\ call # "none" => age >= since
  /\ step \in {"closing", "ending", "done"} => call = "none"

\* The deadline is set as long as the shutdown is not over.
DeadlineGuards ==
  /\ process = "up" => (deadline <=> step \in {"draining", "closing", "ending"})
  /\ since <= DeadlineMs

ShutdownIInv ==
  /\ ShutdownTypeOK
  /\ StepTells
  /\ ScheduleIsFresh
  /\ DrainOutlastsRun
  /\ DeadlineGuards
  /\ ExitTellsOutcome

LEMMA ShutdownInitInv == ShutdownInit => ShutdownIInv
<1> SUFFICES ASSUME ShutdownInit PROVE ShutdownIInv
  OBVIOUS
<1>1. FreshIInv
  BY FreshInitInv DEF ShutdownInit
<1>2. ShutdownTypeOK
  BY DEF ShutdownInit, ShutdownTypeOK
<1>3. StepTells
  BY DEF ShutdownInit, StepTells
<1>4. ScheduleIsFresh
  BY <1>1 DEF ShutdownInit, ScheduleIsFresh, FreshIInv
<1>5. DrainOutlastsRun
  BY ShutdownAssumption, FreshnessAssumption DEF ShutdownInit, FreshInit, DrainOutlastsRun
<1>6. DeadlineGuards
  BY ShutdownAssumption DEF ShutdownInit, DeadlineGuards
<1>7. ExitTellsOutcome
  BY DEF ShutdownInit, ExitTellsOutcome
<1>8. QED BY <1>2, <1>3, <1>4, <1>5, <1>6, <1>7 DEF ShutdownIInv

-----------------------------------------------------------------------------
\* Time passes only while no timer is due.
LEMMA TimePassesInv ==
  ASSUME ShutdownIInv, process = "up", TimePasses
  PROVE  ShutdownIInv'
<1> USE FreshnessAssumption, ShutdownAssumption DEF ShutdownIInv
<1>1. /\ ~(step = "draining" /\ since = DrainMs)
      /\ ~(deadline /\ since = DeadlineMs)
      /\ ~(step = "done" /\ ~deadline)
      /\ UNCHANGED <<process, draining, scheduled, server, pool, handler, step, deadline>>
      /\ since' = IF step = "none" THEN since ELSE Later(since)
      /\ querying' = [h \in Handler |->
                       IF handler[h] = "querying" THEN querying[h] + 1 ELSE querying[h]]
  BY DEF TimePasses, DrainDue, ForcedDue, ExitDue
<1>2. since \in Nat /\ since' \in Nat /\ (step # "none" => since' = since + 1)
      /\ (step = "none" => since' = since)
  BY <1>1 DEF ShutdownTypeOK, DeadlineGuards, Later
<1>3. ScheduleIsFresh'
  <2>1. CASE scheduled
    <3>1. FreshIInv'
      BY <2>1, FreshStepInv DEF TimePasses, FreshNext, ScheduleIsFresh
    <3>2. QED BY <1>1, <2>1, <3>1 DEF ScheduleIsFresh, FreshIInv
  <2>2. CASE ~scheduled
    BY <1>1, <2>2 DEF TimePasses, StoppedElapse, ScheduleIsFresh, FreshTypeOK
  <2>3. QED BY <2>1, <2>2
<1>4. /\ age < Horizon /\ call' = call /\ age \in Nat
      /\ age' = IF call = "none" THEN 0 ELSE age + 1
  BY DEF TimePasses, Elapse, StoppedElapse, ScheduleIsFresh, FreshTypeOK
<1>5. ShutdownTypeOK'
  BY <1>1, <1>2 DEF ShutdownTypeOK
<1>6. StepTells'
  BY <1>1, <1>2 DEF StepTells
<1>7. DrainOutlastsRun'
  BY <1>1, <1>2, <1>4 DEF DrainOutlastsRun
<1>8. DeadlineGuards'
  BY <1>1, <1>2 DEF DeadlineGuards, StepTells, ShutdownTypeOK
<1>9. QED BY <1>1, <1>3, <1>5, <1>6, <1>7, <1>8 DEF ExitTellsOutcome

\* The readiness check, under the schedule and after it.
LEMMA CheckStepsInv ==
  ASSUME ShutdownIInv, process = "up", CheckSteps
  PROVE  ShutdownIInv'
<1> USE FreshnessAssumption, ShutdownAssumption DEF ShutdownIInv
<1>1. UNCHANGED appVars
  BY DEF CheckSteps
<1>2. ScheduleIsFresh' /\ DrainOutlastsRun'
  <2>1. CASE scheduled
    <3>1. IntervalFires \/ AdapterSettles \/ DeadlineFires
      BY <2>1 DEF CheckSteps
    <3>2. FreshIInv'
      BY <2>1, <3>1, FreshStepInv DEF FreshNext, ScheduleIsFresh
    <3>3. step = "none"
      BY <2>1 DEF StepTells
    <3>4. age' \in {0, age}
      BY <3>1 DEF IntervalFires, AdapterSettles, DeadlineFires
    <3>5. QED
      BY <1>1, <2>1, <3>2, <3>3, <3>4
      DEF ScheduleIsFresh, FreshIInv, DrainOutlastsRun, appVars
  <2>2. CASE ~scheduled
    BY <1>1, <2>2
    DEF CheckSteps, Stopped, DeadlineDue, ScheduleIsFresh, FreshTypeOK, DrainOutlastsRun, appVars
  <2>3. QED BY <2>1, <2>2
<1>3. QED
  BY <1>1, <1>2 DEF appVars, ShutdownTypeOK, StepTells, DeadlineGuards, ExitTellsOutcome

\* A handler moves; no handler begins once the server is closing.
LEMMA HandlerInv ==
  ASSUME ShutdownIInv, NEW h \in Handler, Request(h) \/ QueryEnds(h) \/ Replied(h)
  PROVE  ShutdownIInv'
<1> USE DEF ShutdownIInv
<1>1. UNCHANGED <<freshVars, process, draining, scheduled, server, pool, step, deadline, since>>
  BY DEF Request, QueryEnds, Replied
<1>2. /\ handler' \in [Handler -> {"idle", "querying", "replying"}]
      /\ querying' \in [Handler -> Nat]
  BY DEF ShutdownTypeOK, Request, QueryEnds, Replied
<1>3. step \in {"ending", "done"} => handler' = handler
  BY DEF StepTells, Request, QueryEnds, Replied
<1>4. ShutdownTypeOK' /\ StepTells'
  BY <1>1, <1>2, <1>3 DEF ShutdownTypeOK, StepTells
<1>5. ScheduleIsFresh'
  BY <1>1 DEF freshVars, ScheduleIsFresh, FreshIInv, FreshTypeOK, CallInTime, IdleAge, BusyAge,
              OverdueCached
<1>6. QED
  BY <1>1, <1>4, <1>5 DEF freshVars, DrainOutlastsRun, DeadlineGuards, ExitTellsOutcome

\* The first signal: the schedule stops and the drain begins.
LEMMA SignalInv ==
  ASSUME ShutdownIInv, process = "up", Signal
  PROVE  ShutdownIInv'
<1> USE FreshnessAssumption, ShutdownAssumption DEF ShutdownIInv, Signal, NotPending, BeginDrain
<1>1. ShutdownTypeOK'
  BY DEF ShutdownTypeOK
<1>2. StepTells'
  BY DEF StepTells
<1>3. ScheduleIsFresh'
  BY DEF ScheduleIsFresh, FreshTypeOK
<1>4. DrainOutlastsRun'
  BY DEF DrainOutlastsRun, ScheduleIsFresh, FreshTypeOK
<1>5. DeadlineGuards' /\ ExitTellsOutcome'
  BY DEF DeadlineGuards, ExitTellsOutcome
<1>6. QED BY <1>1, <1>2, <1>3, <1>4, <1>5

\* When the drain is over so is the last run.
LEMMA DrainTimerInv ==
  ASSUME ShutdownIInv, process = "up", DrainTimerFires
  PROVE  ShutdownIInv'
<1> USE ShutdownAssumption DEF ShutdownIInv
<1>1. step = "draining" /\ since = DrainMs
  BY DEF DrainTimerFires, DrainDue
<1>2. call = "none"
  <2>1. age \in Nat /\ age <= Horizon
    BY DEF DrainOutlastsRun, ScheduleIsFresh, FreshTypeOK
  <2>2. Horizon \in Nat /\ Horizon < DrainMs /\ DrainMs \in Nat
    BY FreshnessAssumption
  <2>3. call # "none" => age >= DrainMs
    BY <1>1 DEF DrainOutlastsRun
  <2>4. QED BY <2>1, <2>2, <2>3
<1>3. UNCHANGED freshVars /\ call' = "none"
  BY <1>2 DEF DrainTimerFires, freshVars
<1> USE DEF DrainTimerFires, CloseServer
<1>4. ShutdownTypeOK' /\ StepTells'
  BY <1>1 DEF ShutdownTypeOK, StepTells
<1>5. ScheduleIsFresh' /\ DrainOutlastsRun'
  BY <1>1, <1>3 DEF freshVars, ScheduleIsFresh, FreshTypeOK, DrainOutlastsRun, StepTells
<1>6. DeadlineGuards'
  BY <1>1 DEF DeadlineGuards
<1>7. ExitTellsOutcome'
  BY DEF ExitTellsOutcome
<1>8. QED BY <1>4, <1>5, <1>6, <1>7

\* The remaining steps of the shutdown write none of the schedule's variables.
LEMMA ClosingInv ==
  ASSUME ShutdownIInv, process = "up",
         ServerCloses \/ PoolEnds \/ CloseFails \/ ForceExit \/ Exit
  PROVE  ShutdownIInv'
<1> USE DEF ShutdownIInv
<1>1. UNCHANGED freshVars /\ UNCHANGED <<scheduled, draining, handler, querying, since>>
  BY DEF ServerCloses, PoolEnds, CloseFails, ForceExit, Exit
<1>2. step # "none"
  BY DEF ServerCloses, PoolEnds, CloseFails, ForceExit, Exit, ForcedDue, ExitDue, StepTells
<1>3. ScheduleIsFresh'
  BY <1>1, <1>2 DEF freshVars, ScheduleIsFresh, FreshTypeOK, StepTells
<1>4. CASE ServerCloses
  <2> USE <1>1, <1>4 DEF freshVars, ServerCloses
  <2>0. ShutdownTypeOK'
    BY DEF ShutdownTypeOK
  <2>1. StepTells'
    BY DEF StepTells
  <2>2. DrainOutlastsRun' /\ DeadlineGuards' /\ ExitTellsOutcome'
    BY DEF DrainOutlastsRun, DeadlineGuards, ExitTellsOutcome, StepTells
  <2>3. QED BY <1>3, <2>0, <2>1, <2>2
<1>5. CASE PoolEnds
  <2> USE <1>1, <1>5 DEF freshVars, PoolEnds, ClearDeadline
  <2>0. ShutdownTypeOK'
    BY DEF ShutdownTypeOK
  <2>1. StepTells'
    BY DEF StepTells
  <2>2. DrainOutlastsRun'
    BY DEF DrainOutlastsRun
  <2>3. DeadlineGuards'
    BY DEF DeadlineGuards
  <2>4. ExitTellsOutcome'
    BY DEF ExitTellsOutcome, StepTells
  <2>5. QED BY <1>3, <2>0, <2>1, <2>2, <2>3, <2>4
<1>6. CASE CloseFails
  <2> USE <1>1, <1>6 DEF freshVars, CloseFails, ClearDeadline
  <2>0. ShutdownTypeOK'
    BY DEF ShutdownTypeOK
  <2>1. StepTells'
    BY DEF StepTells
  <2>2. DrainOutlastsRun'
    BY DEF DrainOutlastsRun
  <2>3. DeadlineGuards'
    BY DEF DeadlineGuards
  <2>4. ExitTellsOutcome'
    BY DEF ExitTellsOutcome, StepTells
  <2>5. QED BY <1>3, <2>0, <2>1, <2>2, <2>3, <2>4
<1>7. CASE ForceExit
  <2> USE <1>1, <1>2, <1>7 DEF freshVars, ForceExit, ForcedDue
  <2>0. ShutdownTypeOK'
    BY DEF ShutdownTypeOK
  <2>1. StepTells'
    BY DEF StepTells
  <2>2. DrainOutlastsRun'
    BY DEF DrainOutlastsRun
  <2>3. DeadlineGuards'
    BY DEF DeadlineGuards
  <2>4. ExitTellsOutcome'
    BY DEF ExitTellsOutcome, StepTells, DeadlineGuards
  <2>5. QED BY <1>3, <2>0, <2>1, <2>2, <2>3, <2>4
<1>8. CASE Exit
  <2> USE <1>1, <1>8 DEF freshVars, Exit, ExitDue
  <2>0. ShutdownTypeOK'
    BY DEF ShutdownTypeOK
  <2>1. StepTells'
    BY DEF StepTells
  <2>2. DrainOutlastsRun'
    BY DEF DrainOutlastsRun
  <2>3. DeadlineGuards'
    BY DEF DeadlineGuards
  <2>4. ExitTellsOutcome'
    BY DEF ExitTellsOutcome, ShutdownTypeOK, StepTells
  <2>5. QED BY <1>3, <2>0, <2>1, <2>2, <2>3, <2>4
<1>9. QED BY <1>4, <1>5, <1>6, <1>7, <1>8

LEMMA ShutdownStepInv == ShutdownIInv /\ [ShutdownNext]_shutdownVars => ShutdownIInv'
<1> SUFFICES ASSUME ShutdownIInv, [ShutdownNext]_shutdownVars PROVE ShutdownIInv'
  OBVIOUS
<1>1. CASE ShutdownNext
  BY <1>1, TimePassesInv, CheckStepsInv, HandlerInv, SignalInv, DrainTimerInv, ClosingInv
  DEF ShutdownNext
<1>2. CASE UNCHANGED shutdownVars
  BY <1>2
  DEF shutdownVars, appVars, freshVars, ShutdownIInv, ShutdownTypeOK, StepTells, ScheduleIsFresh,
      FreshIInv, FreshTypeOK, CallInTime, IdleAge, BusyAge, OverdueCached, DrainOutlastsRun,
      DeadlineGuards, ExitTellsOutcome
<1>3. QED BY <1>1, <1>2

-----------------------------------------------------------------------------
\* The inductive invariant of the application and its shutdown.
THEOREM ShutdownInvariant == ShutdownSpec => []ShutdownIInv
  BY ShutdownInitInv, ShutdownStepInv, PTL DEF ShutdownSpec

\* The age limit is right in the application too, up to its exit: the shutdown
\* stops the schedule and empties the cache in one turn.
THEOREM ApplicationStaleTheorem == ShutdownSpec => []StaleOnlyWhenOverdue
<1>1. ShutdownIInv => StaleOnlyWhenOverdue
  BY FreshIsStaleWhenDue DEF ShutdownIInv, ShutdownTypeOK, ScheduleIsFresh, StaleOnlyWhenOverdue,
     Stale
<1>2. QED BY <1>1, ShutdownInvariant, PTL

\* However long the drain is beyond the longest pool operation, and with any
\* number of handlers, pool.end() is called when nobody uses the pool.
THEOREM PoolEndsLastTheorem == ShutdownSpec => []PoolEndsLast
<1>1. ShutdownIInv => PoolEndsLast
  BY DEF ShutdownIInv, ShutdownTypeOK, StepTells, DrainOutlastsRun, PoolEndsLast
<1>2. QED BY <1>1, ShutdownInvariant, PTL

\* The process never outlives the deadline of its shutdown.
THEOREM BoundedShutdownTheorem == ShutdownSpec => []BoundedShutdown
<1>1. ShutdownIInv => BoundedShutdown
  BY DEF ShutdownIInv, DeadlineGuards, BoundedShutdown
<1>2. QED BY <1>1, ShutdownInvariant, PTL

\* The exit code is a success if and only if the pool was ended.
THEOREM ExitTellsOutcomeTheorem == ShutdownSpec => []ExitTellsOutcome
<1>1. ShutdownIInv => ExitTellsOutcome BY DEF ShutdownIInv
<1>2. QED BY <1>1, ShutdownInvariant, PTL
=============================================================================
