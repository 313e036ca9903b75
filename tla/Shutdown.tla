------------------------------ MODULE Shutdown ------------------------------
(***************************************************************************)
(* The long-lived example application (apps/example-node): createShutdown, *)
(* the signal handlers of index.ts, and the three users of the one pool:   *)
(* request handlers, the scheduled readiness check of module Freshness,    *)
(* and its owner, who ends it.                                             *)
(*                                                                         *)
(* Time passes in units and only while no timer is due, so a timer fires   *)
(* when it is due.  The connection and query timeouts of the pool bound    *)
(* how long it is used, by a handler or, as the Horizon of Freshness, by   *)
(* the check.  Clients may read their answers as slowly as they like, and  *)
(* closing the server or the pool may hang or fail.                        *)
(***************************************************************************)
EXTENDS Freshness

CONSTANTS
  Handler,    \* identities of request handlers, used again
  DrainMs,    \* options.drainMs
  DeadlineMs  \* options.deadlineMs

ASSUME ShutdownAssumption ==
  /\ DrainMs \in Nat /\ DeadlineMs \in Nat
  /\ 0 < Horizon /\ Horizon < DrainMs /\ DrainMs < DeadlineMs

VARIABLES
  process,    \* "up", or how it has exited: "clean", "failure"
  draining,   \* the application and its kit refuse
  scheduled,  \* the interval timer of the kit is set
  server,     \* "open", "closing", "closed"
  pool,       \* "open", "ending", "ended"
  handler,    \* handler[h]: "idle", "querying", "replying"
  querying,   \* querying[h]: how long h has used the pool
  step,       \* the await the promise "pending" of the shutdown has reached
  deadline,   \* the deadline timer is set
  since       \* time since the shutdown began

appVars      == <<process, draining, scheduled, server, pool, handler, querying, step, deadline,
                  since>>
shutdownVars == <<freshVars, appVars>>

ShutdownTypeOK ==
  /\ process \in {"up", "clean", "failure"}
  /\ draining \in BOOLEAN /\ scheduled \in BOOLEAN /\ deadline \in BOOLEAN
  /\ server \in {"open", "closing", "closed"}
  /\ pool \in {"open", "ending", "ended"}
  /\ handler \in [Handler -> {"idle", "querying", "replying"}]
  /\ querying \in [Handler -> Nat]
  /\ step \in {"none", "draining", "closing", "ending", "done"}
  /\ since \in Nat

ShutdownInit ==
  /\ FreshInit
  /\ process = "up" /\ draining = FALSE /\ scheduled = TRUE
  /\ server = "open" /\ pool = "open"
  /\ handler = [h \in Handler |-> "idle"]
  /\ querying = [h \in Handler |-> 0]
  /\ step = "none" /\ deadline = FALSE /\ since = 0

Overdue(h) == handler[h] = "querying" /\ querying[h] = Horizon

DrainDue  == step = "draining" /\ since = DrainMs
ForcedDue == deadline /\ since = DeadlineMs
\* Nothing is left that keeps the process.
ExitDue   == step = "done" /\ ~deadline

\* The time a shutdown has taken is counted up to just beyond its deadline.
Later(time) == IF time > DeadlineMs THEN time ELSE time + 1

-----------------------------------------------------------------------------
\* Slips (see Freshness).
NotPending_Forgotten == TRUE

BeginDrain_KeepsSchedule == draining' = TRUE /\ UNCHANGED <<scheduled, freshVars>>

ClearDeadline_Forgotten == UNCHANGED deadline

CloseServer_StopsTheClock ==
  step' = "closing" /\ server' = "closing" /\ deadline' = FALSE

-----------------------------------------------------------------------------
\* Time passes for a schedule that has stopped, and its last run.
StoppedElapse ==
  /\ ~DeadlineDue /\ age < Horizon
  /\ age' = IF call = "none" THEN 0 ELSE age + 1
  /\ UNCHANGED <<sinceTick, call, cache, cacheAge>>

TimePasses ==
  /\ ~DrainDue /\ ~ForcedDue /\ ~ExitDue /\ \A h \in Handler : ~Overdue(h)
  /\ IF scheduled THEN Elapse ELSE StoppedElapse
  /\ querying' = [h \in Handler |->
                   IF handler[h] = "querying" THEN querying[h] + 1 ELSE querying[h]]
  /\ since' = IF step = "none" THEN since ELSE Later(since)
  /\ UNCHANGED <<process, draining, scheduled, server, pool, handler, step, deadline>>

\* The steps of the readiness check.  A run of a stopped schedule caches
\* nothing when it ends.
Stopped(action) == action /\ UNCHANGED <<cache, cacheAge, sinceTick>>

CheckSteps ==
  /\ \/ scheduled /\ (IntervalFires \/ AdapterSettles \/ DeadlineFires)
     \/ /\ ~scheduled
        /\ \/ Stopped(call # "none" /\ call' = "none" /\ age' = 0)
           \/ Stopped(DeadlineDue /\ call' = "overdue" /\ UNCHANGED age)
  /\ UNCHANGED appVars

-----------------------------------------------------------------------------
\* GET /: a query on the shared pool, or a refusal.
Request(h) ==
  /\ server = "open" /\ handler[h] = "idle"
  /\ handler' = [handler EXCEPT ![h] = IF draining THEN "replying" ELSE "querying"]
  /\ UNCHANGED <<freshVars, process, draining, scheduled, server, pool, querying, step,
                 deadline, since>>

\* The query ends, either way.
QueryEnds(h) ==
  /\ handler[h] = "querying"
  /\ handler' = [handler EXCEPT ![h] = "replying"]
  /\ querying' = [querying EXCEPT ![h] = 0]
  /\ UNCHANGED <<freshVars, process, draining, scheduled, server, pool, step, deadline,
                 since>>

\* The client has its answer.
Replied(h) ==
  /\ handler[h] = "replying"
  /\ handler' = [handler EXCEPT ![h] = "idle"]
  /\ UNCHANGED <<freshVars, process, draining, scheduled, server, pool, querying, step,
                 deadline, since>>

-----------------------------------------------------------------------------
\* The application's beginDrain(): kit.stop() ends the schedule and forgets
\* what was cached; the run in flight goes on.
BeginDrain ==
  /\ draining' = TRUE /\ scheduled' = FALSE
  /\ cache' = "none" /\ cacheAge' = 0 /\ sinceTick' = 0
  /\ UNCHANGED <<call, age>>

NotPending == step = "none"

\* A signal.  Every later one is given the pending promise.
Signal ==
  /\ NotPending
  /\ BeginDrain
  /\ deadline' = TRUE /\ since' = 0
  /\ step' = "draining"
  /\ UNCHANGED <<process, server, pool, handler, querying>>

\* server.close(): nothing new is accepted.
CloseServer == step' = "closing" /\ server' = "closing" /\ UNCHANGED deadline

DrainTimerFires ==
  /\ DrainDue
  /\ CloseServer
  /\ UNCHANGED <<freshVars, process, draining, scheduled, pool, handler, querying, since>>

\* The last active handler is done, and pool.end() is called.
ServerCloses ==
  /\ step = "closing"
  /\ \A h \in Handler : handler[h] = "idle"
  /\ server' = "closed" /\ pool' = "ending" /\ step' = "ending"
  /\ UNCHANGED <<freshVars, process, draining, scheduled, handler, querying, deadline,
                 since>>

ClearDeadline == deadline' = FALSE

\* The clients of the pool are back and disconnected.
PoolEnds ==
  /\ step = "ending" /\ call = "none"
  /\ pool' = "ended" /\ step' = "done"
  /\ ClearDeadline
  /\ UNCHANGED <<freshVars, process, draining, scheduled, server, handler, querying, since>>

\* Closing the server or the pool fails: the deadline is cleared, and the
\* handler of the signal exits.
CloseFails ==
  /\ step \in {"closing", "ending"}
  /\ process' = "failure"
  /\ ClearDeadline
  /\ UNCHANGED <<freshVars, draining, scheduled, server, pool, handler, querying, step,
                 since>>

ForceExit ==
  /\ ForcedDue
  /\ process' = "failure"
  /\ deadline' = FALSE
  /\ UNCHANGED <<freshVars, draining, scheduled, server, pool, handler, querying, step,
                 since>>

\* The process exits by itself.
Exit ==
  /\ ExitDue
  /\ process' = "clean"
  /\ UNCHANGED <<freshVars, draining, scheduled, server, pool, handler, querying, step,
                 deadline, since>>

ShutdownNext ==
  /\ process = "up"
  /\ \/ TimePasses \/ CheckSteps
     \/ \E h \in Handler : Request(h) \/ QueryEnds(h) \/ Replied(h)
     \/ Signal \/ DrainTimerFires \/ ServerCloses \/ PoolEnds
     \/ CloseFails \/ ForceExit \/ Exit

ShutdownSpec == ShutdownInit /\ [][ShutdownNext]_shutdownVars

\* Timers fire, and so time passes; what the timeouts of the pool bound ends.
\* Neither the server nor the pool need ever close.
ShutdownFairness ==
  /\ WF_shutdownVars(process = "up" /\ TimePasses)
  /\ WF_shutdownVars(process = "up" /\ (DrainTimerFires \/ ForceExit \/ Exit))
  /\ WF_shutdownVars(process = "up" /\ (age = Horizon \/ DeadlineDue) /\ CheckSteps)
  /\ \A h \in Handler : WF_shutdownVars(process = "up" /\ Overdue(h) /\ QueryEnds(h))

ShutdownFairSpec == ShutdownSpec /\ ShutdownFairness
-----------------------------------------------------------------------------
\* When pool.end() is called nobody uses the pool: no handler, because the
\* server waits for all of them, and no readiness check, because the schedule
\* has stopped and its last run is over before the drain is (README of the
\* example, "then stops accepting connections and waits for active requests.
\* Only then does the application call pool.end()").
PoolEndsLast ==
  pool # "open" => call = "none" /\ \A h \in Handler : handler[h] = "idle"

\* However often it is signalled and whatever hangs, the process outlives its
\* deadline at no time (README of the example, "A hard 25s deadline exits with
\* failure if HTTP or pool cleanup stalls").
BoundedShutdown == process = "up" => since <= DeadlineMs

\* The exit code tells the supervisor whether the shutdown was complete: it is
\* a failure if and only if the pool was not ended.
ExitTellsOutcome == process # "up" => (process = "clean" <=> pool = "ended")

\* A process that is told to shut down exits.
ShutdownEnds == step # "none" ~> process # "up"
=============================================================================
