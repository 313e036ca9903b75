------------------------------ MODULE Executor ------------------------------
(***************************************************************************)
(* CheckExecutor (executor.ts) with the deadline of withTimeout            *)
(* (timeout.ts).                                                           *)
(*                                                                         *)
(* An operation is one execution of one check: the promise "pending" that  *)
(* ends with the adapter's own settlement, and the promise "result" that   *)
(* callers hold, which ends with that settlement or with the deadline.     *)
(*                                                                         *)
(* The steps between the adapter's settlement and the end of "result" (the *)
(* finally callback, Promise.race, clearTimeout) are jobs of one unbroken  *)
(* run of the microtask queue.  No timer callback can come between them    *)
(* and the only thing another job could observe there, the freed slot, it  *)
(* can also observe right after, so they are the one action Settle.        *)
(***************************************************************************)
EXTENDS FiniteSets

CONSTANTS
  Check,      \* names of the configured checks
  Op,         \* identities of operations (of their promises)
  CheckOf,    \* the check that an operation executes
  NoOp,       \* "undefined" where a map has no operation
  Outcome     \* what an adapter call may settle with; a rejection is "fail"

Status == {"ok", "degraded", "fail"}

ASSUME ExecutorAssumption ==
  /\ CheckOf \in [Op -> Check]
  /\ NoOp \notin Op
  /\ Outcome \subseteq Status

VARIABLES
  phase,      \* phase[o]: progress of the underlying adapter call
  result,     \* result[o]: how the promise handed to callers ended
  armed,      \* armed[o]: the deadline timer is set
  aborted,    \* aborted[o]: the AbortSignal given to the adapter has fired
  inFlight,   \* inFlight[c]: the executor's map
  operations  \* the executor's set of unsettled operations

executorVars == <<phase, result, armed, aborted, inFlight, operations>>

Undecided == "none"
Timeout   == "timeout"
Result    == Outcome \cup {Undecided, Timeout}

\* The call is queued as a job, or the adapter has been called.
Outstanding(o) == phase[o] \in {"queued", "running"}
Decided(o)     == result[o] # Undecided

ExecutorTypeOK ==
  /\ phase \in [Op -> {"unused", "queued", "running", "settled"}]
  /\ result \in [Op -> Result]
  /\ armed \in [Op -> BOOLEAN]
  /\ aborted \in [Op -> BOOLEAN]
  /\ inFlight \in [Check -> Op \cup {NoOp}]
  /\ operations \subseteq Op

ExecutorInit ==
  /\ phase = [o \in Op |-> "unused"]
  /\ result = [o \in Op |-> Undecided]
  /\ armed = [o \in Op |-> FALSE]
  /\ aborted = [o \in Op |-> FALSE]
  /\ inFlight = [c \in Check |-> NoOp]
  /\ operations = {}

-----------------------------------------------------------------------------
\* Slips of the kind these properties guard against.  An operator X_Why is the
\* definition X with the mistake Why; no specification uses it.
Launch_NoDeadline(f) ==
  LET new == {f[c] : c \in DOMAIN f} IN
  /\ \A c \in DOMAIN f :
       inFlight[c] = NoOp /\ phase[f[c]] = "unused" /\ CheckOf[f[c]] = c
  /\ phase' = [o \in Op |-> IF o \in new THEN "queued" ELSE phase[o]]
  /\ inFlight' = [c \in Check |-> IF c \in DOMAIN f THEN f[c] ELSE inFlight[c]]
  /\ operations' = operations \cup new
  /\ UNCHANGED <<result, armed, aborted>>

Settle_With(o, answered, left, timer) ==
  /\ phase[o] = "running"
  /\ phase' = [phase EXCEPT ![o] = "settled"]
  /\ inFlight' = [inFlight EXCEPT ![CheckOf[o]] = NoOp]
  /\ operations' = left
  /\ result' = [result EXCEPT ![o] = answered]
  /\ armed' = [armed EXCEPT ![o] = timer]
  /\ UNCHANGED aborted
FirstAnswer(o, v)          == IF Decided(o) THEN result[o] ELSE v
Settle_KeepsOperation(o, v) == Settle_With(o, FirstAnswer(o, v), operations, FALSE)

Deadline_With(o, told, signal, slots) ==
  /\ armed[o]
  /\ phase[o] # "queued"
  /\ result' = [result EXCEPT ![o] = FirstAnswer(o, told)]
  /\ armed' = [armed EXCEPT ![o] = FALSE]
  /\ aborted' = [aborted EXCEPT ![o] = signal]
  /\ inFlight' = slots
  /\ UNCHANGED <<phase, operations>>
Deadline_NoAbort(o)      == Deadline_With(o, Timeout, FALSE, inFlight)
Deadline_ReleasesSlot(o) ==
  Deadline_With(o, Timeout, TRUE, [inFlight EXCEPT ![CheckOf[o]] = NoOp])

-----------------------------------------------------------------------------
\* run() for the checks of DOMAIN f, whose slots are free, in one synchronous
\* turn; f gives each of them the operation it creates.  A run() that finds
\* the slot taken returns the operation in it and changes nothing.
Launch(f) ==
  LET new == {f[c] : c \in DOMAIN f} IN
  /\ \A c \in DOMAIN f :
       inFlight[c] = NoOp /\ phase[f[c]] = "unused" /\ CheckOf[f[c]] = c
  /\ phase' = [o \in Op |-> IF o \in new THEN "queued" ELSE phase[o]]
  /\ armed' = [o \in Op |-> IF o \in new THEN TRUE ELSE armed[o]]
  /\ inFlight' = [c \in Check |-> IF c \in DOMAIN f THEN f[c] ELSE inFlight[c]]
  /\ operations' = operations \cup new
  /\ UNCHANGED <<result, aborted>>

\* The queued job calls adapter.check with the operation's signal.
CallAdapter(o) ==
  /\ phase[o] = "queued"
  /\ phase' = [phase EXCEPT ![o] = "running"]
  /\ UNCHANGED <<result, armed, aborted, inFlight, operations>>

\* The adapter's promise settles: the slot is released, by name, and the
\* callers are answered unless the deadline already answered them.
Settle(o, v) ==
  /\ phase[o] = "running"
  /\ phase' = [phase EXCEPT ![o] = "settled"]
  /\ inFlight' = [inFlight EXCEPT ![CheckOf[o]] = NoOp]
  /\ operations' = operations \ {o}
  /\ result' = [result EXCEPT ![o] = IF Decided(o) THEN @ ELSE v]
  /\ armed' = [armed EXCEPT ![o] = FALSE]
  /\ UNCHANGED aborted

\* The deadline timer fires.  It rejects before it aborts, so an adapter that
\* settles from its abort listener no longer changes the answer.  The slot
\* stays taken.  A timer runs only when the job queue is empty: the adapter
\* has been called.
Deadline(o) ==
  /\ armed[o]
  /\ phase[o] # "queued"
  /\ result' = [result EXCEPT ![o] = IF Decided(o) THEN @ ELSE Timeout]
  /\ armed' = [armed EXCEPT ![o] = FALSE]
  /\ aborted' = [aborted EXCEPT ![o] = TRUE]
  /\ UNCHANGED <<phase, inFlight, operations>>

\* Nothing refers to the settled operation any more: its promises are
\* collected and, to keep Op finite, its identity may be used again.
Forget(o) ==
  /\ phase[o] = "settled"
  /\ phase' = [phase EXCEPT ![o] = "unused"]
  /\ result' = [result EXCEPT ![o] = Undecided]
  /\ aborted' = [aborted EXCEPT ![o] = FALSE]
  /\ UNCHANGED <<armed, inFlight, operations>>

ExecutorNext ==
  \/ \E S \in SUBSET Check : \E f \in [S -> Op] : Launch(f)
  \/ \E o \in Op :
       \/ CallAdapter(o)
       \/ Deadline(o)
       \/ Forget(o)
       \/ \E v \in Outcome : Settle(o, v)

ExecutorSpec == ExecutorInit /\ [][ExecutorNext]_executorVars

\* Jobs and timers run.  Nothing makes an adapter settle.
ExecutorFairness ==
  \A o \in Op : WF_executorVars(CallAdapter(o)) /\ WF_executorVars(Deadline(o))

ExecutorFairSpec == ExecutorSpec /\ ExecutorFairness
-----------------------------------------------------------------------------
\* At most one call of a check's adapter is outstanding, whoever asked for it,
\* also after a deadline answered its callers (executor.ts, "only settlement
\* releases the operation").
SingleFlightPerCheck ==
  \A o, p \in Op :
    Outstanding(o) /\ Outstanding(p) /\ CheckOf[o] = CheckOf[p] => o = p

\* The map and the set the executor keeps describe the outstanding calls: the
\* slot of a check names its outstanding operation, and settle() waits for
\* all of them and for nothing else.
BookkeepingExact ==
  /\ \A c \in Check :
       inFlight[c] # NoOp => Outstanding(inFlight[c]) /\ CheckOf[inFlight[c]] = c
  /\ \A o \in Op : Outstanding(o) => inFlight[CheckOf[o]] = o
  /\ operations = {o \in Op : Outstanding(o)}

\* The signal fires for calls whose callers were told of the timeout and for
\* no others: a call that answered in time is never aborted, an overdue call
\* always is.
AbortIffTimedOut == \A o \in Op : aborted[o] <=> result[o] = Timeout

\* A timer is pending exactly while a call has not been answered: no caller is
\* left without deadline and no timer outlives its operation.
DeadlineGuardsWait ==
  \A o \in Op : armed[o] <=> (Outstanding(o) /\ ~Decided(o))

\* How an operation ended is decided once: a late success never replaces the
\* timeout that callers were given, a late timer never replaces an answer.
AnswerIsFinal ==
  [][\A o \in Op : Decided(o) => result'[o] = result[o] \/ phase'[o] = "unused"]_executorVars

\* Every launched operation answers its callers although its adapter may
\* never settle.
EveryOperationAnswered == \A o \in Op : phase[o] = "queued" ~> Decided(o)

\* The outstanding call of check c as its callers know it.
CallsOf(c) == {o \in Op : Outstanding(o) /\ CheckOf[o] = c}

CallState(c) ==
  IF CallsOf(c) = {} THEN "idle"
  ELSE IF \E o \in CallsOf(c) : ~Decided(o) THEN "pending" ELSE "overdue"

Promise == INSTANCE SingleFlight WITH call <- [c \in Check |-> CallState(c)]

\* The executor keeps the promise SingleFlight states.
ImplementsSingleFlight == Promise!Spec
=============================================================================
