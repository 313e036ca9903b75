-------------------------- MODULE SchedulerProofs --------------------------
(***************************************************************************)
(* What the executor and the scheduler above it guarantee for every set of *)
(* checks and of operations, however long they run and however often the   *)
(* schedule is restarted.                                                  *)
(*                                                                         *)
(* The executor's inductive invariant is the conjunction of its run's      *)
(* invariants with one more fact, FreshIsClean: an operation that was not  *)
(* launched yet, or whose call is still queued, has no answer.  Launch     *)
(* needs it: it does not write the answer of the operations it creates.    *)
(***************************************************************************)
EXTENDS Scheduler, TLAPS

\* An identity that is launched has not been answered before.
FreshIsClean ==
  \A o \in Op : phase[o] \in {"unused", "queued"} => result[o] = Undecided

ExecutorIInv ==
  /\ ExecutorTypeOK
  /\ BookkeepingExact
  /\ AbortIffTimedOut
  /\ DeadlineGuardsWait
  /\ FreshIsClean

\* The invariant holds before the first run().
LEMMA ExecutorInitInv == ExecutorInit => ExecutorIInv
  BY ExecutorAssumption
  DEF ExecutorInit, ExecutorIInv, ExecutorTypeOK, BookkeepingExact, AbortIffTimedOut,
      DeadlineGuardsWait, FreshIsClean, Outstanding, Decided, Result, Undecided, Timeout

\* run() for any set of checks keeps the invariant.
LEMMA LaunchInv ==
  ASSUME ExecutorIInv, NEW S \in SUBSET Check, NEW f \in [S -> Op], Launch(f)
  PROVE  ExecutorIInv'
<1> USE ExecutorAssumption DEF Outstanding, Decided, Result, Undecided, Timeout
<1> DEFINE new == {f[c] : c \in DOMAIN f}
<1>0. ExecutorTypeOK BY DEF ExecutorIInv
<1>1. /\ DOMAIN f = S
      /\ \A c \in S : f[c] \in Op /\ inFlight[c] = NoOp /\ phase[f[c]] = "unused"
                      /\ CheckOf[f[c]] = c
      /\ \A o \in Op : phase'[o] = IF o \in new THEN "queued" ELSE phase[o]
      /\ \A o \in Op : armed'[o] = IF o \in new THEN TRUE ELSE armed[o]
      /\ \A c \in Check : inFlight'[c] = IF c \in S THEN f[c] ELSE inFlight[c]
      /\ operations' = operations \cup new
      /\ result' = result /\ aborted' = aborted
  BY DEF Launch
<1>2. new \subseteq Op /\ \A o \in new : phase[o] = "unused" /\ CheckOf[o] \in S
                                         /\ f[CheckOf[o]] = o
  BY <1>1
<1>3. ExecutorTypeOK'
  <2>1. phase' \in [Op -> {"unused", "queued", "running", "settled"}]
    BY <1>0 DEF ExecutorTypeOK, Launch
  <2>2. armed' \in [Op -> BOOLEAN]
    BY <1>0 DEF ExecutorTypeOK, Launch
  <2>3. inFlight' \in [Check -> Op \cup {NoOp}]
    BY <1>0 DEF ExecutorTypeOK, Launch
  <2>4. QED BY <1>0, <1>1, <1>2, <2>1, <2>2, <2>3 DEF ExecutorTypeOK
<1> HIDE DEF new
<1>4. BookkeepingExact'
  <2>1. \A c \in Check : inFlight'[c] # NoOp =>
           phase'[inFlight'[c]] \in {"queued", "running"} /\ CheckOf[inFlight'[c]] = c
    <3> SUFFICES ASSUME NEW c \in Check, inFlight'[c] # NoOp
                 PROVE  phase'[inFlight'[c]] \in {"queued", "running"}
                        /\ CheckOf[inFlight'[c]] = c
      OBVIOUS
    <3>1. CASE c \in S
      <4>1. f[c] \in new BY <1>1, <3>1 DEF new
      <4>2. QED BY <1>1, <3>1, <4>1
    <3>2. CASE c \notin S
      <4>1. inFlight[c] \in Op /\ phase[inFlight[c]] \in {"queued", "running"}
            /\ CheckOf[inFlight[c]] = c /\ inFlight'[c] = inFlight[c]
        BY <1>0, <1>1, <3>2 DEF ExecutorIInv, BookkeepingExact, ExecutorTypeOK
      <4>2. QED BY <1>1, <1>2, <4>1
    <3>3. QED BY <3>1, <3>2
  <2>2. \A o \in Op : phase'[o] \in {"queued", "running"} => inFlight'[CheckOf[o]] = o
    <3> SUFFICES ASSUME NEW o \in Op, phase'[o] \in {"queued", "running"}
                 PROVE  inFlight'[CheckOf[o]] = o
      OBVIOUS
    <3>1. CASE o \in new
      BY <1>1, <1>2, <3>1
    <3>2. CASE o \notin new
      <4>1. inFlight[CheckOf[o]] = o
        BY <1>1, <3>2 DEF ExecutorIInv, BookkeepingExact
      <4>2. CheckOf[o] \notin S /\ CheckOf[o] \in Check
        BY <1>1, <4>1
      <4>3. QED BY <1>1, <4>1, <4>2
    <3>3. QED BY <3>1, <3>2
  <2>3. operations' = {o \in Op : phase'[o] \in {"queued", "running"}}
    <3>1. operations = {o \in Op : phase[o] \in {"queued", "running"}}
      BY DEF ExecutorIInv, BookkeepingExact
    <3>2. QED BY <1>1, <1>2, <3>1
  <2>4. QED BY <2>1, <2>2, <2>3 DEF BookkeepingExact
<1>5. AbortIffTimedOut'
  BY <1>1 DEF ExecutorIInv, AbortIffTimedOut
<1>6. DeadlineGuardsWait'
  BY <1>1, <1>2 DEF ExecutorIInv, DeadlineGuardsWait, FreshIsClean
<1>7. FreshIsClean'
  BY <1>1, <1>2 DEF ExecutorIInv, FreshIsClean
<1>8. QED
  BY <1>3, <1>4, <1>5, <1>6, <1>7 DEF ExecutorIInv

\* Calling the adapter only moves a queued call to a running one.
LEMMA CallAdapterInv ==
  ASSUME ExecutorIInv, NEW o \in Op, CallAdapter(o)
  PROVE  ExecutorIInv'
<1> USE DEF Outstanding, Decided
<1>1. ExecutorTypeOK'
  BY DEF ExecutorIInv, ExecutorTypeOK, CallAdapter
<1>2. \A p \in Op : Outstanding(p)' <=> Outstanding(p)
  BY DEF ExecutorIInv, ExecutorTypeOK, CallAdapter
<1>3. BookkeepingExact'
  <2>1. inFlight' = inFlight /\ operations' = operations
    BY DEF CallAdapter
  <2>2. \A c \in Check : inFlight[c] # NoOp => inFlight[c] \in Op
    BY DEF ExecutorIInv, ExecutorTypeOK
  <2>3. QED BY <1>2, <2>1, <2>2 DEF ExecutorIInv, BookkeepingExact
<1>4. AbortIffTimedOut' /\ DeadlineGuardsWait' /\ FreshIsClean'
  BY <1>2 DEF ExecutorIInv, ExecutorTypeOK, AbortIffTimedOut, DeadlineGuardsWait,
              FreshIsClean, CallAdapter
<1>5. QED BY <1>1, <1>3, <1>4 DEF ExecutorIInv

\* The settlement of an adapter keeps the invariant.  The slot is released by
\* name: that it held this operation, and no younger one, is BookkeepingExact.
LEMMA SettleInv ==
  ASSUME ExecutorIInv, NEW o \in Op, NEW v \in Outcome, Settle(o, v)
  PROVE  ExecutorIInv'
<1> USE ExecutorAssumption DEF Outstanding, Decided, Result, Undecided, Timeout, Status
<1>0. ExecutorTypeOK /\ BookkeepingExact BY DEF ExecutorIInv
<1>1. ExecutorTypeOK'
  BY <1>0 DEF ExecutorTypeOK, Settle
<1>2. inFlight[CheckOf[o]] = o /\ CheckOf[o] \in Check
  BY <1>0 DEF BookkeepingExact, Settle
<1>3. \A p \in Op : Outstanding(p)' <=> Outstanding(p) /\ p # o
  BY <1>0 DEF ExecutorTypeOK, Settle
<1>4. BookkeepingExact'
  <2>1. ASSUME NEW c \in Check, inFlight'[c] # NoOp
        PROVE  Outstanding(inFlight[c])' /\ CheckOf[inFlight'[c]] = c /\ inFlight'[c] = inFlight[c]
    <3>1. c # CheckOf[o] /\ inFlight'[c] = inFlight[c]
      BY <1>0, <2>1 DEF ExecutorTypeOK, Settle
    <3>2. inFlight[c] \in Op /\ inFlight[c] # o /\ Outstanding(inFlight[c])
          /\ CheckOf[inFlight[c]] = c
      BY <1>0, <2>1, <3>1 DEF ExecutorTypeOK, BookkeepingExact
    <3>3. phase'[inFlight[c]] = phase[inFlight[c]]
      BY <1>0, <3>2 DEF ExecutorTypeOK, Settle
    <3>4. QED BY <3>1, <3>2, <3>3
  <2>2. ASSUME NEW p \in Op, Outstanding(p)'
        PROVE  inFlight'[CheckOf[p]] = p
    <3>1. p # o /\ inFlight[CheckOf[p]] = p
      BY <1>0, <1>3, <2>2 DEF BookkeepingExact
    <3>2. CheckOf[p] # CheckOf[o]
      BY <1>2, <3>1
    <3>3. QED BY <1>0, <3>1, <3>2 DEF ExecutorTypeOK, Settle
  <2>3. operations' = {p \in Op : Outstanding(p)'}
    BY <1>0, <1>3 DEF BookkeepingExact, Settle
  <2>4. QED BY <2>1, <2>2, <2>3 DEF BookkeepingExact
<1>5. AbortIffTimedOut'
  BY <1>0 DEF ExecutorIInv, ExecutorTypeOK, AbortIffTimedOut, Settle
<1>6. DeadlineGuardsWait'
  BY <1>0, <1>3 DEF ExecutorIInv, ExecutorTypeOK, DeadlineGuardsWait, Settle
<1>7. FreshIsClean'
  BY <1>0 DEF ExecutorIInv, ExecutorTypeOK, FreshIsClean, Settle
<1>8. QED BY <1>1, <1>4, <1>5, <1>6, <1>7 DEF ExecutorIInv

\* A deadline answers an operation, and only the operation of its timer.
LEMMA DeadlineInv ==
  ASSUME ExecutorIInv, NEW o \in Op, Deadline(o)
  PROVE  ExecutorIInv'
<1> USE DEF Outstanding, Decided, Result, Undecided, Timeout
<1>0. ExecutorTypeOK BY DEF ExecutorIInv
<1>1. ExecutorTypeOK' BY <1>0 DEF ExecutorTypeOK, Deadline
<1>2. BookkeepingExact'
  BY DEF ExecutorIInv, BookkeepingExact, Deadline
<1>3. result[o] = Undecided
  BY DEF ExecutorIInv, DeadlineGuardsWait, Deadline
<1>4. AbortIffTimedOut' /\ DeadlineGuardsWait' /\ FreshIsClean'
  BY <1>0, <1>3 DEF ExecutorIInv, ExecutorTypeOK, AbortIffTimedOut, DeadlineGuardsWait,
                    FreshIsClean, Deadline
<1>5. QED BY <1>1, <1>2, <1>4 DEF ExecutorIInv

\* A forgotten operation had left the slot: nothing refers to it.
LEMMA ForgetInv ==
  ASSUME ExecutorIInv, NEW o \in Op, Forget(o)
  PROVE  ExecutorIInv'
<1> USE DEF Outstanding, Decided, Result, Undecided, Timeout
<1>0. ExecutorTypeOK BY DEF ExecutorIInv
<1>1. ExecutorTypeOK' BY <1>0 DEF ExecutorTypeOK, Forget
<1>2. \A p \in Op : Outstanding(p)' <=> Outstanding(p)
  BY <1>0 DEF ExecutorTypeOK, Forget
<1>3. BookkeepingExact'
  <2>1. inFlight' = inFlight /\ operations' = operations
    BY DEF Forget
  <2>2. \A c \in Check : inFlight[c] # NoOp => inFlight[c] \in Op
    BY <1>0 DEF ExecutorTypeOK
  <2>3. QED BY <1>2, <2>1, <2>2 DEF ExecutorIInv, BookkeepingExact
<1>4. AbortIffTimedOut' /\ DeadlineGuardsWait' /\ FreshIsClean'
  BY <1>0, <1>2 DEF ExecutorIInv, ExecutorTypeOK, AbortIffTimedOut, DeadlineGuardsWait,
                    FreshIsClean, Forget
<1>5. QED BY <1>1, <1>3, <1>4 DEF ExecutorIInv

-----------------------------------------------------------------------------
\* Every step keeps the invariant.
LEMMA ExecutorStepInv == ExecutorIInv /\ [ExecutorNext]_executorVars => ExecutorIInv'
<1> SUFFICES ASSUME ExecutorIInv, [ExecutorNext]_executorVars
             PROVE  ExecutorIInv'
  OBVIOUS
<1>1. ASSUME NEW S \in SUBSET Check, NEW f \in [S -> Op], Launch(f)
      PROVE  ExecutorIInv'
  BY <1>1, LaunchInv
<1>2. ASSUME NEW o \in Op, CallAdapter(o) PROVE ExecutorIInv'
  BY <1>2, CallAdapterInv
<1>3. ASSUME NEW o \in Op, Deadline(o) PROVE ExecutorIInv'
  BY <1>3, DeadlineInv
<1>4. ASSUME NEW o \in Op, Forget(o) PROVE ExecutorIInv'
  BY <1>4, ForgetInv
<1>5. ASSUME NEW o \in Op, NEW v \in Outcome, Settle(o, v) PROVE ExecutorIInv'
  BY <1>5, SettleInv
<1>6. CASE UNCHANGED executorVars
  BY <1>6 DEF executorVars, ExecutorIInv, ExecutorTypeOK, BookkeepingExact,
              AbortIffTimedOut, DeadlineGuardsWait, FreshIsClean, Outstanding, Decided
<1>7. QED
  BY <1>1, <1>2, <1>3, <1>4, <1>5, <1>6 DEF ExecutorNext

\* The inductive invariant holds in every behaviour of the executor.
THEOREM ExecutorInvariant == ExecutorSpec => []ExecutorIInv
  BY ExecutorInitInv, ExecutorStepInv, PTL DEF ExecutorSpec

\* The executor's state keeps its types.
THEOREM ExecutorTypeCorrect == ExecutorSpec => []ExecutorTypeOK
<1>1. ExecutorIInv => ExecutorTypeOK BY DEF ExecutorIInv
<1>2. QED BY <1>1, ExecutorInvariant, PTL

\* For any number of checks and of callers, two outstanding adapter calls are
\* never calls of the same check.
THEOREM SingleFlightTheorem == ExecutorSpec => []SingleFlightPerCheck
<1>1. ExecutorIInv => SingleFlightPerCheck
  BY DEF ExecutorIInv, BookkeepingExact, SingleFlightPerCheck
<1>2. QED BY <1>1, ExecutorInvariant, PTL

\* The map and the set always describe exactly the outstanding calls.
THEOREM BookkeepingTheorem == ExecutorSpec => []BookkeepingExact
<1>1. ExecutorIInv => BookkeepingExact BY DEF ExecutorIInv
<1>2. QED BY <1>1, ExecutorInvariant, PTL

\* A signal fires for timed-out calls and for no others.
THEOREM AbortTheorem == ExecutorSpec => []AbortIffTimedOut
<1>1. ExecutorIInv => AbortIffTimedOut BY DEF ExecutorIInv
<1>2. QED BY <1>1, ExecutorInvariant, PTL

\* A deadline timer is pending exactly while a call waits for its answer.
THEOREM DeadlineTheorem == ExecutorSpec => []DeadlineGuardsWait
<1>1. ExecutorIInv => DeadlineGuardsWait BY DEF ExecutorIInv
<1>2. QED BY <1>1, ExecutorInvariant, PTL

\* The answer of an operation never changes: neither a late settlement nor a
\* late timer replaces it.
THEOREM AnswerIsFinalTheorem == ExecutorSpec => AnswerIsFinal
<1> DEFINE A == \A o \in Op : Decided(o) => result'[o] = result[o] \/ phase'[o] = "unused"
<1>1. ExecutorIInv /\ [ExecutorNext]_executorVars => [A]_executorVars
  <2> SUFFICES ASSUME ExecutorIInv, ExecutorNext PROVE A
    BY DEF ExecutorNext
  <2> USE DEF Decided, ExecutorIInv, ExecutorTypeOK, Undecided
  <2>1. ASSUME NEW S \in SUBSET Check, NEW f \in [S -> Op], Launch(f) PROVE A
    BY <2>1 DEF Launch
  <2>2. ASSUME NEW o \in Op, CallAdapter(o) PROVE A
    BY <2>2 DEF CallAdapter
  <2>3. ASSUME NEW o \in Op, Deadline(o) PROVE A
    BY <2>3 DEF Deadline
  <2>4. ASSUME NEW o \in Op, Forget(o) PROVE A
    BY <2>4 DEF Forget
  <2>5. ASSUME NEW o \in Op, NEW v \in Outcome, Settle(o, v) PROVE A
    BY <2>5 DEF Settle
  <2>6. QED BY <2>1, <2>2, <2>3, <2>4, <2>5 DEF ExecutorNext
<1>2. QED BY <1>1, ExecutorInvariant, PTL DEF ExecutorSpec, AnswerIsFinal

-----------------------------------------------------------------------------
\* The state of a check's call, read off its slot.
SlotState(c) ==
  IF inFlight[c] = NoOp THEN "idle"
  ELSE IF Decided(inFlight[c]) THEN "overdue" ELSE "pending"

\* The slot tells the state of the outstanding call: it names the only one.
LEMMA SlotTellsState ==
  ExecutorTypeOK /\ BookkeepingExact => \A c \in Check : CallState(c) = SlotState(c)
<1> SUFFICES ASSUME ExecutorTypeOK, BookkeepingExact, NEW c \in Check
             PROVE  CallState(c) = SlotState(c)
  OBVIOUS
<1> USE ExecutorAssumption
<1>1. CASE inFlight[c] = NoOp
  <2>1. CallsOf(c) = {}
    BY <1>1 DEF CallsOf, BookkeepingExact, ExecutorTypeOK
  <2>2. QED BY <1>1, <2>1 DEF CallState, SlotState
<1>2. CASE inFlight[c] # NoOp
  <2>1. CallsOf(c) = {inFlight[c]}
    BY <1>2 DEF CallsOf, BookkeepingExact, ExecutorTypeOK
  <2>2. QED BY <1>2, <2>1 DEF CallState, SlotState
<1>3. QED BY <1>1, <1>2

Mapped == [c \in Check |-> CallState(c)]

\* Every step of the executor is a step of SingleFlight, or changes nothing
\* SingleFlight speaks of.
LEMMA StepSimulation ==
  ExecutorIInv /\ [ExecutorNext]_executorVars => [Promise!Next]_Mapped
<1> SUFFICES ASSUME ExecutorIInv, [ExecutorNext]_executorVars
             PROVE  Promise!Next \/ Mapped' = Mapped
  BY DEF Mapped
<1> USE ExecutorAssumption DEF Decided, Undecided, Timeout
<1>0. ExecutorTypeOK /\ BookkeepingExact /\ DeadlineGuardsWait /\ FreshIsClean
  BY DEF ExecutorIInv
<1>a. \A c \in Check : CallState(c) = SlotState(c) /\ CallState(c)' = SlotState(c)'
  <2>1. ExecutorTypeOK' /\ BookkeepingExact'
    BY ExecutorStepInv DEF ExecutorIInv
  <2>2. (\A c \in Check : CallState(c) = SlotState(c))'
    BY <2>1, SlotTellsState, PTL
  <2>3. QED BY <1>0, <2>2, SlotTellsState
<1>1. ASSUME NEW S \in SUBSET Check, NEW f \in [S -> Op], Launch(f)
      PROVE  Promise!Next
  <2>1. ASSUME NEW c \in S
        PROVE  CallState(c) = "idle" /\ CallState(c)' = "pending"
    <3>1. c \in Check /\ inFlight[c] = NoOp /\ inFlight'[c] = f[c] /\ f[c] \in Op
          /\ result'[f[c]] = "none"
      BY <1>0, <1>1 DEF Launch, FreshIsClean
    <3>2. QED BY <1>a, <3>1 DEF SlotState
  <2>2. ASSUME NEW c \in Check, c \notin S
        PROVE  CallState(c)' = CallState(c)
    BY <1>a, <1>1, <2>2 DEF Launch, SlotState
  <2>3. Promise!Begin(S)
    BY <2>1, <2>2 DEF Promise!Begin, Promise!Idle, Promise!Pending
  <2>4. QED BY <2>3 DEF Promise!Next
<1>2. ASSUME NEW o \in Op, CallAdapter(o) PROVE Mapped' = Mapped
  BY <1>a, <1>2 DEF CallAdapter, Mapped, SlotState
<1>3. ASSUME NEW o \in Op, Deadline(o) PROVE Promise!Next
  <2> DEFINE c == CheckOf[o]
  <2>1. Outstanding(o) /\ result[o] = "none" /\ inFlight[c] = o /\ c \in Check
    BY <1>0, <1>3 DEF Deadline, DeadlineGuardsWait, BookkeepingExact, Outstanding
  <2>2. CallState(c) = "pending" /\ CallState(c)' = "overdue"
    BY <1>a, <1>0, <1>3, <2>1 DEF Deadline, SlotState, ExecutorTypeOK
  <2>3. ASSUME NEW d \in Check, d # c PROVE CallState(d)' = CallState(d)
    <3>1. inFlight[d] # o
      BY <1>0, <2>3 DEF BookkeepingExact
    <3>2. QED BY <1>a, <1>0, <1>3, <3>1 DEF Deadline, SlotState, ExecutorTypeOK
  <2>4. Promise!Expire(c)
    BY <2>1, <2>2, <2>3 DEF Promise!Expire, Promise!Move, Promise!Pending, Promise!Overdue
  <2>5. QED BY <2>1, <2>4 DEF Promise!Next
<1>4. ASSUME NEW o \in Op, Forget(o) PROVE Mapped' = Mapped
  <2>1. ASSUME NEW c \in Check PROVE CallState(c)' = CallState(c)
    <3>1. inFlight[c] # o
      BY <1>0, <1>4 DEF Forget, BookkeepingExact, Outstanding
    <3>2. QED BY <1>a, <1>0, <1>4, <3>1 DEF Forget, SlotState, ExecutorTypeOK
  <2>2. QED BY <2>1 DEF Mapped
<1>5. ASSUME NEW o \in Op, NEW v \in Outcome, Settle(o, v) PROVE Promise!Next
  <2> DEFINE c == CheckOf[o]
  <2>1. inFlight[c] = o /\ c \in Check
    BY <1>0, <1>5 DEF Settle, BookkeepingExact, Outstanding
  <2>2. CallState(c) \in {"pending", "overdue"} /\ CallState(c)' = "idle"
    BY <1>a, <1>0, <1>5, <2>1 DEF Settle, SlotState, ExecutorTypeOK
  <2>3. ASSUME NEW d \in Check, d # c PROVE CallState(d)' = CallState(d)
    <3>1. inFlight[d] # o
      BY <1>0, <2>3 DEF BookkeepingExact
    <3>2. QED BY <1>a, <1>0, <1>5, <2>3, <3>1 DEF Settle, SlotState, ExecutorTypeOK
  <2>4. Promise!Answer(c) \/ Promise!Release(c)
    BY <2>1, <2>2, <2>3 DEF Promise!Answer, Promise!Release, Promise!Move,
       Promise!Pending, Promise!Overdue, Promise!Idle
  <2>5. QED BY <2>1, <2>4 DEF Promise!Next
<1>6. CASE UNCHANGED executorVars
  BY <1>a, <1>6 DEF executorVars, Mapped, SlotState
<1>7. QED
  BY <1>1, <1>2, <1>3, <1>4, <1>5, <1>6 DEF ExecutorNext

\* CheckExecutor implements the promise of SingleFlight.
THEOREM ExecutorImplementsSingleFlight == ExecutorSpec => ImplementsSingleFlight
<1>1. ExecutorInit => Promise!Init
  BY DEF ExecutorInit, Promise!Init, CallState, CallsOf, Outstanding, Promise!Idle
<1>2. QED
  BY <1>1, StepSimulation, ExecutorInvariant, PTL
  DEF ExecutorSpec, ImplementsSingleFlight, Promise!Spec, Mapped

-----------------------------------------------------------------------------
(***************************************************************************)
(* The scheduler.  Its invariant contains the executor's.  Its own part    *)
(* says what the two maps refer to: a run whose call is still out is the   *)
(* pending run of its check (RunsAreKept), the cache belongs to the        *)
(* current lifecycle, holds the answer of a run that has ended and is not  *)
(* older than the last of them (EntriesAreCurrent), and of two runs of a   *)
(* check that are still waiting only the older one has its answer          *)
(* (LatestRun).  The last one holds because a timer fires only when every  *)
(* reaction to an answer has run.                                          *)
(*                                                                         *)
(* StoppedIsOver stands apart: close() clears the timers and leaves the    *)
(* runs of the lifecycle waiting, so it holds of the scheduler by itself   *)
(* and under a kit that is open, and start() needs it there.               *)
(***************************************************************************)
RunsAreKept ==
  \A o \in Op :
    /\ phase[o] = "unused" => run[o] = NoRun
    /\ phase[o] = "settled" => Decided(o)
    /\ result[o] \in Outcome => phase[o] = "settled"
    /\ run[o] \in Outcome => ~Outstanding(o)
    /\ run[o] # NoRun /\ Outstanding(o) => pending[CheckOf[o]] = o
    /\ runIn[o] <= generation

EntriesAreCurrent ==
  \A c \in Check :
    /\ pending[c] # NoOp =>
         /\ CheckOf[pending[c]] = c
         /\ run[pending[c]] # NoRun
         /\ run[pending[c]] \in Outcome => runIn[pending[c]] = generation
    /\ cache[c] # NoOp =>
         /\ CheckOf[cache[c]] = c
         /\ run[cache[c]] \in Outcome \cup {Timeout}
         /\ runIn[cache[c]] = generation
         /\ pending[c] # NoOp /\ runIn[pending[c]] = generation
         /\ cache[c] = pending[c] \/ run[pending[c]] = Waiting

WaitsNow(o) == run[o] = Waiting /\ runIn[o] = generation

LatestRun ==
  \A o \in Op : WaitsNow(o) =>
    /\ pending[CheckOf[o]] # NoOp
    /\ runIn[pending[CheckOf[o]]] = generation
    /\ \/ pending[CheckOf[o]] = o
       \/ /\ Decided(o)
          /\ run[pending[CheckOf[o]]] = Waiting
          /\ ~Decided(pending[CheckOf[o]])

StoppedIsOver == timers = {} => \A o \in Op : ~WaitsNow(o)

Reports ==
  \A o \in Op :
    /\ heardIn[o] <= generation
    /\ events[o] + unheard[o] <= 1
    /\ o \notin observed => events[o] = 0 /\ unheard[o] = 0
    /\ o \in observed /\ heardIn[o] = generation => events[o] + unheard[o] = 1

SchedulerIInv ==
  /\ ExecutorIInv
  /\ SchedulerTypeOK
  /\ RunsAreKept
  /\ EntriesAreCurrent
  /\ LatestRun
  /\ Reports
  /\ TransitionsTellStatus

LEMMA SchedulerInitInv == SchedulerInit => SchedulerIInv /\ StoppedIsOver
<1> SUFFICES ASSUME SchedulerInit PROVE SchedulerIInv /\ StoppedIsOver
  OBVIOUS
<1> USE SchedulerAssumption, ExecutorAssumption DEF SchedulerInit
<1>1. ExecutorIInv /\ ExecutorTypeOK
  BY ExecutorInitInv DEF ExecutorIInv
<1>2. SchedulerTypeOK
  BY <1>1 DEF SchedulerTypeOK, Generation, RunState
<1>3. RunsAreKept
  BY DEF RunsAreKept, ExecutorInit, Outstanding, Undecided, Status, NoRun
<1>4. EntriesAreCurrent /\ LatestRun /\ StoppedIsOver
  BY DEF EntriesAreCurrent, LatestRun, StoppedIsOver, WaitsNow, Waiting, NoRun
<1>5. Reports /\ TransitionsTellStatus
  BY DEF Reports, TransitionsTellStatus
<1>6. QED BY <1>1, <1>2, <1>3, <1>4, <1>5 DEF SchedulerIInv

-----------------------------------------------------------------------------
\* runCheck launches an operation for each free slot and shares the others.
LEMMA RunCheckFacts ==
  ASSUME ExecutorIInv, NEW S \in SUBSET Check, RunCheck(S)
  PROVE  /\ ExecutorNext
         /\ result' = result
         /\ \A c \in S : /\ Running(c) \in Op
                         /\ CheckOf[Running(c)] = c
                         /\ phase[Running(c)] = "unused" \/ inFlight[c] = Running(c)
                         /\ phase'[Running(c)] \in {"queued", "running"}
         /\ \A o \in Op :
              \/ phase'[o] = phase[o]
              \/ /\ phase[o] = "unused" /\ phase'[o] = "queued"
                 /\ CheckOf[o] \in S /\ o = Running(CheckOf[o])
<1> DEFINE free == {d \in S : inFlight[d] = NoOp}
           f == [c \in free |-> Fresh(c)]
<1> USE ExecutorAssumption
<1>1. Launch(f) /\ \A c \in S : inFlight[c] = NoOp => HasFresh(c)
  BY DEF RunCheck
<1>2. \A c \in free : Fresh(c) \in Op /\ CheckOf[Fresh(c)] = c /\ phase[Fresh(c)] = "unused"
  BY <1>1 DEF HasFresh, Fresh
<1>3. f \in [free -> Op] /\ free \in SUBSET Check /\ DOMAIN f = free
        /\ \A c \in free : f[c] = Fresh(c)
  BY <1>2
<1> HIDE DEF f
<1>4. ExecutorNext
  BY <1>1, <1>3 DEF ExecutorNext
<1>5. /\ result' = result
      /\ \A o \in Op : phase'[o] = IF o \in {f[c] : c \in free} THEN "queued" ELSE phase[o]
  BY <1>1, <1>3 DEF Launch
<1>6. ASSUME NEW c \in S
      PROVE  /\ Running(c) \in Op
             /\ CheckOf[Running(c)] = c
             /\ phase[Running(c)] = "unused" \/ inFlight[c] = Running(c)
             /\ phase'[Running(c)] \in {"queued", "running"}
  <2>1. CASE c \in free
    BY <1>2, <1>3, <1>5, <2>1 DEF Running
  <2>2. CASE c \notin free
    <3>1. Running(c) = inFlight[c] /\ inFlight[c] # NoOp
      BY <2>2 DEF Running
    <3>2. inFlight[c] \in Op /\ Outstanding(inFlight[c]) /\ CheckOf[inFlight[c]] = c
      BY <3>1 DEF ExecutorIInv, ExecutorTypeOK, BookkeepingExact
    <3>3. QED BY <1>5, <3>1, <3>2 DEF Outstanding
  <2>3. QED BY <2>1, <2>2
<1>7. ASSUME NEW o \in Op, phase'[o] # phase[o]
      PROVE  /\ phase[o] = "unused" /\ phase'[o] = "queued"
             /\ CheckOf[o] \in S /\ o = Running(CheckOf[o])
  <2>1. PICK c \in free : o = Fresh(c)
    BY <1>3, <1>5, <1>7
  <2>2. QED BY <1>2, <1>5, <1>7, <2>1 DEF Running
<1>8. result' = result
  BY <1>5
<1> HIDE DEF free
<1>9. QED BY <1>4, <1>6, <1>7, <1>8

\* It attaches its completion callback once to each operation.
LEMMA RunCheckReports ==
  ASSUME SchedulerIInv, NEW S \in SUBSET Check, RunCheck(S), generation' = generation
  PROVE  /\ observed' \subseteq Op /\ unheard' \in [Op -> Nat] /\ heardIn' \in [Op -> Generation]
         /\ UNCHANGED <<statuses, events, followed>>
         /\ Reports'
<1> DEFINE ops == {Running(c) : c \in S}
<1>1. ops \subseteq Op
  BY RunCheckFacts DEF SchedulerIInv
<1>2. /\ observed' = observed \cup ops
      /\ unheard' = [o \in Op |-> IF o \in ops \ observed THEN unheard[o] + 1 ELSE unheard[o]]
      /\ heardIn' = [o \in Op |-> IF o \in ops \ observed THEN generation ELSE heardIn[o]]
      /\ UNCHANGED <<statuses, events, followed>>
  BY DEF RunCheck
<1> HIDE DEF ops
<1>3. /\ observed \subseteq Op /\ unheard \in [Op -> Nat] /\ heardIn \in [Op -> Generation]
      /\ generation \in Generation /\ events \in [Op -> Nat] /\ Generation \subseteq Nat
  BY SchedulerAssumption DEF SchedulerIInv, SchedulerTypeOK, Generation
<1>4. observed' \subseteq Op /\ unheard' \in [Op -> Nat] /\ heardIn' \in [Op -> Generation]
  BY <1>1, <1>2, <1>3
<1>5. ASSUME NEW o \in Op
      PROVE  /\ heardIn'[o] <= generation
             /\ events[o] + unheard'[o] <= 1
             /\ o \notin observed' => events[o] = 0 /\ unheard'[o] = 0
             /\ o \in observed' /\ heardIn'[o] = generation => events[o] + unheard'[o] = 1
  <2>1. CASE o \in ops \ observed
    BY <1>2, <1>3, <2>1 DEF SchedulerIInv, Reports
  <2>2. CASE o \notin ops \ observed
    BY <1>2, <1>3, <2>2 DEF SchedulerIInv, Reports
  <2>3. QED BY <2>1, <2>2
<1>6. QED BY <1>2, <1>4, <1>5 DEF Reports

\* A set of scheduled runs begins when no run of this lifecycle that waits has
\* its adapter's settlement already.
LEMMA RunAndCacheInv ==
  ASSUME SchedulerIInv, NEW S \in SUBSET Check, RunAndCache(S),
         \A o \in Op : WaitsNow(o) => Outstanding(o),
         UNCHANGED <<cache, generation>>, timers' \subseteq Scheduled
  PROVE  /\ SchedulerIInv'
         /\ \A o \in Op : run[o] # NoRun => runIn'[o] = runIn[o] /\ run'[o] = run[o]
<1> DEFINE live == {c \in S : ~RunsAlready(c)}
           ops  == {Running(c) : c \in live}
<1> USE ExecutorAssumption
<1>1. /\ RunCheck(live) /\ live \in SUBSET Check
      /\ pending' = [c \in Check |-> IF c \in live THEN Running(c) ELSE pending[c]]
      /\ run' = [o \in Op |-> IF o \in ops THEN Waiting ELSE run[o]]
      /\ runIn' = [o \in Op |-> IF o \in ops THEN generation ELSE runIn[o]]
  BY DEF RunAndCache
<1>2. /\ ExecutorNext
      /\ result' = result
      /\ \A c \in live : /\ Running(c) \in Op
                         /\ CheckOf[Running(c)] = c
                         /\ phase[Running(c)] = "unused" \/ inFlight[c] = Running(c)
                         /\ phase'[Running(c)] \in {"queued", "running"}
      /\ \A o \in Op : phase'[o] = phase[o] \/ (CheckOf[o] \in live /\ o = Running(CheckOf[o]))
  BY <1>1, RunCheckFacts DEF SchedulerIInv
<1>3. \A c \in live : pending[c] # inFlight[c] \/ inFlight[c] = NoOp
  BY DEF RunsAlready
<1>4. ops \subseteq Op /\ \A o \in Op : o \in ops <=> CheckOf[o] \in live /\ o = Running(CheckOf[o])
  BY <1>2
<1> HIDE DEF live, ops
<1>5. \A o \in Op : Outstanding(o) => inFlight[CheckOf[o]] = o
  BY DEF SchedulerIInv, ExecutorIInv, BookkeepingExact
<1>6. /\ pending \in [Check -> Op \cup {NoOp}] /\ cache \in [Check -> Op \cup {NoOp}]
      /\ run \in [Op -> RunState] /\ runIn \in [Op -> Generation]
      /\ generation \in Generation /\ Generation \subseteq Nat
  BY SchedulerAssumption DEF SchedulerIInv, SchedulerTypeOK, Generation
<1>7. ExecutorIInv' /\ ExecutorTypeOK'
  BY <1>2, ExecutorStepInv DEF SchedulerIInv, ExecutorIInv
<1>8. \A o \in ops : run[o] = NoRun
  <2> SUFFICES ASSUME NEW o \in ops PROVE run[o] = NoRun
    OBVIOUS
  <2>1. o \in Op /\ CheckOf[o] \in live /\ o = Running(CheckOf[o])
    BY <1>4
  <2>2. CASE phase[o] = "unused"
    BY <2>1, <2>2 DEF SchedulerIInv, RunsAreKept
  <2>3. CASE inFlight[CheckOf[o]] = o
    <3>1. Outstanding(o) /\ pending[CheckOf[o]] # o
      BY <1>1, <1>3, <2>1, <2>3 DEF SchedulerIInv, ExecutorIInv, BookkeepingExact
    <3>2. QED BY <2>1, <3>1 DEF SchedulerIInv, RunsAreKept
  <2>4. QED BY <1>2, <2>1, <2>2, <2>3
<1>9. SchedulerTypeOK'
  <2>1. pending' \in [Check -> Op \cup {NoOp}]
    BY <1>1, <1>2, <1>6
  <2>2. run' \in [Op -> RunState]
    BY <1>1, <1>6 DEF RunState
  <2>3. runIn' \in [Op -> Generation]
    BY <1>1, <1>6
  <2>4. QED BY <1>1, <1>7, <2>1, <2>2, <2>3, RunCheckReports DEF SchedulerIInv, SchedulerTypeOK
<1>10. RunsAreKept'
  <2> SUFFICES ASSUME NEW o \in Op
               PROVE  /\ phase'[o] = "unused" => run'[o] = NoRun
                      /\ phase'[o] = "settled" => result'[o] # Undecided
                      /\ result'[o] \in Outcome => phase'[o] = "settled"
                      /\ run'[o] \in Outcome => phase'[o] \notin {"queued", "running"}
                      /\ run'[o] # NoRun /\ phase'[o] \in {"queued", "running"}
                           => pending'[CheckOf[o]] = o
                      /\ runIn'[o] <= generation'
    BY DEF RunsAreKept, Decided, Outstanding
  <2>1. CASE o \in ops
    <3>1. /\ phase'[o] \in {"queued", "running"} /\ run'[o] = Waiting /\ runIn'[o] = generation
          /\ pending'[CheckOf[o]] = o
      BY <1>1, <1>2, <1>4, <2>1
    <3>2. phase[o] # "settled"
      BY <1>2, <1>4, <2>1 DEF SchedulerIInv, ExecutorIInv, BookkeepingExact, Outstanding
    <3>3. QED BY <1>2, <1>6, <3>1, <3>2 DEF SchedulerIInv, RunsAreKept, Waiting, Status
  <2>2. CASE o \notin ops
    <3>1. phase'[o] = phase[o] /\ run'[o] = run[o] /\ runIn'[o] = runIn[o]
      BY <1>1, <1>2, <1>4, <2>2
    <3>2. ASSUME run[o] # NoRun, Outstanding(o) PROVE pending'[CheckOf[o]] = o
      <4>1. pending[CheckOf[o]] = o /\ inFlight[CheckOf[o]] = o
        BY <1>5, <3>2 DEF SchedulerIInv, RunsAreKept
      <4>2. CheckOf[o] \notin live
        BY <1>3, <4>1
      <4>3. QED BY <1>1, <4>1, <4>2
    <3>3. QED BY <1>2, <3>1, <3>2 DEF SchedulerIInv, RunsAreKept, Decided, Outstanding
  <2>3. QED BY <2>1, <2>2
<1>11. ASSUME NEW c \in Check
       PROVE  \/ pending'[c] = pending[c] /\ (pending[c] # NoOp /\ CheckOf[pending[c]] = c =>
                    run'[pending[c]] = run[pending[c]] /\ runIn'[pending[c]] = runIn[pending[c]])
              \/ /\ pending'[c] \in Op /\ CheckOf[pending'[c]] = c
                 /\ run'[pending'[c]] = Waiting /\ runIn'[pending'[c]] = generation
  <2>1. CASE c \in live
    BY <1>1, <1>2, <1>4, <2>1
  <2>2. CASE c \notin live
    <3>1. pending'[c] = pending[c]
      BY <1>1, <2>2
    <3>2. ASSUME pending[c] # NoOp, CheckOf[pending[c]] = c
          PROVE  pending[c] \in Op \ ops
      BY <1>4, <1>6, <2>2, <3>2
    <3>3. QED BY <1>1, <3>1, <3>2
  <2>3. QED BY <2>1, <2>2
<1>12. EntriesAreCurrent'
  <2> SUFFICES ASSUME NEW c \in Check
               PROVE  /\ pending'[c] # NoOp =>
                           /\ CheckOf[pending'[c]] = c
                           /\ run'[pending'[c]] # NoRun
                           /\ run'[pending'[c]] \in Outcome => runIn'[pending'[c]] = generation
                      /\ cache[c] # NoOp =>
                           /\ CheckOf[cache[c]] = c
                           /\ run'[cache[c]] \in Outcome \cup {Timeout}
                           /\ runIn'[cache[c]] = generation
                           /\ pending'[c] # NoOp /\ runIn'[pending'[c]] = generation
                           /\ cache[c] = pending'[c] \/ run'[pending'[c]] = Waiting
    BY DEF EntriesAreCurrent
  <2>1. cache[c] # NoOp =>
          /\ CheckOf[cache[c]] = c
          /\ run'[cache[c]] \in Outcome \cup {Timeout}
          /\ runIn'[cache[c]] = generation
    <3> SUFFICES ASSUME cache[c] # NoOp
                 PROVE  /\ CheckOf[cache[c]] = c
                        /\ run'[cache[c]] \in Outcome \cup {Timeout}
                        /\ runIn'[cache[c]] = generation
      OBVIOUS
    <3>1. /\ cache[c] \in Op /\ CheckOf[cache[c]] = c /\ runIn[cache[c]] = generation
          /\ run[cache[c]] \in Outcome \cup {Timeout}
      BY <1>6 DEF SchedulerIInv, EntriesAreCurrent
    <3>2. run[cache[c]] # NoRun
      BY <3>1 DEF NoRun, Timeout, Status
    <3>3. cache[c] \notin ops
      BY <1>8, <3>2
    <3>4. QED BY <1>1, <3>1, <3>3
  <2>2. Waiting # NoRun /\ Waiting \notin Outcome
    BY DEF Waiting, NoRun, Status
  <2>3. QED BY <1>11, <2>1, <2>2 DEF SchedulerIInv, EntriesAreCurrent
<1>13. LatestRun'
  <2> SUFFICES ASSUME NEW o \in Op, run'[o] = Waiting, runIn'[o] = generation
               PROVE  pending'[CheckOf[o]] = o
    BY DEF LatestRun, WaitsNow
  <2>1. CASE o \in ops
    BY <1>1, <1>4, <2>1
  <2>2. CASE o \notin ops
    <3>1. WaitsNow(o)
      BY <1>1, <2>2 DEF WaitsNow
    <3>2. Outstanding(o) /\ inFlight[CheckOf[o]] = o /\ pending[CheckOf[o]] = o
      BY <1>5, <3>1 DEF SchedulerIInv, RunsAreKept, WaitsNow, Waiting, NoRun
    <3>3. CheckOf[o] \notin live
      BY <1>3, <3>2
    <3>4. QED BY <1>1, <3>2, <3>3
  <2>3. QED BY <2>1, <2>2
<1>14. Reports' /\ TransitionsTellStatus'
  BY <1>1, RunCheckReports DEF SchedulerIInv, TransitionsTellStatus
<1>15. \A o \in Op : run[o] # NoRun => runIn'[o] = runIn[o] /\ run'[o] = run[o]
  BY <1>1, <1>8
<1>16. QED BY <1>7, <1>9, <1>10, <1>12, <1>13, <1>14, <1>15 DEF SchedulerIInv

-----------------------------------------------------------------------------
\* A timer fires when no reaction is left to run.
LEMMA TickInv ==
  ASSUME SchedulerIInv, NEW c \in Check, Tick(c)
  PROVE  /\ SchedulerIInv' /\ StoppedIsOver'
         /\ \A o \in Op : run[o] # NoRun => runIn'[o] = runIn[o] /\ run'[o] = run[o]
<1>1. \A o \in Op : ~Reacting(o)
  BY DEF Tick, SchedulerJobs
<1>2. ASSUME NEW o \in Op, WaitsNow(o) PROVE Outstanding(o)
  <2>1. ~Decided(o) /\ run[o] # NoRun
    BY <1>1, <1>2 DEF Reacting, WaitsNow, Waiting, NoRun
  <2>2. phase[o] \notin {"unused", "settled"}
    BY <2>1 DEF SchedulerIInv, RunsAreKept
  <2>3. QED BY <2>2 DEF Outstanding, SchedulerIInv, ExecutorIInv, ExecutorTypeOK
<1>3. timers' \subseteq Scheduled /\ timers' # {}
  BY DEF Tick, SchedulerIInv, SchedulerTypeOK
<1>4. RunAndCache({c}) /\ UNCHANGED <<cache, generation>>
  BY DEF Tick
<1>5. StoppedIsOver'
  BY <1>3 DEF StoppedIsOver
<1>6. QED BY <1>2, <1>3, <1>4, <1>5, RunAndCacheInv

\* start() finds no run of the lifecycle it begins.
LEMMA StartInv ==
  ASSUME SchedulerIInv, StoppedIsOver, timers = {}, StartSchedule
  PROVE  /\ SchedulerIInv' /\ StoppedIsOver'
         /\ \A o \in Op : run[o] # NoRun => runIn'[o] = runIn[o] /\ run'[o] = run[o]
<1>1. /\ RunAndCache(Scheduled \ timers)
      /\ timers = {} /\ timers' = Scheduled /\ StoppedIsOver
      /\ UNCHANGED <<cache, generation>>
  BY DEF StartSchedule
<1>2. Scheduled \ timers \in SUBSET Check
  BY SchedulerAssumption
<1>3. \A o \in Op : ~WaitsNow(o)
  BY <1>1 DEF StoppedIsOver
<1>4. StoppedIsOver'
  <2>1. CASE Scheduled = {}
    <3>1. run' = run /\ runIn' = runIn
      BY <1>1, <2>1 DEF RunAndCache, SchedulerIInv, SchedulerTypeOK
    <3>2. QED BY <1>1, <1>3, <3>1 DEF StoppedIsOver, WaitsNow
  <2>2. CASE Scheduled # {}
    BY <1>1, <2>2 DEF StoppedIsOver
  <2>3. QED BY <2>1, <2>2
<1>5. QED BY <1>1, <1>2, <1>3, <1>4, RunAndCacheInv

\* An execution that a request asks for is no run of the schedule.
LEMMA RunCheckInv ==
  ASSUME SchedulerIInv, NEW S \in SUBSET Check, RunCheck(S), UNCHANGED cacheVars
  PROVE  SchedulerIInv' /\ (StoppedIsOver => StoppedIsOver')
<1> USE ExecutorAssumption
<1>1. UNCHANGED <<timers, cache, pending, generation, run, runIn>>
  BY DEF cacheVars
<1>2. /\ ExecutorNext
      /\ result' = result
      /\ \A o \in Op : \/ phase'[o] = phase[o]
                       \/ phase[o] = "unused" /\ phase'[o] = "queued"
  BY RunCheckFacts DEF SchedulerIInv
<1>3. ExecutorIInv' /\ ExecutorTypeOK'
  BY <1>2, ExecutorStepInv DEF SchedulerIInv, ExecutorIInv
<1>4. SchedulerTypeOK'
  BY <1>1, <1>3, RunCheckReports DEF SchedulerIInv, SchedulerTypeOK
<1>5. RunsAreKept'
  <2> SUFFICES ASSUME NEW o \in Op
               PROVE  /\ phase'[o] = "unused" => run[o] = NoRun
                      /\ phase'[o] = "settled" => Decided(o)
                      /\ result[o] \in Outcome => phase'[o] = "settled"
                      /\ run[o] \in Outcome => phase'[o] \notin {"queued", "running"}
                      /\ run[o] # NoRun /\ phase'[o] \in {"queued", "running"}
                           => pending[CheckOf[o]] = o
                      /\ runIn[o] <= generation
    BY <1>1, <1>2 DEF RunsAreKept, Outstanding, Decided
  <2>1. CASE phase'[o] = phase[o]
    BY <2>1 DEF SchedulerIInv, RunsAreKept, Outstanding
  <2>2. CASE phase[o] = "unused" /\ phase'[o] = "queued"
    BY <2>2 DEF SchedulerIInv, RunsAreKept, Status, NoRun
  <2>3. QED BY <1>2, <2>1, <2>2
<1>6. EntriesAreCurrent' /\ LatestRun' /\ (StoppedIsOver => StoppedIsOver')
  BY <1>1, <1>2
  DEF SchedulerIInv, EntriesAreCurrent, LatestRun, StoppedIsOver, WaitsNow, Decided
<1>7. Reports' /\ TransitionsTellStatus'
  BY <1>1, RunCheckReports DEF SchedulerIInv, TransitionsTellStatus
<1>8. QED BY <1>3, <1>4, <1>5, <1>6, <1>7 DEF SchedulerIInv

\* stop(): what is kept is still in flight, so it has produced no success yet.
LEMMA StopInv ==
  ASSUME SchedulerIInv, StopSchedule, generation <= MaxStops
  PROVE  SchedulerIInv' /\ StoppedIsOver'
<1> USE ExecutorAssumption, SchedulerAssumption
<1>1. /\ timers' = {} /\ cache' = [c \in Check |-> NoOp]
      /\ generation' = generation + 1 /\ generation <= MaxStops
      /\ statuses' = [c \in Check |-> "none"] /\ followed' = [c \in Check |-> "none"]
      /\ pending' = [c \in Check |-> IF RunsAlready(c) THEN pending[c] ELSE NoOp]
      /\ UNCHANGED <<phase, result, armed, aborted, inFlight, operations>>
      /\ UNCHANGED <<observed, unheard, heardIn, events, run, runIn>>
  BY DEF StopSchedule, StopTimers, executorVars
<1>2. /\ generation \in Nat /\ \A o \in Op : runIn[o] \in Nat /\ heardIn[o] \in Nat
      /\ \A o \in Op : runIn[o] <= generation /\ heardIn[o] <= generation
  BY DEF SchedulerIInv, SchedulerTypeOK, Generation, RunsAreKept, Reports
<1>3. ExecutorIInv' /\ ExecutorTypeOK'
  BY <1>1, ExecutorStepInv DEF SchedulerIInv, ExecutorIInv, executorVars
<1>4. pending' \in [Check -> Op \cup {NoOp}]
  BY <1>1 DEF SchedulerIInv, SchedulerTypeOK
<1>5. SchedulerTypeOK'
  BY <1>1, <1>2, <1>3, <1>4 DEF SchedulerIInv, SchedulerTypeOK, Generation
<1>6. \A c \in Check : inFlight[c] # NoOp => Outstanding(inFlight[c]) /\ inFlight[c] \in Op
  BY DEF SchedulerIInv, ExecutorIInv, ExecutorTypeOK, BookkeepingExact
<1>7. RunsAreKept'
  <2>1. ASSUME NEW o \in Op, run[o] # NoRun, Outstanding(o) PROVE pending'[CheckOf[o]] = o
    <3>1. pending[CheckOf[o]] = o /\ inFlight[CheckOf[o]] = o
      BY <2>1 DEF SchedulerIInv, RunsAreKept, ExecutorIInv, BookkeepingExact
    <3>2. RunsAlready(CheckOf[o]) /\ CheckOf[o] \in Check
      BY <3>1 DEF RunsAlready
    <3>3. QED BY <1>1, <3>1, <3>2
  <2>2. QED BY <1>1, <1>2, <2>1 DEF SchedulerIInv, RunsAreKept, Outstanding, Decided
<1>8. EntriesAreCurrent'
  <2> SUFFICES ASSUME NEW c \in Check, pending'[c] # NoOp
               PROVE  CheckOf[pending[c]] = c /\ run[pending[c]] \notin Outcome \cup {NoRun}
                      /\ pending'[c] = pending[c]
    BY <1>1 DEF EntriesAreCurrent
  <2>1. pending'[c] = pending[c] /\ pending[c] = inFlight[c] /\ inFlight[c] # NoOp
    BY <1>1 DEF RunsAlready
  <2>2. QED BY <1>6, <2>1 DEF SchedulerIInv, RunsAreKept, EntriesAreCurrent
<1>9. \A o \in Op : runIn'[o] # generation' /\ heardIn'[o] # generation'
  BY <1>1, <1>2
<1>10. LatestRun' /\ StoppedIsOver'
  BY <1>9 DEF LatestRun, StoppedIsOver, WaitsNow
<1>11. Reports' /\ TransitionsTellStatus'
  BY <1>1, <1>2, <1>9 DEF SchedulerIInv, Reports, TransitionsTellStatus
<1>12. QED BY <1>3, <1>5, <1>7, <1>8, <1>10, <1>11 DEF SchedulerIInv

-----------------------------------------------------------------------------
\* The status of a result is one of the three.
LEMMA EffectiveIsStatus ==
  ASSUME NEW c \in Check, NEW res PROVE Effective(c, res) \in Status
  BY SchedulerAssumption DEF Effective, Status

\* The completion callback reports, once, what the operation ended with.
LEMMA CompleteInv ==
  ASSUME SchedulerIInv, NEW o \in Op, Complete(o)
  PROVE  SchedulerIInv' /\ (StoppedIsOver => StoppedIsOver')
<1> DEFINE c == CheckOf[o]
           status == Effective(c, result[o])
<1>1. c \in Check
  BY ExecutorAssumption
<1>2. status \in Status
  BY <1>1, EffectiveIsStatus
<1>3. /\ unheard[o] > 0 /\ unheard' = [unheard EXCEPT ![o] = @ - 1]
      /\ UNCHANGED <<phase, result, armed, aborted, inFlight, operations>>
      /\ UNCHANGED <<observed, heardIn, timers, cache, pending, generation, run, runIn>>
      /\ \/ /\ heardIn[o] = generation
            /\ statuses' = [statuses EXCEPT ![c] = status]
            /\ events' = [events EXCEPT ![o] = @ + 1]
            /\ followed' = [followed EXCEPT ![c] =
                              IF ChangesStatus(c, status) \/ IsBaseline(c) THEN status ELSE @]
         \/ heardIn[o] # generation /\ UNCHANGED <<statuses, events, followed>>
  BY DEF Complete, executorVars, cacheVars
<1> HIDE DEF c, status
<1>4. ExecutorIInv' /\ ExecutorTypeOK'
  BY <1>3, ExecutorStepInv DEF SchedulerIInv, ExecutorIInv, executorVars
<1>5. /\ unheard \in [Op -> Nat] /\ events \in [Op -> Nat]
      /\ statuses \in [Check -> Status \cup {"none"}]
      /\ followed \in [Check -> Status \cup {"none"}]
  BY DEF SchedulerIInv, SchedulerTypeOK
<1>6. /\ unheard' \in [Op -> Nat] /\ events' \in [Op -> Nat]
      /\ statuses' \in [Check -> Status \cup {"none"}]
      /\ followed' \in [Check -> Status \cup {"none"}]
  BY <1>2, <1>3, <1>5
<1>7. SchedulerTypeOK'
  BY <1>3, <1>4, <1>6 DEF SchedulerIInv, SchedulerTypeOK
<1>8. RunsAreKept' /\ EntriesAreCurrent' /\ LatestRun' /\ (StoppedIsOver => StoppedIsOver')
  BY <1>3
  DEF SchedulerIInv, RunsAreKept, EntriesAreCurrent, LatestRun, StoppedIsOver, WaitsNow,
      Outstanding, Decided
<1>9. Reports'
  BY <1>3, <1>5 DEF SchedulerIInv, Reports
<1>10. TransitionsTellStatus'
  BY <1>1, <1>2, <1>3, <1>5
  DEF SchedulerIInv, TransitionsTellStatus, ChangesStatus, IsBaseline
<1>11. QED BY <1>4, <1>7, <1>8, <1>9, <1>10 DEF SchedulerIInv

\* The end of a run: the run that is cached is the pending one, or an older one
\* while the pending one still waits.
LEMMA FinishRunInv ==
  ASSUME SchedulerIInv, NEW o \in Op, FinishRun(o)
  PROVE  SchedulerIInv' /\ (StoppedIsOver => StoppedIsOver')
<1> USE ExecutorAssumption
<1> DEFINE c == CheckOf[o]
<1>1. /\ c \in Check /\ run[o] = Waiting /\ Decided(o)
      /\ UNCHANGED <<phase, result, armed, aborted, inFlight, operations>>
      /\ UNCHANGED <<observed, statuses, unheard, heardIn, events, followed>>
      /\ UNCHANGED <<timers, pending, generation, runIn>>
      /\ \/ /\ runIn[o] = generation
            /\ cache' = [cache EXCEPT ![c] = o]
            /\ run' = [run EXCEPT ![o] = result[o]]
         \/ /\ runIn[o] # generation
            /\ run' = [run EXCEPT ![o] = Stopped] /\ cache' = cache
  BY DEF FinishRun, executorVars, hookVars
<1> HIDE DEF c
<1>2. CheckOf[o] = c
  BY DEF c
<1>3. ExecutorIInv' /\ ExecutorTypeOK'
  BY <1>1, ExecutorStepInv DEF SchedulerIInv, ExecutorIInv, executorVars
<1>4. /\ run \in [Op -> RunState] /\ cache \in [Check -> Op \cup {NoOp}]
      /\ pending \in [Check -> Op \cup {NoOp}]
  BY DEF SchedulerIInv, SchedulerTypeOK
<1>5. result[o] \in Outcome \cup {Timeout}
  BY <1>1 DEF SchedulerIInv, ExecutorIInv, ExecutorTypeOK, Result, Decided
<1>6. run' \in [Op -> RunState] /\ cache' \in [Check -> Op \cup {NoOp}]
  BY <1>1, <1>4, <1>5 DEF RunState
<1>7. SchedulerTypeOK'
  BY <1>1, <1>3, <1>6 DEF SchedulerIInv, SchedulerTypeOK
<1>8. \A p \in Op : p # o => run'[p] = run[p]
  BY <1>1, <1>4
<1>9. \/ runIn[o] = generation /\ run'[o] = result[o]
      \/ runIn[o] # generation /\ run'[o] = Stopped
  BY <1>1, <1>4
<1>10. Stopped \notin Outcome /\ Timeout \notin Outcome
      /\ NoRun \notin Outcome \cup {Timeout, Stopped} /\ Waiting \notin Outcome \cup {Timeout}
  BY DEF Stopped, Timeout, NoRun, Waiting, Status
<1>11. RunsAreKept'
  <2> SUFFICES ASSUME NEW p \in Op
               PROVE  /\ phase[p] = "unused" => run'[p] = NoRun
                      /\ phase[p] = "settled" => Decided(p)
                      /\ result[p] \in Outcome => phase[p] = "settled"
                      /\ run'[p] \in Outcome => ~Outstanding(p)
                      /\ run'[p] # NoRun /\ Outstanding(p) => pending[CheckOf[p]] = p
                      /\ runIn[p] <= generation
    BY <1>1 DEF RunsAreKept, Outstanding, Decided
  <2>1. CASE p = o
    BY <1>1, <1>9, <1>10, <2>1
    DEF SchedulerIInv, RunsAreKept, Waiting, NoRun, Outstanding
  <2>2. CASE p # o
    BY <1>8, <2>2 DEF SchedulerIInv, RunsAreKept
  <2>3. QED BY <2>1, <2>2
<1>12. EntriesAreCurrent'
  <2> SUFFICES ASSUME NEW d \in Check
               PROVE  /\ pending[d] # NoOp =>
                           /\ CheckOf[pending[d]] = d
                           /\ run'[pending[d]] # NoRun
                           /\ run'[pending[d]] \in Outcome => runIn[pending[d]] = generation
                      /\ cache'[d] # NoOp =>
                           /\ CheckOf[cache'[d]] = d
                           /\ run'[cache'[d]] \in Outcome \cup {Timeout}
                           /\ runIn[cache'[d]] = generation
                           /\ pending[d] # NoOp /\ runIn[pending[d]] = generation
                           /\ cache'[d] = pending[d] \/ run'[pending[d]] = Waiting
    BY <1>1 DEF EntriesAreCurrent
  <2>1. pending[d] # NoOp =>
          /\ CheckOf[pending[d]] = d
          /\ run'[pending[d]] # NoRun
          /\ run'[pending[d]] \in Outcome => runIn[pending[d]] = generation
    BY <1>4, <1>5, <1>8, <1>9, <1>10 DEF SchedulerIInv, EntriesAreCurrent
  <2>2. CASE d = c /\ runIn[o] = generation
    <3>1. cache'[d] = o
      BY <1>1, <1>4, <2>2
    <3>2. /\ pending[d] # NoOp /\ runIn[pending[d]] = generation
          /\ pending[d] = o \/ run[pending[d]] = Waiting
      BY <1>1, <1>2, <2>2 DEF SchedulerIInv, LatestRun, WaitsNow
    <3>3. run'[o] \in Outcome \cup {Timeout}
      BY <1>5, <1>9, <2>2
    <3>4. QED BY <1>2, <1>4, <1>8, <2>1, <2>2, <3>1, <3>2, <3>3
  <2>3. CASE d # c \/ runIn[o] # generation
    <3>1. cache'[d] = cache[d]
      BY <1>1, <1>4, <2>3
    <3>2. ASSUME cache[d] # NoOp PROVE pending[d] # o
      BY <1>2, <2>1, <2>3, <3>2 DEF SchedulerIInv, EntriesAreCurrent
    <3>3. cache[d] # NoOp => cache[d] # o
      BY <1>1, <1>10 DEF SchedulerIInv, EntriesAreCurrent
    <3>4. QED BY <1>4, <1>8, <2>1, <3>1, <3>2, <3>3 DEF SchedulerIInv, EntriesAreCurrent
  <2>4. QED BY <2>2, <2>3
<1>13. LatestRun'
  <2> SUFFICES ASSUME NEW p \in Op, run'[p] = Waiting, runIn[p] = generation
               PROVE  /\ pending[CheckOf[p]] # NoOp
                      /\ runIn[pending[CheckOf[p]]] = generation
                      /\ \/ pending[CheckOf[p]] = p
                         \/ /\ Decided(p)
                            /\ run'[pending[CheckOf[p]]] = Waiting
                            /\ ~Decided(pending[CheckOf[p]])
    BY <1>1 DEF LatestRun, WaitsNow, Decided
  <2>1. p # o
    BY <1>5, <1>9 DEF Waiting, Stopped, Timeout, Status
  <2>2. WaitsNow(p) /\ CheckOf[p] \in Check
    BY <1>8, <2>1 DEF WaitsNow
  <2>3. QED BY <1>1, <1>4, <1>8, <2>2 DEF SchedulerIInv, LatestRun
<1>14. StoppedIsOver => StoppedIsOver'
  <2>1. \A p \in Op : run'[p] = Waiting => run[p] = Waiting
    BY <1>1, <1>8
  <2>2. QED BY <1>1, <2>1 DEF StoppedIsOver, WaitsNow
<1>15. Reports' /\ TransitionsTellStatus'
  BY <1>1 DEF SchedulerIInv, Reports, TransitionsTellStatus
<1>16. QED BY <1>3, <1>7, <1>11, <1>12, <1>13, <1>14, <1>15 DEF SchedulerIInv

-----------------------------------------------------------------------------
\* The adapter is called.
LEMMA CalledInv ==
  ASSUME SchedulerIInv, NEW o \in Op, AdapterCalled(o)
  PROVE  SchedulerIInv' /\ (StoppedIsOver => StoppedIsOver')
<1>1. /\ phase[o] = "queued" /\ phase' = [phase EXCEPT ![o] = "running"]
      /\ UNCHANGED <<result, hookVars, cacheVars>>
  BY DEF AdapterCalled, CallAdapter
<1>2. ExecutorIInv' /\ ExecutorTypeOK'
  BY CallAdapterInv DEF AdapterCalled, SchedulerIInv, ExecutorIInv
<1>3. \A p \in Op : /\ Outstanding(p)' <=> Outstanding(p)
                    /\ phase'[p] \in {"unused", "settled"} => phase'[p] = phase[p]
                    /\ phase[p] = "settled" => phase'[p] = "settled"
  BY <1>1 DEF Outstanding, SchedulerIInv, ExecutorIInv, ExecutorTypeOK
<1>4. SchedulerTypeOK'
  BY <1>1, <1>2 DEF SchedulerIInv, SchedulerTypeOK, hookVars, cacheVars
<1>5. RunsAreKept'
  BY <1>1, <1>3 DEF SchedulerIInv, RunsAreKept, Decided, cacheVars
<1>6. /\ EntriesAreCurrent' /\ LatestRun' /\ (StoppedIsOver => StoppedIsOver') /\ Reports'
      /\ TransitionsTellStatus'
  BY <1>1
  DEF SchedulerIInv, EntriesAreCurrent, LatestRun, StoppedIsOver, WaitsNow, Decided, Reports,
      TransitionsTellStatus, hookVars, cacheVars
<1>7. QED BY <1>2, <1>4, <1>5, <1>6 DEF SchedulerIInv

\* The adapter settles: no reaction to an earlier answer of the check is left.
LEMMA SettlesInv ==
  ASSUME SchedulerIInv, NEW o \in Op, AdapterSettles(o)
  PROVE  SchedulerIInv' /\ (StoppedIsOver => StoppedIsOver')
<1> USE ExecutorAssumption
<1>1. PICK v \in Outcome : Settle(o, v)
  BY DEF AdapterSettles
<1>2. /\ phase[o] = "running" /\ phase' = [phase EXCEPT ![o] = "settled"]
      /\ result' = [result EXCEPT ![o] = IF Decided(o) THEN @ ELSE v]
      /\ UNCHANGED <<hookVars, cacheVars>>
      /\ \A p \in Op \ {o} : CheckOf[p] = CheckOf[o] => ~Reacting(p)
  BY <1>1 DEF AdapterSettles, Settle
<1>3. ExecutorIInv' /\ ExecutorTypeOK'
  BY <1>1, SettleInv DEF SchedulerIInv, ExecutorIInv
<1>4. /\ phase'[o] = "settled" /\ Decided(o)'
      /\ \A p \in Op \ {o} : phase'[p] = phase[p] /\ result'[p] = result[p]
  BY <1>2 DEF SchedulerIInv, ExecutorIInv, ExecutorTypeOK, Decided, Undecided, Status
<1>5. SchedulerTypeOK'
  BY <1>2, <1>3 DEF SchedulerIInv, SchedulerTypeOK, hookVars, cacheVars
<1>6. RunsAreKept'
  <2> SUFFICES ASSUME NEW p \in Op
               PROVE  /\ phase'[p] = "unused" => run[p] = NoRun
                      /\ phase'[p] = "settled" => Decided(p)'
                      /\ result'[p] \in Outcome => phase'[p] = "settled"
                      /\ run[p] \in Outcome => phase'[p] \notin {"queued", "running"}
                      /\ run[p] # NoRun /\ phase'[p] \in {"queued", "running"}
                           => pending[CheckOf[p]] = p
                      /\ runIn[p] <= generation
    BY <1>2 DEF RunsAreKept, Outstanding, cacheVars
  <2>1. CASE p = o
    BY <1>4, <2>1 DEF SchedulerIInv, RunsAreKept
  <2>2. CASE p # o
    BY <1>4, <2>2 DEF SchedulerIInv, RunsAreKept, Outstanding, Decided
  <2>3. QED BY <2>1, <2>2
<1>7. LatestRun'
  <2> SUFFICES ASSUME NEW p \in Op, WaitsNow(p)
               PROVE  /\ pending[CheckOf[p]] # NoOp
                      /\ runIn[pending[CheckOf[p]]] = generation
                      /\ \/ pending[CheckOf[p]] = p
                         \/ /\ Decided(p)'
                            /\ run[pending[CheckOf[p]]] = Waiting
                            /\ ~Decided(pending[CheckOf[p]])'
    BY <1>2 DEF LatestRun, WaitsNow, cacheVars, Decided
  <2> DEFINE q == pending[CheckOf[p]]
  <2>1. /\ q # NoOp /\ runIn[q] = generation
        /\ q = p \/ (Decided(p) /\ run[q] = Waiting /\ ~Decided(q))
    BY DEF SchedulerIInv, LatestRun
  <2>2. q \in Op /\ CheckOf[q] = CheckOf[p]
    BY <2>1 DEF SchedulerIInv, SchedulerTypeOK, EntriesAreCurrent
  <2> HIDE DEF q
  <2>3. CASE q # p /\ q = o
    BY <1>2, <2>1, <2>2, <2>3 DEF Reacting, WaitsNow
  <2>4. CASE q # p /\ q # o
    <3>1. q' = q
      BY <1>2 DEF q, cacheVars
    <3>2. result'[q] = result[q] /\ Decided(p)'
      BY <1>4, <2>1, <2>2, <2>4 DEF Decided
    <3>3. QED BY <2>1, <2>4, <3>1, <3>2 DEF q, Decided
  <2>5. QED BY <2>1, <2>3, <2>4 DEF q
<1>8. EntriesAreCurrent' /\ (StoppedIsOver => StoppedIsOver') /\ Reports' /\ TransitionsTellStatus'
  BY <1>2
  DEF SchedulerIInv, EntriesAreCurrent, StoppedIsOver, WaitsNow, Reports, TransitionsTellStatus,
      hookVars, cacheVars
<1>9. QED BY <1>3, <1>5, <1>6, <1>7, <1>8 DEF SchedulerIInv

\* A deadline answers when no reaction is left to run.
LEMMA DeadlineFiresInv ==
  ASSUME SchedulerIInv, NEW o \in Op, DeadlineFires(o)
  PROVE  SchedulerIInv' /\ (StoppedIsOver => StoppedIsOver')
<1> USE ExecutorAssumption
<1>1. /\ Deadline(o) /\ phase' = phase /\ UNCHANGED <<hookVars, cacheVars>>
      /\ result' = [result EXCEPT ![o] = IF Decided(o) THEN @ ELSE Timeout]
      /\ \A p \in Op : ~Reacting(p)
  BY DEF DeadlineFires, Deadline, SchedulerJobs
<1>2. ExecutorIInv' /\ ExecutorTypeOK'
  BY <1>1, DeadlineInv DEF SchedulerIInv, ExecutorIInv
<1>3. \A p \in Op : /\ Decided(p) => Decided(p)'
                    /\ result'[p] \in Outcome => result'[p] = result[p]
  BY <1>1
  DEF SchedulerIInv, ExecutorIInv, ExecutorTypeOK, Decided, Undecided, Timeout, Status
<1>4. SchedulerTypeOK'
  BY <1>1, <1>2 DEF SchedulerIInv, SchedulerTypeOK, hookVars, cacheVars
<1>5. RunsAreKept'
  BY <1>1, <1>3 DEF SchedulerIInv, RunsAreKept, Outstanding, cacheVars
<1>6. ASSUME NEW p \in Op, WaitsNow(p) PROVE pending[CheckOf[p]] = p
  BY <1>1, <1>6 DEF SchedulerIInv, LatestRun, Reacting, WaitsNow
<1>7. LatestRun'
  BY <1>1, <1>6 DEF SchedulerIInv, LatestRun, WaitsNow, cacheVars
<1>8. EntriesAreCurrent' /\ (StoppedIsOver => StoppedIsOver') /\ Reports' /\ TransitionsTellStatus'
  BY <1>1
  DEF SchedulerIInv, EntriesAreCurrent, StoppedIsOver, WaitsNow, Reports, TransitionsTellStatus,
      hookVars, cacheVars
<1>9. QED BY <1>2, <1>4, <1>5, <1>7, <1>8 DEF SchedulerIInv

\* No map and no job refers to a forgotten operation.
LEMMA ForgetRunInv ==
  ASSUME SchedulerIInv, NEW o \in Op, ForgetRun(o)
  PROVE  SchedulerIInv' /\ (StoppedIsOver => StoppedIsOver')
<1> USE ExecutorAssumption
<1>1. /\ Forget(o) /\ phase[o] = "settled"
      /\ phase' = [phase EXCEPT ![o] = "unused"]
      /\ result' = [result EXCEPT ![o] = Undecided]
      /\ unheard[o] = 0 /\ run[o] # Waiting
      /\ pending[CheckOf[o]] # o /\ cache[CheckOf[o]] # o
      /\ observed' = observed \ {o}
      /\ heardIn' = [heardIn EXCEPT ![o] = 0] /\ events' = [events EXCEPT ![o] = 0]
      /\ run' = [run EXCEPT ![o] = NoRun] /\ runIn' = [runIn EXCEPT ![o] = 0]
      /\ UNCHANGED <<statuses, unheard, followed, timers, cache, pending, generation>>
  BY DEF ForgetRun, Forget, Unreferenced
<1>2. ExecutorIInv' /\ ExecutorTypeOK'
  BY <1>1, ForgetInv DEF SchedulerIInv, ExecutorIInv
<1>3. /\ heardIn \in [Op -> Generation] /\ events \in [Op -> Nat] /\ unheard \in [Op -> Nat]
      /\ run \in [Op -> RunState] /\ runIn \in [Op -> Generation] /\ 0 \in Generation
      /\ generation \in Generation /\ Generation \subseteq Nat
      /\ pending \in [Check -> Op \cup {NoOp}] /\ cache \in [Check -> Op \cup {NoOp}]
      /\ phase \in [Op -> {"unused", "queued", "running", "settled"}]
      /\ result \in [Op -> Result]
  BY SchedulerAssumption
  DEF SchedulerIInv, SchedulerTypeOK, Generation, ExecutorIInv, ExecutorTypeOK
<1>4. SchedulerTypeOK'
  BY <1>1, <1>2, <1>3 DEF SchedulerIInv, SchedulerTypeOK, RunState
<1>5. /\ phase'[o] = "unused" /\ result'[o] = Undecided /\ run'[o] = NoRun /\ runIn'[o] = 0
      /\ \A p \in Op \ {o} : /\ phase'[p] = phase[p] /\ result'[p] = result[p]
                             /\ run'[p] = run[p] /\ runIn'[p] = runIn[p]
  BY <1>1, <1>3
<1>6. RunsAreKept'
  <2> SUFFICES ASSUME NEW p \in Op
               PROVE  /\ phase'[p] = "unused" => run'[p] = NoRun
                      /\ phase'[p] = "settled" => result'[p] # Undecided
                      /\ result'[p] \in Outcome => phase'[p] = "settled"
                      /\ run'[p] \in Outcome => phase'[p] \notin {"queued", "running"}
                      /\ run'[p] # NoRun /\ phase'[p] \in {"queued", "running"}
                           => pending[CheckOf[p]] = p
                      /\ runIn'[p] <= generation
    BY <1>1 DEF RunsAreKept, Outstanding, Decided
  <2>1. CASE p = o
    BY <1>3, <1>5, <2>1 DEF Undecided, Status
  <2>2. CASE p # o
    BY <1>5, <2>2 DEF SchedulerIInv, RunsAreKept, Outstanding, Decided
  <2>3. QED BY <2>1, <2>2
<1>7. \A c \in Check : /\ pending[c] # NoOp => pending[c] \in Op \ {o}
                       /\ cache[c] # NoOp => cache[c] \in Op \ {o}
  BY <1>1, <1>3 DEF SchedulerIInv, EntriesAreCurrent
<1>8. EntriesAreCurrent'
  BY <1>1, <1>5, <1>7 DEF SchedulerIInv, EntriesAreCurrent
<1>9. \A p \in Op : WaitsNow(p)' => p # o /\ WaitsNow(p)
  BY <1>1, <1>5 DEF WaitsNow, Waiting, NoRun
<1>10. LatestRun' /\ (StoppedIsOver => StoppedIsOver')
  <2>1. LatestRun'
    BY <1>1, <1>5, <1>7, <1>9 DEF SchedulerIInv, LatestRun, Decided
  <2>2. StoppedIsOver => StoppedIsOver'
    BY <1>1, <1>9 DEF StoppedIsOver
  <2>3. QED BY <2>1, <2>2
<1>11. Reports' /\ TransitionsTellStatus'
  BY <1>1, <1>3 DEF SchedulerIInv, Reports, TransitionsTellStatus
<1>12. QED BY <1>2, <1>4, <1>6, <1>8, <1>10, <1>11 DEF SchedulerIInv

-----------------------------------------------------------------------------
\* A step that changes nothing of the scheduler.
LEMMA SchedulerStutterInv ==
  ASSUME SchedulerIInv, UNCHANGED schedulerVars
  PROVE  SchedulerIInv' /\ (StoppedIsOver => StoppedIsOver')
<1>1. UNCHANGED <<executorVars, hookVars, cacheVars>>
  BY DEF schedulerVars
<1>2. ExecutorIInv' /\ ExecutorTypeOK'
  BY <1>1, ExecutorStepInv DEF SchedulerIInv, ExecutorIInv
<1>3. SchedulerTypeOK'
  BY <1>1, <1>2 DEF SchedulerIInv, SchedulerTypeOK, hookVars, cacheVars
<1>4. RunsAreKept' /\ EntriesAreCurrent' /\ LatestRun' /\ (StoppedIsOver => StoppedIsOver')
  BY <1>1
  DEF SchedulerIInv, RunsAreKept, EntriesAreCurrent, LatestRun, StoppedIsOver, WaitsNow,
      Outstanding, Decided, executorVars, cacheVars
<1>5. Reports' /\ TransitionsTellStatus'
  BY <1>1 DEF SchedulerIInv, Reports, TransitionsTellStatus, hookVars, cacheVars
<1>6. QED BY <1>2, <1>3, <1>4, <1>5 DEF SchedulerIInv

\* Every step of the scheduler keeps the invariant.
LEMMA SchedulerStepInv ==
  SchedulerIInv /\ StoppedIsOver /\ [SchedulerNext]_schedulerVars
    => SchedulerIInv' /\ StoppedIsOver'
<1> SUFFICES ASSUME SchedulerIInv, StoppedIsOver, [SchedulerNext]_schedulerVars
             PROVE  SchedulerIInv' /\ StoppedIsOver'
  OBVIOUS
<1>1. CASE CallStart
  BY <1>1, StartInv DEF CallStart
<1>2. CASE CallStop
  <2>1. generation <= MaxStops
    BY <1>2, SchedulerAssumption DEF CallStop, SchedulerIInv, SchedulerTypeOK, Generation
  <2>2. QED BY <1>2, <2>1, StopInv DEF CallStop
<1>3. ASSUME NEW c \in Check, OnDemand(c) \/ Tick(c) PROVE SchedulerIInv' /\ StoppedIsOver'
  <2>1. CASE OnDemand(c)
    <3>1. RunCheck({c}) /\ UNCHANGED cacheVars /\ {c} \in SUBSET Check
      BY <2>1 DEF OnDemand
    <3>2. QED BY <3>1, RunCheckInv
  <2>2. CASE Tick(c)
    BY <2>2, TickInv
  <2>3. QED BY <1>3, <2>1, <2>2
<1>4. ASSUME NEW o \in Op, AdapterCalled(o) \/ AdapterSettles(o) \/ DeadlineFires(o)
      PROVE  SchedulerIInv' /\ StoppedIsOver'
  BY <1>4, CalledInv, SettlesInv, DeadlineFiresInv
<1>5. ASSUME NEW o \in Op, Complete(o) \/ FinishRun(o) \/ ForgetRun(o)
      PROVE  SchedulerIInv' /\ StoppedIsOver'
  BY <1>5, CompleteInv, FinishRunInv, ForgetRunInv
<1>6. CASE UNCHANGED schedulerVars
  BY <1>6, SchedulerStutterInv
<1>7. QED BY <1>1, <1>2, <1>3, <1>4, <1>5, <1>6 DEF SchedulerNext

\* The inductive invariant holds in every behaviour of the scheduler.
THEOREM SchedulerInvariant == SchedulerSpec => [](SchedulerIInv /\ StoppedIsOver)
  BY SchedulerInitInv, SchedulerStepInv, PTL DEF SchedulerSpec

\* What the scheduler promises follows from its invariant.
LEMMA SchedulerPromises ==
  SchedulerIInv => /\ ServedIsCurrent /\ CacheIsNewestRun
                   /\ OneEventPerExecution /\ TransitionsTellStatus
<1> SUFFICES ASSUME SchedulerIInv
             PROVE  /\ ServedIsCurrent /\ CacheIsNewestRun
                    /\ OneEventPerExecution /\ TransitionsTellStatus
  OBVIOUS
<1>1. ServedIsCurrent
  BY DEF SchedulerIInv, EntriesAreCurrent, ServedIsCurrent
<1>2. CacheIsNewestRun
  BY SchedulerAssumption
  DEF SchedulerIInv, SchedulerTypeOK, EntriesAreCurrent, CacheIsNewestRun
<1>3. OneEventPerExecution
  BY DEF SchedulerIInv, SchedulerTypeOK, Reports, OneEventPerExecution
<1>4. QED BY <1>1, <1>2, <1>3 DEF SchedulerIInv

\* What a probe is given without a new execution is of the current lifecycle.
THEOREM ServedIsCurrentTheorem == SchedulerSpec => []ServedIsCurrent
  BY SchedulerPromises, SchedulerInvariant, PTL

\* A cached success does not survive a scheduled run that failed after it.
THEOREM CacheIsNewestRunTheorem == SchedulerSpec => []CacheIsNewestRun
  BY SchedulerPromises, SchedulerInvariant, PTL

\* Every execution of a lifecycle is reported once, and none twice.
THEOREM OneEventTheorem == SchedulerSpec => []OneEventPerExecution
  BY SchedulerPromises, SchedulerInvariant, PTL

\* Who follows the transitions knows the latest status of every check.
THEOREM TransitionsTheorem == SchedulerSpec => []TransitionsTellStatus
  BY SchedulerPromises, SchedulerInvariant, PTL

\* A run is begun once: no lifecycle takes over an operation of an earlier one.
THEOREM RunsBeginOnceTheorem == SchedulerSpec => RunsBeginOnce
<1> DEFINE A == \A o \in Op : run[o] # NoRun /\ phase'[o] # "unused" => runIn'[o] = runIn[o]
<1>1. SchedulerIInv /\ StoppedIsOver /\ [SchedulerNext]_schedulerVars => [A]_schedulerVars
  <2> SUFFICES ASSUME SchedulerIInv, StoppedIsOver, SchedulerNext PROVE A
    OBVIOUS
  <2>1. CASE CallStart
    BY <2>1, StartInv DEF CallStart
  <2>2. ASSUME NEW c \in Check, Tick(c) PROVE A
    BY <2>2, TickInv
  <2>3. ASSUME NEW o \in Op, ForgetRun(o) PROVE A
    BY <2>3 DEF ForgetRun, Forget, SchedulerIInv, SchedulerTypeOK, ExecutorTypeOK
  <2>4. CASE runIn' = runIn
    BY <2>4
  <2>5. QED
    BY <2>1, <2>2, <2>3, <2>4
    DEF SchedulerNext, CallStop, StopSchedule, OnDemand, AdapterCalled, AdapterSettles,
        DeadlineFires, Complete, FinishRun, cacheVars
<1>2. QED BY <1>1, SchedulerInvariant, PTL DEF SchedulerSpec, RunsBeginOnce

\* Under the scheduler, however timers, requests and restarts interleave, the
\* executor still does what ExecutorSpec says; so all its theorems hold here.
THEOREM SchedulerImplementsExecutor == SchedulerSpec => ExecutorSpec
<1>1. SchedulerInit => ExecutorInit
  BY DEF SchedulerInit
<1>2. SchedulerIInv /\ [SchedulerNext]_schedulerVars => [ExecutorNext]_executorVars
  <2> SUFFICES ASSUME SchedulerIInv, [SchedulerNext]_schedulerVars
               PROVE  [ExecutorNext]_executorVars
    OBVIOUS
  <2>1. ASSUME NEW S \in SUBSET Check, RunCheck(S) PROVE ExecutorNext
    BY <2>1, RunCheckFacts DEF SchedulerIInv
  <2>2. ASSUME NEW S \in SUBSET Check, RunAndCache(S) PROVE ExecutorNext
    <3>1. {c \in S : ~RunsAlready(c)} \in SUBSET Check
      OBVIOUS
    <3>2. QED BY <2>1, <2>2, <3>1 DEF RunAndCache
  <2>3. CASE CallStart
    <3>1. Scheduled \ timers \in SUBSET Check
      BY SchedulerAssumption
    <3>2. QED BY <2>2, <2>3, <3>1 DEF CallStart, StartSchedule
  <2>4. ASSUME NEW c \in Check, OnDemand(c) \/ Tick(c) PROVE ExecutorNext
    BY <2>1, <2>2, <2>4 DEF OnDemand, Tick
  <2>5. ASSUME NEW o \in Op, AdapterCalled(o) \/ AdapterSettles(o) \/ DeadlineFires(o)
                             \/ ForgetRun(o)
        PROVE  ExecutorNext
    BY <2>5 DEF AdapterCalled, AdapterSettles, DeadlineFires, ForgetRun, ExecutorNext
  <2>6. CASE CallStop \/ (\E o \in Op : Complete(o) \/ FinishRun(o)) \/ UNCHANGED schedulerVars
    BY <2>6 DEF CallStop, StopSchedule, Complete, FinishRun, schedulerVars
  <2>7. QED BY <2>3, <2>4, <2>5, <2>6 DEF SchedulerNext
<1>3. QED BY <1>1, <1>2, SchedulerInvariant, PTL DEF SchedulerSpec, ExecutorSpec
=============================================================================
