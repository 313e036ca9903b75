----------------------------- MODULE HttpProofs -----------------------------
(***************************************************************************)
(* httpAdapter under the executor, for every set of checks and operations. *)
(*                                                                         *)
(* Every step of HttpAdapter is a step of Executor or leaves its variables *)
(* alone, so what SchedulerProofs says of any adapter holds of this one.   *)
(***************************************************************************)
EXTENDS HttpAdapter, SchedulerProofs

\* A check that runs is somewhere in httpAdapter.
RunsIffInside == \A o \in HttpOp : phase[o] = "running" <=> at[o] # "idle"

\* Nothing of the request exists outside the check, and while the body is
\* being cancelled the finally block has cleared the timer.
OutsideIsClean ==
  \A o \in HttpOp :
    /\ timer[o] => at[o] # "idle"
    /\ at[o] = "idle" => body[o] \in {"none", "gone"}
    /\ body[o] = "cancelling" => at[o] \in {"passed", "failing"} /\ ~timer[o]

\* Only an operation of an http check is ever in httpAdapter.
OthersOutside == \A o \in Op \ HttpOp : at[o] = "idle" /\ body[o] = "none"

HttpIInv ==
  /\ ExecutorTypeOK
  /\ HttpTypeOK
  /\ RunsIffInside
  /\ OutsideIsClean
  /\ OthersOutside

LEMMA HttpInitInv == HttpInit => HttpIInv
<1> SUFFICES ASSUME HttpInit PROVE HttpIInv
  OBVIOUS
<1>1. ExecutorTypeOK
  BY ExecutorInitInv DEF HttpInit, ExecutorIInv
<1>2. HttpTypeOK /\ OutsideIsClean /\ OthersOutside
  BY DEF HttpInit, HttpTypeOK, OutsideIsClean, OthersOutside, HttpOp
<1>3. RunsIffInside
  BY DEF HttpInit, ExecutorInit, RunsIffInside, HttpOp
<1>4. QED BY <1>1, <1>2, <1>3 DEF HttpIInv

\* Every step is a step of the executor, or none.
LEMMA HttpSimulation == HttpIInv /\ [HttpNext]_httpVars => [ExecutorNext]_executorVars
<1> SUFFICES ASSUME HttpIInv, [HttpNext]_httpVars PROVE [ExecutorNext]_executorVars
  OBVIOUS
<1>1. ASSUME NEW S \in SUBSET Check, NEW f \in [S -> Op], Launch(f) PROVE ExecutorNext
  BY <1>1 DEF ExecutorNext
<1>2. ASSUME NEW o \in Op, OtherAdapter(o) PROVE ExecutorNext
  BY <1>2 DEF OtherAdapter, ExecutorNext
<1>3. ASSUME NEW o \in Op, KitDeadline(o) \/ ForgetHttp(o) \/ Call(o) PROVE ExecutorNext
  BY <1>3 DEF KitDeadline, ForgetHttp, Call, ExecutorNext
<1>4. ASSUME NEW o \in Op, Respond(o) \/ FetchFails(o) \/ HookSettles(o) \/ TimerFires(o)
      PROVE  UNCHANGED executorVars
  BY <1>4 DEF Respond, FetchFails, HookSettles, TimerFires
<1>5. ASSUME NEW o \in Op, EndHttp(o) PROVE ExecutorNext
  BY <1>5, HttpAssumption DEF EndHttp, ExecutorNext
<1>6. ASSUME NEW o \in Op, Finalize(o) \/ Cancelled(o) PROVE [ExecutorNext]_executorVars
  BY <1>5, <1>6 DEF Finalize, Cancelled
<1>7. CASE UNCHANGED httpVars
  BY <1>7 DEF httpVars
<1>8. QED
  BY <1>1, <1>2, <1>3, <1>4, <1>6, <1>7 DEF HttpNext

-----------------------------------------------------------------------------
\* The steps of the check itself that leave it where its call is.
LEMMA InsideInv ==
  ASSUME HttpIInv, ExecutorTypeOK', NEW o \in Op,
         Respond(o) \/ FetchFails(o) \/ HookSettles(o) \/ TimerFires(o)
  PROVE  HttpIInv'
<1> USE DEF HttpIInv, HttpTypeOK, HttpOp
<1>1. UNCHANGED executorVars
  BY DEF Respond, FetchFails, HookSettles, TimerFires
<1>2. CASE Respond(o)
  BY <1>1, <1>2 DEF executorVars, Respond, RunsIffInside, OutsideIsClean, OthersOutside
<1>3. CASE FetchFails(o)
  BY <1>1, <1>3 DEF executorVars, FetchFails, RunsIffInside, OutsideIsClean, OthersOutside
<1>4. CASE HookSettles(o)
  BY <1>1, <1>4 DEF executorVars, HookSettles, RunsIffInside, OutsideIsClean, OthersOutside
<1>5. CASE TimerFires(o)
  BY <1>1, <1>5 DEF executorVars, TimerFires, SignalFires, Aborted, RunsIffInside,
                    OutsideIsClean, OthersOutside
<1>6. QED BY <1>2, <1>3, <1>4, <1>5

\* A deadline of the kit fires into a check wherever it is.
LEMMA KitDeadlineInv ==
  ASSUME HttpIInv, ExecutorTypeOK', NEW o \in Op, KitDeadline(o)
  PROVE  HttpIInv'
  BY DEF HttpIInv, HttpTypeOK, HttpOp, KitDeadline, Deadline, SignalFires, Aborted,
         RunsIffInside, OutsideIsClean, OthersOutside

\* The check begins.
LEMMA CallInv ==
  ASSUME HttpIInv, ExecutorTypeOK', NEW o \in Op, Call(o)
  PROVE  HttpIInv'
  BY DEF HttpIInv, HttpTypeOK, HttpOp, Call, CallAdapter, ExecutorTypeOK, RunsIffInside,
         OutsideIsClean, OthersOutside

\* The check ends, with or without a body to cancel.
LEMMA FinalizeInv ==
  ASSUME HttpIInv, ExecutorTypeOK', NEW o \in Op, Finalize(o) \/ Cancelled(o)
  PROVE  HttpIInv'
<1> USE DEF HttpIInv, HttpTypeOK, HttpOp, RunsIffInside, OutsideIsClean, OthersOutside
<1>1. CASE Cancelled(o)
  BY <1>1 DEF Cancelled, EndHttp, Settle, ExecutorTypeOK
<1>2. CASE Finalize(o) /\ body'[o] = "cancelling"
  BY <1>2 DEF Finalize, Finalizing, executorVars, ReleasedBody, Aborted
<1>3. CASE Finalize(o) /\ body'[o] # "cancelling"
  BY <1>3 DEF Finalize, Finalizing, EndHttp, Settle, ExecutorTypeOK, ReleasedBody, Aborted
<1>4. QED BY <1>1, <1>2, <1>3

\* The steps of the executor around the check.
LEMMA AroundInv ==
  ASSUME HttpIInv, ExecutorTypeOK', UNCHANGED httpOwn,
         \/ \E S \in SUBSET Check : \E f \in [S -> Op] : Launch(f)
         \/ \E o \in Op : OtherAdapter(o)
  PROVE  HttpIInv'
<1> USE DEF HttpIInv, HttpTypeOK, httpOwn
<1>1. \A o \in HttpOp : phase'[o] = "running" <=> phase[o] = "running"
  <2>1. ASSUME NEW S \in SUBSET Check, NEW f \in [S -> Op], Launch(f), NEW o \in HttpOp
        PROVE  phase'[o] = "running" <=> phase[o] = "running"
    <3>1. o \in Op /\ DOMAIN f = S /\ \A c \in S : phase[f[c]] = "unused"
      BY <2>1 DEF Launch, HttpOp
    <3>2. QED BY <2>1, <3>1 DEF Launch
  <2>2. ASSUME NEW p \in Op, OtherAdapter(p), NEW o \in HttpOp
        PROVE  phase'[o] = "running" <=> phase[o] = "running"
    <3>1. o \in Op /\ o # p
      BY <2>2 DEF OtherAdapter, HttpOp
    <3>2. phase'[o] = phase[o]
      BY <2>2, <3>1 DEF OtherAdapter, CallAdapter, Settle, ExecutorTypeOK
    <3>3. QED BY <3>2
  <2>3. QED BY <2>1, <2>2
<1>2. RunsIffInside'
  BY <1>1 DEF RunsIffInside
<1>3. QED BY <1>2 DEF OutsideIsClean, OthersOutside

\* An identity is used again.
LEMMA ForgetHttpInv ==
  ASSUME HttpIInv, ExecutorTypeOK', NEW o \in Op, ForgetHttp(o)
  PROVE  HttpIInv'
  BY DEF HttpIInv, HttpTypeOK, HttpOp, ForgetHttp, Forget, ExecutorTypeOK, RunsIffInside,
         OutsideIsClean, OthersOutside

LEMMA HttpStepInv ==
  HttpIInv /\ ExecutorIInv /\ [HttpNext]_httpVars => HttpIInv' /\ ExecutorIInv'
<1> SUFFICES ASSUME HttpIInv, ExecutorIInv, [HttpNext]_httpVars
             PROVE  HttpIInv' /\ ExecutorIInv'
  OBVIOUS
<1>1. ExecutorIInv' /\ ExecutorTypeOK'
  BY HttpSimulation, ExecutorStepInv DEF ExecutorIInv
<1>2. ASSUME HttpNext PROVE HttpIInv'
  <2>1. ASSUME NEW S \in SUBSET Check, NEW f \in [S -> Op], Launch(f) /\ UNCHANGED httpOwn
        PROVE  HttpIInv'
    BY <1>1, <2>1, AroundInv
  <2>2. ASSUME NEW o \in Op, OtherAdapter(o) PROVE HttpIInv'
    <3>1. UNCHANGED httpOwn
      BY <2>2 DEF OtherAdapter
    <3>2. QED BY <1>1, <2>2, <3>1, AroundInv
  <2>3. ASSUME NEW o \in Op,
               \/ KitDeadline(o) \/ ForgetHttp(o) \/ Call(o) \/ Respond(o) \/ FetchFails(o)
               \/ HookSettles(o) \/ TimerFires(o) \/ Finalize(o) \/ Cancelled(o)
        PROVE  HttpIInv'
    BY <1>1, <2>3, KitDeadlineInv, ForgetHttpInv, CallInv, InsideInv, FinalizeInv
  <2>4. QED BY <1>2, <2>1, <2>2, <2>3 DEF HttpNext
<1>3. ASSUME UNCHANGED httpVars PROVE HttpIInv'
  BY <1>1, <1>3
  DEF httpVars, httpOwn, executorVars, HttpIInv, HttpTypeOK, RunsIffInside, OutsideIsClean,
      OthersOutside
<1>4. QED BY <1>1, <1>2, <1>3

-----------------------------------------------------------------------------
\* The invariants of the executor and of the adapter hold together.
THEOREM HttpInvariant == HttpSpec => [](HttpIInv /\ ExecutorIInv)
<1>1. HttpInit => HttpIInv /\ ExecutorIInv
  BY HttpInitInv, ExecutorInitInv DEF HttpInit
<1>2. QED BY <1>1, HttpStepInv, PTL DEF HttpSpec

\* An http check under the executor is one of the adapters Executor speaks of.
THEOREM HttpImplementsExecutor == HttpSpec => ExecutorSpec
<1>1. HttpInit => ExecutorInit BY DEF HttpInit
<1>2. QED BY <1>1, HttpSimulation, HttpInvariant, PTL DEF HttpSpec, ExecutorSpec

\* A check that has settled leaves neither a timer nor a body behind.
THEOREM HttpReleasesAllTheorem == HttpSpec => []HttpReleasesAll
<1>1. HttpIInv => HttpReleasesAll
  BY DEF HttpIInv, HttpReleasesAll, RunsIffInside, OutsideIsClean, Outstanding
<1>2. QED BY <1>1, HttpInvariant, PTL
=============================================================================
