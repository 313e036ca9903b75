-------------------------- MODULE HealthKitProofs --------------------------
(***************************************************************************)
(* What the kit guarantees for every set of checks, requests and adapters, *)
(* however requests, timers, restarts, drain and close interleave.         *)
(*                                                                         *)
(* Its invariant contains the scheduler's.  Its own part has three pieces: *)
(* what close() has already ended at each of its stages (StagesEnd), what  *)
(* a branch of a request may wait for (BranchesWait), and how far dispose()*)
(* of the adapters has come (DisposalsFollow).                             *)
(***************************************************************************)
EXTENDS HealthKitProps, SchedulerProofs

StagesEnd ==
  /\ stage = "open" => StoppedIsOver /\ (~started => timers = {})
  /\ stage # "open" => timers = {}
  /\ stage \in {"open", "requests", "settling"} => generation <= MaxStops
  /\ stage \notin {"open", "requests"} => \A r \in Request : ~Accepted(r)

BranchWaits(r, b) ==
  /\ b.at # "none" => progress[r] = "checking"
  /\ b.at = "run" =>
       /\ b.op \in Op
       /\ run[b.op] # NoRun
       /\ run[b.op] \in Outcome => runIn[b.op] >= acceptedIn[r]
  /\ b.at = "operation" => b.op \in Op

BranchesWait ==
  \A r \in Request :
    /\ acceptedIn[r] <= generation
    /\ \A c \in Check : BranchWaits(r, branch[r][c])

DisposalsFollow ==
  /\ stage \in {"open", "requests", "settling"} => \A a \in Adapter : disposals[a] = 0
  /\ stage \in {"disposing", "closed", "failed"} =>
       \A a \in Adapter : disposals[a] = 1 /\ disposal[a] # "none"
  /\ stage = "closed" => \A a \in Adapter : disposal[a] = "ok"
  /\ stage = "failed" => \E a \in Adapter : disposal[a] = "failed"

KitIInv ==
  /\ SchedulerIInv
  /\ HealthKitTypeOK
  /\ StagesEnd
  /\ BranchesWait
  /\ DisposalsFollow

\* The kit's invariant holds before the first call.
LEMMA KitInitInv == HealthKitInit => KitIInv
<1> SUFFICES ASSUME HealthKitInit PROVE KitIInv
  OBVIOUS
<1> USE SchedulerAssumption, HealthKitAssumption DEF HealthKitInit
<1>1. SchedulerIInv /\ StoppedIsOver /\ SchedulerTypeOK
  BY SchedulerInitInv DEF SchedulerIInv
<1>2. NoBranch \in Branch
  BY DEF NoBranch, Branch
<1>3. HealthKitTypeOK
  <2>1. branch \in [Request -> [Check -> Branch]]
    BY <1>2
  <2>2. acceptedIn \in [Request -> Generation]
    BY DEF Generation
  <2>3. QED BY <1>1, <2>1, <2>2 DEF HealthKitTypeOK, Api
<1>4. timers = {} /\ generation = 0
  BY DEF SchedulerInit
<1>5. StagesEnd
  BY <1>1, <1>4 DEF StagesEnd
<1>6. BranchesWait
  BY <1>4 DEF BranchesWait, BranchWaits, NoBranch
<1>7. DisposalsFollow
  BY DEF DisposalsFollow
<1>8. QED BY <1>1, <1>3, <1>5, <1>6, <1>7 DEF KitIInv

-----------------------------------------------------------------------------
\* A branch is one of these records.
LEMMA BranchForms ==
  /\ NoBranch \in Branch /\ Looking \in Branch
  /\ \A o \in Op : AwaitsRun(o) \in Branch /\ AwaitsAnswer(o) \in Branch
  /\ \A v \in Served : Returned(v) \in Branch
  BY DEF Branch, NoBranch, Looking, AwaitsRun, AwaitsAnswer, Returned

\* One branch of one request changes.
LEMMA OneBranch ==
  ASSUME HealthKitTypeOK, NEW r \in Request, NEW c \in Check, NEW b \in Branch,
         branch' = [branch EXCEPT ![r][c] = b]
  PROVE  /\ branch' \in [Request -> [Check -> Branch]]
         /\ branch'[r][c] = b
         /\ \A s \in Request, d \in Check : s # r \/ d # c => branch'[s][d] = branch[s][d]
  BY DEF HealthKitTypeOK

\* What a step may do to a run that some branch waits for: it stays a run of
\* its lifecycle, and ends with an outcome only while that lifecycle lasts.
RunGoesOn(o) ==
  run[o] # NoRun =>
    /\ run'[o] # NoRun /\ runIn'[o] = runIn[o]
    /\ run'[o] \in Outcome => run[o] \in Outcome \/ runIn[o] = generation

\* If the runs go on, every branch may keep waiting.
LEMMA BranchesStay ==
  ASSUME KitIInv, UNCHANGED <<progress, acceptedIn, branch>>,
         generation' \in Generation, generation <= generation',
         \A r \in Request, c \in Check :
           branch[r][c].at = "run" => RunGoesOn(branch[r][c].op)
  PROVE  BranchesWait'
<1>1. /\ Generation \subseteq Nat /\ generation \in Generation
      /\ acceptedIn \in [Request -> Generation]
  BY SchedulerAssumption DEF Generation, KitIInv, SchedulerIInv, SchedulerTypeOK, HealthKitTypeOK
<1> SUFFICES ASSUME NEW r \in Request, NEW c \in Check
             PROVE  /\ acceptedIn[r] <= generation'
                    /\ BranchWaits(r, branch[r][c])'
  BY <1>1 DEF BranchesWait, KitIInv
<1>2. acceptedIn[r] <= generation /\ BranchWaits(r, branch[r][c])
  BY DEF KitIInv, BranchesWait
<1>3. acceptedIn[r] <= generation'
  <2>1. acceptedIn[r] \in Nat /\ generation \in Nat /\ generation' \in Nat
    BY <1>1
  <2>2. QED BY <1>2, <2>1
<1>4. BranchWaits(r, branch[r][c])'
  BY <1>2 DEF BranchWaits, RunGoesOn
<1>5. QED BY <1>3, <1>4

\* A step of the scheduler alone, its timers and its lifecycle unchanged.
LEMMA SchedulerSideInv ==
  ASSUME KitIInv, UNCHANGED kitVars, UNCHANGED <<timers, generation>>,
         SchedulerIInv', StoppedIsOver => StoppedIsOver',
         \A r \in Request, c \in Check :
           branch[r][c].at = "run" => RunGoesOn(branch[r][c].op)
  PROVE  KitIInv'
<1>1. UNCHANGED <<started, draining, progress, type, api, branch, answer, acceptedIn, stage,
                  disposal, disposals, timers, generation>>
  BY DEF kitVars, requestVars, closeVars
<1>2. HealthKitTypeOK'
  BY <1>1 DEF KitIInv, HealthKitTypeOK, SchedulerIInv
<1>3. StagesEnd'
  BY <1>1 DEF KitIInv, StagesEnd, Accepted
<1>4. generation' \in Generation /\ generation <= generation'
  BY <1>1, SchedulerAssumption DEF KitIInv, SchedulerIInv, SchedulerTypeOK, Generation
<1>5. BranchesWait'
  BY <1>1, <1>4, BranchesStay
<1>6. DisposalsFollow'
  BY <1>1 DEF KitIInv, DisposalsFollow
<1>7. QED BY <1>2, <1>3, <1>5, <1>6 DEF KitIInv

\* The executor, the hooks and the runs of the schedule under the kit.
LEMMA SchedulerJobInv ==
  ASSUME KitIInv, NEW o \in Op, SchedulerJob(o) \/ AdapterAnswers(o) \/ DeadlineTimer(o)
  PROVE  KitIInv'
<1>1. /\ AdapterCalled(o) \/ Complete(o) \/ FinishRun(o) \/ AdapterSettles(o)
         \/ DeadlineFires(o)
      /\ UNCHANGED kitVars
  BY DEF SchedulerJob, AdapterAnswers, DeadlineTimer
<1>2. SchedulerIInv' /\ (StoppedIsOver => StoppedIsOver')
  BY <1>1, CalledInv, CompleteInv, FinishRunInv, SettlesInv, DeadlineFiresInv DEF KitIInv
<1>3. UNCHANGED <<timers, generation, runIn>>
  BY <1>1 DEF AdapterCalled, Complete, FinishRun, AdapterSettles, DeadlineFires, cacheVars
<1>4. ASSUME NEW p \in Op PROVE RunGoesOn(p)
  <2>1. CASE FinishRun(o)
    <3>1. /\ run[o] = Waiting
          /\ \/ runIn[o] = generation /\ run' = [run EXCEPT ![o] = result[o]]
             \/ run' = [run EXCEPT ![o] = Stopped]
          /\ Decided(o)
      BY <2>1 DEF FinishRun
    <3>2. result[o] \in Outcome \cup {Timeout} /\ run \in [Op -> RunState]
      BY <3>1
      DEF KitIInv, SchedulerIInv, SchedulerTypeOK, ExecutorTypeOK, Result, Decided
    <3>3. NoRun \notin Outcome \cup {Timeout, Stopped} /\ Stopped \notin Outcome
      BY ExecutorAssumption DEF NoRun, Timeout, Stopped, Status
    <3>4. QED BY <1>3, <3>1, <3>2, <3>3 DEF RunGoesOn
  <2>2. CASE run' = run
    BY <1>3, <2>2 DEF RunGoesOn
  <2>3. QED
    BY <1>1, <2>1, <2>2 DEF AdapterCalled, Complete, AdapterSettles, DeadlineFires, cacheVars
<1>5. \A r \in Request, c \in Check :
        branch[r][c].at = "run" => RunGoesOn(branch[r][c].op)
  BY <1>4 DEF KitIInv, BranchesWait, BranchWaits
<1>6. QED BY <1>1, <1>2, <1>3, <1>5, SchedulerSideInv

\* What is collected no branch waits for.
LEMMA CollectInv ==
  ASSUME KitIInv, NEW o \in Op, Collect(o)
  PROVE  KitIInv'
<1>1. /\ ForgetRun(o) /\ UNCHANGED kitVars /\ UNCHANGED <<timers, generation>>
      /\ \A r \in Request, c \in Check : branch[r][c].op # o
      /\ run' = [run EXCEPT ![o] = NoRun] /\ runIn' = [runIn EXCEPT ![o] = 0]
  BY DEF Collect, ForgetRun
<1>2. SchedulerIInv' /\ (StoppedIsOver => StoppedIsOver')
  BY <1>1, ForgetRunInv DEF KitIInv
<1>3. \A p \in Op \ {o} : run'[p] = run[p] /\ runIn'[p] = runIn[p]
  BY <1>1 DEF KitIInv, SchedulerIInv, SchedulerTypeOK
<1>4. \A r \in Request, c \in Check :
        branch[r][c].at = "run" => RunGoesOn(branch[r][c].op)
  BY <1>1, <1>3 DEF KitIInv, BranchesWait, BranchWaits, RunGoesOn
<1>5. QED BY <1>1, <1>2, <1>4, SchedulerSideInv

\* A timer of the schedule fires.
LEMMA IntervalTimerInv ==
  ASSUME KitIInv, NEW c \in Check, IntervalTimer(c)
  PROVE  KitIInv'
<1>1. Tick(c) /\ UNCHANGED kitVars /\ UNCHANGED <<timers, generation>>
  BY DEF IntervalTimer, Tick
<1>2. /\ SchedulerIInv' /\ StoppedIsOver'
      /\ \A o \in Op : run[o] # NoRun => runIn'[o] = runIn[o] /\ run'[o] = run[o]
  BY <1>1, TickInv DEF KitIInv
<1>3. \A r \in Request, d \in Check :
        branch[r][d].at = "run" => RunGoesOn(branch[r][d].op)
  BY <1>2 DEF KitIInv, BranchesWait, BranchWaits, RunGoesOn
<1>4. QED BY <1>1, <1>2, <1>3, SchedulerSideInv

-----------------------------------------------------------------------------
\* What the kit's variables are, for the steps of a request.
LEMMA KitTypes ==
  ASSUME KitIInv
  PROVE  /\ Generation \subseteq Nat /\ generation \in Generation
         /\ progress \in [Request -> {"idle", "checking", "formatting", "done"}]
         /\ branch \in [Request -> [Check -> Branch]]
         /\ acceptedIn \in [Request -> Generation]
         /\ \A r \in Request : acceptedIn[r] <= generation
         /\ run \in [Op -> RunState] /\ runIn \in [Op -> Generation]
         /\ cache \in [Check -> Op \cup {NoOp}] /\ pending \in [Check -> Op \cup {NoOp}]
         /\ HealthKitTypeOK /\ SchedulerTypeOK /\ ExecutorTypeOK
  BY SchedulerAssumption
  DEF Generation, KitIInv, SchedulerIInv, SchedulerTypeOK, HealthKitTypeOK, BranchesWait

\* What a branch begins with is a branch, and what it waits for is of the
\* lifecycle that the request is accepted in.
LEMMA BeginBranchFacts ==
  ASSUME KitIInv, NEW c \in Check, NEW old \in BOOLEAN
  PROVE  LET b == BeginBranch(c, old) IN
         /\ b \in Branch
         /\ b.at \in {"run", "lookup", "done"}
         /\ b.at = "run" => /\ b.op \in Op
                            /\ run[b.op] # NoRun
                            /\ run[b.op] \in Outcome => runIn[b.op] = generation
         /\ b.at = "done" => /\ cache[c] # NoOp /\ runIn[cache[c]] = generation
                             /\ b.value \in {"stale", run[cache[c]]}
<1> DEFINE b == BeginBranch(c, old)
<1>1. CASE cache[c] # NoOp
  <2>1. /\ runIn[cache[c]] = generation
        /\ run[cache[c]] \in Served /\ "stale" \in Served
    BY <1>1 DEF KitIInv, SchedulerIInv, EntriesAreCurrent, Served
  <2>2. \E v \in {"stale", run[cache[c]]} : b = Returned(v)
    BY <1>1 DEF BeginBranch
  <2>3. QED BY <1>1, <2>1, <2>2, BranchForms DEF Returned
<1>2. CASE cache[c] = NoOp /\ c \in timers /\ pending[c] # NoOp
  <2>1. b = AwaitsRun(pending[c])
    BY <1>2 DEF BeginBranch
  <2>2. /\ pending[c] \in Op /\ run[pending[c]] # NoRun
        /\ run[pending[c]] \in Outcome => runIn[pending[c]] = generation
    BY <1>2, KitTypes DEF KitIInv, SchedulerIInv, EntriesAreCurrent
  <2>3. QED BY <2>1, <2>2, BranchForms DEF AwaitsRun
<1>3. CASE cache[c] = NoOp /\ ~(c \in timers /\ pending[c] # NoOp)
  <2>1. b = Looking
    BY <1>3 DEF BeginBranch
  <2>2. QED BY <2>1, BranchForms DEF Looking
<1>4. QED BY <1>1, <1>2, <1>3

\* A request is accepted.
LEMMA AcceptInv ==
  ASSUME KitIInv, NEW r \in Request, NEW t \in CheckType, NEW a \in Api, Accept(r, t, a)
  PROVE  KitIInv'
<1> USE HealthKitAssumption
<1>1. /\ stage = "open" /\ ~Accepted(r)
      /\ type' = [type EXCEPT ![r] = t] /\ api' = [api EXCEPT ![r] = a]
      /\ acceptedIn' = [acceptedIn EXCEPT ![r] = generation]
      /\ UNCHANGED <<schedulerVars, started, draining, stage, disposal, disposals>>
  BY DEF Accept, closeVars
<1>2. /\ UNCHANGED <<executorVars, hookVars, cacheVars>>
      /\ UNCHANGED <<run, runIn, timers, generation>>
  BY <1>1 DEF schedulerVars, cacheVars
<1>3. SchedulerIInv' /\ SchedulerTypeOK' /\ (StoppedIsOver => StoppedIsOver')
  BY <1>1, SchedulerStutterInv DEF KitIInv, SchedulerIInv
<1>4. /\ progress' \in [Request -> {"idle", "checking", "formatting", "done"}]
      /\ branch' \in [Request -> [Check -> Branch]]
      /\ answer' \in [Request -> Status \cup {"none"}]
      /\ \A s \in Request \ {r} : progress'[s] = progress[s] /\ branch'[s] = branch[s]
      /\ \A c \in Check :
           LET b == branch'[r][c] IN
           /\ b.at # "none" => progress'[r] = "checking"
           /\ b.at # "operation"
           /\ b.at = "run" => /\ b.op \in Op
                              /\ run[b.op] # NoRun
                              /\ run[b.op] \in Outcome => runIn[b.op] = generation
  <2>1. CASE Drained(t)
    <3>1. /\ progress' = [progress EXCEPT ![r] = IF a = "http" THEN "formatting" ELSE "done"]
          /\ answer' = [answer EXCEPT ![r] = "fail"] /\ branch' = branch
      BY <2>1 DEF Accept
    <3>2. \A c \in Check : branch[r][c].at = "none"
      BY <1>1 DEF KitIInv, BranchesWait, BranchWaits, Accepted
    <3>3. answer' \in [Request -> Status \cup {"none"}]
      BY <3>1 DEF KitIInv, HealthKitTypeOK, Status
    <3>4. QED BY <3>1, <3>2, <3>3, KitTypes
  <2>2. CASE ~Drained(t)
    <3>1. PICK Old \in SUBSET {c \in ChecksFor(t) : cache[c] # NoOp} :
            branch' = [branch EXCEPT ![r] =
              [c \in Check |-> IF c \in ChecksFor(t) THEN BeginBranch(c, c \in Old)
                               ELSE NoBranch]]
      BY <2>2 DEF Accept
    <3>2. /\ progress' = [progress EXCEPT ![r] = "checking"]
          /\ answer' = [answer EXCEPT ![r] = "none"]
      BY <2>2 DEF Accept
    <3>3. ASSUME NEW c \in Check, c \in ChecksFor(t)
          PROVE  LET b == BeginBranch(c, c \in Old) IN
                 /\ b \in Branch /\ b.at # "operation"
                 /\ b.at = "run" => /\ b.op \in Op
                                    /\ run[b.op] # NoRun
                                    /\ run[b.op] \in Outcome => runIn[b.op] = generation
      <4>1. (c \in Old) \in BOOLEAN
        OBVIOUS
      <4>2. QED BY <4>1, BeginBranchFacts
    <3> DEFINE B == [c \in Check |-> IF c \in ChecksFor(t) THEN BeginBranch(c, c \in Old)
                                     ELSE NoBranch]
    <3>4. /\ B \in [Check -> Branch]
          /\ \A c \in Check :
               /\ B[c].at # "operation"
               /\ B[c].at = "run" => /\ B[c].op \in Op
                                     /\ run[B[c].op] # NoRun
                                     /\ run[B[c].op] \in Outcome => runIn[B[c].op] = generation
      BY <3>3, BranchForms DEF NoBranch
    <3> HIDE DEF B
    <3>5. branch' = [branch EXCEPT ![r] = B]
      BY <3>1 DEF B
    <3>6. QED BY <3>2, <3>4, <3>5, KitTypes DEF HealthKitTypeOK
  <2>3. QED BY <2>1, <2>2
<1>5. HealthKitTypeOK'
  BY <1>1, <1>2, <1>3, <1>4, KitTypes DEF HealthKitTypeOK
<1>6. StagesEnd'
  BY <1>1, <1>2, <1>3 DEF KitIInv, StagesEnd
<1>7. BranchesWait'
  <2> SUFFICES ASSUME NEW s \in Request
               PROVE  /\ acceptedIn'[s] <= generation
                      /\ \A c \in Check : BranchWaits(s, branch[s][c])'
    BY <1>2 DEF BranchesWait
  <2>1. CASE s = r
    <3>1. acceptedIn'[s] = generation /\ generation <= generation
      BY <1>1, <2>1, KitTypes
    <3>2. QED BY <1>2, <1>4, <2>1, <3>1 DEF BranchWaits
  <2>2. CASE s # r
    <3>1. acceptedIn'[s] = acceptedIn[s]
      BY <1>1, <2>2, KitTypes
    <3>2. QED BY <1>2, <1>4, <2>2, <3>1 DEF KitIInv, BranchesWait, BranchWaits
  <2>3. QED BY <2>1, <2>2
<1>8. DisposalsFollow'
  BY <1>1 DEF KitIInv, DisposalsFollow
<1>9. QED BY <1>3, <1>5, <1>6, <1>7, <1>8 DEF KitIInv

\* A branch goes on to wait for an operation, or returns.
LEMMA BranchStepInv ==
  ASSUME KitIInv, NEW r \in Request, NEW c \in Check, NEW b \in Branch,
         branch[r][c].at # "none",
         b.at \in {"operation", "done"}, b.at = "operation" => b.op \in Op,
         branch' = [branch EXCEPT ![r][c] = b],
         UNCHANGED <<cacheVars, started, draining, progress, type, api, answer, acceptedIn,
                     closeVars>>,
         SchedulerIInv', StoppedIsOver => StoppedIsOver'
  PROVE  KitIInv'
<1>1. UNCHANGED <<run, runIn, timers, generation, stage, disposal, disposals>>
  BY DEF cacheVars, closeVars
<1>2. /\ branch' \in [Request -> [Check -> Branch]]
      /\ branch'[r][c] = b
      /\ \A s \in Request, d \in Check : s # r \/ d # c => branch'[s][d] = branch[s][d]
  BY KitTypes, OneBranch
<1>3. HealthKitTypeOK'
  BY <1>1, <1>2, KitTypes DEF HealthKitTypeOK, SchedulerIInv
<1>4. StagesEnd'
  BY <1>1 DEF KitIInv, StagesEnd, Accepted
<1>5. BranchesWait'
  <2> SUFFICES ASSUME NEW s \in Request, NEW d \in Check
               PROVE  BranchWaits(s, branch[s][d])'
    BY <1>1, KitTypes DEF BranchesWait
  <2>1. CASE s = r /\ d = c
    BY <1>1, <1>2, <2>1 DEF KitIInv, BranchesWait, BranchWaits
  <2>2. CASE s # r \/ d # c
    BY <1>1, <1>2, <2>2 DEF KitIInv, BranchesWait, BranchWaits
  <2>3. QED BY <2>1, <2>2
<1>6. DisposalsFollow'
  BY <1>1 DEF KitIInv, DisposalsFollow
<1>7. QED BY <1>3, <1>4, <1>5, <1>6 DEF KitIInv

\* A branch that takes an answer or the result of a run is done with it.
LEMMA BranchReturns ==
  ASSUME KitIInv, NEW r \in Request, NEW c \in Check, TakeAnswer(r, c) \/ TakeRun(r, c)
  PROVE  /\ branch[r][c].at # "none"
         /\ \E b \in Branch : b.at = "done" /\ branch' = [branch EXCEPT ![r][c] = b]
<1>1. PICK v \in Served :
        branch' = [branch EXCEPT ![r][c] = Returned(v)] /\ branch[r][c].at # "none"
  <2>1. CASE TakeAnswer(r, c)
    <3>1. /\ branch[r][c].at = "operation" /\ Decided(branch[r][c].op)
          /\ branch' = [branch EXCEPT ![r][c] = Returned(result[branch[r][c].op])]
      BY <2>1 DEF TakeAnswer, CanTakeAnswer
    <3>2. branch[r][c].op \in Op
      BY <3>1 DEF KitIInv, BranchesWait, BranchWaits
    <3>3. result[branch[r][c].op] \in Served
      BY <3>1, <3>2, KitTypes DEF ExecutorTypeOK, Result, Decided, Served
    <3>4. QED BY <3>1, <3>3
  <2>2. CASE TakeRun(r, c)
    <3>1. /\ branch[r][c].at = "run" /\ run[branch[r][c].op] \notin {NoRun, Waiting}
          /\ \E v \in {run[branch[r][c].op], "stale"} :
               branch' = [branch EXCEPT ![r][c] = Returned(v)]
      BY <2>2 DEF TakeRun, CanTakeRun
    <3>2. branch[r][c].op \in Op
      BY <3>1 DEF KitIInv, BranchesWait, BranchWaits
    <3>3. run[branch[r][c].op] \in Served /\ "stale" \in Served
      BY <3>1, <3>2, KitTypes DEF RunState, Served
    <3>4. QED BY <3>1, <3>3
  <2>3. QED BY <2>1, <2>2
<1>2. Returned(v) \in Branch /\ Returned(v).at = "done"
  BY BranchForms DEF Returned
<1>3. QED BY <1>1, <1>2

\* The steps of a branch after its first.
LEMMA BranchInv ==
  ASSUME KitIInv, NEW r \in Request, NEW c \in Check,
         Execute(r, c) \/ TakeAnswer(r, c) \/ TakeRun(r, c)
  PROVE  KitIInv'
<1>1. CASE Execute(r, c)
  <2>1. /\ RunCheck({c}) /\ {c} \in SUBSET Check /\ branch[r][c].at = "lookup"
        /\ branch' = [branch EXCEPT ![r][c] = AwaitsAnswer(Running(c))]
        /\ UNCHANGED <<cacheVars, started, draining, progress, type, api, answer, acceptedIn,
                       closeVars>>
    BY <1>1 DEF Execute
  <2>2. Running(c) \in Op
    BY <2>1, RunCheckFacts DEF KitIInv, SchedulerIInv
  <2>3. SchedulerIInv' /\ (StoppedIsOver => StoppedIsOver')
    BY <2>1, RunCheckInv DEF KitIInv
  <2>4. /\ AwaitsAnswer(Running(c)) \in Branch
        /\ AwaitsAnswer(Running(c)).at = "operation" /\ AwaitsAnswer(Running(c)).op \in Op
    BY <2>2, BranchForms DEF AwaitsAnswer
  <2>5. QED BY <2>1, <2>3, <2>4, BranchStepInv
<1>2. CASE TakeAnswer(r, c) \/ TakeRun(r, c)
  <2>1. PICK b \in Branch : /\ branch[r][c].at # "none" /\ b.at = "done"
                            /\ branch' = [branch EXCEPT ![r][c] = b]
    BY <1>2, BranchReturns
  <2>2. /\ UNCHANGED schedulerVars
        /\ UNCHANGED <<started, draining, progress, type, api, answer, acceptedIn, closeVars>>
    BY <1>2 DEF TakeAnswer, TakeRun
  <2>3. SchedulerIInv' /\ (StoppedIsOver => StoppedIsOver') /\ UNCHANGED cacheVars
    BY <2>2, SchedulerStutterInv DEF KitIInv, schedulerVars
  <2>4. QED BY <2>1, <2>2, <2>3, BranchStepInv
<1>3. QED BY <1>1, <1>2

\* The rollup of a set of statuses is a status.
LEMMA RollupIsStatus == ASSUME NEW S PROVE Rollup(S) \in Status
  BY DEF Rollup, Status

\* A request ends: none of its branches is left.
LEMMA RequestEndsInv ==
  ASSUME KitIInv, NEW r \in Request, Conclude(r) \/ Format(r)
  PROVE  KitIInv'
<1>1. /\ UNCHANGED schedulerVars
      /\ UNCHANGED <<started, draining, type, api, acceptedIn, stage, disposal, disposals>>
      /\ Accepted(r)
  BY DEF Conclude, Format, closeVars, BranchesDone, Accepted
<1>2. /\ SchedulerIInv' /\ (StoppedIsOver => StoppedIsOver')
      /\ UNCHANGED <<run, runIn, timers, generation>>
  BY <1>1, SchedulerStutterInv DEF KitIInv, schedulerVars, cacheVars
<1>3. /\ progress' \in [Request -> {"idle", "checking", "formatting", "done"}]
      /\ branch' \in [Request -> [Check -> Branch]]
      /\ \A s \in Request \ {r} : progress'[s] = progress[s] /\ branch'[s] = branch[s]
      /\ \A c \in Check : branch'[r][c].at = "none"
  <2>1. CASE Conclude(r)
    <3>1. /\ progress' = [progress EXCEPT ![r] = IF api[r] = "http" THEN "formatting" ELSE "done"]
          /\ branch' = [branch EXCEPT ![r] = [c \in Check |-> NoBranch]]
      BY <2>1 DEF Conclude
    <3>2. [c \in Check |-> NoBranch] \in [Check -> Branch]
      BY BranchForms
    <3>3. QED BY <3>1, <3>2, KitTypes DEF NoBranch
  <2>2. CASE Format(r)
    <3>1. /\ progress[r] = "formatting" /\ progress' = [progress EXCEPT ![r] = "done"]
          /\ branch' = branch
      BY <2>2 DEF Format
    <3>2. QED BY <3>1, KitTypes DEF KitIInv, BranchesWait, BranchWaits
  <2>3. QED BY <2>1, <2>2
<1>4. answer' \in [Request -> Status \cup {"none"}]
  <2>1. CASE Conclude(r)
    BY <2>1, RollupIsStatus, KitTypes DEF Conclude, HealthKitTypeOK, Status
  <2>2. CASE Format(r)
    BY <2>2, KitTypes DEF Format, HealthKitTypeOK, Status
  <2>3. QED BY <2>1, <2>2
<1>5. HealthKitTypeOK'
  BY <1>1, <1>2, <1>3, <1>4, KitTypes DEF HealthKitTypeOK, SchedulerIInv
<1>6. StagesEnd'
  BY <1>1, <1>2, <1>3 DEF KitIInv, StagesEnd, Accepted
<1>7. BranchesWait'
  BY <1>1, <1>2, <1>3 DEF KitIInv, BranchesWait, BranchWaits
<1>8. DisposalsFollow'
  BY <1>1 DEF KitIInv, DisposalsFollow
<1>9. QED BY <1>2, <1>5, <1>6, <1>7, <1>8 DEF KitIInv

-----------------------------------------------------------------------------
\* start() and stop().
LEMMA RestartInv ==
  ASSUME KitIInv, Start \/ Stop
  PROVE  KitIInv'
<1>1. UNCHANGED <<draining, progress, type, api, branch, answer, acceptedIn, stage, disposal,
                  disposals>>
  BY DEF Start, Stop, requestVars, closeVars
<1>2. DisposalsFollow'
  BY <1>1 DEF KitIInv, DisposalsFollow
<1>3. CASE Start
  <2>1. stage = "open" /\ StoppedIsOver /\ timers = {} /\ StartSchedule /\ started'
        /\ generation' = generation
    BY <1>3 DEF Start, StartSchedule, KitIInv, StagesEnd
  <2>2. /\ SchedulerIInv' /\ StoppedIsOver'
        /\ \A o \in Op : run[o] # NoRun => runIn'[o] = runIn[o] /\ run'[o] = run[o]
    BY <2>1, StartInv DEF KitIInv
  <2>3. HealthKitTypeOK'
    BY <1>1, <1>3, <2>2, KitTypes DEF Start, HealthKitTypeOK, SchedulerIInv
  <2>4. StagesEnd'
    BY <1>1, <1>3, <2>1, <2>2 DEF Start, KitIInv, StagesEnd
  <2>5. \A r \in Request, c \in Check :
          branch[r][c].at = "run" => RunGoesOn(branch[r][c].op)
    BY <2>2 DEF KitIInv, BranchesWait, BranchWaits, RunGoesOn
  <2>6. generation' \in Generation /\ generation <= generation'
    BY <2>1, KitTypes
  <2>7. BranchesWait'
    BY <1>1, <2>5, <2>6, BranchesStay
  <2>8. QED BY <1>2, <2>2, <2>3, <2>4, <2>7 DEF KitIInv
<1>4. CASE Stop
  <2>1. /\ StopSchedule /\ generation < MaxStops /\ started' = FALSE
        /\ timers' = {} /\ generation' = generation + 1 /\ UNCHANGED <<run, runIn>>
    BY <1>4 DEF Stop, StopSchedule, StopTimers
  <2>2. generation \in Nat /\ MaxStops \in Nat
    BY KitTypes, SchedulerAssumption
  <2>3. SchedulerIInv' /\ StoppedIsOver'
    BY <2>1, <2>2, StopInv DEF KitIInv
  <2>4. HealthKitTypeOK'
    BY <1>1, <2>1, <2>3, KitTypes DEF HealthKitTypeOK, SchedulerIInv
  <2>5. StagesEnd'
    BY <1>1, <2>1, <2>2, <2>3 DEF KitIInv, StagesEnd, Accepted
  <2>6. generation' \in Generation /\ generation <= generation'
    BY <2>1, <2>2, <2>3 DEF SchedulerIInv, SchedulerTypeOK
  <2>7. \A r \in Request, c \in Check :
          branch[r][c].at = "run" => RunGoesOn(branch[r][c].op)
    BY <2>1 DEF RunGoesOn
  <2>8. BranchesWait'
    BY <1>1, <2>6, <2>7, BranchesStay
  <2>9. QED BY <1>2, <2>3, <2>4, <2>5, <2>8 DEF KitIInv
<1>5. QED BY <1>3, <1>4

\* close() ends the timers at once.
LEMMA CloseInv ==
  ASSUME KitIInv, Close
  PROVE  KitIInv'
<1>1. /\ stage = "open" /\ stage' = "requests" /\ timers' = {}
      /\ UNCHANGED <<executorVars, hookVars, cache, pending, generation, run, runIn>>
      /\ UNCHANGED <<started, draining, progress, type, api, branch, answer, acceptedIn,
                     disposal, disposals>>
  BY DEF Close, StopTimers, requestVars
<1>2. ExecutorIInv' /\ ExecutorTypeOK'
  BY <1>1, ExecutorStepInv DEF KitIInv, SchedulerIInv, ExecutorIInv
<1>3. SchedulerTypeOK'
  BY <1>1, <1>2 DEF KitIInv, SchedulerIInv, SchedulerTypeOK, hookVars
<1>4. RunsAreKept' /\ EntriesAreCurrent' /\ LatestRun'
  BY <1>1
  DEF KitIInv, SchedulerIInv, RunsAreKept, EntriesAreCurrent, LatestRun, WaitsNow, Outstanding,
      Decided, executorVars
<1>5. Reports' /\ TransitionsTellStatus'
  BY <1>1 DEF KitIInv, SchedulerIInv, Reports, TransitionsTellStatus, hookVars
<1>6. HealthKitTypeOK'
  BY <1>1, <1>3, KitTypes DEF HealthKitTypeOK
<1>7. StagesEnd' /\ DisposalsFollow'
  BY <1>1 DEF KitIInv, StagesEnd, DisposalsFollow
<1>8. BranchesWait'
  BY <1>1 DEF KitIInv, BranchesWait, BranchWaits
<1>9. QED BY <1>2, <1>3, <1>4, <1>5, <1>6, <1>7, <1>8 DEF KitIInv, SchedulerIInv

\* A step of drain or close that leaves scheduler and requests alone.
LEMMA CloseSideInv ==
  ASSUME KitIInv, UNCHANGED <<schedulerVars, started, requestVars>>, draining' \in BOOLEAN,
         stage' \in {"open", "requests", "settling", "disposing", "closed", "failed"},
         disposal' \in [Adapter -> {"none", "called", "ok", "failed"}], disposals' = disposals,
         stage' = "open" <=> stage = "open",
         stage' \in {"open", "requests", "settling"} => stage \in {"open", "requests", "settling"},
         stage' \notin {"open", "requests"} => \A r \in Request : ~Accepted(r),
         DisposalsFollow'
  PROVE  KitIInv'
<1>1. /\ UNCHANGED <<started, progress, type, api, branch, answer, acceptedIn, disposals>>
      /\ UNCHANGED <<timers, generation, run, runIn>>
  BY DEF requestVars, schedulerVars, cacheVars
<1>2. SchedulerIInv' /\ (StoppedIsOver => StoppedIsOver')
  BY SchedulerStutterInv DEF KitIInv
<1>3. HealthKitTypeOK'
  BY <1>1, <1>2, KitTypes DEF HealthKitTypeOK, SchedulerIInv
<1>4. StagesEnd'
  BY <1>1, <1>2 DEF KitIInv, StagesEnd, Accepted
<1>5. BranchesWait'
  BY <1>1 DEF KitIInv, BranchesWait, BranchWaits
<1>6. QED BY <1>2, <1>3, <1>4, <1>5 DEF KitIInv

\* beginDrain(), and the steps of close() that wait for others.
LEMMA CloseJobInv ==
  ASSUME KitIInv, BeginDrain \/ RequestsSettled \/ (\E a \in Adapter : Disposed(a)) \/ FinishClose
  PROVE  KitIInv'
<1>1. CASE BeginDrain
  <2>1. UNCHANGED <<schedulerVars, started, requestVars, stage, disposal, disposals>> /\ draining'
    BY <1>1 DEF BeginDrain, closeVars
  <2>2. DisposalsFollow'
    BY <2>1 DEF KitIInv, DisposalsFollow
  <2>3. QED BY <2>1, <2>2, CloseSideInv, KitTypes DEF HealthKitTypeOK, KitIInv, StagesEnd
<1>2. CASE RequestsSettled
  <2>1. /\ UNCHANGED <<schedulerVars, started, requestVars, draining, disposal, disposals>>
        /\ stage = "requests" /\ stage' = "settling" /\ \A r \in Request : ~Accepted(r)
    BY <1>2 DEF RequestsSettled, CanSettleRequests
  <2>2. DisposalsFollow'
    BY <2>1 DEF KitIInv, DisposalsFollow
  <2>3. QED BY <2>1, <2>2, CloseSideInv, KitTypes DEF HealthKitTypeOK
<1>3. ASSUME NEW a \in Adapter, Disposed(a) PROVE KitIInv'
  <2>1. PICK ending \in {"ok", "failed"} : disposal' = [disposal EXCEPT ![a] = ending]
    BY <1>3 DEF Disposed
  <2>2. /\ UNCHANGED <<schedulerVars, started, requestVars, draining, stage, disposals>>
        /\ stage = "disposing"
    BY <1>3 DEF Disposed
  <2>3. disposal' \in [Adapter -> {"none", "called", "ok", "failed"}]
    BY <2>1, KitTypes DEF HealthKitTypeOK
  <2>4. DisposalsFollow'
    BY <2>1, <2>2, KitTypes DEF KitIInv, DisposalsFollow, HealthKitTypeOK
  <2>5. QED BY <2>2, <2>3, <2>4, CloseSideInv, KitTypes DEF HealthKitTypeOK, KitIInv, StagesEnd
<1>4. CASE FinishClose
  <2>1. /\ UNCHANGED <<schedulerVars, started, requestVars, draining, disposal, disposals>>
        /\ stage = "disposing" /\ \A a \in Adapter : disposal[a] # "called"
        /\ stage' = IF \E a \in Adapter : disposal[a] = "failed" THEN "failed" ELSE "closed"
    BY <1>4 DEF FinishClose, CanFinish
  <2>2. DisposalsFollow'
    BY <2>1, KitTypes DEF KitIInv, DisposalsFollow, HealthKitTypeOK
  <2>3. QED BY <2>1, <2>2, CloseSideInv, KitTypes DEF HealthKitTypeOK, KitIInv, StagesEnd
<1>5. QED BY <1>1, <1>2, <1>3, <1>4

\* close() stops the schedule and disposes the adapters in one turn.
LEMMA DisposeInv ==
  ASSUME KitIInv, DisposeAdapters
  PROVE  KitIInv'
<1>1. /\ stage = "settling" /\ stage' = "disposing" /\ StopSchedule /\ started' = FALSE
      /\ disposal' = [a \in Adapter |-> "called"]
      /\ disposals' = [a \in Adapter |-> disposals[a] + 1]
      /\ UNCHANGED <<draining, progress, type, api, branch, answer, acceptedIn>>
      /\ timers' = {} /\ generation' = generation + 1 /\ UNCHANGED <<run, runIn>>
  BY DEF DisposeAdapters, CanDispose, requestVars, StopSchedule, StopTimers
<1>2. generation <= MaxStops
  BY <1>1 DEF KitIInv, StagesEnd
<1>3. SchedulerIInv' /\ StoppedIsOver'
  BY <1>1, <1>2, StopInv DEF KitIInv
<1>4. HealthKitTypeOK'
  <2>1. disposals' \in [Adapter -> Nat]
    BY <1>1, KitTypes DEF HealthKitTypeOK
  <2>2. disposal' \in [Adapter -> {"none", "called", "ok", "failed"}]
    BY <1>1
  <2>3. QED BY <1>1, <1>3, <2>1, <2>2, KitTypes DEF HealthKitTypeOK, SchedulerIInv
<1>5. StagesEnd' /\ DisposalsFollow'
  BY <1>1 DEF KitIInv, StagesEnd, DisposalsFollow, Accepted
<1>6. generation' \in Generation /\ generation <= generation'
  <2>1. generation \in Nat
    BY KitTypes
  <2>2. QED BY <1>1, <1>3, <2>1 DEF SchedulerIInv, SchedulerTypeOK
<1>7. \A r \in Request, c \in Check :
        branch[r][c].at = "run" => RunGoesOn(branch[r][c].op)
  BY <1>1 DEF RunGoesOn
<1>8. BranchesWait'
  BY <1>1, <1>6, <1>7, BranchesStay
<1>9. QED BY <1>3, <1>4, <1>5, <1>8 DEF KitIInv

\* Every step of the kit keeps the invariant.
LEMMA KitStepInv == KitIInv /\ [HealthKitNext]_vars => KitIInv'
<1> SUFFICES ASSUME KitIInv, [HealthKitNext]_vars PROVE KitIInv'
  OBVIOUS
<1>1. CASE Start \/ Stop
  BY <1>1, RestartInv
<1>2. CASE Close
  BY <1>2, CloseInv
<1>3. CASE BeginDrain \/ CloseJob \/ \E a \in Adapter : Disposed(a)
  BY <1>3, CloseJobInv, DisposeInv DEF CloseJob
<1>4. ASSUME NEW r \in Request, NEW t \in CheckType, NEW a \in Api, Accept(r, t, a)
      PROVE  KitIInv'
  BY <1>4, AcceptInv
<1>5. ASSUME NEW r \in Request, RequestJob(r) PROVE KitIInv'
  BY <1>5, BranchInv, RequestEndsInv DEF RequestJob
<1>6. ASSUME NEW o \in Op, SchedulerJob(o) \/ Collect(o) \/ AdapterAnswers(o) \/ DeadlineTimer(o)
      PROVE  KitIInv'
  BY <1>6, SchedulerJobInv, CollectInv
<1>7. ASSUME NEW c \in Check, IntervalTimer(c) PROVE KitIInv'
  BY <1>7, IntervalTimerInv
<1>8. CASE UNCHANGED vars
  <2>1. UNCHANGED <<schedulerVars, started, requestVars, draining, stage, disposal, disposals>>
    BY <1>8 DEF vars, kitVars, closeVars
  <2>2. DisposalsFollow'
    BY <2>1 DEF KitIInv, DisposalsFollow
  <2>3. QED BY <2>1, <2>2, CloseSideInv, KitTypes DEF HealthKitTypeOK, KitIInv, StagesEnd
<1>9. QED BY <1>1, <1>2, <1>3, <1>4, <1>5, <1>6, <1>7, <1>8 DEF HealthKitNext

\* The inductive invariant holds in every behaviour of the kit.
THEOREM KitInvariant == HealthKitSpec => []KitIInv
  BY KitInitInv, KitStepInv, PTL DEF HealthKitSpec

\* The kit's state keeps its types.
THEOREM HealthKitTypeCorrect == HealthKitSpec => []HealthKitTypeOK
<1>1. KitIInv => HealthKitTypeOK BY DEF KitIInv
<1>2. QED BY <1>1, KitInvariant, PTL

\* close() disposes every distinct adapter once, however many checks share it,
\* and tells whether one of them failed.
THEOREM DisposedExactlyOnceTheorem == HealthKitSpec => []DisposedExactlyOnce
<1>1. KitIInv => DisposedExactlyOnce
  <2> SUFFICES ASSUME KitIInv PROVE DisposedExactlyOnce
    OBVIOUS
  <2>1. stage \in {"open", "requests", "settling", "disposing", "closed", "failed"}
    BY DEF KitIInv, HealthKitTypeOK
  <2>2. ASSUME NEW a \in Adapter PROVE disposals[a] \in {0, 1}
    BY <2>1 DEF KitIInv, DisposalsFollow
  <2>3. QED BY <2>1, <2>2 DEF KitIInv, DisposalsFollow, DisposedExactlyOnce
<1>2. QED BY <1>1, KitInvariant, PTL

\* Under the requests, too, the scheduler serves what is current, caches the
\* newest run and reports every execution once.
THEOREM KitServesCurrent ==
  HealthKitSpec => [](ServedIsCurrent /\ CacheIsNewestRun /\ OneEventPerExecution
                      /\ TransitionsTellStatus)
<1>1. KitIInv => ServedIsCurrent /\ CacheIsNewestRun /\ OneEventPerExecution
                   /\ TransitionsTellStatus
  BY SchedulerPromises DEF KitIInv
<1>2. QED BY <1>1, KitInvariant, PTL

\* A readiness request that ends after beginDrain() ends with a failure.
THEOREM DrainedReadinessTheorem == HealthKitSpec => DrainedReadinessFails
<1> DEFINE A == \A r \in Request :
                  progress'[r] = "done" /\ progress[r] # "done" /\ type'[r] = "readiness"
                    /\ draining => answer'[r] = "fail"
<1>1. HealthKitTypeOK /\ [HealthKitNext]_vars => [A]_vars
  <2> SUFFICES ASSUME HealthKitTypeOK, HealthKitNext,
                      NEW r \in Request, progress'[r] = "done", progress[r] # "done",
                      type'[r] = "readiness", draining
               PROVE  answer'[r] = "fail"
    OBVIOUS
  <2>1. /\ progress \in [Request -> {"idle", "checking", "formatting", "done"}]
        /\ type \in [Request -> CheckType \cup {"none"}]
        /\ answer \in [Request -> Status \cup {"none"}]
    BY DEF HealthKitTypeOK
  <2>2. ASSUME NEW s \in Request, NEW t \in CheckType, NEW a \in Api, Accept(s, t, a)
        PROVE  answer'[r] = "fail"
    BY <2>1, <2>2 DEF Accept, Drained
  <2>3. ASSUME NEW s \in Request, Conclude(s) \/ Format(s)
        PROVE  answer'[r] = "fail"
    BY <2>1, <2>3 DEF Conclude, Format, Drained
  <2>4. CASE progress' = progress
    BY <2>4
  <2>5. QED
    BY <2>2, <2>3, <2>4
    DEF HealthKitNext, Start, Stop, BeginDrain, Close, RequestJob, Execute, TakeAnswer, TakeRun,
        SchedulerJob, Collect, AdapterAnswers, DeadlineTimer, IntervalTimer, CloseJob,
        RequestsSettled, DisposeAdapters, FinishClose, Disposed, kitVars, requestVars
<1>2. QED BY <1>1, HealthKitTypeCorrect, PTL DEF HealthKitSpec, DrainedReadinessFails

\* What a request is given of the schedule is not older than the request's
\* lifecycle, unless it is a failure.
THEOREM NoSuccessFromEarlierTheorem == HealthKitSpec => NoSuccessFromEarlierLifecycle
<1> DEFINE A(r, c) ==
      LET b == branch[r][c]
          later == branch'[r][c]
      IN
      /\ b.at = "run" /\ later.at = "done" /\ later.value \in Outcome
           => runIn[b.op] >= acceptedIn[r]
      /\ b.at = "none" /\ later.at = "done" /\ later.value \in Outcome
           => runIn[cache[c]] = acceptedIn'[r]
<1>1. KitIInv /\ [HealthKitNext]_vars => [\A r \in Request, c \in Check : A(r, c)]_vars
  <2> SUFFICES ASSUME KitIInv, HealthKitNext, NEW r \in Request, NEW c \in Check
               PROVE  A(r, c)
    OBVIOUS
  <2>0. "stale" \notin Outcome
    BY ExecutorAssumption DEF Status
  <2>1. ASSUME NEW s \in Request, NEW t \in CheckType, NEW a \in Api, Accept(s, t, a)
        PROVE  A(r, c)
    <3>1. CASE s = r
      <4>1. branch[r][c].at = "none" /\ acceptedIn'[r] = generation
        BY <2>1, <3>1, KitTypes DEF KitIInv, BranchesWait, BranchWaits, Accept, Accepted
      <4>2. CASE branch' = branch
        BY <4>1, <4>2
      <4>3. CASE \E Old \in SUBSET {d \in ChecksFor(t) : cache[d] # NoOp} :
                   branch' = [branch EXCEPT ![s] =
                     [d \in Check |-> IF d \in ChecksFor(t) THEN BeginBranch(d, d \in Old)
                                      ELSE NoBranch]]
        <5>1. PICK Old \in SUBSET {d \in ChecksFor(t) : cache[d] # NoOp} :
                     branch'[r][c] = IF c \in ChecksFor(t) THEN BeginBranch(c, c \in Old)
                                     ELSE NoBranch
          BY <3>1, <4>3, KitTypes
        <5>2. (c \in Old) \in BOOLEAN
          OBVIOUS
        <5>3. /\ NoBranch.at # "done"
              /\ BeginBranch(c, c \in Old).at = "done" =>
                   /\ runIn[cache[c]] = generation
          BY <5>2, BeginBranchFacts DEF NoBranch
        <5>4. QED BY <4>1, <5>1, <5>3
      <4>4. QED BY <2>1, <4>2, <4>3 DEF Accept
    <3>2. CASE s # r
      BY <2>1, <3>2, KitTypes DEF Accept
    <3>3. QED BY <3>1, <3>2
  <2>2. ASSUME NEW s \in Request, NEW d \in Check, Execute(s, d) \/ TakeAnswer(s, d)
        PROVE  A(r, c)
    <3>1. branch[s][d].at \in {"lookup", "operation"}
      BY <2>2 DEF Execute, TakeAnswer, CanTakeAnswer
    <3>2. s # r \/ d # c => branch'[r][c] = branch[r][c]
      BY <2>2, KitTypes DEF Execute, TakeAnswer
    <3>3. QED BY <3>1, <3>2
  <2>3. ASSUME NEW s \in Request, NEW d \in Check, TakeRun(s, d)
        PROVE  A(r, c)
    <3>1. CASE s = r /\ d = c
      <4>1. /\ branch[r][c].at = "run"
            /\ branch'[r][c].value \in {run[branch[r][c].op], "stale"}
        BY <2>3, <3>1, KitTypes DEF TakeRun, CanTakeRun, Returned
      <4>2. run[branch[r][c].op] \in Outcome => runIn[branch[r][c].op] >= acceptedIn[r]
        BY <4>1 DEF KitIInv, BranchesWait, BranchWaits
      <4>3. QED BY <2>0, <4>1, <4>2
    <3>2. CASE s # r \/ d # c
      <4>1. branch'[r][c] = branch[r][c]
        BY <2>3, <3>2, KitTypes DEF TakeRun
      <4>2. QED BY <4>1
    <3>3. QED BY <3>1, <3>2
  <2>4. ASSUME NEW s \in Request, Conclude(s) PROVE A(r, c)
    BY <2>4, KitTypes DEF Conclude, NoBranch
  <2>5. CASE branch' = branch
    BY <2>5
  <2>6. QED
    BY <2>1, <2>2, <2>3, <2>4, <2>5
    DEF HealthKitNext, Start, Stop, BeginDrain, Close, RequestJob, Format, SchedulerJob, Collect,
        AdapterAnswers, DeadlineTimer, IntervalTimer, CloseJob, RequestsSettled,
        DisposeAdapters, FinishClose, Disposed, kitVars, requestVars
<1>2. QED BY <1>1, KitInvariant, PTL DEF HealthKitSpec, NoSuccessFromEarlierLifecycle

-----------------------------------------------------------------------------
\* A step of the kit either calls executions into being, all in one turn, or
\* it is a step of the executor alone, or it does not touch the executor.
LEMMA ExecutorUnderKit ==
  ASSUME KitIInv, HealthKitNext
  PROVE  \/ \E S \in SUBSET Check : RunCheck(S) /\ UNCHANGED <<stage, progress>>
                /\ (stage = "open" \/ \E r \in Request : Accepted(r))
         \/ \E o \in Op : AdapterAnswers(o)
         \/ \E o \in Op : (CallAdapter(o) \/ Deadline(o) \/ Forget(o)) /\ UNCHANGED kitVars
         \/ UNCHANGED executorVars /\ ~\E o \in Op : AdapterAnswers(o)
<1> SUFFICES ASSUME ~\E o \in Op : AdapterAnswers(o)
             PROVE  \/ \E S \in SUBSET Check : RunCheck(S) /\ UNCHANGED <<stage, progress>>
                         /\ (stage = "open" \/ \E r \in Request : Accepted(r))
                    \/ \E o \in Op : (CallAdapter(o) \/ Deadline(o) \/ Forget(o))
                                     /\ UNCHANGED kitVars
                    \/ UNCHANGED executorVars
  OBVIOUS
<1>1. ASSUME NEW S \in SUBSET Check, RunAndCache(S), UNCHANGED <<stage, progress>>, stage = "open"
      PROVE  \E L \in SUBSET Check : RunCheck(L) /\ UNCHANGED <<stage, progress>> /\ stage = "open"
  BY <1>1 DEF RunAndCache
<1>2. CASE Start
  <2>1. Scheduled \ timers \in SUBSET Check
    BY SchedulerAssumption
  <2>2. QED BY <1>1, <1>2, <2>1 DEF Start, StartSchedule, requestVars, closeVars
<1>3. ASSUME NEW c \in Check, IntervalTimer(c)
      PROVE  \E L \in SUBSET Check : RunCheck(L) /\ UNCHANGED <<stage, progress>> /\ stage = "open"
  <2>1. stage = "open"
    BY <1>3 DEF IntervalTimer, Tick, KitIInv, StagesEnd
  <2>2. QED BY <1>1, <1>3, <2>1 DEF IntervalTimer, Tick, kitVars, requestVars, closeVars
<1>4. ASSUME NEW r \in Request, NEW c \in Check, Execute(r, c)
      PROVE  \E L \in SUBSET Check : RunCheck(L) /\ UNCHANGED <<stage, progress>>
                                    /\ \E s \in Request : Accepted(s)
  <2>1. Accepted(r)
    BY <1>4 DEF Execute, KitIInv, BranchesWait, BranchWaits, Accepted
  <2>2. QED BY <1>4, <2>1 DEF Execute, closeVars
<1>5. ASSUME NEW o \in Op, SchedulerJob(o) \/ Collect(o) \/ DeadlineTimer(o)
      PROVE  \/ (CallAdapter(o) \/ Deadline(o) \/ Forget(o)) /\ UNCHANGED kitVars
             \/ UNCHANGED executorVars
  BY <1>5
  DEF SchedulerJob, Collect, DeadlineTimer, AdapterCalled, Complete, FinishRun, ForgetRun,
      DeadlineFires
<1>6. CASE UNCHANGED executorVars
  BY <1>6
<1>7. QED
  BY <1>2, <1>3, <1>4, <1>5, <1>6
  DEF HealthKitNext, Stop, StopSchedule, BeginDrain, Close, RequestJob, Accept, TakeAnswer,
      TakeRun, Conclude, Format, CloseJob, RequestsSettled, DisposeAdapters, FinishClose,
      Disposed, schedulerVars

\* Under the kit, too, the executor does what ExecutorSpec says; so a check has
\* one call outstanding at most, whoever asks for it, also while close() waits.
THEOREM KitImplementsExecutor == HealthKitSpec => ExecutorSpec
<1>1. HealthKitInit => ExecutorInit
  BY DEF HealthKitInit, SchedulerInit
<1>2. KitIInv /\ [HealthKitNext]_vars => [ExecutorNext]_executorVars
  <2> SUFFICES ASSUME KitIInv, HealthKitNext PROVE [ExecutorNext]_executorVars
    BY DEF vars, schedulerVars
  <2>1. ASSUME NEW S \in SUBSET Check, RunCheck(S) PROVE ExecutorNext
    BY <2>1, RunCheckFacts DEF KitIInv, SchedulerIInv
  <2>2. ASSUME NEW o \in Op, AdapterAnswers(o) \/ CallAdapter(o) \/ Deadline(o) \/ Forget(o)
        PROVE  ExecutorNext
    BY <2>2 DEF AdapterAnswers, AdapterSettles, ExecutorNext
  <2>3. QED BY <2>1, <2>2, ExecutorUnderKit
<1>3. QED BY <1>1, <1>2, KitInvariant, PTL DEF HealthKitSpec, ExecutorSpec

\* A run is begun once, under the kit as well.
THEOREM KitRunsBeginOnce == HealthKitSpec => RunsBeginOnce
<1> DEFINE A == \A o \in Op : run[o] # NoRun /\ phase'[o] # "unused" => runIn'[o] = runIn[o]
<1>1. KitIInv /\ [HealthKitNext]_vars => [A]_schedulerVars
  <2> SUFFICES ASSUME KitIInv, HealthKitNext PROVE A
    BY DEF vars
  <2>1. CASE Start
    BY <2>1, StartInv DEF Start, KitIInv, StagesEnd
  <2>2. ASSUME NEW c \in Check, IntervalTimer(c) PROVE A
    BY <2>2, TickInv DEF IntervalTimer, KitIInv
  <2>3. ASSUME NEW o \in Op, Collect(o) PROVE A
    BY <2>3, KitTypes DEF Collect, ForgetRun, Forget, ExecutorTypeOK
  <2>4. CASE runIn' = runIn
    BY <2>4
  <2>5. QED
    BY <2>1, <2>2, <2>3, <2>4
    DEF HealthKitNext, Stop, StopSchedule, BeginDrain, Close, Accept, RequestJob, Execute,
        TakeAnswer, TakeRun, Conclude, Format, SchedulerJob, AdapterCalled, Complete, FinishRun,
        AdapterAnswers, AdapterSettles, DeadlineTimer, DeadlineFires, CloseJob, RequestsSettled,
        DisposeAdapters, FinishClose, Disposed, schedulerVars, cacheVars
<1>2. QED BY <1>1, KitInvariant, PTL DEF HealthKitSpec, RunsBeginOnce

-----------------------------------------------------------------------------
(***************************************************************************)
(* The safety behind EveryRequestAnswered: a request never waits for       *)
(* something that nothing will bring about.                                *)
(***************************************************************************)
\* What the event loop still owes to those who wait for o: a job, or a timer.
Owed(o) == Reacting(o) \/ armed[o]

\* The branch of r for c is over, can go on, or waits for what is owed to it.
GoesOn(r, c) ==
  LET b == branch[r][c] IN
  \/ b.at \in {"lookup", "done"}
  \/ CanTakeAnswer(r, c)
  \/ CanTakeRun(r, c)
  \/ b.at \in {"run", "operation"} /\ Owed(b.op)

\* No request that runs its checks is stranded: for each of them there is a
\* branch, and it goes on although the adapter may never settle, the schedule
\* may have been stopped or begun again, and close() may be waiting.
NobodyStranded ==
  \A r \in Request : progress[r] = "checking" => \A c \in ChecksFor(type[r]) : GoesOn(r, c)

\* A request that runs its checks began a branch for each of them, and what a
\* branch waits for has not been collected.
BranchBegun(r, c) ==
  /\ progress[r] = "checking" /\ c \in ChecksFor(type[r]) => branch[r][c].at # "none"
  /\ branch[r][c].at = "operation" => phase[branch[r][c].op] # "unused"

BranchesBegun == \A r \in Request, c \in Check : BranchBegun(r, c)

\* Launched operations become unused by being collected, and in no other way.
LEMMA OnlyCollected ==
  ASSUME KitIInv, HealthKitNext, NEW o \in Op, phase[o] # "unused", phase'[o] = "unused"
  PROVE  Collect(o)
<1>0. ExecutorIInv /\ phase \in [Op -> {"unused", "queued", "running", "settled"}]
  BY KitTypes DEF KitIInv, SchedulerIInv, ExecutorTypeOK
<1>1. ASSUME NEW S \in SUBSET Check, RunCheck(S) PROVE FALSE
  BY <1>0, <1>1, RunCheckFacts
<1>2. ~Start /\ \A c \in Check : ~IntervalTimer(c) /\ \A r \in Request : ~Execute(r, c)
  BY <1>1, SchedulerAssumption
  DEF Start, StartSchedule, IntervalTimer, Tick, RunAndCache, Execute
<1>3. ASSUME NEW p \in Op, SchedulerJob(p) \/ AdapterAnswers(p) \/ DeadlineTimer(p)
      PROVE  FALSE
  BY <1>0, <1>3
  DEF SchedulerJob, AdapterCalled, Complete, FinishRun, AdapterAnswers, AdapterSettles,
      DeadlineTimer, DeadlineFires, CallAdapter, Settle, Deadline, executorVars
<1>4. ASSUME NEW p \in Op, Collect(p) PROVE p = o
  BY <1>0, <1>4 DEF Collect, ForgetRun, Forget
<1>5. phase' # phase
  OBVIOUS
<1>6. QED
  BY <1>2, <1>3, <1>4, <1>5
  DEF HealthKitNext, Stop, StopSchedule, BeginDrain, Close, Accept, RequestJob, TakeAnswer,
      TakeRun, Conclude, Format, CloseJob, RequestsSettled, DisposeAdapters, FinishClose,
      Disposed, schedulerVars, executorVars

\* The branch of one check of one request changes: the others keep waiting.
LEMMA OneBranchBegun ==
  ASSUME KitIInv, BranchesBegun, UNCHANGED <<progress, type>>,
         NEW r \in Request, NEW c \in Check, NEW b \in Branch, b.at # "none",
         branch' = [branch EXCEPT ![r][c] = b],
         b.at = "operation" => phase'[b.op] # "unused",
         \A o \in Op : phase[o] # "unused" => phase'[o] # "unused"
  PROVE  BranchesBegun'
<1>1. /\ branch'[r][c] = b
      /\ \A s \in Request, d \in Check : s # r \/ d # c => branch'[s][d] = branch[s][d]
  BY KitTypes, OneBranch
<1> SUFFICES ASSUME NEW s \in Request, NEW d \in Check PROVE BranchBegun(s, d)'
  BY DEF BranchesBegun
<1>2. BranchBegun(s, d) /\ BranchWaits(s, branch[s][d])
  BY DEF BranchesBegun, KitIInv, BranchesWait
<1>3. CASE s = r /\ d = c
  BY <1>1, <1>3 DEF BranchBegun
<1>4. CASE s # r \/ d # c
  BY <1>1, <1>2, <1>4 DEF BranchBegun, BranchWaits, ChecksFor
<1>5. QED BY <1>3, <1>4

\* A request that is accepted begins a branch for each of its checks.
LEMMA AcceptBegins ==
  ASSUME KitIInv, BranchesBegun, NEW r \in Request, NEW t \in CheckType, NEW a \in Api,
         Accept(r, t, a)
  PROVE  BranchesBegun'
<1>1. /\ type' = [type EXCEPT ![r] = t] /\ type \in [Request -> CheckType \cup {"none"}]
      /\ phase' = phase
  BY DEF Accept, schedulerVars, executorVars, KitIInv, HealthKitTypeOK
<1>2. ASSUME NEW s \in Request, NEW d \in Check, s # r PROVE BranchBegun(s, d)'
  <2>1. type'[s] = type[s] /\ progress'[s] = progress[s] /\ branch'[s] = branch[s]
    BY <1>1, <1>2, KitTypes DEF Accept
  <2>2. QED BY <1>1, <2>1 DEF BranchesBegun, BranchBegun, ChecksFor
<1>3. ASSUME NEW d \in Check PROVE BranchBegun(r, d)'
  <2>1. CASE Drained(t)
    <3>1. progress'[r] # "checking" /\ branch' = branch
      BY <2>1, KitTypes DEF Accept
    <3>2. QED BY <1>1, <3>1 DEF BranchesBegun, BranchBegun
  <2>2. CASE ~Drained(t)
    <3>1. PICK Old \in SUBSET {c \in ChecksFor(t) : cache[c] # NoOp} :
            branch' = [branch EXCEPT ![r] =
              [c \in Check |-> IF c \in ChecksFor(t) THEN BeginBranch(c, c \in Old)
                               ELSE NoBranch]]
      BY <2>2 DEF Accept
    <3>2. branch'[r][d] = IF d \in ChecksFor(t) THEN BeginBranch(d, d \in Old) ELSE NoBranch
      BY <3>1, KitTypes
    <3>3. (d \in Old) \in BOOLEAN
      OBVIOUS
    <3>4. BeginBranch(d, d \in Old).at \in {"run", "lookup", "done"}
      BY <3>3, BeginBranchFacts
    <3>5. type'[r] = t
      BY <1>1
    <3>6. QED BY <3>2, <3>4, <3>5 DEF BranchBegun, NoBranch, ChecksFor
  <2>3. QED BY <2>1, <2>2
<1>4. QED BY <1>2, <1>3 DEF BranchesBegun

\* Every step of the kit keeps these facts.
LEMMA BranchesBegunStep == KitIInv /\ BranchesBegun /\ [HealthKitNext]_vars => BranchesBegun'
<1> SUFFICES ASSUME KitIInv, BranchesBegun, HealthKitNext PROVE BranchesBegun'
  BY DEF vars, schedulerVars, executorVars, kitVars, requestVars, BranchesBegun, BranchBegun,
         ChecksFor
<1>1. ASSUME NEW r \in Request, NEW c \in Check, branch[r][c].op \in Op,
             phase[branch[r][c].op] # "unused"
      PROVE  phase'[branch[r][c].op] # "unused"
  BY <1>1, OnlyCollected DEF Collect
<1>2. ASSUME NEW r \in Request, NEW t \in CheckType, NEW a \in Api, Accept(r, t, a)
      PROVE  BranchesBegun'
  BY <1>2, AcceptBegins
<1>3. ASSUME NEW r \in Request, NEW c \in Check, Execute(r, c) PROVE BranchesBegun'
  <2>1. /\ RunCheck({c}) /\ branch' = [branch EXCEPT ![r][c] = AwaitsAnswer(Running(c))]
        /\ UNCHANGED <<progress, type>>
    BY <1>3 DEF Execute
  <2>2. /\ Running(c) \in Op /\ phase'[Running(c)] # "unused"
        /\ \A o \in Op : phase[o] # "unused" => phase'[o] # "unused"
    BY <2>1, RunCheckFacts DEF KitIInv, SchedulerIInv
  <2>3. /\ AwaitsAnswer(Running(c)) \in Branch
        /\ AwaitsAnswer(Running(c)).at = "operation"
        /\ AwaitsAnswer(Running(c)).op = Running(c)
    BY <2>2, BranchForms DEF AwaitsAnswer
  <2>4. QED BY <2>1, <2>2, <2>3, OneBranchBegun
<1>4. ASSUME NEW r \in Request, NEW c \in Check, TakeAnswer(r, c) \/ TakeRun(r, c)
      PROVE  BranchesBegun'
  <2>1. PICK b \in Branch : b.at = "done" /\ branch' = [branch EXCEPT ![r][c] = b]
    BY <1>4, BranchReturns
  <2>2. UNCHANGED <<progress, type, phase>>
    BY <1>4 DEF TakeAnswer, TakeRun, schedulerVars, executorVars
  <2>3. QED BY <2>1, <2>2, OneBranchBegun
<1>5. ASSUME NEW r \in Request, Conclude(r) \/ Format(r) PROVE BranchesBegun'
  <2>1. UNCHANGED <<type, phase>> /\ progress'[r] # "checking"
    BY <1>5, KitTypes DEF Conclude, Format, schedulerVars, executorVars
  <2>2. ASSUME NEW s \in Request, NEW d \in Check PROVE BranchBegun(s, d)'
    <3>1. /\ s # r => progress'[s] = progress[s] /\ branch'[s] = branch[s]
          /\ branch'[s] = branch[s] \/ branch'[s][d].at = "none"
      BY <1>5, KitTypes DEF Conclude, Format, NoBranch
    <3>2. QED BY <2>1, <3>1 DEF BranchesBegun, BranchBegun, ChecksFor
  <2>3. QED BY <2>2 DEF BranchesBegun
<1>6. CASE UNCHANGED <<progress, type, branch>>
  <2>1. ASSUME NEW r \in Request, NEW c \in Check, branch[r][c].at = "operation"
        PROVE  phase'[branch[r][c].op] # "unused"
    BY <1>1, <2>1 DEF BranchesBegun, BranchBegun, KitIInv, BranchesWait, BranchWaits
  <2>2. QED BY <1>6, <2>1 DEF BranchesBegun, BranchBegun, ChecksFor
<1>7. QED
  BY <1>2, <1>3, <1>4, <1>5, <1>6
  DEF HealthKitNext, Start, Stop, BeginDrain, Close, RequestJob, SchedulerJob, Collect,
      AdapterAnswers, DeadlineTimer, IntervalTimer, CloseJob, RequestsSettled,
      DisposeAdapters, FinishClose, Disposed, kitVars, requestVars

\* An operation that was launched is owed its answer or has been answered.
LEMMA LaunchedIsOwed ==
  ASSUME KitIInv, NEW o \in Op, phase[o] # "unused"
  PROVE  Decided(o) \/ armed[o]
<1>1. Outstanding(o) \/ phase[o] = "settled"
  BY KitTypes DEF ExecutorTypeOK, Outstanding
<1>2. QED
  BY <1>1 DEF KitIInv, SchedulerIInv, ExecutorIInv, DeadlineGuardsWait, RunsAreKept

\* No request is ever stranded, whatever its adapters do: each branch can go on,
\* or waits for an operation that a job or its deadline will answer.
THEOREM NobodyStrandedTheorem == HealthKitSpec => []NobodyStranded
<1>1. HealthKitInit => BranchesBegun
  BY DEF HealthKitInit, BranchesBegun, BranchBegun, NoBranch
<1>2. KitIInv /\ BranchesBegun => NobodyStranded
  <2> SUFFICES ASSUME KitIInv, BranchesBegun, NEW r \in Request, progress[r] = "checking",
                      NEW c \in ChecksFor(type[r])
               PROVE  GoesOn(r, c)
    BY DEF NobodyStranded
  <2> DEFINE b == branch[r][c]
  <2>0. c \in Check
    BY DEF ChecksFor
  <2>1. BranchBegun(r, c) /\ BranchWaits(r, b) /\ b.at # "none"
    BY <2>0 DEF BranchesBegun, BranchBegun, KitIInv, BranchesWait
  <2>2. b.at \in {"lookup", "run", "operation", "done"}
    BY <2>0, <2>1, KitTypes DEF Branch
  <2>3. CASE b.at = "run"
    <3>1. b.op \in Op /\ run[b.op] # NoRun
      BY <2>1, <2>3 DEF BranchWaits
    <3>2. phase[b.op] # "unused"
      BY <3>1 DEF KitIInv, SchedulerIInv, RunsAreKept
    <3>3. QED
      BY <2>3, <3>1, <3>2, LaunchedIsOwed DEF GoesOn, CanTakeRun, Owed, Reacting
  <2>4. CASE b.at = "operation"
    <3>1. b.op \in Op /\ phase[b.op] # "unused"
      BY <2>1, <2>4 DEF BranchWaits, BranchBegun
    <3>2. unheard[b.op] = 0 \/ unheard[b.op] > 0
      BY <3>1, KitTypes DEF SchedulerTypeOK
    <3>3. QED
      BY <2>4, <3>1, <3>2, LaunchedIsOwed DEF GoesOn, CanTakeAnswer, Owed, Reacting
  <2>5. QED BY <2>2, <2>3, <2>4 DEF GoesOn
<1>3. QED BY <1>1, <1>2, BranchesBegunStep, KitInvariant, PTL DEF HealthKitSpec

-----------------------------------------------------------------------------
\* The kit as Lifecycle knows it.
Taken == {r \in Request : Accepted(r)}
Busy  == {c \in Check : inFlight[c] # NoOp}

\* Executions begin for checks that had none outstanding.
LEMMA RunCheckBusy ==
  ASSUME ExecutorIInv, NEW S \in SUBSET Check, RunCheck(S)
  PROVE  \E F \in SUBSET Check : F \cap Busy = {} /\ Busy' = Busy \cup F
<1> USE ExecutorAssumption
<1> DEFINE free == {d \in S : inFlight[d] = NoOp}
           f == [c \in free |-> Fresh(c)]
<1>1. Launch(f) /\ \A c \in S : inFlight[c] = NoOp => HasFresh(c)
  BY DEF RunCheck
<1>2. \A c \in free : Fresh(c) \in Op
  BY <1>1 DEF HasFresh, Fresh
<1>3. DOMAIN f = free /\ \A c \in free : f[c] \in Op
  BY <1>2
<1> HIDE DEF f
<1>4. inFlight' = [c \in Check |-> IF c \in free THEN f[c] ELSE inFlight[c]]
  BY <1>1, <1>3 DEF Launch
<1>5. free \in SUBSET Check /\ free \cap Busy = {} /\ Busy' = Busy \cup free
  BY <1>3, <1>4 DEF Busy
<1>6. QED BY <1>5

\* The end of an adapter call frees its check, which was busy.
LEMMA SettleBusy ==
  ASSUME ExecutorIInv, NEW o \in Op, NEW v \in Outcome, Settle(o, v)
  PROVE  CheckOf[o] \in Busy /\ Busy' = Busy \ {CheckOf[o]}
<1> USE ExecutorAssumption
<1>1. inFlight[CheckOf[o]] = o /\ inFlight \in [Check -> Op \cup {NoOp}]
  BY DEF Settle, Outstanding, ExecutorIInv, ExecutorTypeOK, BookkeepingExact
<1>2. inFlight' = [inFlight EXCEPT ![CheckOf[o]] = NoOp]
  BY DEF Settle
<1>3. QED BY <1>1, <1>2 DEF Busy

\* A request is taken when it is accepted, and no longer when it is answered.
LEMMA RequestsTaken ==
  ASSUME KitIInv, UNCHANGED Busy, NEW r \in Request,
         Conclude(r) \/ Format(r) \/ (\E t \in CheckType, a \in Api : Accept(r, t, a))
  PROVE  Users!Next \/ UNCHANGED <<Stage, Taken, Busy>>
<1>1. CASE \E t \in CheckType, a \in Api : Accept(r, t, a)
  <2>1. /\ stage = "open" /\ r \notin Taken /\ UNCHANGED stage
        /\ \E p \in {"checking", "formatting", "done"} : progress' = [progress EXCEPT ![r] = p]
    BY <1>1 DEF Accept, Taken, closeVars
  <2>2. Taken' = Taken \cup {r} \/ Taken' = Taken
    BY <2>1, KitTypes DEF Taken, Accepted
  <2>3. Stage = "open" /\ UNCHANGED Stage
    BY <2>1 DEF Stage
  <2>4. Taken' = Taken \cup {r} => Users!Accept(r)
    BY <2>1, <2>3 DEF Users!Accept, Taken, Busy
  <2>5. QED BY <2>2, <2>3, <2>4 DEF Users!Next
<1>2. CASE Conclude(r) \/ Format(r)
  <2>1. /\ r \in Taken /\ UNCHANGED Stage
        /\ \E p \in {"formatting", "done"} : progress' = [progress EXCEPT ![r] = p]
    BY <1>2 DEF Conclude, Format, BranchesDone, Taken, Accepted, Stage, closeVars
  <2>2. Taken' = Taken \ {r} \/ Taken' = Taken
    BY <2>1, KitTypes DEF Taken, Accepted
  <2>3. Taken' = Taken \ {r} => Users!Answer(r)
    BY <2>1 DEF Users!Answer, Taken, Busy
  <2>4. QED BY <2>1, <2>2, <2>3 DEF Users!Next
<1>3. QED BY <1>1, <1>2

\* The stages of close() in Lifecycle's terms.
LEMMA StagesPass ==
  ASSUME KitIInv, UNCHANGED Busy, Close \/ CloseJob
  PROVE  Users!Next \/ UNCHANGED <<Stage, Taken, Busy>>
<1>1. UNCHANGED Taken
  BY DEF Close, CloseJob, RequestsSettled, DisposeAdapters, FinishClose, requestVars, Taken,
         Accepted
<1>2. CASE Close
  <2>1. Stage = "open" /\ Stage' = "closing"
    BY <1>2 DEF Close, Stage
  <2>2. Users!Close
    BY <1>1, <2>1 DEF Users!Close, Taken, Busy
  <2>3. QED BY <2>2 DEF Users!Next
<1>3. CASE RequestsSettled
  BY <1>1, <1>3 DEF RequestsSettled, CanSettleRequests, Stage
<1>4. CASE DisposeAdapters
  <2>1. Stage = "closing" /\ Stage' = "disposing"
    BY <1>4 DEF DisposeAdapters, CanDispose, Stage
  <2>2. Taken = {}
    BY <1>4 DEF DisposeAdapters, CanDispose, KitIInv, StagesEnd, Taken
  <2>3. Busy = {}
    BY <1>4, KitTypes
    DEF DisposeAdapters, CanDispose, KitIInv, SchedulerIInv, ExecutorIInv, ExecutorTypeOK,
        BookkeepingExact, Busy
  <2>4. Users!Dispose
    BY <1>1, <2>1, <2>2, <2>3 DEF Users!Dispose, Taken, Busy
  <2>5. QED BY <2>4 DEF Users!Next
<1>5. CASE FinishClose
  <2>1. Stage = "disposing" /\ Stage' = "closed"
    BY <1>5 DEF FinishClose, CanFinish, Stage
  <2>2. Users!Finish
    BY <1>1, <2>1 DEF Users!Finish, Taken, Busy
  <2>3. QED BY <2>2 DEF Users!Next
<1>6. QED BY <1>2, <1>3, <1>4, <1>5 DEF CloseJob

\* Every step of the kit is a step of Lifecycle or none.
LEMMA LifecycleSimulation ==
  ASSUME KitIInv, HealthKitNext
  PROVE  Users!Next \/ UNCHANGED <<Stage, Taken, Busy>>
<1>0. ExecutorIInv
  BY DEF KitIInv, SchedulerIInv
<1>1. ASSUME NEW S \in SUBSET Check, RunCheck(S), UNCHANGED <<stage, progress>>,
             stage = "open" \/ \E r \in Request : Accepted(r)
      PROVE  Users!Next
  <2>1. PICK F \in SUBSET Check : F \cap Busy = {} /\ Busy' = Busy \cup F
    BY <1>0, <1>1, RunCheckBusy
  <2>2. UNCHANGED <<Stage, Taken>> /\ (Stage = "open" \/ Taken # {})
    BY <1>1 DEF Stage, Taken, Accepted
  <2>3. Users!Begin(F)
    BY <2>1, <2>2 DEF Users!Begin, Taken, Busy
  <2>4. QED BY <2>3 DEF Users!Next
<1>2. ASSUME NEW o \in Op, AdapterAnswers(o) PROVE Users!Next
  <2>1. CheckOf[o] \in Busy /\ Busy' = Busy \ {CheckOf[o]}
    BY <1>0, <1>2, SettleBusy DEF AdapterAnswers, AdapterSettles
  <2>2. UNCHANGED <<Stage, Taken>>
    BY <1>2 DEF AdapterAnswers, kitVars, requestVars, closeVars, Stage, Taken, Accepted
  <2>3. Users!End(CheckOf[o]) /\ CheckOf[o] \in Check
    BY <2>1, <2>2, ExecutorAssumption DEF Users!End, Taken, Busy
  <2>4. QED BY <2>3 DEF Users!Next
<1>3. ASSUME NEW o \in Op, CallAdapter(o) \/ Deadline(o) \/ Forget(o), UNCHANGED kitVars
      PROVE  UNCHANGED <<Stage, Taken, Busy>>
  BY <1>3
  DEF CallAdapter, Deadline, Forget, kitVars, requestVars, closeVars, Stage, Taken, Accepted, Busy
<1>4. CASE UNCHANGED executorVars /\ ~\E o \in Op : AdapterAnswers(o)
  <2>1. UNCHANGED Busy
    BY <1>4 DEF executorVars, Busy
  <2>2. CASE UNCHANGED <<stage, progress>>
    BY <2>1, <2>2 DEF Stage, Taken, Accepted
  <2>3. CASE Close \/ CloseJob
    BY <2>1, <2>3, StagesPass
  <2>4. CASE \E r \in Request : \/ Conclude(r) \/ Format(r)
                              \/ \E t \in CheckType, a \in Api : Accept(r, t, a)
    BY <2>1, <2>4, RequestsTaken
  <2>5. QED
    BY <1>4, <2>2, <2>3, <2>4
    DEF HealthKitNext, Start, Stop, BeginDrain, RequestJob, Execute, TakeAnswer, TakeRun,
        SchedulerJob, Collect, DeadlineTimer, IntervalTimer, Disposed, kitVars, requestVars,
        closeVars
<1>5. QED BY <1>1, <1>2, <1>3, <1>4, ExecutorUnderKit

\* The kit implements Lifecycle: requests are taken until close() and all of
\* them answered, no adapter is disposed while a call of any check is
\* outstanding, and nothing begins after that.
THEOREM KitImplementsLifecycle == HealthKitSpec => ImplementsLifecycle
<1>1. HealthKitInit => Users!Init
  BY DEF HealthKitInit, SchedulerInit, ExecutorInit, Users!Init, Stage, Accepted
<1>2. KitIInv /\ [HealthKitNext]_vars => [Users!Next]_<<Stage, Taken, Busy>>
  <2> SUFFICES ASSUME KitIInv, UNCHANGED vars PROVE UNCHANGED <<Stage, Taken, Busy>>
    BY LifecycleSimulation
  <2>1. QED
    BY DEF vars, schedulerVars, executorVars, kitVars, requestVars, closeVars, Stage, Taken,
           Accepted, Busy
<1>3. QED
  BY <1>1, <1>2, KitInvariant, PTL
  DEF HealthKitSpec, ImplementsLifecycle, Users!Spec, Users!lifecycleVars, Taken, Busy
=============================================================================
