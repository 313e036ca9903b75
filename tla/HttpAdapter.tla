---------------------------- MODULE HttpAdapter ----------------------------
(***************************************************************************)
(* httpAdapter (packages/http/src/http.ts) under the executor.  A check    *)
(* races four parties: the server, the timer of the adapter, the signal of *)
(* the kit and the metadata hook, which may read the body.                 *)
(*                                                                         *)
(* Checks outside HttpCheck have adapters of which nothing is known.       *)
(*                                                                         *)
(* A rejected fetch is caught, cleaned up after and reported in one run of *)
(* the job queue: no timer fires while the finally block is due.           *)
(***************************************************************************)
EXTENDS Executor

CONSTANT HttpCheck  \* the checks with an httpAdapter

ASSUME HttpAssumption == HttpCheck \subseteq Check /\ {"ok", "fail"} \subseteq Outcome

VARIABLES
  at,         \* at[o]: where the adapter's check is
  timer,      \* timer[o]: the timer of the adapter is set
  own,        \* own[o]: the adapter's own controller has aborted
  body        \* body[o]: the body of the response; "gone" once it is consumed,
              \* cancelled or errored, and no longer holds its connection

httpOwn  == <<at, timer, own, body>>
httpVars == <<executorVars, httpOwn>>

HttpOp == {o \in Op : CheckOf[o] \in HttpCheck}

HttpTypeOK ==
  /\ at \in [Op -> {"idle", "fetching", "hook", "passed", "failing"}]
  /\ timer \in [Op -> BOOLEAN]
  /\ own \in [Op -> BOOLEAN]
  /\ body \in [Op -> {"none", "open", "locked", "cancelling", "gone"}]

HttpInit ==
  /\ ExecutorInit
  /\ at = [o \in Op |-> "idle"]
  /\ timer = [o \in Op |-> FALSE]
  /\ own = [o \in Op |-> FALSE]
  /\ body = [o \in Op |-> "none"]

\* The try block is over and the finally block has not run.
Finalizing(o) == at[o] \in {"passed", "failing"} /\ body[o] # "cancelling"

\* The check settles with what its try block came to.
EndHttp(o) ==
  /\ Settle(o, IF at[o] = "passed" THEN "ok" ELSE "fail")
  /\ at' = [at EXCEPT ![o] = "idle"]

\* An aborted signal errors the body it belongs to, also under a reader.
Aborted(b) == IF b \in {"open", "locked"} THEN "gone" ELSE b

-----------------------------------------------------------------------------
\* Slips (see Executor).
SignalFires_FetchUnaware(o) ==
  /\ UNCHANGED at
  /\ body' = [body EXCEPT ![o] = Aborted(@)]

ReleasedBody_WithoutAbort(o) == IF body[o] = "open" THEN "cancelling" ELSE body[o]

-----------------------------------------------------------------------------
\* check(): the timer is set and the request is made.
Call(o) ==
  /\ o \in HttpOp
  /\ CallAdapter(o)
  /\ at' = [at EXCEPT ![o] = "fetching"]
  /\ timer' = [timer EXCEPT ![o] = TRUE]
  /\ UNCHANGED <<own, body>>

\* The response is there.  An unexpected status fails the check; otherwise the
\* hook is called, if there is one.  It may lock the body, and it returns,
\* throws, or gives a promise.
Respond(o) ==
  /\ at[o] = "fetching"
  /\ \E next \in {"passed", "failing", "hook"}, left \in {"none", "open", "locked"} :
       /\ at' = [at EXCEPT ![o] = next]
       /\ body' = [body EXCEPT ![o] = left]
  /\ UNCHANGED <<executorVars, timer, own>>

\* The request fails on the network.
FetchFails(o) ==
  /\ at[o] = "fetching"
  /\ at' = [at EXCEPT ![o] = "failing"]
  /\ UNCHANGED <<executorVars, timer, own, body>>

\* The promise of the hook settles; it may have locked or consumed the body.
HookSettles(o) ==
  /\ at[o] = "hook"
  /\ \E next \in {"passed", "failing"} : at' = [at EXCEPT ![o] = next]
  /\ \E left \in {body[o], "locked", "gone"} :
       /\ body[o] \in {"none", "gone"} => left = body[o]
       /\ body' = [body EXCEPT ![o] = left]
  /\ UNCHANGED <<executorVars, timer, own>>

\* One of the two signals of the request fires: a pending fetch rejects, a
\* response loses its body.  The hook is not interrupted.
SignalFires(o) ==
  /\ at' = [at EXCEPT ![o] = IF @ = "fetching" THEN "failing" ELSE @]
  /\ body' = [body EXCEPT ![o] = Aborted(@)]

TimerFires(o) ==
  /\ timer[o] /\ ~Finalizing(o)
  /\ SignalFires(o)
  /\ timer' = [timer EXCEPT ![o] = FALSE]
  /\ own' = [own EXCEPT ![o] = TRUE]
  /\ UNCHANGED executorVars

KitDeadline(o) ==
  /\ Deadline(o) /\ ~Finalizing(o)
  /\ SignalFires(o)
  /\ UNCHANGED <<timer, own>>

\* What aborting the request leaves of the body: one that nobody has locked is
\* cancelled, and the check waits for that.
ReleasedBody(o) == IF body[o] = "open" THEN "cancelling" ELSE Aborted(body[o])

\* The finally block.
Finalize(o) ==
  /\ Finalizing(o)
  /\ timer' = [timer EXCEPT ![o] = FALSE]
  /\ own' = [own EXCEPT ![o] = TRUE]
  /\ body' = [body EXCEPT ![o] = ReleasedBody(o)]
  /\ IF body'[o] = "cancelling" THEN UNCHANGED <<executorVars, at>> ELSE EndHttp(o)

\* cancel() settles, either way.
Cancelled(o) ==
  /\ body[o] = "cancelling"
  /\ body' = [body EXCEPT ![o] = "gone"]
  /\ EndHttp(o)
  /\ UNCHANGED <<timer, own>>

\* The identity of a settled operation may be used again (see Executor).
ForgetHttp(o) ==
  /\ Forget(o)
  /\ own' = [own EXCEPT ![o] = FALSE]
  /\ body' = [body EXCEPT ![o] = "none"]
  /\ UNCHANGED <<at, timer>>

OtherAdapter(o) ==
  /\ o \notin HttpOp
  /\ CallAdapter(o) \/ \E v \in Outcome : Settle(o, v)
  /\ UNCHANGED httpOwn

HttpNext ==
  \/ \E S \in SUBSET Check : \E f \in [S -> Op] : Launch(f) /\ UNCHANGED httpOwn
  \/ \E o \in Op :
       \/ OtherAdapter(o) \/ KitDeadline(o) \/ ForgetHttp(o)
       \/ Call(o) \/ Respond(o) \/ FetchFails(o) \/ HookSettles(o)
       \/ TimerFires(o) \/ Finalize(o) \/ Cancelled(o)

HttpSpec == HttpInit /\ [][HttpNext]_httpVars

\* Jobs and timers run, a hook settles and so does cancel().  The server may
\* never answer, and nothing makes another adapter settle.
HttpFairness ==
  \A o \in Op :
    /\ WF_httpVars(Call(o)) /\ WF_httpVars(Finalize(o))
    /\ WF_httpVars(CallAdapter(o) /\ OtherAdapter(o))
    /\ WF_httpVars(KitDeadline(o)) /\ WF_httpVars(TimerFires(o))
    /\ WF_httpVars(HookSettles(o)) /\ WF_httpVars(Cancelled(o))

HttpFairSpec == HttpSpec /\ HttpFairness
-----------------------------------------------------------------------------
\* A check that has settled has no timer set and no body that holds its
\* connection, whichever of response, timer, kit and hook came first and also
\* when a hook has failed with the body locked (http.ts, "Abort also releases
\* bodies still locked by a metadata reader").
HttpReleasesAll ==
  \A o \in HttpOp : ~Outstanding(o) => ~timer[o] /\ body[o] \in {"none", "gone"}

\* A server that never answers does not keep a check in flight: its slot is
\* free again although the kit's deadline itself frees none.
HttpCheckEnds == \A o \in HttpOp : phase[o] = "queued" ~> ~Outstanding(o)
=============================================================================
