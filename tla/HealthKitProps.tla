--------------------------- MODULE HealthKitProps ---------------------------
(* The properties of HealthKit. *)
EXTENDS HealthKit

\* dispose() of every distinct adapter is called exactly once by close(), also
\* when another one fails or two checks share it, and close() reports a failure
\* if and only if one of them failed.
DisposedExactlyOnce ==
  /\ \A a \in Adapter : disposals[a] <= 1
  /\ stage \in {"closed", "failed"} => \A a \in Adapter : disposals[a] = 1
  /\ stage = "closed" => \A a \in Adapter : disposal[a] = "ok"
  /\ stage = "failed" => \E a \in Adapter : disposal[a] = "failed"

\* A readiness request that ends after beginDrain() ends with a failure,
\* whenever it began and whatever its checks found ("A request that began before
\* drain must not return a healthy result afterward").
DrainedReadinessFails ==
  [][\A r \in Request :
       progress'[r] = "done" /\ progress[r] # "done" /\ type'[r] = "readiness" /\ draining
         => answer'[r] = "fail"]_vars

\* A request is never given a success that a scheduled run of an earlier
\* lifecycle computed, whether it waited for that run or found it in the cache.
NoSuccessFromEarlierLifecycle ==
  [][\A r \in Request, c \in Check :
       LET b == branch[r][c]
           later == branch'[r][c]
       IN
       /\ b.at = "run" /\ later.at = "done" /\ later.value \in Outcome
            => runIn[b.op] >= acceptedIn[r]
       /\ b.at = "none" /\ later.at = "done" /\ later.value \in Outcome
            => runIn[cache[c]] = acceptedIn'[r]]_vars

\* Every accepted request is answered, although adapters may hang for ever, the
\* schedule may be stopped under it and close() may wait for it.
EveryRequestAnswered == \A r \in Request : Accepted(r) ~> progress[r] = "done"

\* close() ends if the adapters settle.
CloseEnds ==
  KitAdapterFairness => (stage = "requests" ~> stage \in {"closed", "failed"})

\* The lifecycle as its users know it.
Stage ==
  IF stage \in {"requests", "settling"} THEN "closing"
  ELSE IF stage = "failed" THEN "closed" ELSE stage

Users == INSTANCE Lifecycle WITH
  stage <- Stage,
  open <- {r \in Request : Accepted(r)},
  busy <- {c \in Check : inFlight[c] # NoOp}

\* The kit keeps the promise Lifecycle states.
ImplementsLifecycle == Users!Spec
=============================================================================
