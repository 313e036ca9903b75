------------------------------ MODULE Disposal ------------------------------
(***************************************************************************)
(* withDisposal (tools/shared/src/index.ts): the wrapper that gives an     *)
(* adapter with owned resources its dispose().                             *)
(*                                                                         *)
(* The wrapper counts every direct call of check(), also those that no kit *)
(* knows of.  A call is a job that invokes the adapter's own check, and    *)
(* dispose() waits for the calls it finds pending.                         *)
(***************************************************************************)
EXTENDS Naturals

CONSTANTS
  Call,       \* identities of the calls of check(); used again when collected
  Hook        \* the distinct cleanup functions: the adapter's own dispose
              \* ("original"), the wrapper's argument ("cleanup"), or both

ASSUME DisposalAssumption == Hook # {} /\ Hook \subseteq {"original", "cleanup"}

VARIABLES
  call,       \* call[k]: progress of the call's promise
  pending,    \* the wrapper's set
  closing,    \* the memoized promise of dispose(), "open" while undefined
  awaited,    \* the calls Promise.allSettled was given
  hook,       \* hook[h]: progress of a cleanup function
  attempts    \* history: how often a cleanup function was called

disposalVars == <<call, pending, closing, awaited, hook, attempts>>

Outstanding == {k \in Call : call[k] \in {"queued", "running"}}
Ended       == {"resolved", "rejected"}

DisposalTypeOK ==
  /\ call \in [Call -> {"idle", "queued", "running", "settled", "refused"}]
  /\ pending \subseteq Call
  /\ closing \in {"open", "waiting", "cleaning"} \cup Ended
  /\ awaited \subseteq Call
  /\ hook \in [Hook -> {"none", "called", "ok", "failed"}]
  /\ attempts \in [Hook -> Nat]

DisposalInit ==
  /\ call = [k \in Call |-> "idle"]
  /\ pending = {}
  /\ closing = "open"
  /\ awaited = {}
  /\ hook = [h \in Hook |-> "none"]
  /\ attempts = [h \in Hook |-> 0]

-----------------------------------------------------------------------------
\* Slips: an operator X_Why is the definition X with the mistake Why; no
\* specification uses it.
Accept_AfterDispose(k) ==
  /\ call[k] = "idle"
  /\ call' = [call EXCEPT ![k] = "queued"]
  /\ pending' = pending \cup {k}
  /\ UNCHANGED <<closing, awaited, hook, attempts>>

\* check() before dispose(): the call is queued and pending.
Accept(k) ==
  /\ closing = "open"
  /\ call[k] = "idle"
  /\ call' = [call EXCEPT ![k] = "queued"]
  /\ pending' = pending \cup {k}
  /\ UNCHANGED <<closing, awaited, hook, attempts>>

\* check() after dispose(): "Adapter is disposed", at once.
Refuse(k) ==
  /\ closing # "open"
  /\ call[k] = "idle"
  /\ call' = [call EXCEPT ![k] = "refused"]
  /\ UNCHANGED <<pending, closing, awaited, hook, attempts>>

\* The queued job invokes the adapter's own check.
Invoke(k) ==
  /\ call[k] = "queued"
  /\ call' = [call EXCEPT ![k] = "running"]
  /\ UNCHANGED <<pending, closing, awaited, hook, attempts>>

\* The adapter's check settles, either way.
Settle(k) ==
  /\ call[k] = "running"
  /\ call' = [call EXCEPT ![k] = "settled"]
  /\ pending' = pending \ {k}
  /\ UNCHANGED <<closing, awaited, hook, attempts>>

\* The caller has its answer and drops the promise.
Collect(k) ==
  /\ call[k] \in {"settled", "refused"}
  /\ call' = [call EXCEPT ![k] = "idle"]
  /\ UNCHANGED <<pending, closing, awaited, hook, attempts>>

Dispose_WaitsForNone ==
  /\ closing = "open"
  /\ closing' = "waiting"
  /\ awaited' = {}
  /\ UNCHANGED <<call, pending, hook, attempts>>

\* The first dispose(); later calls return the same promise.
Dispose ==
  /\ closing = "open"
  /\ closing' = "waiting"
  /\ awaited' = pending
  /\ UNCHANGED <<call, pending, hook, attempts>>

\* The calls dispose() found pending have settled: every hook is called.
CleanUp ==
  /\ closing = "waiting"
  /\ awaited \cap Outstanding = {}
  /\ closing' = "cleaning"
  /\ hook' = [h \in Hook |-> "called"]
  /\ attempts' = [h \in Hook |-> attempts[h] + 1]
  /\ UNCHANGED <<call, pending, awaited>>

HookSettles(h) ==
  /\ hook[h] = "called"
  /\ \E ending \in {"ok", "failed"} : hook' = [hook EXCEPT ![h] = ending]
  /\ UNCHANGED <<call, pending, closing, awaited, attempts>>

Finish_AtFirstFailure ==
  /\ closing = "cleaning"
  /\ \/ /\ \E h \in Hook : hook[h] = "failed"
        /\ closing' = "rejected"
     \/ /\ \A h \in Hook : hook[h] = "ok"
        /\ closing' = "resolved"
  /\ UNCHANGED <<call, pending, awaited, hook, attempts>>
Finish_OnSuccessOnly ==
  /\ closing = "cleaning"
  /\ \A h \in Hook : hook[h] = "ok"
  /\ closing' = "resolved"
  /\ UNCHANGED <<call, pending, awaited, hook, attempts>>

\* All hooks have settled: dispose() resolves, or rejects with their errors.
Finish ==
  /\ closing = "cleaning"
  /\ \A h \in Hook : hook[h] # "called"
  /\ closing' = IF \E h \in Hook : hook[h] = "failed" THEN "rejected" ELSE "resolved"
  /\ UNCHANGED <<call, pending, awaited, hook, attempts>>

DisposalNext ==
  \/ \E k \in Call : Accept(k) \/ Refuse(k) \/ Invoke(k) \/ Settle(k) \/ Collect(k)
  \/ Dispose \/ CleanUp \/ Finish
  \/ \E h \in Hook : HookSettles(h)

DisposalSpec == DisposalInit /\ [][DisposalNext]_disposalVars

\* Jobs run, and the adapter's check and its hooks settle in the end.
DisposalFairness ==
  /\ \A k \in Call : WF_disposalVars(Invoke(k)) /\ WF_disposalVars(Settle(k))
  /\ WF_disposalVars(CleanUp) /\ WF_disposalVars(Finish)
  /\ \A h \in Hook : WF_disposalVars(HookSettles(h))

DisposalFairSpec == DisposalSpec /\ DisposalFairness
-----------------------------------------------------------------------------
\* No cleanup function runs under a call: resources are released only when
\* every accepted call has settled, and no call is accepted after that
\* (tools/shared/README.md, "Disposal waits for active direct checks").
CleanupIsLast == (\E h \in Hook : hook[h] # "none") => Outstanding = {}

\* A cleanup function is called at most once, however often dispose() is
\* called; dispose() ends only when each of them has settled, one failure does
\* not skip another, and it rejects if and only if one failed.
CleanupComplete ==
  /\ \A h \in Hook : attempts[h] <= 1
  /\ closing \in Ended => \A h \in Hook : attempts[h] = 1 /\ hook[h] \in {"ok", "failed"}
  /\ closing = "rejected" <=> closing \in Ended /\ \E h \in Hook : hook[h] = "failed"

\* dispose() ends once the calls and the hooks settle, whatever callers do
\* meanwhile.
DisposeEnds == closing = "waiting" ~> closing \in Ended

\* The wrapper gives one adapter the lifecycle the kit gives all of them.
Stage ==
  IF closing = "waiting" THEN "closing"
  ELSE IF closing = "cleaning" THEN "disposing"
  ELSE IF closing \in Ended THEN "closed" ELSE "open"

Users == INSTANCE Lifecycle WITH
  Check <- {}, Request <- Call, stage <- Stage, open <- Outstanding, busy <- {}

\* Callers see an adapter that stops at once, answers what it accepted, and is
\* released last.
DisposalImplementsLifecycle == Users!Spec
=============================================================================
