--------------------------- MODULE DisposalProofs ---------------------------
(***************************************************************************)
(* What withDisposal guarantees for every set of calls and of hooks.       *)
(*                                                                         *)
(* CleanupIsLast and CleanupComplete are not inductive.  What carries them *)
(* is that the calls outstanding after dispose() are among those it        *)
(* awaits, that the hooks are untouched before the cleanup, and that each  *)
(* has been called once from then on.                                      *)
(***************************************************************************)
EXTENDS Disposal, TLAPS

\* After dispose() nothing is outstanding that it does not wait for, and after
\* its wait nothing is.
WaitsForAll ==
  /\ closing # "open" => Outstanding \subseteq awaited
  /\ closing \notin {"open", "waiting"} => Outstanding = {}

\* The hooks follow the phases of dispose().
HooksFollow ==
  /\ closing \in {"open", "waiting"} =>
       \A h \in Hook : hook[h] = "none" /\ attempts[h] = 0
  /\ closing \notin {"open", "waiting"} =>
       \A h \in Hook : hook[h] # "none" /\ attempts[h] = 1

\* The memoized promise tells how the hooks ended.
EndTellsHooks ==
  /\ closing \in Ended => \A h \in Hook : hook[h] \in {"ok", "failed"}
  /\ closing = "rejected" => \E h \in Hook : hook[h] = "failed"
  /\ closing = "resolved" => \A h \in Hook : hook[h] = "ok"

DisposalIInv ==
  /\ DisposalTypeOK
  /\ pending = Outstanding
  /\ WaitsForAll
  /\ HooksFollow
  /\ EndTellsHooks

LEMMA DisposalInitInv == DisposalInit => DisposalIInv
  BY DEF DisposalInit, DisposalIInv, DisposalTypeOK, Outstanding, WaitsForAll,
     HooksFollow, EndTellsHooks, Ended

LEMMA DisposalStepInv == DisposalIInv /\ [DisposalNext]_disposalVars => DisposalIInv'
<1> SUFFICES ASSUME DisposalIInv, [DisposalNext]_disposalVars PROVE DisposalIInv'
  OBVIOUS
<1>0. DisposalTypeOK /\ pending = Outstanding /\ WaitsForAll /\ HooksFollow /\ EndTellsHooks
  BY DEF DisposalIInv
<1>1. ASSUME NEW k \in Call, Accept(k) PROVE DisposalIInv'
  <2>1. Outstanding' = Outstanding \cup {k}
    BY <1>0, <1>1 DEF Accept, Outstanding, DisposalTypeOK
  <2>2. DisposalTypeOK' BY <1>0, <1>1 DEF Accept, DisposalTypeOK
  <2>3. QED
    BY <1>0, <1>1, <2>1, <2>2
    DEF Accept, DisposalIInv, WaitsForAll, HooksFollow, EndTellsHooks, Ended
<1>2. ASSUME NEW k \in Call, Refuse(k) PROVE DisposalIInv'
  <2>1. Outstanding' = Outstanding
    BY <1>0, <1>2 DEF Refuse, Outstanding, DisposalTypeOK
  <2>2. DisposalTypeOK' BY <1>0, <1>2 DEF Refuse, DisposalTypeOK
  <2>3. QED
    BY <1>0, <1>2, <2>1, <2>2
    DEF Refuse, DisposalIInv, WaitsForAll, HooksFollow, EndTellsHooks, Ended
<1>3. ASSUME NEW k \in Call, Invoke(k) PROVE DisposalIInv'
  <2>1. Outstanding' = Outstanding
    BY <1>0, <1>3 DEF Invoke, Outstanding, DisposalTypeOK
  <2>2. DisposalTypeOK' BY <1>0, <1>3 DEF Invoke, DisposalTypeOK
  <2>3. QED
    BY <1>0, <1>3, <2>1, <2>2
    DEF Invoke, DisposalIInv, WaitsForAll, HooksFollow, EndTellsHooks, Ended
<1>4. ASSUME NEW k \in Call, Settle(k) PROVE DisposalIInv'
  <2>1. Outstanding' = Outstanding \ {k}
    BY <1>0, <1>4 DEF Settle, Outstanding, DisposalTypeOK
  <2>2. DisposalTypeOK' BY <1>0, <1>4 DEF Settle, DisposalTypeOK
  <2>3. QED
    BY <1>0, <1>4, <2>1, <2>2
    DEF Settle, DisposalIInv, WaitsForAll, HooksFollow, EndTellsHooks, Ended
<1>5. ASSUME NEW k \in Call, Collect(k) PROVE DisposalIInv'
  <2>1. Outstanding' = Outstanding
    BY <1>0, <1>5 DEF Collect, Outstanding, DisposalTypeOK
  <2>2. DisposalTypeOK' BY <1>0, <1>5 DEF Collect, DisposalTypeOK
  <2>3. QED
    BY <1>0, <1>5, <2>1, <2>2
    DEF Collect, DisposalIInv, WaitsForAll, HooksFollow, EndTellsHooks, Ended
<1>6. CASE Dispose
  <2>1. Outstanding' = Outstanding BY <1>6 DEF Dispose, Outstanding
  <2>2. QED
    BY <1>0, <1>6, <2>1
    DEF Dispose, DisposalIInv, DisposalTypeOK, WaitsForAll, HooksFollow, EndTellsHooks, Ended
<1>7. CASE CleanUp
  <2>1. Outstanding' = Outstanding /\ Outstanding = {}
    BY <1>0, <1>7 DEF CleanUp, Outstanding, WaitsForAll
  <2>2. DisposalTypeOK' BY <1>0, <1>7 DEF CleanUp, DisposalTypeOK
  <2>3. HooksFollow' BY <1>0, <1>7 DEF CleanUp, DisposalTypeOK, HooksFollow
  <2>4. QED
    BY <1>0, <1>7, <2>1, <2>2, <2>3
    DEF CleanUp, DisposalIInv, WaitsForAll, EndTellsHooks, Ended
<1>8. CASE Finish
  <2>1. Outstanding' = Outstanding BY <1>8 DEF Finish, Outstanding
  <2>2. QED
    BY <1>0, <1>8, <2>1
    DEF Finish, DisposalIInv, DisposalTypeOK, WaitsForAll, HooksFollow, EndTellsHooks, Ended
<1>9. ASSUME NEW h \in Hook, HookSettles(h) PROVE DisposalIInv'
  <2>1. Outstanding' = Outstanding BY <1>9 DEF HookSettles, Outstanding
  <2>2. closing = "cleaning"
    BY <1>0, <1>9 DEF HookSettles, DisposalTypeOK, HooksFollow, EndTellsHooks, Ended
  <2>3. DisposalTypeOK' BY <1>0, <1>9 DEF HookSettles, DisposalTypeOK
  <2>4. HooksFollow' BY <1>0, <1>9, <2>2 DEF HookSettles, DisposalTypeOK, HooksFollow
  <2>5. QED
    BY <1>0, <1>9, <2>1, <2>2, <2>3, <2>4
    DEF HookSettles, DisposalIInv, WaitsForAll, EndTellsHooks, Ended
<1>10. CASE UNCHANGED disposalVars
  BY <1>0, <1>10
  DEF disposalVars, DisposalIInv, DisposalTypeOK, Outstanding, WaitsForAll, HooksFollow,
      EndTellsHooks, Ended
<1>11. QED
  BY <1>1, <1>2, <1>3, <1>4, <1>5, <1>6, <1>7, <1>8, <1>9, <1>10 DEF DisposalNext

\* The inductive invariant of withDisposal.
THEOREM DisposalInvariant == DisposalSpec => []DisposalIInv
  BY DisposalInitInv, DisposalStepInv, PTL DEF DisposalSpec

\* The wrapper's state keeps its types.
THEOREM DisposalTypeCorrect == DisposalSpec => []DisposalTypeOK
<1>1. DisposalIInv => DisposalTypeOK BY DEF DisposalIInv
<1>2. QED BY <1>1, DisposalInvariant, PTL

\* No resource is released under a direct call of check().
THEOREM CleanupIsLastTheorem == DisposalSpec => []CleanupIsLast
<1>1. DisposalIInv => CleanupIsLast
  BY DEF DisposalIInv, CleanupIsLast, WaitsForAll, HooksFollow
<1>2. QED BY <1>1, DisposalInvariant, PTL

\* Every hook is attempted once, and dispose() tells whether one failed.
THEOREM CleanupCompleteTheorem == DisposalSpec => []CleanupComplete
<1>1. DisposalIInv => CleanupComplete
  <2> SUFFICES ASSUME DisposalIInv PROVE CleanupComplete OBVIOUS
  <2>0. DisposalTypeOK /\ HooksFollow /\ EndTellsHooks BY DEF DisposalIInv
  <2>1. \A h \in Hook : attempts[h] <= 1
    BY <2>0 DEF HooksFollow
  <2>2. closing \in Ended => \A h \in Hook : attempts[h] = 1 /\ hook[h] \in {"ok", "failed"}
    BY <2>0 DEF HooksFollow, EndTellsHooks, Ended
  <2>3. closing = "rejected" <=> closing \in Ended /\ \E h \in Hook : hook[h] = "failed"
    BY <2>0 DEF EndTellsHooks, Ended
  <2>4. QED BY <2>1, <2>2, <2>3 DEF CleanupComplete
<1>2. QED BY <1>1, DisposalInvariant, PTL

\* A step of the wrapper is a step of Lifecycle, or changes nothing Lifecycle
\* speaks of.
LEMMA DisposalSimulation ==
  DisposalIInv /\ [DisposalNext]_disposalVars => [Users!Next]_<<Stage, Outstanding, {}>>
<1> SUFFICES ASSUME DisposalIInv, [DisposalNext]_disposalVars
             PROVE  Users!Next \/ (Stage' = Stage /\ Outstanding' = Outstanding)
  OBVIOUS
<1>0. DisposalTypeOK /\ WaitsForAll
  BY DEF DisposalIInv
<1>1. ASSUME NEW k \in Call, Accept(k) PROVE Users!Next
  <2>1. Outstanding' = Outstanding \cup {k} /\ k \notin Outstanding
    BY <1>0, <1>1 DEF Accept, Outstanding, DisposalTypeOK
  <2>2. Stage = "open" /\ Stage' = "open"
    BY <1>1 DEF Accept, Stage, Ended
  <2>3. Users!Accept(k) BY <2>1, <2>2 DEF Users!Accept
  <2>4. QED BY <2>3 DEF Users!Next
<1>2. ASSUME NEW k \in Call, Refuse(k) \/ Invoke(k) \/ Collect(k)
      PROVE  Stage' = Stage /\ Outstanding' = Outstanding
  <2>1. Outstanding' = Outstanding
    BY <1>0, <1>2 DEF Refuse, Invoke, Collect, Outstanding, DisposalTypeOK
  <2>2. QED BY <1>2, <2>1 DEF Refuse, Invoke, Collect, Stage
<1>3. ASSUME NEW k \in Call, Settle(k) PROVE Users!Next
  <2>1. Outstanding' = Outstanding \ {k} /\ k \in Outstanding
    BY <1>0, <1>3 DEF Settle, Outstanding, DisposalTypeOK
  <2>2. Stage' = Stage BY <1>3 DEF Settle, Stage
  <2>3. Users!Answer(k) BY <2>1, <2>2 DEF Users!Answer
  <2>4. QED BY <2>3 DEF Users!Next
<1>4. CASE Dispose
  <2>1. Users!Close
    BY <1>4 DEF Dispose, Users!Close, Stage, Outstanding, Ended
  <2>2. QED BY <2>1 DEF Users!Next
<1>5. CASE CleanUp
  <2>1. Outstanding = {} /\ Outstanding' = {}
    BY <1>0, <1>5 DEF CleanUp, Outstanding, WaitsForAll
  <2>2. Users!Dispose
    BY <1>5, <2>1 DEF CleanUp, Users!Dispose, Stage, Ended
  <2>3. QED BY <2>2 DEF Users!Next
<1>6. CASE Finish
  <2>1. Stage = "disposing" /\ Stage' = "closed" /\ Outstanding' = Outstanding
    BY <1>6 DEF Finish, Stage, Ended, Outstanding
  <2>2. Users!Finish BY <2>1 DEF Users!Finish
  <2>3. QED BY <2>2 DEF Users!Next
<1>7. ASSUME NEW h \in Hook, HookSettles(h)
      PROVE  Stage' = Stage /\ Outstanding' = Outstanding
  BY <1>7 DEF HookSettles, Stage, Outstanding
<1>8. CASE UNCHANGED disposalVars
  BY <1>8 DEF disposalVars, Stage, Outstanding
<1>9. QED
  BY <1>1, <1>2, <1>3, <1>4, <1>5, <1>6, <1>7, <1>8 DEF DisposalNext

\* withDisposal implements the lifecycle that close() promises for the kit.
THEOREM DisposalIsALifecycle == DisposalSpec => DisposalImplementsLifecycle
<1>1. DisposalInit => Users!Init
  BY DEF DisposalInit, Users!Init, Stage, Outstanding, Ended
<1>2. QED
  BY <1>1, DisposalSimulation, DisposalInvariant, PTL
  DEF DisposalSpec, DisposalImplementsLifecycle, Users!Spec, Users!lifecycleVars
=============================================================================
