-------------------------- MODULE KafkaMongoProofs --------------------------
(***************************************************************************)
(* The two adapters with a protocol of their own for what they leave open: *)
(* the KafkaJS adapter, which retains the admins it could not disconnect,  *)
(* and the MongoDB adapter, which can be reset.                            *)
(*                                                                         *)
(* The KafkaJS adapter retains at most one admin, for any number of calls. *)
(* The bound rests on three facts that each step keeps together: the set   *)
(* admins is exactly what is connected, a check imports only when it is    *)
(* empty, and there is one check at a time to add to it.  That disposal    *)
(* tells what is left needs the chain besides: once the hook runs, no call *)
(* is in it.                                                               *)
(*                                                                         *)
(* The MongoDB adapter loses no open client, for any number of calls and   *)
(* of clients, as long as no check has started an attempt under a reset    *)
(* (crossed).  Till then there is only one connection attempt that has not *)
(* ended, it is the one the adapter's promise belongs to, and it connects  *)
(* the adapter's client (OneAttempt); a reset waits for that attempt before*)
(* it closes anything (ResetWaits).  A check that goes on under a reset    *)
(* which close() began before the check had its turn breaks both, and      *)
(* MCMongoCrossed shows a client lost in that way.                         *)
(*                                                                         *)
(* Of both it is proved besides that no check waits in vain: InChain for   *)
(* the KafkaJS adapter, NobodyWaitsInVain for the MongoDB adapter.         *)
(***************************************************************************)
EXTENDS KafkaAdmins, MongoReset, DisposalProofs, FiniteSetTheorems

\* What is connected is known.
SetIsExact == opened = admins

\* The chain holds each running call once, and the head of it alone takes steps.
ChainIsExact ==
  /\ queue \in Seq(Call)
  /\ \A i \in 1 .. Len(queue) : call[queue[i]] = "running"
  /\ \A i, j \in 1 .. Len(queue) : queue[i] = queue[j] => i = j
  /\ step # "idle" => queue # <<>>

\* The set is empty when an admin is about to be opened, else it has at most one.
Retained ==
  /\ \E a \in Admin \cup {NoAdmin} : admins \subseteq {a}
  /\ step = "importing" => admins = {}

\* Once its one hook has settled the disposal knows what is left.
HookTells ==
  \A h \in Hook : /\ hook[h] = "ok" => opened = {}
                  /\ hook[h] = "failed" => opened # {}

KafkaIInv == SetIsExact /\ ChainIsExact /\ Retained /\ HookTells

LEMMA KafkaInitInv == KafkaInit => KafkaIInv
  BY DEF KafkaInit, DisposalInit, KafkaIInv, SetIsExact, ChainIsExact, Retained, HookTells

-----------------------------------------------------------------------------
\* A check in the chain is running, so no hook has been called.
LEMMA ChainKeepsHooks ==
  ASSUME KafkaIInv, DisposalIInv, queue # <<>>
  PROVE  /\ Len(queue) \in Nat \ {0} /\ Head(queue) = queue[1] /\ Head(queue) \in Call
         /\ call[Head(queue)] = "running"
         /\ \A h \in Hook : hook[h] = "none"
<1>1. /\ Len(queue) \in Nat \ {0} /\ Head(queue) = queue[1] /\ Head(queue) \in Call
      /\ call[Head(queue)] = "running"
  BY DEF KafkaIInv, ChainIsExact
<1>2. Outstanding # {}
  BY <1>1 DEF Outstanding
<1>3. QED BY <1>1, <1>2 DEF DisposalIInv, DisposalTypeOK, WaitsForAll, HooksFollow

\* Every step is a step of the wrapper, or none.
LEMMA KafkaSimulation ==
  KafkaIInv /\ DisposalIInv /\ [KafkaNext]_kafkaVars => [DisposalNext]_disposalVars
<1> SUFFICES ASSUME KafkaIInv, DisposalIInv, [KafkaNext]_kafkaVars
             PROVE  [DisposalNext]_disposalVars
  OBVIOUS
<1> USE DEF DisposalNext
<1>1. ASSUME NEW k \in Call, (Accept(k) \/ Refuse(k) \/ Collect(k)) \/ Join(k)
      PROVE  DisposalNext
  BY <1>1 DEF Join
<1>2. ASSUME RunCheck \/ Probe PROVE UNCHANGED disposalVars
  BY <1>2 DEF RunCheck, Probe
<1>3. ASSUME Cleanup \/ OpenAdmin \/ Release PROVE [DisposalNext]_disposalVars
  <2>1. queue # <<>>
    BY <1>3 DEF Cleanup, OpenAdmin, Release, KafkaIInv, ChainIsExact
  <2>2. Head(queue) \in Call
    BY <2>1, ChainKeepsHooks
  <2>3. UNCHANGED disposalVars \/ Settle(Head(queue))
    BY <1>3 DEF Cleanup, OpenAdmin, Release, Returns
  <2>4. QED BY <2>2, <2>3
<1>4. ASSUME Dispose \/ CleanUp \/ Finish PROVE DisposalNext
  BY <1>4
<1>5. ASSUME NEW h \in Hook, CleanupAdmins(h) PROVE DisposalNext
  BY <1>5 DEF CleanupAdmins
<1>6. CASE UNCHANGED kafkaVars
  BY <1>6 DEF kafkaVars
<1>7. QED BY <1>1, <1>2, <1>3, <1>4, <1>5, <1>6 DEF KafkaNext

-----------------------------------------------------------------------------
\* The check at the head of the chain returns.
LEMMA ReturnsInv ==
  ASSUME KafkaIInv, DisposalIInv, queue # <<>>, Returns
  PROVE  ChainIsExact' /\ HookTells'
<1>1. /\ queue \in Seq(Call) /\ Len(queue) \in Nat \ {0} /\ Head(queue) = queue[1]
      /\ \A i \in 1 .. Len(queue) : call[queue[i]] = "running"
      /\ \A i, j \in 1 .. Len(queue) : queue[i] = queue[j] => i = j
  BY DEF KafkaIInv, ChainIsExact
<1>2. queue' = Tail(queue) /\ step' = "idle" /\ hook' = hook
      /\ call' = [call EXCEPT ![queue[1]] = "settled"]
  BY <1>1 DEF Returns, Settle
<1>3. /\ queue' \in Seq(Call) /\ Len(queue') = Len(queue) - 1
      /\ \A i \in 1 .. Len(queue') : queue'[i] = queue[i + 1]
  BY <1>1, <1>2
<1>4. \A i \in 1 .. Len(queue') : call'[queue'[i]] = "running"
  <2> TAKE i \in 1 .. Len(queue')
  <2>1. i + 1 \in 1 .. Len(queue) /\ i + 1 # 1 /\ 1 \in 1 .. Len(queue)
    BY <1>1, <1>3
  <2>2. queue'[i] = queue[i + 1] /\ queue[i + 1] \in Call /\ queue[i + 1] # queue[1]
        /\ call[queue[i + 1]] = "running"
    BY <1>1, <1>3, <2>1
  <2>3. QED BY <1>2, <2>2 DEF DisposalIInv, DisposalTypeOK
<1>5. \A i, j \in 1 .. Len(queue') : queue'[i] = queue'[j] => i = j
  <2> SUFFICES ASSUME NEW i \in 1 .. Len(queue'), NEW j \in 1 .. Len(queue'),
                      queue'[i] = queue'[j]
               PROVE  i = j
    OBVIOUS
  <2>1. i + 1 \in 1 .. Len(queue) /\ j + 1 \in 1 .. Len(queue) /\ queue[i + 1] = queue[j + 1]
    BY <1>1, <1>3
  <2>2. i + 1 = j + 1
    BY <1>1, <2>1
  <2>3. QED BY <2>2
<1>6. QED
  BY <1>2, <1>3, <1>4, <1>5, ChainKeepsHooks DEF ChainIsExact, HookTells

\* The steps of the wrapper that are not the adapter's.
LEMMA KafkaWrapperInv ==
  ASSUME KafkaIInv, DisposalIInv, UNCHANGED kafkaOwn,
         \/ \E k \in Call : Accept(k) \/ Refuse(k) \/ Collect(k)
         \/ Dispose \/ CleanUp \/ Finish
  PROVE  KafkaIInv'
<1>1. UNCHANGED <<queue, step, admin, admins, opened, made>>
  BY DEF kafkaOwn
<1>2. \A k \in Call : call[k] = "running" => call'[k] = "running"
  BY DEF DisposalIInv, DisposalTypeOK, Accept, Refuse, Collect, Dispose, CleanUp, Finish
<1>3. \A i \in 1 .. Len(queue) : queue[i] \in Call
  BY DEF KafkaIInv, ChainIsExact
<1>4. ChainIsExact'
  BY <1>1, <1>2, <1>3 DEF KafkaIInv, ChainIsExact
<1>5. HookTells'
  BY <1>1 DEF KafkaIInv, HookTells, Accept, Refuse, Collect, Dispose, CleanUp, Finish
<1>6. QED BY <1>1, <1>4, <1>5 DEF KafkaIInv, SetIsExact, Retained

\* A call joins the chain behind the others.
LEMMA JoinInv ==
  ASSUME KafkaIInv, DisposalIInv, NEW k \in Call, Join(k)
  PROVE  KafkaIInv'
<1>1. /\ queue' = Append(queue, k) /\ queue \in Seq(Call) /\ Len(queue) \in Nat
      /\ call[k] = "queued" /\ call' = [call EXCEPT ![k] = "running"] /\ hook' = hook
      /\ UNCHANGED <<step, admin, admins, opened, made>>
  BY DEF Join, Invoke, KafkaIInv, ChainIsExact
<1>2. /\ queue' \in Seq(Call) /\ Len(queue') = Len(queue) + 1 /\ queue'[Len(queue')] = k
      /\ \A i \in 1 .. Len(queue) : queue'[i] = queue[i] /\ queue[i] \in Call
  BY <1>1
<1>3. \A i \in 1 .. Len(queue) : queue[i] # k
  BY <1>1 DEF KafkaIInv, ChainIsExact
<1>4. \A i \in 1 .. Len(queue') : i \in 1 .. Len(queue) \/ i = Len(queue')
  BY <1>1, <1>2
<1>5. \A i \in 1 .. Len(queue') : call'[queue'[i]] = "running"
  BY <1>1, <1>2, <1>3, <1>4
  DEF KafkaIInv, ChainIsExact, DisposalIInv, DisposalTypeOK
<1>6. \A i, j \in 1 .. Len(queue') : queue'[i] = queue'[j] => i = j
  BY <1>2, <1>3, <1>4 DEF KafkaIInv, ChainIsExact
<1>7. queue' # <<>>
  BY <1>1
<1>8. QED
  BY <1>1, <1>2, <1>5, <1>6, <1>7
  DEF KafkaIInv, ChainIsExact, SetIsExact, Retained, HookTells

\* The steps of the check at the head.
LEMMA HeadInv ==
  ASSUME KafkaIInv, DisposalIInv, RunCheck \/ Cleanup \/ OpenAdmin \/ Probe \/ Release
  PROVE  KafkaIInv'
<1>1. queue # <<>>
  BY DEF RunCheck, Cleanup, OpenAdmin, Probe, Release, KafkaIInv, ChainIsExact
<1>2. \A h \in Hook : hook[h] = "none"
  BY <1>1, ChainKeepsHooks
<1>3. SetIsExact' /\ Retained'
  <2> USE DEF KafkaIInv, SetIsExact, Retained
  <2>1. CASE RunCheck \/ Probe
    BY <2>1 DEF RunCheck, Probe
  <2>2. CASE Cleanup
    BY <2>2 DEF Cleanup, Disconnects, Cleaned, Returns
  <2>3. CASE OpenAdmin
    BY <2>3 DEF OpenAdmin, Returns
  <2>4. CASE Release
    BY <2>4 DEF Release, Returns
  <2>5. QED BY <2>1, <2>2, <2>3, <2>4
<1>4. ChainIsExact' /\ HookTells'
  <2>1. CASE Returns
    BY <1>1, <2>1, ReturnsInv
  <2>2. CASE ~Returns
    <3>1. UNCHANGED <<disposalVars, queue>>
      BY <2>2 DEF RunCheck, Cleanup, OpenAdmin, Probe, Release
    <3>2. QED
      BY <1>1, <1>2, <3>1 DEF disposalVars, KafkaIInv, ChainIsExact, HookTells
  <2>3. QED BY <2>1, <2>2
<1>5. QED BY <1>3, <1>4 DEF KafkaIInv

\* The terminal cleanup has looked at every retained admin.
LEMMA CleanupAdminsInv ==
  ASSUME KafkaIInv, DisposalIInv, NEW h \in Hook, CleanupAdmins(h)
  PROVE  KafkaIInv'
<1>1. UNCHANGED <<queue, step, call>> /\ Hook = {h}
  BY KafkaAssumption DEF CleanupAdmins, HookSettles
<1>2. ChainIsExact'
  BY <1>1 DEF KafkaIInv, ChainIsExact
<1>3. SetIsExact' /\ Retained'
  BY <1>1 DEF CleanupAdmins, Disconnects, KafkaIInv, SetIsExact, Retained
<1>4. HookTells'
  BY <1>1, <1>3 DEF CleanupAdmins, Cleaned, HookTells, SetIsExact
<1>5. QED BY <1>2, <1>3, <1>4 DEF KafkaIInv

LEMMA KafkaStepInv ==
  KafkaIInv /\ DisposalIInv /\ [KafkaNext]_kafkaVars => KafkaIInv' /\ DisposalIInv'
<1> SUFFICES ASSUME KafkaIInv, DisposalIInv, [KafkaNext]_kafkaVars
             PROVE  KafkaIInv' /\ DisposalIInv'
  OBVIOUS
<1>1. DisposalIInv'
  BY KafkaSimulation, DisposalStepInv
<1>2. CASE \/ (\E k \in Call : Accept(k) \/ Refuse(k) \/ Collect(k)) /\ UNCHANGED kafkaOwn
           \/ (Dispose \/ CleanUp \/ Finish) /\ UNCHANGED kafkaOwn
  BY <1>1, <1>2, KafkaWrapperInv
<1>3. CASE \E k \in Call : Join(k)
  BY <1>1, <1>3, JoinInv
<1>4. CASE RunCheck \/ Cleanup \/ OpenAdmin \/ Probe \/ Release
  BY <1>1, <1>4, HeadInv
<1>5. CASE \E h \in Hook : CleanupAdmins(h)
  BY <1>1, <1>5, CleanupAdminsInv
<1>6. CASE UNCHANGED kafkaVars
  <2>1. UNCHANGED <<queue, step, admins, opened, call, hook>>
    BY <1>6 DEF kafkaVars, kafkaOwn, disposalVars
  <2>2. ChainIsExact'
    BY <2>1 DEF KafkaIInv, ChainIsExact
  <2>3. QED BY <1>1, <2>1, <2>2 DEF KafkaIInv, SetIsExact, Retained, HookTells
<1>7. QED BY <1>2, <1>3, <1>4, <1>5, <1>6 DEF KafkaNext

-----------------------------------------------------------------------------
\* The invariants of the wrapper and of the adapter hold together.
THEOREM KafkaInvariant == KafkaSpec => [](KafkaIInv /\ DisposalIInv)
<1>1. KafkaInit => KafkaIInv /\ DisposalIInv
  BY KafkaInitInv, DisposalInitInv DEF KafkaInit
<1>2. QED BY <1>1, KafkaStepInv, PTL DEF KafkaSpec

\* For any number of concurrent callers and of admins that could be opened, at
\* most one is connected.
THEOREM OneAdminTheorem == KafkaSpec => []OneAdmin
<1>1. KafkaIInv => OneAdmin
  <2> SUFFICES ASSUME KafkaIInv PROVE Cardinality(opened) <= 1
    BY DEF OneAdmin
  <2>1. PICK a \in Admin \cup {NoAdmin} : opened \subseteq {a}
    BY DEF KafkaIInv, SetIsExact, Retained
  <2>2. opened = {} \/ opened = {a}
    BY <2>1
  <2>3. QED BY <2>2, FS_EmptySet, FS_Singleton
<1>2. QED BY <1>1, KafkaInvariant, PTL

\* The disposal resolves if and only if no admin is left connected.
THEOREM DisposalTellsRestTheorem == KafkaSpec => []DisposalTellsRest
<1>1. KafkaIInv /\ DisposalIInv => DisposalTellsRest
  BY KafkaAssumption
  DEF KafkaIInv, HookTells, DisposalIInv, EndTellsHooks, DisposalTellsRest, Ended
<1>2. QED BY <1>1, KafkaInvariant, PTL

\* The safety behind EveryCheckEnds: every running check is in the chain, so it
\* waits for its predecessors alone and is the head in the end.
InChain == \A k \in Call : call[k] = "running" => \E i \in 1 .. Len(queue) : queue[i] = k

LEMMA InChainStep ==
  KafkaIInv /\ DisposalIInv /\ InChain /\ [KafkaNext]_kafkaVars => InChain'
<1> SUFFICES ASSUME KafkaIInv, DisposalIInv, InChain, [KafkaNext]_kafkaVars PROVE InChain'
  OBVIOUS
<1>0. queue \in Seq(Call) /\ DisposalTypeOK
  BY DEF KafkaIInv, ChainIsExact, DisposalIInv
<1>1. ASSUME NEW k \in Call, Join(k) PROVE InChain'
  <2>1. /\ queue' = Append(queue, k)
        /\ \A l \in Call : l # k => call'[l] = call[l]
    BY <1>0, <1>1 DEF Join, Invoke, DisposalTypeOK
  <2>2. /\ Len(queue') = Len(queue) + 1 /\ queue'[Len(queue) + 1] = k
        /\ \A i \in 1 .. Len(queue) : queue'[i] = queue[i]
    BY <1>0, <2>1
  <2>3. ASSUME NEW l \in Call, call'[l] = "running"
        PROVE  \E i \in 1 .. Len(queue') : queue'[i] = l
    <3>1. CASE l = k
      BY <1>0, <2>2, <3>1
    <3>2. CASE l # k
      <4>1. PICK i \in 1 .. Len(queue) : queue[i] = l
        BY <2>1, <2>3, <3>2 DEF InChain
      <4>2. i \in 1 .. Len(queue') /\ queue'[i] = l
        BY <1>0, <2>2, <4>1
      <4>3. QED BY <4>2
    <3>3. QED BY <3>1, <3>2
  <2>4. QED BY <2>3 DEF InChain
<1>2. ASSUME Returns, queue # <<>> PROVE InChain'
  <2>1. /\ queue' = Tail(queue) /\ Len(queue) \in Nat \ {0} /\ queue[1] \in Call
        /\ call' = [call EXCEPT ![queue[1]] = "settled"]
    BY <1>0, <1>2, ChainKeepsHooks DEF Returns, Settle
  <2>2. /\ Len(queue') = Len(queue) - 1
        /\ \A i \in 1 .. Len(queue') : queue'[i] = queue[i + 1]
    BY <1>0, <1>2, <2>1
  <2>3. ASSUME NEW l \in Call, call'[l] = "running"
        PROVE  \E i \in 1 .. Len(queue') : queue'[i] = l
    <3>1. l # queue[1] /\ call[l] = "running"
      BY <1>0, <2>1, <2>3 DEF DisposalTypeOK
    <3>2. PICK i \in 1 .. Len(queue) : queue[i] = l
      BY <3>1 DEF InChain
    <3>3. i - 1 \in 1 .. Len(queue') /\ queue'[i - 1] = l
      BY <2>1, <2>2, <3>1, <3>2
    <3>4. QED BY <3>3
  <2>4. QED BY <2>3 DEF InChain
<1>3. ASSUME UNCHANGED queue, \A l \in Call : call'[l] = "running" => call[l] = "running"
      PROVE  InChain'
  BY <1>3 DEF InChain
<1>4. CASE \E k \in Call : (Accept(k) \/ Refuse(k) \/ Collect(k)) /\ UNCHANGED kafkaOwn
  BY <1>0, <1>3, <1>4 DEF Accept, Refuse, Collect, kafkaOwn, DisposalTypeOK
<1>5. CASE Cleanup \/ OpenAdmin \/ Release
  <2>1. queue # <<>>
    BY <1>5 DEF Cleanup, OpenAdmin, Release, KafkaIInv, ChainIsExact
  <2>2. QED
    BY <1>2, <1>3, <1>5, <2>1 DEF Cleanup, OpenAdmin, Release, disposalVars
<1>6. CASE UNCHANGED <<queue, call>>
  BY <1>3, <1>6
<1>7. QED
  BY <1>1, <1>4, <1>5, <1>6
  DEF KafkaNext, RunCheck, Probe, Dispose, CleanUp, Finish, CleanupAdmins, HookSettles,
      kafkaVars, kafkaOwn, disposalVars

\* No check is dropped from the chain: each that runs is in it, and its head is
\* at a step of its own or may begin.
THEOREM InChainTheorem ==
  KafkaSpec => [](InChain /\ (step # "idle" => queue # <<>>))
<1>1. KafkaInit => InChain
  BY DEF KafkaInit, DisposalInit, InChain
<1>2. KafkaIInv => (step # "idle" => queue # <<>>)
  BY DEF KafkaIInv, ChainIsExact
<1>3. QED BY <1>1, <1>2, InChainStep, KafkaInvariant, PTL DEF KafkaSpec

-----------------------------------------------------------------------------

Active(k) == attempt[k].phase \in {"importing", "connecting"}

OneAttempt ==
  \A k \in Call :
    /\ Active(k) => owned = k
    /\ attempt[k].phase = "connecting" => attempt[k].on = internal /\ internal # None

ResetWaits ==
  /\ reset = "waiting" => \A k \in Call : Active(k) => resetOn = k
  /\ reset = "closing" => \A k \in Call : ~Active(k)
  /\ reset = "closing" => resetOn = internal

OpenIsHeld == open \subseteq {internal}

\* What holds until a check starts an attempt under a reset.
Uncrossed == OneAttempt /\ ResetWaits /\ OpenIsHeld

\* A check is at work only while its call is.
WorksWhileRunning == \A k \in Call : at[k].step # "out" => call[k] = "running"

\* A disposal joins a reset in progress, and its hook waits for it.
JoinedWaits == joined => reset # "none" /\ \A h \in Hook : hook[h] = "called"

\* A check awaits the attempt it has started, which connects a client.
OwnAwaits ==
  \A k \in Call :
    /\ Active(k) => at[k] = Step("connecting", k)
    /\ attempt[k].phase = "connecting" => attempt[k].on \in Client

MongoIInv ==
  /\ MongoTypeOK
  /\ WorksWhileRunning
  /\ OwnAwaits
  /\ JoinedWaits
  /\ ~crossed => Uncrossed

LEMMA MongoInitInv == MongoInit => MongoIInv
<1> SUFFICES ASSUME MongoInit PROVE MongoIInv
  OBVIOUS
<1>1. DisposalTypeOK
  BY DisposalInitInv DEF MongoInit, DisposalIInv
<1>2. QED
  BY <1>1 DEF MongoInit, MongoIInv, MongoTypeOK, Phases, Steps, OneAttempt, Active, ResetWaits,
              WorksWhileRunning, OwnAwaits, JoinedWaits, OpenIsHeld, Uncrossed

\* Every step is a step of the wrapper, or none: a reset settles the hook of the
\* disposal that has joined it, and no other.
LEMMA MongoSimulation ==
  MongoIInv /\ [MongoNext]_mongoVars => [DisposalNext]_disposalVars
<1> SUFFICES ASSUME MongoIInv, [MongoNext]_mongoVars PROVE [DisposalNext]_disposalVars
  OBVIOUS
<1>1. ASSUME NEW k \in Call, Accept(k) \/ Refuse(k) \/ Collect(k) \/ Begin(k) \/ EndCheck(k)
      PROVE  DisposalNext
  BY <1>1 DEF Begin, EndCheck, DisposalNext
<1>2. ASSUME NEW k \in Call, Resume(k) \/ ImportSettles(k) \/ ConnectSettles(k)
      PROVE  UNCHANGED disposalVars
  BY <1>2 DEF Resume, ImportSettles, ConnectSettles
<1>3. ASSUME CloseAdapter \/ ResetContinues \/ \E h \in Hook : JoinReset(h)
      PROVE  UNCHANGED disposalVars
  BY <1>3 DEF CloseAdapter, ResetContinues, JoinReset
<1>4. ASSUME ResetDone \/ ResetFails PROVE [DisposalNext]_disposalVars
  <2>1. PICK ending \in {"ok", "failed"} :
          /\ hook' = [h \in Hook |-> IF joined THEN ending ELSE hook[h]]
          /\ UNCHANGED <<call, pending, closing, awaited, attempts>>
    BY <1>4 DEF ResetDone, ResetFails, EndReset
  <2>2. hook \in [Hook -> {"none", "called", "ok", "failed"}] /\ Hook = {"cleanup"}
    BY MongoAssumption DEF MongoIInv, MongoTypeOK, DisposalTypeOK
  <2>3. CASE joined
    <3>1. hook["cleanup"] = "called" /\ hook' = [hook EXCEPT !["cleanup"] = ending]
      BY <2>1, <2>2, <2>3 DEF MongoIInv, JoinedWaits
    <3>2. HookSettles("cleanup")
      BY <2>1, <3>1 DEF HookSettles
    <3>3. QED BY <2>2, <3>2 DEF DisposalNext
  <2>4. CASE ~joined
    <3>1. hook' = hook
      BY <2>1, <2>2, <2>4
    <3>2. QED BY <2>1, <3>1 DEF disposalVars
  <2>5. QED BY <2>3, <2>4
<1>5. ASSUME Dispose \/ CleanUp \/ Finish PROVE DisposalNext
  BY <1>5 DEF DisposalNext
<1>6. CASE UNCHANGED mongoVars
  BY <1>6 DEF mongoVars
<1>7. QED BY <1>1, <1>2, <1>3, <1>4, <1>5, <1>6 DEF MongoNext

-----------------------------------------------------------------------------
\* A check joins the promise there is, or starts an attempt: while no attempt
\* under a reset was started, one that no other is in progress with.
LEMMA GetOwnedClientInv ==
  ASSUME MongoIInv, NEW k \in Call, ~Active(k), GetOwnedClient(k),
         UNCHANGED <<open, internal, reset, resetOn>>,
         crossed' = (crossed \/ (reset # "none" /\ owned = None))
  PROVE  /\ owned' \in Call \cup {None}
         /\ attempt' \in [Call -> [phase : Phases, on : Client \cup {None}]]
         /\ at' \in [Call -> [step : Steps, on : Call \cup {None}]]
         /\ OwnAwaits'
         /\ ~crossed' => Uncrossed'
         /\ \A j \in Call : at'[j].step # "out" => j = k \/ at[j].step # "out"
<1> USE DEF MongoIInv, MongoTypeOK, Active, Step, Phases, Steps
<1>1. CASE owned = None
  <2>1. /\ owned' = k
        /\ attempt' = [attempt EXCEPT ![k] = [phase |-> "importing", on |-> None]]
        /\ at' = [at EXCEPT ![k] = [step |-> "connecting", on |-> k]]
    BY <1>1 DEF GetOwnedClient
  <2>2. /\ attempt'[k].phase = "importing" /\ at'[k] = [step |-> "connecting", on |-> k]
        /\ \A j \in Call \ {k} : attempt'[j] = attempt[j] /\ at'[j] = at[j]
    BY <2>1
  <2>3. OwnAwaits'
    BY <2>2 DEF OwnAwaits
  <2>4. ASSUME ~crossed' PROVE Uncrossed'
    <3>1. ~crossed /\ reset = "none"
      BY <1>1, <2>4
    <3>2. \A j \in Call : ~Active(j)
      BY <1>1, <3>1, MongoAssumption DEF Uncrossed, OneAttempt
    <3>3. OneAttempt'
      BY <2>1, <2>2, <3>1, <3>2 DEF Uncrossed, OneAttempt
    <3>4. QED BY <3>1, <3>3 DEF Uncrossed, ResetWaits, OpenIsHeld
  <2>5. QED BY <2>1, <2>2, <2>3, <2>4
<1>2. CASE owned # None
  <2>1. PICK s \in {"using", "connecting"} :
          at' = [at EXCEPT ![k] = [step |-> s, on |-> owned]]
    BY <1>2 DEF GetOwnedClient
  <2>2. owned \in Call /\ UNCHANGED <<owned, attempt>>
    BY <1>2 DEF GetOwnedClient
  <2>3. OwnAwaits'
    BY <2>1, <2>2 DEF OwnAwaits
  <2>4. ~crossed' => Uncrossed'
    BY <1>2, <2>2 DEF Uncrossed, OneAttempt, ResetWaits, OpenIsHeld
  <2>5. QED BY <2>1, <2>2, <2>3, <2>4
<1>3. QED BY <1>1, <1>2

LEMMA BeginInv ==
  ASSUME MongoIInv, DisposalTypeOK', NEW k \in Call, Begin(k) \/ Resume(k)
  PROVE  MongoIInv'
<1> USE DEF MongoIInv
<1>1. UNCHANGED <<open, internal, reset, resetOn, joined, hook>>
  BY DEF Begin, Resume, Invoke, disposalVars
<1>2. call'[k] = "running" /\ \A j \in Call \ {k} : call'[j] = call[j]
  BY DEF Begin, Resume, Invoke, disposalVars, WorksWhileRunning, MongoTypeOK, DisposalTypeOK
<1>3. ~Active(k)
  <2>1. at[k].step # "connecting"
    BY DEF Begin, Resume, Invoke, WorksWhileRunning
  <2>2. Step("connecting", k).step = "connecting"
    BY DEF Step
  <2>3. QED BY <2>1, <2>2 DEF OwnAwaits
<1>4. CASE Begin(k) /\ reset # "none"
  <2>1. /\ at' = [at EXCEPT ![k] = [step |-> "resetting", on |-> None]]
        /\ UNCHANGED <<owned, attempt, crossed>>
    BY <1>4 DEF Begin, Step
  <2>2. MongoTypeOK'
    BY <1>1, <2>1 DEF MongoTypeOK, Steps
  <2>3. OwnAwaits'
    BY <1>3, <2>1 DEF OwnAwaits, Active, MongoTypeOK
  <2>4. JoinedWaits' /\ (~crossed' => Uncrossed')
    BY <1>1, <2>1 DEF JoinedWaits, Uncrossed, OneAttempt, ResetWaits, OpenIsHeld, Active
  <2>5. WorksWhileRunning'
    BY <1>2, <2>1 DEF WorksWhileRunning, MongoTypeOK
  <2>6. QED BY <2>2, <2>3, <2>4, <2>5
<1>5. CASE ~(Begin(k) /\ reset # "none")
  <2>1. GetOwnedClient(k) /\ crossed' = (crossed \/ (reset # "none" /\ owned = None))
    <3>1. CASE Begin(k) /\ reset = "none"
      <4>1. GetOwnedClient(k) /\ crossed' = crossed
        BY <3>1 DEF Begin
      <4>2. crossed \in BOOLEAN
        BY DEF MongoTypeOK
      <4>3. QED BY <3>1, <4>1, <4>2
    <3>2. CASE Resume(k)
      BY <3>2 DEF Resume
    <3>3. QED BY <1>5, <3>1, <3>2
  <2>2. /\ MongoTypeOK' /\ OwnAwaits' /\ (~crossed' => Uncrossed')
        /\ \A j \in Call : at'[j].step # "out" => j = k \/ at[j].step # "out"
    BY <1>1, <1>3, <2>1, GetOwnedClientInv DEF MongoTypeOK
  <2>3. WorksWhileRunning'
    BY <1>2, <2>2 DEF WorksWhileRunning
  <2>4. JoinedWaits'
    BY <1>1 DEF JoinedWaits
  <2>5. QED BY <2>2, <2>3, <2>4
<1>6. QED BY <1>4, <1>5

\* An attempt takes a step, or ends.
LEMMA EndAttemptInv ==
  ASSUME MongoIInv, DisposalTypeOK', NEW k \in Call, Active(k),
         NEW phase \in {"ok", "failed"}, NEW moved \in {"using", "failed"},
         EndAttempt(k, phase, moved), UNCHANGED <<disposalVars, internal, reset, joined, crossed>>,
         open' \subseteq Client, ~crossed => open' \subseteq {internal}, owned' \in {owned, None}
  PROVE  MongoIInv'
<1> USE DEF MongoIInv
<1>1. /\ attempt' = [attempt EXCEPT ![k].phase = phase]
      /\ at' = [j \in Call |-> IF j \in Awaits(k) THEN Step(moved, k) ELSE at[j]]
      /\ resetOn' = IF reset = "waiting" /\ resetOn = k THEN None ELSE resetOn
  BY DEF EndAttempt
<1>2. attempt'[k].phase = phase /\ \A j \in Call \ {k} : attempt'[j] = attempt[j]
  BY <1>1 DEF MongoTypeOK
<1>3. ~Active(k)' /\ \A j \in Call \ {k} : Active(j)' <=> Active(j)
  BY <1>2 DEF Active
<1>4. \A j \in Call : \/ at'[j] = at[j]
                      \/ /\ at'[j].step = moved /\ at[j].step = "connecting"
                         /\ at[j] = Step("connecting", k)
  BY <1>1 DEF Awaits, Step
<1>5. MongoTypeOK'
  <2>1. attempt' \in [Call -> [phase : Phases, on : Client \cup {None}]]
    BY <1>1 DEF MongoTypeOK, Phases
  <2>2. at' \in [Call -> [step : Steps, on : Call \cup {None}]]
    BY <1>1 DEF MongoTypeOK, Steps, Step
  <2>3. QED BY <1>1, <2>1, <2>2 DEF MongoTypeOK
<1>6. OwnAwaits'
  <2>1. ASSUME NEW j \in Call, Active(j)' PROVE at'[j] = Step("connecting", j)
    <3>1. j # k /\ Active(j)
      BY <1>3, <2>1
    <3>2. at[j] # Step("connecting", k)
      <4>1. at[j] = Step("connecting", j)
        BY <3>1 DEF OwnAwaits
      <4>2. Step("connecting", j).on = j /\ Step("connecting", k).on = k
        BY DEF Step
      <4>3. QED BY <3>1, <4>1, <4>2
    <3>3. QED BY <1>4, <3>1, <3>2 DEF OwnAwaits
  <2>2. \A j \in Call : attempt'[j].phase = "connecting" => attempt'[j] = attempt[j]
    BY <1>2
  <2>3. QED BY <2>1, <2>2 DEF OwnAwaits, Step
<1>7. WorksWhileRunning' /\ JoinedWaits'
  BY <1>4 DEF WorksWhileRunning, JoinedWaits, disposalVars
<1>8. ASSUME ~crossed PROVE Uncrossed'
  <2>1. \A j \in Call : ~Active(j)'
    BY <1>3, <1>8, MongoAssumption DEF Uncrossed, OneAttempt
  <2>2. reset # "closing"
    BY <1>8 DEF Uncrossed, ResetWaits
  <2>3. OneAttempt'
    BY <2>1 DEF OneAttempt, Active
  <2>4. QED BY <1>8, <2>1, <2>2, <2>3 DEF Uncrossed, ResetWaits, OpenIsHeld
<1>9. QED BY <1>5, <1>6, <1>7, <1>8

LEMMA AttemptInv ==
  ASSUME MongoIInv, DisposalTypeOK', NEW k \in Call, ImportSettles(k) \/ ConnectSettles(k)
  PROVE  MongoIInv'
<1> USE DEF MongoIInv
<1>1. UNCHANGED <<disposalVars, reset, joined, crossed>> /\ Active(k)
  BY DEF ImportSettles, ConnectSettles, Active
<1>2. ASSUME ~crossed
      PROVE  owned = k /\ reset # "closing" /\ \A j \in Call \ {k} : ~Active(j)
  BY <1>1, <1>2 DEF Uncrossed, OneAttempt, ResetWaits
<1>3. CASE FailAttempt(k) /\ UNCHANGED <<open, internal>>
  BY <1>1, <1>3, EndAttemptInv DEF FailAttempt, Uncrossed, OpenIsHeld, MongoTypeOK
<1>4. CASE ConnectSettles(k)
  <2>1. internal' = internal
    BY <1>4 DEF ConnectSettles
  <2>2. CASE FailAttempt(k) /\ UNCHANGED open
    BY <1>3, <2>1, <2>2
  <2>3. CASE open' = open \cup {attempt[k].on} /\ EndAttempt(k, "ok", "using") /\ UNCHANGED owned
    <3>1. attempt[k].on \in Client
      BY <1>4 DEF ConnectSettles, OwnAwaits
    <3>2. ~crossed => open' \subseteq {internal}
      BY <1>4, <2>3 DEF ConnectSettles, Uncrossed, OneAttempt, OpenIsHeld
    <3>3. open' \subseteq Client
      BY <2>3, <3>1 DEF MongoTypeOK
    <3>4. QED BY <1>1, <2>1, <2>3, <3>2, <3>3, EndAttemptInv
  <2>4. QED BY <1>4, <2>2, <2>3 DEF ConnectSettles
<1>5. ASSUME NEW x \in Client,
             IF internal = None THEN x \notin open ELSE x = internal,
             internal' = x, open' = open \cup {x},
             attempt' = [attempt EXCEPT ![k] = [phase |-> "connecting", on |-> x]],
             UNCHANGED <<owned, at, resetOn>>
      PROVE  MongoIInv'
  <2>1. x # None
    BY MongoAssumption
  <2>2. attempt'[k] = [phase |-> "connecting", on |-> x]
        /\ \A j \in Call \ {k} : attempt'[j] = attempt[j]
    BY <1>5 DEF MongoTypeOK
  <2>3. MongoTypeOK'
    BY <1>1, <1>5 DEF MongoTypeOK, Phases
  <2>4. OwnAwaits'
    <3>1. \A j \in Call : Active(j)' => Active(j)
      BY <1>1, <2>2 DEF Active
    <3>2. \A j \in Call : attempt'[j].phase = "connecting" => attempt'[j].on \in Client
      BY <2>2 DEF OwnAwaits
    <3>3. QED BY <1>5, <3>1, <3>2 DEF OwnAwaits, Step
  <2>5. WorksWhileRunning' /\ JoinedWaits'
    BY <1>1, <1>5 DEF WorksWhileRunning, JoinedWaits, disposalVars
  <2>6. ASSUME ~crossed PROVE Uncrossed'
    <3>1. open' \subseteq {x}
      <4>1. CASE internal = None
        BY <1>5, <2>6, <4>1, MongoAssumption DEF Uncrossed, OpenIsHeld, MongoTypeOK
      <4>2. CASE internal # None
        BY <1>5, <2>6, <4>2 DEF Uncrossed, OpenIsHeld
      <4>3. QED BY <4>1, <4>2
    <3>2. OneAttempt'
      BY <1>2, <1>5, <2>1, <2>2, <2>6 DEF Uncrossed, OneAttempt, Active
    <3>3. ResetWaits'
      BY <1>1, <1>2, <1>5, <2>2, <2>6 DEF Uncrossed, ResetWaits, Active
    <3>4. QED BY <1>5, <3>1, <3>2, <3>3 DEF Uncrossed, OpenIsHeld
  <2>7. QED BY <1>1, <2>3, <2>4, <2>5, <2>6
<1>6. CASE ImportSettles(k)
  BY <1>3, <1>5, <1>6 DEF ImportSettles, ReusedClient, IsNew
<1>7. QED BY <1>4, <1>6

\* The check ends.
LEMMA EndCheckInv ==
  ASSUME MongoIInv, DisposalTypeOK', NEW k \in Call, EndCheck(k)
  PROVE  MongoIInv'
<1> USE DEF MongoIInv, EndCheck, Settle, Step
<1>1. /\ at' = [at EXCEPT ![k] = [step |-> "out", on |-> None]]
      /\ call' = [call EXCEPT ![k] = "settled"] /\ hook' = hook
      /\ UNCHANGED <<open, internal, owned, attempt, reset, resetOn, joined, crossed>>
  OBVIOUS
<1>2. MongoTypeOK'
  BY <1>1 DEF MongoTypeOK, Steps
<1>3. JoinedWaits' /\ (~crossed' => Uncrossed')
  BY <1>1 DEF JoinedWaits, Uncrossed, OneAttempt, ResetWaits, OpenIsHeld, Active
<1>4. OwnAwaits'
  BY <1>1 DEF OwnAwaits, Active, MongoTypeOK
<1>5. WorksWhileRunning'
  BY <1>1 DEF WorksWhileRunning, MongoTypeOK, DisposalTypeOK
<1>6. QED BY <1>2, <1>3, <1>4, <1>5

-----------------------------------------------------------------------------
\* A reset begins, for the owner or for the disposal.
LEMMA StartResetInv ==
  ASSUME MongoIInv, StartReset, reset = "none",
         UNCHANGED <<disposalVars, open, internal, owned, attempt, at, crossed>>,
         joined' \in BOOLEAN, joined' => \A h \in Hook : hook[h] = "called"
  PROVE  MongoIInv'
<1> USE DEF MongoIInv
<1>1. reset' = "waiting" /\ resetOn' = AwaitedByReset
  BY DEF StartReset
<1>2. UNCHANGED <<call, hook, pending, closing, awaited, attempts>>
  BY DEF disposalVars
<1>3. MongoTypeOK'
  BY <1>1, <1>2 DEF MongoTypeOK, DisposalTypeOK, AwaitedByReset
<1>4. OwnAwaits' /\ WorksWhileRunning' /\ JoinedWaits'
  BY <1>1, <1>2 DEF OwnAwaits, Active, WorksWhileRunning, JoinedWaits
<1>5. ASSUME ~crossed PROVE Uncrossed'
  <2>1. \A k \in Call : Active(k) => resetOn' = k
    BY <1>1, <1>5, MongoAssumption DEF AwaitedByReset, Uncrossed, OneAttempt, Active
  <2>2. ResetWaits'
    BY <1>1, <2>1 DEF ResetWaits, Active
  <2>3. QED BY <1>5, <2>2 DEF Uncrossed, OneAttempt, Active, OpenIsHeld
<1>6. QED BY <1>3, <1>4, <1>5

\* The disposal joins the reset in progress or starts one.
LEMMA JoinResetInv ==
  ASSUME MongoIInv, NEW h \in Hook, JoinReset(h)
  PROVE  MongoIInv'
<1> USE DEF MongoIInv
<1>1. /\ \A g \in Hook : hook[g] = "called"
      /\ joined' = TRUE
      /\ UNCHANGED <<disposalVars, open, internal, owned, attempt, at, crossed>>
  BY MongoAssumption DEF JoinReset
<1>2. CASE reset = "none"
  BY <1>1, <1>2, StartResetInv DEF JoinReset
<1>3. CASE reset # "none"
  <2>1. UNCHANGED <<reset, resetOn>>
    BY <1>3 DEF JoinReset
  <2>2. MongoTypeOK' /\ OwnAwaits' /\ (~crossed' => Uncrossed')
    BY <1>1, <2>1
    DEF MongoTypeOK, DisposalTypeOK, disposalVars, OwnAwaits, Uncrossed, OneAttempt, Active,
        ResetWaits, OpenIsHeld
  <2>3. WorksWhileRunning' /\ JoinedWaits'
    BY <1>1, <1>3, <2>1 DEF WorksWhileRunning, JoinedWaits, disposalVars
  <2>4. QED BY <2>2, <2>3
<1>4. QED BY <1>2, <1>3

\* A reset goes on to close the client, and ends.
LEMMA ResetInv ==
  ASSUME MongoIInv, DisposalTypeOK', ResetContinues \/ ResetDone \/ ResetFails
  PROVE  MongoIInv'
<1> USE DEF MongoIInv
<1>1. CASE ResetContinues
  <2> USE <1>1 DEF ResetContinues
  <2>1. MongoTypeOK' /\ OwnAwaits'
    BY DEF MongoTypeOK, OwnAwaits, Active
  <2>2. ASSUME ~crossed PROVE Uncrossed'
    <3>1. ResetWaits'
      BY <2>2, MongoAssumption DEF Uncrossed, ResetWaits, Active
    <3>2. QED BY <2>2, <3>1 DEF Uncrossed, OneAttempt, Active, OpenIsHeld
  <2>3. WorksWhileRunning' /\ JoinedWaits'
    BY DEF WorksWhileRunning, JoinedWaits, disposalVars
  <2>4. QED BY <2>1, <2>2, <2>3
<1>2. ASSUME NEW moved \in {"resumes", "failed"}, NEW ending \in {"ok", "failed"},
             EndReset(moved, ending), reset = "closing", owned' \in {owned, None},
             internal' \in {internal, None}, open' \subseteq open,
             ~crossed => open' \subseteq {internal'}
      PROVE  MongoIInv'
  <2>1. /\ reset' = "none" /\ resetOn' = None /\ joined' = FALSE
        /\ at' = [k \in Call |-> IF at[k].step = "resetting" THEN [step |-> moved, on |-> None]
                                 ELSE at[k]]
        /\ call' = call /\ attempt' = attempt /\ crossed' = crossed
    BY <1>2 DEF EndReset, Step
  <2>2. MongoTypeOK'
    BY <1>2, <2>1 DEF MongoTypeOK, Steps
  <2>3. OwnAwaits'
    <3>1. \A k \in Call : at[k] = Step("connecting", k) => at'[k] = at[k]
      BY <2>1 DEF Step
    <3>2. QED BY <2>1, <3>1 DEF OwnAwaits, Active, Step
  <2>4. JoinedWaits' /\ WorksWhileRunning'
    BY <2>1 DEF JoinedWaits, WorksWhileRunning
  <2>5. ASSUME ~crossed PROVE Uncrossed'
    <3>1. \A k \in Call : ~Active(k)
      BY <1>2, <2>5 DEF Uncrossed, ResetWaits
    <3>2. QED BY <1>2, <2>1, <2>5, <3>1 DEF Uncrossed, OneAttempt, Active, ResetWaits, OpenIsHeld
  <2>6. QED BY <2>1, <2>2, <2>3, <2>4, <2>5
<1>3. CASE ResetDone
  <2>1. ~crossed => open' = {}
    BY <1>3 DEF ResetDone, Uncrossed, ResetWaits, OpenIsHeld
  <2>2. QED BY <1>2, <1>3, <2>1 DEF ResetDone
<1>4. CASE ResetFails
  BY <1>2, <1>4 DEF ResetFails, Uncrossed, OpenIsHeld
<1>5. QED BY <1>1, <1>3, <1>4

\* The steps of the wrapper that are not the adapter's.
LEMMA MongoWrapperInv ==
  ASSUME MongoIInv, DisposalIInv, DisposalTypeOK', UNCHANGED mongoOwn,
         \/ \E k \in Call : Accept(k) \/ Refuse(k) \/ Collect(k)
         \/ Dispose \/ CleanUp \/ Finish
  PROVE  MongoIInv'
<1>1. UNCHANGED <<open, internal, owned, attempt, at, reset, resetOn, joined, crossed>>
  BY DEF mongoOwn
<1>2. \A k \in Call : call[k] = "running" => call'[k] = "running"
  BY DEF DisposalIInv, DisposalTypeOK, Accept, Refuse, Collect, Dispose, CleanUp, Finish
<1>3. \A h \in Hook : hook[h] = "called" => hook'[h] = "called"
  BY DEF Accept, Refuse, Collect, Dispose, CleanUp, Finish
<1>4. QED
  BY <1>1, <1>2, <1>3
  DEF MongoIInv, MongoTypeOK, Uncrossed, OneAttempt, Active, ResetWaits, WorksWhileRunning,
      OwnAwaits, JoinedWaits, OpenIsHeld

LEMMA MongoStepInv ==
  MongoIInv /\ DisposalIInv /\ [MongoNext]_mongoVars => MongoIInv' /\ DisposalIInv'
<1> SUFFICES ASSUME MongoIInv, DisposalIInv, [MongoNext]_mongoVars
             PROVE  MongoIInv' /\ DisposalIInv'
  OBVIOUS
<1>1. DisposalIInv' /\ DisposalTypeOK'
  BY MongoSimulation, DisposalStepInv DEF DisposalIInv
<1>2. CASE \/ (\E k \in Call : Accept(k) \/ Refuse(k) \/ Collect(k)) /\ UNCHANGED mongoOwn
           \/ (Dispose \/ CleanUp \/ Finish) /\ UNCHANGED mongoOwn
  BY <1>1, <1>2, MongoWrapperInv
<1>3. CASE \E k \in Call : Begin(k) \/ Resume(k)
  BY <1>1, <1>3, BeginInv
<1>4. CASE \E k \in Call : ImportSettles(k) \/ ConnectSettles(k)
  BY <1>1, <1>4, AttemptInv
<1>5. CASE \E k \in Call : EndCheck(k)
  BY <1>1, <1>5, EndCheckInv
<1>6. CASE CloseAdapter
  <2>1. StartReset /\ reset = "none"
    BY <1>6 DEF CloseAdapter
  <2>2. UNCHANGED <<disposalVars, open, internal, owned, attempt, at, joined, crossed>>
    BY <1>6 DEF CloseAdapter
  <2>3. joined' = FALSE
    BY <2>1, <2>2 DEF MongoIInv, MongoTypeOK, JoinedWaits
  <2>4. QED BY <1>1, <2>1, <2>2, <2>3, StartResetInv
<1>7. CASE \E h \in Hook : JoinReset(h)
  BY <1>1, <1>7, JoinResetInv
<1>8. CASE ResetContinues \/ ResetDone \/ ResetFails
  BY <1>1, <1>8, ResetInv
<1>9. CASE UNCHANGED mongoVars
  <2>1. UNCHANGED mongoOwn /\ call' = call /\ hook' = hook
    BY <1>9 DEF mongoVars, disposalVars
  <2>2. QED
    BY <1>1, <2>1
    DEF mongoOwn, MongoIInv, MongoTypeOK, Uncrossed, OneAttempt, Active, ResetWaits,
        WorksWhileRunning, OwnAwaits, JoinedWaits, OpenIsHeld
<1>10. QED BY <1>2, <1>3, <1>4, <1>5, <1>6, <1>7, <1>8, <1>9 DEF MongoNext

-----------------------------------------------------------------------------
\* The invariants of the wrapper and of the adapter hold together.
THEOREM MongoInvariant == MongoSpec => [](MongoIInv /\ DisposalIInv)
<1>1. MongoInit => MongoIInv /\ DisposalIInv
  BY MongoInitInv, DisposalInitInv DEF MongoInit
<1>2. QED BY <1>1, MongoStepInv, PTL DEF MongoSpec

\* For any number of calls and of clients: as long as no check has started an
\* attempt under a reset, a client that may be open is one the adapter holds.
THEOREM NoClientLostTheorem == MongoSpec => []NoClientLost
<1>1. MongoIInv => NoClientLost
  BY DEF MongoIInv, Uncrossed, OpenIsHeld, NoClientLost
<1>2. QED BY <1>1, MongoInvariant, PTL

-----------------------------------------------------------------------------
\* A check that runs can go on, or waits for a reset that is in progress or for
\* an attempt that has not ended; a reset waits for such an attempt or for the
\* close of its client; and a disposal that has joined a reset has one to wait
\* for.  Checks, resets and disposals never wait for each other in a circle.
NobodyWaitsInVain ==
  /\ \A k \in Call : call[k] = "running" =>
       \/ at[k].step \in {"resumes", "using", "failed"}
       \/ at[k].step = "resetting" /\ reset # "none"
       \/ at[k].step = "connecting" /\ at[k].on \in Call /\ Active(at[k].on)
  /\ reset = "waiting" /\ resetOn # None => resetOn \in Call /\ Active(resetOn)
  /\ joined => reset # "none"

CheckWaits(k) ==
  /\ call[k] = "running" => at[k].step # "out"
  /\ at[k].step = "resetting" => reset # "none"
  /\ at[k].step = "connecting" => at[k].on \in Call /\ Active(at[k].on)

MongoWaits ==
  /\ \A k \in Call : CheckWaits(k)
  /\ reset = "waiting" /\ resetOn # None => resetOn \in Call /\ Active(resetOn)
  /\ owned # None => attempt[owned].phase \in {"importing", "connecting", "ok"}

\* A check that is called, or goes on after a reset, waits for an attempt that
\* has not ended: its own, or the one it joins.
LEMMA BeginsToWait ==
  ASSUME MongoIInv, MongoWaits, NEW k \in Call, Begin(k) \/ Resume(k)
  PROVE  MongoWaits'
<1> USE DEF MongoIInv, MongoTypeOK, Active, Step
<1>1. UNCHANGED <<reset, resetOn>> /\ \A j \in Call \ {k} : call'[j] = call[j]
  BY DEF Begin, Resume, Invoke, disposalVars, DisposalTypeOK
<1>2. CASE Begin(k) /\ reset # "none"
  <2>1. /\ at' = [at EXCEPT ![k] = [step |-> "resetting", on |-> None]]
        /\ UNCHANGED <<owned, attempt>>
    BY <1>2 DEF Begin
  <2>2. at'[k].step = "resetting" /\ \A j \in Call \ {k} : at'[j] = at[j]
    BY <2>1
  <2>3. QED BY <1>1, <1>2, <2>1, <2>2 DEF MongoWaits, CheckWaits
<1>3. CASE GetOwnedClient(k) /\ owned = None
  <2>1. /\ owned' = k
        /\ attempt' = [attempt EXCEPT ![k] = [phase |-> "importing", on |-> None]]
        /\ at' = [at EXCEPT ![k] = [step |-> "connecting", on |-> k]]
    BY <1>3 DEF GetOwnedClient
  <2>2. /\ attempt'[k].phase = "importing"
        /\ at'[k].step = "connecting" /\ at'[k].on = k
        /\ \A j \in Call \ {k} : at'[j] = at[j] /\ attempt'[j] = attempt[j]
    BY <2>1
  <2>3. \A j \in Call : Active(j) => attempt'[j].phase \in {"importing", "connecting"}
    BY <2>2
  <2>4. \A j \in Call : CheckWaits(j)'
    BY <1>1, <2>2, <2>3 DEF MongoWaits, CheckWaits
  <2>5. QED BY <1>1, <2>1, <2>2, <2>3, <2>4 DEF MongoWaits
<1>4. CASE GetOwnedClient(k) /\ owned # None
  <2>1. /\ at' = [at EXCEPT ![k] =
                    [step |-> IF attempt[owned].phase = "ok" THEN "using" ELSE "connecting",
                     on |-> owned]]
        /\ UNCHANGED <<owned, attempt>>
    BY <1>4 DEF GetOwnedClient
  <2>2. /\ at'[k].step \in {"using", "connecting"} /\ at'[k].on = owned
        /\ at'[k].step = "connecting" => attempt[owned].phase # "ok"
        /\ \A j \in Call \ {k} : at'[j] = at[j]
    BY <2>1
  <2>3. owned \in Call /\ attempt[owned].phase \in {"importing", "connecting", "ok"}
    BY <1>4 DEF MongoWaits
  <2>4. QED BY <1>1, <1>4, <2>1, <2>2, <2>3 DEF MongoWaits, CheckWaits
<1>5. (Begin(k) /\ reset # "none") \/ GetOwnedClient(k)
  BY DEF Begin, Resume
<1>6. QED BY <1>2, <1>3, <1>4, <1>5

\* An attempt goes on, or ends and lets go of all who await it.
LEMMA AttemptLetsGo ==
  ASSUME MongoIInv, MongoWaits, NEW k \in Call, ImportSettles(k) \/ ConnectSettles(k)
  PROVE  MongoWaits'
<1> USE DEF MongoIInv, MongoTypeOK, Step
<1>1. UNCHANGED <<call, reset>> /\ Active(k)
  BY DEF ImportSettles, ConnectSettles, disposalVars, Active
<1>2. ASSUME NEW phase \in {"ok", "failed"}, NEW moved \in {"using", "failed"},
             EndAttempt(k, phase, moved), owned' = None \/ (phase = "ok" /\ owned' = owned)
      PROVE  MongoWaits'
  <2>1. attempt'[k].phase = phase /\ \A j \in Call \ {k} : attempt'[j] = attempt[j]
    BY <1>2 DEF EndAttempt
  <2>2. \A j \in Call \ {k} : Active(j) => Active(j)'
    BY <2>1 DEF Active
  <2>3. ASSUME NEW j \in Call PROVE CheckWaits(j)'
    <3>1. at'[j] = IF j \in Awaits(k) THEN [step |-> moved, on |-> k] ELSE at[j]
      BY <1>2 DEF EndAttempt
    <3>2. CASE j \in Awaits(k)
      <4>1. at'[j].step = moved
        BY <3>1, <3>2
      <4>2. QED BY <4>1 DEF CheckWaits
    <3>3. CASE j \notin Awaits(k)
      <4>1. at'[j] = at[j] /\ CheckWaits(j)
        BY <3>1, <3>3 DEF MongoWaits
      <4>2. at[j].step = "connecting" => at[j].on # k
        <5>1. at[j] = [step |-> at[j].step, on |-> at[j].on]
          OBVIOUS
        <5>2. QED BY <3>3, <5>1 DEF Awaits
      <4>3. QED BY <1>1, <2>2, <4>1, <4>2 DEF CheckWaits
    <3>4. QED BY <3>2, <3>3
  <2>4. (reset = "waiting" /\ resetOn # None => resetOn \in Call /\ Active(resetOn))'
    <3>1. resetOn' = IF reset = "waiting" /\ resetOn = k THEN None ELSE resetOn
      BY <1>2 DEF EndAttempt
    <3>2. QED BY <1>1, <2>2, <3>1 DEF MongoWaits
  <2>5. (owned # None => attempt[owned].phase \in {"importing", "connecting", "ok"})'
    BY <1>2, <2>1 DEF MongoWaits
  <2>6. QED BY <2>3, <2>4, <2>5 DEF MongoWaits
<1>3. ASSUME UNCHANGED <<owned, at, resetOn>>, attempt'[k].phase = "connecting",
             \A j \in Call \ {k} : attempt'[j] = attempt[j]
      PROVE  MongoWaits'
  <2>1. \A j \in Call : Active(j) => Active(j)'
    BY <1>3 DEF Active
  <2>2. \A j \in Call : CheckWaits(j)'
    BY <1>1, <1>3, <2>1 DEF MongoWaits, CheckWaits
  <2>3. QED BY <1>1, <1>3, <2>1, <2>2 DEF MongoWaits
<1>4. CASE FailAttempt(k)
  BY <1>2, <1>4 DEF FailAttempt
<1>5. CASE EndAttempt(k, "ok", "using") /\ UNCHANGED owned
  BY <1>2, <1>5
<1>6. ASSUME NEW x, attempt' = [attempt EXCEPT ![k] = [phase |-> "connecting", on |-> x]]
      PROVE  attempt'[k].phase = "connecting" /\ \A j \in Call \ {k} : attempt'[j] = attempt[j]
  BY <1>6
<1>7. QED BY <1>3, <1>4, <1>5, <1>6 DEF ImportSettles, ConnectSettles

\* A reset begins, closes or ends: it lets go of the checks that await it.
LEMMA ResetLetsGo ==
  ASSUME MongoIInv, MongoWaits,
         CloseAdapter \/ (\E h \in Hook : JoinReset(h)) \/ ResetContinues \/ ResetDone \/ ResetFails
  PROVE  MongoWaits'
<1> USE DEF MongoIInv, MongoTypeOK, Active
<1>1. UNCHANGED <<call, attempt>>
  BY DEF CloseAdapter, JoinReset, ResetContinues, ResetDone, ResetFails, EndReset, disposalVars
<1>2. ASSUME UNCHANGED <<at, owned>>, reset' # "none",
             reset' = "waiting" /\ resetOn' # None =>
               resetOn' \in Call /\ attempt[resetOn'].phase \in {"importing", "connecting"}
      PROVE  MongoWaits'
  <2>1. \A k \in Call : CheckWaits(k)'
    BY <1>1, <1>2 DEF MongoWaits, CheckWaits
  <2>2. (reset = "waiting" /\ resetOn # None => resetOn \in Call /\ Active(resetOn))'
    BY <1>1, <1>2
  <2>3. (owned # None => attempt[owned].phase \in {"importing", "connecting", "ok"})'
    BY <1>1, <1>2 DEF MongoWaits
  <2>4. QED BY <2>1, <2>2, <2>3 DEF MongoWaits
<1>3. CASE StartReset /\ UNCHANGED <<at, owned>>
  <2>1. reset' = "waiting"
    BY <1>3 DEF StartReset
  <2>2. resetOn' # None =>
          resetOn' \in Call /\ attempt[resetOn'].phase \in {"importing", "connecting"}
    BY <1>3 DEF StartReset, AwaitedByReset
  <2>3. QED BY <1>2, <1>3, <2>1, <2>2
<1>4. CASE ResetContinues
  BY <1>2, <1>4 DEF ResetContinues
<1>5. ASSUME NEW moved \in {"resumes", "failed"}, NEW ending, EndReset(moved, ending),
             owned' \in {owned, None}
      PROVE  MongoWaits'
  <2>1. ASSUME NEW k \in Call
        PROVE  IF at[k].step = "resetting" THEN at'[k].step = moved ELSE at'[k] = at[k]
    BY <1>5 DEF EndReset, Step
  <2>2. reset' = "none"
    BY <1>5 DEF EndReset
  <2>3. QED BY <1>1, <1>5, <2>1, <2>2 DEF MongoWaits, CheckWaits
<1>6. CASE JoinReset("cleanup") /\ UNCHANGED <<reset, resetOn, at, owned>>
  BY <1>1, <1>6 DEF MongoWaits, CheckWaits
<1>7. QED
  BY <1>3, <1>4, <1>5, <1>6, MongoAssumption
  DEF CloseAdapter, JoinReset, ResetDone, ResetFails

LEMMA MongoWaitsStep ==
  MongoIInv /\ MongoWaits /\ [MongoNext]_mongoVars => MongoWaits'
<1> SUFFICES ASSUME MongoIInv, MongoWaits, [MongoNext]_mongoVars PROVE MongoWaits'
  OBVIOUS
<1>1. ASSUME UNCHANGED mongoOwn, \A k \in Call : call'[k] = "running" => call[k] = "running"
      PROVE  MongoWaits'
  BY <1>1 DEF mongoOwn, MongoWaits, CheckWaits, Active
<1>2. ASSUME NEW k \in Call, Accept(k) \/ Refuse(k) \/ Collect(k), UNCHANGED mongoOwn
      PROVE  MongoWaits'
  BY <1>1, <1>2 DEF Accept, Refuse, Collect, MongoIInv, MongoTypeOK, DisposalTypeOK
<1>3. ASSUME NEW k \in Call, EndCheck(k) PROVE MongoWaits'
  <2>1. /\ at'[k].step = "out" /\ call'[k] = "settled"
        /\ \A j \in Call \ {k} : at'[j] = at[j] /\ call'[j] = call[j]
        /\ UNCHANGED <<owned, attempt, reset, resetOn>>
    BY <1>3 DEF EndCheck, Settle, Step, MongoIInv, MongoTypeOK, DisposalTypeOK
  <2>2. QED BY <2>1 DEF MongoWaits, CheckWaits, Active
<1>4. CASE (Dispose \/ CleanUp \/ Finish) /\ UNCHANGED mongoOwn
  BY <1>1, <1>4 DEF Dispose, CleanUp, Finish
<1>5. CASE UNCHANGED mongoVars
  BY <1>1, <1>5 DEF mongoVars, disposalVars
<1>6. QED
  BY <1>2, <1>3, <1>4, <1>5, BeginsToWait, AttemptLetsGo, ResetLetsGo DEF MongoNext

\* No check, reset or disposal of the MongoDB adapter waits for something that
\* is over or that waits for it.
THEOREM NobodyWaitsInVainTheorem == MongoSpec => []NobodyWaitsInVain
<1>1. MongoInit => MongoWaits
  BY DEF MongoInit, DisposalInit, MongoWaits, CheckWaits
<1>2. MongoIInv /\ MongoWaits => NobodyWaitsInVain
  BY DEF MongoIInv, MongoTypeOK, Steps, JoinedWaits, MongoWaits, CheckWaits, NobodyWaitsInVain
<1>3. QED BY <1>1, <1>2, MongoWaitsStep, MongoInvariant, PTL DEF MongoSpec
=============================================================================
