---------------------------- MODULE OwnedProofs ----------------------------
(***************************************************************************)
(* What the adapters that own a client, or are given one, guarantee for    *)
(* every number of concurrent calls and of clients.                        *)
(*                                                                         *)
(* The invariant contains the wrapper's.  Its own part says what a call    *)
(* may be doing (Places), what an initialization in progress knows and     *)
(* that somebody waits for it (Attempt), which clients there are           *)
(* (OwnedClients, SuppliedAlone), and that a hook which ended well leaves  *)
(* no client open (HookCloses).  dispose() is where they meet: the wrapper *)
(* runs the hooks when no call is outstanding, so no initialization is in  *)
(* progress then, and the client the hook finds is the only one.           *)
(*                                                                         *)
(* LentIsHeld counts connections: what a client has lent is the number of  *)
(* calls that hold one.  It follows from no part above, and only           *)
(* NoCallStranded at the end needs it: who waits for a connection waits    *)
(* for one that is free or held.                                           *)
(***************************************************************************)
EXTENDS OwnedClient, DisposalProofs, FiniteSetTheorems

OwnedTypes ==
  /\ adapter \in Adapters
  /\ client \in [Client -> {"unmade", "made", "opening", "open", "lost", "closed"}]
  /\ internal \in Client \cup {NoClient}
  /\ init \in {"none", "importing", "connecting", "closing", "failed"}
  /\ at \in [Call -> [step : Steps, on : Client \cup {NoClient}]]
  /\ aborted \in [Call -> BOOLEAN]

Places ==
  \A k \in Call :
    /\ at[k].step # "out" => call[k] = "running"
    /\ at[k].step = "out" => at[k].on = NoClient
    /\ at[k].step = "importing" => adapter.get \in {"importFirst", "unshared"}
    /\ at[k].step = "waiting" => adapter.get = "shared"
    /\ at[k].step = "connecting" => IsSupplied
    /\ at[k].step = "given" => adapter.aborts
    /\ at[k].step = "borrowing" => adapter.pool > 0 /\ at[k].on # NoClient
    /\ at[k].step = "passed" => MayGoOn(k)

Attempt ==
  /\ init # "none" => adapter.get = "shared"
  /\ init \in {"importing", "connecting", "closing"} => \E k \in Call : at[k].step = "waiting"
  /\ init \in {"importing", "closing"} => internal = NoClient
  /\ init = "connecting" => internal # NoClient /\ client[internal] \in {"made", "lost"}
  /\ init = "failed" => adapter.rejected = "kept"

Live(x) == client[x] \notin {"unmade", "closed"}

OwnedClients ==
  ~IsSupplied =>
    /\ \A x \in Client :
         /\ client[x] # "opening"
         /\ client[x] = "made" => adapter.connect # "none"
         /\ client[x] = "lost" => adapter.connect = "reuse"
    /\ internal # NoClient => client[internal] # "unmade"
    /\ adapter.get # "unshared" =>
         /\ \A x \in Client : Live(x) => x = internal \/ (init = "closing" /\ client[x] = "made")
         /\ \A x, y \in Client : Live(x) /\ Live(y) => x = y
    /\ UsesOpenClient

SuppliedAlone ==
  IsSupplied =>
    /\ internal = NoClient
    /\ client[SuppliedClient] # "closed"
    /\ \A x \in Client \ {SuppliedClient} : client[x] = "unmade"
    /\ \A k \in Call : at[k].step = "connecting" => client[SuppliedClient] = "opening"
    /\ \A k, l \in Call : at[k].step = "connecting" /\ at[l].step = "connecting" => k = l

HookCloses ==
  /\ ~adapter.disposes => closing = "open"
  /\ closing \in {"open", "waiting"} => \A x \in Client : client[x] # "closed"
  /\ ~IsSupplied /\ (\E h \in Hook : hook[h] = "ok") => ~Usable(internal)

OwnedPart ==
  /\ OwnedTypes
  /\ Places
  /\ Attempt
  /\ OwnedClients
  /\ SuppliedAlone
  /\ HookCloses

OwnedIInv == DisposalIInv /\ OwnedPart

-----------------------------------------------------------------------------
\* What the proofs use of the adapters' decisions.
Sound(a) ==
  /\ a.get \in {"importFirst", "shared", "unshared", "supplied"}
  /\ a.rejected \in {"cleared", "kept"}
  /\ a.connect \in {"none", "reuse", "discard"}
  /\ a.pool \in Nat
  /\ a.aborts \in BOOLEAN /\ a.disposes \in BOOLEAN
  /\ a.get = "importFirst" => a.connect = "none"
  /\ a.get = "unshared" => a.connect = "none" /\ ~a.disposes
  /\ a.aborts => a.pool = 0

LEMMA AdaptersSound == \A a \in Adapters : Sound(a)
<1> USE OwnedClientAssumption DEF Lazy, Sound
<1>1. Sound(Supplied) /\ Sound(suppliedPool) /\ Sound(suppliedNodeRedis) /\ Sound(suppliedS3Client)
        /\ Sound(suppliedElasticsearch) /\ Sound(prismaAdapter) /\ Sound(drizzleAdapter)
  BY DEF Supplied, suppliedPool, suppliedNodeRedis, suppliedS3Client, suppliedElasticsearch,
         prismaAdapter, drizzleAdapter
<1>2. Sound(pgAdapter) /\ Sound(cockroachPgAdapter) /\ Sound(postgresJsAdapter)
        /\ Sound(mysqlAdapter) /\ Sound(mysql2Adapter) /\ Sound(amqpConnectionManagerAdapter)
  BY DEF pgAdapter, cockroachPgAdapter, postgresJsAdapter, mysqlAdapter, mysql2Adapter,
         amqpConnectionManagerAdapter
<1>3. Sound(elasticsearchAdapter) /\ Sound(minioAdapter) /\ Sound(sqlite3Adapter)
        /\ Sound(betterSqlite3Adapter) /\ Sound(libsqlAdapter) /\ Sound(amqplibAdapter)
        /\ Sound(nodeRdKafkaAdapter)
  BY DEF elasticsearchAdapter, minioAdapter, sqlite3Adapter, betterSqlite3Adapter, libsqlAdapter,
         amqplibAdapter, nodeRdKafkaAdapter
<1>4. Sound(ioredisAdapter) /\ Sound(iovalkeyAdapter) /\ Sound(glideValkeyAdapter)
        /\ Sound(memcachedAdapter) /\ Sound(memjsAdapter) /\ Sound(s3V3Adapter)
        /\ Sound(dynamoV3Adapter)
  BY DEF ioredisAdapter, iovalkeyAdapter, glideValkeyAdapter, memcachedAdapter, memjsAdapter,
         s3V3Adapter, dynamoV3Adapter
<1>5. Sound(nodeRedisAdapter) /\ Sound(mongooseAdapter) /\ Sound(s3V2Adapter)
        /\ Sound(dynamoV2Adapter) /\ Sound(upstashAdapter)
  BY DEF nodeRedisAdapter, mongooseAdapter, s3V2Adapter, dynamoV2Adapter, upstashAdapter
<1> HIDE DEF Sound
<1>6. QED BY <1>1, <1>2, <1>3, <1>4, <1>5 DEF Adapters

\* Every step is a step of the wrapper, or none.
LEMMA OwnedSimulation == [OwnedNext]_ownedVars => [DisposalNext]_disposalVars
<1> SUFFICES ASSUME [OwnedNext]_ownedVars PROVE [DisposalNext]_disposalVars
  OBVIOUS
<1>1. ASSUME NEW k \in Call, Wrapper(k) \/ Begin(k) \/ EndCheck(k)
      PROVE  DisposalNext
  BY <1>1 DEF Wrapper, Begin, EndCheck, DisposalNext
<1>2. ASSUME NEW h \in Hook, CloseOwned(h) PROVE DisposalNext
  BY <1>2 DEF CloseOwned, DisposalNext
<1>3. CASE Disposing \/ Dispose
  BY <1>3 DEF Disposing, DisposalNext
<1>4. CASE UNCHANGED disposalVars
  BY <1>4
<1>5. QED
  BY <1>1, <1>2, <1>3, <1>4
  DEF OwnedNext, ImportSettles, Borrow, SuppliedConnects, BeginRequest, Abort, Probes, Drops,
      InitSettles, ownedVars

\* Adapters run inside withDisposal: callers see the lifecycle of DisposalSpec.
THEOREM OwnedImplementsDisposal == OwnedSpec => DisposalSpec
<1>1. OwnedInit => DisposalInit
  BY DEF OwnedInit
<1>2. QED BY <1>1, OwnedSimulation, PTL DEF OwnedSpec, DisposalSpec

\* The invariant holds of every adapter before its first call.
LEMMA OwnedInitInv == OwnedInit => OwnedIInv
<1> SUFFICES ASSUME OwnedInit PROVE OwnedIInv
  OBVIOUS
<1> USE OwnedClientAssumption DEF OwnedInit
<1>1. DisposalIInv
  BY DisposalInitInv
<1>2. SuppliedClient \in Client
  BY DEF SuppliedClient
<1>3. /\ client \in [Client -> {"unmade", "made", "open"}]
      /\ \A x \in Client : x # SuppliedClient \/ ~IsSupplied => client[x] = "unmade"
      /\ IsSupplied => client[SuppliedClient] \in {"made", "open"}
  BY <1>2 DEF SuppliedStates
<1>4. \A k \in Call : at[k] = Out /\ at[k].step = "out" /\ at[k].on = NoClient
  BY DEF Out
<1>5. OwnedTypes
  BY <1>3 DEF OwnedTypes, Out, Steps
<1>6. Places /\ Attempt
  BY <1>4 DEF Places, Attempt
<1>7. OwnedClients
  BY <1>3, <1>4 DEF OwnedClients, Live, UsesOpenClient
<1>8. SuppliedAlone
  BY <1>3, <1>4 DEF SuppliedAlone
<1>9. HookCloses
  BY <1>3 DEF HookCloses, DisposalInit, Usable
<1>10. QED BY <1>1, <1>5, <1>6, <1>7, <1>8, <1>9 DEF OwnedIInv, OwnedPart

-----------------------------------------------------------------------------
\* Once the hooks may run, no call is anywhere in its check, so no shared
\* initialization is in progress either.
LEMMA QuietAtCleanup ==
  OwnedIInv =>
    /\ closing \in {"open", "waiting"} => \A h \in Hook : hook[h] = "none"
    /\ closing \notin {"open", "waiting"} =>
         /\ \A k \in Call : call[k] \notin {"queued", "running"} /\ at[k].step = "out"
                              /\ at[k].on = NoClient
         /\ init \in {"none", "failed"}
<1> SUFFICES ASSUME OwnedIInv
             PROVE  /\ closing \in {"open", "waiting"} => \A h \in Hook : hook[h] = "none"
                    /\ closing \notin {"open", "waiting"} =>
                         /\ \A k \in Call : call[k] \notin {"queued", "running"}
                                              /\ at[k].step = "out" /\ at[k].on = NoClient
                         /\ init \in {"none", "failed"}
  OBVIOUS
<1>0. WaitsForAll /\ HooksFollow /\ OwnedTypes /\ Places /\ Attempt
  BY DEF OwnedIInv, OwnedPart, DisposalIInv
<1>1. closing \in {"open", "waiting"} => \A h \in Hook : hook[h] = "none"
  BY <1>0 DEF HooksFollow
<1>2. ASSUME closing \notin {"open", "waiting"}
      PROVE  /\ \A k \in Call : call[k] \notin {"queued", "running"} /\ at[k].step = "out"
                                  /\ at[k].on = NoClient
             /\ init \in {"none", "failed"}
  <2>1. \A k \in Call : call[k] \notin {"queued", "running"}
    BY <1>0, <1>2 DEF WaitsForAll, Outstanding
  <2>2. \A k \in Call : at[k].step = "out" /\ at[k].on = NoClient
    BY <1>0, <2>1 DEF Places
  <2>3. init \in {"none", "failed"}
    BY <1>0, <2>2 DEF Attempt, OwnedTypes
  <2>4. QED BY <2>1, <2>2, <2>3
<1>3. QED BY <1>1, <1>2

\* Where a check goes on when it is answered, with a client or without one.
Onward == [step : {"failed", "given", "borrowing", "using"}, on : Client \cup {NoClient}]

\* The adapter's decisions allow a check to be at p.
Allowed(p) ==
  /\ p.step = "given" => adapter.aborts
  /\ p.step = "borrowing" => adapter.pool > 0 /\ p.on # NoClient

\* What a check moves to when it is given a client, or a failure.
LEMMA WithClientIs ==
  ASSUME OwnedTypes, NEW x \in Client
  PROVE  /\ WithClient(x) \in Onward /\ Allowed(WithClient(x))
         /\ WithClient(x).on = x
         /\ WithClient(x).step \in {"given", "borrowing", "using"}
  BY OwnedClientAssumption DEF WithClient, Onward, Allowed

LEMMA FailedIs == Failed \in Onward /\ Allowed(Failed) /\ Failed.on = NoClient
                    /\ Failed.step = "failed"
  BY DEF Failed, Onward, Allowed

\* A step of one check leaves the others where they are.
LEMMA Moved ==
  ASSUME OwnedTypes, NEW k \in Call, NEW p \in [step : Steps, on : Client \cup {NoClient}],
         at' = [at EXCEPT ![k] = p]
  PROVE  /\ at' \in [Call -> [step : Steps, on : Client \cup {NoClient}]]
         /\ at'[k] = p
         /\ \A l \in Call : l # k => at'[l] = at[l]
  BY DEF OwnedTypes

\* What the decisions of the adapter at hand allow.
LEMMA AdapterSound == OwnedTypes => Sound(adapter)
  BY AdaptersSound DEF OwnedTypes

LEMMA SuppliedClientExists == SuppliedClient \in Client
  BY OwnedClientAssumption DEF SuppliedClient

\* The parts of the invariant a step has to keep.
LEMMA OwnedParts ==
  OwnedIInv => /\ OwnedTypes /\ Places /\ Attempt /\ OwnedClients /\ SuppliedAlone /\ HookCloses
               /\ DisposalTypeOK
  BY DEF OwnedIInv, OwnedPart, DisposalIInv

\* Calls that are accepted, refused or collected are not in their check.
LEMMA WrapperInv ==
  ASSUME OwnedIInv, NEW k \in Call, Wrapper(k)
  PROVE  OwnedPart'
<1>0. OwnedTypes /\ Places /\ Attempt /\ OwnedClients /\ SuppliedAlone /\ HookCloses
        /\ DisposalTypeOK
  BY OwnedParts
<1>1. UNCHANGED <<clientVars, closing, hook>>
  BY DEF Wrapper, Accept, Refuse, Collect
<1>2. \A l \in Call : call[l] = "running" => call'[l] = "running"
  BY <1>0 DEF Wrapper, Accept, Refuse, Collect, DisposalTypeOK
<1>3. OwnedTypes' /\ Attempt' /\ SuppliedAlone' /\ HookCloses'
  BY <1>0, <1>1
  DEF clientVars, OwnedTypes, Attempt, SuppliedAlone, HookCloses, IsSupplied, Usable
<1>4. OwnedClients'
  BY <1>0, <1>1 DEF clientVars, OwnedClients, IsSupplied, Live, UsesOpenClient
<1>5. Places'
  BY <1>0, <1>1, <1>2 DEF clientVars, Places, IsSupplied, MayGoOn
<1>6. QED BY <1>3, <1>4, <1>5 DEF OwnedPart

\* A check begins: it is the only one at its step, and as it was accepted
\* nothing has been closed yet.
LEMMA BeginInv ==
  ASSUME OwnedIInv, NEW k \in Call, Begin(k)
  PROVE  OwnedPart'
<1>0. OwnedTypes /\ Places /\ Attempt /\ OwnedClients /\ SuppliedAlone /\ HookCloses
        /\ DisposalTypeOK
  BY OwnedParts
<1>1. Sound(adapter) /\ SuppliedClient \in Client
  BY <1>0, AdapterSound, SuppliedClientExists
<1>2. /\ call[k] = "queued" /\ call' = [call EXCEPT ![k] = "running"]
      /\ UNCHANGED <<closing, hook, adapter, internal, aborted>>
  BY DEF Begin, Invoke
<1>3. closing \in {"open", "waiting"} /\ \A h \in Hook : hook[h] = "none"
  BY <1>2, QuietAtCleanup
<1>4. \A x \in Client : client[x] # "closed"
  BY <1>0, <1>3 DEF HookCloses
<1>5. at[k].step = "out"
  BY <1>0, <1>2 DEF Places
<1>6. \A l \in Call : (l = k \/ call[l] = "running") => call'[l] = "running"
  BY <1>0, <1>2 DEF DisposalTypeOK
<1>7. IsSupplied' = IsSupplied
  BY <1>2 DEF IsSupplied
\* What the call finds: an open client, nothing, or a client to connect.
<1>8. ASSUME NEW p \in [step : {"failed", "importing", "waiting", "given", "borrowing", "using"},
                        on : Client \cup {NoClient}],
             at' = [at EXCEPT ![k] = p], client' = client,
             p.step = "importing" => adapter.get \in {"importFirst", "unshared"},
             p.step = "waiting" => adapter.get = "shared",
             Allowed(p),
             ~IsSupplied /\ p.on # NoClient => client[p.on] = "open",
             \/ init' = init
             \/ /\ adapter.get = "shared" /\ p.step = "waiting" /\ init = "none"
                /\ \/ init' = "importing" /\ internal = NoClient
                   \/ init' = "connecting" /\ internal # NoClient /\ ~Usable(internal)
      PROVE  OwnedPart'
  <2>1. /\ at' \in [Call -> [step : Steps, on : Client \cup {NoClient}]]
        /\ at'[k] = p
        /\ \A l \in Call : l # k => at'[l] = at[l]
    <3>1. p \in [step : Steps, on : Client \cup {NoClient}]
      BY DEF Steps, Awaits
    <3>2. QED BY <1>0, <1>8, <3>1, Moved
  <2>2. OwnedTypes'
    BY <1>0, <1>2, <1>8, <2>1 DEF OwnedTypes
  <2>3. Places'
    BY <1>0, <1>2, <1>6, <1>7, <1>8, <2>1 DEF Places, MayGoOn, Allowed
  <2>4. \A l \in Call : at[l].step = "waiting" => at'[l].step = "waiting"
    BY <1>5, <2>1
  <2>5. CASE init' = init
    <3>1. Attempt'
      BY <1>0, <1>2, <1>8, <2>4, <2>5 DEF Attempt
    <3>2. OwnedClients'
      BY <1>0, <1>2, <1>7, <1>8, <2>1, <2>5 DEF OwnedClients, Live, UsesOpenClient
    <3>3. QED
      BY <1>0, <1>2, <1>3, <1>7, <1>8, <2>1, <2>2, <2>3, <3>1, <3>2
      DEF OwnedPart, SuppliedAlone, HookCloses
  <2>6. CASE /\ adapter.get = "shared" /\ p.step = "waiting" /\ init = "none"
             /\ \/ init' = "importing" /\ internal = NoClient
                \/ init' = "connecting" /\ internal # NoClient /\ ~Usable(internal)
    <3>1. ~IsSupplied BY <2>6 DEF IsSupplied
    <3>2. internal # NoClient => client[internal] \in {"made", "open", "lost"}
      BY <1>0, <1>4, <3>1 DEF OwnedClients, OwnedTypes
    <3>3. Attempt'
      BY <1>2, <1>8, <2>1, <2>6, <3>2 DEF Attempt, Usable
    <3>4. OwnedClients'
      BY <1>0, <1>2, <1>7, <1>8, <2>1, <2>6 DEF OwnedClients, Live, UsesOpenClient
    <3>5. QED
      BY <1>0, <1>2, <1>3, <1>7, <1>8, <2>1, <2>2, <2>3, <3>1, <3>3, <3>4
      DEF OwnedPart, SuppliedAlone, HookCloses
  <2>7. QED BY <1>8, <2>5, <2>6
<1>9. ASSUME NEW x \in Client, Obtains(k, x), ~IsSupplied => client[x] = "open",
             UNCHANGED <<client, init>>
      PROVE  OwnedPart'
  <2>1. at' = [at EXCEPT ![k] = WithClient(x)] BY <1>9 DEF Obtains
  <2>2. QED BY <1>0, <1>8, <1>9, <2>1, WithClientIs DEF Onward
<1>10. ASSUME NEW step \in {"failed", "importing", "waiting"}, Goes(k, step), UNCHANGED client,
              step = "importing" => adapter.get \in {"importFirst", "unshared"},
              step = "waiting" => adapter.get = "shared",
              \/ init' = init
              \/ /\ adapter.get = "shared" /\ step = "waiting" /\ init = "none"
                 /\ \/ init' = "importing" /\ internal = NoClient
                    \/ init' = "connecting" /\ internal # NoClient /\ ~Usable(internal)
       PROVE  OwnedPart'
  BY <1>8, <1>10 DEF Goes, Allowed
<1>11. CASE ~MayGoOn(k)
  BY <1>10, <1>11 DEF Begin
<1>12. CASE GetImportFirst(k)
  BY <1>10, <1>12 DEF GetImportFirst
<1>13. CASE GetUnshared(k)
  <2>1. ~IsSupplied BY <1>13 DEF GetUnshared, IsSupplied
  <2>2. internal # NoClient => internal \in Client /\ client[internal] = "open"
    BY <1>0, <1>1, <1>4, <1>13, <2>1 DEF OwnedClients, OwnedTypes, GetUnshared, Sound
  <2>3. QED BY <1>9, <1>10, <1>13, <2>2 DEF GetUnshared
<1>14. CASE GetShared(k)
  <2>1. Usable(internal) => internal \in Client /\ client[internal] = "open"
    BY <1>0 DEF Usable, OwnedTypes
  <2>2. QED BY <1>0, <1>9, <1>10, <1>14, <2>1 DEF GetShared, OwnedTypes
<1>15. CASE GetSupplied(k)
  <2>1. CASE client[SuppliedClient] \in {"made", "lost"}
    <3>1. /\ at' = [at EXCEPT ![k] = [step |-> "connecting", on |-> NoClient]]
          /\ client' = [client EXCEPT ![SuppliedClient] = "opening"]
          /\ UNCHANGED init
          /\ IsSupplied
      BY <1>15, <2>1 DEF GetSupplied, Goes
    <3>2. /\ at' \in [Call -> [step : Steps, on : Client \cup {NoClient}]]
          /\ at'[k] = [step |-> "connecting", on |-> NoClient]
          /\ \A l \in Call : l # k => at'[l] = at[l]
      BY <1>0, <3>1, Moved DEF Steps, Awaits
    <3>3. \A l \in Call : at[l].step # "connecting"
      BY <1>0, <2>1, <3>1 DEF SuppliedAlone
    <3>4. OwnedTypes'
      BY <1>0, <1>2, <3>1, <3>2 DEF OwnedTypes
    <3>5. Places'
      BY <1>0, <1>2, <1>6, <1>7, <3>1, <3>2 DEF Places, MayGoOn
    <3>6. init = "none" BY <1>0, <3>1 DEF Attempt, IsSupplied
    <3>7. Attempt' BY <3>1, <3>6 DEF Attempt
    <3>8. OwnedClients' BY <1>7, <3>1 DEF OwnedClients
    <3>9. SuppliedAlone'
      BY <1>0, <1>1, <1>2, <1>7, <3>1, <3>2, <3>3 DEF SuppliedAlone, OwnedTypes
    <3>10. HookCloses'
      BY <1>0, <1>2, <1>3, <1>4, <1>7, <3>1 DEF HookCloses, OwnedTypes
    <3>11. QED BY <3>4, <3>5, <3>7, <3>8, <3>9, <3>10 DEF OwnedPart
  <2>2. CASE client[SuppliedClient] \notin {"made", "lost"}
    BY <1>1, <1>9, <1>15, <2>2 DEF GetSupplied
  <2>3. QED BY <2>1, <2>2
<1>16. QED
  BY <1>11, <1>12, <1>13, <1>14, <1>15 DEF Begin

\* A client created after an import is the only one, unless two calls may each
\* create their own.
LEMMA ImportSettlesInv ==
  ASSUME OwnedIInv, NEW k \in Call, ImportSettles(k)
  PROVE  OwnedPart'
<1>0. OwnedTypes /\ Places /\ Attempt /\ OwnedClients /\ SuppliedAlone /\ HookCloses
        /\ DisposalTypeOK
  BY OwnedParts
<1>1. Sound(adapter) BY <1>0, AdapterSound
<1>2. at[k].step = "importing" /\ UNCHANGED <<call, closing, hook, adapter, init, aborted>>
  BY DEF ImportSettles, disposalVars
<1>3. /\ adapter.get \in {"importFirst", "unshared"} /\ ~IsSupplied /\ init = "none"
      /\ adapter.connect = "none" /\ call[k] = "running"
  BY <1>0, <1>1, <1>2 DEF Places, Attempt, IsSupplied, Sound
<1>4. closing \in {"open", "waiting"} /\ \A h \in Hook : hook[h] = "none"
  BY <1>2, QuietAtCleanup
<1>5. \A x \in Client : client[x] # "closed"
  BY <1>0, <1>4 DEF HookCloses
<1>6. ~IsSupplied' BY <1>2, <1>3 DEF IsSupplied
\* The client the check goes on with is open.
<1>7. ASSUME NEW p \in Onward, at' = [at EXCEPT ![k] = p], Allowed(p),
             p.on # NoClient => client'[p.on] = "open",
             \/ UNCHANGED <<client, internal>>
             \/ /\ adapter.get = "unshared" \/ internal = NoClient
                /\ \E x \in Client : Create(x) /\ internal' = x
      PROVE  OwnedPart'
  <2>1. /\ at' \in [Call -> [step : Steps, on : Client \cup {NoClient}]]
        /\ at'[k] = p
        /\ \A l \in Call : l # k => at'[l] = at[l]
    <3>1. p \in [step : Steps, on : Client \cup {NoClient}]
      BY DEF Onward, Steps, Awaits
    <3>2. QED BY <1>0, <1>7, <3>1, Moved
  <2>2. Places'
    BY <1>0, <1>2, <1>3, <1>6, <1>7, <2>1 DEF Places, MayGoOn, Onward, Allowed
  <2>3. Attempt' BY <1>2, <1>3 DEF Attempt
  <2>4. SuppliedAlone' BY <1>6 DEF SuppliedAlone
  <2>5. CASE UNCHANGED <<client, internal>>
    <3>1. OwnedTypes' BY <1>0, <1>2, <2>1, <2>5 DEF OwnedTypes
    <3>2. OwnedClients'
      BY <1>0, <1>2, <1>3, <1>7, <2>1, <2>5 DEF OwnedClients, Live, UsesOpenClient
    <3>3. HookCloses' BY <1>0, <1>2, <1>4, <2>5 DEF HookCloses
    <3>4. QED BY <2>2, <2>3, <2>4, <3>1, <3>2, <3>3 DEF OwnedPart
  <2>6. ASSUME adapter.get = "unshared" \/ internal = NoClient,
               NEW x \in Client, Create(x), internal' = x
        PROVE  OwnedPart'
    <3>1. /\ client[x] = "unmade" /\ client' \in [Client -> {"unmade", "made", "opening", "open",
                                                             "lost", "closed"}]
          /\ client'[x] = "open" /\ \A y \in Client : y # x => client'[y] = client[y]
      BY <1>0, <2>6 DEF Create, OwnedTypes
    <3>2. x # NoClient BY OwnedClientAssumption
    <3>3. OwnedTypes' BY <1>0, <1>2, <2>1, <2>6, <3>1 DEF OwnedTypes
    <3>4. adapter.get # "unshared" => \A y \in Client : ~Live(y)
      BY <1>0, <1>3, <2>6, OwnedClientAssumption DEF OwnedClients
    <3>5. \A y \in Client : Live(y)' => Live(y) \/ y = x
      BY <3>1 DEF Live
    <3>6. UsesOpenClient'
      BY <1>0, <1>3, <1>7, <2>1, <3>1 DEF OwnedClients, UsesOpenClient, OwnedTypes
    <3>7. /\ \A y \in Client :
               /\ client'[y] # "opening"
               /\ client'[y] = "made" => adapter'.connect # "none"
               /\ client'[y] = "lost" => adapter'.connect = "reuse"
      BY <1>0, <1>2, <1>3, <3>1 DEF OwnedClients
    <3>8. OwnedClients'
      BY <1>2, <2>6, <3>1, <3>4, <3>5, <3>6, <3>7 DEF OwnedClients
    <3>9. HookCloses' BY <1>0, <1>2, <1>4, <1>5, <3>1 DEF HookCloses
    <3>10. QED BY <2>2, <2>3, <2>4, <3>3, <3>8, <3>9 DEF OwnedPart
  <2>7. QED BY <1>7, <2>5, <2>6
<1>8. ASSUME NEW x \in Client, Obtains(k, x), client'[x] = "open",
             \/ UNCHANGED <<client, internal>>
             \/ /\ adapter.get = "unshared" \/ internal = NoClient
                /\ Create(x) /\ internal' = x
      PROVE  OwnedPart'
  <2>1. at' = [at EXCEPT ![k] = WithClient(x)] BY <1>8 DEF Obtains
  <2>2. QED BY <1>0, <1>7, <1>8, <2>1, WithClientIs
<1>9. CASE Goes(k, "failed") /\ UNCHANGED <<client, internal>>
  <2>1. at' = [at EXCEPT ![k] = Failed] BY <1>9 DEF Goes, Failed
  <2>2. QED BY <1>7, <1>9, <2>1, FailedIs
<1>10. CASE /\ adapter.get = "importFirst" /\ internal # NoClient
            /\ Obtains(k, internal)
            /\ UNCHANGED <<client, internal>>
  <2>1. internal \in Client /\ client[internal] = "open"
    BY <1>0, <1>3, <1>5, <1>10 DEF OwnedTypes, OwnedClients
  <2>2. QED BY <1>8, <1>10, <2>1
<1>11. ASSUME adapter.get = "unshared" \/ internal = NoClient,
              NEW x \in Client, Create(x), internal' = x, Obtains(k, x)
       PROVE  OwnedPart'
  <2>1. client'[x] = "open" BY <1>0, <1>11 DEF Create, OwnedTypes
  <2>2. QED BY <1>8, <1>11, <2>1
<1>12. QED BY <1>9, <1>10, <1>11 DEF ImportSettles

\* What a step changes that only moves one check on from an await.
LEMMA MoveInv ==
  ASSUME OwnedIInv, NEW k \in Call, NEW p \in [step : Steps, on : Client \cup {NoClient}],
         at' = [at EXCEPT ![k] = p], at[k].step \notin {"out", "waiting"},
         p.step \in {"using", "passed", "failed"},
         p.step = "passed" => MayGoOn(k),
         p.on \in {at[k].on, NoClient},
         UNCHANGED <<call, closing, hook, adapter, client, internal, init, aborted>>
  PROVE  OwnedPart'
<1>0. OwnedTypes /\ Places /\ Attempt /\ OwnedClients /\ SuppliedAlone /\ HookCloses
  BY OwnedParts
<1>1. /\ at' \in [Call -> [step : Steps, on : Client \cup {NoClient}]]
      /\ at'[k] = p
      /\ \A l \in Call : l # k => at'[l] = at[l]
  BY <1>0, Moved
<1>2. call[k] = "running" BY <1>0 DEF Places
<1>3. OwnedTypes' BY <1>0, <1>1 DEF OwnedTypes
<1>4. Places' BY <1>0, <1>1, <1>2 DEF Places, MayGoOn, IsSupplied
<1>5. Attempt' BY <1>0, <1>1 DEF Attempt
<1>6. OwnedClients' BY <1>0, <1>1 DEF OwnedClients, Live, UsesOpenClient, IsSupplied
<1>7. SuppliedAlone'
  BY <1>0, <1>1, SuppliedClientExists DEF SuppliedAlone, IsSupplied
<1>8. HookCloses' BY <1>0 DEF HookCloses, Usable, IsSupplied
<1>9. QED BY <1>3, <1>4, <1>5, <1>6, <1>7, <1>8 DEF OwnedPart

LEMMA BorrowInv ==
  ASSUME OwnedIInv, NEW k \in Call, Borrow(k)
  PROVE  OwnedPart'
<1>0. OwnedTypes BY OwnedParts
<1>1. /\ at[k].step = "borrowing"
      /\ UNCHANGED <<call, closing, hook, adapter, client, internal, init, aborted>>
  BY DEF Borrow, disposalVars
<1>2. PICK p \in [step : {"using", "failed"}, on : {at[k].on, NoClient}] :
        at' = [at EXCEPT ![k] = p]
  <2>1. CASE at' = [at EXCEPT ![k].step = "using"]
    <3>1. [at[k] EXCEPT !.step = "using"] \in [step : {"using", "failed"},
                                               on : {at[k].on, NoClient}]
      BY <1>0 DEF OwnedTypes
    <3>2. QED BY <2>1, <3>1
  <2>2. CASE Goes(k, "failed")
    <3>1. [step |-> "failed", on |-> NoClient] \in [step : {"using", "failed"},
                                                    on : {at[k].on, NoClient}]
      OBVIOUS
    <3>2. QED BY <2>2, <3>1 DEF Goes
  <2>3. QED BY <2>1, <2>2 DEF Borrow
<1>3. p \in [step : Steps, on : Client \cup {NoClient}]
  BY <1>0 DEF OwnedTypes, Steps, Awaits
<1>4. QED BY <1>1, <1>2, <1>3, MoveInv

\* A check that looks at its signal keeps its client, or fails.
LEMMA BeginRequestInv ==
  ASSUME OwnedIInv, NEW k \in Call, BeginRequest(k)
  PROVE  OwnedPart'
<1>0. OwnedTypes BY OwnedParts
<1>1. /\ at[k].step = "given"
      /\ UNCHANGED <<call, closing, hook, adapter, client, internal, init, aborted>>
  BY DEF BeginRequest, disposalVars
<1>2. CASE at' = [at EXCEPT ![k].step = "using"]
  <2> DEFINE p == [at[k] EXCEPT !.step = "using"]
  <2>1. /\ p \in [step : Steps, on : Client \cup {NoClient}]
        /\ p.step = "using" /\ p.on = at[k].on
        /\ at' = [at EXCEPT ![k] = p]
    BY <1>0, <1>2 DEF OwnedTypes, Steps, Awaits
  <2> HIDE DEF p
  <2>2. QED BY <1>1, <2>1, MoveInv
<1>3. CASE Goes(k, "failed")
  <2>1. at' = [at EXCEPT ![k] = Failed] /\ Failed \in [step : Steps, on : Client \cup {NoClient}]
    BY <1>3 DEF Goes, Failed, Steps
  <2>2. QED BY <1>1, <2>1, FailedIs, MoveInv
<1>4. QED BY <1>2, <1>3 DEF BeginRequest

LEMMA ProbesInv ==
  ASSUME OwnedIInv, NEW k \in Call, Probes(k)
  PROVE  OwnedPart'
<1>0. OwnedTypes BY OwnedParts
<1>1. PICK verdict \in {"passed", "failed"} :
        /\ verdict = "passed" => MayGoOn(k)
        /\ at' = [at EXCEPT ![k].step = verdict]
  BY DEF Probes
<1>2. /\ at[k].step = "using"
      /\ UNCHANGED <<call, closing, hook, adapter, client, internal, init, aborted>>
  BY DEF Probes, disposalVars
<1> DEFINE p == [at[k] EXCEPT !.step = verdict]
<1>3. /\ p \in [step : Steps, on : Client \cup {NoClient}]
      /\ p.step = verdict /\ p.on = at[k].on
      /\ at' = [at EXCEPT ![k] = p]
  BY <1>0, <1>1 DEF OwnedTypes, Steps
<1> HIDE DEF p
<1>4. QED BY <1>1, <1>2, <1>3, MoveInv

\* The connect() of the supplied client is awaited by one check alone.
LEMMA SuppliedConnectsInv ==
  ASSUME OwnedIInv, NEW k \in Call, SuppliedConnects(k)
  PROVE  OwnedPart'
<1>0. OwnedTypes /\ Places /\ Attempt /\ SuppliedAlone /\ HookCloses
  BY OwnedParts
<1>1. Sound(adapter) /\ SuppliedClient \in Client
  BY <1>0, AdapterSound, SuppliedClientExists
<1>2. /\ at[k].step = "connecting"
      /\ UNCHANGED <<call, closing, hook, adapter, internal, init, aborted>>
  BY DEF SuppliedConnects, disposalVars
<1>3. IsSupplied /\ IsSupplied' /\ call[k] = "running" /\ init = "none"
  BY <1>0, <1>2 DEF Places, Attempt, IsSupplied
<1>4. \A l \in Call : at[l].step = "connecting" => l = k
  BY <1>0, <1>2, <1>3 DEF SuppliedAlone
<1>5. PICK p \in Onward : at' = [at EXCEPT ![k] = p] /\ Allowed(p)
  <2>1. CASE Obtains(k, SuppliedClient)
    BY <1>0, <1>1, <2>1, WithClientIs DEF Obtains
  <2>2. CASE Goes(k, "failed")
    <3>1. at' = [at EXCEPT ![k] = Failed] BY <2>2 DEF Goes, Failed
    <3>2. QED BY <3>1, FailedIs
  <2>3. QED BY <2>1, <2>2 DEF SuppliedConnects
<1>6. PICK was \in {"open", "made"} : client' = [client EXCEPT ![SuppliedClient] = was]
  BY DEF SuppliedConnects
<1>7. /\ at' \in [Call -> [step : Steps, on : Client \cup {NoClient}]]
      /\ at'[k] = p
      /\ \A l \in Call : l # k => at'[l] = at[l]
  <2>1. p \in [step : Steps, on : Client \cup {NoClient}]
    BY DEF Onward, Steps, Awaits
  <2>2. QED BY <1>0, <1>5, <2>1, Moved
<1>8. OwnedTypes' BY <1>0, <1>2, <1>6, <1>7 DEF OwnedTypes
<1>9. Places' BY <1>0, <1>2, <1>3, <1>5, <1>7 DEF Places, MayGoOn, Onward, Allowed
<1>10. Attempt' BY <1>2, <1>3 DEF Attempt
<1>11. OwnedClients' BY <1>3 DEF OwnedClients
<1>12. SuppliedAlone'
  BY <1>0, <1>1, <1>2, <1>3, <1>4, <1>6, <1>7 DEF SuppliedAlone, OwnedTypes, Onward
<1>13. HookCloses'
  BY <1>0, <1>1, <1>2, <1>3, <1>6 DEF HookCloses, OwnedTypes
<1>14. QED BY <1>8, <1>9, <1>10, <1>11, <1>12, <1>13 DEF OwnedPart

\* A signal never fires for a check that has passed already.
LEMMA AbortInv ==
  ASSUME OwnedIInv, NEW k \in Call, Abort(k)
  PROVE  OwnedPart'
<1>0. OwnedTypes /\ Places /\ Attempt /\ OwnedClients /\ SuppliedAlone /\ HookCloses
  BY OwnedParts
<1>1. /\ aborted' = [aborted EXCEPT ![k] = TRUE]
      /\ UNCHANGED <<call, closing, hook, adapter, client, internal, init, at>>
  BY DEF Abort, disposalVars
<1>2. at[k].step # "passed"
  BY <1>0 DEF Abort, Awaits, Places
<1>3. OwnedTypes' BY <1>0, <1>1 DEF OwnedTypes
<1>4. Places' BY <1>0, <1>1, <1>2 DEF Places, MayGoOn, IsSupplied, OwnedTypes
<1>5. Attempt' /\ SuppliedAlone' /\ HookCloses'
  BY <1>0, <1>1 DEF Attempt, SuppliedAlone, HookCloses, IsSupplied, Usable
<1>6. OwnedClients' BY <1>0, <1>1 DEF OwnedClients, Live, UsesOpenClient, IsSupplied
<1>7. QED BY <1>3, <1>4, <1>5, <1>6 DEF OwnedPart

\* A check that has ended holds no client.
LEMMA EndCheckInv ==
  ASSUME OwnedIInv, NEW k \in Call, EndCheck(k)
  PROVE  OwnedPart'
<1>0. OwnedTypes /\ Places /\ Attempt /\ OwnedClients /\ SuppliedAlone /\ HookCloses
        /\ DisposalTypeOK
  BY OwnedParts
<1>1. /\ at[k].step \in {"passed", "failed"}
      /\ call' = [call EXCEPT ![k] = "settled"]
      /\ at' = [at EXCEPT ![k] = Out]
      /\ aborted' = [aborted EXCEPT ![k] = FALSE]
      /\ UNCHANGED <<closing, hook, adapter, client, internal, init>>
  BY DEF EndCheck, Settle
<1>2. /\ at' \in [Call -> [step : Steps, on : Client \cup {NoClient}]]
      /\ at'[k] = Out
      /\ \A l \in Call : l # k => at'[l] = at[l]
  <2>1. Out \in [step : Steps, on : Client \cup {NoClient}]
    BY DEF Out, Steps
  <2>2. QED BY <1>0, <1>1, <2>1, Moved
<1>3. Out.step = "out" /\ Out.on = NoClient BY DEF Out
<1>4. \A l \in Call : l # k => call'[l] = call[l] /\ aborted'[l] = aborted[l]
  BY <1>0, <1>1 DEF DisposalTypeOK, OwnedTypes
<1>5. OwnedTypes' BY <1>0, <1>1, <1>2 DEF OwnedTypes
<1>6. Places' BY <1>0, <1>1, <1>2, <1>3, <1>4 DEF Places, MayGoOn, IsSupplied
<1>7. Attempt' BY <1>0, <1>1, <1>2 DEF Attempt
<1>8. OwnedClients'
  BY <1>0, <1>1, <1>2, <1>3 DEF OwnedClients, Live, UsesOpenClient, IsSupplied
<1>9. SuppliedAlone'
  BY <1>0, <1>1, <1>2, <1>3 DEF SuppliedAlone, IsSupplied
<1>10. HookCloses' BY <1>0, <1>1 DEF HookCloses, IsSupplied, Usable
<1>11. QED BY <1>5, <1>6, <1>7, <1>8, <1>9, <1>10 DEF OwnedPart

\* A lost client is still the adapter's only one.
LEMMA DropsInv ==
  ASSUME OwnedIInv, NEW x \in Client, Drops(x)
  PROVE  OwnedPart'
<1>0. OwnedTypes /\ Places /\ Attempt /\ OwnedClients /\ SuppliedAlone /\ HookCloses
  BY OwnedParts
<1>1. /\ adapter.connect = "reuse" /\ client[x] = "open"
      /\ client' = [client EXCEPT ![x] = "lost"]
      /\ UNCHANGED <<call, closing, hook, adapter, internal, init, at, aborted>>
  BY DEF Drops, disposalVars
<1>2. /\ client'[x] = "lost" /\ \A y \in Client : y # x => client'[y] = client[y]
      /\ \A y \in Client : Live(y)' <=> Live(y)
  BY <1>0, <1>1 DEF OwnedTypes, Live
<1>3. OwnedTypes' BY <1>0, <1>1 DEF OwnedTypes
<1>4. Places' BY <1>0, <1>1 DEF Places, MayGoOn, IsSupplied
<1>5. Attempt' BY <1>0, <1>1, <1>2 DEF Attempt, OwnedTypes
<1>6. UsesOpenClient => UsesOpenClient'
  BY <1>0, <1>1, <1>2 DEF UsesOpenClient, IsSupplied, OwnedTypes
<1>7. OwnedClients'
  BY <1>0, <1>1, <1>2, <1>6 DEF OwnedClients, IsSupplied, OwnedTypes
<1>8. SuppliedAlone'
  BY <1>0, <1>1, <1>2, SuppliedClientExists DEF SuppliedAlone, IsSupplied, OwnedTypes
<1>9. HookCloses' BY <1>0, <1>1, <1>2 DEF HookCloses, IsSupplied, Usable, OwnedTypes
<1>10. QED BY <1>3, <1>4, <1>5, <1>7, <1>8, <1>9 DEF OwnedPart

\* Everyone who waits is answered, and nobody else moves.
LEMMA Answered ==
  ASSUME OwnedTypes, NEW p \in Onward, Answers(p)
  PROVE  /\ at' \in [Call -> [step : Steps, on : Client \cup {NoClient}]]
         /\ \A k \in Call : at[k].step = "waiting" => at'[k] = p
         /\ \A k \in Call : at[k].step # "waiting" => at'[k] = at[k]
         /\ \A k \in Call : at[k].step = "out" <=> at'[k].step = "out"
  BY DEF Answers, Onward, OwnedTypes, Steps, Awaits

\* A promise that settles answers with one failure, or with one open client.
LEMMA SettlesInv ==
  ASSUME OwnedIInv, NEW p \in Onward, Answers(p), Allowed(p),
         p.on # NoClient => client'[p.on] = "open",
         UNCHANGED <<call, closing, hook, adapter, aborted>>,
         init \in {"importing", "connecting", "closing"},
         \/ init' = "none"
         \/ init' = "failed" /\ adapter.rejected = "kept",
         \/ UNCHANGED client /\ init # "closing"
         \/ /\ init = "closing"
            /\ client' = [x \in Client |-> IF client[x] = "made" THEN "unmade" ELSE client[x]]
         \/ \E x \in Client : /\ client[x] \in {"unmade", "made", "lost"}
                              /\ client' = [client EXCEPT ![x] = "open"]
                              /\ internal' = x,
         \/ internal' = internal
         \/ internal = NoClient /\ internal' # NoClient /\ init = "importing",
         internal' \in Client \cup {NoClient},
         internal' # internal => client'[internal'] = "open"
  PROVE  OwnedPart'
<1>0. OwnedTypes /\ Places /\ Attempt /\ OwnedClients /\ SuppliedAlone /\ HookCloses
  BY OwnedParts
<1>1. /\ at' \in [Call -> [step : Steps, on : Client \cup {NoClient}]]
      /\ \A k \in Call : at[k].step = "waiting" => at'[k] = p
      /\ \A k \in Call : at[k].step # "waiting" => at'[k] = at[k]
      /\ \A k \in Call : at[k].step = "out" <=> at'[k].step = "out"
  BY <1>0, Answered
<1>2. adapter.get = "shared" /\ ~IsSupplied /\ ~IsSupplied'
  BY <1>0 DEF Attempt, IsSupplied
<1>3. closing \in {"open", "waiting"} /\ \A h \in Hook : hook[h] = "none"
  BY QuietAtCleanup
<1>4. \A x \in Client : client[x] # "closed" /\ client'[x] # "closed"
  BY <1>0, <1>3 DEF HookCloses, OwnedTypes
<1>5. OwnedTypes' BY <1>0, <1>1 DEF OwnedTypes
<1>6. Places' BY <1>0, <1>1, <1>2 DEF Places, MayGoOn, Onward, Allowed
<1>7. Attempt' BY <1>2 DEF Attempt
<1>8. SuppliedAlone' BY <1>2 DEF SuppliedAlone
<1>9. HookCloses' BY <1>0, <1>2, <1>3, <1>4 DEF HookCloses
<1>10. /\ \A x \in Client : /\ client'[x] # "opening"
                            /\ client'[x] = "made" => adapter'.connect # "none"
                            /\ client'[x] = "lost" => adapter'.connect = "reuse"
  BY <1>0, <1>2 DEF OwnedClients, OwnedTypes
<1>11. \A x \in Client : Live(x) => x = internal \/ (init = "closing" /\ client[x] = "made")
  BY <1>0, <1>2 DEF OwnedClients
<1>12. \A x \in Client : Live(x)' => x = internal'
  <2>1. CASE UNCHANGED client /\ init # "closing"
    BY <1>0, <1>11, <2>1 DEF Live, Attempt
  <2>2. CASE /\ init = "closing"
             /\ client' = [x \in Client |-> IF client[x] = "made" THEN "unmade" ELSE client[x]]
    BY <1>0, <1>11, <2>2 DEF Live, OwnedTypes
  <2>3. ASSUME NEW x \in Client, client[x] \in {"unmade", "made", "lost"},
               client' = [client EXCEPT ![x] = "open"], internal' = x
        PROVE  \A y \in Client : Live(y)' => y = internal'
    BY <1>0, <1>11, <2>3, OwnedClientAssumption DEF Live, OwnedTypes, Attempt
  <2>4. QED BY <2>1, <2>2, <2>3
<1>13. internal' # NoClient => client'[internal'] # "unmade"
  BY <1>0, <1>2 DEF OwnedClients, OwnedTypes, Attempt
<1>14. UsesOpenClient'
  <2>1. ASSUME NEW x \in Client, client[x] \in {"open", "lost"}
        PROVE  client'[x] \in {"open", "lost"}
    BY <1>0, <2>1 DEF OwnedTypes
  <2>2. QED BY <1>0, <1>1, <1>2, <2>1 DEF OwnedClients, UsesOpenClient, OwnedTypes
<1>15. OwnedClients' BY <1>10, <1>12, <1>13, <1>14 DEF OwnedClients
<1>16. QED BY <1>5, <1>6, <1>7, <1>8, <1>9, <1>15 DEF OwnedPart

\* The shared initialization never makes a second client: a new one is created
\* when there is none, and the next attempt begins when a discarded one is gone.
LEMMA InitSettlesInv == ASSUME OwnedIInv, InitSettles PROVE OwnedPart'
<1>0. OwnedTypes /\ Places /\ Attempt /\ OwnedClients /\ SuppliedAlone /\ HookCloses
  BY OwnedParts
<1>1. Sound(adapter) BY <1>0, AdapterSound
<1>2. /\ init \in {"importing", "connecting", "closing"}
      /\ UNCHANGED <<call, closing, hook, adapter, aborted>>
  BY DEF InitSettles, InitImports, InitConnects, InitCloses, disposalVars
<1>3. adapter.get = "shared" /\ ~IsSupplied /\ ~IsSupplied'
  BY <1>0, <1>2 DEF Attempt, IsSupplied
<1>4. closing \in {"open", "waiting"} /\ \A h \in Hook : hook[h] = "none"
  BY <1>2, QuietAtCleanup
<1>5. \A x \in Client : client[x] # "closed"
  BY <1>0, <1>4 DEF HookCloses
<1>6. \A x \in Client : Live(x) => x = internal \/ (init = "closing" /\ client[x] = "made")
  BY <1>0, <1>3 DEF OwnedClients
<1>7. NoClient \notin Client BY OwnedClientAssumption
\* The promise is rejected.
<1>8. ASSUME Rejects, UNCHANGED internal,
             \/ UNCHANGED client /\ init # "closing"
             \/ /\ init = "closing"
                /\ client' = [x \in Client |-> IF client[x] = "made" THEN "unmade" ELSE client[x]]
      PROVE  OwnedPart'
  <2>1. init' = "none" \/ (init' = "failed" /\ adapter.rejected = "kept")
    BY <1>8 DEF Rejects, Initialized
  <2>2. internal' \in Client \cup {NoClient} BY <1>0, <1>8 DEF OwnedTypes
  <2>3. Answers(Failed) BY <1>8 DEF Rejects
  <2>4. QED BY <1>2, <1>8, <2>1, <2>2, <2>3, FailedIs, SettlesInv
\* The client x is open, and everyone who waits goes on with it.
<1>9. ASSUME NEW x \in Client, init' = "none", Answers(WithClient(x)),
             client[x] \in {"unmade", "made", "lost"},
             client' = [client EXCEPT ![x] = "open"], internal' = x,
             internal = x \/ (internal = NoClient /\ init = "importing")
      PROVE  OwnedPart'
  <2>1. client'[x] = "open" BY <1>0, <1>9 DEF OwnedTypes
  <2>2. /\ WithClient(x) \in Onward /\ Allowed(WithClient(x))
        /\ client'[WithClient(x).on] = "open"
    BY <1>0, <2>1, WithClientIs
  <2>3. \E y \in Client : /\ client[y] \in {"unmade", "made", "lost"}
                          /\ client' = [client EXCEPT ![y] = "open"]
                          /\ internal' = y
    BY <1>9
  <2>4. /\ internal' = internal \/ (internal = NoClient /\ internal' # NoClient
                                      /\ init = "importing")
        /\ internal' \in Client \cup {NoClient}
        /\ internal' # internal => client'[internal'] = "open"
    BY <1>7, <1>9, <2>1
  <2>5. QED BY <1>2, <1>9, <2>2, <2>3, <2>4, SettlesInv
\* The client x is created but still has to be connected.
<1>10. ASSUME NEW x \in Client, init = "importing", adapter.connect # "none",
              client[x] = "unmade", client' = [client EXCEPT ![x] = "made"],
              internal' = x, init' = "connecting", UNCHANGED at
       PROVE  OwnedPart'
  <2>1. client'[x] = "made" /\ \A y \in Client : y # x => client'[y] = client[y]
    BY <1>0, <1>10 DEF OwnedTypes
  <2>2. \A y \in Client : Live(y)' => y = x
    BY <1>0, <1>6, <1>7, <1>10, <2>1 DEF Live, Attempt
  <2>3. OwnedTypes' BY <1>0, <1>2, <1>10 DEF OwnedTypes
  <2>4. Places' BY <1>0, <1>2, <1>3, <1>10 DEF Places, MayGoOn
  <2>5. Attempt' BY <1>0, <1>2, <1>3, <1>7, <1>10, <2>1 DEF Attempt
  <2>6. UsesOpenClient'
    BY <1>0, <1>3, <1>10, <2>1 DEF OwnedClients, UsesOpenClient, OwnedTypes
  <2>7. OwnedClients'
    BY <1>0, <1>2, <1>3, <1>10, <2>1, <2>2, <2>6 DEF OwnedClients
  <2>8. SuppliedAlone' /\ HookCloses'
    BY <1>0, <1>2, <1>3, <1>4, <1>5, <1>10, <2>1 DEF SuppliedAlone, HookCloses
  <2>9. QED BY <2>3, <2>4, <2>5, <2>7, <2>8 DEF OwnedPart
\* The client that did not connect is to be closed, and the adapter has none.
<1>11. ASSUME init = "connecting", adapter.connect = "discard",
              internal' = NoClient, init' = "closing", UNCHANGED <<client, at>>
       PROVE  OwnedPart'
  <2>1. internal \in Client /\ client[internal] = "made"
    BY <1>0, <1>3, <1>11 DEF Attempt, OwnedClients, OwnedTypes
  <2>2. \A y \in Client : Live(y)' => client'[y] = "made"
    BY <1>6, <1>11, <2>1 DEF Live
  <2>3. OwnedTypes' BY <1>0, <1>2, <1>11 DEF OwnedTypes
  <2>4. Places' BY <1>0, <1>2, <1>3, <1>11 DEF Places, MayGoOn
  <2>5. Attempt' BY <1>0, <1>2, <1>11 DEF Attempt
  <2>6. OwnedClients'
    BY <1>0, <1>2, <1>3, <1>11, <2>2 DEF OwnedClients, UsesOpenClient, Live
  <2>7. SuppliedAlone' /\ HookCloses'
    BY <1>0, <1>2, <1>3, <1>4, <1>11 DEF SuppliedAlone, HookCloses
  <2>8. QED BY <2>3, <2>4, <2>5, <2>6, <2>7 DEF OwnedPart
<1>12. CASE InitImports
  <2>1. init = "importing" /\ internal = NoClient BY <1>0, <1>12 DEF InitImports, Attempt
  <2>2. CASE Rejects /\ UNCHANGED <<client, internal>>
    BY <1>8, <2>1, <2>2
  <2>3. ASSUME NEW x \in Client, internal' = x, adapter.connect = "none", Create(x),
               init' = "none", Answers(WithClient(x))
        PROVE  OwnedPart'
    BY <1>9, <2>1, <2>3 DEF Create
  <2>4. QED BY <1>10, <1>12, <2>1, <2>2, <2>3 DEF InitImports
<1>13. CASE InitConnects
  <2>1. init = "connecting" /\ internal \in Client /\ client[internal] \in {"made", "lost"}
    BY <1>0, <1>13 DEF InitConnects, Attempt, OwnedTypes
  <2>2. CASE /\ client' = [client EXCEPT ![internal] = "open"]
             /\ init' = "none" /\ Answers(WithClient(internal))
             /\ UNCHANGED internal
    BY <1>9, <2>1, <2>2
  <2>3. CASE adapter.connect = "reuse" /\ Rejects /\ UNCHANGED <<client, internal>>
    BY <1>8, <2>1, <2>3
  <2>4. QED BY <1>11, <1>13, <2>1, <2>2, <2>3 DEF InitConnects
<1>14. CASE InitCloses
  BY <1>8, <1>14 DEF InitCloses
<1>15. QED BY <1>12, <1>13, <1>14 DEF InitSettles

\* dispose() begins and ends without touching a client.
LEMMA DisposingInv ==
  ASSUME OwnedIInv, (adapter.disposes /\ Dispose /\ UNCHANGED clientVars) \/ Disposing
  PROVE  OwnedPart'
<1>0. OwnedTypes /\ Places /\ Attempt /\ OwnedClients /\ SuppliedAlone /\ HookCloses
  BY OwnedParts
<1>1. UNCHANGED <<clientVars, call>>
  BY DEF Disposing, Dispose, CleanUp, Finish
<1>2. OwnedTypes' /\ Places' /\ Attempt' /\ SuppliedAlone'
  BY <1>0, <1>1
  DEF clientVars, OwnedTypes, Places, Attempt, SuppliedAlone, IsSupplied, MayGoOn
<1>3. OwnedClients'
  BY <1>0, <1>1 DEF clientVars, OwnedClients, IsSupplied, Live, UsesOpenClient
<1>4. HookCloses'
  <2>1. CASE adapter.disposes /\ Dispose
    BY <1>0, <1>1, <2>1 DEF clientVars, Dispose, HookCloses, IsSupplied, Usable
  <2>2. CASE CleanUp
    BY <1>0, <1>1, <2>2 DEF clientVars, CleanUp, HookCloses, IsSupplied, Usable
  <2>3. CASE Finish
    BY <1>0, <1>1, <2>3 DEF clientVars, Finish, HookCloses, IsSupplied, Usable, Ended
  <2>4. QED BY <2>1, <2>2, <2>3 DEF Disposing
<1>5. QED BY <1>2, <1>3, <1>4 DEF OwnedPart

\* The client is closed when no check is left that could have it.
LEMMA CloseOwnedInv ==
  ASSUME OwnedIInv, NEW h \in Hook, CloseOwned(h)
  PROVE  OwnedPart'
<1>0. OwnedTypes /\ Places /\ Attempt /\ OwnedClients /\ SuppliedAlone /\ HookCloses
        /\ DisposalTypeOK
  BY OwnedParts
<1>1. /\ hook[h] = "called"
      /\ \A g \in Hook : g # h => hook'[g] = hook[g]
      /\ UNCHANGED <<call, closing, adapter, internal, init, at, aborted>>
      /\ ~Usable(internal) => client' = client
      /\ Usable(internal) /\ hook'[h] = "ok" => client' = [client EXCEPT ![internal] = "closed"]
      /\ Usable(internal) /\ hook'[h] # "ok" => client' = client
  BY <1>0 DEF CloseOwned, HookSettles, ToClose, DisposalTypeOK
<1>2. closing \notin {"open", "waiting"} BY <1>1, QuietAtCleanup
<1>3. /\ \A k \in Call : at[k].step = "out" /\ at[k].on = NoClient
      /\ init \in {"none", "failed"}
  BY <1>2, QuietAtCleanup
<1>4. Usable(internal) => internal \in Client
  BY <1>0 DEF Usable, OwnedTypes
<1>5. OwnedTypes' BY <1>0, <1>1, <1>4 DEF OwnedTypes
<1>6. Places' BY <1>0, <1>1 DEF Places, MayGoOn, IsSupplied
<1>7. Attempt' BY <1>0, <1>1, <1>3 DEF Attempt
<1>8. \A x \in Client : Live(x)' => Live(x) /\ client'[x] = client[x]
  BY <1>0, <1>1, <1>4 DEF Live, OwnedTypes
<1>9. OwnedClients'
  <2> SUFFICES ASSUME ~IsSupplied PROVE OwnedClients'
    BY <1>1 DEF OwnedClients, IsSupplied
  <2>1. UsesOpenClient' BY <1>1, <1>3 DEF UsesOpenClient
  <2>2. \A x \in Client :
          /\ client'[x] # "opening"
          /\ client'[x] = "made" => adapter'.connect # "none"
          /\ client'[x] = "lost" => adapter'.connect = "reuse"
    BY <1>0, <1>1, <1>4 DEF OwnedClients, OwnedTypes
  <2>3. internal' # NoClient => client'[internal'] # "unmade"
    BY <1>0, <1>1, <1>4 DEF OwnedClients, OwnedTypes
  <2>4. adapter'.get # "unshared" =>
          \A x \in Client : Live(x)' => x = internal' \/ (init' = "closing" /\ client'[x] = "made")
    BY <1>0, <1>1, <1>8 DEF OwnedClients
  <2>5. adapter'.get # "unshared" => \A x, y \in Client : Live(x)' /\ Live(y)' => x = y
    BY <1>0, <1>1, <1>8 DEF OwnedClients
  <2>6. QED BY <2>1, <2>2, <2>3, <2>4, <2>5 DEF OwnedClients
<1>10. SuppliedAlone'
  BY <1>0, <1>1 DEF SuppliedAlone, IsSupplied, Usable
<1>11. HookCloses'
  <2>1. ASSUME Usable(internal), hook'[h] = "ok" PROVE ~Usable(internal)'
    BY <1>0, <1>1, <1>4, <2>1 DEF Usable, OwnedTypes
  <2>2. ASSUME client' = client PROVE Usable(internal)' = Usable(internal)
    BY <1>1, <2>2 DEF Usable
  <2>3. ~IsSupplied' /\ (\E g \in Hook : hook'[g] = "ok") => ~Usable(internal)'
    BY <1>0, <1>1, <2>1, <2>2 DEF HookCloses, IsSupplied
  <2>4. QED BY <1>0, <1>1, <1>2, <2>3 DEF HookCloses
<1>12. QED BY <1>5, <1>6, <1>7, <1>9, <1>10, <1>11 DEF OwnedPart

LEMMA OwnedStutterInv == ASSUME OwnedIInv, UNCHANGED ownedVars PROVE OwnedPart'
<1>0. OwnedTypes /\ Places /\ Attempt /\ OwnedClients /\ SuppliedAlone /\ HookCloses
  BY OwnedParts
<1>1. OwnedTypes' /\ Places' /\ Attempt' /\ SuppliedAlone' /\ HookCloses'
  BY <1>0 DEF ownedVars, disposalVars, clientVars, OwnedTypes, Places, Attempt, SuppliedAlone,
              HookCloses, IsSupplied, MayGoOn, Usable
<1>2. OwnedClients'
  BY <1>0 DEF ownedVars, clientVars, OwnedClients, IsSupplied, Live, UsesOpenClient
<1>3. QED BY <1>1, <1>2 DEF OwnedPart

LEMMA OwnedStepInv == OwnedIInv /\ [OwnedNext]_ownedVars => OwnedIInv'
<1> SUFFICES ASSUME OwnedIInv, [OwnedNext]_ownedVars PROVE OwnedIInv'
  OBVIOUS
<1>1. DisposalIInv'
  BY OwnedSimulation, DisposalStepInv DEF OwnedIInv
<1>2. OwnedPart'
  BY WrapperInv, BeginInv, ImportSettlesInv, BorrowInv, SuppliedConnectsInv, BeginRequestInv,
     AbortInv, ProbesInv, EndCheckInv, DropsInv, InitSettlesInv, DisposingInv, CloseOwnedInv,
     OwnedStutterInv
  DEF OwnedNext
<1>3. QED BY <1>1, <1>2 DEF OwnedIInv

-----------------------------------------------------------------------------
\* The inductive invariant of the adapters with a client.
THEOREM OwnedInvariant == OwnedSpec => []OwnedIInv
  BY OwnedInitInv, OwnedStepInv, PTL DEF OwnedSpec

\* A set whose elements are all equal has at most one.
LEMMA AtMostOne ==
  ASSUME NEW S, \A x, y \in S : x = y
  PROVE  Cardinality(S) <= 1
<1>1. CASE S = {}
  BY <1>1, FS_EmptySet
<1>2. ASSUME NEW x \in S PROVE Cardinality(S) <= 1
  <2>1. S = {x} BY <1>2
  <2>2. Cardinality({x}) = 1 BY FS_Singleton
  <2>3. QED BY <2>1, <2>2
<1>3. QED BY <1>1, <1>2

\* No number of concurrent first calls makes a second client, except in the
\* three adapters that test theirs before the import only.
THEOREM OneOwnedClientTheorem == OwnedSpec => []OneOwnedClient
<1>1. OwnedIInv => OneOwnedClient
  <2> SUFFICES ASSUME OwnedIInv, adapter.get # "unshared"
               PROVE  Cardinality({x \in Client : client[x] \notin {"unmade", "closed"}}) <= 1
    BY DEF OneOwnedClient
  <2>1. \A x, y \in Client : Live(x) /\ Live(y) => x = y
    BY OwnedParts DEF OwnedClients, SuppliedAlone, Live
  <2>2. QED BY <2>1, AtMostOne DEF Live
<1>2. QED BY <1>1, OwnedInvariant, PTL

\* The client of the application is connected by one check at a time, and the
\* adapter never closes it or makes another.
THEOREM SuppliedIsSharedTheorem == OwnedSpec => []SuppliedIsShared
<1>1. OwnedIInv => SuppliedIsShared
  <2> SUFFICES ASSUME OwnedIInv, IsSupplied PROVE SuppliedIsShared
    BY DEF SuppliedIsShared
  <2>1. SuppliedAlone BY OwnedParts
  <2>2. Cardinality({k \in Call : at[k].step = "connecting"}) <= 1
    BY <2>1, AtMostOne DEF SuppliedAlone
  <2>3. QED BY <2>1, <2>2 DEF SuppliedAlone, SuppliedIsShared
<1>2. QED BY <1>1, OwnedInvariant, PTL

\* dispose() closes the client after its last use and before it resolves.
THEOREM ClosedLastTheorem == OwnedSpec => []ClosedLast
<1>1. OwnedIInv => ClosedLast
  <2> SUFFICES ASSUME OwnedIInv PROVE ClosedLast OBVIOUS
  <2>0. OwnedTypes /\ OwnedClients /\ HookCloses /\ EndTellsHooks
    BY OwnedParts DEF OwnedIInv, DisposalIInv
  <2>1. UsesOpenClient BY <2>0 DEF OwnedClients, UsesOpenClient
  <2>2. ASSUME ~IsSupplied, closing = "resolved", NEW x \in Client PROVE client[x] # "open"
    <3>1. ~Usable(internal)
      BY <2>0, <2>2, DisposalAssumption DEF EndTellsHooks, HookCloses
    <3>2. adapter.get # "unshared" /\ init # "closing"
      BY <2>0, <2>2, AdapterSound, QuietAtCleanup DEF HookCloses, Sound
    <3>3. Live(x) => x = internal BY <2>0, <2>2, <3>2 DEF OwnedClients
    <3>4. QED BY <3>1, <3>3, OwnedClientAssumption DEF Live, Usable
  <2>3. QED BY <2>1, <2>2 DEF ClosedLast, NothingLeaks
<1>2. QED BY <1>1, OwnedInvariant, PTL

\* The signal of a check that was aborted keeps it from its request and from
\* success.
LEMMA AbortedStep ==
  ASSUME OwnedIInv, [OwnedNext]_ownedVars, NEW k \in Call, adapter.aborts, aborted[k]
  PROVE  at'[k].step # "passed" /\ (at'[k].step = "using" => at[k].step = "using")
<1>0. OwnedTypes /\ Places /\ Attempt
  BY OwnedParts
<1>1. Sound(adapter) BY <1>0, AdapterSound
<1>2. ~MayGoOn(k) /\ at[k].step # "passed" /\ adapter.pool = 0
  BY <1>0, <1>1 DEF MayGoOn, Places, Sound
<1>3. ASSUME at'[k] = at[k]
      PROVE  at'[k].step # "passed" /\ (at'[k].step = "using" => at[k].step = "using")
  BY <1>2, <1>3
<1>4. ASSUME NEW x, WithClient(x).step \in {"passed", "using"} PROVE FALSE
  BY <1>4 DEF WithClient
<1>5. ASSUME NEW step \in {"failed", "importing", "waiting", "connecting"}, Goes(k, step)
      PROVE  at'[k].step \notin {"passed", "using"}
  BY <1>0, <1>5 DEF Goes, OwnedTypes
<1>6. ASSUME NEW x, Obtains(k, x) PROVE at'[k].step \notin {"passed", "using"}
  BY <1>0, <1>4, <1>6 DEF Obtains, OwnedTypes
<1>7. ASSUME NEW l \in Call, l # k, NEW p, at' = [at EXCEPT ![l] = p] PROVE at'[k] = at[k]
  BY <1>0, <1>7 DEF OwnedTypes
<1>8. ASSUME NEW l \in Call, Begin(l)
      PROVE  at'[k].step # "passed" /\ (at'[k].step = "using" => at[k].step = "using")
  <2>1. CASE l = k
    BY <1>2, <1>5, <1>8, <2>1 DEF Begin
  <2>2. CASE l # k
    BY <1>3, <1>7, <1>8, <2>2
    DEF Begin, GetImportFirst, GetUnshared, GetShared, GetSupplied, Goes, Obtains
  <2>3. QED BY <2>1, <2>2
<1>9. ASSUME NEW l \in Call, ImportSettles(l) \/ SuppliedConnects(l)
      PROVE  at'[k].step # "passed" /\ (at'[k].step = "using" => at[k].step = "using")
  <2>1. (\E x : Obtains(l, x)) \/ Goes(l, "failed")
    BY <1>9 DEF ImportSettles, SuppliedConnects
  <2>2. CASE l = k
    BY <1>5, <1>6, <2>1, <2>2
  <2>3. CASE l # k
    BY <1>3, <1>7, <2>1, <2>3 DEF Goes, Obtains
  <2>4. QED BY <2>2, <2>3
<1>10. ASSUME NEW l \in Call, Borrow(l) \/ BeginRequest(l)
       PROVE  at'[k].step # "passed" /\ (at'[k].step = "using" => at[k].step = "using")
  <2>1. CASE Borrow(l)
    BY <1>0, <1>1, <1>2, <2>1 DEF Borrow, Places, Sound, Goes, OwnedTypes
  <2>2. CASE BeginRequest(l) /\ l # k
    BY <1>3, <1>7, <2>2 DEF BeginRequest, Goes
  <2>3. CASE BeginRequest(l) /\ l = k
    BY <1>2, <1>5, <2>3 DEF BeginRequest
  <2>4. QED BY <1>10, <2>1, <2>2, <2>3
<1>11. ASSUME NEW l \in Call, Probes(l)
       PROVE  at'[k].step # "passed" /\ (at'[k].step = "using" => at[k].step = "using")
  BY <1>0, <1>2, <1>11 DEF Probes, OwnedTypes
<1>12. ASSUME NEW l \in Call, EndCheck(l)
       PROVE  at'[k].step # "passed" /\ (at'[k].step = "using" => at[k].step = "using")
  BY <1>0, <1>3, <1>12 DEF EndCheck, Out, OwnedTypes
<1>13. CASE InitSettles
  <2>1. \/ at'[k] = at[k]
        \/ at'[k] = Failed
        \/ \E x : at'[k] = WithClient(x)
    <3>1. ASSUME Rejects PROVE at'[k] = at[k] \/ at'[k] = Failed
      BY <3>1 DEF Rejects, Answers
    <3>2. CASE InitImports
      <4>1. CASE Rejects BY <3>1, <4>1
      <4>2. ASSUME NEW x \in Client, Answers(WithClient(x))
            PROVE  at'[k] = at[k] \/ at'[k] = WithClient(x)
        BY <4>2 DEF Answers
      <4>3. CASE UNCHANGED at BY <4>3
      <4>4. QED BY <3>2, <4>1, <4>2, <4>3 DEF InitImports
    <3>3. CASE InitConnects
      <4>1. CASE Rejects BY <3>1, <4>1
      <4>2. CASE Answers(WithClient(internal)) BY <4>2 DEF Answers
      <4>3. CASE UNCHANGED at BY <4>3
      <4>4. QED BY <3>3, <4>1, <4>2, <4>3 DEF InitConnects
    <3>4. CASE InitCloses BY <3>1, <3>4 DEF InitCloses
    <3>5. QED BY <1>13, <3>2, <3>3, <3>4 DEF InitSettles
  <2>2. Failed.step = "failed" BY DEF Failed
  <2>3. QED BY <1>3, <1>4, <2>1, <2>2
<1>14. ASSUME \/ \E l \in Call : Wrapper(l) \/ Abort(l)
              \/ \E x \in Client : Drops(x)
              \/ \E h \in Hook : CloseOwned(h)
              \/ Disposing
              \/ UNCHANGED clientVars
       PROVE  at'[k].step # "passed" /\ (at'[k].step = "using" => at[k].step = "using")
  BY <1>3, <1>14 DEF Wrapper, Abort, Drops, CloseOwned, Disposing, clientVars
<1>15. QED
  BY <1>8, <1>9, <1>10, <1>11, <1>12, <1>13, <1>14 DEF OwnedNext, ownedVars

\* A check whose signal has fired neither begins its request nor reports
\* success, at whichever await it was.
THEOREM AbortedCheckTheorem == OwnedSpec => AbortedCheckFails
<1>1. OwnedIInv /\ [OwnedNext]_ownedVars =>
        [\A k \in Call :
           adapter.aborts /\ aborted[k] =>
             /\ at'[k].step # "passed"
             /\ at'[k].step = "using" => at[k].step = "using"]_ownedVars
  BY AbortedStep
<1>2. QED BY <1>1, OwnedInvariant, PTL DEF OwnedSpec, AbortedCheckFails

\* Only a kept promise hands an old failure to a call that begins.
LEMMA BeginsAfresh ==
  ASSUME OwnedIInv, [OwnedNext]_ownedVars, NEW k \in Call,
         at[k].step = "out", at'[k].step = "failed"
  PROVE  adapter.rejected = "kept" \/ aborted[k]
<1>0. OwnedTypes /\ Attempt
  BY OwnedParts
<1>1. ASSUME at'[k] = at[k] PROVE FALSE
  BY <1>1
<1>2. ASSUME NEW l \in Call, l # k, NEW p, at' = [at EXCEPT ![l] = p] PROVE FALSE
  BY <1>0, <1>1, <1>2 DEF OwnedTypes
<1>3. ASSUME NEW l \in Call, Begin(l) PROVE adapter.rejected = "kept" \/ aborted[k]
  <2>1. CASE l # k
    BY <1>2, <1>3, <2>1
    DEF Begin, GetImportFirst, GetUnshared, GetShared, GetSupplied, Goes, Obtains
  <2>2. CASE l = k /\ ~MayGoOn(k)
    BY <2>2 DEF MayGoOn
  <2>3. CASE l = k /\ MayGoOn(k)
    <3>1. ASSUME NEW step \in {"importing", "waiting", "connecting"}, Goes(k, step) PROVE FALSE
      BY <1>0, <3>1 DEF Goes, OwnedTypes
    <3>2. ASSUME NEW x, Obtains(k, x) PROVE FALSE
      BY <1>0, <2>3, <3>2 DEF Obtains, WithClient, OwnedTypes
    <3>3. init = "failed" => adapter.rejected = "kept"
      BY <1>0 DEF Attempt
    <3>4. QED
      BY <1>3, <2>3, <3>1, <3>2, <3>3
      DEF Begin, GetImportFirst, GetUnshared, GetShared, GetSupplied
  <2>4. QED BY <2>1, <2>2, <2>3
<1>4. ASSUME NEW l \in Call, at[l].step # "out", NEW p, at' = [at EXCEPT ![l] = p] PROVE FALSE
  BY <1>2, <1>4
<1>5. ASSUME NEW l \in Call,
             \/ ImportSettles(l) \/ SuppliedConnects(l) \/ BeginRequest(l)
             \/ Borrow(l) \/ Probes(l) \/ EndCheck(l)
      PROVE  FALSE
  BY <1>4, <1>5
  DEF ImportSettles, SuppliedConnects, BeginRequest, Borrow, Probes, EndCheck, Goes, Obtains
<1>6. CASE InitSettles
  BY <1>1, <1>6
  DEF InitSettles, InitImports, InitConnects, InitCloses, Rejects, Answers
<1>7. ASSUME \/ \E l \in Call : Wrapper(l) \/ Abort(l)
             \/ \E x \in Client : Drops(x)
             \/ \E h \in Hook : CloseOwned(h)
             \/ Disposing
             \/ UNCHANGED clientVars
      PROVE  FALSE
  BY <1>1, <1>7 DEF Wrapper, Abort, Drops, CloseOwned, Disposing, clientVars
<1>8. QED BY <1>3, <1>5, <1>6, <1>7 DEF OwnedNext, ownedVars

\* A call that begins after an initialization has failed starts or joins
\* another attempt.
THEOREM NoInheritedFailureTheorem == OwnedSpec => NoInheritedFailure
<1>1. OwnedIInv /\ [OwnedNext]_ownedVars =>
        [\A k \in Call :
           at[k].step = "out" /\ at'[k].step = "failed" =>
             adapter.rejected = "kept" \/ aborted[k]]_ownedVars
  BY BeginsAfresh
<1>2. QED BY <1>1, OwnedInvariant, PTL DEF OwnedSpec, NoInheritedFailure

-----------------------------------------------------------------------------
\* The checks that have a connection of client x.
Holders(x) == {k \in Call : at[k].step \in {"using", "passed", "failed"} /\ at[k].on = x}

\* A pool lends no more than it has, and counts exactly what checks have: a
\* connection is released on every path, once.
LentIsHeld ==
  /\ lent \in [Client -> Nat]
  /\ \A x \in Client :
       /\ adapter.pool = 0 => lent[x] = 0
       /\ adapter.pool > 0 => IsFiniteSet(Holders(x)) /\ lent[x] = Cardinality(Holders(x))
       /\ lent[x] <= adapter.pool

LEMMA LentInitInv == OwnedInit => LentIsHeld
<1> SUFFICES ASSUME OwnedInit PROVE LentIsHeld
  OBVIOUS
<1>1. adapter.pool \in Nat
  BY AdaptersSound DEF OwnedInit, Sound
<1>2. lent \in [Client -> Nat] /\ \A x \in Client : lent[x] = 0
  BY DEF OwnedInit
<1>3. \A x \in Client : Holders(x) = {}
  BY DEF OwnedInit, Holders, Out
<1>4. QED BY <1>1, <1>2, <1>3, FS_EmptySet DEF LentIsHeld

\* Nothing is lent, nor given back, while the same checks hold connections.
LEMMA SameHolders ==
  ASSUME LentIsHeld, UNCHANGED <<adapter, lent>>,
         adapter.pool > 0 => \A x \in Client : Holders(x)' = Holders(x)
  PROVE  LentIsHeld'
  BY DEF LentIsHeld

\* A check that had no connection is given a client, or none.
LEMMA NotYetHeld ==
  ASSUME OwnedTypes, NEW k \in Call, NEW p, at' = [at EXCEPT ![k] = p],
         at[k].step \notin {"using", "passed", "failed"},
         p.step \in {"using", "passed", "failed"} => p.on = NoClient
  PROVE  \A x \in Client : Holders(x)' = Holders(x)
<1> SUFFICES ASSUME NEW x \in Client PROVE Holders(x)' = Holders(x)
  OBVIOUS
<1>1. at'[k] = p /\ \A l \in Call : l # k => at'[l] = at[l]
  BY DEF OwnedTypes
<1>2. k \notin Holders(x) /\ k \notin Holders(x)'
  BY <1>1, OwnedClientAssumption DEF Holders
<1>3. QED BY <1>1, <1>2 DEF Holders

\* The count of one pool and its holders change together.
LEMMA OneCountChanges ==
  ASSUME LentIsHeld, adapter.pool \in Nat \ {0}, UNCHANGED adapter,
         NEW x \in Client, NEW n \in Nat, n <= adapter.pool,
         lent' = [lent EXCEPT ![x] = n],
         IsFiniteSet(Holders(x)'), Cardinality(Holders(x)') = n,
         \A y \in Client : y # x => Holders(y)' = Holders(y)
  PROVE  LentIsHeld'
<1>1. lent' \in [Client -> Nat] BY DEF LentIsHeld
<1>2. adapter'.pool # 0 OBVIOUS
<1>3. ASSUME NEW y \in Client
      PROVE  /\ IsFiniteSet(Holders(y)') /\ lent'[y] = Cardinality(Holders(y)')
             /\ lent'[y] <= adapter'.pool
  <2>1. CASE y = x
    <3>1. lent'[y] = n BY <2>1 DEF LentIsHeld
    <3>2. QED BY <2>1, <3>1
  <2>2. CASE y # x
    <3>1. lent'[y] = lent[y] BY <2>2 DEF LentIsHeld
    <3>2. /\ IsFiniteSet(Holders(y)) /\ lent[y] = Cardinality(Holders(y))
          /\ lent[y] <= adapter.pool
      BY DEF LentIsHeld
    <3>3. QED BY <2>2, <3>1, <3>2
  <2>3. QED BY <2>1, <2>2
<1>4. QED BY <1>1, <1>2, <1>3 DEF LentIsHeld

LEMMA BorrowLends ==
  ASSUME OwnedIInv, LentIsHeld, NEW k \in Call, Borrow(k)
  PROVE  LentIsHeld'
<1>0. OwnedTypes /\ Places
  BY OwnedParts
<1>1. at[k].step = "borrowing" /\ adapter.pool > 0 /\ UNCHANGED adapter
  BY <1>0 DEF Borrow, Places
<1>2. CASE Goes(k, "failed") /\ UNCHANGED lent
  BY <1>0, <1>1, <1>2, NotYetHeld, SameHolders DEF Goes
<1>3. CASE /\ lent[at[k].on] < adapter.pool
           /\ lent' = [lent EXCEPT ![at[k].on] = @ + 1]
           /\ at' = [at EXCEPT ![k].step = "using"]
  <2>1. PICK x \in Client : x = at[k].on
    BY <1>0, <1>1 DEF OwnedTypes, Places
  <2>2. /\ at'[k].step = "using" /\ at'[k].on = x
        /\ \A l \in Call : l # k => at'[l] = at[l]
    BY <1>0, <1>3, <2>1 DEF OwnedTypes
  <2>3. k \notin Holders(x) /\ Holders(x)' = Holders(x) \cup {k}
    BY <1>1, <2>1, <2>2 DEF Holders
  <2>4. \A y \in Client : y # x => Holders(y)' = Holders(y)
    BY <1>1, <2>1, <2>2 DEF Holders
  <2>5. lent' = [lent EXCEPT ![x] = lent[x] + 1]
    BY <1>3, <2>1
  <2>6. IsFiniteSet(Holders(x)) /\ Cardinality(Holders(x)) = lent[x] /\ lent[x] \in Nat
    BY <1>1, <2>1 DEF LentIsHeld
  <2>7. IsFiniteSet(Holders(x)') /\ Cardinality(Holders(x)') = lent[x] + 1
    BY <2>3, <2>6, FS_AddElement
  <2>8. adapter.pool \in Nat \ {0}
    BY <1>0, <1>1, AdapterSound DEF Sound
  <2>9. lent[x] + 1 <= adapter.pool
    BY <1>3, <2>1, <2>6, <2>8
  <2>10. lent[x] + 1 \in Nat BY <2>6
  <2>11. QED BY <1>1, <2>4, <2>5, <2>7, <2>8, <2>9, <2>10, OneCountChanges
<1>4. QED BY <1>2, <1>3 DEF Borrow

LEMMA EndCheckReleases ==
  ASSUME OwnedIInv, LentIsHeld, NEW k \in Call, EndCheck(k)
  PROVE  LentIsHeld'
<1>0. OwnedTypes
  BY OwnedParts
<1>1. at[k].step \in {"passed", "failed"} /\ at' = [at EXCEPT ![k] = Out] /\ UNCHANGED adapter
  BY DEF EndCheck
<1>2. /\ at'[k].step = "out" /\ at'[k].on = NoClient
      /\ \A l \in Call : l # k => at'[l] = at[l]
  BY <1>0, <1>1 DEF OwnedTypes, Out
<1>3. CASE adapter.pool > 0 /\ at[k].on # NoClient
  <2>1. PICK x \in Client : x = at[k].on
    BY <1>0, <1>3 DEF OwnedTypes
  <2>2. k \in Holders(x) /\ Holders(x)' = Holders(x) \ {k}
    BY <1>1, <1>2, <2>1 DEF Holders
  <2>3. \A y \in Client : y # x => Holders(y)' = Holders(y)
    BY <1>1, <1>2, <2>1 DEF Holders
  <2>4. lent' = [lent EXCEPT ![x] = @ - 1]
    BY <1>3, <2>1 DEF EndCheck
  <2>5. IsFiniteSet(Holders(x)) /\ Cardinality(Holders(x)) = lent[x] /\ lent[x] \in Nat
    BY <1>3, <2>1 DEF LentIsHeld
  <2>6. IsFiniteSet(Holders(x)') /\ Cardinality(Holders(x)') = lent[x] - 1
    BY <2>2, <2>5, FS_RemoveElement
  <2>7. lent[x] - 1 \in Nat
    <3>1. lent[x] # 0 BY <2>2, <2>5, FS_EmptySet
    <3>2. QED BY <2>5, <3>1
  <2>8. adapter.pool \in Nat \ {0}
    BY <1>0, <1>3, AdapterSound DEF Sound
  <2>9. lent[x] - 1 <= adapter.pool
    BY <2>1, <2>5, <2>8 DEF LentIsHeld
  <2>10. lent' = [lent EXCEPT ![x] = lent[x] - 1]
    BY <2>4
  <2>11. QED BY <1>1, <2>1, <2>3, <2>6, <2>7, <2>8, <2>9, <2>10, OneCountChanges
<1>4. CASE ~(adapter.pool > 0 /\ at[k].on # NoClient)
  <2>1. UNCHANGED lent BY <1>4 DEF EndCheck
  <2>2. adapter.pool > 0 => \A x \in Client : Holders(x)' = Holders(x)
    BY <1>2, <1>4, OwnedClientAssumption DEF Holders
  <2>3. QED BY <1>1, <2>1, <2>2, SameHolders
<1>5. QED BY <1>3, <1>4

LEMMA LentStepInv == OwnedIInv /\ LentIsHeld /\ [OwnedNext]_ownedVars => LentIsHeld'
<1> SUFFICES ASSUME OwnedIInv, LentIsHeld, [OwnedNext]_ownedVars PROVE LentIsHeld'
  OBVIOUS
<1>0. OwnedTypes /\ Places /\ adapter.pool \in Nat
  BY OwnedParts, AdapterSound DEF Sound
<1>1. ASSUME NEW k \in Call, NEW step \in Steps, Goes(k, step), UNCHANGED <<adapter, lent>>,
             at[k].step \notin {"using", "passed", "failed"}
      PROVE  LentIsHeld'
  BY <1>0, <1>1, NotYetHeld, SameHolders DEF Goes
<1>2. ASSUME NEW k \in Call, NEW x, Obtains(k, x), UNCHANGED <<adapter, lent>>,
             at[k].step \notin {"using", "passed", "failed"}
      PROVE  LentIsHeld'
  <2>1. adapter.pool > 0 => WithClient(x).step \notin {"using", "passed", "failed"}
    BY DEF WithClient
  <2>2. QED BY <1>0, <1>2, <2>1, NotYetHeld, SameHolders DEF Obtains
<1>3. ASSUME NEW k \in Call, Begin(k) PROVE LentIsHeld'
  <2>1. at[k].step = "out" /\ UNCHANGED <<adapter, lent>>
    BY <1>0, <1>3 DEF Begin, Invoke, Places
  <2>2. (\E x : Obtains(k, x)) \/ \E step \in Steps : Goes(k, step)
    BY <1>3
    DEF Begin, GetImportFirst, GetUnshared, GetShared, GetSupplied, Steps, Awaits
  <2>3. QED BY <1>1, <1>2, <2>1, <2>2
<1>4. ASSUME NEW k \in Call, ImportSettles(k) \/ SuppliedConnects(k) PROVE LentIsHeld'
  <2>1. (\E x : Obtains(k, x)) \/ \E step \in Steps : Goes(k, step)
    BY <1>4 DEF ImportSettles, SuppliedConnects, Steps
  <2>2. at[k].step \notin {"using", "passed", "failed"} /\ UNCHANGED <<adapter, lent>>
    BY <1>4 DEF ImportSettles, SuppliedConnects
  <2>3. QED BY <1>1, <1>2, <2>1, <2>2
<1>5. ASSUME NEW k \in Call, BeginRequest(k) PROVE LentIsHeld'
  <2>1. adapter.pool = 0
    BY <1>0, <1>5, OwnedParts, AdapterSound DEF BeginRequest, Places, Sound
  <2>2. QED BY <1>5, <2>1, SameHolders DEF BeginRequest
<1>6. ASSUME NEW k \in Call, Probes(k) PROVE LentIsHeld'
  <2>1. /\ at[k].step = "using" /\ at'[k].step \in {"passed", "failed"} /\ at'[k].on = at[k].on
        /\ \A l \in Call : l # k => at'[l] = at[l]
    BY <1>0, <1>6 DEF Probes, OwnedTypes
  <2>2. \A x \in Client : Holders(x)' = Holders(x)
    BY <2>1 DEF Holders
  <2>3. QED BY <1>6, <2>2, SameHolders DEF Probes
<1>7. CASE InitSettles
  <2>1. UNCHANGED <<adapter, lent>> BY <1>7 DEF InitSettles
  <2>2. ASSUME adapter.pool > 0, NEW k \in Call
        PROVE  \/ at'[k] = at[k]
               \/ /\ at[k].step = "waiting"
                  /\ at'[k].step \in {"given", "borrowing"} \/ at'[k].on = NoClient
    <3>1. CASE InitImports
      BY <2>2, <3>1 DEF InitImports, Rejects, Answers, WithClient, Failed
    <3>2. CASE InitConnects
      BY <2>2, <3>2 DEF InitConnects, Rejects, Answers, WithClient, Failed
    <3>3. CASE InitCloses
      BY <2>2, <3>3 DEF InitCloses, Rejects, Answers, Failed
    <3>4. QED BY <1>7, <3>1, <3>2, <3>3 DEF InitSettles
  <2>3. adapter.pool > 0 => \A x \in Client : Holders(x)' = Holders(x)
    BY <2>2, OwnedClientAssumption DEF Holders
  <2>4. QED BY <2>1, <2>3, SameHolders
<1>8. CASE UNCHANGED <<adapter, at, lent>>
  BY <1>8, SameHolders DEF Holders
<1>9. QED
  BY <1>3, <1>4, <1>5, <1>6, <1>7, <1>8, BorrowLends, EndCheckReleases
  DEF OwnedNext, ownedVars, clientVars, Wrapper, Abort, Drops, CloseOwned, Disposing

\* However many checks compete for a pool, it lends what it has, and every
\* connection it lent is held by a check: none is lost on any path.
THEOREM LentIsHeldTheorem == OwnedSpec => [](OwnedTypeOK /\ LentIsHeld)
<1>1. OwnedIInv /\ LentIsHeld => OwnedTypeOK
  BY OwnedParts DEF OwnedTypeOK, OwnedTypes, LentIsHeld
<1>2. QED BY <1>1, OwnedInvariant, LentInitInv, LentStepInv, PTL DEF OwnedSpec

\* A pool is whole when the cleanup closes it.
THEOREM PoolIsWholeTheorem ==
  OwnedSpec => []((\E h \in Hook : hook[h] # "none") => \A x \in Client : lent[x] = 0)
<1>1. OwnedIInv /\ LentIsHeld =>
        ((\E h \in Hook : hook[h] # "none") => \A x \in Client : lent[x] = 0)
  <2> SUFFICES ASSUME OwnedIInv, LentIsHeld, NEW h \in Hook, hook[h] # "none", NEW x \in Client
               PROVE  lent[x] = 0
    OBVIOUS
  <2>1. \A k \in Call : at[k].step = "out" BY QuietAtCleanup
  <2>2. Holders(x) = {} BY <2>1 DEF Holders
  <2>3. adapter.pool \in Nat BY OwnedParts, AdapterSound DEF Sound
  <2>4. QED BY <2>2, <2>3, FS_EmptySet DEF LentIsHeld
<1>2. QED BY <1>1, OwnedInvariant, LentInitInv, LentStepInv, PTL DEF OwnedSpec
-----------------------------------------------------------------------------
(***************************************************************************)
(* The safety behind EveryCallEnds: no check waits for another one that    *)
(* will not get on.                                                        *)
(***************************************************************************)
\* A shared promise that has not settled: somebody's import or connection is
\* still out.
InitUnderWay == init \in {"importing", "connecting", "closing"}

\* A check that was called waits for the driver alone, or is about to end; or
\* for a promise that has not settled; or for a connection that is free, or
\* that another check holds and gives back.
CallGoesOn(k) ==
  \/ at[k].step \in {"importing", "connecting", "given", "using", "passed", "failed"}
  \/ at[k].step = "waiting" /\ InitUnderWay
  \/ /\ at[k].step = "borrowing"
     /\ \/ lent[at[k].on] < adapter.pool
        \/ \E l \in Holders(at[k].on) : l # k

\* No running check is stranded, however many share a client and its pool.
NoCallStranded == \A k \in Call : call[k] = "running" => CallGoesOn(k)

\* A running check is somewhere in the adapter, and one that waits for the
\* shared promise has one to wait for.
CallsWait ==
  \A k \in Call :
    /\ call[k] = "running" => at[k].step # "out"
    /\ at[k].step = "waiting" => InitUnderWay

\* One check moves to a step at which it does not wait for the shared promise.
LEMMA MovesOn ==
  ASSUME OwnedTypes, CallsWait, NEW k \in Call, NEW p, at' = [at EXCEPT ![k] = p],
         p.step \notin {"out", "waiting"}, UNCHANGED init,
         \A l \in Call : l # k => call'[l] = call[l]
  PROVE  CallsWait'
  BY DEF OwnedTypes, CallsWait, InitUnderWay

\* A check begins: it joins an attempt, begins one, or does not wait for any.
LEMMA BeginWaits ==
  ASSUME OwnedIInv, CallsWait, NEW k \in Call, Begin(k)
  PROVE  CallsWait'
<1>0. OwnedTypes /\ DisposalTypeOK
  BY OwnedParts
<1>1. \A l \in Call : l # k => call'[l] = call[l]
  BY <1>0 DEF Begin, Invoke, DisposalTypeOK
<1>2. ASSUME NEW step \in Steps \ {"out", "waiting"}, Goes(k, step), UNCHANGED init
      PROVE  CallsWait'
  BY <1>0, <1>1, <1>2, MovesOn DEF Goes
<1>3. ASSUME NEW x, Obtains(k, x), UNCHANGED init PROVE CallsWait'
  <2>1. WithClient(x).step \notin {"out", "waiting"}
    BY DEF WithClient
  <2>2. QED BY <1>0, <1>1, <1>3, <2>1, MovesOn DEF Obtains
<1>4. CASE Goes(k, "waiting") /\ InitUnderWay'
  BY <1>0, <1>1, <1>4 DEF Goes, OwnedTypes, CallsWait
<1>5. ASSUME GetShared(k), init # "none", init # "failed", Goes(k, "waiting"), UNCHANGED init
      PROVE  InitUnderWay'
  BY <1>0, <1>5 DEF OwnedTypes, InitUnderWay
<1>6. CASE GetShared(k)
  BY <1>2, <1>3, <1>4, <1>5, <1>6 DEF GetShared, InitUnderWay, Steps
<1>7. QED
  BY <1>2, <1>3, <1>6
  DEF Begin, GetImportFirst, GetUnshared, GetSupplied, Steps, Awaits

\* A promise that settles answers everyone who waits for it.
LEMMA InitWaits ==
  ASSUME OwnedIInv, CallsWait, InitSettles
  PROVE  CallsWait'
<1>0. OwnedTypes /\ UNCHANGED call
  BY OwnedParts DEF InitSettles, disposalVars
<1>1. ASSUME NEW p \in Onward, Answers(p) PROVE CallsWait'
  BY <1>0, <1>1, Answered DEF CallsWait, Onward
<1>2. ASSUME NEW x \in Client, Answers(WithClient(x)) PROVE CallsWait'
  BY <1>0, <1>1, <1>2, WithClientIs
<1>3. CASE Rejects
  BY <1>1, <1>3, FailedIs DEF Rejects
<1>4. CASE UNCHANGED at /\ InitUnderWay'
  BY <1>0, <1>4 DEF CallsWait
<1>5. init = "connecting" => internal \in Client
  BY <1>0, OwnedParts DEF Attempt, OwnedTypes
<1>6. QED
  BY <1>2, <1>3, <1>4, <1>5
  DEF InitSettles, InitImports, InitConnects, InitCloses, InitUnderWay

LEMMA CallsWaitStep == OwnedIInv /\ CallsWait /\ [OwnedNext]_ownedVars => CallsWait'
<1> SUFFICES ASSUME OwnedIInv, CallsWait, [OwnedNext]_ownedVars PROVE CallsWait'
  OBVIOUS
<1>0. OwnedTypes /\ DisposalTypeOK
  BY OwnedParts
<1>1. ASSUME NEW k \in Call, ImportSettles(k) \/ SuppliedConnects(k) PROVE CallsWait'
  <2>1. UNCHANGED <<call, init>>
    BY <1>1 DEF ImportSettles, SuppliedConnects, disposalVars
  <2>2. (\E x : Obtains(k, x)) \/ Goes(k, "failed")
    BY <1>1 DEF ImportSettles, SuppliedConnects
  <2>3. QED BY <1>0, <2>1, <2>2, MovesOn DEF Obtains, WithClient, Goes
<1>2. ASSUME NEW k \in Call, BeginRequest(k) \/ Borrow(k) \/ Probes(k) PROVE CallsWait'
  <2>1. UNCHANGED <<call, init>>
    BY <1>2 DEF BeginRequest, Borrow, Probes, disposalVars
  <2>2. /\ at'[k].step \notin {"out", "waiting"}
        /\ \A l \in Call : l # k => at'[l] = at[l]
    BY <1>0, <1>2 DEF BeginRequest, Borrow, Probes, Goes, OwnedTypes
  <2>3. QED BY <2>1, <2>2 DEF CallsWait, InitUnderWay
<1>3. ASSUME NEW k \in Call, EndCheck(k) PROVE CallsWait'
  <2>1. /\ at'[k].step = "out" /\ call'[k] = "settled" /\ UNCHANGED init
        /\ \A l \in Call : l # k => at'[l] = at[l] /\ call'[l] = call[l]
    BY <1>0, <1>3 DEF EndCheck, Settle, Out, OwnedTypes, DisposalTypeOK
  <2>2. QED BY <2>1 DEF CallsWait, InitUnderWay
<1>4. ASSUME NEW k \in Call, Wrapper(k) PROVE CallsWait'
  <2>1. /\ UNCHANGED <<at, init>>
        /\ \A l \in Call : call'[l] = "running" => call[l] = "running"
    BY <1>0, <1>4 DEF Wrapper, Accept, Refuse, Collect, clientVars, DisposalTypeOK
  <2>2. QED BY <2>1 DEF CallsWait, InitUnderWay
<1>5. CASE UNCHANGED <<at, init, call>>
  BY <1>5 DEF CallsWait, InitUnderWay
<1>6. QED
  BY <1>1, <1>2, <1>3, <1>4, <1>5, BeginWaits, InitWaits
  DEF OwnedNext, ownedVars, clientVars, disposalVars, Abort, Drops, CloseOwned, HookSettles,
      Disposing, Dispose, CleanUp, Finish

\* No running check is stranded: whatever it waits for is the driver's, or
\* another check is about to bring it.
THEOREM NoCallStrandedTheorem == OwnedSpec => []NoCallStranded
<1>1. OwnedInit => CallsWait
  <2> SUFFICES ASSUME OwnedInit PROVE CallsWait
    OBVIOUS
  <2>1. \A k \in Call : at[k] = Out /\ at[k].step = "out"
    BY DEF OwnedInit, Out
  <2>2. \A k \in Call : call[k] = "idle"
    BY DEF OwnedInit, DisposalInit
  <2>3. QED BY <2>1, <2>2 DEF CallsWait
<1>2. OwnedIInv /\ LentIsHeld /\ CallsWait => NoCallStranded
  <2> SUFFICES ASSUME OwnedIInv, LentIsHeld, CallsWait, NEW k \in Call, call[k] = "running"
               PROVE  CallGoesOn(k)
    BY DEF NoCallStranded
  <2>1. /\ at[k].step # "out" /\ (at[k].step = "waiting" => InitUnderWay)
        /\ at[k].step \in Steps
    BY OwnedParts DEF CallsWait, OwnedTypes
  <2>2. CASE at[k].step = "borrowing"
    <3>1. PICK x \in Client : x = at[k].on /\ adapter.pool > 0
      BY <2>2, OwnedParts DEF OwnedTypes, Places
    <3>2. /\ lent[x] \in Nat /\ adapter.pool \in Nat /\ lent[x] <= adapter.pool
          /\ IsFiniteSet(Holders(x)) /\ lent[x] = Cardinality(Holders(x))
      BY <3>1, OwnedParts, AdapterSound DEF LentIsHeld, Sound
    <3>3. CASE lent[x] < adapter.pool
      BY <2>2, <3>1, <3>3 DEF CallGoesOn
    <3>4. CASE lent[x] = adapter.pool
      <4>1. PICK l \in Holders(x) : TRUE
        <5>1. lent[x] # 0 BY <3>1, <3>2, <3>4
        <5>2. Holders(x) # {} BY <3>2, <5>1, FS_EmptySet
        <5>3. QED BY <5>2
      <4>2. l # k BY <2>2, <4>1 DEF Holders
      <4>3. QED BY <2>2, <3>1, <4>1, <4>2 DEF CallGoesOn
    <3>5. QED BY <3>2, <3>3, <3>4
  <2>3. QED BY <2>1, <2>2 DEF CallGoesOn, Steps, Awaits
<1>3. QED
  BY <1>1, <1>2, CallsWaitStep, OwnedInvariant, LentInitInv, LentStepInv, PTL DEF OwnedSpec
=============================================================================
