---------------------------- MODULE OwnedClient ----------------------------
(***************************************************************************)
(* An adapter and its client or pool, inside withDisposal.  The adapter    *)
(* creates it lazily and owns it, or is given it by the application.  A    *)
(* caller may call check() directly: nothing keeps two calls apart.        *)
(*                                                                         *)
(* The adapters differ in a few decisions, and each is a record of its own *)
(* decisions; the steps they share are below.                              *)
(***************************************************************************)
EXTENDS Disposal, FiniteSets

CONSTANTS
  Client,     \* identities of the clients the adapter may create
  NoClient,
  MysqlPool   \* connections of the mysql pools

ASSUME OwnedClientAssumption ==
  Client # {} /\ NoClient \notin Client /\ MysqlPool \in Nat \ {0}

-----------------------------------------------------------------------------
(***************************************************************************)
(* The decisions:                                                          *)
(*   get       "importFirst": every call awaits the driver's import, then  *)
(*             tests and sets the client in one turn; "shared": concurrent *)
(*             calls share one initialization promise; "unshared": tests   *)
(*             the client, then awaits the import and sets it; "supplied": *)
(*             it has the client of the application;                       *)
(*   rejected  what becomes of a shared promise that was rejected;         *)
(*   connect   "none": a client is usable once it is created, or its       *)
(*             creation connects it; otherwise it is connected in a second *)
(*             step, and when that fails "reuse": the next attempt takes   *)
(*             the same client, "discard": the client is closed first.     *)
(*             A client with "reuse" tells whether it is open, and a check *)
(*             that finds it closed connects it again;                     *)
(*   pool      connections a check borrows from, 0: it uses the client;    *)
(*   aborts    an aborted check fails with the signal's reason;            *)
(*   loads     with the client at hand, the check imports the class of its *)
(*             command before it makes the request;                        *)
(*   disposes  the adapter has a dispose() that closes the client.         *)
(***************************************************************************)
Lazy == [get |-> "shared", rejected |-> "cleared", connect |-> "none",
         pool |-> 0, aborts |-> FALSE, loads |-> FALSE, disposes |-> TRUE]

pgAdapter          == [Lazy EXCEPT !.get = "importFirst", !.pool = 1]
cockroachPgAdapter == [Lazy EXCEPT !.get = "importFirst", !.pool = 1]
\* The driver queues queries on its one connection itself.
postgresJsAdapter  == [Lazy EXCEPT !.get = "importFirst"]

mysqlAdapter  == [Lazy EXCEPT !.rejected = "kept", !.pool = MysqlPool]
mysql2Adapter == [Lazy EXCEPT !.rejected = "kept", !.pool = MysqlPool]
\* Cleared by the attempt's last statement only.
amqpConnectionManagerAdapter == [Lazy EXCEPT !.rejected = "kept"]

\* The attempt clears the promise in its finally block.
elasticsearchAdapter == [Lazy EXCEPT !.aborts = TRUE]
minioAdapter         == [Lazy EXCEPT !.disposes = FALSE]
sqlite3Adapter       == Lazy
betterSqlite3Adapter == Lazy
libsqlAdapter        == Lazy
amqplibAdapter       == Lazy
nodeRdKafkaAdapter   == Lazy

\* The fulfilled promise is kept and awaited by every call.
ioredisAdapter     == Lazy
iovalkeyAdapter    == Lazy
glideValkeyAdapter == Lazy
memcachedAdapter   == Lazy
memjsAdapter       == Lazy
s3V3Adapter        == [Lazy EXCEPT !.aborts = TRUE, !.loads = TRUE]
dynamoV3Adapter    == [Lazy EXCEPT !.aborts = TRUE, !.loads = TRUE]

nodeRedisAdapter == [Lazy EXCEPT !.connect = "reuse"]
mongooseAdapter  == [Lazy EXCEPT !.connect = "discard"]

s3V2Adapter     == [Lazy EXCEPT !.get = "unshared", !.aborts = TRUE, !.disposes = FALSE]
dynamoV2Adapter == [Lazy EXCEPT !.get = "unshared", !.aborts = TRUE, !.disposes = FALSE]
upstashAdapter  == [Lazy EXCEPT !.get = "unshared", !.disposes = FALSE]

Supplied              == [Lazy EXCEPT !.get = "supplied"]
suppliedPool          == [Supplied EXCEPT !.pool = 1]
suppliedNodeRedis     == [Supplied EXCEPT !.connect = "reuse"]
suppliedS3Client      == [Supplied EXCEPT !.aborts = TRUE, !.loads = TRUE]
suppliedElasticsearch == [Supplied EXCEPT !.aborts = TRUE]
prismaAdapter         == [Supplied EXCEPT !.disposes = FALSE]
drizzleAdapter        == [Supplied EXCEPT !.disposes = FALSE]

Adapters ==
  {Supplied, suppliedPool, suppliedNodeRedis, suppliedS3Client, suppliedElasticsearch,
   prismaAdapter, drizzleAdapter,
   pgAdapter, cockroachPgAdapter, postgresJsAdapter, mysqlAdapter, mysql2Adapter,
   amqpConnectionManagerAdapter, elasticsearchAdapter, minioAdapter, sqlite3Adapter,
   betterSqlite3Adapter, libsqlAdapter, amqplibAdapter, nodeRdKafkaAdapter,
   ioredisAdapter, iovalkeyAdapter, glideValkeyAdapter, memcachedAdapter, memjsAdapter,
   s3V3Adapter, dynamoV3Adapter, nodeRedisAdapter, mongooseAdapter,
   s3V2Adapter, dynamoV2Adapter, upstashAdapter}

-----------------------------------------------------------------------------
VARIABLES
  adapter,    \* the adapter
  client,     \* client[x]: "unmade", "made" but not connected, "opening", "open",
              \* "lost" when its connection is gone for good, "closed"
  internal,   \* the adapter's internalClient
  init,       \* the shared initialization promise: the await it has reached
  at,         \* at[k]: where the adapter's check is, and with which client
  aborted,    \* the signal of the call has fired
  lent        \* lent[x]: connections taken from the pool and not released

clientVars == <<adapter, client, internal, init, at, aborted, lent>>
ownedVars  == <<disposalVars, clientVars>>

Awaits == {"importing", "waiting", "connecting", "given", "borrowing", "using"}
Steps  == Awaits \cup {"out", "passed", "failed"}

OwnedTypeOK ==
  /\ DisposalTypeOK
  /\ adapter \in Adapters
  /\ client \in [Client -> {"unmade", "made", "opening", "open", "lost", "closed"}]
  /\ internal \in Client \cup {NoClient}
  /\ init \in {"none", "importing", "connecting", "closing", "failed"}
  /\ at \in [Call -> [step : Steps, on : Client \cup {NoClient}]]
  /\ aborted \in [Call -> BOOLEAN]
  /\ lent \in [Client -> Nat]

Out == [step |-> "out", on |-> NoClient]

\* The client of the application, which may have left it to be connected.
IsSupplied     == adapter.get = "supplied"
SuppliedClient == CHOOSE x \in Client : TRUE
SuppliedStates == IF adapter.connect = "reuse" THEN {"made", "open"} ELSE {"open"}

OwnedInit ==
  /\ DisposalInit
  /\ adapter \in Adapters
  /\ \E was \in IF IsSupplied THEN SuppliedStates ELSE {"unmade"} :
       client = [x \in Client |-> IF x = SuppliedClient THEN was ELSE "unmade"]
  /\ internal = NoClient
  /\ init = "none"
  /\ at = [k \in Call |-> Out]
  /\ aborted = [k \in Call |-> FALSE]
  /\ lent = [x \in Client |-> 0]

\* The check looks at its signal when it begins, in the turn in which it makes
\* the request, and after the query and the metadata hook.
MayGoOn(k) == adapter.aborts => ~aborted[k]

\* The call is at a step of check().  Given client x, a check with a signal has
\* another await before its request: of x itself, or of its command's import;
\* the others borrow a connection from the pool, or use x at once.
Failed == [step |-> "failed", on |-> NoClient]
WithClient(x) ==
  [step |-> IF adapter.aborts THEN "given" ELSE IF adapter.pool > 0 THEN "borrowing" ELSE "using",
   on |-> x]
Goes(k, step) == at' = [at EXCEPT ![k] = [step |-> step, on |-> NoClient]]
Obtains(k, x) == at' = [at EXCEPT ![k] = WithClient(x)]

\* The initialization answers all who wait for it.
Answers(position) ==
  at' = [k \in Call |-> IF at[k].step = "waiting" THEN position ELSE at[k]]

Usable(x) == x # NoClient /\ client[x] = "open"
Create(x) == client[x] = "unmade" /\ client' = [client EXCEPT ![x] = "open"]

-----------------------------------------------------------------------------
\* Slips (see Disposal).
Initialized_NotCleared == "failed"

ImportSettles_NoRecheck(k) ==
  /\ at[k].step = "importing"
  /\ \/ /\ Goes(k, "failed")
        /\ UNCHANGED <<client, internal>>
     \/ \E x \in Client : Create(x) /\ internal' = x /\ Obtains(k, x)
  /\ UNCHANGED <<disposalVars, adapter, init, aborted, lent>>

BeginRequest_Unchecked(k) ==
  /\ at[k].step = "given"
  /\ \/ adapter.loads /\ Goes(k, "failed")
     \/ at' = [at EXCEPT ![k].step = "using"]
  /\ UNCHANGED <<disposalVars, adapter, client, internal, init, aborted, lent>>

EndCheck_ReleasesOnSuccess(k) ==
  /\ at[k].step \in {"passed", "failed"}
  /\ lent' = IF adapter.pool > 0 /\ at[k].step = "passed"
             THEN [lent EXCEPT ![at[k].on] = @ - 1] ELSE lent
  /\ at' = [at EXCEPT ![k] = Out]
  /\ aborted' = [aborted EXCEPT ![k] = FALSE]
  /\ Settle(k)
  /\ UNCHANGED <<adapter, client, internal, init>>

ToClose_Any == IF IsSupplied THEN SuppliedClient ELSE internal

-----------------------------------------------------------------------------
\* How getClient() begins.
GetImportFirst(k) ==
  /\ adapter.get = "importFirst"
  /\ Goes(k, "importing")
  /\ UNCHANGED <<client, init>>

GetUnshared(k) ==
  /\ adapter.get = "unshared"
  /\ IF internal = NoClient THEN Goes(k, "importing") ELSE Obtains(k, internal)
  /\ UNCHANGED <<client, init>>

\* connect() is called in the turn in which isOpen is read, and sets it.
GetSupplied(k) ==
  /\ IsSupplied
  /\ IF client[SuppliedClient] \in {"made", "lost"}
     THEN /\ Goes(k, "connecting")
          /\ client' = [client EXCEPT ![SuppliedClient] = "opening"]
     ELSE Obtains(k, SuppliedClient) /\ UNCHANGED client
  /\ UNCHANGED init

\* The promise is created by the first call and awaited by all; a kept promise
\* that was rejected rejects every later call.
GetShared(k) ==
  /\ adapter.get = "shared"
  /\ IF Usable(internal) /\ init = "none" THEN Obtains(k, internal) /\ UNCHANGED init
     ELSE IF init = "failed" THEN Goes(k, "failed") /\ UNCHANGED init
     ELSE /\ Goes(k, "waiting")
          /\ init' = IF init # "none" THEN init
                     ELSE IF internal = NoClient THEN "importing" ELSE "connecting"
  /\ UNCHANGED client

\* The wrapper's job calls the adapter's check, which runs to its first await.
Begin(k) ==
  /\ Invoke(k)
  /\ IF MayGoOn(k) THEN GetImportFirst(k) \/ GetUnshared(k) \/ GetShared(k) \/ GetSupplied(k)
     ELSE Goes(k, "failed") /\ UNCHANGED <<client, init>>
  /\ UNCHANGED <<adapter, internal, aborted, lent>>

\* The import of the driver settles, or the constructor throws.
ImportSettles(k) ==
  /\ at[k].step = "importing"
  /\ \/ /\ Goes(k, "failed")
        /\ UNCHANGED <<client, internal>>
     \/ /\ adapter.get = "importFirst" /\ internal # NoClient
        /\ Obtains(k, internal)
        /\ UNCHANGED <<client, internal>>
     \/ /\ adapter.get = "unshared" \/ internal = NoClient
        /\ \E x \in Client : Create(x) /\ internal' = x /\ Obtains(k, x)
  /\ UNCHANGED <<disposalVars, adapter, init, aborted, lent>>

\* What becomes of the promise when it is rejected.
Initialized == IF adapter.rejected = "kept" THEN "failed" ELSE "none"
Rejects     == init' = Initialized /\ Answers(Failed)

\* The shared initialization: the import settles and a client is created.
InitImports ==
  /\ init = "importing"
  /\ \/ Rejects /\ UNCHANGED <<client, internal>>
     \/ \E x \in Client :
          /\ internal' = x
          /\ IF adapter.connect = "none"
             THEN Create(x) /\ init' = "none" /\ Answers(WithClient(x))
             ELSE /\ client[x] = "unmade" /\ client' = [client EXCEPT ![x] = "made"]
                  /\ init' = "connecting" /\ UNCHANGED at

\* The client connects, or does not: redis keeps it for the next attempt,
\* mongoose forgets it and closes it before the promise is rejected.
InitConnects ==
  /\ init = "connecting"
  /\ \/ /\ client' = [client EXCEPT ![internal] = "open"]
        /\ init' = "none" /\ Answers(WithClient(internal))
        /\ UNCHANGED internal
     \/ adapter.connect = "reuse" /\ Rejects /\ UNCHANGED <<client, internal>>
     \/ /\ adapter.connect = "discard"
        /\ internal' = NoClient /\ init' = "closing"
        /\ UNCHANGED <<client, at>>

\* The close of the client that did not connect settles, either way.
InitCloses ==
  /\ init = "closing"
  /\ client' = [x \in Client |-> IF client[x] = "made" THEN "unmade" ELSE client[x]]
  /\ Rejects
  /\ UNCHANGED internal

InitSettles ==
  /\ InitImports \/ InitConnects \/ InitCloses
  /\ UNCHANGED <<disposalVars, adapter, aborted, lent>>

\* The connect() of a supplied client settles.
SuppliedConnects(k) ==
  /\ at[k].step = "connecting"
  /\ \/ /\ client' = [client EXCEPT ![SuppliedClient] = "open"]
        /\ Obtains(k, SuppliedClient)
     \/ /\ client' = [client EXCEPT ![SuppliedClient] = "made"]
        /\ Goes(k, "failed")
  /\ UNCHANGED <<disposalVars, adapter, internal, init, aborted, lent>>

\* A redis client gives up reconnecting and is closed.
Drops(x) ==
  /\ adapter.connect = "reuse" /\ client[x] = "open"
  /\ client' = [client EXCEPT ![x] = "lost"]
  /\ UNCHANGED <<disposalVars, adapter, internal, init, at, aborted, lent>>

\* The await before the request settles; the import of a command may fail.
BeginRequest(k) ==
  /\ at[k].step = "given"
  /\ \/ (adapter.loads \/ ~MayGoOn(k)) /\ Goes(k, "failed")
     \/ MayGoOn(k) /\ at' = [at EXCEPT ![k].step = "using"]
  /\ UNCHANGED <<disposalVars, adapter, client, internal, init, aborted, lent>>

\* The pool hands out a connection when one is free, or fails to connect.
Borrow(k) ==
  /\ at[k].step = "borrowing"
  /\ \/ /\ lent[at[k].on] < adapter.pool
        /\ lent' = [lent EXCEPT ![at[k].on] = @ + 1]
        /\ at' = [at EXCEPT ![k].step = "using"]
     \/ /\ Goes(k, "failed")
        /\ UNCHANGED lent
  /\ UNCHANGED <<disposalVars, adapter, client, internal, init, aborted>>

\* The signal given to a call fires, also before its job has begun.
Abort(k) ==
  /\ adapter.aborts
  /\ call[k] = "queued" \/ at[k].step \in Awaits
  /\ ~aborted[k]
  /\ aborted' = [aborted EXCEPT ![k] = TRUE]
  /\ UNCHANGED <<disposalVars, adapter, client, internal, init, at, lent>>

\* The query and the metadata hook have settled.
Probes(k) ==
  /\ at[k].step = "using"
  /\ \E verdict \in {"passed", "failed"} :
       /\ verdict = "passed" => MayGoOn(k)
       /\ at' = [at EXCEPT ![k].step = verdict]
  /\ UNCHANGED <<disposalVars, adapter, client, internal, init, aborted, lent>>

\* A connection is released on both ways, and the check returns its result.
EndCheck(k) ==
  /\ at[k].step \in {"passed", "failed"}
  /\ lent' = IF adapter.pool > 0 /\ at[k].on # NoClient
             THEN [lent EXCEPT ![at[k].on] = @ - 1] ELSE lent
  /\ at' = [at EXCEPT ![k] = Out]
  /\ aborted' = [aborted EXCEPT ![k] = FALSE]
  /\ Settle(k)
  /\ UNCHANGED <<adapter, client, internal, init>>

\* The cleanup closes the client the adapter has created, if it is open.
ToClose == internal

CloseOwned(h) ==
  /\ HookSettles(h)
  /\ ~Usable(ToClose) => hook'[h] = "ok"
  /\ client' = IF Usable(ToClose) /\ hook'[h] = "ok"
               THEN [client EXCEPT ![ToClose] = "closed"] ELSE client
  /\ UNCHANGED <<adapter, internal, init, at, aborted, lent>>

Wrapper(k) == (Accept(k) \/ Refuse(k) \/ Collect(k)) /\ UNCHANGED clientVars
Disposing  == (CleanUp \/ Finish) /\ UNCHANGED clientVars

OwnedNext ==
  \/ \E k \in Call :
       \/ Wrapper(k) \/ Begin(k) \/ ImportSettles(k) \/ Borrow(k)
       \/ SuppliedConnects(k) \/ BeginRequest(k) \/ Abort(k) \/ Probes(k) \/ EndCheck(k)
  \/ \E x \in Client : Drops(x)
  \/ InitSettles
  \/ adapter.disposes /\ Dispose /\ UNCHANGED clientVars
  \/ Disposing
  \/ \E h \in Hook : CloseOwned(h)

OwnedSpec == OwnedInit /\ [][OwnedNext]_ownedVars

\* Jobs run; imports, connections, queries and cleanups settle; a pool serves
\* its callers in turn.
OwnedFairness ==
  /\ \A k \in Call :
       /\ WF_ownedVars(Begin(k)) /\ WF_ownedVars(ImportSettles(k))
       /\ WF_ownedVars(SuppliedConnects(k)) /\ WF_ownedVars(BeginRequest(k))
       /\ WF_ownedVars(Probes(k)) /\ WF_ownedVars(EndCheck(k))
       /\ SF_ownedVars(Borrow(k) /\ lent' # lent)
  /\ WF_ownedVars(InitSettles) /\ WF_ownedVars(Disposing)
  /\ \A h \in Hook : WF_ownedVars(CloseOwned(h))

OwnedFairSpec == OwnedSpec /\ OwnedFairness
-----------------------------------------------------------------------------
\* However many calls race for it, an adapter that can be disposed has one
\* client: none is lost before dispose() could close it (tools/shared/README.md,
\* "Lazy resource initialization should use a shared initialization promise to
\* avoid leaking extra clients when checks run concurrently").
OneOwnedClient ==
  adapter.get # "unshared" =>
    Cardinality({x \in Client : client[x] \notin {"unmade", "closed"}}) <= 1

\* The client of the application is connected when it is closed, by one check
\* alone although several may find it closed, and never closed by the adapter,
\* which creates none beside it (test "never cleans up a supplied resource").
SuppliedIsShared ==
  IsSupplied =>
    /\ Cardinality({k \in Call : at[k].step = "connecting"}) <= 1
    /\ client[SuppliedClient] # "closed"
    /\ \A x \in Client \ {SuppliedClient} : client[x] = "unmade"

\* The S3 v2 client is constructed once (packages/s3/README.md, "constructs
\* `new AWS.S3(config)` once").
ConstructsOnce ==
  adapter = s3V2Adapter => Cardinality({x \in Client : client[x] # "unmade"}) <= 1

\* No check is left with a client that dispose() has closed.
UsesOpenClient ==
  \A k \in Call :
    ~IsSupplied /\ at[k].on # NoClient => client[at[k].on] \in {"open", "lost"}

\* When dispose() resolves nothing the adapter created is open.
NothingLeaks ==
  ~IsSupplied /\ closing = "resolved" => \A x \in Client : client[x] # "open"

\* dispose() closes what the adapter owns after its last use and before it
\* resolves, also when it is called while the client is being created.
ClosedLast == UsesOpenClient /\ NothingLeaks

\* A call that begins after an initialization has failed is not given that old
\* failure: it starts or joins another attempt (test "retries client
\* initialization after a failed import").  The mysql adapters and
\* amqp-connection-manager make no such promise.
NoInheritedFailure ==
  [][\A k \in Call :
       at[k].step = "out" /\ at'[k].step = "failed" =>
         adapter.rejected = "kept" \/ aborted[k]]_ownedVars

\* A check whose signal has fired neither begins its request nor reports
\* success, wherever it was when the signal fired: also in the import of its
\* command, when it has its client already (packages/s3/tests/
\* cancellation.test.ts, "does not start SDK work for an already aborted context").
AbortedCheckFails ==
  [][\A k \in Call :
       adapter.aborts /\ aborted[k] =>
         /\ at'[k].step # "passed"
         /\ at'[k].step = "using" => at[k].step = "using"]_ownedVars

\* Every accepted call ends: a connection taken from a pool of one is given
\* back on every path, so the calls behind it get their turn.
EveryCallEnds == \A k \in Call : call[k] = "queued" ~> call[k] = "settled"
=============================================================================
