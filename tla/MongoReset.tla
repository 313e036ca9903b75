----------------------------- MODULE MongoReset -----------------------------
(***************************************************************************)
(* The MongoDB adapter (packages/mongo/src/mongodb.ts) with a connection   *)
(* string, inside withDisposal.  Besides dispose() it offers close(), which*)
(* may be called at any time and again: it tears the owned client down and *)
(* a later check connects anew.                                            *)
(*                                                                         *)
(* A connection attempt (the promise ownedConnectPromise) bears the name of*)
(* the call that started it.  The driver settles import, connect() and     *)
(* close() at any time, and its connect() may revive a closed client.      *)
(***************************************************************************)
EXTENDS Disposal

CONSTANTS
  Client,     \* identities of MongoClients; used again once closed
  None        \* neither a client nor a call

ASSUME MongoAssumption ==
  None \notin Client /\ None \notin Call /\ Hook = {"cleanup"}

VARIABLES
  open,       \* the clients that were created or connected and not closed
  internal,   \* internalClient
  owned,      \* ownedConnectPromise
  attempt,    \* attempt[k]: [phase, on]: the attempt k started, its client
  at,         \* at[k]: [step, on]: where the check is, the attempt it awaits
  reset,      \* the promise "resetting": none, or the await it has reached
  resetOn,    \* the attempt, then the client, it is waiting for
  joined,     \* the disposal waits for the reset
  crossed     \* history: a check has started an attempt under a reset

mongoOwn  == <<open, internal, owned, attempt, at, reset, resetOn, joined, crossed>>
mongoVars == <<disposalVars, mongoOwn>>

Phases == {"none", "importing", "connecting", "ok", "failed"}
Steps  == {"out", "resetting", "resumes", "connecting", "using", "failed"}

MongoTypeOK ==
  /\ DisposalTypeOK
  /\ open \subseteq Client
  /\ internal \in Client \cup {None}
  /\ owned \in Call \cup {None}
  /\ attempt \in [Call -> [phase : Phases, on : Client \cup {None}]]
  /\ at \in [Call -> [step : Steps, on : Call \cup {None}]]
  /\ reset \in {"none", "waiting", "closing"}
  /\ resetOn \in Call \cup Client \cup {None}
  /\ joined \in BOOLEAN /\ crossed \in BOOLEAN

MongoInit ==
  /\ DisposalInit
  /\ open = {} /\ internal = None /\ owned = None
  /\ attempt = [k \in Call |-> [phase |-> "none", on |-> None]]
  /\ at = [k \in Call |-> [step |-> "out", on |-> None]]
  /\ reset = "none" /\ resetOn = None /\ joined = FALSE
  /\ crossed = FALSE

Step(s, o) == [step |-> s, on |-> o]
Awaits(k)  == {j \in Call : at[j] = Step("connecting", k)}

-----------------------------------------------------------------------------
\* Slips (see Disposal).
AwaitedByReset_Nothing == None

-----------------------------------------------------------------------------
\* getOwnedClient(): joins the promise there is, or starts an attempt.
GetOwnedClient(k) ==
  IF owned = None
  THEN /\ owned' = k
       /\ attempt' = [attempt EXCEPT ![k] = [phase |-> "importing", on |-> None]]
       /\ at' = [at EXCEPT ![k] = Step("connecting", k)]
  ELSE /\ at' = [at EXCEPT ![k] =
                   Step(IF attempt[owned].phase = "ok" THEN "using" ELSE "connecting", owned)]
       /\ UNCHANGED <<owned, attempt>>

\* The wrapper's job calls check(), and getClient() looks for a reset.
Begin(k) ==
  /\ Invoke(k)
  /\ IF reset # "none"
     THEN at' = [at EXCEPT ![k] = Step("resetting", None)] /\ UNCHANGED <<owned, attempt>>
     ELSE GetOwnedClient(k)
  /\ UNCHANGED <<open, internal, reset, resetOn, joined, crossed>>

\* The reset the check waited for is over.  It does not look for another one,
\* which close() may have begun before the check had its turn.
Resume(k) ==
  /\ at[k].step = "resumes"
  /\ GetOwnedClient(k)
  /\ crossed' = (crossed \/ (reset # "none" /\ owned = None))
  /\ UNCHANGED <<disposalVars, open, internal, reset, resetOn, joined>>

\* Attempt k ends: those who await it go on, the reset included.
EndAttempt(k, phase, step) ==
  /\ attempt' = [attempt EXCEPT ![k].phase = phase]
  /\ at' = [j \in Call |-> IF j \in Awaits(k) THEN Step(step, k) ELSE at[j]]
  /\ resetOn' = IF reset = "waiting" /\ resetOn = k THEN None ELSE resetOn

\* An attempt that failed clears the promise, whosever it is by now.
FailAttempt(k) == EndAttempt(k, "failed", "failed") /\ owned' = None

ReusedClient == internal

\* Nothing is left of x: it is closed, and no attempt connects it.
IsNew(x) ==
  x \notin open /\ \A j \in Call : attempt[j].phase = "connecting" => attempt[j].on # x

\* The import settles: the attempt takes the client there is or creates one.
ImportSettles(k) ==
  /\ attempt[k].phase = "importing"
  /\ \/ FailAttempt(k) /\ UNCHANGED <<open, internal>>
     \/ /\ \E x \in Client :
             /\ IF ReusedClient = None THEN IsNew(x) ELSE x = ReusedClient
             /\ internal' = x /\ open' = open \cup {x}
             /\ attempt' = [attempt EXCEPT ![k] = [phase |-> "connecting", on |-> x]]
        /\ UNCHANGED <<owned, at, resetOn>>
  /\ UNCHANGED <<disposalVars, reset, joined, crossed>>

\* connect() settles.
ConnectSettles(k) ==
  /\ attempt[k].phase = "connecting"
  /\ \/ FailAttempt(k) /\ UNCHANGED open
     \/ /\ open' = open \cup {attempt[k].on}
        /\ EndAttempt(k, "ok", "using")
        /\ UNCHANGED owned
  /\ UNCHANGED <<disposalVars, internal, reset, joined, crossed>>

\* The ping succeeds or fails, also because the client was closed under it.
EndCheck(k) ==
  /\ at[k].step \in {"using", "failed"}
  /\ at' = [at EXCEPT ![k] = Step("out", None)]
  /\ Settle(k)
  /\ UNCHANGED <<open, internal, owned, attempt, reset, resetOn, joined, crossed>>

\* The attempt a reset waits for: one that has not ended.
AwaitedByReset ==
  IF owned # None /\ attempt[owned].phase \in {"importing", "connecting"} THEN owned ELSE None

StartReset == reset' = "waiting" /\ resetOn' = AwaitedByReset

\* close() of the adapter; while a reset is in progress it returns its promise.
CloseAdapter ==
  /\ reset = "none"
  /\ StartReset
  /\ UNCHANGED <<disposalVars, open, internal, owned, attempt, at, joined, crossed>>

\* The disposal calls the same function.
JoinReset(h) ==
  /\ hook[h] = "called" /\ ~joined
  /\ joined' = TRUE
  /\ IF reset = "none" THEN StartReset ELSE UNCHANGED <<reset, resetOn>>
  /\ UNCHANGED <<disposalVars, open, internal, owned, attempt, at, crossed>>

\* The attempt has ended: close() of the client there is.
ResetContinues ==
  /\ reset = "waiting" /\ resetOn = None
  /\ reset' = "closing"
  /\ resetOn' = internal
  /\ UNCHANGED <<disposalVars, open, internal, owned, attempt, at, joined, crossed>>

\* The reset ends.  Checks that wait for it go on, or fail with it.
EndReset(step, ending) ==
  /\ reset' = "none" /\ resetOn' = None /\ joined' = FALSE
  /\ at' = [k \in Call |-> IF at[k].step = "resetting" THEN Step(step, None) ELSE at[k]]
  /\ hook' = [h \in Hook |-> IF joined THEN ending ELSE hook[h]]
  /\ UNCHANGED <<call, pending, closing, awaited, attempts, attempt, crossed>>

ResetDone ==
  /\ reset = "closing"
  /\ open' = open \ {resetOn}
  /\ internal' = None /\ owned' = None
  /\ EndReset("resumes", "ok")

ResetFails ==
  /\ reset = "closing" /\ resetOn # None
  /\ EndReset("failed", "failed")
  /\ UNCHANGED <<open, internal, owned>>

MongoNext ==
  \/ \E k \in Call :
       \/ (Accept(k) \/ Refuse(k) \/ Collect(k)) /\ UNCHANGED mongoOwn
       \/ Begin(k) \/ Resume(k) \/ ImportSettles(k) \/ ConnectSettles(k) \/ EndCheck(k)
  \/ CloseAdapter \/ ResetContinues \/ ResetDone \/ ResetFails
  \/ (Dispose \/ CleanUp \/ Finish) /\ UNCHANGED mongoOwn
  \/ \E h \in Hook : JoinReset(h)

MongoSpec == MongoInit /\ [][MongoNext]_mongoVars
-----------------------------------------------------------------------------
\* As long as no check has started an attempt under a reset, no open client is
\* lost: the adapter can still close it, however checks, connection attempts,
\* resets and failures interleave (packages/mongo/tests/mongodb-disposal.test.ts,
\* "retains an owned client after connection failure so it can be disposed").
NoClientLost ==
  ~crossed => \A x \in open : x = internal \/ (reset = "closing" /\ x = resetOn)

\* When dispose() resolves, no client that the adapter created is open (README.md,
\* "dispose adapter-owned clients and pools").  The code breaks this once a check
\* has started an attempt under a reset.
DisposesItsClients == closing = "resolved" => open = {}
=============================================================================
