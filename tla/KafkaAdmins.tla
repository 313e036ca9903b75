----------------------------- MODULE KafkaAdmins -----------------------------
(***************************************************************************)
(* The KafkaJS adapter (packages/kafka/src/kafkajs.ts) inside withDisposal:*)
(* checks run one after the other, each with an admin of its own that it   *)
(* disconnects; an admin that fails to disconnect is retained, and nothing *)
(* else is opened before it is gone.                                       *)
(***************************************************************************)
EXTENDS Disposal, FiniteSets, Sequences

CONSTANTS
  Admin,      \* identities of admins; used again once disconnected
  NoAdmin

ASSUME KafkaAssumption == NoAdmin \notin Admin /\ Hook = {"cleanup"}

VARIABLES
  queue,      \* the checks that have entered the promise chain, in order
  step,       \* progress of the check at the head of the chain
  admin,      \* its local variable admin
  admins,     \* the adapter's set
  opened,     \* the admins whose connection is not known to be gone
  made        \* the adapter's internalClient exists

kafkaOwn  == <<queue, step, admin, admins, opened, made>>
kafkaVars == <<disposalVars, kafkaOwn>>

KafkaTypeOK ==
  /\ DisposalTypeOK
  /\ queue \in UNION {[1 .. n -> Call] : n \in 0 .. Cardinality(Call)}
  /\ step \in {"idle", "cleaning", "importing", "probing", "releasing"}
  /\ admin \in Admin \cup {NoAdmin}
  /\ admins \subseteq Admin
  /\ opened \subseteq Admin
  /\ made \in BOOLEAN

KafkaInit ==
  /\ DisposalInit
  /\ queue = <<>> /\ step = "idle" /\ admin = NoAdmin
  /\ admins = {} /\ opened = {} /\ made = FALSE

-----------------------------------------------------------------------------
\* Slips (see Disposal).
RunCheck_WaitsForAdmins ==
  /\ step = "idle" /\ queue # <<>> /\ admins = {}
  /\ step' = "cleaning"
  /\ UNCHANGED <<disposalVars, queue, admin, admins, opened, made>>

Cleaned_IgnoresFailure == admins' \subseteq admins

Release_Forgets ==
  /\ step = "releasing"
  /\ step' = "idle" /\ admin' = NoAdmin
  /\ Settle(Head(queue)) /\ queue' = Tail(queue)
  /\ opened' \in {opened, opened \ {admin}} /\ admins' = admins \ {admin}
  /\ UNCHANGED made

-----------------------------------------------------------------------------
\* check(): the call joins the chain.
Join(k) ==
  /\ Invoke(k)
  /\ queue' = Append(queue, k)
  /\ UNCHANGED <<step, admin, admins, opened, made>>

\* The previous check has settled: runCheck begins with cleanupAdmins.
RunCheck ==
  /\ step = "idle" /\ queue # <<>>
  /\ step' = "cleaning"
  /\ UNCHANGED <<disposalVars, queue, admin, admins, opened, made>>

\* The check returns and the next one of the chain may run.
Returns ==
  /\ step' = "idle" /\ admin' = NoAdmin
  /\ Settle(Head(queue)) /\ queue' = Tail(queue)

\* Promise.allSettled over the retained admins: those that disconnect leave
\* the set.
Disconnects ==
  /\ admins' \in SUBSET admins
  /\ opened' = opened \ (admins \ admins')

\* Whether the cleanup lets the check go on: it throws if an admin remains.
Cleaned == admins' = {}

Cleanup ==
  /\ step = "cleaning"
  /\ Disconnects
  /\ \/ /\ Cleaned
        /\ step' = "importing"
        /\ UNCHANGED <<disposalVars, queue, admin>>
     \/ ~Cleaned /\ Returns
  /\ UNCHANGED made

\* getClient() settles and an admin is created, or either throws.
OpenAdmin ==
  /\ step = "importing"
  /\ \/ /\ \E a \in Admin \ opened :
             admin' = a /\ admins' = admins \cup {a} /\ opened' = opened \cup {a}
        /\ made' = TRUE
        /\ step' = "probing"
        /\ UNCHANGED <<disposalVars, queue>>
     \/ /\ Returns
        /\ UNCHANGED <<admins, opened, made>>

\* connect, describeCluster and the metadata hook succeed or fail.
Probe ==
  /\ step = "probing"
  /\ step' = "releasing"
  /\ UNCHANGED <<disposalVars, queue, admin, admins, opened, made>>

\* The check disconnects its admin; if that fails the admin stays in the set.
Release ==
  /\ step = "releasing"
  /\ \/ opened' = opened \ {admin} /\ admins' = admins \ {admin}
     \/ UNCHANGED <<opened, admins>>
  /\ Returns
  /\ UNCHANGED made

\* Terminal cleanup: one more attempt for every retained admin.
CleanupAdmins(h) ==
  /\ HookSettles(h)
  /\ Disconnects
  /\ hook'[h] = IF Cleaned THEN "ok" ELSE "failed"
  /\ UNCHANGED <<queue, step, admin, made>>

KafkaNext ==
  \/ \E k \in Call :
       \/ (Accept(k) \/ Refuse(k) \/ Collect(k)) /\ UNCHANGED kafkaOwn
       \/ Join(k)
  \/ RunCheck \/ Cleanup \/ OpenAdmin \/ Probe \/ Release
  \/ (Dispose \/ CleanUp \/ Finish) /\ UNCHANGED kafkaOwn
  \/ \E h \in Hook : CleanupAdmins(h)

KafkaSpec == KafkaInit /\ [][KafkaNext]_kafkaVars

\* Jobs run, and every call of the KafkaJS client settles.
KafkaFairness ==
  /\ \A k \in Call : WF_kafkaVars(Join(k))
  /\ WF_kafkaVars(RunCheck \/ Cleanup \/ OpenAdmin \/ Probe \/ Release)
  /\ WF_kafkaVars((CleanUp \/ Finish) /\ UNCHANGED kafkaOwn)
  /\ \A h \in Hook : WF_kafkaVars(CleanupAdmins(h))

KafkaFairSpec == KafkaSpec /\ KafkaFairness
-----------------------------------------------------------------------------
\* At most one admin connection exists, however many checks are made and
\* however often disconnecting fails (packages/kafka/README.md, "This bounds
\* retained admin connections to one").
OneAdmin == Cardinality(opened) <= 1

\* When dispose() resolves no admin is connected, and when it rejects one is:
\* the error that callers get is never wrong about what is left.
DisposalTellsRest == closing \in Ended => (closing = "resolved" <=> opened = {})

\* A check whose predecessors fail, or leave an admin behind, still ends.
EveryCheckEnds == \A k \in Call : call[k] = "queued" ~> call[k] = "settled"
=============================================================================
