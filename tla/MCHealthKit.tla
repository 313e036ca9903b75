---------------------------- MODULE MCHealthKit ----------------------------
EXTENDS HealthKitProps, TLC

\* One scheduled check: everything restarts can do to it.
OneCheck     == {"db"}
OneOp        == OneCheck \X {1, 2}
OneCheckOf   == [o \in OneOp |-> o[1]]
OneTreatAs   == [c \in OneCheck |-> "none"]
OneTypesOf   == [c \in OneCheck |-> {"readiness"}]
OneAdapterOf == [c \in OneCheck |-> "pg"]

\* Two requests that share executions: of a scheduled check and an on-demand
\* one with one adapter.  A failure of "api" only degrades.  A third check has
\* no probe type and an adapter of its own.
SomeChecks    == {"db", "api", "spare"}
SomeOps       == {<<"db", 1>>, <<"api", 1>>}
SomeCheckOf   == [o \in SomeOps |-> o[1]]
SomeTreatAs   == [c \in SomeChecks |-> IF c = "api" THEN "degraded" ELSE "none"]
SomeTypesOf   == [c \in SomeChecks |-> IF c = "spare" THEN {} ELSE {"readiness"}]
SomeAdapterOf == [c \in SomeChecks |-> IF c = "spare" THEN "smtp" ELSE "pool"]
=============================================================================
