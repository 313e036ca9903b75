CONSTANTS
  Check <- SomeChecks
  Op <- SomeOps
  CheckOf <- SomeCheckOf
  NoOp = NoOp
  Outcome = {"ok"}
  Scheduled = {"db"}
  TreatAs <- SomeTreatAs
  MaxStops = 0
  Request = {"r1", "r2"}
  CheckType = {"readiness"}
  TypesOf <- SomeTypesOf
  Adapter = {"pool", "smtp"}
  AdapterOf <- SomeAdapterOf
SPECIFICATION HealthKitSpec
INVARIANTS
  DisposedExactlyOnce
PROPERTIES
  DrainedReadinessFails
  ImplementsLifecycle
CHECK_DEADLOCK FALSE
