CONSTANTS
  Check <- OneCheck
  Op <- OneOp
  CheckOf <- OneCheckOf
  NoOp = NoOp
  Outcome = {"ok"}
  Scheduled <- OneCheck
  TreatAs <- OneTreatAs
  MaxStops = 1
  Request = {"r1"}
  CheckType = {"readiness"}
  TypesOf <- OneTypesOf
  Adapter = {"pg"}
  AdapterOf <- OneAdapterOf
SPECIFICATION HangingSpec
PROPERTIES
  NoSuccessFromEarlierLifecycle
  EveryRequestAnswered
  CloseEnds
CHECK_DEADLOCK FALSE
