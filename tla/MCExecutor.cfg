CONSTANTS
  Check <- MCCheck
  Op <- MCOp
  CheckOf <- MCCheckOf
  NoOp = NoOp
  Outcome = {"ok", "fail"}
  HttpCheck <- MCHttp
SPECIFICATION HttpFairSpec
INVARIANTS
  SingleFlightPerCheck
  AbortIffTimedOut
  HttpReleasesAll
PROPERTIES
  EveryOperationAnswered
  HttpCheckEnds
  ImplementsSingleFlight
