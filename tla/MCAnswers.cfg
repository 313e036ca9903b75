CONSTANTS
  Given <- MCGiven
  Other <- MCOther
  Traffic <- MCTraffic
  MaxTimer = 3
  DefaultTimer = 2
  Unset = Unset
  NaN = NaN
SPECIFICATION AnswersSpec
INVARIANTS
  TimersRunAsConfigured
  DecidedByWorst
  ExposesAsGiven
CHECK_DEADLOCK FALSE
