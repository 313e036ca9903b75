CONSTANTS
  Check <- MCCheck
  Op <- MCOp
  CheckOf <- MCCheckOf
  NoOp = NoOp
  Outcome = {"ok", "fail"}
  Scheduled <- MCCheck
  TreatAs <- MCTreatAs
  MaxStops = 1
SPECIFICATION SchedulerFairSpec
INVARIANTS
  ServedIsCurrent
  CacheIsNewestRun
  OneEventPerExecution
  TransitionsTellStatus
PROPERTIES
  RunsBeginOnce
  ScheduleRecovers
  ScheduleKeepsRunning
CHECK_DEADLOCK FALSE
