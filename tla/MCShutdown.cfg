CONSTANTS
  IntervalMs = 3
  TimeoutMs = 4
  Horizon = 7
  Handler = {"h1", "h2"}
  DrainMs = 8
  DeadlineMs = 12
SPECIFICATION ShutdownFairSpec
INVARIANTS
  StaleOnlyWhenOverdue
  PoolEndsLast
  BoundedShutdown
  ExitTellsOutcome
PROPERTIES
  ShutdownEnds
CHECK_DEADLOCK FALSE
