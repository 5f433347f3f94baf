SPECIFICATION Spec
CONSTANTS
  Proc = {p1, p2}
  Value = {v1, v2}
  MaxAttempts = 2
  FailureThreshold = 4
  MaxFaults = 2
  MaxRuns = 2
INVARIANTS TypeOK BreakerStaysClosed UniqueSecret PutSurvivesFaults LastWriteWins
PROPERTIES RequestsBounded EveryCommandEnds
CHECK_DEADLOCK FALSE
