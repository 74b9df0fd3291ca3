SPECIFICATION FairFailoverSpec
CONSTANTS
  NumTargets = 2
  Intervals = {0, 1, 2}
  Timeout = 1
  MaxLag = 2
  MaxAge = 5
  Callers = {c1}
  NoTarget = NoTarget
INVARIANTS TypeOK FlagIsLastVerdict DetectionBound RoundsOnSchedule
PROPERTIES ProbedExcluded RecoveredReadded FailsOver
