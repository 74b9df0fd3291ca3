SPECIFICATION FairSpec
CONSTANTS
  NumTargets = 2
  Intervals = {0}
  Timeout = 1
  MaxLag = 0
  MaxAge = 0
PROPERTY UnhealthyExcluded
