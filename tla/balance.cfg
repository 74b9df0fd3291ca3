\* Three callers take turns, or count connections, while one target flaps and
\* the counter wraps.
SPECIFICATION Spec
CONSTANTS
  NumTargets = 3
  Weight <- UnevenWeights
  Strategies = {"RoundRobin", "WeightedRoundRobin", "LeastConnections"}
  Flapping = {1}
  Callers = {c1, c2, c3}
  CounterMod = 4
  Counted = TRUE
  MaxFetches = 9
  NoTarget = NoTarget
SYMMETRY CallerSymmetry
INVARIANTS ProportionalShare LowestScore
