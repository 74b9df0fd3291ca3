\* All four strategies; flags flip at any instant of two overlapping calls.
SPECIFICATION FairSpec
CONSTANTS
  NumTargets = 2
  Weight <- ZeroWeights
  Strategies = {"RoundRobin", "LeastConnections", "Random", "WeightedRoundRobin"}
  Flapping = {1, 2}
  Callers = {c1, c2}
  CounterMod = 4
  Counted = TRUE
  MaxFetches = 5
  NoTarget = NoTarget
INVARIANTS TypeOK SelectedWasHealthy NoneNeedsOutage
PROPERTIES CallsReturn ImplementsSelection
