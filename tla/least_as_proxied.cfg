SPECIFICATION Spec
CONSTANTS
  NumTargets = 2
  Weight <- EqualPair
  Strategies = {"LeastConnections"}
  Flapping = {1, 2}
  Callers = {c1, c2}
  CounterMod = 4
  Counted = FALSE
  MaxFetches = 3
  NoTarget = NoTarget
INVARIANT FewestConnections
