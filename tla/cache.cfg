\* Every kind of request and response, two puts in flight, and caches of no, one
\* and two places for two keys.
SPECIFICATION Spec
CONSTANTS
  None = None
  Keys = {k1, k2}
  Responses <- AllResponses
  Requests <- AllRequests
  Putters = {p1, p2}
  MaxSizes = {0, 1, 2}
  DefaultTtl = 1
  MaxInstant = 8
  MaxTime = 2
  NoEntry = NoEntry
  NoAnswer = NoAnswer
SYMMETRY CacheSymmetry
INVARIANTS TypeOK ForbiddenNeverCached Bounded
PROPERTIES ImplementsStore EvictsFirstCreated
