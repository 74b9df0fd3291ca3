\* Two connections share the cache; puts run on behind their replies.
\* A cached answer expires after one tick.
SPECIFICATION Spec
CONSTANTS
  Routes <- OneRoute
  TargetsOf <- OneUpstream
  DomainOf <- Domains
  NoHost = NoHost
  Tasks = {c1, c2}
  Queries <- CachedQueries
  Controls <- PlainlyOrNoStore
  Flapping = {}
  Putters = {p1, p2}
  Caching = TRUE
  Readdressing = {"1"}
  Redirecting = {}
  Elsewhere = Elsewhere
  NotFound = NotFound
  BadGateway = BadGateway
  None = None
  NoEntry = NoEntry
  NoAnswer = NoAnswer
  MaxSizes = {1}
  DefaultTtl = 1
  MaxInstant = 2
  MaxTime = 1
SYMMETRY ProxySymmetry
INVARIANTS RightAnswer OnlySafeMethodsCached
