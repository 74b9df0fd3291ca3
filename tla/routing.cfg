\* Three routes, of which the first two have targets that flap while requests walk
\* them, and a cache that keeps what a later route answered.
SPECIFICATION FairSpec
CONSTANTS
  Routes <- ThreeRoutes
  TargetsOf <- ThreeUpstreams
  DomainOf <- Domains
  NoHost = NoHost
  Tasks = {c1}
  Queries <- RoutedQueries
  Controls <- Plainly
  Flapping = {1, 2, 3}
  Putters = {p1}
  Caching = TRUE
  Readdressing = {"1"}
  Redirecting = {2}
  Elsewhere = Elsewhere
  NotFound = NotFound
  BadGateway = BadGateway
  None = None
  NoEntry = NoEntry
  NoAnswer = NoAnswer
  MaxSizes = {1}
  DefaultTtl = 1
  MaxInstant = 2
  MaxTime = 0
INVARIANTS TypeOK EarlierRoutesDown RightAnswer
PROPERTY RequestsAnswered
