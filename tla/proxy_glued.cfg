\* A route whose prefix ends in a slash: what it leaves of a path is written
\* right behind the port.
SPECIFICATION Spec
CONSTANTS
  Routes <- SlashRoute
  TargetsOf <- OneUpstream
  DomainOf <- Domains
  NoHost = NoHost
  Tasks = {c1}
  Queries <- SlashQueries
  Controls <- Plainly
  Flapping = {1}
  Putters = {p1}
  Caching = FALSE
  Readdressing = {"1"}
  Redirecting = {}
  Elsewhere = Elsewhere
  NotFound = NotFound
  BadGateway = BadGateway
  None = None
  NoEntry = NoEntry
  NoAnswer = NoAnswer
  MaxSizes = {1}
  DefaultTtl = 1
  MaxInstant = 2
  MaxTime = 0
INVARIANT CleanRequest
