\* One put at a time, each at an instant of its own: entries are committed in the
\* order of their clocks.  Entries outlive the run, so none is dropped as stale.
SPECIFICATION UseSpec
CONSTANTS
  None = None
  Keys = {k1, k2, k3}
  Responses <- PlainOnly
  Requests <- AnyRequest
  Putters = {p1}
  MaxSizes = {2}
  DefaultTtl = 5
  MaxInstant = 8
  MaxTime = 3
  NoEntry = NoEntry
  NoAnswer = NoAnswer
PROPERTY EvictsLeastRecentlyUsed
