SPECIFICATION Spec
CONSTANTS
  None = None
  Keys = {k1, k2}
  Responses <- SecondLines
  Requests <- AnyRequest
  Putters = {p1, p2}
  MaxSizes = {2}
  DefaultTtl = 1
  MaxInstant = 8
  MaxTime = 1
  NoEntry = NoEntry
  NoAnswer = NoAnswer
INVARIANT ForbiddenNeverCached
