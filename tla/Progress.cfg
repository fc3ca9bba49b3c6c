SPECIFICATION AnySpec
CONSTANTS
  MaxSales = 2
  None = None
  f1 = f1 f2 = f2 q1 = q1 q2 = q2 b1 = b1 beer = beer stout = stout old = old new = new caller = caller other = other
  Flushes <- TwoFlushes
  Requests <- TwoRequests
  Refused <- NoneRefused
  Callers = {caller, other}
  limit = 2
  window = 2
  evictThreshold = 1
  MaxTime = 5
  MaxCount = 3
INVARIANTS InOrder NothingLost TwiceTheLimitAtMost
PROPERTIES Delivers Drains NobodyStarves KeysFollowed
\* All sales are recorded and posted, or the clock has stopped.
CHECK_DEADLOCK FALSE
