\* Late, lost and repeated replies, a late loop, a clock that may tick inside
\* the callback, restarts, stops.
SPECIFICATION PingFairSpec
CONSTANTS
  Timeout = 2
  Period = 3
  MaxLate = 1
  MaxAge = 4
  MaxStarts = 2
  MayStop = TRUE
INVARIANTS
  WaitingIsTimed
  StaleTrustBounded
  TimeoutMeansLost
PROPERTIES
  AttemptsForever
  AttemptsEnd
