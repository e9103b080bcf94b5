\* Every operator, with two workers, a stall or a crash, and a clock that
\* passes the deadlines and the timeouts of every attempt.
SPECIFICATION FairSpec
CONSTANTS
  Operators <- AllOperators
  Workers <- TwoWorkers
  None = None
  MaxAttempts = 2
  Timeout = 2
  Interval = 1
  RunTime = 2
  Extension = 2
  MaxTime = 4
  MaxFaults = 1
\* The instance is ended and the clock is at its bound.
CHECK_DEADLOCK FALSE
INVARIANTS TypeOK ExpiresJustly
PROPERTIES DeadlineIsKept InstanceEnds CallsEnd
