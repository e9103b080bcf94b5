\* A start and a cancel at any time, with one failure of any process.  The
\* task instances need not end unless they are cancelled.
SPECIFICATION FairSpec
CONSTANTS
  Graph <- Chain
  EventWorkers <- OneWorker
  RefuseTerminated = TRUE
  Retention = 1
  MaxFaults = 1
  Kinds <- StartCancel
  Patient = FALSE
  MaxRequests = 2
  MaxFirings = 0
  MaxTime = 1
\* The scheduler stops when the run is settled and no request is left.
CHECK_DEADLOCK FALSE
INVARIANTS FailedIsQuiet
PROPERTIES CancelDecides CancelledGoesQuiet
