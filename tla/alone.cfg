\* The reconciler alone: every event is lost.  One failure of any process, and a
\* command that waits for a request.
SPECIFICATION WaitSpec
CONSTANTS
  Graph <- Chain
  EventWorkers <- NoWorkers
  RefuseTerminated = TRUE
  Retention = 1
  MaxFaults = 1
  Kinds <- StartRerun
  Patient = FALSE
  MaxRequests = 2
  MaxFirings = 0
  MaxTime = 1
\* The scheduler stops when the run is settled and no request is left.
CHECK_DEADLOCK FALSE
INVARIANTS CompleteIsSound CompleteIsQuiet FailedLeavesNoFirst
PROPERTIES ActiveSettles WaitEnds DoneIsShown
