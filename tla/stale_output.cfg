\* A rerun at any time.
SPECIFICATION Spec
CONSTANTS
  Graph <- Chain
  EventWorkers <- OneWorker
  RefuseTerminated = TRUE
  Retention = 1
  MaxFaults = 0
  Kinds <- StartRerun
  Patient = FALSE
  MaxRequests = 2
  MaxFirings = 0
  MaxTime = 1
\* The scheduler stops when the run is settled and no request is left.
CHECK_DEADLOCK FALSE
INVARIANTS OutputsAreFresh
