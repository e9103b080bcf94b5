\* A run without reruns and cancels of a graph with a one-failed join, started
\* by a request or a cron firing, with one failure of any process.
SPECIFICATION Spec
CONSTANTS
  Graph <- Fallback
  EventWorkers <- OneWorker
  RefuseTerminated = TRUE
  Retention = 1
  MaxFaults = 1
  Kinds <- StartOnly
  Patient = FALSE
  MaxRequests = 1
  MaxFirings = 1
  MaxTime = 1
\* The scheduler stops when the run is settled and no request is left.
CHECK_DEADLOCK FALSE
PROPERTIES ImplementsProgress
