\* Two reruns, each sent when the run is settled and no request is left.
SPECIFICATION Spec
CONSTANTS
  Graph <- Solo
  EventWorkers <- OneWorker
  RefuseTerminated = TRUE
  Retention = 1
  MaxFaults = 0
  Kinds <- StartRerunA
  Patient = TRUE
  MaxRequests = 3
  MaxFirings = 0
  MaxTime = 1
\* The scheduler stops when the run is settled and no request is left.
CHECK_DEADLOCK FALSE
INVARIANTS CompleteIsSound
