\* Settles, reruns and expiries of a run of one node, with one failure of
\* any process or of the pass.
SPECIFICATION FairSpec
CONSTANTS
  Graph <- Solo
  EventWorkers <- NoWorkers
  RefuseTerminated = TRUE
  Retention = 1
  MaxFaults = 1
  Kinds <- StartRerunA
  Patient = FALSE
  MaxRequests = 2
  MaxFirings = 0
  MaxTime = 2
\* The scheduler stops when the run is settled and no request is left.
CHECK_DEADLOCK FALSE
INVARIANTS SettledHasEntry
PROPERTIES ImplementsLifecycle DueEntriesGo
