\* A mapped node that is rerun with the same items or others, with failures of
\* its steps and a result that the memo retention removes.
SPECIFICATION FairSpec
CONSTANTS
  Inputs = {"x", "y"}
  ItemLists <- Lists
  NotAnItem = "none"
  MaxAttempts = 2
  Patient = TRUE
  Stalled = {1}
  MaxReruns = 1
  MaxFaults = 1
  MaxRemoved = 1
\* The node stops when its run is settled or removed and no rerun is left.
CHECK_DEADLOCK FALSE
INVARIANTS TypeOK RemovedLeavesNoGroup
PROPERTIES SuccessesAreKept KeepsPromise NodeEnds CancelledNodeStops
