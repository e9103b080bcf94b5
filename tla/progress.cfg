\* Every graph of up to three nodes, with up to two reruns of a settled run.
SPECIFICATION FairSpec
CONSTANTS
  MaxNodes = 3
  MaxReruns = 2
  Graphs <- AllGraphs
\* A settled run without reruns left stops.
CHECK_DEADLOCK FALSE
INVARIANTS NeverStuck OutputsAreFresh
PROPERTIES BlockedIsFinal RerunBlocksNothing EventuallySettles
