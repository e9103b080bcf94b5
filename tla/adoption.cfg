\* A publisher and another tool move an asset between two graphs, with
\* failures and restarts with other pools.
SPECIFICATION FairSpec
CONSTANTS
  Graphs <- TwoGraphs
  Definitions <- OneAsset
  None = None
  Publishers <- OnePublisher
  Builds <- Smaller
  OtherTools = TRUE
  MaxPublishes = 3
  MaxFaults = 1
INVARIANTS TypeOK AdoptedShareNoAsset SchedulesHaveRecords
PROPERTIES PublishedIsAdopted
