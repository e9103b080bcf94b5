\* Every edge set of three nodes, two nodes with faults, the schedules of a
\* short calendar, and a node with templates that runs.
SPECIFICATION Spec
CONSTANTS
  Files <- AllFiles
  Values <- SomeValues
  BadName = 0
  NoAsset = NoAsset
  NoRule = NoRule
  NoSchedule = NoSchedule
  BadSchedule = BadSchedule
  Whole = Whole
  NoItem = NoItem
  NoText = NoText
  EnvNames = {"HOME"}
  Epoch = 6
  MinutesPerHour = 3
  HoursPerDay = 2
INVARIANTS BuiltIsSound CyclesAreReal OnlyPathsAreMissing
PROPERTIES MembersRenderAlike
CHECK_DEADLOCK FALSE
