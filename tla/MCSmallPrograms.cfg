\* The programs end, or hang as OnlyLeftFullPipesBlock says.
CHECK_DEADLOCK FALSE
SPECIFICATION MCSpec
CONSTANTS
  Keys = {33, 34, 200}
  MaxLength = 4
  MaxCrashes = 2
  MaxSide = 3
  MaxThreads = 10
  MaxFilter = 3
  MaxForks = 3
  MAX_COMMANDS = 3
  Items = 3
  Capacity = 1
  Slaves = {s1, s2, s3}
  MaxLines = 2
  Room = 2
INVARIANTS
  OneLostPerCrash
  SortedStably
  CopyFaithful
  FilterRight
  TerminalObeyed
  OnlyLeftFullPipesBlock
  EndReachesAll
  OnlyLatecomersLose
  OnlyStrandedWait
