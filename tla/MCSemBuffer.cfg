SPECIFICATION Spec
CONSTANTS
  Producers = {p1, p2}
  Consumers = {c1, c2}
  QueueSize = 2
  Input <- MCInput
  LastTerminated = TRUE
  SearchLength = 2
  SearchOperator = "<"
INVARIANTS
  PermitsGuardQueue
PROPERTIES
  ImplementsChannel
  AllFinish
