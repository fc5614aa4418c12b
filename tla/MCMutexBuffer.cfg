SPECIFICATION Spec
CONSTANTS
  Producers = {p1, p2, p3}
  Consumers = {c1, c2}
  NoThread = none
  QueueSize = 2
  MaxSpurious = 1
  Input <- MCInput
  LastTerminated = TRUE
  SearchLength = 2
  SearchOperator = "="
INVARIANTS
  SleepersHaveReason
  OutputFaithful
PROPERTIES
  ImplementsChannel
  AllFinish
