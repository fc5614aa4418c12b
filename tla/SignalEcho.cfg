\* The parent stops when it has ended, or waits for ever.
CHECK_DEADLOCK FALSE
SPECIFICATION EchoSpec
CONSTANTS
  MaxL = 4
INVARIANTS
  Accounted
  SendsEnough
PROPERTIES
  AllEnd
