\* The barber sleeps, or the shop is closed.
CHECK_DEADLOCK FALSE
SPECIFICATION LifeSpec
CONSTANTS
  Customers = {c1, c2, c3}
  Nobody = nobody
  Seats = 2
  Visits <- OneVisit
INVARIANTS
  NobodyForgotten
PROPERTIES
  FoundIsServed
  ClosingEndsCustomers
