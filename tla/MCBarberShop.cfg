\* The barber goes to sleep for good after the last visit.
CHECK_DEADLOCK FALSE
SPECIFICATION Spec
CONSTANTS
  Customers = {c1, c2, c3, c4}
  Nobody = nobody
  Seats = 2
  Visits <- MCVisits
  Regulars = {c1, c2}
INVARIANTS
  RolesAgree
PROPERTIES
  ImplementsService
  AllServed
