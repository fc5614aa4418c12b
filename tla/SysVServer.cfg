\* Clients may wait for ever for a server that refused them or has gone.
CHECK_DEADLOCK FALSE
SPECIFICATION Spec
CONSTANTS
  Clients = {c1, c2, c3}
  Server = Server
  NoPid = NoPid
  MAX_CLIENTS = 2
  MaxInterrupted = 1
INVARIANTS
  Consistent
  ErrorsOnlyOnDesertion
PROPERTIES
  RequestsAnswered
