\* Clients may wait for ever for a server that refused them or has gone.
CHECK_DEADLOCK FALSE
SPECIFICATION Spec
CONSTANTS
  Clients = {c1, c2}
  Server = Server
  NoPid = NoPid
  MAX_CLIENTS = 2
  MQ_MAXMSG = 2
  MaxInterrupted = 0
INVARIANTS
  RunningServerIsFound
