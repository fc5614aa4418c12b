\* With every client gone the server waits for another one.
CHECK_DEADLOCK FALSE
SPECIFICATION Spec
CONSTANTS
  first = first
  NetClients = {first}
  LocalClients = {second, third}
  Name <- MCName
  EmptyName = ""
  NoFd = NoFd
  MAX_CLIENTS = 2
  MaxEvents = 4
  CountTasks = TRUE
  SocketRoom = 2
INVARIANTS
  Consistent
  RepliesFirst
  WorkersListed
  DropsOnlyPinged
