\* With every client gone the server waits for another one.
CHECK_DEADLOCK FALSE
SPECIFICATION TimelySpec
CONSTANTS
  first = first
  NetClients = {first}
  LocalClients = {second}
  Name <- MCName
  EmptyName = ""
  NoFd = NoFd
  MAX_CLIENTS = 2
  MaxEvents = 3
  CountTasks = FALSE
  SocketRoom = 2
PROPERTIES
  GoneIsRemoved
