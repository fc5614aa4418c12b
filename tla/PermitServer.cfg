\* The program ends; and it stops if a request came before its pid was stored.
CHECK_DEADLOCK FALSE
SPECIFICATION Spec
CONSTANTS
  N = 4
  K = 2
INVARIANTS
  PermitsFollowRequests
  NobodyLeftBehind
PROPERTIES
  ProgramEnds
