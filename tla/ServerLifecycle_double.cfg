\* Two processes are launched together.
CONSTANTS
  p1 = p1
  p2 = p2
  Procs = {p1, p2}
  NoProc = NoProc
  MaxStarts = 1
  Overlap = TRUE
  DropsInWindow = FALSE
  UserStops = FALSE
SPECIFICATION LSpec
INVARIANTS
  ServerIsRecorded
CHECK_DEADLOCK FALSE
