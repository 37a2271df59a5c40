\* A command is dropped while the server starts.
CONSTANTS
  p1 = p1
  p2 = p2
  Procs = {p1}
  NoProc = NoProc
  MaxStarts = 1
  Overlap = FALSE
  DropsInWindow = TRUE
  UserStops = FALSE
SPECIFICATION LFairSpec
PROPERTIES
  CommandsObeyed
CHECK_DEADLOCK FALSE
