CONSTANTS
  Requests = {"bmp", "unknown"}
  Faults = {}
  MaxHits = 2
  MaxRuns = 1
  Blocks = 2
  Backlog = 1
  MaxFds = 8
SPECIFICATION Spec
INVARIANTS ServerSurvives
CHECK_DEADLOCK FALSE
