CONSTANTS
  Requests = {"bmp"}
  Faults = {"init"}
  MaxHits = 2
  MaxRuns = 1
  Blocks = 2
  Backlog = 1
  MaxFds = 8
SPECIFICATION Spec
INVARIANTS FrameDiscipline
CHECK_DEADLOCK FALSE
