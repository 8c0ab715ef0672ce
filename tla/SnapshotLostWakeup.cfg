CONSTANTS
  Requests = {"bmp"}
  Faults = {}
  MaxHits = 2
  MaxRuns = 1
  Blocks = 2
  Backlog = 2
  MaxFds = 8
SPECIFICATION FairSpec
PROPERTIES Served
CHECK_DEADLOCK FALSE
