CONSTANTS
  Requests = {"bmp", "file"}
  Faults = {"init", "socket", "thread", "convert", "short", "leave", "spurious"}
  MaxHits = 3
  MaxRuns = 2
  Blocks = 2
  Backlog = 2
  MaxFds = 3
SPECIFICATION Spec
INVARIANTS EveryImageANewFrame
CHECK_DEADLOCK FALSE
