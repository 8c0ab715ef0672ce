CONSTANTS
  Requests = {"bmp", "missing"}
  Faults = {"leave"}
  MaxHits = 3
  MaxRuns = 2
  Blocks = 2
  Backlog = 2
  MaxFds = 8
SPECIFICATION FairSpec
INVARIANTS TypeOK NoConcurrentWrite FreshReply SignalStillToCome
PROPERTIES ServiceSpec WaiterServed
CHECK_DEADLOCK FALSE
