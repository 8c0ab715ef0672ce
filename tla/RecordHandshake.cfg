CONSTANTS
  Requests = {"bmp", "file", "closed"}
  Faults = {"leave"}
  MaxHits = 2
  MaxRuns = 2
  Blocks = 2
  Backlog = 2
  MaxFds = 8
SPECIFICATION FairSpec
INVARIANTS TypeOK NoConcurrentWrite FreshReply EveryImageANewFrame FrameDiscipline
PROPERTIES CountsOnlyWanted ServiceSpec Served
CHECK_DEADLOCK FALSE
