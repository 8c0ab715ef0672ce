CONSTANTS
  Faults = {"ipc", "vi", "capture", "ptz", "mt", "venc", "stream", "fp", "fw",
            "saver", "tracker", "dir", "args", "match", "attr", "stat", "short", "full"}
  Frames = 2
  FrameLen = 2
  MaxShorts = 1
SPECIFICATION FairSpec
INVARIANTS TypeOK GivenBack SavedWhole
PROPERTIES HandleSpec MainReturns
CHECK_DEADLOCK FALSE
