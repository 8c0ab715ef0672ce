CONSTANTS
  Faults = {"file", "ai", "aiCapture", "aenc", "aencStream", "ao", "speaker", "adec",
            "adecStream", "vi", "viCapture", "md", "osd", "ipc", "match", "attr",
            "md_setup", "font", "draw", "read", "write", "send",
            "notice", "flush"}
  MaxFrames = 4
  FileLen = 5
  Block = 2
SPECIFICATION FairSpec
INVARIANTS TypeOK NothingLeft InOrder
PROPERTIES HandleSpec Ends
CHECK_DEADLOCK FALSE
