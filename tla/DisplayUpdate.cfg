CONSTANTS
  NChunks = 2
  Values = {"dark", "lit"}
  Blank = "dark"
  Writers = {"console", "user"}
  Faults = {"info", "vmem", "array", "nak", "register", "user"}
  MaxWrites = 2
  MaxProbes = 2
SPECIFICATION FairSpec
INVARIANTS TypeOK PanelCurrent
PROPERTIES Shown
CHECK_DEADLOCK FALSE
