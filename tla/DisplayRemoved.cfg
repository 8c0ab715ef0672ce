CONSTANTS
  NChunks = 2
  Values = {"dark"}
  Blank = "dark"
  Writers = {"user"}
  Faults = {}
  MaxWrites = 1
  MaxProbes = 1
SPECIFICATION Spec
INVARIANTS NoUseAfterFree
CHECK_DEADLOCK FALSE
