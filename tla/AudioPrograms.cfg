CONSTANTS
  Faults = {"file", "device", "interval", "start", "thread", "read", "send",
            "short", "notice", "write", "get"}
  FileLen = 3
  SaveFrames = 3
SPECIFICATION FairSpec
INVARIANTS TypeOK SafeShutdown PlayedWhole RecordedOnce StopObeyed
PROPERTIES Ends
CHECK_DEADLOCK FALSE
