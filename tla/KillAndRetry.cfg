SPECIFICATION DWSpec
CONSTANTS
  Faults = {"kill", "cancel"}
  Configs = {}
  Requests <- WholeRequests
  Chunks = 3
  MaxRuns = 2
INVARIANTS
  OnlyTheImage
PROPERTIES
  ImplementsUsbWrite
CHECK_DEADLOCK FALSE
