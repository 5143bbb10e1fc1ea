SPECIFICATION DWSpec
CONSTANTS
  Faults = {}
  Configs = {}
  Requests <- StubRequests
  Chunks = 3
  MaxRuns = 1
INVARIANTS
  SuccessMeansComplete
CHECK_DEADLOCK FALSE
