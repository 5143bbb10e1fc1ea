SPECIFICATION DWSpec
CONSTANTS
  Faults = {"umountError", "mountLate"}
  Configs = {}
  Requests <- LinuxRequests
  Chunks = 3
  MaxRuns = 1
INVARIANTS
  SuccessMeansComplete
CHECK_DEADLOCK FALSE
