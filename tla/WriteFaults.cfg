SPECIFICATION DWSpec
CONSTANTS
  Faults = {"automount", "busy", "lazy", "mountLate", "umountError", "rereadFails", "flushLost", "writeBack", "wimHang", "cancel"}
  Configs = {}
  Requests <- BackendRequests
  Chunks = 3
  MaxRuns = 1
INVARIANTS
  FailureReported
PROPERTIES
  WriteReturns
  CancelStopsWrite
CHECK_DEADLOCK FALSE
