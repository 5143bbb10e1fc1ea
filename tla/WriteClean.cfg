SPECIFICATION DWSpec
CONSTANTS
  Faults = {"cancel"}
  Configs = {}
  Requests <- CleanRequests
  Chunks = 3
  MaxRuns = 1
INVARIANTS
  DWTypeOK
  PreparedAsAsked
  SuccessMeansCopied
  NoLeakedMounts
PROPERTIES
  WipeOnlyUnmounted
CHECK_DEADLOCK FALSE
