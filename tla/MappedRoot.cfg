SPECIFICATION DMSpec
CONSTANTS
  Node = {"sda", "sdb", "sdc"}
  Kind <- MCKind
  None = "none"
  Root = "sda"
  RootName = "none"
  QueueLen = 2
  MaxMoves = 4
INVARIANTS
  SystemDiskNotOffered
CHECK_DEADLOCK FALSE
