SPECIFICATION DMSpec
CONSTANTS
  Node = {"sda", "sdb", "sdc"}
  Kind <- MCKind
  None = "none"
  Root = "sda"
  RootName = "sda"
  QueueLen = 2
  MaxMoves = 4
INVARIANTS
  DMTypeOK
  Settled
  SystemDiskNotOffered
PROPERTIES
  Converges
CHECK_DEADLOCK FALSE
