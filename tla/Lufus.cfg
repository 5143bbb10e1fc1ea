SPECIFICATION MCSpec
CONSTANTS
  Node = {"sda", "sdb", "sdc"}
  Kind <- MCKind
  Root = "sda"
  RootName = "sda"
  QueueLen = 1
  MaxMoves = 2
  Analyses <- MCAnalyses
  Troubles = {}
  MaxPicks = 1
  MaxEdits = 0
  None = None
INVARIANTS
  TypeOK
  SuccessIsTrue
  SystemDiskKept
PROPERTIES
  OnlyTheNamedIfQuiet
  Converges
CHECK_DEADLOCK FALSE
