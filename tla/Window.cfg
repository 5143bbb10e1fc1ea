SPECIFICATION MWSpec
CONSTANTS
  Entries <- MCEntries
  Lists <- MCLists
  Analyses <- MCAnalyses
  None = None
  Troubles = {"noPkexec", "root", "noWimlib", "fullTmp"}
  MaxPicks = 2
  MaxEdits = 2
INVARIANTS
  MWTypeOK
  ButtonsRight
  NameSettles
  FormFits
  RequestOfOneImage
PROPERTIES
  OneBackend
  AutoConfigured
  WriteEnds
CHECK_DEADLOCK FALSE
