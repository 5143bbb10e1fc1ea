SPECIFICATION Spec
CONSTANTS
  RawImages <- MCImages
  CatalogSlots = 3
  SectorRecords = 3
  MaxFiles = 3
  Tools = {"7z", "root"}
INVARIANTS
  TypeOK
  AnalysisAsAssumed
  InstallerSeen
  NothingLeft
PROPERTIES
  ScanEnds
CHECK_DEADLOCK FALSE
