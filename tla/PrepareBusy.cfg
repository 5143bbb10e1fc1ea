SPECIFICATION PMSpec
CONSTANTS
  Faults = {"busy"}
  Configs <- MCConfigs
INVARIANTS
  UnmountAllKept
CHECK_DEADLOCK FALSE
