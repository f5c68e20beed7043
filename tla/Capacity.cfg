SPECIFICATION Spec
CONSTANTS
  Caller = {flush, replay}
  None = None
  Settings <- MCSettings
  Volumes <- MCVolumes
  EnvBytes = 0
  Width = 2
  RowBytes = 2
  Base = 8
  Starts <- MCStarts
  MaxDrop = 2
  MaxPasses = 1
  MaxRounds = 1
  Faults = {"size", "disk", "list", "drop", "ackLost", "unknown", "lag"}
  MaxTime = 4
  MaxCalls = 2
  MaxFaults = 1
  MaxEdits = 1
SYMMETRY MCSymmetry
INVARIANTS
  TypeOK
  RefusalsFit
  
PROPERTIES
  LatestSampleKept
  TrimIsTight
  CallsAdvance
CHECK_DEADLOCK FALSE
