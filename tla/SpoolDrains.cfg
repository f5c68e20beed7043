SPECIFICATION FairSpec
CONSTANTS
  Sample <- MCSample
  Key <- MCKey
  KeyOf <- MCKeyOf
  Unmarshalable <- MCNaN
  Unstorable = {}
  DiskStates <- MCSound
  ChanCap = 2
  MaxBatch = 2
  MaxSpool = 2
  MaxBoots = 0
  Faults = {}
PROPERTY SpoolDrains
CHECK_DEADLOCK FALSE
