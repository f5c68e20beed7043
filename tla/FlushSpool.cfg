SPECIFICATION FairSpec
CONSTANTS
  Sample <- MCSample
  Key <- MCKey
  KeyOf <- MCKeyOf
  Unmarshalable <- MCNaN
  Unstorable <- MCNul
  DiskStates <- MCDisk
  ChanCap = 1
  MaxBatch = 2
  MaxSpool = 2
  MaxBoots = 1
  Faults = {"ackLost"}
INVARIANTS
  TypeOK
  ReplayHoldsStoredHead
PROPERTIES
  ImplementsLedger
  MemoryDrains
  DrainsUnlessPoisoned
CHECK_DEADLOCK FALSE
