CONSTANTS
  d1 = d1
  d2 = d2
  t1 = t1
  t2 = t2
  h1 = h1
  h2 = h2
  None = None
  Device = {d1, d2}
  Tag = {t1, t2}
  Type = {float64, bool}
  float64 = float64
  bool = bool
  Policy = {stop, drop_oldest}
  stop = stop
  drop_oldest = drop_oldest
  Handler = {h1, h2}
  TagBodies <- MCTagBodies
  EnvPassword = TRUE
  EnvPolicy = stop
  EnvSimulation = TRUE
  MaxRequests = 2
SPECIFICATION Spec
INVARIANTS
  TypeOK
  DiskHoldsAcknowledged
  GateFollowsConfig
PROPERTIES
  SavedChangesAnnounced
  StagedEditsAreLocal
