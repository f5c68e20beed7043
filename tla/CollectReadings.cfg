SPECIFICATION FairSpec
CONSTANTS
  Tag = {t1}
  Value = {v1, v2}
  NoValue = NoValue
  Writable = {}
  Displayed = {t1}
  Readings = {v1, v2, Unreadable}
  Unreadable = Unreadable
  None = None
  RawCap = 1
  HistCap = 1
INVARIANTS
  TypeOK
  HistoryFollowsLive
PROPERTIES
  KnownValueKept
  LinkLossShown
  LiveSettles
