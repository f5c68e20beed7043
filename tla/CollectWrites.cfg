SPECIFICATION FairSpec
CONSTANTS
  Tag = {t1}
  Value = {v1}
  NoValue = NoValue
  Writable = {t1}
  Displayed = {}
  Readings = {v1, Unreadable}
  Unreadable = Unreadable
  None = None
  RawCap = 1
  HistCap = 1
INVARIANTS
  HistoryFollowsLive
PROPERTIES
  KnownValueKept
  LinkLossShown
  LiveSettles
