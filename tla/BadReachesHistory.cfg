SPECIFICATION FairSpec
CONSTANTS
  Tag = {t1}
  Value = {v1}
  NoValue = NoValue
  Writable = {}
  Displayed = {t1}
  Readings = {v1, Unreadable}
  Unreadable = Unreadable
  None = None
  RawCap = 1
  HistCap = 1
PROPERTY BadReachesHistory
