SPECIFICATION MarkedSpec
CONSTANTS
  s1 = s1
  s2 = s2
  r1 = r1
  Msgs = {m1, m2}
  Deletable = {}
  Aging = {}
  Jobs = {s1, r1}
  Kind <- SyncAndRange
  Overlap = FALSE
  Choices = {}
  HistoryPage = 2
  Settings = settings
  NoRow = NoRow
PROPERTY ImportProgresses
CHECK_DEADLOCK FALSE
