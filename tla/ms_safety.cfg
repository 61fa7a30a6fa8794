SPECIFICATION Spec
CONSTANTS
  s1 = s1
  s2 = s2
  r1 = r1
  Msgs = {m1, m2}
  Deletable = {m2}
  Aging = {m1}
  Jobs = {s1, r1}
  Kind <- SyncAndRange
  Overlap = FALSE
  Choices = {"unread"}
  HistoryPage = 1
  Settings = settings
  NoRow = NoRow
INVARIANTS
  TypeOK
  MarkIsSafe
  
CHECK_DEADLOCK FALSE
