SPECIFICATION BackgroundSpec
CONSTANTS
  u1 = u1
  u2 = u2
  k1 = k1
  k2 = k2
  k3 = k3
  MaxTasks = 4
  Keys = {k1, k2, k3}
  UserOf <- KeyUsers
  SyncKeys = {k1, k2}
  Workers = {w1, w2}
  ListLimit = 2
  ListKeep = 1
  MaxKeys = 2
  NoKey = NoKey
  Jobs = {x1}
  Owners = {u1, u2}
  TxIds = {1, 2, 3, 4}
  TxOwner <- TxUser
  BatchSize = 1
  NoOwner = NoOwner
  MaxRestarts = 1
  Emails = {1, 2, 3}
  Batch = 2
INVARIANTS
  BackgroundTypeOK
  OneTaskPerKey
  ExportFaithful
  BackfillComplete
PROPERTIES
  MemImplementsLifecycle
  BackgroundEnds
CHECK_DEADLOCK FALSE
