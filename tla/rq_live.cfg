SPECIFICATION FairSpec
CONSTANTS
  u1 = u1
  u2 = u2
  p1 = p1
  Users = {u1}
  Types <- SyncOnly
  Sync = "sync"
  TypeRank <- SyncRank
  Requests <- OneSync
  Enqueuers = {e1, e2}
  Workers = {w1, w2}
  Processes = {w1, w2}
  ProcessOf <- OwnProcesses
  MaxRetries = 2
  TaskTimeout = 1
  LockTTL = 2
  Prompt = TRUE
  MaxCalls = 2
  MaxCrashes = 1
  MaxErrors = 0
  MaxExpiries = 1
  NoType = NoType
  NoUser = NoUser
PROPERTIES
  EveryTaskSettles
  
CHECK_DEADLOCK FALSE
