SPECIFICATION Spec
CONSTANTS
  u1 = u1
  u2 = u2
  p1 = p1
  Users = {u1, u2}
  Types <- MCTypes
  Sync = "sync"
  TypeRank <- MCTypeRank
  Requests <- OneUser
  Enqueuers = {e1, e2}
  Workers = {w1, w2}
  Processes = {w1, w2}
  ProcessOf <- OwnProcesses
  MaxRetries = 2
  TaskTimeout = 2
  LockTTL = 2
  Prompt = TRUE
  MaxCalls = 2
  MaxCrashes = 0
  MaxErrors = 0
  MaxExpiries = 0
  NoType = NoType
  NoUser = NoUser
INVARIANT SyncMutex
CHECK_DEADLOCK FALSE
