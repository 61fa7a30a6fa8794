SPECIFICATION Spec
CONSTANTS
  u1 = u1
  u2 = u2
  p1 = p1
  Users = {u1, u2}
  Types <- MCTypes
  Sync = "sync"
  TypeRank <- MCTypeRank
  Requests <- TwoUsers
  Enqueuers = {e1, e2}
  Workers = {w1, w2}
  Processes = {w1, w2}
  ProcessOf <- OwnProcesses
  MaxRetries = 2
  TaskTimeout = 1
  LockTTL = 2
  Prompt = TRUE
  MaxCalls = 2
  MaxCrashes = 1
  MaxErrors = 1
  MaxExpiries = 0
  NoType = NoType
  NoUser = NoUser
INVARIANTS
  TypeOK
  HeldOnce
  DeadLetterExact
  SyncMutex
  OneUnfinishedPerKey
 
SYMMETRY Symmetry
CHECK_DEADLOCK FALSE
