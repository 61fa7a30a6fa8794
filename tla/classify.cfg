SPECIFICATION CallsSpec
CONSTANTS
  import = import
  backfill = backfill
  proxy = proxy
  Runs = {import, backfill}
  MailsOf <- ThreeAndOne
  LlmBatch = 2
  DailyBudget = 2
  UserBudget = 2
  Clients = {proxy}
  ClientOf <- OneClient
  NoRun = NoRun
  Askers = {1, 2}
  MaxEstimate = 2
  Rpm = 2
  Tpm = 2
  Rpd = 3
  Tpd = 4
  Minute = 2
  Day = 3
  Patience = 1
  LastTick = 4
INVARIANTS
  CallsTypeOK
  DailySpendBounded
  GroqWithinLimits
PROPERTY EveryMailClassified
CHECK_DEADLOCK FALSE
