SPECIFICATION Spec
CONSTANTS
  may = may
  june = june
  e1 = e1
  v1 = v1
  r1 = r1
  Mails = {e1, e2}
  Months = {may, june}
  Year <- SameYear
  Vals = {v1}
  Requests = {r1, r2}
  Ops = {"import"}
  MaxFaults = 0
  NoDate = NoDate
  NoTxn = NoTxn
  NoRollup = NoRollup
INVARIANTS
  SyncedMonthsExact
CHECK_DEADLOCK FALSE
