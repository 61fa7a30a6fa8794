SPECIFICATION ImportedSpec
CONSTANTS
  may = may
  june = june
  e1 = e1
  v1 = v1
  r1 = r1
  Mails = {e1, e2}
  Months = {may, june}
  Year <- SameYear
  Vals = {v1}
  Requests = {r1, r2, r3}
  Ops = {"import", "patch", "reclassify", "stream", "reprocess", "bulk",
         "batch", "keep", "discard", "undo", "delete", "cleanup", "resolve"}
  MaxFaults = 1
  NoDate = NoDate
  NoTxn = NoTxn
  NoRollup = NoRollup
INVARIANTS
  TypeOK
  RollupsFollow
PROPERTIES
  RollupsCatchUp
CHECK_DEADLOCK FALSE
