----------------------------- MODULE MCMailSync -----------------------------
(* TLC instances of MailSync: a sync and one or two fetch-range jobs.       *)
EXTENDS MailSync, TLC

CONSTANTS s1, s2, r1

SyncAndRange == [j \in {s1, r1} |-> IF j = s1 THEN "sync" ELSE "range"]
TwoSyncs     == [j \in {s1, s2} |-> "sync"]


(* A user whose sync_state row was created by a change of the settings and  *)
(* marked by a sync of the empty mailbox.                                   *)
MarkedInit ==
  /\ at = [m \in Msgs |-> 0] /\ hid = 1
  /\ gone = {} /\ aged = {} /\ horizon = 1
  /\ stored = {} /\ passed = {} /\ txn = {}
  /\ rows = {Settings}
  /\ mark = [r \in RowIds |-> IF r = Settings THEN 1 ELSE 0]
  /\ filter = [r \in RowIds |-> "all"]
  /\ job = [j \in Jobs |-> IdleJob]
  /\ setter = IdleSetter
  /\ skipped = {} /\ tooOld = {}

MarkedSpec == MarkedInit /\ [][Next]_vars /\ Fairness
=============================================================================
