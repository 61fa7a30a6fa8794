------------------------------ MODULE MCLedger ------------------------------
(* TLC instances of Ledger: two months of one year.                         *)
EXTENDS Ledger, TLC

CONSTANTS may, june, e1, v1, r1

SameYear == [m \in {may, june} |-> 2026]

(* The request r1 has imported the email e1 and its rollup is computed.     *)
Imported == [id |-> r1, month |-> may, val |-> v1, status |-> "auto"]
ImportedInit ==
  /\ mail = [e \in Mails |-> IF e = e1 THEN "passed" ELSE "absent"]
  /\ txn = [e \in Mails |-> IF e = e1 THEN Imported ELSE NoTxn]
  /\ rollup = [m \in Months |-> IF m = may THEN Exact(may) ELSE NoRollup]
  /\ job = [p \in Payloads |-> NoJob]
  /\ req = [r \in Requests |-> IF r = r1 THEN DoneReq ELSE IdleReq]
  /\ faults = 0
  /\ gaps = {}

ImportedSpec == ImportedInit /\ [][Next]_vars /\ Fairness

=============================================================================
