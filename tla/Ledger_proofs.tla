---------------------------- MODULE Ledger_proofs ----------------------------
(* Type correctness of Ledger, and the proof that a stale rollup is covered: *)
(* still to be recomputed, or of a month in gaps.                            *)
EXTENDS Ledger, TLAPS

(***************************************************************************)
(* Type correctness.                                                       *)
(***************************************************************************)

LEMMA MonthsOfType ==
  ASSUME NEW rows, rows \subseteq Txn
  PROVE  MonthsOf(rows) \subseteq Months
BY DEF MonthsOf, Txn

LEMMA ConstantTypes ==
  /\ NoJob \in Job
  /\ IdleReq \in Req
  /\ DoneReq \in Req
  /\ NoneSeen \in [Mails -> Txn \cup {NoTxn}]
  /\ \A p \in Payloads : p \subseteq Months
<1>1. NoneSeen \in [Mails -> Txn \cup {NoTxn}]
  BY DEF NoneSeen
<1>2. NoneSaw \in [Mails -> Filtered]
  BY DEF NoneSaw, Filtered
<1>3. EmptyRollup \in Rollup
  BY DEF EmptyRollup, Rollup
<1>4. NoJob \in Job
  BY <1>3 DEF NoJob, Job
<1>5. IdleReq \in Req
  BY <1>1, <1>2 DEF IdleReq, Req, AllOps, Imports
<1>6. DoneReq \in Req
  BY <1>5 DEF DoneReq, Req
<1> QED
  BY <1>1, <1>4, <1>5, <1>6 DEF Payloads

(* Merging rows of one type gives a row of that type.                       *)
LEMMA MergeType ==
  ASSUME NEW a \in Txn, NEW b \in Txn, NEW c \in Txn
  PROVE  Merge(a, b, c) \in Txn
BY DEF Merge, Txn

LEMMA MergeRollupType ==
  ASSUME NEW a \in Rollup, NEW b \in Rollup, NEW c \in Rollup
  PROVE  Merge(a, b, c) \in Rollup
BY DEF Merge, Rollup

LEMMA ReadTypes ==
  ASSUME TypeOK, NEW m
  PROVE  /\ Totals(m) \in SUBSET (Mails \X Vals \X BOOLEAN)
         /\ Groups(m) \in SUBSET (Mails \X Vals)
<1>1. \A e \in In(m) : e \in Mails /\ txn[e] \in Txn
  BY DEF TypeOK, In
<1>2. \A e \in In(m) : txn[e].val \in Vals
  BY <1>1 DEF Txn
<1>3. Totals(m) \in SUBSET (Mails \X Vals \X BOOLEAN)
  <2> DEFINE row(e) == <<e, txn[e].val, txn[e].status = "needs_review">>
  <2>1. \A e \in In(m) : (txn[e].status = "needs_review") \in BOOLEAN
    BY Zenon
  <2>2. \A e \in In(m) : row(e) \in Mails \X Vals \X BOOLEAN
    BY <1>1, <1>2, <2>1
  <2> HIDE DEF row
  <2>3. {row(e) : e \in In(m)} \subseteq Mails \X Vals \X BOOLEAN
    BY <2>2
  <2>4. Totals(m) = {row(e) : e \in In(m)}
    BY Zenon DEF Totals, row
  <2> QED
    BY <2>3, <2>4
<1>4. Groups(m) \in SUBSET (Mails \X Vals)
  BY <1>1, <1>2 DEF Groups
<1> QED
  BY <1>3, <1>4

LEMMA CommitType ==
  ASSUME TypeOK, NEW r \in Requests, NEW to, NEW after, NEW new,
         CommitAs(r, to, after, new),
         to \in [Mails -> Filtered],
         after \in [Mails -> Txn \cup {NoTxn}],
         \A e \in req[r].mails : new[e] \in Txn \cup {NoTxn}
  PROVE  TypeOK'
<1> DEFINE loaded == {req[r].seen[e] : e \in req[r].mails} \ {NoTxn}
           left == {new[e] : e \in req[r].mails} \ {NoTxn}
<1>1. req[r] \in Req
  BY DEF TypeOK
<1>2. /\ req[r].mails \subseteq Mails
      /\ req[r].seen \in [Mails -> Txn \cup {NoTxn}]
      /\ req[r].op \in AllOps
  BY <1>1 DEF Req
<1>3. loaded \subseteq Txn /\ left \subseteq Txn
  BY <1>2
<1>4. /\ MonthsOf(left) \subseteq Months
      /\ MonthsOf(loaded) \subseteq Months
      /\ MonthsOf(left \cup loaded) \subseteq Months
  <2>1. left \cup loaded \subseteq Txn
    BY <1>3
  <2> HIDE DEF left, loaded
  <2> QED
    BY <1>3, <2>1, MonthsOfType
<1>5. ToRecompute(r, new) \subseteq Months
  BY <1>4, Zenon DEF ToRecompute
<1>6. LeftBehind(r, after) \subseteq Months
  <2> SUFFICES ASSUME NEW e \in req[r].mails
               PROVE /\ MonthsOf({txn[e]} \ {NoTxn}) \subseteq Months
                     /\ MonthsOf(({txn[e]} \ {NoTxn}) \cup ({after[e]} \ {NoTxn}))
                          \subseteq Months
    BY DEF LeftBehind
  <2>1. e \in Mails
    BY <1>2
  <2>2. /\ {txn[e]} \ {NoTxn} \subseteq Txn
        /\ ({txn[e]} \ {NoTxn}) \cup ({after[e]} \ {NoTxn}) \subseteq Txn
    BY <2>1 DEF TypeOK
  <2> QED
    BY <2>2, MonthsOfType
<1>7. req' \in [Requests -> Req]
  <2> DEFINE owed == ToRecompute(r, new)
             after1 == [IdleReq EXCEPT !.pc = "enqueue", !.op = req[r].op,
                                       !.months = owed]
  <2>1. after1 \in Req
    BY <1>2, <1>5, ConstantTypes DEF Req
  <2>2. req' = [req EXCEPT ![r] = IF owed = {} THEN DoneReq ELSE after1]
    BY DEF CommitAs
  <2> HIDE DEF after1
  <2> QED
    BY <2>1, <2>2, ConstantTypes DEF TypeOK
<1>8. gaps' \subseteq Months
  BY <1>6 DEF CommitAs, TypeOK
<1> QED
  BY <1>7, <1>8 DEF CommitAs, TypeOK

LEMMA LoadType ==
  ASSUME TypeOK, NEW r \in Requests, Load(r)
  PROVE  TypeOK'
<1>1. PICK op \in Ops, S \in (SUBSET Mails) \ {{}} :
        LET early == IF op = "resolve" THEN MonthsOf({txn[e] : e \in S}) ELSE {}
        IN /\ op \notin Bulk => Cardinality(S) = 1
           /\ \A e \in S : Selects(op, e)
           /\ req' = [req EXCEPT ![r] =
               [pc |-> IF early = {} THEN "loaded" ELSE "enqueue",
                op |-> op, mails |-> S,
                saw |-> [e \in Mails |-> IF e \in S THEN mail[e] ELSE "absent"],
                seen |-> [e \in Mails |-> IF e \in S THEN txn[e] ELSE NoTxn],
                months |-> early]]
  BY Zenon DEF Load
<1> DEFINE early == IF op = "resolve" THEN MonthsOf({txn[e] : e \in S}) ELSE {}
<1>2. early \subseteq Months
  <2>1. CASE op = "resolve"
    <3>1. \A e \in S : txn[e] # NoTxn
      BY <1>1, <2>1 DEF Selects
    <3>2. {txn[e] : e \in S} \subseteq Txn
      BY <3>1 DEF TypeOK
    <3> QED
      BY <2>1, <3>2, MonthsOfType
  <2>2. CASE op # "resolve"
    BY <2>2
  <2> QED
    BY <2>1, <2>2
<1>3. [e \in Mails |-> IF e \in S THEN mail[e] ELSE "absent"]
        \in [Mails -> Filtered]
  BY DEF TypeOK, Filtered
<1>4. [e \in Mails |-> IF e \in S THEN txn[e] ELSE NoTxn]
        \in [Mails -> Txn \cup {NoTxn}]
  BY DEF TypeOK
<1> DEFINE new == [pc |-> IF early = {} THEN "loaded" ELSE "enqueue",
                op |-> op, mails |-> S,
                saw |-> [e \in Mails |-> IF e \in S THEN mail[e] ELSE "absent"],
                seen |-> [e \in Mails |-> IF e \in S THEN txn[e] ELSE NoTxn],
                months |-> early]
<1>5. new \in Req
  <2> HIDE DEF early
  <2> QED
    BY <1>2, <1>3, <1>4, LedgerAssumption DEF Req
<1>6. req' = [req EXCEPT ![r] = new]
  BY <1>1
<1> HIDE DEF new
<1> QED
  BY <1>5, <1>6 DEF Load, ledger, TypeOK

LEMMA NewRowsType ==
  ASSUME NEW r \in Requests
  PROVE  NewRows(r) \subseteq Txn
BY DEF NewRows, Txn, Judged, Statuses

(* A step that ends the database transaction of a request.                  *)
LEMMA CommitsType ==
  ASSUME TypeOK, NEW r \in Requests, Commit(r)
  PROVE  TypeOK'
<1>1. /\ req[r].mails \subseteq Mails
      /\ req[r].saw \in [Mails -> Filtered]
      /\ req[r].seen \in [Mails -> Txn \cup {NoTxn}]
  BY DEF TypeOK, Req
<1>2. \A e \in Mails : NoneSeen[e] = NoTxn
  BY DEF NoneSeen
<1>3. CASE Import(r)
  <2>1. PICK to \in [req[r].mails -> Filtered \ {"absent"}],
             new \in [req[r].mails -> NewRows(r)] :
       LET rows == [e \in Mails |-> IF e \in req[r].mails /\ to[e] = "passed"
                                   THEN new[e] ELSE NoTxn]
       IN CommitAs(r,
            [e \in Mails |-> IF e \in req[r].mails THEN to[e] ELSE mail[e]],
            [e \in Mails |-> IF rows[e] # NoTxn THEN rows[e] ELSE txn[e]],
            rows)
    BY <1>3, Zenon DEF Import
  <2> DEFINE rows == [e \in Mails |-> IF e \in req[r].mails /\ to[e] = "passed"
                                   THEN new[e] ELSE NoTxn]
             to1 == [e \in Mails |-> IF e \in req[r].mails THEN to[e] ELSE mail[e]]
             after == [e \in Mails |-> IF rows[e] # NoTxn THEN rows[e] ELSE txn[e]]
  <2>2. rows \in [Mails -> Txn \cup {NoTxn}]
    BY NewRowsType
  <2>3. to1 \in [Mails -> Filtered]
    BY DEF TypeOK
  <2>4. CommitAs(r, to1, after, rows)
    BY <2>1
  <2> HIDE DEF rows
  <2>5. after \in [Mails -> Txn \cup {NoTxn}]
    BY <2>2 DEF TypeOK
  <2> HIDE DEF to1, after
  <2> QED
    BY <1>1, <2>2, <2>3, <2>4, <2>5, CommitType
<1>4. CASE Rewrite(r)
  <2> DEFINE After(new) == [e \in Mails |-> IF e \in req[r].mails /\ SameRow(r, e)
                            THEN Merge(txn[e], req[r].seen[e], new[e])
                            ELSE txn[e]]
  <2>1. PICK new \in [req[r].mails -> Txn] : CommitAs(r, mail, After(new), new)
    BY <1>4, Zenon DEF Rewrite
  <2>2. \A e \in req[r].mails : SameRow(r, e) =>
          Merge(txn[e], req[r].seen[e], new[e]) \in Txn
    BY <1>1, MergeType DEF SameRow, TypeOK
  <2>3. After(new) \in [Mails -> Txn \cup {NoTxn}]
    BY <2>2 DEF TypeOK
  <2> HIDE DEF After
  <2>4. mail \in [Mails -> Filtered]
    BY DEF TypeOK
  <2> QED
    BY <2>1, <2>3, <2>4, CommitType
<1>5. CASE Insert(r)
  <2> DEFINE To(e) == IF req[r].op = "keep"
              THEN [mail EXCEPT ![e] = MergeStatus(@, req[r].saw[e], "passed")]
              ELSE mail
  <2>1. PICK e \in req[r].mails, t \in NewRows(r) :
          CommitAs(r, To(e), [txn EXCEPT ![e] = t], [NoneSeen EXCEPT ![e] = t])
    BY <1>5, Zenon DEF Insert
  <2>2. To(e) \in [Mails -> Filtered]
    BY <1>1 DEF TypeOK, MergeStatus, Filtered
  <2>3. /\ [txn EXCEPT ![e] = t] \in [Mails -> Txn \cup {NoTxn}]
        /\ [NoneSeen EXCEPT ![e] = t] \in [Mails -> Txn \cup {NoTxn}]
    BY <1>1, NewRowsType, ConstantTypes DEF TypeOK
  <2> HIDE DEF To
  <2> QED
    BY <1>1, <2>1, <2>2, <2>3, CommitType
<1>6. CASE Discard(r)
  <2> DEFINE To(e) == [mail EXCEPT ![e] = MergeStatus(@, req[r].saw[e], "discarded")]
  <2>1. PICK e \in req[r].mails : CommitAs(r, To(e), txn, NoneSeen)
    BY <1>6, Zenon DEF Discard
  <2>2. To(e) \in [Mails -> Filtered]
    BY <1>1 DEF TypeOK, MergeStatus, Filtered
  <2>3. txn \in [Mails -> Txn \cup {NoTxn}]
    BY DEF TypeOK
  <2> HIDE DEF To
  <2> QED
    BY <1>1, <1>2, <2>1, <2>2, <2>3, CommitType
<1>7. CASE Undo(r)
  <2> DEFINE After(e) == [txn EXCEPT ![e] =
               IF req[r].saw[e] = "passed" /\ SameRow(r, e) THEN NoTxn ELSE @]
  <2>1. PICK e \in req[r].mails : CommitAs(r,
            [mail EXCEPT ![e] = "review_pending"], After(e), NoneSeen)
    BY <1>7, Zenon DEF Undo
  <2>2. [mail EXCEPT ![e] = "review_pending"] \in [Mails -> Filtered]
    BY <1>1 DEF TypeOK, Filtered
  <2>3. After(e) \in [Mails -> Txn \cup {NoTxn}]
    BY <1>1 DEF TypeOK
  <2> HIDE DEF After
  <2> QED
    BY <1>1, <1>2, <2>1, <2>2, <2>3, CommitType
<1>8. CASE Remove(r)
  <2> DEFINE to == [e \in Mails |-> IF e \in req[r].mails THEN "absent" ELSE mail[e]]
             after == [e \in Mails |-> IF e \in req[r].mails THEN NoTxn ELSE txn[e]]
  <2>1. CommitAs(r, to, after, NoneSeen)
    BY <1>8, Zenon DEF Remove
  <2>2. to \in [Mails -> Filtered] /\ after \in [Mails -> Txn \cup {NoTxn}]
    BY DEF TypeOK, Filtered
  <2> HIDE DEF to, after
  <2> QED
    BY <1>1, <1>2, <2>1, <2>2, CommitType
<1>9. CASE Resolve(r)
  <2> DEFINE after == [e \in Mails |-> IF e \in req[r].mails /\ SameRow(r, e)
                       THEN NoTxn ELSE txn[e]]
  <2>1. CommitAs(r, mail, after, NoneSeen)
    BY <1>9, Zenon DEF Resolve
  <2>2. mail \in [Mails -> Filtered] /\ after \in [Mails -> Txn \cup {NoTxn}]
    BY DEF TypeOK
  <2> HIDE DEF after
  <2> QED
    BY <1>1, <1>2, <2>1, <2>2, CommitType
<1> QED
  BY <1>3, <1>4, <1>5, <1>6, <1>7, <1>8, <1>9 DEF Commit

LEMMA EnqueueType ==
  ASSUME TypeOK, NEW r \in Requests, Enqueue(r)
  PROVE  TypeOK'
<1>1. req[r] \in Req /\ req[r].months \subseteq Months
  BY DEF TypeOK, Req
<1>2. PICK m \in req[r].months :
       LET p    == YearOf(req[r].months, m)
           left == req[r].months \ p
       IN /\ req' = [req EXCEPT ![r] =
               IF left # {} THEN [@ EXCEPT !.months = left]
               ELSE IF @.op = "resolve"
               THEN [@ EXCEPT !.months = {}, !.pc = "loaded"] ELSE DoneReq]
          /\ IF job[p].st = "none"
             THEN /\ job' = [job EXCEPT ![p] =
                       [NoJob EXCEPT !.st = "queued", !.todo = p]]
                  /\ UNCHANGED gaps
             ELSE /\ gaps' = gaps \cup (p \ job[p].todo)
                  /\ UNCHANGED job
  BY Zenon DEF Enqueue
<1> DEFINE p == YearOf(req[r].months, m)
           left == req[r].months \ p
           one == [req[r] EXCEPT !.months = left]
           two == [req[r] EXCEPT !.months = {}, !.pc = "loaded"]
           queued == [NoJob EXCEPT !.st = "queued", !.todo = p]
<1>3. p \in Payloads /\ p \subseteq Months /\ left \subseteq Months
  <2>1. m \in p /\ p \subseteq req[r].months
    BY DEF YearOf
  <2> HIDE DEF p
  <2> QED
    BY <1>1, <2>1 DEF Payloads
<1>4. one \in Req /\ two \in Req
  BY <1>1, <1>3 DEF Req
<1>5. queued \in Job
  BY <1>3, ConstantTypes DEF Job
<1>6. req' \in [Requests -> Req]
  <2>1. req' = [req EXCEPT ![r] = IF left # {} THEN one
                  ELSE IF req[r].op = "resolve" THEN two ELSE DoneReq]
    BY <1>2 DEF TypeOK
  <2> HIDE DEF one, two
  <2> QED
    BY <2>1, <1>4, ConstantTypes DEF TypeOK
<1>7. job' \in [Payloads -> Job] /\ gaps' \subseteq Months
  <2>1. CASE job[p].st = "none"
    <3>1. job' = [job EXCEPT ![p] = queued] /\ gaps' = gaps
      BY <1>2, <2>1
    <3> HIDE DEF queued, p
    <3> QED
      BY <3>1, <1>3, <1>5 DEF TypeOK
  <2>2. CASE job[p].st # "none"
    <3>1. job' = job /\ gaps' = gaps \cup (p \ job[p].todo)
      BY <1>2, <2>2
    <3> HIDE DEF p
    <3> QED
      BY <3>1, <1>3 DEF TypeOK
  <2> QED
    BY <2>1, <2>2
<1> QED
  BY <1>6, <1>7 DEF Enqueue, ledger, TypeOK

(* A step of the task that works on the payload p.                          *)
JobStep(p) == \/ Recompute(p) \/ MonthFails(p) \/ TimeOut(p) \/ Lose(p)
              \/ KeyExpires(p)

LEMMA JobStepType ==
  ASSUME TypeOK, InPayload, NEW p \in Payloads, JobStep(p)
  PROVE  TypeOK'
<1>1. /\ job[p] \in Job
      /\ job[p].todo \subseteq Months
      /\ job[p].new \in Rollup
      /\ job[p].row \in Rollup \cup {NoRollup}
  BY DEF TypeOK, Job
<1>2. p \subseteq Months
  BY DEF Payloads
<1>a. job[p].pc # "pick" => job[p].cur \in Months
  BY <1>2 DEF InPayload
<1>b. [NoJob EXCEPT !.st = "running", !.todo = job[p].todo] \in Job
  BY <1>1, ConstantTypes DEF Job
<1>3. CASE Begin(p)
  <2>1. [job[p] EXCEPT !.st = "running"] \in Job
    BY <1>1 DEF Job
  <2> QED
    BY <1>3, <2>1 DEF Begin, ledger, TypeOK
<1>4. CASE Pick(p)
  <2>1. PICK m \in job[p].todo :
       /\ job' = [job EXCEPT ![p].todo = @ \ {m}, ![p].cur = m,
                             ![p].pc = "totals"]
       /\ gaps' = IF \E q \in Payloads : Working(q, m) THEN gaps \cup {m}
                  ELSE gaps
    BY <1>4, Zenon DEF Pick
  <2>2. m \in Months
    BY <1>1
  <2>3. [job[p] EXCEPT !.todo = @ \ {m}, !.cur = m, !.pc = "totals"] \in Job
    BY <1>1, <2>2 DEF Job
  <2>4. job' \in [Payloads -> Job]
    BY <2>1, <2>3 DEF TypeOK
  <2>5. gaps' \subseteq Months
    BY <2>1, <2>2 DEF TypeOK
  <2> QED
    BY <1>4, <2>4, <2>5 DEF Pick, ledger, TypeOK
<1>5. CASE ReadTotals(p)
  <2>1. Totals(job[p].cur) \in SUBSET (Mails \X Vals \X BOOLEAN)
    BY ReadTypes
  <2>2. [job[p] EXCEPT !.new.totals = Totals(job[p].cur), !.pc = "groups"] \in Job
    BY <1>1, <2>1 DEF Job, Rollup
  <2> QED
    BY <1>5, <2>2 DEF ReadTotals, ledger, TypeOK
<1>6. CASE ReadGroups(p)
  <2>1. Groups(job[p].cur) \in SUBSET (Mails \X Vals)
    BY ReadTypes
  <2>2. [job[p] EXCEPT !.new.groups = Groups(job[p].cur), !.pc = "lookup"] \in Job
    BY <1>1, <2>1 DEF Job, Rollup
  <2> QED
    BY <1>6, <2>2 DEF ReadGroups, ledger, TypeOK
<1>7. CASE LookUp(p)
  <2>1. rollup[job[p].cur] \in Rollup \cup {NoRollup}
    BY <1>7, <1>a DEF LookUp, TypeOK
  <2>2. [job[p] EXCEPT !.row = rollup[job[p].cur], !.pc = "write"] \in Job
    BY <1>1, <2>1 DEF Job
  <2> QED
    BY <1>7, <2>2 DEF LookUp, ledger, TypeOK
<1>8. CASE Write(p)
  <2>1. job[p].cur \in Months /\ rollup[job[p].cur] \in Rollup \cup {NoRollup}
    BY <1>8, <1>a DEF Write, TypeOK
  <2>2. Upserted(p, job[p].cur) \in Rollup \cup {NoRollup}
    BY <1>1, <2>1, MergeRollupType DEF Upserted
  <2>3. rollup' \in [Months -> Rollup \cup {NoRollup}]
    BY <1>8, <2>1, <2>2 DEF Write, TypeOK
  <2>4. job' \in [Payloads -> Job]
    BY <1>8, <1>b DEF Write, NextMonth, TypeOK
  <2>5. gaps' \subseteq Months
    BY <1>8 DEF Write, TypeOK
  <2> QED
    BY <1>8, <2>3, <2>4, <2>5 DEF Write, ledger, TypeOK
<1>9. CASE Finish(p) \/ KeyExpires(p)
  BY <1>9, ConstantTypes DEF Finish, KeyExpires, ledger, TypeOK
<1>10. CASE MonthFails(p)
  <2>1. job[p].cur \in Months
    BY <1>10, <1>a DEF MonthFails
  <2>2. faults' \in 0..MaxFaults
    BY <1>10, LedgerAssumption DEF MonthFails, Fault, TypeOK
  <2> QED
    BY <1>10, <2>1, <2>2, <1>b DEF MonthFails, NextMonth, ledger, TypeOK
<1>11. CASE TimeOut(p)
  <2>1. [NoJob EXCEPT !.st = "queued", !.todo = p] \in Job
    BY <1>2, ConstantTypes DEF Job
  <2>2. faults' \in 0..MaxFaults
    BY <1>11, LedgerAssumption DEF TimeOut, Fault, TypeOK
  <2> QED
    BY <1>11, <2>1, <2>2 DEF TimeOut, ledger, TypeOK
<1>12. CASE Lose(p)
  <2>1. PICK st \in {"none", "lost"} : job' = [job EXCEPT ![p] = [NoJob EXCEPT !.st = st]]
    BY <1>12, Zenon DEF Lose
  <2>2. [NoJob EXCEPT !.st = st] \in Job
    BY ConstantTypes DEF Job
  <2>3. faults' \in 0..MaxFaults
    BY <1>12, LedgerAssumption DEF Lose, Fault, TypeOK
  <2> QED
    BY <1>12, <1>2, <2>1, <2>2, <2>3 DEF Lose, ledger, TypeOK
<1> QED
  BY <1>3, <1>4, <1>5, <1>6, <1>7, <1>8, <1>9, <1>10, <1>11, <1>12
     DEF JobStep, Recompute

(* No step leaves a task outside its payload.                               *)
LEMMA JobStepInPayload ==
  ASSUME TypeOK, InPayload, NEW p \in Payloads, JobStep(p)
  PROVE  InPayload'
<1>1. job \in [Payloads -> Job]
  BY DEF TypeOK
<1>2. /\ job[p].todo \subseteq p
      /\ job[p].cur \in p \cup {NoDate}
      /\ job[p].pc = "pick" <=> job[p].cur = NoDate
      /\ job[p].st # "running" => job[p].pc = "pick"
      /\ job[p].st \in {"none", "lost"} => job[p].todo = {}
  BY DEF InPayload
<1>3. NoDate \notin p
  BY LedgerAssumption DEF Payloads
<1>4. job[p] \in Job
  BY <1>1
<1>5. /\ job' = [job EXCEPT ![p] = job'[p]]
      /\ job'[p].todo \subseteq p
      /\ job'[p].cur \in p \cup {NoDate}
      /\ job'[p].pc = "pick" <=> job'[p].cur = NoDate
      /\ job'[p].st # "running" => job'[p].pc = "pick"
      /\ job'[p].st \in {"none", "lost"} => job'[p].todo = {}
  <2>1. CASE Begin(p)
    BY <2>1, <1>1, <1>2, <1>4 DEF Begin, Job
  <2>2. CASE Pick(p)
    <3>1. PICK m \in job[p].todo : job' = [job EXCEPT ![p].todo = @ \ {m},
                                        ![p].cur = m, ![p].pc = "totals"]
      BY <2>2, Zenon DEF Pick
    <3> QED
      BY <2>2, <3>1, <1>1, <1>2, <1>3, <1>4 DEF Pick, Job
  <2>3. CASE ReadTotals(p) \/ ReadGroups(p) \/ LookUp(p)
    BY <2>3, <1>1, <1>2, <1>4 DEF ReadTotals, ReadGroups, LookUp, Job
  <2>4. CASE Write(p) \/ MonthFails(p)
    <3>1. job' = [job EXCEPT ![p] = [NoJob EXCEPT !.st = "running", !.todo = job[p].todo]]
      BY <2>4, Zenon DEF Write, MonthFails, NextMonth
    <3> QED BY <1>1, <1>2, <3>1 DEF NoJob
  <2>5. CASE Finish(p) \/ KeyExpires(p)
    BY <2>5, <1>1, <1>2 DEF Finish, KeyExpires, NoJob
  <2>6. CASE Lose(p)
    <3>1. PICK st \in {"none", "lost"} : job' = [job EXCEPT ![p] = [NoJob EXCEPT !.st = st]]
      BY <2>6, Zenon DEF Lose
    <3> QED
      BY <3>1, <1>1 DEF NoJob
  <2>7. CASE TimeOut(p)
    BY <2>7, <1>1 DEF TimeOut, NoJob
  <2> QED
    BY <2>1, <2>2, <2>3, <2>4, <2>5, <2>6, <2>7 DEF JobStep, Recompute
<1> QED
  BY <1>1, <1>5 DEF InPayload

(* A step of a request.                                                     *)
RequestStep(r) == Load(r) \/ Commit(r) \/ Abort(r) \/ Enqueue(r)
                  \/ EnqueueFails(r)

LEMMA RequestStepType ==
  ASSUME TypeOK, NEW r \in Requests, RequestStep(r)
  PROVE  TypeOK'
<1>1. CASE Abort(r)
  BY <1>1, ConstantTypes DEF Abort, ledger, TypeOK
<1>2. CASE EnqueueFails(r)
  <2>1. req[r].months \subseteq Months
    BY DEF TypeOK, Req
  <2>2. faults' \in 0..MaxFaults
    BY <1>2, LedgerAssumption DEF EnqueueFails, Fault, TypeOK
  <2> QED
    BY <1>2, <2>1, <2>2, ConstantTypes DEF EnqueueFails, ledger, TypeOK
<1> QED
  BY <1>1, <1>2, LoadType, CommitsType, EnqueueType DEF RequestStep

(* A commit touches neither the rollups nor the tasks.                      *)
LEMMA CommitFrame ==
  ASSUME NEW r \in Requests, Commit(r)
  PROVE  UNCHANGED <<rollup, job, faults>> /\ req[r].pc = "loaded"
BY Zenon DEF Commit, Import, Rewrite, Insert, Discard, Undo, Remove, Resolve,
             CommitAs

LEMMA RequestStepInPayload ==
  ASSUME TypeOK, InPayload, NEW r \in Requests, RequestStep(r)
  PROVE  InPayload'
<1>1. CASE UNCHANGED job
  BY <1>1 DEF InPayload
<1>2. CASE Enqueue(r)
  <2>1. PICK m \in req[r].months :
       LET p == YearOf(req[r].months, m)
       IN job' = IF job[p].st = "none"
                 THEN [job EXCEPT ![p] = [NoJob EXCEPT !.st = "queued", !.todo = p]]
                 ELSE job
    BY <1>2, Zenon DEF Enqueue
  <2> DEFINE p == YearOf(req[r].months, m)
             new == [NoJob EXCEPT !.st = "queued", !.todo = p]
  <2>2. p \in Payloads
    <3>1. m \in p /\ p \subseteq req[r].months
      BY DEF YearOf
    <3>2. req[r].months \subseteq Months
      BY DEF TypeOK, Req
    <3> HIDE DEF p
    <3> QED
      BY <3>1, <3>2 DEF Payloads
  <2>3. new.todo = p /\ new.cur = NoDate /\ new.pc = "pick" /\ new.st = "queued"
    BY DEF NoJob
  <2>4. job' = job \/ job' = [job EXCEPT ![p] = new]
    BY <2>1
  <2> HIDE DEF p, new
  <2> QED
    BY <2>2, <2>3, <2>4 DEF InPayload, TypeOK
<1> QED
  BY <1>1, <1>2, CommitFrame DEF RequestStep, Load, Abort, EnqueueFails

(* Next, by the actor that takes the step.                                  *)
LEMMA Actors ==
  Next <=> \/ \E r \in Requests : RequestStep(r)
           \/ \E p \in Payloads : JobStep(p)
BY Zenon DEF Next, RequestStep, JobStep

LEMMA InitType == Init => TypeOK /\ InPayload
<1> SUFFICES ASSUME Init PROVE TypeOK /\ InPayload
  OBVIOUS
<1>1. TypeOK
  BY ConstantTypes, LedgerAssumption DEF Init, TypeOK, Filtered
<1>2. InPayload
  BY DEF Init, InPayload, NoJob
<1> QED
  BY <1>1, <1>2

(* Every variable keeps its type, and a task works on its payload only.     *)
THEOREM LedgerTypeCorrect == Spec => [](TypeOK /\ InPayload)
<1>1. TypeOK /\ InPayload /\ [Next]_vars => (TypeOK /\ InPayload)'
  <2> SUFFICES ASSUME TypeOK, InPayload, [Next]_vars PROVE (TypeOK /\ InPayload)'
    OBVIOUS
  <2>1. CASE UNCHANGED vars
    BY <2>1, Zenon DEF vars, TypeOK, InPayload
  <2>2. CASE \E r \in Requests : RequestStep(r)
    BY <2>2, RequestStepType, RequestStepInPayload
  <2>3. CASE \E p \in Payloads : JobStep(p)
    BY <2>3, JobStepType, JobStepInPayload
  <2> QED
    BY <2>1, <2>2, <2>3, Actors
<1> QED
  BY InitType, <1>1, PTL DEF Spec

(***************************************************************************)
(* A stale rollup is covered.  The invariant is a conjunction over months. *)
(***************************************************************************)

MonthInv(m) ==
  /\ Stale(m) => Covered(m) \/ \E p \in Payloads : Working(p, m)
  /\ \A p \in Payloads : Working(p, m) => Covered(m) \/ Sound(p, m)
  /\ \A p, q \in Payloads : p # q /\ Working(p, m) /\ Working(q, m) => m \in gaps

LEMMA InvByMonth ==
  LedgerInv <=> TxnHasMail /\ InPayload /\ \A m \in Months : MonthInv(m)
BY Zenon DEF LedgerInv, RollupsFollow, ReadsSound, OverlapsNoted, MonthInv

LEMMA PrimedInvByMonth ==
  LedgerInv' <=> (TxnHasMail /\ InPayload)' /\ \A m \in Months : MonthInv(m)'
BY Zenon DEF LedgerInv, RollupsFollow, ReadsSound, OverlapsNoted, MonthInv

(* A month in gaps asks for nothing.                                        *)
LEMMA MonthInGap ==
  ASSUME NEW m \in Months, m \in gaps'
  PROVE  MonthInv(m)'
BY DEF MonthInv, Covered

(* Nobody starts on a month that is covered.                                *)
LEMMA MonthCovered ==
  ASSUME NEW m \in Months, MonthInv(m), Covered(m)',
         \A p \in Payloads : Working(p, m)' => Working(p, m),
         m \in gaps => m \in gaps'
  PROVE  MonthInv(m)'
BY DEF MonthInv

(* A step that works on another month, or changes this one and covers it.   *)
LEMMA MonthKept ==
  ASSUME NEW m \in Months, MonthInv(m),
         rollup'[m] = rollup[m],
         m \in gaps => m \in gaps',
         Covered(m) => Covered(m)',
         \A p \in Payloads :
           \/ job'[p] = job[p]
           \/ ~Working(p, m) /\ ~Working(p, m)',
         Covered(m)' \/ (Totals(m)' = Totals(m) /\ Groups(m)' = Groups(m))
  PROVE  MonthInv(m)'
<1>1. \A p \in Payloads : Working(p, m)' <=> Working(p, m)
  BY DEF Working
<1>2. CASE Covered(m)'
  BY <1>1, <1>2, MonthCovered
<1>3. CASE ~Covered(m)'
  <2>1. ~Covered(m) /\ Totals(m)' = Totals(m) /\ Groups(m)' = Groups(m)
    BY <1>3
  <2>2. Stale(m)' => Stale(m)
    BY <2>1 DEF Stale, Exact
  <2>3. \A p \in Payloads : Working(p, m)' => Sound(p, m)'
    <3> SUFFICES ASSUME NEW p \in Payloads, Working(p, m)' PROVE Sound(p, m)'
      OBVIOUS
    <3>1. job'[p] = job[p] /\ Sound(p, m)
      BY <1>1, <2>1 DEF MonthInv
    <3> QED
      BY <2>1, <3>1 DEF Sound
  <2> QED
    BY <1>1, <2>1, <2>2, <2>3 DEF MonthInv
<1> QED
  BY <1>2, <1>3

(* What a rollup's queries return depends on the month's transactions only. *)
LEMMA ReadsUnmoved ==
  ASSUME NEW m \in Months,
         \A e \in Mails :
           \/ txn'[e] = txn[e]
           \/ /\ txn[e] = NoTxn \/ txn[e].month # m
              /\ txn'[e] = NoTxn \/ txn'[e].month # m
  PROVE  Totals(m)' = Totals(m) /\ Groups(m)' = Groups(m)
<1>1. In(m)' = In(m)
  BY DEF In
<1>2. \A e \in In(m) : txn'[e] = txn[e]
  BY DEF In
<1>3. Totals(m)' = Totals(m)
  BY <1>1, <1>2, Zenon DEF Totals
<1>4. {f \in In(m)' : txn'[f].status # "needs_review"}
        = {f \in In(m) : txn[f].status # "needs_review"}
  BY <1>1, <1>2
<1>5. Groups(m)' = Groups(m)
  <2> DEFINE D == {f \in In(m) : txn[f].status # "needs_review"}
  <2>1. \A e \in D : txn'[e] = txn[e]
    BY <1>2
  <2> QED
    BY <1>4, <2>1, Zenon DEF Groups
<1> QED
  BY <1>3, <1>5

Rows(x) == {x} \ {NoTxn}

LEMMA MonthOfRow ==
  ASSUME NEW t, NEW m \in Months, t # NoTxn, t.month = m
  PROVE  m \in MonthsOf(Rows(t))
BY LedgerAssumption DEF MonthsOf, Rows

LEMMA MonthsOfUnion ==
  ASSUME NEW A, NEW B
  PROVE  /\ MonthsOf(A \cup B) = MonthsOf(A) \cup MonthsOf(B)
         /\ A \subseteq B => MonthsOf(A) \subseteq MonthsOf(B)
BY DEF MonthsOf

(* What LeftBehind holds of each of the request's emails.                   *)
LEMMA Leaves ==
  ASSUME NEW r \in Requests, NEW after, NEW e \in req[r].mails
  PROVE  /\ req[r].op \in Silent \cup {"resolve"} =>
              /\ MonthsOf(Rows(txn[e])) \subseteq LeftBehind(r, after)
              /\ MonthsOf(Rows(after[e])) \subseteq LeftBehind(r, after)
         /\ /\ req[r].op \notin Silent \cup {"resolve"}
            /\ \/ req[r].op = "patch"
               \/ MonthsOf(Rows(txn[e])) # MonthsOf(Rows(req[r].seen[e]))
            => MonthsOf(Rows(txn[e])) \subseteq LeftBehind(r, after)
<1> DEFINE L(f) ==
      LET was == {txn[f]} \ {NoTxn}
          is  == {after[f]} \ {NoTxn}
          old == {req[r].seen[f]} \ {NoTxn}
      IN IF req[r].op \in Silent \cup {"resolve"}
         THEN MonthsOf(was \cup is)
         ELSE IF req[r].op = "patch" \/ MonthsOf(was) # MonthsOf(old)
              THEN MonthsOf(was)
              ELSE {}
<1>1. LeftBehind(r, after) = UNION {L(f) : f \in req[r].mails}
  BY Zenon DEF LeftBehind
<1>2. L(e) \subseteq LeftBehind(r, after)
  <2> HIDE DEF L
  <2> QED
    BY <1>1
<1>3. MonthsOf(Rows(txn[e]) \cup Rows(after[e]))
        = MonthsOf(Rows(txn[e])) \cup MonthsOf(Rows(after[e]))
  BY MonthsOfUnion
<1>4. L(e) = IF req[r].op \in Silent \cup {"resolve"}
             THEN MonthsOf(Rows(txn[e]) \cup Rows(after[e]))
             ELSE IF \/ req[r].op = "patch"
                     \/ MonthsOf(Rows(txn[e])) # MonthsOf(Rows(req[r].seen[e]))
                  THEN MonthsOf(Rows(txn[e]))
                  ELSE {}
  BY Zenon DEF L, Rows
<1> HIDE DEF L
<1> QED
  BY <1>2, <1>3, <1>4

(* A commit that enqueues or leaves behind every month it changes.          *)
LEMMA CommitCovers ==
  ASSUME TypeOK, LedgerInv, NEW r \in Requests, req[r].pc = "loaded",
         NEW to, NEW after, NEW new, CommitAs(r, to, after, new),
         \A e \in Mails :
           \/ after[e] = txn[e]
           \/ MonthsOf(Rows(txn[e])) \cup MonthsOf(Rows(after[e]))
                \subseteq LeftBehind(r, after) \cup ToRecompute(r, new)
  PROVE  \A m \in Months : MonthInv(m)'
<1> DEFINE owed == ToRecompute(r, new)
<1>1. /\ txn' = after
      /\ gaps' = gaps \cup (LeftBehind(r, after) \ owed)
      /\ rollup' = rollup /\ job' = job
  BY DEF CommitAs
<1>2. /\ \A q \in Requests \ {r} : req'[q] = req[q]
      /\ owed # {} => req'[r].pc = "enqueue" /\ req'[r].months = owed
  BY DEF CommitAs, TypeOK, IdleReq
<1> SUFFICES ASSUME NEW m \in Months PROVE MonthInv(m)'
  OBVIOUS
<1>3. m \in LeftBehind(r, after) \cup owed => Covered(m)'
  <2>1. CASE m \in owed
    BY <2>1, <1>2 DEF Covered, Owed
  <2>2. CASE m \in LeftBehind(r, after) \ owed
    BY <2>2, <1>1 DEF Covered
  <2> QED
    BY <2>1, <2>2
<1>4. Covered(m) => Covered(m)'
  BY <1>1, <1>2 DEF Covered, Owed, Unread
<1>5. \/ Covered(m)'
      \/ Totals(m)' = Totals(m) /\ Groups(m)' = Groups(m)
  <2> SUFFICES ASSUME ~Covered(m)'
               PROVE  Totals(m)' = Totals(m) /\ Groups(m)' = Groups(m)
    OBVIOUS
  <2>1. m \notin LeftBehind(r, after) \cup owed
    BY <1>3
  <2>2. ASSUME NEW e \in Mails
        PROVE \/ txn'[e] = txn[e]
              \/ /\ txn[e] = NoTxn \/ txn[e].month # m
                 /\ txn'[e] = NoTxn \/ txn'[e].month # m
    <3>1. CASE after[e] = txn[e]
      BY <3>1, <1>1
    <3>2. CASE m \notin MonthsOf(Rows(txn[e])) \cup MonthsOf(Rows(after[e]))
      BY <3>2, <1>1, MonthOfRow
    <3> QED
      BY <2>1, <3>1, <3>2
  <2> QED
    BY <2>2, ReadsUnmoved
<1> HIDE DEF owed
<1> QED
  BY <1>1, <1>4, <1>5, MonthKept, InvByMonth

(* What the request enqueues of each of its emails.                         *)
LEMMA Enqueues ==
  ASSUME NEW r \in Requests, NEW new, NEW e \in req[r].mails
  PROVE  /\ req[r].op \in {"import", "patch", "reclassify"} =>
              MonthsOf(Rows(new[e])) \subseteq ToRecompute(r, new)
         /\ req[r].op \in {"reclassify", "bulk", "batch", "delete"} =>
              MonthsOf(Rows(req[r].seen[e])) \subseteq ToRecompute(r, new)
<1> DEFINE loaded == {req[r].seen[f] : f \in req[r].mails} \ {NoTxn}
           left == {new[f] : f \in req[r].mails} \ {NoTxn}
<1>1. Rows(new[e]) \subseteq left /\ Rows(req[r].seen[e]) \subseteq loaded
  BY DEF Rows
<1>2. ToRecompute(r, new) =
        CASE req[r].op \in {"import", "patch"} -> MonthsOf(left)
          [] req[r].op = "reclassify" -> MonthsOf(left \cup loaded)
          [] req[r].op \in {"bulk", "batch", "delete"} -> MonthsOf(loaded)
          [] OTHER -> {}
  BY Zenon DEF ToRecompute
<1> HIDE DEF loaded, left
<1>3. /\ MonthsOf(Rows(new[e])) \subseteq MonthsOf(left)
      /\ MonthsOf(Rows(req[r].seen[e])) \subseteq MonthsOf(loaded)
      /\ MonthsOf(left \cup loaded) = MonthsOf(left) \cup MonthsOf(loaded)
  BY <1>1, MonthsOfUnion
<1> QED
  BY <1>2, <1>3

LEMMA MonthsOfRows ==
  /\ MonthsOf(Rows(NoTxn)) = {}
  /\ \A s, t : s # NoTxn /\ t # NoTxn /\ s.month = t.month =>
       MonthsOf(Rows(s)) = MonthsOf(Rows(t))
BY DEF MonthsOf, Rows

LEMMA RewriteCovers ==
  ASSUME TypeOK, LedgerInv, NEW r \in Requests, Rewrite(r)
  PROVE  \A m \in Months : MonthInv(m)'
<1> DEFINE After(new) == [e \in Mails |-> IF e \in req[r].mails /\ SameRow(r, e)
                            THEN Merge(txn[e], req[r].seen[e], new[e])
                            ELSE txn[e]]
<1>1. PICK new \in [req[r].mails -> Txn] :
        /\ \A e \in req[r].mails :
             new[e] \in Rewritten(req[r].op, req[r].seen[e])
        /\ CommitAs(r, mail, After(new), new)
  BY Zenon DEF Rewrite
<1> DEFINE after == After(new)
           Reach == LeftBehind(r, after) \cup ToRecompute(r, new)
<1>2. /\ req[r].pc = "loaded" /\ req[r].op \in Rewrites
      /\ req[r].seen \in [Mails -> Txn \cup {NoTxn}]
      /\ req[r].mails \subseteq Mails
  BY DEF Rewrite, TypeOK, Req
<1>3. CommitAs(r, mail, after, new)
  BY <1>1
<1>4. ASSUME NEW e \in Mails, after[e] # txn[e]
      PROVE  MonthsOf(Rows(txn[e])) \cup MonthsOf(Rows(after[e])) \subseteq Reach
  <2>1. e \in req[r].mails /\ SameRow(r, e)
    BY <1>4
  <2>2. /\ txn[e] \in Txn /\ req[r].seen[e] \in Txn /\ new[e] \in Txn
        /\ txn[e] # NoTxn /\ req[r].seen[e] # NoTxn /\ new[e] # NoTxn
    BY <1>2, <2>1, NullsAssumption DEF SameRow, TypeOK
  <2>3. after[e] = Merge(txn[e], req[r].seen[e], new[e])
    BY <2>1
  <2>4. /\ after[e] # NoTxn
        /\ after[e].month = IF new[e].month # req[r].seen[e].month
                            THEN new[e].month ELSE txn[e].month
    <3>1. after[e] \in Txn
      BY <2>2, <2>3, MergeType
    <3>2. Merge(txn[e], req[r].seen[e], new[e]).month
            = IF new[e].month # req[r].seen[e].month
              THEN new[e].month ELSE txn[e].month
      BY <2>2 DEF Merge, Txn
    <3> HIDE DEF after
    <3> QED
      BY <2>3, <3>1, <3>2, NullsAssumption
  <2> HIDE DEF After
  <2>5. MonthsOf(Rows(after[e])) = IF new[e].month # req[r].seen[e].month
                                   THEN MonthsOf(Rows(new[e]))
                                   ELSE MonthsOf(Rows(txn[e]))
    BY <2>2, <2>4, MonthsOfRows
  <2>6. CASE req[r].op \in {"stream", "reprocess"}
    BY <2>1, <2>6, Leaves DEF Silent
  <2>7. CASE req[r].op = "patch"
    <3>1. req[r].op \notin Silent \cup {"resolve"}
      BY <2>7 DEF Silent, Reviews
    <3>2. /\ MonthsOf(Rows(txn[e])) \subseteq Reach
          /\ MonthsOf(Rows(new[e])) \subseteq Reach
      BY <2>1, <2>7, <3>1, Leaves, Enqueues
    <3> QED
      BY <2>5, <3>2
  <2>8. CASE req[r].op \in {"reclassify", "bulk", "batch"}
    <3>1. req[r].op \notin Silent \cup {"resolve"}
      BY <2>8 DEF Silent, Reviews
    <3>2. MonthsOf(Rows(req[r].seen[e])) \subseteq Reach
      BY <2>1, <2>8, Enqueues
    <3>3. MonthsOf(Rows(txn[e])) \subseteq Reach
      BY <2>1, <3>1, <3>2, Leaves
    <3>4. CASE req[r].op = "reclassify"
      BY <2>1, <2>5, <3>3, <3>4, Enqueues
    <3>5. CASE req[r].op \in {"bulk", "batch"}
      <4>1. new[e].month = req[r].seen[e].month
        BY <1>1, <2>1, <3>5
        DEF Rewritten, Patched, Reclassified, Reprocessed, BulkEdited, Confirmed
      <4> QED
        BY <2>5, <3>3, <4>1
    <3> QED
      BY <2>8, <3>4, <3>5
  <2> QED
    BY <1>2, <2>6, <2>7, <2>8 DEF Rewrites
<1> HIDE DEF After
<1> QED
  BY <1>2, <1>3, <1>4, CommitCovers

LEMMA CommitsCover ==
  ASSUME TypeOK, LedgerInv, NEW r \in Requests, Commit(r)
  PROVE  \A m \in Months : MonthInv(m)'
<1>1. /\ req[r].pc = "loaded"
      /\ req[r].mails \subseteq Mails
      /\ txn \in [Mails -> Txn \cup {NoTxn}]
  BY CommitFrame DEF TypeOK, Req
<1>2. CASE Import(r)
  <2>1. PICK to \in [req[r].mails -> Filtered \ {"absent"}],
             new \in [req[r].mails -> NewRows(r)] :
       LET rows == [e \in Mails |-> IF e \in req[r].mails /\ to[e] = "passed"
                                   THEN new[e] ELSE NoTxn]
       IN CommitAs(r,
            [e \in Mails |-> IF e \in req[r].mails THEN to[e] ELSE mail[e]],
            [e \in Mails |-> IF rows[e] # NoTxn THEN rows[e] ELSE txn[e]],
            rows)
    BY <1>2, Zenon DEF Import
  <2> DEFINE rows == [e \in Mails |-> IF e \in req[r].mails /\ to[e] = "passed"
                                   THEN new[e] ELSE NoTxn]
             to1 == [e \in Mails |-> IF e \in req[r].mails THEN to[e] ELSE mail[e]]
             after == [e \in Mails |-> IF rows[e] # NoTxn THEN rows[e] ELSE txn[e]]
  <2>2. CommitAs(r, to1, after, rows)
    BY <2>1
  <2>3. ASSUME NEW e \in Mails, after[e] # txn[e]
        PROVE  MonthsOf(Rows(txn[e])) \cup MonthsOf(Rows(after[e]))
                 \subseteq LeftBehind(r, after) \cup ToRecompute(r, rows)
    <3>1. e \in req[r].mails /\ after[e] = rows[e]
      BY <2>3
    <3>2. txn[e] = NoTxn
      BY <1>2, <3>1 DEF Import, LedgerInv, TxnHasMail
    <3>3. req[r].op = "import"
      BY <1>2 DEF Import
    <3> HIDE DEF after, rows
    <3> QED
      BY <3>1, <3>2, <3>3, Enqueues, MonthsOfRows
  <2> HIDE DEF to1, after, rows
  <2> QED
    BY <1>1, <2>2, <2>3, CommitCovers
<1>3. CASE Insert(r)
  <2>0. PICK e \in req[r].mails, t \in NewRows(r) :
          \E to : CommitAs(r, to, [txn EXCEPT ![e] = t], [NoneSeen EXCEPT ![e] = t])
    BY <1>3, Zenon DEF Insert
  <2>1. PICK to :
          CommitAs(r, to, [txn EXCEPT ![e] = t], [NoneSeen EXCEPT ![e] = t])
    BY <2>0
  <2>2. req[r].op \in Silent
    BY <1>3 DEF Insert, Silent, Reviews
  <2> DEFINE after == [txn EXCEPT ![e] = t]
  <2>3. \A f \in Mails : after[f] = txn[f] \/ f \in req[r].mails
    BY <1>1
  <2> HIDE DEF after
  <2>4. \A f \in Mails : after[f] = txn[f] \/
           MonthsOf(Rows(txn[f])) \cup MonthsOf(Rows(after[f])) \subseteq LeftBehind(r, after)
    BY <2>2, <2>3, Leaves
  <2>5. CommitAs(r, to, after, [NoneSeen EXCEPT ![e] = t])
    BY <2>1 DEF after
  <2> QED
    BY <1>1, <2>4, <2>5, CommitCovers
<1>4. CASE Discard(r)
  <2>1. PICK to : CommitAs(r, to, txn, NoneSeen)
    BY <1>4, Zenon DEF Discard
  <2> QED
    BY <1>1, <2>1, CommitCovers
<1>5. CASE Undo(r)
  <2>1. PICK e \in req[r].mails :
          CommitAs(r, [mail EXCEPT ![e] = "review_pending"],
            [txn EXCEPT ![e] =
               IF req[r].saw[e] = "passed" /\ SameRow(r, e) THEN NoTxn ELSE @],
            NoneSeen)
    BY <1>5, Zenon DEF Undo
  <2> DEFINE to == [mail EXCEPT ![e] = "review_pending"]
  <2> DEFINE after == [txn EXCEPT ![e] =
               IF req[r].saw[e] = "passed" /\ SameRow(r, e) THEN NoTxn ELSE @]
  <2>2. req[r].op \in Silent
    BY <1>5 DEF Undo, Silent, Reviews
  <2>3. \A f \in Mails : after[f] = txn[f] \/ f \in req[r].mails
    BY <1>1
  <2>4. CommitAs(r, to, after, NoneSeen)
    BY <2>1
  <2> HIDE DEF after
  <2>5. \A f \in Mails : after[f] = txn[f] \/
           MonthsOf(Rows(txn[f])) \cup MonthsOf(Rows(after[f])) \subseteq LeftBehind(r, after)
    BY <2>2, <2>3, Leaves
  <2> QED
    BY <1>1, <2>4, <2>5, CommitCovers
<1>6. CASE Remove(r)
  <2> DEFINE to == [e \in Mails |-> IF e \in req[r].mails THEN "absent" ELSE mail[e]]
             after == [e \in Mails |-> IF e \in req[r].mails THEN NoTxn ELSE txn[e]]
  <2>1. CommitAs(r, to, after, NoneSeen)
    BY <1>6, Zenon DEF Remove
  <2>2. ASSUME NEW e \in Mails, after[e] # txn[e]
        PROVE  MonthsOf(Rows(txn[e])) \cup MonthsOf(Rows(after[e]))
                 \subseteq LeftBehind(r, after) \cup ToRecompute(r, NoneSeen)
    <3>1. e \in req[r].mails /\ after[e] = NoTxn
      BY <2>2
    <3> HIDE DEF after
    <3>2. CASE req[r].op = "cleanup"
      BY <3>1, <3>2, Leaves DEF Silent
    <3>3. CASE req[r].op = "delete"
      <4>1. req[r].op \notin Silent \cup {"resolve"}
        BY <3>3 DEF Silent, Reviews
      <4> QED
        BY <3>1, <3>3, <4>1, Leaves, Enqueues, MonthsOfRows
    <3> QED
      BY <1>6, <3>2, <3>3 DEF Remove
  <2> HIDE DEF to, after
  <2> QED
    BY <1>1, <2>1, <2>2, CommitCovers
<1>7. CASE Resolve(r)
  <2> DEFINE after == [e \in Mails |-> IF e \in req[r].mails /\ SameRow(r, e)
                       THEN NoTxn ELSE txn[e]]
  <2>1. CommitAs(r, mail, after, NoneSeen)
    BY <1>7, Zenon DEF Resolve
  <2>2. req[r].op \in Silent \cup {"resolve"}
    BY <1>7 DEF Resolve
  <2>3. \A f \in Mails : after[f] = txn[f] \/ f \in req[r].mails
    OBVIOUS
  <2> HIDE DEF after
  <2>4. \A f \in Mails : after[f] = txn[f] \/
           MonthsOf(Rows(txn[f])) \cup MonthsOf(Rows(after[f])) \subseteq LeftBehind(r, after)
    BY <2>2, <2>3, Leaves
  <2> QED
    BY <1>1, <2>1, <2>4, CommitCovers
<1> QED
  BY <1>2, <1>3, <1>4, <1>5, <1>6, <1>7, RewriteCovers DEF Commit

(* An email that goes takes its transaction out of reach.                   *)
LEMMA CommitsTxnHasMail ==
  ASSUME TypeOK, TxnHasMail, NEW r \in Requests, Commit(r)
  PROVE  TxnHasMail'
<1>1. /\ req[r].mails \subseteq Mails
      /\ mail \in [Mails -> Filtered] /\ txn \in [Mails -> Txn \cup {NoTxn}]
  BY DEF TypeOK, Req
<1>2. CASE Import(r)
  <2>1. PICK to \in [req[r].mails -> Filtered \ {"absent"}] :
          mail' = [e \in Mails |-> IF e \in req[r].mails THEN to[e] ELSE mail[e]]
    BY <1>2, Zenon DEF Import, CommitAs
  <2>2. \A e \in Mails : e \notin req[r].mails => txn'[e] = txn[e]
    <3>1. PICK to2 \in [req[r].mails -> Filtered \ {"absent"}],
               new \in [req[r].mails -> NewRows(r)] :
       LET rows == [e \in Mails |-> IF e \in req[r].mails /\ to2[e] = "passed"
                                   THEN new[e] ELSE NoTxn]
       IN txn' = [e \in Mails |-> IF rows[e] # NoTxn THEN rows[e] ELSE txn[e]]
      BY <1>2, Zenon DEF Import, CommitAs
    <3> QED
      BY <3>1
  <2> QED
    BY <2>1, <2>2 DEF TxnHasMail
<1>3. CASE Rewrite(r)
  <2>1. PICK new \in [req[r].mails -> Txn] :
          /\ mail' = mail
          /\ txn' = [e \in Mails |-> IF e \in req[r].mails /\ SameRow(r, e)
                            THEN Merge(txn[e], req[r].seen[e], new[e])
                            ELSE txn[e]]
    BY <1>3, Zenon DEF Rewrite, CommitAs
  <2> QED
    BY <2>1 DEF TxnHasMail, SameRow
<1>4. CASE Insert(r)
  <2>1. PICK e \in req[r].mails, t \in NewRows(r) :
          /\ mail[e] # "absent"
          /\ txn' = [txn EXCEPT ![e] = t]
          /\ mail' = IF req[r].op = "keep"
              THEN [mail EXCEPT ![e] = MergeStatus(@, req[r].saw[e], "passed")]
              ELSE mail
    BY <1>4, Zenon DEF Insert, CommitAs
  <2> QED
    BY <1>1, <2>1 DEF TxnHasMail, MergeStatus
<1>5. CASE Discard(r)
  <2>1. PICK e \in req[r].mails :
          /\ mail[e] # "absent" \/ req[r].saw[e] = "discarded"
          /\ mail' = [mail EXCEPT ![e] = MergeStatus(@, req[r].saw[e], "discarded")]
          /\ txn' = txn
    BY <1>5, Zenon DEF Discard, CommitAs
  <2> QED
    BY <1>1, <2>1 DEF TxnHasMail, MergeStatus
<1>6. CASE Undo(r)
  <2>1. PICK e \in req[r].mails :
          /\ mail[e] # "absent"
          /\ mail' = [mail EXCEPT ![e] = "review_pending"]
          /\ txn' = [txn EXCEPT ![e] =
               IF req[r].saw[e] = "passed" /\ SameRow(r, e) THEN NoTxn ELSE @]
    BY <1>6, Zenon DEF Undo, CommitAs
  <2> QED
    BY <1>1, <2>1 DEF TxnHasMail
<1>7. CASE Remove(r)
  BY <1>1, <1>7 DEF Remove, CommitAs, TxnHasMail
<1>8. CASE Resolve(r)
  BY <1>1, <1>8 DEF Resolve, CommitAs, TxnHasMail
<1> QED
  BY <1>2, <1>3, <1>4, <1>5, <1>6, <1>7, <1>8 DEF Commit

(* The other steps of a request leave the rollups and the running tasks.    *)
LEMMA RequestsCover ==
  ASSUME TypeOK, LedgerInv, NEW r \in Requests,
         Load(r) \/ Abort(r) \/ Enqueue(r) \/ EnqueueFails(r)
  PROVE  \A m \in Months : MonthInv(m)'
<1> SUFFICES ASSUME NEW m \in Months PROVE MonthInv(m)'
  OBVIOUS
<1>1. /\ rollup' = rollup
      /\ mail' = mail /\ txn' = txn
  BY DEF Load, Abort, Enqueue, EnqueueFails, ledger
<1>2. Totals(m)' = Totals(m) /\ Groups(m)' = Groups(m)
  BY <1>1, ReadsUnmoved
<1>3. CASE Load(r) \/ Abort(r)
  <2>1. Owed(m) => Owed(m)'
    BY <1>3 DEF Load, Abort, Owed, TypeOK
  <2>2. job' = job /\ gaps' = gaps
    BY <1>3 DEF Load, Abort
  <2>3. Covered(m) => Covered(m)'
    BY <2>1, <2>2 DEF Covered, Unread
  <2> QED
    BY <1>1, <1>2, <2>2, <2>3, MonthKept, InvByMonth
<1>4. CASE EnqueueFails(r)
  <2>1. Owed(m) => m \in gaps' \/ Owed(m)'
    BY <1>4 DEF EnqueueFails, Owed, TypeOK
  <2>2. job' = job /\ gaps \subseteq gaps'
    BY <1>4 DEF EnqueueFails
  <2>3. Covered(m) => Covered(m)'
    BY <2>1, <2>2 DEF Covered, Unread
  <2> QED
    BY <1>1, <1>2, <2>2, <2>3, MonthKept, InvByMonth
<1>5. CASE Enqueue(r)
  <2>1. PICK n \in req[r].months :
       LET p    == YearOf(req[r].months, n)
           left == req[r].months \ p
       IN /\ req' = [req EXCEPT ![r] =
               IF left # {} THEN [@ EXCEPT !.months = left]
               ELSE IF @.op = "resolve"
               THEN [@ EXCEPT !.months = {}, !.pc = "loaded"] ELSE DoneReq]
          /\ IF job[p].st = "none"
             THEN /\ job' = [job EXCEPT ![p] =
                       [NoJob EXCEPT !.st = "queued", !.todo = p]]
                  /\ UNCHANGED gaps
             ELSE /\ gaps' = gaps \cup (p \ job[p].todo)
                  /\ UNCHANGED job
    BY <1>5, Zenon DEF Enqueue
  <2> DEFINE p == YearOf(req[r].months, n)
             left == req[r].months \ p
             queued == [NoJob EXCEPT !.st = "queued", !.todo = p]
  <2>2. p \in Payloads
    <3>1. n \in p /\ p \subseteq req[r].months /\ req[r].months \subseteq Months
      BY DEF YearOf, TypeOK, Req
    <3> HIDE DEF p
    <3> QED
      BY <3>1 DEF Payloads
  <2>3. /\ req[r].pc = "enqueue" /\ req[r] \in Req
        /\ req \in [Requests -> Req] /\ job \in [Payloads -> Job]
    BY <1>5 DEF Enqueue, TypeOK
  <2>4. /\ job[p].st = "none" => job' = [job EXCEPT ![p] = queued] /\ gaps' = gaps
        /\ job[p].st # "none" => job' = job /\ gaps' = gaps \cup (p \ job[p].todo)
    BY <2>1
  <2>5. /\ \A q \in Requests \ {r} : req'[q] = req[q]
        /\ left # {} => req'[r].pc = "enqueue" /\ req'[r].months = left
    BY <2>1, <2>3 DEF Req
  <2>6. queued.todo = p /\ queued.st = "queued"
    BY DEF NoJob
  <2>7. job[p].st = "none" => job[p].todo \subseteq p
    BY <2>2 DEF LedgerInv, InPayload
  <2> HIDE DEF p, queued
  <2>8. m \in p => Unread(m)' \/ m \in gaps'
    BY <2>2, <2>3, <2>4, <2>6 DEF Unread
  <2>9. Unread(m) => Unread(m)' \/ m \in gaps'
    BY <2>2, <2>3, <2>4, <2>6, <2>7 DEF Unread
  <2>10. Owed(m) => Owed(m)' \/ m \in p
    BY <2>5 DEF Owed
  <2>11. gaps \subseteq gaps'
    BY <2>4
  <2>12. Covered(m) => Covered(m)'
    BY <2>8, <2>9, <2>10, <2>11 DEF Covered
  <2>13. \A q \in Payloads :
           job'[q] = job[q] \/ (~Working(q, m) /\ ~Working(q, m)')
    BY <2>2, <2>3, <2>4, <2>6 DEF Working
  <2> QED
    BY <1>1, <1>2, <2>11, <2>12, <2>13, MonthKept, InvByMonth
<1> QED
  BY <1>3, <1>4, <1>5

(* What the steps of a task share: the requests and the transactions stay,  *)
(* and so do the other tasks.                                               *)
LEMMA JobFrame ==
  ASSUME TypeOK, NEW p \in Payloads, JobStep(p)
  PROVE  /\ mail' = mail /\ txn' = txn /\ req' = req
         /\ \A q \in Payloads \ {p} : job'[q] = job[q]
         /\ ~Write(p) => rollup' = rollup
         /\ \A m \in Months :
              Totals(m)' = Totals(m) /\ Groups(m)' = Groups(m) /\ (Owed(m)' <=> Owed(m))
<1>1. /\ mail' = mail /\ txn' = txn /\ req' = req
      /\ ~Write(p) => rollup' = rollup
      /\ \E x : job' = [job EXCEPT ![p] = x]
  <2>1. CASE Recompute(p)
    <3>1. CASE Pick(p)
      <4>1. PICK m \in job[p].todo : job' = [job EXCEPT ![p].todo = @ \ {m},
                                        ![p].cur = m, ![p].pc = "totals"]
        BY <3>1, Zenon DEF Pick
      <4>2. /\ DOMAIN job' = DOMAIN job /\ p \in DOMAIN job
            /\ job' = [q \in DOMAIN job' |-> job'[q]] /\ job = [q \in DOMAIN job |-> job[q]]
            /\ \A q \in DOMAIN job : q # p => job'[q] = job[q]
        BY <4>1 DEF TypeOK
      <4>4. job' = [job EXCEPT ![p] = job'[p]]
        BY <4>2
      <4>3. mail' = mail /\ txn' = txn /\ req' = req /\ rollup' = rollup
        BY <3>1 DEF Pick, ledger
      <4> QED BY <4>4, <4>3, Zenon
    <3>2. CASE Write(p)
      BY <3>2 DEF Write, NextMonth, ledger
    <3>3. CASE Begin(p) \/ ReadTotals(p) \/ ReadGroups(p) \/ LookUp(p) \/ Finish(p)
      BY <3>3 DEF Begin, ReadTotals, ReadGroups, LookUp, Finish, ledger
    <3> QED
      BY <2>1, <3>1, <3>2, <3>3 DEF Recompute
  <2>2. CASE Lose(p)
    <3>1. PICK st \in {"none", "lost"} : job' = [job EXCEPT ![p] = [NoJob EXCEPT !.st = st]]
      BY <2>2, Zenon DEF Lose
    <3> QED
      BY <2>2, <3>1 DEF Lose, ledger
  <2>3. CASE MonthFails(p) \/ TimeOut(p) \/ KeyExpires(p)
    BY <2>3 DEF MonthFails, NextMonth, TimeOut, KeyExpires, ledger
  <2> QED
    BY <2>1, <2>2, <2>3 DEF JobStep
<1>2. \A q \in Payloads \ {p} : job'[q] = job[q]
  BY <1>1 DEF TypeOK
<1>3. \A m \in Months : Totals(m)' = Totals(m) /\ Groups(m)' = Groups(m)
  BY <1>1, ReadsUnmoved
<1>4. \A m \in Months : Owed(m)' <=> Owed(m)
  BY <1>1 DEF Owed
<1> QED
  BY <1>1, <1>2, <1>3, <1>4

(* A step of the task p for a month on which it does not work.              *)
LEMMA JobOtherMonth ==
  ASSUME TypeOK, LedgerInv, NEW p \in Payloads, JobStep(p), NEW m \in Months,
         ~Working(p, m), ~Working(p, m)',
         rollup'[m] = rollup[m],
         m \in gaps => m \in gaps',
         m \in job[p].todo => m \in job'[p].todo \/ m \in gaps'
  PROVE  MonthInv(m)'
<1>1. Covered(m) => Covered(m)'
  BY JobFrame DEF Covered, Unread
<1> QED
  BY <1>1, JobFrame, MonthKept, InvByMonth

(* A query or the lookup of the task p, for its own month.                  *)
LEMMA ReadsCover ==
  ASSUME TypeOK, LedgerInv, NEW p \in Payloads,
         ReadTotals(p) \/ ReadGroups(p) \/ LookUp(p),
         NEW m \in Months, Working(p, m)
  PROVE  MonthInv(m)'
<1>1. JobStep(p)
  BY DEF JobStep, Recompute
<1>2. /\ job \in [Payloads -> Job] /\ job[p] \in Job /\ job[p].new \in Rollup
      /\ job[p].cur = m
  BY DEF TypeOK, Job, Working
<1>3. /\ rollup' = rollup /\ gaps' = gaps
      /\ Totals(m)' = Totals(m) /\ Groups(m)' = Groups(m)
      /\ \A q \in Payloads \ {p} : job'[q] = job[q]
      /\ Owed(m)' <=> Owed(m)
  BY <1>1, JobFrame DEF ReadTotals, ReadGroups, LookUp
<1>4. /\ job'[p].st = job[p].st /\ job'[p].cur = job[p].cur
      /\ job'[p].todo = job[p].todo
  BY <1>2 DEF ReadTotals, ReadGroups, LookUp, Job
<1>5. \A q \in Payloads : Working(q, m)' <=> Working(q, m)
  BY <1>3, <1>4 DEF Working
<1>6. Covered(m)' <=> Covered(m)
  BY <1>3, <1>4 DEF Covered, Unread
<1>7. Stale(m)' <=> Stale(m)
  BY <1>3 DEF Stale, Exact
<1>8. Sound(p, m) => Sound(p, m)'
  <2>1. CASE ReadTotals(p)
    BY <1>2, <1>3, <2>1 DEF ReadTotals, Sound, Job, Rollup
  <2>2. CASE ReadGroups(p)
    BY <1>2, <1>3, <2>2 DEF ReadGroups, Sound, Job, Rollup
  <2>3. CASE LookUp(p)
    BY <1>2, <1>3, <2>3 DEF LookUp, Sound, Job, Rollup
  <2> QED
    BY <2>1, <2>2, <2>3
<1>9. \A q \in Payloads \ {p} : Sound(q, m) => Sound(q, m)'
  BY <1>3 DEF Sound
<1>10. MonthInv(m)
  BY InvByMonth
<1> QED
  BY <1>3, <1>5, <1>6, <1>7, <1>8, <1>9, <1>10 DEF MonthInv

(* The task p takes up the month m.                                         *)
LEMMA PickCovers ==
  ASSUME TypeOK, LedgerInv, NEW p \in Payloads, Pick(p), NEW m \in Months
  PROVE  MonthInv(m)'
<1>1. PICK n \in job[p].todo :
       /\ job' = [job EXCEPT ![p].todo = @ \ {n}, ![p].cur = n,
                             ![p].pc = "totals"]
       /\ gaps' = IF \E q \in Payloads : Working(q, n) THEN gaps \cup {n}
                  ELSE gaps
  BY Zenon DEF Pick
<1>2. /\ job \in [Payloads -> Job] /\ job[p] \in Job
      /\ job[p].pc = "pick" /\ job[p].st = "running"
  BY DEF TypeOK, Pick
<1>3. /\ job'[p].todo = job[p].todo \ {n} /\ job'[p].cur = n
      /\ job'[p].pc = "totals" /\ job'[p].st = "running"
  BY <1>1, <1>2 DEF Job
<1>4. JobStep(p) /\ ~Write(p)
  BY <1>2 DEF JobStep, Recompute, Write
<1>5. job[p].cur = NoDate /\ NoDate \notin Months
  BY <1>2, LedgerAssumption DEF LedgerInv, InPayload
<1>6. gaps \subseteq gaps' /\ rollup' = rollup
  BY <1>1, <1>4, JobFrame
<1>7. CASE m # n
  <2>1. ~Working(p, m) /\ ~Working(p, m)'
    BY <1>3, <1>5, <1>7 DEF Working
  <2> QED
    BY <1>3, <1>4, <1>6, <1>7, <2>1, JobOtherMonth
<1>8. CASE m = n
  <2>1. CASE \E q \in Payloads : Working(q, n)
    BY <1>1, <1>8, <2>1, MonthInGap
  <2>2. CASE ~\E q \in Payloads : Working(q, n)
    <3>1. \A q \in Payloads \ {p} : ~Working(q, m)'
      BY <1>4, <1>8, <2>2, JobFrame DEF Working
    <3>2. Working(p, m)' /\ Sound(p, m)'
      BY <1>3, <1>8 DEF Working, Sound
    <3> QED
      BY <3>1, <3>2 DEF MonthInv
  <2> QED
    BY <2>1, <2>2
<1> QED
  BY <1>7, <1>8

(* The task p commits the rollup of the month m: if m is in no gap and not  *)
(* covered, it worked alone on what is still so, and the row is exact.      *)
LEMMA WriteCovers ==
  ASSUME TypeOK, LedgerInv, NEW p \in Payloads, Write(p), NEW m \in Months
  PROVE  MonthInv(m)'
<1> DEFINE n == job[p].cur
           alone == \A q \in Payloads \ {p} : ~Working(q, n)
<1>1. /\ job \in [Payloads -> Job] /\ job[p] \in Job /\ job[p].new \in Rollup
      /\ rollup \in [Months -> Rollup \cup {NoRollup}]
      /\ job[p].pc = "write" /\ job[p].st = "running"
  BY DEF TypeOK, Job, Write
<1>2. JobStep(p)
  BY DEF JobStep, Recompute
<1>3. /\ rollup' = [rollup EXCEPT ![n] = Upserted(p, n)]
      /\ gaps' = IF alone /\ Upserted(p, n) = Exact(n) THEN gaps \ {n} ELSE gaps
  BY Zenon DEF Write
<1>4. /\ job'[p].todo = job[p].todo /\ job'[p].cur = NoDate
  BY <1>1 DEF Write, NextMonth, NoJob
<1>5. NoDate \notin Months /\ n \in Months
  BY <1>1, LedgerAssumption DEF LedgerInv, InPayload, Payloads
<1>6. \A k \in Months : ~Working(p, k)'
  BY <1>4, <1>5 DEF Working
<1>7. CASE m # n
  BY <1>1, <1>2, <1>3, <1>4, <1>6, <1>7, JobOtherMonth DEF Working
<1>8. CASE m = n
  <2>1. Working(p, m)
    BY <1>1, <1>8 DEF Working
  <2>2. \A q \in Payloads : Working(q, m)' => q # p /\ Working(q, m)
    BY <1>2, <1>5, <1>6, JobFrame DEF Working
  <2>3. CASE alone /\ Upserted(p, n) = Exact(n)
    <3>1. \A q \in Payloads : ~Working(q, m)'
      BY <1>8, <2>2, <2>3
    <3>2. Exact(m)' = Exact(m)
      BY <1>2, JobFrame DEF Exact
    <3>3. ~Stale(m)'
      BY <1>1, <1>3, <1>5, <1>8, <2>3, <3>2 DEF Stale
    <3> QED
      BY <3>1, <3>3 DEF MonthInv
  <2>4. CASE ~(alone /\ Upserted(p, n) = Exact(n)) /\ m \in gaps
    BY <1>3, <2>4, MonthInGap
  <2>5. CASE ~(alone /\ Upserted(p, n) = Exact(n)) /\ m \notin gaps
    <3>1. MonthInv(m)
      BY InvByMonth
    <3>2. alone
      BY <1>8, <2>1, <2>5, <3>1 DEF MonthInv
    <3>3. ~Sound(p, m)
      <4> SUFFICES ASSUME Sound(p, m) PROVE FALSE
        OBVIOUS
      <4>1. /\ job[p].new.totals = Totals(m) /\ job[p].new.groups = Groups(m)
            /\ job[p].row = rollup[m]
        BY <1>1 DEF Sound
      <4>2. job[p].new = Exact(m)
        BY <1>1, <4>1 DEF Rollup, Exact
      <4>3. rollup[m] # NoRollup =>
              Merge(rollup[m], job[p].row, job[p].new) = job[p].new
        BY <1>1, <4>1 DEF Merge, Rollup
      <4>4. Upserted(p, m) = job[p].new
        BY <4>1, <4>3 DEF Upserted
      <4> QED
        BY <1>8, <2>5, <3>2, <4>2, <4>4
    <3>4. Covered(m)
      BY <2>1, <3>1, <3>3 DEF MonthInv
    <3>5. Covered(m)'
      BY <1>2, <1>3, <1>4, <2>5, <3>4, JobFrame DEF Covered, Unread
    <3> QED
      BY <1>3, <2>2, <2>5, <3>1, <3>5, MonthCovered
  <2> QED
    BY <2>3, <2>4, <2>5
<1> QED
  BY <1>7, <1>8

LEMMA JobsCover ==
  ASSUME TypeOK, LedgerInv, NEW p \in Payloads, JobStep(p), NEW m \in Months
  PROVE  MonthInv(m)'
<1>1. /\ job \in [Payloads -> Job] /\ job[p] \in Job
      /\ job[p].todo \subseteq p
      /\ job[p].cur \in p \cup {NoDate}
      /\ job[p].pc = "pick" <=> job[p].cur = NoDate
      /\ job[p].st # "running" => job[p].pc = "pick"
      /\ job[p].st \in {"none", "lost"} => job[p].todo = {}
      /\ NoDate \notin Months
  BY LedgerAssumption DEF TypeOK, LedgerInv, InPayload
<1>2. CASE ReadTotals(p) \/ ReadGroups(p) \/ LookUp(p)
  <2>1. CASE Working(p, m)
    BY <1>2, <2>1, ReadsCover
  <2>2. CASE ~Working(p, m)
    <3>1. /\ rollup' = rollup /\ gaps' = gaps
          /\ job'[p].st = job[p].st /\ job'[p].cur = job[p].cur
          /\ job'[p].todo = job[p].todo
      BY <1>1, <1>2 DEF ReadTotals, ReadGroups, LookUp, Job
    <3> QED
      BY <2>2, <3>1, JobOtherMonth DEF Working
  <2> QED
    BY <2>1, <2>2
<1>3. CASE Begin(p) \/ Finish(p) \/ KeyExpires(p)
  <2>1. /\ rollup' = rollup /\ gaps' = gaps
        /\ job[p].cur = NoDate /\ job'[p].cur = NoDate
    BY <1>1, <1>3 DEF Begin, Finish, KeyExpires, Job, NoJob
  <2>2. m \in job[p].todo => m \in job'[p].todo \/ m \in gaps'
    <3>1. CASE Begin(p)
      BY <1>1, <3>1 DEF Begin, Job
    <3>2. CASE Finish(p)
      BY <3>2 DEF Finish
    <3>3. CASE KeyExpires(p)
      <4>1. job[p].todo = {}
        BY <3>3 DEF KeyExpires, LedgerInv, InPayload
      <4> QED
        BY <4>1
    <3> QED
      BY <1>3, <3>1, <3>2, <3>3
  <2> QED
    BY <1>1, <2>1, <2>2, JobOtherMonth DEF Working
<1>4. CASE MonthFails(p)
  <2>1. /\ rollup' = rollup /\ gaps' = gaps \cup {job[p].cur}
        /\ job'[p].todo = job[p].todo /\ job'[p].cur = NoDate
    BY <1>1, <1>4 DEF MonthFails, NextMonth, NoJob
  <2>2. CASE m = job[p].cur
    BY <2>1, <2>2, MonthInGap
  <2>3. CASE m # job[p].cur
    BY <1>1, <2>1, <2>3, JobOtherMonth DEF Working
  <2> QED
    BY <2>2, <2>3
<1>5. CASE TimeOut(p)
  <2>1. /\ rollup' = rollup /\ gaps' = gaps
        /\ job'[p].todo = p /\ job'[p].cur = NoDate
    BY <1>1, <1>5 DEF TimeOut, NoJob
  <2>2. CASE Working(p, m)
    <3>1. Covered(m)'
      BY <1>1, <2>1, <2>2 DEF Covered, Unread, Working
    <3>2. \A q \in Payloads : Working(q, m)' => Working(q, m)
      BY <1>1, <2>1, JobFrame DEF Working
    <3> QED
      BY <2>1, <3>1, <3>2, MonthCovered, InvByMonth
  <2>3. CASE ~Working(p, m)
    BY <1>1, <2>1, <2>3, JobOtherMonth DEF Working
  <2> QED
    BY <2>2, <2>3
<1>6. CASE Lose(p)
  <2>1. PICK st \in {"none", "lost"} : job' = [job EXCEPT ![p] = [NoJob EXCEPT !.st = st]]
    BY <1>6, Zenon DEF Lose
  <2>2. /\ rollup' = rollup /\ gaps' = gaps \cup p
        /\ job'[p].cur = NoDate
    BY <1>1, <1>6, <2>1 DEF Lose, NoJob
  <2>3. CASE m \in p
    BY <2>2, <2>3, MonthInGap
  <2>4. CASE m \notin p
    BY <1>1, <2>2, <2>4, JobOtherMonth DEF Working
  <2> QED
    BY <2>3, <2>4
<1> QED
  BY <1>2, <1>3, <1>4, <1>5, <1>6, PickCovers, WriteCovers DEF JobStep, Recompute

LEMMA LedgerInvStep ==
  ASSUME TypeOK, LedgerInv, [Next]_vars
  PROVE  LedgerInv'
<1>1. CASE UNCHANGED vars
  <2>1. /\ mail' = mail /\ txn' = txn /\ rollup' = rollup /\ job' = job
        /\ req' = req /\ gaps' = gaps
    BY <1>1 DEF vars
  <2>2. TxnHasMail' /\ InPayload'
    BY <2>1 DEF LedgerInv, TxnHasMail, InPayload
  <2>3. ASSUME NEW m \in Months PROVE MonthInv(m)'
    <3>1. Covered(m)' <=> Covered(m)
      BY <2>1 DEF Covered, Owed, Unread
    <3>2. Totals(m)' = Totals(m) /\ Groups(m)' = Groups(m)
      BY <2>1, ReadsUnmoved
    <3> QED
      BY <2>1, <3>1, <3>2, MonthKept, InvByMonth
  <2> QED
    BY <2>2, <2>3, PrimedInvByMonth
<1>2. CASE \E r \in Requests : RequestStep(r)
  <2> SUFFICES ASSUME NEW r \in Requests, RequestStep(r) PROVE LedgerInv'
    BY <1>2
  <2>1. InPayload'
    BY RequestStepInPayload DEF LedgerInv
  <2>2. TxnHasMail'
    <3>1. CASE Commit(r)
      BY <3>1, CommitsTxnHasMail DEF LedgerInv
    <3>2. CASE UNCHANGED ledger
      BY <3>2 DEF ledger, LedgerInv, TxnHasMail
    <3> QED
      BY <3>1, <3>2 DEF RequestStep, Load, Abort, Enqueue, EnqueueFails
  <2>3. \A m \in Months : MonthInv(m)'
    BY CommitsCover, RequestsCover DEF RequestStep
  <2> QED
    BY <2>1, <2>2, <2>3, PrimedInvByMonth
<1>3. CASE \E p \in Payloads : JobStep(p)
  <2> SUFFICES ASSUME NEW p \in Payloads, JobStep(p) PROVE LedgerInv'
    BY <1>3
  <2>1. InPayload'
    BY JobStepInPayload DEF LedgerInv
  <2>2. TxnHasMail'
    BY JobFrame DEF LedgerInv, TxnHasMail
  <2>3. \A m \in Months : MonthInv(m)'
    BY JobsCover
  <2> QED
    BY <2>1, <2>2, <2>3, PrimedInvByMonth
<1> QED
  BY <1>1, <1>2, <1>3, Actors

(* A rollup that differs from its month's transactions is still to be       *)
(* recomputed, or its month fell into one of the gaps of the code.          *)
THEOREM StaleIsCovered == Spec => []RollupsFollow
<1>1. Init => LedgerInv
  BY DEF Init, LedgerInv, TxnHasMail, InPayload, ReadsSound, OverlapsNoted,
         RollupsFollow, Stale, Working, NoJob, NoneSeen
<1>2. TypeOK /\ LedgerInv /\ [Next]_vars => LedgerInv'
  BY LedgerInvStep
<1>3. LedgerInv => RollupsFollow
  BY DEF LedgerInv
<1> QED
  BY <1>1, <1>2, <1>3, LedgerTypeCorrect, PTL DEF Spec
=============================================================================
