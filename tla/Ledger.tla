------------------------------- MODULE Ledger -------------------------------
(***************************************************************************)
(* The transactions of one user, the requests that write them, and the     *)
(* monthly rollups (period_rollups) the dashboard reads.                   *)
(*                                                                         *)
(* A request loads its rows, waits for the classifier or the database,     *)
(* commits, and then asks the task queue to recompute the months it thinks *)
(* it has changed.  A recompute task works through its months one by one:  *)
(* a query of the totals, queries of the breakdowns, a lookup of the       *)
(* rollup's row, and a commit.  Requests and tasks interleave at every     *)
(* await; PostgreSQL runs at READ COMMITTED, so each query sees what is    *)
(* committed when it starts.  SQLAlchemy's UPDATE writes only the columns  *)
(* whose value differs from the one it loaded.                             *)
(*                                                                         *)
(* Left out: the rules and merchants a request also teaches the classifier *)
(* (its verdicts are free here), the reads of the dashboard, which compute *)
(* a missing month but never commit it, and the recompute inside the       *)
(* request that stands in for a task queue that was never started.         *)
(***************************************************************************)
EXTENDS Integers, FiniteSets

CONSTANTS
  Mails,      \* emails, named by gmail_id
  Months,
  Year,       \* the year of each month
  Vals,       \* label, category, merchant, amount and marks of a transaction
  Requests,   \* HTTP requests and import jobs, one operation each
  Ops,        \* the operations they perform
  MaxFaults,  \* bound: crashes, timeouts and lost connections
  NoDate,     \* txn_date is NULL
  NoTxn,      \* the email has no transaction
  NoRollup    \* the month has no rollup

Imports   == {"import"}
Rewrites  == {"patch", "reclassify", "stream", "reprocess", "bulk", "batch"}
Reviews   == {"keep", "discard", "undo"}
Removals  == {"delete", "cleanup", "resolve"}
AllOps    == Imports \cup Rewrites \cup Reviews \cup Removals

(* The operations that enqueue no recompute.                                *)
Silent == {"stream", "reprocess", "cleanup"} \cup Reviews

(* The operations that take several emails at once.  A bulk review and a    *)
(* reclassification stream load their emails one after the other: here they *)
(* are one request for each email.                                          *)
Bulk == {"import", "bulk", "batch", "delete", "cleanup"}

Statuses == {"needs_review", "auto", "corrected"}  \* "confirmed" as the last

ASSUME LedgerAssumption ==
  /\ Ops \subseteq AllOps
  /\ NoDate \notin Months
  /\ MaxFaults \in Nat

Txn == [id : Requests,                    \* the request that inserted it
        month : Months \cup {NoDate}, val : Vals, status : Statuses]

ASSUME NullsAssumption ==
  /\ NoTxn \notin Txn
  /\ NoRollup \notin [totals : SUBSET (Mails \X Vals \X BOOLEAN),
                      groups : SUBSET (Mails \X Vals)]

VARIABLES
  mail,     \* emails.pre_filter_status, "absent" if there is no row
  txn,      \* the transaction of each email
  rollup,   \* period_rollups: the row of each month
  job,      \* the recompute task of each payload
  req,      \* the local state of each request
  faults,   \* crashes, timeouts and lost connections so far
  gaps      \* history: the months a gap of the code left behind

ledger == <<mail, txn>>
vars == <<mail, txn, rollup, job, req, faults, gaps>>

Filtered == {"absent", "review_pending", "passed", "discarded"}
Payloads == (SUBSET Months) \ {{}}

Rollup == [totals : SUBSET (Mails \X Vals \X BOOLEAN),
           groups : SUBSET (Mails \X Vals)]
EmptyRollup == [totals |-> {}, groups |-> {}]

Job == [st   : {"none", "queued", "running", "lost"},
        todo : SUBSET Months,             \* months not yet begun
        cur  : Months \cup {NoDate},      \* the month being recomputed
        pc   : {"pick", "totals", "groups", "lookup", "write"},
        new  : Rollup,                    \* what the queries returned
        row  : Rollup \cup {NoRollup}]    \* existing
NoJob == [st |-> "none", todo |-> {}, cur |-> NoDate, pc |-> "pick",
          new |-> EmptyRollup, row |-> NoRollup]

Req == [pc     : {"idle", "loaded", "enqueue", "done"},
        op     : AllOps,
        mails  : SUBSET Mails,
        saw    : [Mails -> Filtered],          \* as loaded
        seen   : [Mails -> Txn \cup {NoTxn}],  \* as loaded
        months : SUBSET Months]                \* still to enqueue
NoneSeen == [e \in Mails |-> NoTxn]
NoneSaw  == [e \in Mails |-> "absent"]
IdleReq  == [pc |-> "idle", op |-> "import", mails |-> {}, saw |-> NoneSaw,
             seen |-> NoneSeen, months |-> {}]
DoneReq  == [IdleReq EXCEPT !.pc = "done"]

TypeOK ==
  /\ mail \in [Mails -> Filtered]
  /\ txn \in [Mails -> Txn \cup {NoTxn}]
  /\ rollup \in [Months -> Rollup \cup {NoRollup}]
  /\ job \in [Payloads -> Job]
  /\ req \in [Requests -> Req]
  /\ faults \in 0..MaxFaults
  /\ gaps \subseteq Months

Init ==
  /\ mail = [e \in Mails |-> "absent"]
  /\ txn = NoneSeen
  /\ rollup = [m \in Months |-> NoRollup]
  /\ job = [p \in Payloads |-> NoJob]
  /\ req = [r \in Requests |-> IdleReq]
  /\ faults = 0
  /\ gaps = {}

-----------------------------------------------------------------------------
(* What the rollup's queries return.  The totals count the transactions     *)
(* that wait for a review, the breakdowns leave them out.                   *)

In(m)     == {e \in Mails : txn[e] # NoTxn /\ txn[e].month = m}
Totals(m) == {<<e, txn[e].val, txn[e].status = "needs_review">> : e \in In(m)}
Groups(m) == {<<e, txn[e].val>> :
                e \in {f \in In(m) : txn[f].status # "needs_review"}}
Exact(m)  == [totals |-> Totals(m), groups |-> Groups(m)]

Stale(m) == rollup[m] # NoRollup /\ rollup[m] # Exact(m)

-----------------------------------------------------------------------------
(* Requests.                                                                *)

(* What the first query of the operation selects.                           *)
Selects(op, e) ==
  CASE op = "import"  -> mail[e] = "absent"
    [] op = "batch"   -> txn[e] # NoTxn /\ txn[e].status = "needs_review"
    [] op = "cleanup" -> mail[e] \in {"discarded", "review_pending"}
    [] op = "undo"    -> mail[e] \in {"passed", "discarded"}
    [] op \in {"keep", "discard", "stream"} -> mail[e] # "absent"
    [] OTHER          -> mail[e] # "absent" /\ txn[e] # NoTxn

MonthsOrNull(rows) == {t.month : t \in rows}   \* mutant of MonthsOf
MonthsOf(rows) == {t.month : t \in rows} \ {NoDate}

(* A resolution of a duplicate enqueues before its caller commits.          *)
Load(r) ==
  /\ req[r].pc = "idle"
  /\ \E op \in Ops, S \in (SUBSET Mails) \ {{}} :
       /\ op \notin Bulk => Cardinality(S) = 1
       /\ \A e \in S : Selects(op, e)
       /\ LET early == IF op = "resolve" THEN MonthsOf({txn[e] : e \in S})
                       ELSE {}
          IN req' = [req EXCEPT ![r] =
               [pc |-> IF early = {} THEN "loaded" ELSE "enqueue",
                op |-> op, mails |-> S,
                saw |-> [e \in Mails |-> IF e \in S THEN mail[e] ELSE "absent"],
                seen |-> [e \in Mails |-> IF e \in S THEN txn[e] ELSE NoTxn],
                months |-> early]]
  /\ UNCHANGED <<ledger, rollup, job, faults, gaps>>

(* The rows an operation may leave in place of the row s it loaded.         *)
Judged == {"auto", "needs_review"}
NewRows(r) == [id : {r}, month : Months \cup {NoDate}, val : Vals,
               status : Judged]
Patched(s) == [id : {s.id}, month : Months \cup {s.month}, val : Vals,
               status : Statuses]
Reclassified(s) == [id : {s.id}, month : Months \cup {s.month}, val : Vals,
                    status : Judged]
Reprocessed(s) == [id : {s.id}, month : Months \cup {NoDate}, val : Vals,
                   status : Judged]
BulkEdited(s) == [id : {s.id}, month : {s.month}, val : Vals,
                  status : {s.status, "corrected"}]
Confirmed(s) == [id : {s.id}, month : {s.month}, val : Vals,
                 status : {"corrected"}]
Rewritten(op, s) ==
  CASE op = "patch"                     -> Patched(s)
    [] op \in {"reclassify", "stream"} -> Reclassified(s)
    [] op = "reprocess"                 -> Reprocessed(s)
    [] op = "bulk"                      -> BulkEdited(s)
    [] op = "batch"                     -> Confirmed(s)

(* An UPDATE writes the columns that differ from what was loaded.           *)
Merge(now, old, new) ==
  [f \in DOMAIN now |-> IF new[f] # old[f] THEN new[f] ELSE now[f]]
MergeStatus(now, old, new) == IF new # old THEN new ELSE now

(* The row that was loaded is still there.                                  *)
SameRow(r, e) ==
  /\ txn[e] # NoTxn
  /\ req[r].seen[e] # NoTxn
  /\ txn[e].id = req[r].seen[e].id

ToRecomputeLeft(r, new) ==                    \* mutant of ToRecompute
  IF req[r].op \in Silent \cup {"resolve"} THEN {}
  ELSE MonthsOf({new[e] : e \in req[r].mails} \ {NoTxn})

(* The months the request enqueues after a commit that leaves the rows new. *)
ToRecompute(r, new) ==
  LET loaded == {req[r].seen[e] : e \in req[r].mails} \ {NoTxn}
      left   == {new[e] : e \in req[r].mails} \ {NoTxn}
  IN CASE req[r].op \in {"import", "patch"} -> MonthsOf(left)
       [] req[r].op = "reclassify" -> MonthsOf(left \cup loaded)
       [] req[r].op \in {"bulk", "batch", "delete"} -> MonthsOf(loaded)
       [] OTHER -> {}

(* The months a commit changes although nobody will recompute them: all of  *)
(* them if the operation enqueues nothing or has enqueued already, the old  *)
(* month of a patched transaction, and the month to which another request   *)
(* moved the row since it was loaded.                                       *)
LeftBehind(r, after) ==
  UNION {LET was == {txn[e]} \ {NoTxn}
             is  == {after[e]} \ {NoTxn}
             old == {req[r].seen[e]} \ {NoTxn}
         IN IF req[r].op \in Silent \cup {"resolve"}
            THEN MonthsOf(was \cup is)
            ELSE IF req[r].op = "patch" \/ MonthsOf(was) # MonthsOf(old)
                 THEN MonthsOf(was)
                 ELSE {} : e \in req[r].mails}

(* The end of a database transaction that leaves the emails at to and the   *)
(* transactions at after; new are the rows as the request sees them.        *)
CommitAs(r, to, after, new) ==
  LET owed == ToRecompute(r, new)
  IN /\ mail' = to
     /\ txn' = after
     /\ req' = [req EXCEPT ![r] =
          IF owed = {} THEN DoneReq
          ELSE [IdleReq EXCEPT !.pc = "enqueue", !.op = req[r].op,
                               !.months = owed]]
     /\ gaps' = gaps \cup (LeftBehind(r, after) \ owed)
     /\ UNCHANGED <<rollup, job, faults>>

(* A sync or a fetch-range: one commit, which fails if a gmail_id is taken. *)
Import(r) ==
  /\ req[r].pc = "loaded" /\ req[r].op = "import"
  /\ \A e \in req[r].mails : mail[e] = "absent"
  /\ \E to \in [req[r].mails -> Filtered \ {"absent"}],
        new \in [req[r].mails -> NewRows(r)] :
       LET rows == [e \in Mails |-> IF e \in req[r].mails /\ to[e] = "passed"
                                   THEN new[e] ELSE NoTxn]
       IN CommitAs(r,
            [e \in Mails |-> IF e \in req[r].mails THEN to[e] ELSE mail[e]],
            [e \in Mails |-> IF rows[e] # NoTxn THEN rows[e] ELSE txn[e]],
            rows)

(* The requests that change transactions they have loaded.  An UPDATE of a  *)
(* row that is gone is an error, unless there is nothing to update.         *)
Rewrite(r) ==
  /\ req[r].pc = "loaded" /\ req[r].op \in Rewrites
  /\ \A e \in req[r].mails : req[r].seen[e] # NoTxn
  /\ \E new \in [req[r].mails -> Txn] :
       /\ \A e \in req[r].mails :
            /\ new[e] \in Rewritten(req[r].op, req[r].seen[e])
            /\ SameRow(r, e) \/ new[e] = req[r].seen[e]
       /\ CommitAs(r, mail,
            [e \in Mails |-> IF e \in req[r].mails /\ SameRow(r, e)
                            THEN Merge(txn[e], req[r].seen[e], new[e])
                            ELSE txn[e]],
            new)

(* Keep, and a reclassification stream that finds no transaction, insert    *)
(* one: the unique email_id lets one of two such requests through.          *)
Insert(r) ==
  /\ req[r].pc = "loaded"
  /\ \E e \in req[r].mails :
       /\ req[r].op = "keep" \/ (req[r].op = "stream" /\ req[r].seen[e] = NoTxn)
       /\ mail[e] # "absent" /\ txn[e] = NoTxn
       /\ \E t \in NewRows(r) :
            CommitAs(r,
              IF req[r].op = "keep"
              THEN [mail EXCEPT ![e] = MergeStatus(@, req[r].saw[e], "passed")]
              ELSE mail,
              [txn EXCEPT ![e] = t],
              [NoneSeen EXCEPT ![e] = t])

(* Discarding leaves the transaction of an email that had been kept.        *)
Discard(r) ==
  /\ req[r].pc = "loaded" /\ req[r].op = "discard"
  /\ \E e \in req[r].mails :
       /\ mail[e] # "absent" \/ req[r].saw[e] = "discarded"
       /\ CommitAs(r,
            [mail EXCEPT ![e] = MergeStatus(@, req[r].saw[e], "discarded")],
            txn, NoneSeen)

Undo(r) ==
  /\ req[r].pc = "loaded" /\ req[r].op = "undo"
  /\ \E e \in req[r].mails :
       /\ mail[e] # "absent"
       /\ CommitAs(r,
            [mail EXCEPT ![e] = "review_pending"],
            [txn EXCEPT ![e] =
               IF req[r].saw[e] = "passed" /\ SameRow(r, e) THEN NoTxn ELSE @],
            NoneSeen)

(* A bulk delete and the cleanup delete emails; the transaction survives    *)
(* without an email, out of reach of every query.  The cleanup selects the  *)
(* emails again by their ids, whatever their status is by now.              *)
Remove(r) ==
  /\ req[r].pc = "loaded" /\ req[r].op \in {"delete", "cleanup"}
  /\ req[r].op = "delete" => \A e \in req[r].mails : SameRow(r, e)
  /\ CommitAs(r,
       [e \in Mails |-> IF e \in req[r].mails THEN "absent" ELSE mail[e]],
       [e \in Mails |-> IF e \in req[r].mails THEN NoTxn ELSE txn[e]],
       NoneSeen)

(* The confirmed duplicate's transaction is deleted.                        *)
Resolve(r) ==
  /\ req[r].pc = "loaded" /\ req[r].op = "resolve"
  /\ CommitAs(r, mail,
       [e \in Mails |-> IF e \in req[r].mails /\ SameRow(r, e)
                       THEN NoTxn ELSE txn[e]],
       NoneSeen)

(* A conflict with another transaction, a failed classification or a lost   *)
(* connection ends a request before its commit.                             *)
Abort(r) ==
  /\ req[r].pc = "loaded"
  /\ req' = [req EXCEPT ![r] = DoneReq]
  /\ UNCHANGED <<ledger, rollup, job, faults, gaps>>

-----------------------------------------------------------------------------
(* enqueue_recompute: one payload for each year.  The queue answers with    *)
(* nothing if the same payload is pending or running.                       *)

YearOf(M, m) == {n \in M : Year[n] = Year[m]}

Working(p, m) == job[p].st = "running" /\ job[p].cur = m

Enqueue(r) ==
  /\ req[r].pc = "enqueue"
  /\ \E m \in req[r].months :
       LET p    == YearOf(req[r].months, m)
           left == req[r].months \ p
       IN /\ req' = [req EXCEPT ![r] =
               IF left # {} THEN [@ EXCEPT !.months = left]
               ELSE IF @.op = "resolve"
               THEN [@ EXCEPT !.months = {}, !.pc = "loaded"] ELSE DoneReq]
          /\ IF job[p].st = "none"
             THEN /\ job' = [job EXCEPT ![p] =
                       [NoJob EXCEPT !.st = "queued", !.todo = p]]
                  /\ UNCHANGED gaps
             ELSE /\ gaps' = gaps \cup (p \ job[p].todo)
                  /\ UNCHANGED job
  /\ UNCHANGED <<ledger, rollup, faults>>

Fault == faults < MaxFaults /\ faults' = faults + 1

(* Redis refuses, or the process dies: the months are never enqueued.       *)
EnqueueFails(r) ==
  /\ Fault
  /\ req[r].pc = "enqueue"
  /\ req' = [req EXCEPT ![r] = DoneReq]
  /\ gaps' = gaps \cup req[r].months
  /\ UNCHANGED <<ledger, rollup, job>>

-----------------------------------------------------------------------------
(* handle_recompute_task and recompute_month.                               *)

Begin(p) ==
  /\ job[p].st = "queued"
  /\ job' = [job EXCEPT ![p].st = "running"]
  /\ UNCHANGED <<ledger, rollup, req, faults, gaps>>

(* Another task may be at work on the same month for another payload.       *)
Pick(p) ==
  /\ job[p].st = "running" /\ job[p].pc = "pick"
  /\ \E m \in job[p].todo :
       /\ job' = [job EXCEPT ![p].todo = @ \ {m}, ![p].cur = m,
                             ![p].pc = "totals"]
       /\ gaps' = IF \E q \in Payloads : Working(q, m) THEN gaps \cup {m}
                  ELSE gaps
  /\ UNCHANGED <<ledger, rollup, req, faults>>

ReadTotals(p) ==
  /\ job[p].st = "running" /\ job[p].pc = "totals"
  /\ job' = [job EXCEPT ![p].new.totals = Totals(job[p].cur),
                        ![p].pc = "groups"]
  /\ UNCHANGED <<ledger, rollup, req, faults, gaps>>

ReadGroups(p) ==
  /\ job[p].st = "running" /\ job[p].pc = "groups"
  /\ job' = [job EXCEPT ![p].new.groups = Groups(job[p].cur),
                        ![p].pc = "lookup"]
  /\ UNCHANGED <<ledger, rollup, req, faults, gaps>>

LookUp(p) ==
  /\ job[p].st = "running" /\ job[p].pc = "lookup"
  /\ job' = [job EXCEPT ![p].row = rollup[job[p].cur], ![p].pc = "write"]
  /\ UNCHANGED <<ledger, rollup, req, faults, gaps>>

NextMonthAgain(p) ==                          \* mutant of NextMonth
  job' = [job EXCEPT ![p] = [NoJob EXCEPT !.st = "running", !.todo = p]]

NextMonth(p) ==
  job' = [job EXCEPT ![p] = [NoJob EXCEPT !.st = "running",
                                          !.todo = job[p].todo]]

(* The row the commit leaves; an insert that finds a row is refused, and    *)
(* the error is logged and forgotten.  Rollups are never deleted.           *)
Upserted(p, m) ==
  IF rollup[m] = NoRollup THEN job[p].new
  ELSE IF job[p].row = NoRollup THEN rollup[m]
  ELSE Merge(rollup[m], job[p].row, job[p].new)

Write(p) ==
  /\ job[p].st = "running" /\ job[p].pc = "write"
  /\ LET m     == job[p].cur
         alone == \A q \in Payloads \ {p} : ~Working(q, m)
     IN /\ rollup' = [rollup EXCEPT ![m] = Upserted(p, m)]
        /\ gaps' = IF alone /\ Upserted(p, m) = Exact(m) THEN gaps \ {m}
                   ELSE gaps
  /\ NextMonth(p)
  /\ UNCHANGED <<ledger, req, faults>>

(* A database error in one month is logged; the task goes on.               *)
MonthFails(p) ==
  /\ Fault
  /\ job[p].st = "running" /\ job[p].pc # "pick"
  /\ gaps' = gaps \cup {job[p].cur}
  /\ NextMonth(p)
  /\ UNCHANGED <<ledger, rollup, req>>

Finish(p) ==
  /\ job[p].st = "running" /\ job[p].pc = "pick" /\ job[p].todo = {}
  /\ job' = [job EXCEPT ![p] = NoJob]
  /\ UNCHANGED <<ledger, rollup, req, faults, gaps>>

(* The queue's timeout cancels the handler and runs the task again.         *)
TimeOut(p) ==
  /\ Fault
  /\ job[p].st = "running"
  /\ job' = [job EXCEPT ![p] = [NoJob EXCEPT !.st = "queued", !.todo = p]]
  /\ UNCHANGED <<ledger, rollup, req, gaps>>

(* The worker dies, or the queue is out of retries.  A task lost while it   *)
(* runs blocks its payload until the idempotency key expires.               *)
Lose(p) ==
  /\ Fault
  /\ job[p].st \in {"queued", "running"}
  /\ \E st \in {"none", "lost"} :
       job' = [job EXCEPT ![p] = [NoJob EXCEPT !.st = st]]
  /\ gaps' = gaps \cup p
  /\ UNCHANGED <<ledger, rollup, req>>

KeyExpires(p) ==
  /\ job[p].st = "lost"
  /\ job' = [job EXCEPT ![p] = NoJob]
  /\ UNCHANGED <<ledger, rollup, req, faults, gaps>>

-----------------------------------------------------------------------------
Commit(r) ==
  \/ Import(r) \/ Rewrite(r) \/ Insert(r) \/ Discard(r) \/ Undo(r)
  \/ Remove(r) \/ Resolve(r)

Recompute(p) ==
  \/ Begin(p) \/ Pick(p) \/ ReadTotals(p) \/ ReadGroups(p) \/ LookUp(p)
  \/ Write(p) \/ Finish(p)

Next ==
  \/ \E r \in Requests : Load(r) \/ Commit(r) \/ Abort(r) \/ Enqueue(r)
                         \/ EnqueueFails(r)
  \/ \E p \in Payloads : Recompute(p) \/ MonthFails(p) \/ TimeOut(p)
                         \/ Lose(p) \/ KeyExpires(p)

(* A request that has committed goes on to enqueue, and the workers work.   *)
Fairness ==
  /\ \A r \in Requests : WF_vars(Enqueue(r))
  /\ \A p \in Payloads : WF_vars(Recompute(p))

Spec == Init /\ [][Next]_vars /\ Fairness

-----------------------------------------------------------------------------
(* Properties.                                                              *)

(* A rollup that differs from its month's transactions is still to be       *)
(* recomputed: a request has the month to enqueue, or a task is on its way  *)
(* to it or at work on it.  The only exceptions are the months in gaps.     *)
Owed(m)   == \E r \in Requests : req[r].pc = "enqueue" /\ m \in req[r].months
Unread(m) == \E p \in Payloads : m \in job[p].todo
Covered(m) == m \in gaps \/ Owed(m) \/ Unread(m)
RollupsFollow ==
  \A m \in Months :
    Stale(m) => Covered(m) \/ \E p \in Payloads : Working(p, m)

(* A stale rollup becomes exact again, unless its month falls into a gap.   *)
RollupsCatchUp ==
  \A m \in Months : Stale(m) ~> (~Stale(m) \/ m \in gaps)

(* With nothing left to do the rollups are exact: with Ops = {"import"},     *)
(* what fetch.py:198 says of a sync, that the rollups are recomputed "so     *)
(* dashboard/money flow reflect newly synced transactions immediately".      *)
Quiet ==
  /\ \A r \in Requests : req[r].pc \in {"idle", "done"}
  /\ \A p \in Payloads : job[p].st = "none"
SyncedMonthsExact == faults = 0 /\ Quiet => \A m \in Months : ~Stale(m)

(* While nobody has reviewed anything, an undo changes nothing: emails.py:239 *)
(* calls it "Idempotent: calling undo on an email that hasn't been reviewed  *)
(* is a no-op".                                                              *)
UndoOfNothing ==
  [][Ops \cap {"keep", "discard"} = {} =>
       \A r \in Requests : Undo(r) => UNCHANGED ledger]_vars

-----------------------------------------------------------------------------
(* The inductive invariant behind RollupsFollow.                            *)

(* Only an email has a transaction: the others are out of reach.            *)
TxnHasMail == \A e \in Mails : txn[e] # NoTxn => mail[e] # "absent"

(* A running task works on a month of its payload; its others are of it.    *)
InPayload ==
  \A p \in Payloads :
    /\ job[p].todo \subseteq p
    /\ job[p].cur \in p \cup {NoDate}
    /\ job[p].pc = "pick" <=> job[p].cur = NoDate
    /\ job[p].st # "running" => job[p].pc = "pick"
    /\ job[p].st \in {"none", "lost"} => job[p].todo = {}

(* What a task has read so far is still so.                                 *)
Sound(p, m) ==
  /\ job[p].pc \in {"groups", "lookup", "write"} => job[p].new.totals = Totals(m)
  /\ job[p].pc \in {"lookup", "write"} => job[p].new.groups = Groups(m)
  /\ job[p].pc = "write" => job[p].row = rollup[m]

(* If it is not, somebody will recompute the month again.                   *)
ReadsSound ==
  \A p \in Payloads, m \in Months :
    Working(p, m) => Covered(m) \/ Sound(p, m)

(* Two tasks at work on one month have been noticed.                        *)
OverlapsNoted ==
  \A p, q \in Payloads, m \in Months :
    p # q /\ Working(p, m) /\ Working(q, m) => m \in gaps

LedgerInv ==
  TxnHasMail /\ InPayload /\ ReadsSound /\ OverlapsNoted /\ RollupsFollow
=============================================================================
