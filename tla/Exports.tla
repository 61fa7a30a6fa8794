------------------------------ MODULE Exports ------------------------------
(***************************************************************************)
(* CSV exports (app/api/exports.py, app/services/export_service.py): a row *)
(* per job, a file per job that is written page by page, in the order of   *)
(* the transactions' ids, by a background task of the process, while other *)
(* requests add and delete transactions.  Rows and files survive a restart *)
(* of the process; the tasks do not, and nothing takes them up again.      *)
(* cleanup_expired() has no caller.                                        *)
(***************************************************************************)
EXTENDS Integers, Sequences, FiniteSets, SequencesExt

CONSTANTS
  Jobs, Owners,
  TxIds,        \* ids of transactions; ids are random, so any may come next
  TxOwner,      \* the user of each
  BatchSize,    \* EXPORT_BATCH_SIZE
  NoOwner,
  MaxRestarts   \* bound: restarts of the process

ASSUME ExportAssumption ==
  /\ TxIds \subseteq Nat \ {0} /\ IsFiniteSet(TxIds)
  /\ TxOwner \in [TxIds -> Owners] /\ NoOwner \notin Owners
  /\ BatchSize \in Nat \ {0} /\ MaxRestarts \in Nat

VARIABLES
  txs,        \* the transactions there are
  row,        \* export_jobs: status, user and whether file_path is set
  file,       \* the files: the ids written, or NoFile
  proc,       \* the background tasks: where they are, last_id
  restarts,
  always,     \* history: transactions there ever since the first page was read
  ever,       \* history: transactions there at some time since
  cut         \* history: jobs whose task a restart, or a failing database, ended

exVars == <<txs, row, file, proc, restarts, always, ever, cut>>

NoFile == <<0>>
NoRow  == [status |-> "absent", user |-> NoOwner, path |-> FALSE]
NoProc == [pc |-> "none", last |-> 0]

ExTypeOK ==
  /\ txs \subseteq TxIds
  /\ row \in [Jobs -> [status : {"absent", "queued", "processing", "completed", "failed"},
                       user : Owners \cup {NoOwner}, path : BOOLEAN]]
  /\ file \in [Jobs -> Seq(TxIds \cup {0})]
  /\ proc \in [Jobs -> [pc : {"none", "start", "pages", "end", "except"}, last : TxIds \cup {0}]]
  /\ restarts \in 0..MaxRestarts
  /\ always \in [Jobs -> SUBSET TxIds] /\ ever \in [Jobs -> SUBSET TxIds] /\ cut \subseteq Jobs

ExInit ==
  /\ txs \in SUBSET TxIds
  /\ row = [j \in Jobs |-> NoRow]
  /\ file = [j \in Jobs |-> NoFile]
  /\ proc = [j \in Jobs |-> NoProc]
  /\ restarts = 0
  /\ always = [j \in Jobs |-> {}] /\ ever = [j \in Jobs |-> {}] /\ cut = {}

-----------------------------------------------------------------------------
AddTx(t) ==
  /\ t \notin txs
  /\ txs' = txs \cup {t}
  /\ ever' = [j \in Jobs |-> IF proc[j].pc = "pages" THEN ever[j] \cup {t} ELSE ever[j]]
  /\ UNCHANGED <<row, file, proc, restarts, always, cut>>

DeleteTx(t) ==
  /\ t \in txs
  /\ txs' = txs \ {t}
  /\ always' = [j \in Jobs |-> IF proc[j].pc = "pages" THEN always[j] \ {t} ELSE always[j]]
  /\ UNCHANGED <<row, file, proc, restarts, ever, cut>>

(* create_export(): commits the job and starts its task.                    *)
Create(j, u) ==
  /\ row[j].status = "absent"
  /\ row' = [row EXCEPT ![j] = [status |-> "queued", user |-> u, path |-> FALSE]]
  /\ proc' = [proc EXCEPT ![j].pc = "start"]
  /\ UNCHANGED <<txs, file, restarts, always, ever, cut>>

(* process_export_job(): "processing" is committed, the file is opened.     *)
BeginExport(j) ==
  /\ proc[j].pc = "start"
  /\ row' = [row EXCEPT ![j].status = "processing"]
  /\ file' = [file EXCEPT ![j] = <<>>]
  /\ proc' = [proc EXCEPT ![j].pc = "pages"]
  /\ always' = [always EXCEPT ![j] = txs]
  /\ ever' = [ever EXCEPT ![j] = txs]
  /\ UNCHANGED <<txs, restarts, cut>>

Mine(j) == {t \in txs : TxOwner[t] = row[j].user}
From(j)  == {t \in Mine(j) : t >= proc[j].last}          \* mutant of After
After(j) == {t \in Mine(j) : t > proc[j].last}

(* ORDER BY id LIMIT BatchSize                                              *)
Rows(j) == {s \in BoundedSeq(After(j), BatchSize) :
  /\ \A i, k \in 1..Len(s) : i < k => s[i] < s[k]
  /\ \A t \in After(j) \ ToSet(s) : Len(s) = BatchSize /\ \A i \in 1..Len(s) : s[i] < t}

Page(j) ==
  /\ proc[j].pc = "pages"
  /\ \E rows \in Rows(j) :
       IF rows = <<>>
       THEN proc' = [proc EXCEPT ![j].pc = "end"] /\ UNCHANGED file
       ELSE /\ file' = [file EXCEPT ![j] = @ \o rows]
            /\ proc' = [proc EXCEPT ![j].last = Last(rows)]
  /\ UNCHANGED <<txs, row, restarts, always, ever, cut>>

Complete(j) ==
  /\ proc[j].pc = "end"
  /\ row' = [row EXCEPT ![j].status = "completed", ![j].path = TRUE]
  /\ proc' = [proc EXCEPT ![j] = NoProc]
  /\ UNCHANGED <<txs, file, restarts, always, ever, cut>>

(* Anything raises: the failure is recorded, or that fails as well.         *)
Raise(j) ==
  /\ proc[j].pc \in {"start", "pages", "end"}
  /\ proc' = [proc EXCEPT ![j].pc = "except"]
  /\ UNCHANGED <<txs, row, file, restarts, always, ever, cut>>

Gone(j) == UNCHANGED <<row, cut>>                 \* mutant of Recorded
Recorded(j) ==
  \/ row' = [row EXCEPT ![j].status = "failed"] /\ UNCHANGED cut
  \/ cut' = cut \cup {j} /\ UNCHANGED row
Except(j) ==
  /\ proc[j].pc = "except"
  /\ proc' = [proc EXCEPT ![j] = NoProc]
  /\ Recorded(j)
  /\ UNCHANGED <<txs, file, restarts, always, ever>>

Process(j) == BeginExport(j) \/ Page(j) \/ Complete(j) \/ Raise(j) \/ Except(j)

(* cancel_export(): delete_job() removes the file and deletes the row, but  *)
(* nobody commits the deletion.                                             *)
CancelExport(j, u) ==
  /\ row[j].user = u
  /\ row[j].path /\ file[j] # NoFile
  /\ file' = [file EXCEPT ![j] = NoFile]
  /\ UNCHANGED <<txs, row, proc, restarts, always, ever, cut>>

Restart ==
  /\ restarts < MaxRestarts
  /\ restarts' = restarts + 1
  /\ proc' = [j \in Jobs |-> NoProc]
  /\ cut' = cut \cup {j \in Jobs : proc[j].pc # "none"}
  /\ UNCHANGED <<txs, row, file, always, ever>>

ExNext ==
  \/ \E t \in TxIds : AddTx(t) \/ DeleteTx(t)
  \/ \E j \in Jobs, u \in Owners : Create(j, u) \/ CancelExport(j, u)
  \/ \E j \in Jobs : Process(j)
  \/ Restart

ExFair == \A j \in Jobs : WF_exVars(Process(j))
ExSpec == ExInit /\ [][ExNext]_exVars /\ ExFair

-----------------------------------------------------------------------------
(* download_export() hands a file out when the row says completed and the   *)
(* file is there.                                                           *)
Download(j) == row[j].status = "completed" /\ row[j].path /\ file[j] # NoFile

(* What is handed out has every transaction of the user that was there all  *)
(* the while the file was written, none of anybody else, none that was not  *)
(* there at all, and none twice, however the pages and changes interleave.  *)
ExportFaithful == \A j \in Jobs : Download(j) =>
  LET mine(S) == {t \in S : TxOwner[t] = row[j].user}
  IN /\ mine(always[j]) \subseteq ToSet(file[j])
     /\ ToSet(file[j]) \subseteq mine(ever[j])
     /\ IsInjective(file[j])

(* Every export comes to an end, even while transactions keep coming and    *)
(* going, unless a restart or a database that fails twice ends its task.    *)
ExportEnds == \A j \in Jobs :
  (row[j].status = "queued") ~> (row[j].status \in {"completed", "failed"} \/ j \in cut)
=============================================================================
