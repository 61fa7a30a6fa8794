------------------------------ MODULE MailSync ------------------------------
(***************************************************************************)
(* The import of mail: app/sync (sync_emails, run_sync_range and their     *)
(* helpers), app/gmail/client.py and the task handlers that run them.      *)
(* Every job reads the database, talks to Gmail and the classifier for     *)
(* minutes, and writes in one database transaction that commits at its     *)
(* end; a sync and any number of fetch-range jobs of the user overlap.     *)
(*                                                                         *)
(* One user, one mailbox.  An await of Gmail, the LLM or the database is a *)
(* step.  The database is PostgreSQL at READ COMMITTED: a job sees what is *)
(* committed, an INSERT of a gmail_id another transaction has inserted     *)
(* waits for that transaction, and a cycle of waits costs one job its      *)
(* transaction.                                                            *)
(***************************************************************************)
EXTENDS Integers, FiniteSets

CONSTANTS
  Msgs,           \* the messages that may arrive
  Deletable,      \* bound: the messages the user may delete
  Aging,          \* bound: the messages that may get older than ten days
  Jobs,           \* workers' sync and fetch-range jobs
  Kind,           \* the kind of each job: "sync" or "range"
  Overlap,        \* TRUE if two syncs of the user may run at once
  Choices,        \* values of email_filter the user may choose
  HistoryPage,    \* messages in one page of history.list
  Settings,       \* the PATCH /sync/settings handler
  NoRow           \* no sync_state row

Filters == {"all", "unread"}
RowIds == Jobs \cup {Settings}      \* a sync_state row is named for its creator

ASSUME JobsAssumption ==
  /\ Kind \in [Jobs -> {"sync", "range"}]
  /\ Settings \notin Jobs
  /\ NoRow \notin RowIds
  /\ Choices \subseteq Filters
  /\ Deletable \subseteq Msgs /\ Aging \subseteq Msgs

ASSUME ParametersAssumption ==
  /\ HistoryPage \in Nat \ {0}
  /\ Overlap \in BOOLEAN

VARIABLES
  at,         \* Gmail: the history id at which a message arrived, 0 before
  hid,        \* Gmail: the mailbox's current history id
  gone,       \* Gmail: messages the user deleted
  aged,       \* Gmail: messages older than ten days (and younger than 90)
  horizon,    \* Gmail: history ids below it have expired
  stored,     \* emails: the gmail_ids with a committed row
  passed,     \* emails: those with pre_filter_status "passed"
  txn,        \* transactions: the emails that have one
  rows,       \* sync_state: the rows of the user
  mark,       \* sync_state: last_history_id of each row, 0 for NULL
  filter,     \* sync_state: email_filter of each row
  job,        \* the local state of each job
  setter,     \* the local state of the settings handler
  skipped,    \* history: messages passed over; see MarkIsSafe
  tooOld      \* history: messages a full listing left out for their age

gmail   == <<at, hid, gone, aged, horizon>>
emails  == <<stored, passed, txn>>
states  == <<rows, mark, filter>>
missed  == <<skipped, tooOld>>
vars    == <<gmail, emails, states, job, setter, missed>>

PCs == {"idle", "known", "history", "list", "profile", "fetch", "filter",
        "insert", "commit"}

Job == [pc    : PCs,
        row   : RowIds \cup {NoRow},    \* sync_state
        from  : Nat,                    \* last_history_id
        filt  : Filters,                \* email_filter
        known : SUBSET Msgs,            \* existing_gmail_ids
        ids   : SUBSET Msgs,            \* message_ids
        asc   : BOOLEAN,                \* message_ids is oldest first
        upto  : Nat,                    \* new_history_id
        todo  : SUBSET Msgs,            \* messages still to insert
        pend  : SUBSET Msgs,            \* emails inserted, not committed
        pass  : SUBSET Msgs]            \* new_pairs

IdleJob == [pc |-> "idle", row |-> NoRow, from |-> 0, filt |-> "all",
            known |-> {}, ids |-> {}, asc |-> FALSE, upto |-> 0,
            todo |-> {}, pend |-> {}, pass |-> {}]

Setter == [busy : BOOLEAN, row : RowIds \cup {NoRow}, filt : Filters]
IdleSetter == [busy |-> FALSE, row |-> NoRow, filt |-> "all"]

TypeOK ==
  /\ at \in [Msgs -> Nat]
  /\ {hid, horizon} \subseteq Nat
  /\ {gone, aged, stored, passed, txn, skipped, tooOld} \subseteq SUBSET Msgs
  /\ rows \subseteq RowIds
  /\ mark \in [RowIds -> Nat]
  /\ filter \in [RowIds -> Filters]
  /\ job \in [Jobs -> Job]
  /\ setter \in Setter

Init ==
  /\ at = [m \in Msgs |-> 0] /\ hid = 1
  /\ gone = {} /\ aged = {} /\ horizon = 1
  /\ stored = {} /\ passed = {} /\ txn = {}
  /\ rows = {}
  /\ mark = [r \in RowIds |-> 0]
  /\ filter = [r \in RowIds |-> "all"]
  /\ job = [j \in Jobs |-> IdleJob]
  /\ setter = IdleSetter
  /\ skipped = {} /\ tooOld = {}

-----------------------------------------------------------------------------
(* Gmail.                                                                   *)

Arrived == {m \in Msgs : at[m] > 0}
Present == Arrived \ gone

Deliver(m) ==
  /\ at[m] = 0
  /\ hid' = hid + 1
  /\ at' = [at EXCEPT ![m] = hid + 1]
  /\ UNCHANGED <<gone, aged, horizon, emails, states, job, setter, missed>>

Delete(m) ==
  /\ m \in Present \cap Deletable
  /\ gone' = gone \cup {m}
  /\ UNCHANGED <<at, hid, aged, horizon, emails, states, job, setter, missed>>

(* More than ten days go by: Gmail may have dropped its old history.        *)
DaysPass ==
  /\ aged' = Arrived \cap Aging
  /\ horizon' \in {horizon, hid}
  /\ UNCHANGED <<at, hid, gone, emails, states, job, setter, missed>>

-----------------------------------------------------------------------------
(* A job, await by await.                                                   *)

Active(j) == job[j].pc # "idle"

(* select(SyncState)...scalar_one_or_none() raises when there are two rows, *)
(* and the job fails at once.                                               *)
SyncState == IF rows = {} THEN NoRow ELSE CHOOSE r \in rows : TRUE

BeginSync(j) ==
  /\ Kind[j] = "sync"
  /\ ~Active(j)
  /\ Overlap \/ \A k \in Jobs : Kind[k] = "sync" => ~Active(k)
  /\ Cardinality(rows) <= 1
  /\ job' = [job EXCEPT ![j] =
       IF rows = {} THEN [IdleJob EXCEPT !.pc = "known"]
       ELSE [IdleJob EXCEPT !.pc = "known", !.row = SyncState,
                            !.from = mark[SyncState], !.filt = filter[SyncState]]]
  /\ UNCHANGED <<gmail, emails, states, setter, missed>>

BeginRange(j) ==
  /\ Kind[j] = "range"
  /\ ~Active(j)
  /\ job' = [job EXCEPT ![j] = [IdleJob EXCEPT !.pc = "list", !.known = stored]]
  /\ UNCHANGED <<gmail, emails, states, setter, missed>>

ReadKnown(j) ==
  /\ job[j].pc = "known"
  /\ job' = [job EXCEPT ![j].known = stored,
                        ![j].pc = IF job[j].from = 0 THEN "list" ELSE "history"]
  /\ UNCHANGED <<gmail, emails, states, setter, missed>>

(* history.list, one page, oldest first, and the mailbox's current id.  The *)
(* id of a mark that has expired is answered 404: fetch everything instead. *)
Added(j) == {m \in Msgs : at[m] > job[j].from}
FirstPage(S) == {m \in S : Cardinality({n \in S : at[n] <= at[m]}) <= HistoryPage}

FetchNothing(j) == job' = [job EXCEPT ![j].pc = "fetch", ![j].upto = job[j].from,
                                      ![j].from = 0]     \* mutant of FallBack
FallBack(j) == job' = [job EXCEPT ![j].pc = "list", ![j].from = 0]

ListHistory(j) ==
  /\ job[j].pc = "history"
  /\ IF job[j].from < horizon
     THEN FallBack(j) /\ UNCHANGED missed
     ELSE /\ job' = [job EXCEPT ![j].pc = "fetch", ![j].upto = hid,
                                ![j].ids = FirstPage(Added(j)), ![j].asc = TRUE,
                                ![j].from = 0]
          /\ skipped' = skipped \cup (Added(j) \ FirstPage(Added(j)))
          /\ UNCHANGED tooOld
  /\ UNCHANGED <<gmail, emails, states, setter>>

(* The unread among the messages S; the user may have read any of them.     *)
PassFilter(S, f) == IF f = "unread" THEN SUBSET S ELSE {S}

(* messages.list "in:inbox newer_than:10d", newest first.                   *)
InWindow(m) == m \notin aged

ListInbox(j) ==
  /\ job[j].pc = "list" /\ Kind[j] = "sync"
  /\ LET inbox == {m \in Present : InWindow(m)}
     IN \E S \in PassFilter(inbox, job[j].filt) :
          /\ job' = [job EXCEPT ![j].pc = "profile", ![j].upto = hid,
                                ![j].ids = S, ![j].asc = FALSE]
          /\ skipped' = skipped \cup (inbox \ S)
          /\ tooOld' = tooOld \cup (Present \ inbox)
  /\ UNCHANGED <<gmail, emails, states, setter>>

(* getProfile: the history id of now, not of the time of the listing.       *)
GetProfile(j) ==
  /\ job[j].pc = "profile"
  /\ job' = [job EXCEPT ![j].pc = "fetch", ![j].upto = hid]
  /\ skipped' = skipped \cup {m \in Msgs : at[m] > job[j].upto}
  /\ UNCHANGED <<gmail, emails, states, setter, tooOld>>

(* A date range, perhaps with a sender and a subject.                       *)
ListRange(j) ==
  /\ job[j].pc = "list" /\ Kind[j] = "range"
  /\ \E S \in SUBSET Present :
       job' = [job EXCEPT ![j].pc = "fetch", ![j].ids = S, ![j].asc = FALSE]
  /\ UNCHANGED <<gmail, emails, states, setter, missed>>

(* Metadata, then bodies, of what is not known.  A deleted message is       *)
(* answered 404.  When only some requests of a batch fail with another      *)
(* error, the others are kept; when all do, the job fails (see Fail).       *)
Errors(want) ==
  {{}} \cup {B \in SUBSET want : B # want}

Fetch(j) ==
  /\ job[j].pc = "fetch"
  /\ LET want == (job[j].ids \ job[j].known) \ gone
     IN \E bad \in Errors(want) : \E S \in PassFilter(want \ bad, job[j].filt) :
          /\ job' = [job EXCEPT ![j].pc = "filter", ![j].todo = S,
                                ![j].ids = {}, ![j].known = {}, ![j].filt = "all"]
          /\ skipped' = IF Kind[j] = "sync" THEN skipped \cup (want \ S)
                        ELSE skipped
  /\ UNCHANGED <<gmail, emails, states, setter, tooOld>>

AfterInserts(todo) == IF todo = {} THEN "commit" ELSE "insert"

(* _apply_pre_filter() looks again for what is stored by now,               *)
Recheck(j) == job[j].todo \ stored

PreFilter(j) ==
  /\ job[j].pc = "filter"
  /\ job' = [job EXCEPT ![j].todo = Recheck(j),
                        ![j].pc = AfterInserts(Recheck(j))]
  /\ UNCHANGED <<gmail, emails, states, setter, missed>>

(* then inserts the rest in the order in which it was listed.               *)
IsNext(j, m) == m \in job[j].todo /\ \A n \in job[j].todo :
                  IF job[j].asc THEN at[m] <= at[n] ELSE at[n] <= at[m]

WaitsFor(j, k) == /\ j # k
                  /\ job[j].pc = "insert"
                  /\ \E m \in job[k].pend : IsNext(j, m)

Insert(j) ==
  /\ job[j].pc = "insert"
  /\ \A k \in Jobs : ~WaitsFor(j, k)
  /\ \E m \in job[j].todo, pre_filter_passes \in BOOLEAN :
       /\ IsNext(j, m)
       /\ m \notin stored
       /\ job' = [job EXCEPT
            ![j].todo = @ \ {m}, ![j].pend = @ \cup {m},
            ![j].pass = IF pre_filter_passes THEN @ \cup {m} ELSE @,
            ![j].pc = AfterInserts(job[j].todo \ {m})]
  /\ UNCHANGED <<gmail, emails, states, setter, missed>>

(* The new pairs are classified (a result for every pair, LLM or no LLM),   *)
(* their transactions written and compared for duplicates, all in the open  *)
(* database transaction; then the emails, their transactions and the mark   *)
(* are committed.  A sync that found no sync_state creates one, but not     *)
(* when nothing passed the filter.                                          *)
NamelessRow(j) == IF Kind[j] = "sync" /\ job[j].row = NoRow /\ job[j].pass # {}
                  THEN {job[j].row} ELSE {}        \* mutant of NewRow
NewRow(j) == IF Kind[j] = "sync" /\ job[j].row = NoRow /\ job[j].pass # {}
             THEN {j} ELSE {}
Marked(j) == NewRow(j) \cup (IF Kind[j] = "sync" THEN {job[j].row} \ {NoRow}
                             ELSE {})

TxnPerEmail(j) == job[j].pend                      \* mutant of NewTxns
NewTxns(j) == job[j].pass

Commit(j) ==
  /\ job[j].pc = "commit"
  /\ stored' = stored \cup job[j].pend
  /\ passed' = passed \cup job[j].pass
  /\ txn' = txn \cup NewTxns(j)
  /\ rows' = rows \cup NewRow(j)
  /\ mark' = [r \in RowIds |-> IF r \in Marked(j) THEN job[j].upto ELSE mark[r]]
  /\ filter' = [r \in RowIds |-> IF r \in NewRow(j) THEN "all" ELSE filter[r]]
  /\ job' = [job EXCEPT ![j] = IdleJob]
  /\ UNCHANGED <<gmail, setter, missed>>

(* Mutants of Rollback: the mark is saved on the way out; the session stays *)
(* open.                                                                    *)
RollbackSavesMark(j) ==
  /\ job' = [job EXCEPT ![j] = IdleJob]
  /\ mark' = [r \in RowIds |-> IF r = job[j].row THEN job[j].upto ELSE mark[r]]
  /\ UNCHANGED <<gmail, emails, rows, filter, setter, missed>>
LeaveOpen(j) ==
  /\ job' = [job EXCEPT ![j] = [IdleJob EXCEPT !.pend = job[j].pend]]
  /\ UNCHANGED <<gmail, emails, states, setter, missed>>

(* An exception leaves the session block, which rolls back.                 *)
Rollback(j) ==
  /\ job' = [job EXCEPT ![j] = IdleJob]
  /\ UNCHANGED <<gmail, emails, states, setter, missed>>

(* The unique index on gmail_id: another job has stored the message since.  *)
Conflict(j) ==
  /\ job[j].pc = "insert"
  /\ \E m \in stored : IsNext(j, m)
  /\ Rollback(j)

(* PostgreSQL ends one transaction of a cycle of waits.                     *)
DeadlockVictim(j) ==
  /\ \E C \in SUBSET Jobs :
       /\ j \in C
       /\ \A c \in C : (\E d \in C : WaitsFor(c, d)) /\ (\E d \in C : WaitsFor(d, c))
  /\ Rollback(j)

(* Gmail, the database or the classifier fails, a timeout cancels the job,  *)
(* or the process dies.                                                     *)
Fail(j) ==
  /\ Active(j)
  /\ Rollback(j)

JobStep(j) ==
  \/ BeginSync(j) \/ ReadKnown(j) \/ ListHistory(j) \/ ListInbox(j)
  \/ GetProfile(j) \/ ListRange(j) \/ Fetch(j) \/ PreFilter(j) \/ Insert(j)
  \/ Commit(j) \/ Conflict(j)

-----------------------------------------------------------------------------
(* PATCH /sync/settings: read the row, then create or update it.            *)

ReadSettings ==
  /\ ~setter.busy
  /\ Cardinality(rows) <= 1
  /\ \E f \in Choices : setter' = [busy |-> TRUE, row |-> SyncState, filt |-> f]
  /\ UNCHANGED <<gmail, emails, states, job, missed>>

WriteSettings ==
  /\ setter.busy
  /\ LET r == IF setter.row = NoRow THEN Settings ELSE setter.row
     IN rows' = rows \cup {r} /\ filter' = [filter EXCEPT ![r] = setter.filt]
  /\ setter' = IdleSetter
  /\ UNCHANGED <<gmail, emails, mark, job, missed>>

-----------------------------------------------------------------------------
Next ==
  \/ \E m \in Msgs : Deliver(m) \/ Delete(m)
  \/ DaysPass
  \/ \E j \in Jobs : JobStep(j) \/ BeginRange(j) \/ Fail(j) \/ DeadlockVictim(j)
  \/ ReadSettings \/ WriteSettings

Spec == Init /\ [][Next]_vars

-----------------------------------------------------------------------------
(* Safety.                                                                  *)

(* A message that needs no import any more: it is stored or deleted, or it  *)
(* was passed over in a way the code accepts: it does not match             *)
(* email_filter, its request failed in a batch whose others did not, it lay *)
(* beyond the first page of the history, or it arrived between a full       *)
(* listing and getProfile; or it was too old for a full listing.            *)
Settled(m) == m \in stored \cup gone \cup skipped \cup tooOld
Behind(m, r) == r \in rows /\ 0 < at[m] /\ at[m] <= mark[r]

(* Incremental sync loses no mail in any other way: last_history_id never   *)
(* gets ahead of a message that still needs its import, whatever fails,     *)
(* conflicts, deadlocks or runs at the same time.                           *)
MarkIsSafe == \A m \in Msgs : \A r \in RowIds : Behind(m, r) => Settled(m)

(* A sync or a fetch-range is all or nothing: an email that passed the      *)
(* pre-filter has its transaction, one held for review or discarded none.   *)
AllOrNothing == passed \subseteq stored /\ txn = passed

(* "last_history_id=None triggers full 90-day fetch" (fetch_new_messages)   *)
(* and "90-day fallback when history ID expires" (README.md): no message of *)
(* the last 90 days is left behind the mark for its age.                    *)
NinetyDays == \A m \in Msgs : \A r \in RowIds :
                Behind(m, r) => m \in stored \cup gone \cup skipped

(* The user has one sync_state row, as every scalar_one_or_none() on it     *)
(* asserts.                                                                 *)
OneSyncState == Cardinality(rows) <= 1

-----------------------------------------------------------------------------
(* Fairness: the workers run; PostgreSQL resolves deadlocks, and wakes an   *)
(* INSERT that waits as soon as the other transaction ends (SF); syncs are  *)
(* started again and again, by the scheduler and by retries.  A fetch-range *)
(* is started by a user and retried a few times: there are finitely many.   *)
(* Jobs do not fail for ever, except by conflicts and deadlocks.  (To       *)
(* commit nothing looks like a failure.)                                    *)
Fairness ==
  /\ \A j \in Jobs : WF_vars(JobStep(j)) /\ SF_vars(Insert(j) \/ Conflict(j))
  /\ WF_vars(\E j \in Jobs : DeadlockVictim(j))
  /\ <>[][\A j \in Jobs :
          /\ ~BeginRange(j)
          /\ Fail(j) => Conflict(j) \/ DeadlockVictim(j) \/ Commit(j)]_vars

FairSpec == Spec /\ Fairness

(* Every message is settled some day: failures, and the conflicts and       *)
(* deadlocks with fetch-ranges, only delay it.  (A second sync_state row    *)
(* stops every sync for good: see OneSyncState.)                            *)
EveryMailSettled ==
  \A m \in Msgs : at[m] > 0 ~> Settled(m) \/ Cardinality(rows) > 1

(* No job waits for another's inserts for ever.                             *)
EveryJobEnds == \A j \in Jobs : Active(j) ~> ~Active(j)

(* Together: the import makes progress, message by message and job by job.  *)
ImportProgresses == EveryMailSettled /\ EveryJobEnds
=============================================================================
