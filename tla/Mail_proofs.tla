----------------------------- MODULE Mail_proofs -----------------------------
(***************************************************************************)
(* Proofs about mail and its classification: MailSync for any mailbox, any *)
(* number of syncs and fetch-ranges, any page size, and with or without    *)
(* overlapping syncs; the limiter in front of Groq for any limits,         *)
(* estimates and clock, and the budget of the day for any number of        *)
(* overlapping runs, mails, clients and answers.                           *)
(***************************************************************************)
EXTENDS MailSync, MCClassify, FiniteSetTheorems, TLAPS

(* Every message up to history id n is settled.                             *)
Covered(n) == \A m \in Msgs : 0 < at[m] /\ at[m] <= n => Settled(m)

(* What job j has listed and not yet committed.                             *)
OnItsWay(j) == IF job[j].pc \in {"profile", "fetch"} THEN job[j].ids
               ELSE job[j].todo \cup job[j].pend

Listed == {"profile", "fetch", "filter", "insert", "commit"}

(* A sync that has listed its mail carries every message up to the id it    *)
(* will write as the mark, unless the message is settled.                   *)
CarriesAll(j) ==
  Kind[j] = "sync" /\ job[j].pc \in Listed =>
    \A m \in Msgs : 0 < at[m] /\ at[m] <= job[j].upto
                      => Settled(m) \/ m \in OnItsWay(j)

(* It started from a mark that was safe and knows only what is stored.      *)
StartsSafe(j) == Covered(job[j].from) /\ job[j].known \subseteq stored

(* When it commits, it has inserted everything, and classified only what it *)
(* inserted.                                                                *)
InsertsAll(j) == /\ job[j].pc = "commit" => job[j].todo = {}
                 /\ job[j].pass \subseteq job[j].pend

(* No history id is ahead of the mailbox's.                                 *)
IdsKnown == /\ \A m \in Msgs : at[m] <= hid
            /\ \A r \in RowIds : mark[r] <= hid
            /\ \A j \in Jobs : job[j].from <= hid /\ job[j].upto <= hid

MarksSafe == \A r \in RowIds : Covered(mark[r])
JobsSafe == \A j \in Jobs : StartsSafe(j) /\ CarriesAll(j) /\ InsertsAll(j)

MarkInv == IdsKnown /\ MarksSafe /\ JobsSafe

-----------------------------------------------------------------------------
(* Types.                                                                   *)

LEMMA SetJob ==
  ASSUME NEW S, NEW f \in [Jobs -> S], NEW j \in Jobs, NEW r \in S
  PROVE  /\ [f EXCEPT ![j] = r] \in [Jobs -> S]
         /\ [f EXCEPT ![j] = r][j] = r
         /\ \A k \in Jobs : k # j => [f EXCEPT ![j] = r][k] = f[k]
OBVIOUS

LEMMA IdleJobType == IdleJob \in Job
BY DEF IdleJob, Job, PCs, Filters

LEMMA SyncStateIsARow ==
  ASSUME TypeOK
  PROVE  /\ rows # {} => SyncState \in rows /\ SyncState \in RowIds
         /\ SyncState \in RowIds \cup {NoRow}
BY DEF TypeOK, SyncState

LEMMA PassFilterShrinks ==
  ASSUME NEW S, NEW f, NEW T \in PassFilter(S, f)
  PROVE  T \subseteq S
BY DEF PassFilter

LEMMA JobStepType ==
  ASSUME TypeOK, NEW j \in Jobs,
         JobStep(j) \/ BeginRange(j) \/ Fail(j) \/ DeadlockVictim(j)
  PROVE  TypeOK'
<1> USE DEF gmail, emails, states, missed
<1>0. /\ job[j] \in Job /\ stored \in SUBSET Msgs /\ hid \in Nat
      /\ {"list", "history", "profile", "fetch", "filter", "insert", "commit"} \subseteq PCs
  BY DEF TypeOK, PCs
<1>1. CASE BeginSync(j)
  <2>1. CASE rows = {}
    <3>1. [IdleJob EXCEPT !.pc = "known"] \in Job
      BY DEF IdleJob, Job, PCs, Filters
    <3> QED BY <1>1, <2>1, <3>1, SetJob DEF BeginSync, TypeOK
  <2>2. CASE rows # {}
    <3>1. SyncState \in RowIds
      BY <2>2, SyncStateIsARow
    <3>2. [IdleJob EXCEPT !.pc = "known", !.row = SyncState,
             !.from = mark[SyncState], !.filt = filter[SyncState]] \in Job
      BY <3>1 DEF IdleJob, Job, PCs, Filters, TypeOK
    <3> QED BY <1>1, <2>2, <3>2, SetJob DEF BeginSync, TypeOK
  <2> QED BY <2>1, <2>2
<1>2. CASE BeginRange(j)
  <2>1. [IdleJob EXCEPT !.pc = "list", !.known = stored] \in Job
    BY DEF IdleJob, Job, PCs, Filters, TypeOK
  <2> QED BY <1>2, <2>1, SetJob DEF BeginRange, TypeOK
<1>3. CASE ReadKnown(j)
  <2> DEFINE r == [job[j] EXCEPT !.known = stored,
                     !.pc = IF job[j].from = 0 THEN "list" ELSE "history"]
  <2>1. r \in Job
    BY <1>0 DEF Job
  <2>2. job' = [job EXCEPT ![j] = r]
    BY <1>3 DEF ReadKnown
  <2> QED BY <1>3, <2>1, <2>2, SetJob DEF ReadKnown, TypeOK
<1>4. CASE ListHistory(j)
  <2>1. CASE job[j].from < horizon
    <3> DEFINE r == [job[j] EXCEPT !.pc = "list", !.from = 0]
    <3>1. r \in Job
      BY <1>0 DEF Job
    <3>2. job' = [job EXCEPT ![j] = r]
      BY <1>4, <2>1 DEF ListHistory, FallBack
    <3> QED BY <1>4, <2>1, <3>1, <3>2, SetJob DEF ListHistory, TypeOK
  <2>2. CASE ~(job[j].from < horizon)
    <3> DEFINE r == [job[j] EXCEPT !.pc = "fetch", !.upto = hid,
                       !.ids = FirstPage(Added(j)), !.asc = TRUE, !.from = 0]
    <3>1. Added(j) \subseteq Msgs /\ FirstPage(Added(j)) \subseteq Msgs
      BY DEF Added, FirstPage
    <3>2. r \in Job
      BY <1>0, <3>1 DEF Job
    <3>3. job' = [job EXCEPT ![j] = r]
      BY <1>4, <2>2 DEF ListHistory
    <3> QED BY <1>4, <2>2, <3>1, <3>2, <3>3, SetJob DEF ListHistory, TypeOK
  <2> QED BY <2>1, <2>2
<1>5. CASE ListInbox(j)
  <2> DEFINE inbox == {m \in Present : InWindow(m)}
  <2>1. PICK S \in PassFilter(inbox, job[j].filt) :
          /\ job' = [job EXCEPT ![j].pc = "profile", ![j].upto = hid,
                                ![j].ids = S, ![j].asc = FALSE]
          /\ skipped' = skipped \cup (inbox \ S)
          /\ tooOld' = tooOld \cup (Present \ inbox)
    BY <1>5 DEF ListInbox
  <2> DEFINE r == [job[j] EXCEPT !.pc = "profile", !.upto = hid, !.ids = S, !.asc = FALSE]
  <2>2. Present \subseteq Msgs /\ S \subseteq Msgs
    BY PassFilterShrinks DEF Present, Arrived
  <2>3. r \in Job
    BY <1>0, <2>2 DEF Job
  <2>4. job' = [job EXCEPT ![j] = r]
    BY <2>1
  <2>5. job' \in [Jobs -> Job]
    BY <2>3, <2>4, SetJob DEF TypeOK
  <2> QED BY <1>5, <2>1, <2>2, <2>5 DEF ListInbox, TypeOK
<1>6. CASE GetProfile(j)
  <2> DEFINE r == [job[j] EXCEPT !.pc = "fetch", !.upto = hid]
  <2>1. r \in Job
    BY <1>0 DEF Job
  <2>2. job' = [job EXCEPT ![j] = r]
    BY <1>6 DEF GetProfile
  <2> QED BY <1>6, <2>1, <2>2, SetJob DEF GetProfile, TypeOK
<1>7. CASE ListRange(j)
  <2>1. PICK S \in SUBSET Present :
          job' = [job EXCEPT ![j].pc = "fetch", ![j].ids = S, ![j].asc = FALSE]
    BY <1>7 DEF ListRange
  <2> DEFINE r == [job[j] EXCEPT !.pc = "fetch", !.ids = S, !.asc = FALSE]
  <2>2. S \in SUBSET Msgs
    BY DEF Present, Arrived
  <2>3. r \in Job
    BY <1>0, <2>2 DEF Job
  <2>4. job' = [job EXCEPT ![j] = r]
    BY <2>1
  <2> QED BY <1>7, <2>3, <2>4, SetJob DEF ListRange, TypeOK
<1>8. CASE Fetch(j)
  <2> DEFINE want == (job[j].ids \ job[j].known) \ gone
  <2>1. PICK bad \in Errors(want) : \E S \in PassFilter(want \ bad, job[j].filt) :
          /\ job' = [job EXCEPT ![j].pc = "filter", ![j].todo = S,
                                ![j].ids = {}, ![j].known = {}, ![j].filt = "all"]
          /\ skipped' = IF Kind[j] = "sync" THEN skipped \cup (want \ S)
                        ELSE skipped
    BY <1>8 DEF Fetch
  <2>2. PICK S \in PassFilter(want \ bad, job[j].filt) :
          /\ job' = [job EXCEPT ![j].pc = "filter", ![j].todo = S,
                                ![j].ids = {}, ![j].known = {}, ![j].filt = "all"]
          /\ skipped' = IF Kind[j] = "sync" THEN skipped \cup (want \ S)
                        ELSE skipped
    BY <2>1
  <2> DEFINE r == [job[j] EXCEPT !.pc = "filter", !.todo = S, !.ids = {},
                     !.known = {}, !.filt = "all"]
  <2>3. want \subseteq Msgs /\ S \subseteq Msgs
    BY <1>0, PassFilterShrinks DEF Job
  <2>4. r \in Job
    BY <1>0, <2>3 DEF Job, Filters
  <2>5. job' = [job EXCEPT ![j] = r]
    BY <2>2
  <2>6. job' \in [Jobs -> Job]
    BY <2>4, <2>5, SetJob DEF TypeOK
  <2> QED BY <1>8, <2>2, <2>3, <2>6 DEF Fetch, TypeOK
<1>9. CASE PreFilter(j)
  <2> DEFINE r == [job[j] EXCEPT !.todo = Recheck(j), !.pc = AfterInserts(Recheck(j))]
  <2>1. Recheck(j) \in SUBSET Msgs /\ AfterInserts(Recheck(j)) \in PCs
    BY <1>0 DEF Recheck, AfterInserts, Job
  <2>2. r \in Job
    BY <1>0, <2>1 DEF Job
  <2>3. job' = [job EXCEPT ![j] = r]
    BY <1>9 DEF PreFilter
  <2>4. job' \in [Jobs -> Job]
    BY <2>2, <2>3, SetJob DEF TypeOK
  <2>5. UNCHANGED <<gmail, emails, states, setter, missed>>
    BY <1>9 DEF PreFilter
  <2> QED BY <2>4, <2>5 DEF TypeOK
<1>10. CASE Insert(j)
  <2>1. PICK m \in job[j].todo, passes \in BOOLEAN :
          job' = [job EXCEPT
            ![j].todo = @ \ {m}, ![j].pend = @ \cup {m},
            ![j].pass = IF passes THEN @ \cup {m} ELSE @,
            ![j].pc = AfterInserts(job[j].todo \ {m})]
    BY <1>10 DEF Insert
  <2> DEFINE r == [job[j] EXCEPT !.todo = @ \ {m}, !.pend = @ \cup {m},
                     !.pass = IF passes THEN @ \cup {m} ELSE @,
                     !.pc = AfterInserts(job[j].todo \ {m})]
  <2>2. m \in Msgs /\ AfterInserts(job[j].todo \ {m}) \in PCs
    BY <1>0 DEF AfterInserts, Job
  <2>3. r \in Job
    BY <1>0, <2>2 DEF Job
  <2>4. job' = [job EXCEPT ![j] = r]
    BY <2>1
  <2>5. job' \in [Jobs -> Job]
    BY <2>3, <2>4, SetJob DEF TypeOK
  <2>6. UNCHANGED <<gmail, emails, states, setter, missed>>
    BY <1>10 DEF Insert
  <2> QED BY <2>5, <2>6 DEF TypeOK
<1>11. CASE Commit(j)
  BY <1>11, IdleJobType, SetJob
    DEF Commit, NewRow, NewTxns, Marked, RowIds, TypeOK, Job, Filters
<1>12. CASE Conflict(j) \/ Fail(j) \/ DeadlockVictim(j)
  BY <1>12, IdleJobType, SetJob DEF Conflict, Fail, DeadlockVictim, Rollback, TypeOK
<1> QED BY <1>1, <1>2, <1>3, <1>4, <1>5, <1>6, <1>7, <1>8, <1>9, <1>10, <1>11,
           <1>12 DEF JobStep

LEMMA NextType == TypeOK /\ [Next]_vars => TypeOK'
<1> SUFFICES ASSUME TypeOK, [Next]_vars PROVE TypeOK'
  OBVIOUS
<1> USE DEF gmail, emails, states, missed
<1>1. ASSUME NEW m \in Msgs, Deliver(m) PROVE TypeOK'
  BY <1>1 DEF Deliver, TypeOK
<1>2. ASSUME NEW m \in Msgs, Delete(m) PROVE TypeOK'
  BY <1>2 DEF Delete, TypeOK
<1>3. CASE DaysPass
  BY <1>3 DEF DaysPass, Arrived, TypeOK
<1>4. CASE ReadSettings
  BY <1>4, SyncStateIsARow, JobsAssumption DEF ReadSettings, TypeOK, Setter
<1>5. CASE WriteSettings
  BY <1>5 DEF WriteSettings, IdleSetter, Setter, Filters, RowIds, TypeOK
<1>6. CASE UNCHANGED vars
  BY <1>6 DEF vars, TypeOK
<1> QED BY <1>1, <1>2, <1>3, <1>4, <1>5, <1>6, JobStepType DEF Next

(* The database, the jobs and the bookkeeping keep their types.             *)
THEOREM MailTypeCorrect == Spec => []TypeOK
<1>1. Init => TypeOK
  BY IdleJobType DEF Init, TypeOK, IdleSetter, Setter, Filters
<1>2. TypeOK /\ [Next]_vars => TypeOK'
  BY NextType
<1> QED BY <1>1, <1>2, PTL DEF Spec

-----------------------------------------------------------------------------
(* The mark.                                                                *)

JobSafe(j) == StartsSafe(j) /\ CarriesAll(j) /\ InsertsAll(j)

(* What is settled stays settled.                                           *)
LEMMA SettledStays ==
  ASSUME stored \subseteq stored', gone \subseteq gone',
         skipped \subseteq skipped', tooOld \subseteq tooOld'
  PROVE  \A m \in Msgs : Settled(m) => Settled(m)'
BY DEF Settled

(* A step that changes one job and neither a history id nor a mark only has *)
(* to keep that job safe.                                                   *)
LEMMA OneJobMoves ==
  ASSUME TypeOK, MarkInv, NEW j \in Jobs,
         \A k \in Jobs : k # j => job'[k] = job[k],
         UNCHANGED <<at, hid, mark>>,
         stored \subseteq stored', gone \subseteq gone',
         skipped \subseteq skipped', tooOld \subseteq tooOld',
         job'[j].from <= hid, job'[j].upto <= hid,
         JobSafe(j)'
  PROVE  MarkInv'
<1>1. \A m \in Msgs : Settled(m) => Settled(m)'
  BY SettledStays
<1>2. \A n \in Nat : Covered(n) => Covered(n)'
  BY <1>1 DEF Covered
<1>3. IdsKnown'
  BY DEF MarkInv, IdsKnown
<1>4. MarksSafe'
  BY <1>2 DEF MarkInv, MarksSafe, TypeOK
<1>5. ASSUME NEW k \in Jobs, k # j PROVE JobSafe(k)'
  <2>1. job'[k] = job[k] /\ job[k] \in Job
    BY <1>5 DEF TypeOK
  <2>2. StartsSafe(k)'
    BY <1>2, <2>1 DEF MarkInv, JobsSafe, StartsSafe, Job
  <2>3. CarriesAll(k)'
    BY <1>1, <2>1 DEF MarkInv, JobsSafe, CarriesAll, OnItsWay
  <2>4. InsertsAll(k)'
    BY <2>1 DEF MarkInv, JobsSafe, InsertsAll
  <2> QED BY <2>2, <2>3, <2>4 DEF JobSafe
<1> QED BY <1>3, <1>4, <1>5 DEF MarkInv, JobsSafe, JobSafe

(* A job that has not listed its mail is safe if it starts from a safe mark *)
(* and knows only what is stored.                                           *)
LEMMA BeforeTheListing ==
  ASSUME TypeOK, MarkInv, NEW j \in Jobs, UNCHANGED at, UNCHANGED missed,
         stored \subseteq stored', gone = gone',
         job'[j].pc \notin Listed,
         Covered(job'[j].from), job'[j].known \subseteq stored,
         job'[j].pass \subseteq job'[j].pend
  PROVE  JobSafe(j)'
<1>1. \A m \in Msgs : Settled(m) => Settled(m)'
  BY SettledStays DEF missed
<1>2. StartsSafe(j)'
  BY <1>1 DEF StartsSafe, Covered
<1>3. CarriesAll(j)' /\ InsertsAll(j)'
  BY DEF CarriesAll, InsertsAll, Listed
<1> QED BY <1>2, <1>3 DEF JobSafe

LEMMA NoneIsCovered == ASSUME TypeOK PROVE Covered(0)
BY DEF Covered, TypeOK

LEMMA JobStepMark ==
  ASSUME TypeOK, TypeOK', MarkInv, NEW j \in Jobs,
         JobStep(j) \/ BeginRange(j) \/ Fail(j) \/ DeadlockVictim(j)
  PROVE  MarkInv'
<1> USE DEF gmail, emails, states, missed
<1>0. /\ job[j] \in Job /\ job \in [Jobs -> Job] /\ JobSafe(j)
      /\ job[j].from <= hid /\ job[j].upto <= hid
      /\ hid \in Nat /\ Covered(0)
  BY NoneIsCovered DEF TypeOK, MarkInv, JobsSafe, JobSafe, IdsKnown
<1>1. CASE BeginSync(j)
  <2>1. CASE rows = {}
    <3>1. /\ job'[j].pc = "known" /\ job'[j].from = 0 /\ job'[j].upto = 0
          /\ job'[j].known = {} /\ job'[j].pass = {}
          /\ \A k \in Jobs : k # j => job'[k] = job[k]
      BY <1>0, <1>1, <2>1 DEF BeginSync, IdleJob
    <3>2. JobSafe(j)'
      BY <1>0, <1>1, <3>1, BeforeTheListing DEF BeginSync, Listed
    <3> QED BY <1>0, <1>1, <3>1, <3>2, OneJobMoves DEF BeginSync
  <2>2. CASE rows # {}
    <3>1. /\ job'[j].pc = "known" /\ job'[j].from = mark[SyncState]
          /\ job'[j].upto = 0 /\ job'[j].known = {} /\ job'[j].pass = {}
          /\ \A k \in Jobs : k # j => job'[k] = job[k]
      BY <1>0, <1>1, <2>2 DEF BeginSync, IdleJob
    <3>2. mark[SyncState] <= hid /\ Covered(mark[SyncState])
      BY <2>2, SyncStateIsARow DEF MarkInv, IdsKnown, MarksSafe
    <3>3. JobSafe(j)'
      BY <1>0, <1>1, <3>1, <3>2, BeforeTheListing DEF BeginSync, Listed
    <3> QED BY <1>0, <1>1, <3>1, <3>2, <3>3, OneJobMoves DEF BeginSync
  <2> QED BY <2>1, <2>2
<1>2. CASE BeginRange(j)
  <2>1. /\ job'[j].pc = "list" /\ job'[j].from = 0 /\ job'[j].upto = 0
        /\ job'[j].known = stored /\ job'[j].pass = {}
        /\ \A k \in Jobs : k # j => job'[k] = job[k]
    BY <1>0, <1>2 DEF BeginRange, IdleJob
  <2>2. JobSafe(j)'
    BY <1>0, <1>2, <2>1, BeforeTheListing DEF BeginRange, Listed
  <2> QED BY <1>0, <1>2, <2>1, <2>2, OneJobMoves DEF BeginRange
<1>3. CASE ReadKnown(j)
  <2>1. /\ job'[j].pc \in {"list", "history"} /\ job'[j].from = job[j].from
        /\ job'[j].upto = job[j].upto /\ job'[j].known = stored
        /\ job'[j].pass = job[j].pass /\ job'[j].pend = job[j].pend
        /\ \A k \in Jobs : k # j => job'[k] = job[k]
    BY <1>0, <1>3 DEF ReadKnown, Job
  <2>2. JobSafe(j)'
    <3>1. Covered(job'[j].from) /\ job'[j].pass \subseteq job'[j].pend
      BY <1>0, <2>1 DEF JobSafe, StartsSafe, InsertsAll
    <3> QED BY <1>3, <2>1, <3>1, BeforeTheListing DEF ReadKnown, Listed
  <2> QED BY <1>0, <1>3, <2>1, <2>2, OneJobMoves DEF ReadKnown
<1>4. CASE ListHistory(j) /\ job[j].from < horizon
  <2>1. /\ job'[j].pc = "list" /\ job'[j].from = 0
        /\ job'[j].upto = job[j].upto /\ job'[j].known = job[j].known
        /\ job'[j].pass = job[j].pass /\ job'[j].pend = job[j].pend
        /\ \A k \in Jobs : k # j => job'[k] = job[k]
    BY <1>0, <1>4 DEF ListHistory, FallBack, Job
  <2>2. JobSafe(j)'
    <3>1. Covered(job'[j].from) /\ job'[j].pass \subseteq job'[j].pend
          /\ job'[j].known \subseteq stored
      BY <1>0, <2>1 DEF JobSafe, StartsSafe, InsertsAll
    <3> QED BY <1>4, <2>1, <3>1, BeforeTheListing DEF ListHistory, Listed
  <2> QED BY <1>0, <1>4, <2>1, <2>2, OneJobMoves DEF ListHistory
<1>5. CASE ListHistory(j) /\ ~(job[j].from < horizon)
  <2>1. /\ job'[j].pc = "fetch" /\ job'[j].from = 0 /\ job'[j].upto = hid
        /\ job'[j].ids = FirstPage(Added(j)) /\ job'[j].known = job[j].known
        /\ job'[j].pass = job[j].pass /\ job'[j].pend = job[j].pend
        /\ \A k \in Jobs : k # j => job'[k] = job[k]
    BY <1>0, <1>5 DEF ListHistory, Job
  <2>2. /\ skipped' = skipped \cup (Added(j) \ FirstPage(Added(j)))
        /\ UNCHANGED <<at, gone, stored, tooOld>>
    BY <1>5 DEF ListHistory
  <2>3. StartsSafe(j)' /\ InsertsAll(j)'
    BY <1>0, <2>1, <2>2 DEF JobSafe, StartsSafe, InsertsAll, Covered, TypeOK
  <2>4. ASSUME NEW m \in Msgs, 0 < at[m]
        PROVE  Settled(m)' \/ m \in job'[j].ids
    <3>1. CASE at[m] <= job[j].from
      BY <1>0, <2>2, <2>4, <3>1 DEF JobSafe, StartsSafe, Covered, Settled
    <3>2. CASE ~(at[m] <= job[j].from)
      <4>1. m \in Added(j)
        BY <1>0, <3>2 DEF Added, TypeOK, Job
      <4> QED BY <2>1, <2>2, <4>1 DEF Settled
    <3> QED BY <3>1, <3>2
  <2>5. CarriesAll(j)'
    BY <2>1, <2>2, <2>4 DEF CarriesAll, OnItsWay
  <2> QED BY <1>0, <1>5, <2>1, <2>3, <2>5, OneJobMoves DEF ListHistory, JobSafe
<1>6. CASE ListInbox(j)
  <2> DEFINE inbox == {m \in Present : InWindow(m)}
  <2>1. PICK S \in PassFilter(inbox, job[j].filt) :
          /\ job' = [job EXCEPT ![j].pc = "profile", ![j].upto = hid,
                                ![j].ids = S, ![j].asc = FALSE]
          /\ skipped' = skipped \cup (inbox \ S)
          /\ tooOld' = tooOld \cup (Present \ inbox)
    BY <1>6 DEF ListInbox
  <2>2. /\ job'[j].pc = "profile" /\ job'[j].from = job[j].from
        /\ job'[j].upto = hid /\ job'[j].ids = S
        /\ job'[j].known = job[j].known
        /\ job'[j].pass = job[j].pass /\ job'[j].pend = job[j].pend
        /\ \A k \in Jobs : k # j => job'[k] = job[k]
    BY <1>0, <2>1 DEF Job
  <2>3. UNCHANGED <<at, hid, gone, stored, mark>>
    BY <1>6 DEF ListInbox
  <2>4. \A m \in Msgs : 0 < at[m] => Settled(m)' \/ m \in S
    BY <2>1, <2>3 DEF Settled, Present, Arrived, TypeOK
  <2>5. CarriesAll(j)'
    BY <2>2, <2>3, <2>4 DEF CarriesAll, OnItsWay
  <2>6. \A m \in Msgs : Settled(m) => Settled(m)'
    BY <2>1, <2>3, SettledStays
  <2>7. StartsSafe(j)' /\ InsertsAll(j)'
    BY <1>0, <2>2, <2>3, <2>6 DEF JobSafe, StartsSafe, InsertsAll, Covered
  <2> QED BY <1>0, <2>1, <2>2, <2>3, <2>5, <2>7, OneJobMoves DEF JobSafe
<1>7. CASE GetProfile(j)
  <2>1. /\ job'[j].pc = "fetch" /\ job'[j].from = job[j].from
        /\ job'[j].upto = hid /\ job'[j].ids = job[j].ids
        /\ job'[j].known = job[j].known
        /\ job'[j].pass = job[j].pass /\ job'[j].pend = job[j].pend
        /\ \A k \in Jobs : k # j => job'[k] = job[k]
    BY <1>0, <1>7 DEF GetProfile, Job
  <2>2. /\ skipped' = skipped \cup {m \in Msgs : at[m] > job[j].upto}
        /\ UNCHANGED <<at, hid, gone, stored, tooOld, mark>>
    BY <1>7 DEF GetProfile
  <2>3. \A m \in Msgs : Settled(m) => Settled(m)'
    BY <2>2, SettledStays
  <2>4. ASSUME NEW m \in Msgs, 0 < at[m], Kind[j] = "sync"
        PROVE  Settled(m)' \/ m \in job'[j].ids
    <3>1. CASE at[m] <= job[j].upto
      BY <1>0, <1>7, <2>1, <2>3, <2>4, <3>1
        DEF JobSafe, CarriesAll, Listed, OnItsWay, GetProfile
    <3>2. CASE ~(at[m] <= job[j].upto)
      BY <1>0, <2>2, <3>2 DEF Settled, TypeOK, Job
    <3> QED BY <3>1, <3>2
  <2>5. CarriesAll(j)'
    BY <2>1, <2>2, <2>4 DEF CarriesAll, OnItsWay
  <2>6. StartsSafe(j)' /\ InsertsAll(j)'
    BY <1>0, <2>1, <2>2, <2>3 DEF JobSafe, StartsSafe, InsertsAll, Covered
  <2> QED BY <1>0, <2>1, <2>2, <2>5, <2>6, OneJobMoves DEF JobSafe
<1>8. CASE ListRange(j)
  <2>1. PICK S \in SUBSET Present :
          job' = [job EXCEPT ![j].pc = "fetch", ![j].ids = S, ![j].asc = FALSE]
    BY <1>8 DEF ListRange
  <2>2. /\ job'[j].pc = "fetch" /\ job'[j].from = job[j].from
        /\ job'[j].upto = job[j].upto /\ job'[j].known = job[j].known
        /\ job'[j].pass = job[j].pass /\ job'[j].pend = job[j].pend
        /\ \A k \in Jobs : k # j => job'[k] = job[k]
    BY <1>0, <2>1 DEF Job
  <2>3. UNCHANGED <<at, hid, gone, stored, skipped, tooOld, mark>>
    BY <1>8 DEF ListRange
  <2>4. \A m \in Msgs : Settled(m) => Settled(m)'
    BY <2>3, SettledStays
  <2>5. StartsSafe(j)' /\ CarriesAll(j)' /\ InsertsAll(j)'
    BY <1>0, <1>8, <2>2, <2>3, <2>4
      DEF ListRange, JobSafe, StartsSafe, CarriesAll, InsertsAll, Covered
  <2> QED BY <1>0, <2>2, <2>3, <2>5, OneJobMoves DEF JobSafe
<1>9. CASE Fetch(j)
  <2> DEFINE want == (job[j].ids \ job[j].known) \ gone
  <2>1. PICK bad \in Errors(want) : \E S \in PassFilter(want \ bad, job[j].filt) :
          /\ job' = [job EXCEPT ![j].pc = "filter", ![j].todo = S,
                                ![j].ids = {}, ![j].known = {}, ![j].filt = "all"]
          /\ skipped' = IF Kind[j] = "sync" THEN skipped \cup (want \ S)
                        ELSE skipped
    BY <1>9 DEF Fetch
  <2>2. PICK S \in PassFilter(want \ bad, job[j].filt) :
          /\ job' = [job EXCEPT ![j].pc = "filter", ![j].todo = S,
                                ![j].ids = {}, ![j].known = {}, ![j].filt = "all"]
          /\ skipped' = IF Kind[j] = "sync" THEN skipped \cup (want \ S)
                        ELSE skipped
    BY <2>1
  <2>3. /\ job'[j].pc = "filter" /\ job'[j].from = job[j].from
        /\ job'[j].upto = job[j].upto /\ job'[j].todo = S
        /\ job'[j].known = {}
        /\ job'[j].pass = job[j].pass /\ job'[j].pend = job[j].pend
        /\ \A k \in Jobs : k # j => job'[k] = job[k]
    BY <1>0, <2>2 DEF Job
  <2>4. UNCHANGED <<at, hid, gone, stored, tooOld, mark>>
    BY <1>9 DEF Fetch
  <2>5. skipped \subseteq skipped'
    BY <2>2
  <2>6. \A m \in Msgs : Settled(m) => Settled(m)'
    BY <2>4, <2>5, SettledStays
  <2>7. ASSUME NEW m \in Msgs, 0 < at[m], at[m] <= job[j].upto, Kind[j] = "sync"
        PROVE  Settled(m)' \/ m \in S
    <3>1. Settled(m) \/ m \in job[j].ids
      BY <1>0, <1>9, <2>7 DEF Fetch, JobSafe, CarriesAll, Listed, OnItsWay
    <3>2. m \in job[j].ids => m \in stored \cup gone \/ m \in want
      BY <1>0 DEF JobSafe, StartsSafe
    <3>3. m \in want => m \in skipped' \/ m \in S
      BY <2>2, <2>7
    <3> QED BY <2>4, <2>6, <3>1, <3>2, <3>3 DEF Settled
  <2>8. CarriesAll(j)'
    BY <2>3, <2>4, <2>7 DEF CarriesAll, OnItsWay
  <2>9. StartsSafe(j)' /\ InsertsAll(j)'
    BY <1>0, <2>3, <2>4, <2>6 DEF JobSafe, StartsSafe, InsertsAll, Covered
  <2> QED BY <1>0, <2>3, <2>4, <2>5, <2>8, <2>9, OneJobMoves DEF JobSafe
<1>10. CASE PreFilter(j)
  <2>1. /\ job'[j].pc = AfterInserts(Recheck(j)) /\ job'[j].from = job[j].from
        /\ job'[j].upto = job[j].upto /\ job'[j].todo = job[j].todo \ stored
        /\ job'[j].known = job[j].known
        /\ job'[j].pass = job[j].pass /\ job'[j].pend = job[j].pend
        /\ \A k \in Jobs : k # j => job'[k] = job[k]
    BY <1>0, <1>10 DEF PreFilter, Recheck, Job
  <2>2. UNCHANGED <<at, hid, gone, stored, skipped, tooOld, mark>>
    BY <1>10 DEF PreFilter
  <2>3. \A m \in Msgs : Settled(m) => Settled(m)'
    BY <2>2, SettledStays
  <2>4. ASSUME NEW m \in Msgs, 0 < at[m], at[m] <= job[j].upto, Kind[j] = "sync"
        PROVE  Settled(m)' \/ m \in job'[j].todo \cup job'[j].pend
    <3>1. Settled(m) \/ m \in job[j].todo \cup job[j].pend
      BY <1>0, <1>10, <2>4 DEF PreFilter, JobSafe, CarriesAll, Listed, OnItsWay
    <3> QED BY <2>1, <2>2, <2>3, <3>1 DEF Settled
  <2>5. job'[j].pc \notin {"profile", "fetch"}
        /\ (job'[j].pc = "commit" => job'[j].todo = {})
    BY <2>1 DEF AfterInserts, Recheck
  <2>6. CarriesAll(j)'
    BY <2>1, <2>2, <2>4, <2>5 DEF CarriesAll, OnItsWay
  <2>7. StartsSafe(j)' /\ InsertsAll(j)'
    BY <1>0, <2>1, <2>2, <2>3, <2>5 DEF JobSafe, StartsSafe, InsertsAll, Covered
  <2> QED BY <1>0, <2>1, <2>2, <2>6, <2>7, OneJobMoves DEF JobSafe
<1>11. CASE Insert(j)
  <2>1. PICK m \in job[j].todo, passes \in BOOLEAN :
          job' = [job EXCEPT
            ![j].todo = @ \ {m}, ![j].pend = @ \cup {m},
            ![j].pass = IF passes THEN @ \cup {m} ELSE @,
            ![j].pc = AfterInserts(job[j].todo \ {m})]
    BY <1>11 DEF Insert
  <2>2. /\ job'[j].pc = AfterInserts(job'[j].todo) /\ job'[j].from = job[j].from
        /\ job'[j].upto = job[j].upto /\ job'[j].known = job[j].known
        /\ job'[j].todo = job[j].todo \ {m} /\ job'[j].pend = job[j].pend \cup {m}
        /\ job'[j].pass \subseteq job[j].pass \cup {m}
        /\ \A k \in Jobs : k # j => job'[k] = job[k]
    BY <1>0, <2>1 DEF Job
  <2>3. UNCHANGED <<at, hid, gone, stored, skipped, tooOld, mark>>
    BY <1>11 DEF Insert
  <2>4. \A n \in Msgs : Settled(n) => Settled(n)'
    BY <2>3, SettledStays
  <2>5. job'[j].pc \notin {"profile", "fetch"}
        /\ (job'[j].pc = "commit" => job'[j].todo = {})
    BY <2>2 DEF AfterInserts
  <2>6. CarriesAll(j)'
    BY <1>0, <1>11, <2>2, <2>3, <2>4, <2>5
      DEF Insert, JobSafe, CarriesAll, Listed, OnItsWay
  <2>7. StartsSafe(j)' /\ InsertsAll(j)'
    BY <1>0, <2>2, <2>3, <2>4, <2>5 DEF JobSafe, StartsSafe, InsertsAll, Covered
  <2> QED BY <1>0, <2>2, <2>3, <2>6, <2>7, OneJobMoves DEF JobSafe
<1>12. CASE Commit(j)
  <2>1. /\ job'[j] = IdleJob /\ IdsKnown'
        /\ \A k \in Jobs : k # j => job'[k] = job[k]
    BY <1>0, <1>12 DEF Commit, IdleJob, MarkInv, IdsKnown
  <2>2. UNCHANGED <<at, hid, gone, skipped, tooOld>> /\ stored \subseteq stored'
    BY <1>12 DEF Commit
  <2>3. \A m \in Msgs : Settled(m) => Settled(m)'
    BY <2>2, SettledStays
  <2>4. ASSUME NEW r \in RowIds, r \in Marked(j),
               NEW m \in Msgs, 0 < at[m], at[m] <= job[j].upto
        PROVE  Settled(m)'
    <3>1. Kind[j] = "sync"
      BY <2>4 DEF Marked, NewRow
    <3>2. Settled(m) \/ m \in job[j].pend
      BY <1>0, <1>12, <2>4, <3>1
        DEF Commit, JobSafe, CarriesAll, InsertsAll, Listed, OnItsWay
    <3> QED BY <1>12, <2>2, <2>3, <3>2 DEF Commit, Settled
  <2>5. MarksSafe'
    <3>1. ASSUME NEW r \in RowIds, NEW m \in Msgs, 0 < at[m], at[m] <= mark'[r]
          PROVE  Settled(m)'
      <4>1. CASE r \in Marked(j)
        BY <1>12, <2>4, <3>1, <4>1 DEF Commit
      <4>2. CASE r \notin Marked(j)
        BY <1>12, <2>3, <3>1, <4>2 DEF Commit, MarkInv, MarksSafe, Covered
      <4> QED BY <4>1, <4>2
    <3> QED BY <2>2, <3>1 DEF MarksSafe, Covered
  <2>6. JobSafe(j)'
    BY <1>0, <2>1, <2>2, <2>3
      DEF JobSafe, StartsSafe, CarriesAll, InsertsAll, Covered, IdleJob, Listed
  <2>7. ASSUME NEW k \in Jobs, k # j PROVE JobSafe(k)'
    <3>1. job'[k] = job[k]
      BY <2>1, <2>7
    <3>2. StartsSafe(k)' /\ InsertsAll(k)'
      BY <2>2, <2>3, <3>1
        DEF MarkInv, JobsSafe, StartsSafe, InsertsAll, Covered
    <3>3. CarriesAll(k)'
      BY <2>2, <2>3, <3>1 DEF MarkInv, JobsSafe, CarriesAll, OnItsWay
    <3> QED BY <3>2, <3>3 DEF JobSafe
  <2> QED BY <2>1, <2>5, <2>6, <2>7 DEF MarkInv, JobsSafe, JobSafe
<1>13. CASE Conflict(j) \/ Fail(j) \/ DeadlockVictim(j)
  <2>1. /\ job' = [job EXCEPT ![j] = IdleJob]
        /\ UNCHANGED <<gmail, emails, states, setter, missed>>
    BY <1>13 DEF Conflict, Fail, DeadlockVictim, Rollback
  <2>2. /\ job'[j] = IdleJob
        /\ \A k \in Jobs : k # j => job'[k] = job[k]
    BY <1>0, <2>1
  <2>3. JobSafe(j)'
    BY <1>0, <2>1, <2>2, BeforeTheListing DEF IdleJob, Listed
  <2> QED BY <1>0, <2>1, <2>2, <2>3, OneJobMoves DEF IdleJob
<1> QED BY <1>1, <1>2, <1>3, <1>4, <1>5, <1>6, <1>7, <1>8, <1>9, <1>10, <1>11,
           <1>12, <1>13 DEF JobStep

LEMMA NextMark == TypeOK /\ TypeOK' /\ MarkInv /\ [Next]_vars => MarkInv'
<1> SUFFICES ASSUME TypeOK, TypeOK', MarkInv, [Next]_vars PROVE MarkInv'
  OBVIOUS
<1> USE DEF gmail, emails, states, missed
(* The new message's id is ahead of every mark and every listing.           *)
<1>1. ASSUME NEW m \in Msgs, Deliver(m) PROVE MarkInv'
  <2>1. /\ at' = [at EXCEPT ![m] = hid + 1] /\ hid' = hid + 1 /\ at[m] = 0
        /\ UNCHANGED <<stored, gone, skipped, tooOld, job, mark>>
    BY <1>1 DEF Deliver
  <2>2. hid \in Nat /\ at \in [Msgs -> Nat]
    BY DEF TypeOK
  <2>3. IdsKnown'
    BY <2>1, <2>2 DEF MarkInv, IdsKnown, TypeOK, Job
  <2>4. ASSUME NEW n \in Nat, n <= hid, Covered(n) PROVE Covered(n)'
    BY <2>1, <2>2, <2>4 DEF Covered, Settled
  <2>5. MarksSafe'
    BY <2>1, <2>4 DEF MarkInv, MarksSafe, IdsKnown, TypeOK, Covered
  <2>6. ASSUME NEW j \in Jobs PROVE JobSafe(j)'
    <3>1. job[j].from \in Nat /\ job[j].from <= hid
          /\ job[j].upto \in Nat /\ job[j].upto <= hid
      BY DEF MarkInv, IdsKnown, TypeOK, Job
    <3>2. Covered(job[j].from)'
      BY <2>1, <2>4, <3>1 DEF MarkInv, JobsSafe, StartsSafe, Covered
    <3>3. CarriesAll(j)'
      BY <2>1, <2>2, <3>1 DEF MarkInv, JobsSafe, CarriesAll, OnItsWay, Settled
    <3> QED BY <2>1, <3>2, <3>3
          DEF MarkInv, JobsSafe, JobSafe, StartsSafe, InsertsAll, Covered
  <2> QED BY <2>3, <2>5, <2>6 DEF MarkInv, JobsSafe, JobSafe
<1>2. ASSUME NEW m \in Msgs, Delete(m) PROVE MarkInv'
  BY <1>2 DEF Delete, MarkInv, IdsKnown, MarksSafe, JobsSafe, StartsSafe, CarriesAll,
    InsertsAll, Covered, Settled, OnItsWay
<1>3. CASE DaysPass \/ ReadSettings \/ WriteSettings \/ UNCHANGED vars
  <2>1. UNCHANGED <<at, hid, stored, gone, skipped, tooOld, job, mark>>
    BY <1>3 DEF DaysPass, ReadSettings, WriteSettings, vars
  <2> QED BY <2>1 DEF MarkInv, IdsKnown, MarksSafe, JobsSafe, StartsSafe,
        CarriesAll, InsertsAll, Covered, Settled, OnItsWay
<1> QED BY <1>1, <1>2, <1>3, JobStepMark DEF Next

LEMMA InitMark == Init => TypeOK /\ MarkInv
<1>1. Init => TypeOK
  BY IdleJobType DEF Init, TypeOK, IdleSetter, Setter, Filters
<1>2. Init => MarkInv
  BY DEF Init, IdleJob, MarkInv, IdsKnown, MarksSafe, JobsSafe, StartsSafe,
    CarriesAll, InsertsAll, Covered, Listed
<1> QED BY <1>1, <1>2

(* Incremental sync never leaves a message behind its mark that is neither  *)
(* stored, deleted nor one of those the code knowingly passes over, however *)
(* jobs fail, conflict and overlap.                                         *)
THEOREM MailNeverLost == Spec => []MarkIsSafe
<1>1. TypeOK /\ MarkInv /\ [Next]_vars => TypeOK' /\ MarkInv'
  BY NextType, NextMark
<1>2. MarkInv => MarkIsSafe
  BY DEF MarkInv, MarksSafe, Covered, MarkIsSafe, Behind
<1> QED BY InitMark, <1>1, <1>2, PTL DEF Spec

(* The emails of a job and their transactions are stored together or not at *)
(* all.                                                                     *)
THEOREM ImportAtomic == Spec => []AllOrNothing
<1>1. Init => AllOrNothing
  BY DEF Init, AllOrNothing
<1>2. TypeOK /\ MarkInv /\ AllOrNothing /\ [Next]_vars => AllOrNothing'
  <2> SUFFICES ASSUME MarkInv, AllOrNothing, [Next]_vars PROVE AllOrNothing'
    OBVIOUS
  <2>1. ASSUME NEW j \in Jobs, Commit(j) PROVE AllOrNothing'
    <3>1. job[j].pass \subseteq job[j].pend
      BY DEF MarkInv, JobsSafe, InsertsAll
    <3> QED BY <2>1, <3>1 DEF Commit, NewTxns, AllOrNothing
  <2>2. CASE UNCHANGED emails
    BY <2>2 DEF emails, AllOrNothing
  <2>3. ASSUME NEW j \in Jobs,
               JobStep(j) \/ BeginRange(j) \/ Fail(j) \/ DeadlockVictim(j)
        PROVE  Commit(j) \/ UNCHANGED emails
    BY <2>3 DEF JobStep, BeginSync, BeginRange, ReadKnown, ListHistory, ListInbox,
      GetProfile, ListRange, Fetch, PreFilter, Insert, Conflict, DeadlockVictim,
      Fail, Rollback
  <2>4. ASSUME NEW m \in Msgs, Deliver(m) \/ Delete(m) PROVE UNCHANGED emails
    BY <2>4 DEF Deliver, Delete
  <2>5. DaysPass \/ ReadSettings \/ WriteSettings \/ UNCHANGED vars => UNCHANGED emails
    BY DEF DaysPass, ReadSettings, WriteSettings, vars
  <2> QED BY <2>1, <2>2, <2>3, <2>4, <2>5 DEF Next
<1>3. TypeOK /\ MarkInv /\ [Next]_vars => TypeOK' /\ MarkInv'
  BY NextType, NextMark
<1> QED BY InitMark, <1>1, <1>2, <1>3, PTL DEF Spec

-----------------------------------------------------------------------------
(* One counter of the bucket.  What it was reset at lies before the edge of *)
(* the tick of the reset, and from any edge within a length before that     *)
(* tick to the reset the bucket before let through no more than the limit.  *)
AtReset(now, sums, count) == sums[now + 1] - count

Bucket(now, sums, count, limit, start, length) ==
  /\ limit \in Nat /\ count \in 0 .. limit /\ start \in 0 .. now
  /\ sums \in [Edges -> Nat]
  /\ \A t, u \in Edges : t <= u => sums[t] <= sums[u]
  /\ \A u \in Edges : u > now => sums[u] = sums[now + 1]
  /\ AtReset(now, sums, count) <= sums[start + 1]
  /\ \A t \in Edges : t > start - length => AtReset(now, sums, count) - sums[t] <= limit
  /\ AtMost(sums, length, 2 * limit)

LEMMA BucketBook ==
  ASSUME clock \in Instants, LastTick \in Nat,
         NEW sums, NEW count, NEW limit, NEW start, NEW length \in Nat \ {0}, NEW n \in Nat,
         Bucket(clock, sums, count, limit, start, length), count + n <= limit
  PROVE  Bucket(clock, Raised(sums, n), count + n, limit, start, length)
<1> DEFINE raised == Raised(sums, n)
<1>1. /\ raised \in [Edges -> Nat]
      /\ \A u \in Edges : raised[u] = IF u > clock THEN sums[u] + n ELSE sums[u]
      /\ \A u \in Edges : u \in Int /\ sums[u] \in Nat
      /\ clock \in Nat /\ clock + 1 \in Edges /\ limit \in Nat /\ count \in Nat /\ start \in 0 .. clock
      /\ start + 1 \in Edges
  <2>1. sums \in [Edges -> Nat] /\ limit \in Nat /\ count \in 0 .. limit /\ start \in 0 .. clock
    BY DEF Bucket
  <2>2. /\ clock \in Nat /\ clock + 1 \in Edges /\ start + 1 \in Edges
        /\ \A u \in Edges : u \in Int
    BY <2>1 DEF Edges, Instants
  <2>3. \A u \in Edges : raised[u] = IF u > clock THEN sums[u] + n ELSE sums[u]
    BY DEF Raised
  <2>4. raised \in [Edges -> Nat]
    BY <2>1, <2>2 DEF Raised
  <2> QED BY <2>1, <2>2, <2>3, <2>4
<1> HIDE DEF raised
<1>2. \A t, u \in Edges : t <= u => raised[t] <= raised[u]
  BY <1>1 DEF Bucket
<1>3. \A u \in Edges : u > clock => raised[u] = raised[clock + 1]
  BY <1>1 DEF Bucket
<1>4. AtReset(clock, raised, count + n) = AtReset(clock, sums, count) /\ AtReset(clock, sums, count) \in Int
  BY <1>1 DEF AtReset
<1>5. \A u \in Edges : raised[u] >= sums[u]
  BY <1>1
<1>6. AtReset(clock, sums, count) <= raised[start + 1]
  BY <1>1, <1>4, <1>5 DEF Bucket
<1>7. \A t \in Edges : t > start - length => AtReset(clock, sums, count) - raised[t] <= limit
  BY <1>1, <1>4, <1>5 DEF Bucket
<1>8. ASSUME NEW t \in Edges, NEW u \in Edges, u - t <= length
      PROVE  raised[u] - raised[t] <= 2 * limit
  <2>1. CASE u <= clock
    <3>1. raised[u] = sums[u] /\ raised[t] >= sums[t] /\ sums[u] - sums[t] <= 2 * limit
      BY <1>1, <1>5, <1>8, <2>1 DEF Bucket, AtMost
    <3> QED BY <1>1, <3>1
  <2>2. CASE u > clock /\ t > clock
    BY <1>1, <1>3, <2>2
  <2>3. CASE u > clock /\ t <= clock
    <3>1. t > start - length
      BY <1>1, <1>8, <2>3
    <3>2. raised[u] = AtReset(clock, raised, count + n) + count + n
      BY <1>1, <1>3, <2>3 DEF AtReset
    <3>3. AtReset(clock, sums, count) - raised[t] <= limit
      BY <1>7, <3>1
    <3> QED BY <1>1, <1>4, <3>2, <3>3
  <2> QED BY <1>1, <2>1, <2>2, <2>3
<1>9. AtMost(raised, length, 2 * limit)
  BY <1>8 DEF AtMost
<1>10. Bucket(clock, raised, count + n, limit, start, length)
  BY <1>1, <1>2, <1>3, <1>4, <1>6, <1>7, <1>9 DEF Bucket
<1> QED BY <1>10 DEF raised

LEMMA BucketReset ==
  ASSUME clock \in Instants, LastTick \in Nat,
         NEW sums, NEW count, NEW limit, NEW start, NEW length \in Nat \ {0},
         Bucket(clock, sums, count, limit, start, length), clock - start >= length
  PROVE  Bucket(clock, sums, 0, limit, clock, length)
<1>1. /\ \A u \in Edges : u \in Int /\ sums[u] \in Nat
      /\ clock \in Nat /\ clock + 1 \in Edges /\ limit \in Nat /\ count \in 0 .. limit
      /\ start \in Nat /\ start + 1 \in Edges
  BY DEF Bucket, Edges, Instants
<1>2. AtReset(clock, sums, 0) = sums[clock + 1] /\ AtReset(clock, sums, count) = sums[clock + 1] - count
  BY <1>1 DEF AtReset
<1>3. ASSUME NEW t \in Edges, t > clock - length PROVE sums[clock + 1] - sums[t] <= limit
  <2>1. t >= start + 1
    BY <1>1, <1>3
  <2>2. sums[start + 1] <= sums[t] /\ sums[clock + 1] - count <= sums[start + 1]
    BY <1>1, <1>2, <2>1 DEF Bucket
  <2> QED BY <1>1, <2>2
<1> QED BY <1>1, <1>2, <1>3 DEF Bucket

LEMMA BucketPass ==
  ASSUME NEW now \in Instants, LastTick \in Nat, now < LastTick,
         NEW sums, NEW count, NEW limit, NEW start, NEW length \in Nat \ {0},
         Bucket(now, sums, count, limit, start, length)
  PROVE  Bucket(now + 1, sums, count, limit, start, length)
<1>1. now \in Nat /\ now + 2 \in Edges /\ now + 1 \in Edges /\ now + 1 + 1 = now + 2
  BY DEF Edges, Instants
<1>2. sums[now + 2] = sums[now + 1] /\ AtReset(now + 1, sums, count) = AtReset(now, sums, count)
  BY <1>1 DEF Bucket, AtReset
<1>3. \A u \in Edges : u > now + 1 => sums[u] = sums[now + 2]
  BY <1>1, <1>2 DEF Bucket, Edges
<1>4. start \in 0 .. now + 1
  BY <1>1 DEF Bucket
<1> QED BY <1>1, <1>2, <1>3, <1>4 DEF Bucket

(* The four counters; the daily ones when there is a limit.  The tokens of  *)
(* a day are weighed before the call's are added.                           *)
GlInv ==
  /\ clock \in Instants /\ DOMAIN asking = Askers
  /\ used \in [rpm : Nat, tpm : Nat, rpd : Nat, tpd : Nat]
  /\ began \in [minute : Nat, day : Nat]
  /\ \A c \in Askers : asking[c].tokens \in Estimates \cup {0}
  /\ began.minute \in 0 .. clock /\ began.day \in 0 .. clock
  /\ Bucket(clock, granted.requests, used.rpm, Rpm, began.minute, Minute)
  /\ Bucket(clock, granted.tokens, used.tpm, Tpm, began.minute, Minute)
  /\ Rpd > 0 => Bucket(clock, granted.requests, used.rpd, Rpd, began.day, Day)
  /\ Tpd > 0 => Bucket(clock, granted.tokens, used.tpd, Tpd + MaxEstimate - 1, began.day, Day)

LEMMA GlInitInv == GlInit => GlInv
<1> SUFFICES ASSUME GlInit PROVE GlInv
  OBVIOUS
<1>1. clock = 0 /\ clock \in Instants /\ LastTick \in Nat
  BY GroqAssumption DEF GlInit, Instants
<1>2. ASSUME NEW limit \in Nat, NEW length \in Nat \ {0}
      PROVE  Bucket(0, [t \in Edges |-> 0], 0, limit, 0, length)
  BY <1>1, <1>2 DEF Bucket, AtReset, AtMost, Edges
<1>3. Tpd > 0 => Tpd + MaxEstimate - 1 \in Nat
  BY GroqAssumption
<1> QED BY <1>1, <1>2, <1>3, GroqAssumption DEF GlInit, GlInv, NotAsking

LEMMA BookInv ==
  ASSUME GlInv, NEW n \in Estimates, Book(n), UNCHANGED <<clock, began>>, DOMAIN asking' = Askers,
         \A c \in Askers : asking'[c].tokens \in Estimates \cup {0}
  PROVE  GlInv'
<1>1. /\ n \in Nat /\ n <= MaxEstimate /\ LastTick \in Nat /\ clock \in Instants /\ MaxEstimate \in Nat
      /\ Rpm \in Nat /\ Tpm \in Nat /\ Rpd \in Nat /\ Tpd \in Nat
      /\ Minute \in Nat \ {0} /\ Day \in Nat \ {0}
  BY GroqAssumption DEF Estimates, GlInv
<1>2. /\ used.rpm < Rpm /\ used.tpm + n <= Tpm
      /\ Rpd > 0 => used.rpd < Rpd
      /\ Tpd > 0 => used.tpd < Tpd
      /\ used.rpm \in Nat /\ used.tpm \in Nat /\ used.rpd \in Nat /\ used.tpd \in Nat
  BY <1>1 DEF Book, Free, GlInv
<1>3. /\ used'.rpm = used.rpm + 1 /\ used'.tpm = used.tpm + n
      /\ Rpd > 0 => used'.rpd = used.rpd + 1
      /\ Tpd > 0 => used'.tpd = used.tpd + n
      /\ used' \in [rpm : Nat, tpm : Nat, rpd : Nat, tpd : Nat]
      /\ granted'.requests = Raised(granted.requests, 1) /\ granted'.tokens = Raised(granted.tokens, n)
  BY <1>1, <1>2 DEF Book, Booked
<1>4. Bucket(clock, granted'.requests, used'.rpm, Rpm, began.minute, Minute)
  BY <1>1, <1>2, <1>3, BucketBook DEF GlInv
<1>5. Bucket(clock, granted'.tokens, used'.tpm, Tpm, began.minute, Minute)
  BY <1>1, <1>2, <1>3, BucketBook DEF GlInv
<1>6. Rpd > 0 => Bucket(clock, granted'.requests, used'.rpd, Rpd, began.day, Day)
  <2>1. Rpd > 0 => used.rpd + 1 <= Rpd
    BY <1>1, <1>2
  <2> QED BY <1>1, <1>2, <1>3, <2>1, BucketBook DEF GlInv
<1>7. Tpd > 0 => Bucket(clock, granted'.tokens, used'.tpd, Tpd + MaxEstimate - 1, began.day, Day)
  <2>1. Tpd > 0 => used.tpd + n <= Tpd + MaxEstimate - 1
    BY <1>1, <1>2
  <2> QED BY <1>1, <1>2, <1>3, <2>1, BucketBook DEF GlInv
<1> QED BY <1>1, <1>3, <1>4, <1>5, <1>6, <1>7 DEF GlInv

LEMMA ResetInv ==
  ASSUME GlInv, ResetLoop
  PROVE  GlInv'
<1> DEFINE minuteOver == clock - began.minute >= Minute
           dayOver == clock - began.day >= Day
<1>1. /\ LastTick \in Nat /\ clock \in Instants /\ clock \in Nat
      /\ Minute \in Nat \ {0} /\ Day \in Nat \ {0} /\ UNCHANGED <<clock, asking, granted>>
  BY GroqAssumption DEF GlInv, Instants, ResetLoop
<1>2. /\ minuteOver => used'.rpm = 0 /\ used'.tpm = 0 /\ began'.minute = clock
      /\ ~minuteOver => used'.rpm = used.rpm /\ used'.tpm = used.tpm /\ began'.minute = began.minute
      /\ dayOver => used'.rpd = 0 /\ used'.tpd = 0 /\ began'.day = clock
      /\ ~dayOver => used'.rpd = used.rpd /\ used'.tpd = used.tpd /\ began'.day = began.day
      /\ used' \in [rpm : Nat, tpm : Nat, rpd : Nat, tpd : Nat]
      /\ began' \in [minute : Nat, day : Nat]
  BY <1>1 DEF ResetLoop, Restarted, GlInv
<1>3. Bucket(clock, granted.requests, used'.rpm, Rpm, began'.minute, Minute)
  BY <1>1, <1>2, BucketReset DEF GlInv
<1>4. Bucket(clock, granted.tokens, used'.tpm, Tpm, began'.minute, Minute)
  BY <1>1, <1>2, BucketReset DEF GlInv
<1>5. Rpd > 0 => Bucket(clock, granted.requests, used'.rpd, Rpd, began'.day, Day)
  BY <1>1, <1>2, BucketReset DEF GlInv
<1>6. Tpd > 0 => Bucket(clock, granted.tokens, used'.tpd, Tpd + MaxEstimate - 1, began'.day, Day)
  BY <1>1, <1>2, BucketReset DEF GlInv
<1>7. began'.minute \in 0 .. clock /\ began'.day \in 0 .. clock
  BY <1>1, <1>2 DEF GlInv
<1> QED BY <1>1, <1>2, <1>3, <1>4, <1>5, <1>6, <1>7 DEF GlInv

LEMMA GlStepInv == GlInv /\ [GlNext]_glVars => GlInv'
<1> SUFFICES ASSUME GlInv, [GlNext]_glVars PROVE GlInv'
  OBVIOUS
<1>1. ASSUME NEW c \in Askers, Acquire(c) PROVE GlInv'
  <2>1. PICK n \in Estimates :
          \/ Book(n) /\ UNCHANGED asking
          \/ /\ asking' = [asking EXCEPT ![c] = [tokens |-> n, since |-> clock]]
             /\ UNCHANGED <<used, granted>>
    BY <1>1 DEF Acquire
  <2>2. UNCHANGED <<clock, began>>
    BY <1>1 DEF Acquire
  <2>3. CASE Book(n) /\ UNCHANGED asking
    BY <2>2, <2>3, BookInv DEF GlInv
  <2>4. CASE /\ asking' = [asking EXCEPT ![c] = [tokens |-> n, since |-> clock]]
             /\ UNCHANGED <<used, granted>>
    BY <2>2, <2>4 DEF GlInv
  <2> QED BY <2>1, <2>3, <2>4
<1>2. ASSUME NEW c \in Askers, Grant(c) PROVE GlInv'
  <2>1. /\ asking' = [asking EXCEPT ![c] = NotAsking] /\ UNCHANGED <<clock, began>>
        /\ Book(asking[c].tokens) /\ asking[c].tokens > 0
    BY <1>2 DEF Grant
  <2>2. asking[c].tokens \in Estimates
    BY <2>1 DEF GlInv
  <2>3. DOMAIN asking' = Askers /\ \A d \in Askers : asking'[d].tokens \in Estimates \cup {0}
    BY <2>1 DEF GlInv, NotAsking
  <2> QED BY <2>1, <2>2, <2>3, BookInv
<1>3. ASSUME NEW c \in Askers, GiveUp(c) PROVE GlInv'
  BY <1>3 DEF GiveUp, GlInv, NotAsking
<1>4. CASE Pass
  <2>1. /\ clock' = clock + 1 /\ clock < LastTick /\ UNCHANGED <<used, began, asking, granted>>
        /\ clock \in Instants /\ LastTick \in Nat /\ Minute \in Nat \ {0} /\ Day \in Nat \ {0}
    BY <1>4, GroqAssumption DEF Pass, GlInv
  <2>2. clock' \in Instants /\ began.minute \in 0 .. clock' /\ began.day \in 0 .. clock'
    BY <2>1 DEF Instants, GlInv
  <2>3. Bucket(clock + 1, granted.requests, used.rpm, Rpm, began.minute, Minute)
    BY <2>1, BucketPass DEF GlInv
  <2>4. Bucket(clock + 1, granted.tokens, used.tpm, Tpm, began.minute, Minute)
    BY <2>1, BucketPass DEF GlInv
  <2>5. Rpd > 0 => Bucket(clock + 1, granted.requests, used.rpd, Rpd, began.day, Day)
    BY <2>1, BucketPass DEF GlInv
  <2>6. Tpd > 0 => Bucket(clock + 1, granted.tokens, used.tpd, Tpd + MaxEstimate - 1, began.day, Day)
    BY <2>1, BucketPass DEF GlInv
  <2> QED BY <2>1, <2>2, <2>3, <2>4, <2>5, <2>6 DEF GlInv
<1>5. CASE UNCHANGED glVars
  BY <1>5 DEF glVars, GlInv
<1> QED BY <1>1, <1>2, <1>3, <1>4, <1>5, ResetInv DEF GlNext

(* The limiter in front of Groq always has its type.                        *)
THEOREM GlTypeCorrect == GlSpec => []GlTypeOK
<1>1. GlInv => GlTypeOK
  BY DEF GlInv, GlTypeOK, Bucket
<1> QED BY <1>1, GlInitInv, GlStepInv, PTL DEF GlSpec

(* However late the thread is and however calls fall, no minute has more    *)
(* than two buckets of requests or tokens, and no day more than two of the  *)
(* day's (acquire and _maybe_reset_buckets, groq_rate_limiter.py): for any  *)
(* limits, estimates, lengths and clock.                                    *)
THEOREM GroqBounded == GlSpec => []GroqWithinLimits
<1>1. GlInv => GroqWithinLimits
  BY DEF GlInv, GroqWithinLimits, Bucket
<1> QED BY <1>1, GlInitInv, GlStepInv, PTL DEF GlSpec

-----------------------------------------------------------------------------
(* The runs.  A run is a record whose phase says how far it is in a batch.  *)
RunFields == {"phase", "todo", "at", "pos", "call", "seen", "broken"}
Results == {"none", "rule", "llm"}

RunOK(q) ==
  /\ DOMAIN q = RunFields /\ q.phase \in Phases /\ q.call \in CallStates
  /\ q.at \in Nat \ {0}
  /\ q.phase = "judge" => q.pos \in 0 .. q.at + LlmBatch
  /\ q.phase = "fix" => q.pos \in 0 .. q.at + LlmBatch - 1

(* The runs whose call may yet be paid for.                                 *)
Waiting == {r \in Runs : Asking(r)}
Reserved == spent + Cardinality(Waiting) < DailyBudget + Cardinality(Runs)

ClTypes ==
  /\ DOMAIN run = Runs /\ DOMAIN result = Runs
  /\ \A r \in Runs : DOMAIN result[r] = Mails(r) /\ \A m \in Mails(r) : result[r][m] \in Results
  /\ limited \subseteq Clients /\ spent \in Nat
  /\ DOMAIN day = {"calls", "writer", "pending"} /\ day.writer \in Runs \cup {NoRun}
ClInv == ClTypes /\ Reserved /\ \A r \in Runs : RunOK(run[r])

LEMMA WaitingFinite ==
  /\ IsFiniteSet(Runs) /\ Cardinality(Runs) \in Nat /\ Cardinality(Runs) > 0
  /\ \A S \in SUBSET Runs : IsFiniteSet(S) /\ Cardinality(S) \in Nat /\ Cardinality(S) <= Cardinality(Runs)
<1>1. IsFiniteSet(Runs) /\ Runs # {}
  BY ClassifyAssumption
<1> QED BY <1>1, FS_CardinalityType, FS_EmptySet, FS_Subset

(* A run writes some of its fields.                                         *)
LEMMA SetFields ==
  ASSUME ClInv, NEW r \in Runs, NEW fields, Set(r, fields)
  PROVE  /\ DOMAIN run' = Runs /\ \A s \in Runs \ {r} : run'[s] = run[s]
         /\ DOMAIN run'[r] = RunFields
         /\ \A f \in RunFields : run'[r][f] = IF f \in DOMAIN fields THEN fields[f] ELSE run[r][f]
<1>1. DOMAIN run = Runs /\ DOMAIN run[r] = RunFields
  BY DEF ClInv, ClTypes, RunOK
<1>2. run'[r] = Over(fields, run[r]) /\ DOMAIN run' = Runs /\ \A s \in Runs \ {r} : run'[s] = run[s]
  BY <1>1 DEF Set
<1> QED BY <1>1, <1>2 DEF Over

LEMMA GiveResults ==
  ASSUME ClInv, NEW r \in Runs, NEW ms, NEW method \in Results, Give(r, ms, method)
  PROVE  /\ DOMAIN result' = Runs
         /\ \A s \in Runs : DOMAIN result'[s] = Mails(s) /\ \A m \in Mails(s) : result'[s][m] \in Results
BY DEF ClInv, ClTypes, Give

(* A step of one run that ends or keeps its call, or pays for it.           *)
LEMMA RunMoves ==
  ASSUME ClInv, NEW r \in Runs, DOMAIN run' = Runs, \A s \in Runs \ {r} : run'[s] = run[s],
         RunOK(run'[r]),
         UNCHANGED result \/ \E ms : \E method \in Results : Give(r, ms, method),
         limited' \subseteq Clients,
         DOMAIN day' = {"calls", "writer", "pending"}, day'.writer \in Runs \cup {NoRun},
         \/ spent' = spent /\ (Asking(r)' => Asking(r))
         \/ spent' = spent + 1 /\ Asking(r) /\ ~Asking(r)'
         \/ spent' = spent /\ spent < DailyBudget
  PROVE  ClInv'
<1>1. spent \in Nat /\ spent' \in Nat /\ DailyBudget \in Nat
  BY ClassifyAssumption DEF ClInv, ClTypes
<1>2. \A s \in Runs \ {r} : Asking(s)' <=> Asking(s)
  BY DEF Asking
<1>3. /\ Waiting \in SUBSET Runs /\ Waiting' \in SUBSET Runs
      /\ spent + Cardinality(Waiting) < DailyBudget + Cardinality(Runs)
  BY DEF Waiting, ClInv, Reserved
<1>4. Reserved'
  <2>1. CASE spent' = spent /\ (Asking(r)' => Asking(r))
    <3>1. Waiting' \subseteq Waiting
      BY <1>2, <2>1 DEF Waiting
    <3>2. Cardinality(Waiting') <= Cardinality(Waiting)
      BY <1>3, <3>1, WaitingFinite, FS_Subset
    <3> QED BY <1>1, <1>3, <2>1, <3>2, WaitingFinite DEF Reserved
  <2>2. CASE spent' = spent + 1 /\ Asking(r) /\ ~Asking(r)'
    <3>1. Waiting' = Waiting \ {r} /\ r \in Waiting
      BY <1>2, <2>2 DEF Waiting
    <3>2. Cardinality(Waiting') = Cardinality(Waiting) - 1
      BY <1>3, <3>1, WaitingFinite, FS_RemoveElement
    <3> QED BY <1>1, <1>3, <2>2, <3>2, WaitingFinite DEF Reserved
  <2>3. CASE spent' = spent /\ spent < DailyBudget
    BY <1>1, <1>3, <2>3, WaitingFinite DEF Reserved
  <2> QED BY <2>1, <2>2, <2>3
<1>5. /\ DOMAIN result' = Runs
      /\ \A s \in Runs : DOMAIN result'[s] = Mails(s) /\ \A m \in Mails(s) : result'[s][m] \in Results
  BY GiveResults DEF ClInv, ClTypes
<1> QED BY <1>1, <1>4, <1>5 DEF ClInv, ClTypes

LEMMA ClInitInv ==
  ASSUME \/ ClInit
         \/ AllJudged
  PROVE  ClInv
<1>1. /\ DOMAIN run = Runs /\ DOMAIN result = Runs
      /\ \A r \in Runs : /\ RunOK(run[r]) /\ run[r].call = "no"
                         /\ DOMAIN result[r] = Mails(r)
                         /\ \A m \in Mails(r) : result[r][m] \in Results
      /\ limited = {} /\ spent = 0 /\ day = [calls |-> 0, writer |-> NoRun, pending |-> 0]
  BY DEF ClInit, AllJudged, RunOK, RunFields, Phases, CallStates, Results
<1>2. Waiting = {}
  BY <1>1 DEF Waiting, Asking
<1>3. Reserved
  BY <1>1, <1>2, FS_EmptySet, WaitingFinite, ClassifyAssumption DEF Reserved
<1> QED BY <1>1, <1>3 DEF ClInv, ClTypes

(* Where a call leads.                                                      *)
LEMMA NextRun ==
  ASSUME ClInv, NEW r \in Runs,
         NextBatch(r) \/ NextSingle(r)
           \/ (NextJudged(r) /\ run[r].phase \in {"judge", "fix"}
                /\ run[r].pos \in 0 .. run[r].at + LlmBatch - 1)
  PROVE  /\ DOMAIN run' = Runs /\ \A s \in Runs \ {r} : run'[s] = run[s]
         /\ RunOK(run'[r]) /\ run'[r].call = "no"
<1>1. LlmBatch \in Nat \ {0} /\ run[r].at \in Nat \ {0} /\ RunOK(run[r])
  BY ClassifyAssumption DEF ClInv, RunOK
<1>2. CASE NextBatch(r)
  <2>1. Set(r, [phase |-> "batch", at |-> run[r].at + LlmBatch, call |-> "no"])
    BY <1>2 DEF NextBatch
  <2>2. /\ DOMAIN run' = Runs /\ \A s \in Runs \ {r} : run'[s] = run[s]
        /\ DOMAIN run'[r] = RunFields /\ run'[r].phase = "batch"
        /\ run'[r].at = run[r].at + LlmBatch /\ run'[r].call = "no"
    BY <2>1, SetFields DEF RunFields
  <2> QED BY <1>1, <2>2 DEF RunOK, Phases, CallStates
<1>3. CASE NextSingle(r)
  <2>1. Set(r, [phase |-> "single", at |-> run[r].at + 1, call |-> "no"])
    BY <1>3 DEF NextSingle
  <2>2. /\ DOMAIN run' = Runs /\ \A s \in Runs \ {r} : run'[s] = run[s]
        /\ DOMAIN run'[r] = RunFields /\ run'[r].phase = "single"
        /\ run'[r].at = run[r].at + 1 /\ run'[r].call = "no"
    BY <2>1, SetFields DEF RunFields
  <2> QED BY <1>1, <2>2 DEF RunOK, Phases, CallStates
<1>4. CASE NextJudged(r) /\ run[r].pos \in 0 .. run[r].at + LlmBatch - 1
  <2>1. Set(r, [phase |-> "judge", pos |-> run[r].pos + 1, call |-> "no"])
    BY <1>4 DEF NextJudged
  <2>2. /\ DOMAIN run' = Runs /\ \A s \in Runs \ {r} : run'[s] = run[s]
        /\ DOMAIN run'[r] = RunFields /\ run'[r].phase = "judge"
        /\ run'[r].at = run[r].at /\ run'[r].pos = run[r].pos + 1 /\ run'[r].call = "no"
    BY <2>1, SetFields DEF RunFields
  <2> QED BY <1>1, <1>4, <2>2 DEF RunOK, Phases, CallStates
<1> QED BY <1>2, <1>3, <1>4

LEMMA GivesRun ==
  ASSUME ClInv, NEW r \in Runs, Gives(r)
  PROVE  /\ DOMAIN run' = Runs /\ \A s \in Runs \ {r} : run'[s] = run[s]
         /\ RunOK(run'[r]) /\ run'[r].call = "no"
         /\ UNCHANGED result \/ \E ms : \E method \in Results : Give(r, ms, method)
<1>1. RunOK(run[r])
  BY DEF ClInv
<1>2. NextBatch(r) \/ NextSingle(r)
        \/ (NextJudged(r) /\ run[r].phase \in {"judge", "fix"}
             /\ run[r].pos \in 0 .. run[r].at + LlmBatch - 1)
  BY <1>1 DEF Gives, RunOK
<1>3. UNCHANGED result \/ \E ms : \E method \in Results : Give(r, ms, method)
  BY DEF Gives, Results
<1> QED BY <1>2, <1>3, NextRun

(* A step that sets a call's state, and leaves the phase and the position.  *)
LEMMA CallState ==
  ASSUME ClInv, NEW r \in Runs, NEW state \in CallStates, Set(r, [call |-> state])
  PROVE  /\ DOMAIN run' = Runs /\ \A s \in Runs \ {r} : run'[s] = run[s]
         /\ RunOK(run'[r]) /\ run'[r].call = state
<1>1. /\ DOMAIN run' = Runs /\ \A s \in Runs \ {r} : run'[s] = run[s]
      /\ DOMAIN run'[r] = RunFields /\ run'[r].call = state
      /\ run'[r].phase = run[r].phase /\ run'[r].at = run[r].at /\ run'[r].pos = run[r].pos
  BY SetFields DEF RunFields
<1> QED BY <1>1 DEF ClInv, RunOK

LEMMA CallInv ==
  ASSUME ClInv, NEW r \in Runs,
         Call(r) \/ Answer(r) \/ TooMany(r) \/ CallFails(r)
  PROVE  ClInv'
<1>1. /\ DOMAIN day' = {"calls", "writer", "pending"} /\ day'.writer \in Runs \cup {NoRun}
      /\ ClientOf[r] \in Clients /\ limited \subseteq Clients
      /\ \A s \in {"first", "second", "read"} : s \in CallStates
  BY ClassifyAssumption DEF Call, Answer, TooMany, CallFails, ClInv, ClTypes, CallStates
<1>2. CASE Call(r)
  <2>1. spent' = spent /\ limited' = limited
    BY <1>2 DEF Call
  <2>2. CASE Available(r) /\ Set(r, [call |-> "first"]) /\ UNCHANGED result
    <3>1. spent < DailyBudget
      BY <2>2 DEF Available, WithinBudget
    <3> QED BY <1>1, <2>1, <2>2, <3>1, CallState, RunMoves
  <2>3. CASE Gives(r)
    <3>1. ~Asking(r)'
      BY <2>3, GivesRun DEF Asking
    <3> QED BY <1>1, <2>1, <2>3, <3>1, GivesRun, RunMoves
  <2> QED BY <1>2, <2>2, <2>3 DEF Call
<1>3. CASE Answer(r)
  <2>1. spent' = spent + 1 /\ limited' = limited /\ Asking(r)
    BY <1>3 DEF Answer
  <2>2. CASE Set(r, [call |-> "read"]) /\ UNCHANGED result
    <3>1. /\ DOMAIN run' = Runs /\ \A s \in Runs \ {r} : run'[s] = run[s]
          /\ RunOK(run'[r]) /\ run'[r].call = "read"
      BY <1>1, <2>2, CallState
    <3>2. ~Asking(r)'
      BY <3>1 DEF Asking
    <3> QED BY <1>1, <2>1, <2>2, <3>1, <3>2, RunMoves
  <2>3. CASE Gives(r)
    <3>1. ~Asking(r)'
      BY <2>3, GivesRun DEF Asking
    <3> QED BY <1>1, <2>1, <2>3, <3>1, GivesRun, RunMoves
  <2> QED BY <1>3, <2>2, <2>3 DEF Answer
<1>4. CASE TooMany(r)
  <2>1. spent' = spent /\ limited' \subseteq Clients /\ Asking(r)
    BY <1>1, <1>4 DEF TooMany
  <2>2. CASE Set(r, [call |-> "second"]) /\ UNCHANGED result
    BY <1>1, <2>1, <2>2, CallState, RunMoves
  <2>3. CASE Gives(r)
    BY <1>1, <2>1, <2>3, GivesRun, RunMoves
  <2> QED BY <1>4, <2>2, <2>3 DEF TooMany
<1>5. CASE CallFails(r)
  <2>1. spent' = spent /\ limited' = limited /\ Asking(r) /\ Gives(r)
    BY <1>5 DEF CallFails
  <2> QED BY <1>1, <2>1, GivesRun, RunMoves
<1> QED BY <1>2, <1>3, <1>4, <1>5

(* Where a recorded answer leads.                                           *)
LEMMA AfterRun ==
  ASSUME ClInv, NEW r \in Runs
  PROVE  LET q == Over(AfterRecord(r), run[r])
         IN  RunOK(q) /\ q.call = "no"
<1> DEFINE q == Over(AfterRecord(r), run[r])
<1>1. LlmBatch \in Nat \ {0} /\ RunOK(run[r])
  BY ClassifyAssumption DEF ClInv
<1>2. DOMAIN q = RunFields
        /\ \A f \in RunFields : q[f] = IF f \in DOMAIN AfterRecord(r) THEN AfterRecord(r)[f] ELSE run[r][f]
  BY <1>1 DEF Over, RunOK
<1> HIDE DEF q
<1>3. CASE run[r].phase = "batch"
  <2>1. AfterRecord(r) = [phase |-> "judge", pos |-> run[r].at, call |-> "no"]
    BY <1>3 DEF AfterRecord
  <2>2. q.phase = "judge" /\ q.pos = run[r].at /\ q.at = run[r].at /\ q.call = "no"
    BY <1>2, <2>1 DEF RunFields
  <2>3. RunOK(q)
    BY <1>1, <1>2, <2>2 DEF RunOK, Phases, CallStates
  <2> QED BY <2>2, <2>3 DEF q
<1>4. CASE run[r].phase = "refix"
  <2>1. AfterRecord(r) = [phase |-> "single", at |-> run[r].at + 1, call |-> "no"]
    BY <1>4 DEF AfterRecord
  <2>2. q.phase = "single" /\ q.at = run[r].at + 1 /\ q.call = "no"
    BY <1>2, <2>1 DEF RunFields
  <2>3. RunOK(q)
    BY <1>1, <1>2, <2>2 DEF RunOK, Phases, CallStates
  <2> QED BY <2>2, <2>3 DEF q
<1>5. CASE run[r].phase \notin {"batch", "refix"}
  <2>1. AfterRecord(r) = [phase |-> "judge", pos |-> 0, call |-> "no"]
    BY <1>5 DEF AfterRecord
  <2>2. q.phase = "judge" /\ q.pos = 0 /\ q.at = run[r].at /\ q.call = "no"
    BY <1>2, <2>1 DEF RunFields
  <2>3. RunOK(q)
    BY <1>1, <1>2, <2>2 DEF RunOK, Phases, CallStates
  <2> QED BY <2>2, <2>3 DEF q
<1> QED BY <1>3, <1>4, <1>5

LEMMA RecordInv ==
  ASSUME ClInv, NEW r \in Runs, ReadSpend(r) \/ FlushSpend(r)
  PROVE  ClInv'
<1>1. /\ DOMAIN day' = {"calls", "writer", "pending"} /\ day'.writer \in Runs \cup {NoRun}
      /\ limited' \subseteq Clients /\ spent' = spent /\ ~Asking(r)
      /\ DOMAIN run = Runs /\ RunOK(run[r]) /\ "flush" \in CallStates
  BY DEF ReadSpend, FlushSpend, Asking, ClInv, ClTypes, CallStates
<1>2. CASE Set(r, [call |-> "flush", seen |-> SpendSeen(r)]) /\ UNCHANGED result
  <2>1. /\ DOMAIN run' = Runs /\ \A s \in Runs \ {r} : run'[s] = run[s]
        /\ DOMAIN run'[r] = RunFields /\ run'[r].call = "flush"
        /\ run'[r].phase = run[r].phase /\ run'[r].at = run[r].at /\ run'[r].pos = run[r].pos
    BY <1>2, SetFields DEF RunFields
  <2>2. RunOK(run'[r]) /\ ~Asking(r)'
    BY <1>1, <2>1 DEF RunOK, Asking
  <2> QED BY <1>1, <1>2, <2>1, <2>2, RunMoves
<1>3. UNCHANGED result \/ \E ms : \E method \in Results : Give(r, ms, method)
  BY DEF ReadSpend, FlushSpend, Kept, Results
<1>4. CASE Set(r, AfterRecord(r))
  <2>1. /\ DOMAIN run' = Runs /\ \A s \in Runs \ {r} : run'[s] = run[s]
        /\ run'[r] = Over(AfterRecord(r), run[r])
    BY <1>1, <1>4 DEF Set
  <2>2. RunOK(run'[r]) /\ ~Asking(r)'
    BY <2>1, AfterRun DEF Asking
  <2> QED BY <1>1, <1>3, <2>1, <2>2, RunMoves
<1>5. CASE FlushSpend(r)
  <2>1. PICK loses : run' = [run EXCEPT ![r] = [Over(AfterRecord(r), @) EXCEPT !.broken = loses]]
    BY <1>5 DEF FlushSpend
  <2>2. /\ DOMAIN run' = Runs /\ \A s \in Runs \ {r} : run'[s] = run[s]
        /\ run'[r] = [Over(AfterRecord(r), run[r]) EXCEPT !.broken = loses]
    BY <1>1, <2>1
  <2>3. RunOK(Over(AfterRecord(r), run[r])) /\ Over(AfterRecord(r), run[r]).call = "no"
    BY AfterRun
  <2>4. RunOK(run'[r]) /\ run'[r].call = "no"
    BY <2>2, <2>3 DEF RunOK, RunFields
  <2> QED BY <1>1, <1>3, <2>2, <2>4, RunMoves DEF Asking
<1> QED BY <1>2, <1>4, <1>5 DEF ReadSpend

LEMMA JudgeInv ==
  ASSUME ClInv, NEW r \in Runs, JudgeBatch(r) \/ JudgeSingle(r)
  PROVE  ClInv'
<1>1. /\ DOMAIN day' = {"calls", "writer", "pending"} /\ day'.writer \in Runs \cup {NoRun}
      /\ limited' \subseteq Clients /\ spent' = spent /\ run[r].phase = "judge"
      /\ DOMAIN run = Runs /\ RunOK(run[r]) /\ LlmBatch \in Nat \ {0}
      /\ UNCHANGED result \/ \E ms : \E method \in Results : Give(r, ms, method)
  BY ClassifyAssumption DEF JudgeBatch, JudgeSingle, ClInv, ClTypes, Results
<1>2. CASE NextBatch(r) \/ NextSingle(r)
  BY <1>1, <1>2, NextRun, RunMoves DEF Asking
<1>3. CASE ~LastOfBatch(r) /\ NextJudged(r)
  <2>1. run[r].pos \in 0 .. run[r].at + LlmBatch - 1
    BY <1>1, <1>3 DEF LastOfBatch, RunOK
  <2> QED BY <1>1, <1>3, <2>1, NextRun, RunMoves DEF Asking
<1>4. ASSUME NEW phase \in {"fix", "refix"}, Set(r, [phase |-> phase]),
             phase = "fix" => run[r].pos \in 0 .. run[r].at + LlmBatch - 1
      PROVE  ClInv'
  <2>1. /\ DOMAIN run' = Runs /\ \A s \in Runs \ {r} : run'[s] = run[s]
        /\ DOMAIN run'[r] = RunFields /\ run'[r].phase = phase /\ run'[r].call = run[r].call
        /\ run'[r].at = run[r].at /\ run'[r].pos = run[r].pos
    BY <1>4, SetFields DEF RunFields
  <2>2. RunOK(run'[r]) /\ (Asking(r)' => Asking(r))
    BY <1>1, <1>4, <2>1 DEF RunOK, Asking, Phases
  <2> QED BY <1>1, <2>1, <2>2, RunMoves
<1>5. CASE ~LastOfBatch(r) /\ Set(r, [phase |-> "fix"])
  <2>1. run[r].pos \in 0 .. run[r].at + LlmBatch - 1
    BY <1>1, <1>5 DEF LastOfBatch, RunOK
  <2> QED BY <1>4, <1>5, <2>1
<1>6. CASE Set(r, [phase |-> "refix"])
  BY <1>4, <1>6
<1> QED BY <1>2, <1>3, <1>5, <1>6 DEF JudgeBatch, JudgeSingle

(* The steps between the phases.                                            *)
LEMMA PhaseInv ==
  ASSUME ClInv, NEW r \in Runs, NEW phase \in {"batch", "single", "commit", "done"}, NEW fields,
         Set(r, fields), "phase" \in DOMAIN fields, fields.phase = phase, "call" \notin DOMAIN fields,
         "at" \in DOMAIN fields => fields.at \in Nat \ {0},
         UNCHANGED result \/ \E ms : \E method \in Results : Give(r, ms, method),
         UNCHANGED <<limited, spent>>,
         DOMAIN day' = {"calls", "writer", "pending"}, day'.writer \in Runs \cup {NoRun}
  PROVE  ClInv'
<1>1. /\ DOMAIN run' = Runs /\ \A s \in Runs \ {r} : run'[s] = run[s]
      /\ DOMAIN run'[r] = RunFields /\ run'[r].phase = phase /\ run'[r].call = run[r].call
      /\ run'[r].at = (IF "at" \in DOMAIN fields THEN fields.at ELSE run[r].at)
  BY SetFields DEF RunFields
<1>2. RunOK(run'[r]) /\ (Asking(r)' => Asking(r))
  BY <1>1 DEF ClInv, RunOK, Asking, Phases
<1>3. limited' \subseteq Clients
  BY DEF ClInv, ClTypes
<1> QED BY <1>1, <1>2, <1>3, RunMoves

LEMMA BetweenInv ==
  ASSUME ClInv, NEW r \in Runs,
         Begin(r) \/ ToSingles(r) \/ SkipSingle(r) \/ LastDone(r) \/ CommitRun(r)
  PROVE  ClInv'
<1>1. DOMAIN day = {"calls", "writer", "pending"} /\ day.writer \in Runs \cup {NoRun} /\ "rule" \in Results
  BY DEF ClInv, ClTypes, Results
<1>2. CASE Begin(r)
  <2>1. PICK ms, todo : Give(r, ms, "rule") /\ Set(r, [phase |-> "batch", todo |-> todo])
    BY <1>2 DEF Begin
  <2>2. UNCHANGED <<limited, spent, day>>
    BY <1>2 DEF Begin
  <2> QED BY <1>1, <2>1, <2>2, PhaseInv
<1>3. CASE ToSingles(r)
  BY <1>1, <1>3, PhaseInv DEF ToSingles
<1>4. CASE SkipSingle(r)
  <2>1. /\ NextSingle(r) /\ UNCHANGED <<limited, spent, day>>
        /\ \E ms : \E method \in Results : Give(r, ms, method)
    BY <1>1, <1>4 DEF SkipSingle
  <2>2. limited' \subseteq Clients /\ spent' = spent
    BY <2>1 DEF ClInv, ClTypes
  <2>3. /\ DOMAIN run' = Runs /\ \A s \in Runs \ {r} : run'[s] = run[s]
        /\ RunOK(run'[r]) /\ ~Asking(r)'
    BY <2>1, NextRun DEF Asking
  <2> QED BY <1>1, <2>1, <2>2, <2>3, RunMoves
<1>5. CASE LastDone(r)
  BY <1>1, <1>5, PhaseInv DEF LastDone
<1>6. CASE CommitRun(r)
  <2>1. DOMAIN day' = {"calls", "writer", "pending"} /\ day'.writer \in Runs \cup {NoRun}
    BY <1>1, <1>6 DEF CommitRun
  <2> QED BY <1>6, <2>1, PhaseInv DEF CommitRun
<1> QED BY <1>2, <1>3, <1>4, <1>5, <1>6

LEMMA ClStepInv == ClInv /\ [ClNext]_clVars => ClInv'
<1> SUFFICES ASSUME ClInv, [ClNext]_clVars PROVE ClInv'
  OBVIOUS
<1>1. ASSUME NEW c \in Clients, Relent(c) PROVE ClInv'
  <2>1. limited' \subseteq Clients /\ UNCHANGED <<result, run, spent, day>>
    BY <1>1 DEF Relent, ClInv, ClTypes
  <2> QED BY <2>1 DEF ClInv, ClTypes, Reserved, Waiting, Asking
<1>2. CASE UNCHANGED clVars
  BY <1>2 DEF clVars, ClInv, ClTypes, Reserved, Waiting, Asking
<1> QED BY <1>1, <1>2, CallInv, RecordInv, JudgeInv, BetweenInv DEF ClNext, RunStep

LEMMA ClCorrect == ClInv => ClTypeOK /\ DailySpendBounded
<1> SUFFICES ASSUME ClInv PROVE ClTypeOK /\ DailySpendBounded
  OBVIOUS
<1>1. spent < DailyBudget + Cardinality(Runs)
  <2>1. Waiting \in SUBSET Runs /\ spent \in Nat /\ DailyBudget \in Nat
    BY ClassifyAssumption DEF Waiting, ClInv, ClTypes
  <2> QED BY <2>1, WaitingFinite DEF ClInv, Reserved
<1>2. \A r \in Runs : run[r].phase \in {"judge", "fix"} => run[r].pos \in 0 .. run[r].at + LlmBatch
  BY ClassifyAssumption DEF ClInv, RunOK
<1> QED BY <1>1, <1>2 DEF ClInv, ClTypes, RunOK, ClTypeOK, DailySpendBounded, Results

(* The runs always have their type.                                         *)
THEOREM ClTypeCorrect == ClSpec => []ClTypeOK
BY ClInitInv, ClStepInv, ClCorrect, PTL DEF ClSpec

(* However many runs overlap, the answers of a day are at most the budget   *)
(* and one for every other run (llm/client.py, SpendTracker): a run asks    *)
(* for the budget before it calls and pays when the answer is there, and a  *)
(* call answers once.                                                       *)
THEOREM SpendBounded == ClSpec => []DailySpendBounded
BY ClInitInv, ClStepInv, ClCorrect, PTL DEF ClSpec

-----------------------------------------------------------------------------
(* Both parts together, as they are checked.                                *)
THEOREM CallsCorrect == CallsSpec => [](CallsTypeOK /\ DailySpendBounded /\ GroqWithinLimits)
<1>1. CallsInit => ClInv /\ GlInv
  BY ClInitInv, GlInitInv DEF CallsInit
<1>2. ClInv /\ GlInv /\ [CallsNext]_callVars => ClInv' /\ GlInv'
  <2>1. [CallsNext]_callVars => [ClNext]_clVars /\ [GlNext]_glVars
    BY DEF CallsNext, callVars
  <2> QED BY <2>1, ClStepInv, GlStepInv
<1>3. GlInv => GlTypeOK /\ GroqWithinLimits
  BY DEF GlInv, GlTypeOK, GroqWithinLimits, Bucket
<1> QED BY <1>1, <1>2, <1>3, ClCorrect, PTL DEF CallsSpec, CallsTypeOK
=============================================================================
