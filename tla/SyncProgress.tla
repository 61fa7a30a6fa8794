---------------------------- MODULE SyncProgress ----------------------------
(***************************************************************************)
(* Progress of the long jobs of a user (app/sync/progress.py), as the task *)
(* handlers, the fetch-range request and the clean-bodies job report it.   *)
(*                                                                         *)
(* Progress is a Python dict per user.  Jobs hold references to it, change *)
(* it in place, and replace it when they start; persisting puts the        *)
(* reference in a bounded queue, from which a coroutine writes rows once   *)
(* the queue has been quiet for a second.  A restart keeps the rows only.  *)
(* One process; a step lies between two awaits.                            *)
(***************************************************************************)
EXTENDS Integers, Sequences, FiniteSets, SequencesExt

CONSTANTS
  Users,
  Jobs,         \* the jobs that may run
  OwnerOf,      \* the user of each job
  KindOf,       \* "sync", "range" (tasks), "fetch" (request) or "clean"
  Dicts,        \* bound: the dicts alive at once
  QueueSize,    \* maxsize of the write queue
  MaxStops,     \* bound: restarts of the process
  NoDict

Kinds == {"sync", "range", "fetch", "clean"}

ASSUME ProgressAssumption ==
  /\ OwnerOf \in [Jobs -> Users]
  /\ KindOf \in [Jobs -> Kinds]
  /\ QueueSize \in Nat \ {0} /\ MaxStops \in Nat
  /\ NoDict \notin Dicts

VARIABLES
  heap,       \* the contents of each dict
  mem,        \* _sync_progress: the dict of each user
  queue,      \* _progress_write_queue: users and dicts
  writer,     \* the coroutine _progress_writer_loop
  row,        \* sync_progress: the stored rows
  startup,    \* the coroutine _startup_init, with what it has selected
  job,        \* the jobs: where they are, and the dict they hold as prog
  stops,
  abandoned,  \* history: users with a job that ended without a word
  disturbed,  \* history: jobs whose dict another job or the startup ended
  old         \* history: users whose row an earlier process wrote

jobVars == <<job, abandoned, disturbed>>
dbVars  == <<row, old>>
pgVars  == <<heap, mem, queue, writer, dbVars, startup, stops, jobVars>>

Phases   == {"idle", "busy", "error"}       \* "done" is like "idle"
Progress == [running : BOOLEAN, phase : Phases]
NoRow    == [running |-> FALSE, phase |-> "none"]
Default  == [running |-> FALSE, phase |-> "idle"]
Started  == [running |-> TRUE,  phase |-> "busy"]
Failed   == [running |-> FALSE, phase |-> "error"]
Finished == [running |-> FALSE, phase |-> "idle"]

Items == Users \X Dicts
NewWriter == [pc |-> "off", pending |-> <<>>, batch |-> <<>>, bound |-> FALSE]

PgTypeOK ==
  /\ heap \in [Dicts -> Progress]
  /\ mem \in [Users -> Dicts \cup {NoDict}]
  /\ queue \in Seq(Items) /\ Len(queue) <= QueueSize
  /\ writer \in [pc : {"off", "get", "write", "dead"}, pending : Seq(Items),
                 batch : Seq(Items), bound : BOOLEAN]
  /\ row \in [Users -> Progress \cup {NoRow}]
  /\ startup \in [pc : {"new", "select", "commit", "done"}, stale : SUBSET Users]
  /\ job \in [Jobs -> [pc : {"idle", "begun", "running", "returned", "raised"},
                       prog : Dicts \cup {NoDict}]]
  /\ stops \in 0..MaxStops
  /\ abandoned \subseteq Users /\ disturbed \subseteq Jobs /\ old \subseteq Users

IdleJobs == [j \in Jobs |-> [pc |-> "idle", prog |-> NoDict]]

PgInit ==
  /\ heap = [d \in Dicts |-> Default]
  /\ mem = [u \in Users |-> NoDict]
  /\ queue = <<>>
  /\ writer = NewWriter
  /\ row = [u \in Users |-> NoRow]
  /\ startup = [pc |-> "new", stale |-> {}]
  /\ job = IdleJobs
  /\ stops = 0
  /\ abandoned = {} /\ disturbed = {} /\ old = {}

-----------------------------------------------------------------------------
(* Dicts, and the operations of a coroutine on them.                        *)

Held == {mem[u] : u \in Users} \cup {job[j].prog : j \in Jobs}
        \cup {item[2] : item \in ToSet(queue) \cup ToSet(writer.pending) \cup ToSet(writer.batch)}
Free == Dicts \ Held

PutAll(q, items) == q \o items                          \* mutant of Put

(* _persist_progress(): nothing before the startup has set the session      *)
(* factory; an item that does not fit is dropped.                           *)
Put(q, items) == IF startup.pc = "new" THEN q
                 ELSE SubSeq(q \o items, 1, IF Len(q \o items) < QueueSize
                                            THEN Len(q \o items) ELSE QueueSize)

(* _user_progress(): a user without an entry gets a default one (the load   *)
(* from the database it starts then finds the entry taken), here from       *)
(* GET /sync/progress; every job begins with it as well.                    *)
Poll(u) ==
  /\ mem[u] = NoDict
  /\ \E d \in Free :
       mem' = [mem EXCEPT ![u] = d] /\ heap' = [heap EXCEPT ![d] = Default]
  /\ UNCHANGED <<queue, writer, dbVars, startup, stops, jobVars>>

(* _log_event(), then the change of the dict the job holds and the change   *)
(* of the user's present one: what all steps of a job consist of.           *)
Change(j, mine, theirs, logs) ==
  LET u == OwnerOf[j]
  IN /\ heap' = [d \in Dicts |->
                   IF d = mem[u] /\ theirs # <<>> THEN Head(theirs)
                   ELSE IF d = job[j].prog /\ mine # <<>> THEN Head(mine)
                   ELSE heap[d]]
     /\ queue' = Put(queue, [i \in 1..logs |-> <<u, mem[u]>>])
     /\ UNCHANGED <<mem, writer, dbVars, startup, stops>>

-----------------------------------------------------------------------------
(* The jobs.                                                                *)

Active(j) == job[j].pc # "idle"
Others(j) == {k \in Jobs : k # j /\ OwnerOf[k] = OwnerOf[j] /\ Active(k)}

Goes(j, pc) ==
  /\ job' = [job EXCEPT ![j].pc = pc]
  /\ UNCHANGED <<abandoned, disturbed>>
Ends(j) ==
  /\ job' = [job EXCEPT ![j] = IdleJobs[j]]
  /\ disturbed' = (disturbed \ {j}) \cup Others(j)
  /\ UNCHANGED abandoned
Returns(j) ==            \* a sync to its handler; the others to nobody
  IF KindOf[j] = "sync"
  THEN /\ job' = [job EXCEPT ![j].pc = "returned"]
       /\ disturbed' = disturbed \cup Others(j)
       /\ UNCHANGED abandoned
  ELSE Ends(j)
EndsSilently(j) ==
  /\ job' = [job EXCEPT ![j] = IdleJobs[j]]
  /\ abandoned' = abandoned \cup {OwnerOf[j]}
  /\ disturbed' = disturbed \ {j}

(* The handler logs, resets and logs; its sync runs in a task of its own,   *)
(* and takes the dict it finds then.  The other jobs take the one they made.*)
Fresh == Started

Begin(j) ==
  LET u == OwnerOf[j]
  IN /\ ~Active(j)
     /\ KindOf[j] = "sync" => \A k \in Others(j) : KindOf[k] # "sync"
     /\ \E f \in IF mem[u] = NoDict THEN Free ELSE {mem[u]} : \E d \in Free \ {f} :
          LET first == IF KindOf[j] \in {"sync", "range"} THEN <<<<u, f>>>> ELSE <<>>
          IN /\ heap' = [heap EXCEPT ![d] = Fresh,
                                     ![f] = IF mem[u] = NoDict THEN Default ELSE @]
             /\ mem' = [mem EXCEPT ![u] = d]
             /\ queue' = Put(queue, first \o <<<<u, d>>, <<u, d>>>>)
             /\ job' = [job EXCEPT ![j] =
                  IF KindOf[j] = "sync" THEN [pc |-> "begun", prog |-> NoDict]
                  ELSE [pc |-> "running", prog |-> d]]
     /\ abandoned' = abandoned \ {u}
     /\ UNCHANGED <<disturbed, writer, dbVars, startup, stops>>

Capture(j) ==
  /\ job[j].pc = "begun"
  /\ job' = [job EXCEPT ![j] = [pc |-> "running", prog |-> mem[OwnerOf[j]]]]
  /\ UNCHANGED <<abandoned, disturbed, heap, mem, queue, writer, dbVars, startup, stops>>

(* Messages fetched, a batch classified or cleaned: counters and a log line.*)
Work(j) ==
  /\ job[j].pc = "running"
  /\ Change(j, <<[heap[job[j].prog] EXCEPT !.phase = "busy"]>>, <<>>, 1)
  /\ Goes(j, "running")

(* The end is reported in the dict the job holds, then logged.              *)
Succeed(j) ==
  /\ job[j].pc = "running"
  /\ Change(j, <<Finished>>, IF job[j].prog = mem[OwnerOf[j]] THEN <<Finished>> ELSE <<>>, 1)
  /\ Returns(j)

(* Gmail cannot be asked: the function returns an error.                    *)
FetchFails(j) ==
  /\ job[j].pc = "running"
  /\ Change(j, <<Failed>>, IF job[j].prog = mem[OwnerOf[j]] THEN <<Failed>> ELSE <<>>,
            IF KindOf[j] = "sync" THEN 0 ELSE 1)
  /\ Returns(j)

(* Another exception: the sync logs it and notes the phase, and leaves it   *)
(* to its handler to say that it is not running.                            *)
Raise(j) ==
  /\ job[j].pc = "running"
  /\ CASE KindOf[j] = "sync" ->
            /\ Change(j, <<[heap[job[j].prog] EXCEPT !.phase = "error"]>>, <<>>, 1)
            /\ Goes(j, "raised")
       [] KindOf[j] = "range" ->
            /\ Change(j, <<>>, <<>>, 0)
            /\ Goes(j, "raised")
       [] OTHER ->            \* nobody reports it
            /\ Change(j, <<>>, <<>>, 0)
            /\ EndsSilently(j)

(* The handler: handle_sync_task() says again what sync_emails() said, in   *)
(* the user's present dict; both handlers report an exception there.        *)
HandlerEnds(j) ==
  /\ job[j].pc = "returned"
  /\ LET now == heap[mem[OwnerOf[j]]]
     IN \/ heap[job[j].prog].phase = "error" /\ Change(j, <<>>, <<Failed>>, 0)
        \/ heap[job[j].prog].phase # "error" /\ Change(j, <<>>, <<[now EXCEPT !.running = FALSE]>>, 0)
  /\ Ends(j)

Ignores(j) == Change(j, <<>>, <<>>, 1)             \* mutant of Reports
Reports(j) == Change(j, <<>>, <<Failed>>, 1)

HandlerRaises(j) == job[j].pc = "raised" /\ Reports(j) /\ Ends(j)

(* The handler's own timeout of the sync or the fetch-range.                *)
TimesOut(j) ==
  /\ job[j].pc \in {"begun", "running"}
  /\ KindOf[j] \in {"sync", "range"}
  /\ Reports(j) /\ Ends(j)

(* The queue's timeout or a client's disconnection cancels the coroutine:   *)
(* no except clause runs.                                                   *)
Cancel(j) ==
  /\ job[j].pc \in {"begun", "running"}
  /\ Change(j, <<>>, <<>>, 0)
  /\ EndsSilently(j)

JobStep(j) ==
  \/ Begin(j) \/ Capture(j) \/ Work(j) \/ Succeed(j) \/ FetchFails(j)
  \/ Raise(j) \/ HandlerEnds(j) \/ HandlerRaises(j) \/ TimesOut(j) \/ Cancel(j)

-----------------------------------------------------------------------------
(* The writer.                                                              *)

(* pending[user_id] = data keeps the place of a user that is there already. *)
Noted(pending, item) ==
  IF \E i \in DOMAIN pending : pending[i][1] = item[1]
  THEN [i \in DOMAIN pending |-> IF pending[i][1] = item[1] THEN item ELSE pending[i]]
  ELSE Append(pending, item)

Take ==
  /\ writer.pc = "get" /\ queue # <<>>
  /\ writer' = [writer EXCEPT !.pending = Noted(@, Head(queue))]
  /\ queue' = Tail(queue)
  /\ UNCHANGED <<heap, mem, dbVars, startup, stops, jobVars>>

(* A second without an item.  The names "writes" and "deletes" are bound by *)
(* the first batch: a quiet second before that is an UnboundLocalError.     *)
QuietSecond ==
  /\ writer.pc = "get" /\ queue = <<>>
  /\ writer' = IF writer.pending # <<>>
               THEN [writer EXCEPT !.pc = "write", !.batch = writer.pending,
                                   !.pending = <<>>, !.bound = TRUE]
               ELSE IF writer.bound THEN writer
               ELSE [writer EXCEPT !.pc = "dead"]
  /\ UNCHANGED <<heap, mem, queue, dbVars, startup, stops, jobVars>>

Stored(item) == [row EXCEPT ![item[1]] = heap[item[2]]]

(* _do_write_progress() writes what the dict holds by now; an error of the  *)
(* database is logged and the item forgotten.                               *)
WriteRow ==
  /\ writer.pc = "write"
  /\ \/ row' = Stored(Head(writer.batch)) /\ old' = old \ {Head(writer.batch)[1]}
     \/ UNCHANGED dbVars
  /\ writer' = [writer EXCEPT !.batch = Tail(@),
                              !.pc = IF Len(writer.batch) > 1 THEN "write" ELSE "get"]
  /\ UNCHANGED <<heap, mem, queue, startup, stops, jobVars>>

-----------------------------------------------------------------------------
(* Start, recovery and stop of the process.                                 *)

(* _startup_init(), while workers run already.                              *)
StartUp ==
  /\ startup.pc = "new"
  /\ startup' = [pc |-> "select", stale |-> {}]
  /\ writer' = [NewWriter EXCEPT !.pc = "get"]
  /\ UNCHANGED <<heap, mem, queue, dbVars, stops, jobVars>>

RunningRows == {u \in Users : row[u].running}
StaleRows == RunningRows

(* Each gets a new dict, whatever a job has put there since.  (A recovery   *)
(* that fails is one that stays where it is.)                               *)
RecoverApply ==
  /\ startup.pc = "select"
  /\ LET stale == StaleRows
     IN /\ \E ds \in [stale -> Free] :
             /\ \A u, v \in stale : u # v => ds[u] # ds[v]
             /\ mem' = [u \in Users |-> IF u \in stale THEN ds[u] ELSE mem[u]]
             /\ heap' = [d \in Dicts |-> IF \E u \in stale : ds[u] = d THEN Failed ELSE heap[d]]
        /\ disturbed' = disturbed \cup {j \in Jobs : Active(j) /\ OwnerOf[j] \in stale}
        /\ startup' = [pc |-> IF stale = {} THEN "done" ELSE "commit", stale |-> stale]
  /\ UNCHANGED <<queue, writer, dbVars, stops, job, abandoned>>

RecoverCommit ==
  /\ startup.pc = "commit"
  /\ row' = [u \in Users |-> IF u \in startup.stale THEN Failed ELSE row[u]]
  /\ startup' = [pc |-> "done", stale |-> {}]
  /\ UNCHANGED <<heap, mem, queue, writer, old, stops, jobVars>>

Restarts(rows) ==
  /\ stops < MaxStops
  /\ stops' = stops + 1
  /\ row' = rows
  /\ old' = {u \in Users : rows[u] # NoRow}
  /\ heap' = [d \in Dicts |-> Default]
  /\ mem' = [u \in Users |-> NoDict]
  /\ queue' = <<>>
  /\ writer' = NewWriter
  /\ startup' = [pc |-> "new", stale |-> {}]
  /\ job' = IdleJobs
  /\ abandoned' = {} /\ disturbed' = {}

Crash == Restarts(row)

(* stop_progress_writer(): the cancelled writer writes what is pending, not *)
(* the rest of a batch it was writing, nor what is still in the queue.      *)
Shutdown == Restarts([u \in Users |->
  IF writer.pc \in {"get", "write"} /\ \E i \in DOMAIN writer.pending : writer.pending[i][1] = u
  THEN heap[(CHOOSE item \in ToSet(writer.pending) : item[1] = u)[2]]
  ELSE row[u]])

-----------------------------------------------------------------------------
PgNext ==
  \/ \E u \in Users : Poll(u)
  \/ \E j \in Jobs : JobStep(j)
  \/ Take \/ QuietSecond \/ WriteRow
  \/ StartUp \/ RecoverApply \/ RecoverCommit
  \/ Crash \/ Shutdown

PgSpec == PgInit /\ [][PgNext]_pgVars

-----------------------------------------------------------------------------
(* A user sees "running" only while a job of theirs runs, or after one was  *)
(* cancelled or died of an exception that nothing reports: whatever dicts   *)
(* the jobs hold, and in whatever order they replace and end them.          *)
NoPhantomRun == \A u \in Users :
  (mem[u] # NoDict /\ heap[mem[u]].running)
    => (u \in abandoned \/ \E j \in Jobs : OwnerOf[j] = u /\ Active(j))

(* A job that runs is shown as running, unless another job of the user has  *)
(* ended meanwhile or the startup's recovery has replaced its dict.         *)
ActiveIsShown == \A j \in Jobs :
  job[j].pc \in {"begun", "running"}
    => (j \in disturbed \/ heap[mem[OwnerOf[j]]].running)

(* Once a start has recovered, no stored row speaks of a run of an earlier  *)
(* process: a row that says running was written by this one.                *)
NoStaleRun == startup.pc = "done" => \A u \in old : ~row[u].running

(* What the progress of a user tells is true of the jobs, whatever dicts    *)
(* they hold, replace and end, and of the rows after a restart.             *)
ProgressTruthful == NoPhantomRun /\ ActiveIsShown /\ NoStaleRun

(* "Background writer that drains the queue in batches every 1 second"      *)
(* (progress.py): it does so as long as the process lives.                  *)
WriterLives == writer.pc # "dead"
=============================================================================
