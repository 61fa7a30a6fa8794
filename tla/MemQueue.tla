------------------------------ MODULE MemQueue ------------------------------
(***************************************************************************)
(* The in-memory task queue of LOCAL_MODE (class TaskQueue of              *)
(* app/workers/queue.py).  All its state belongs to one event loop: a step *)
(* lies between two awaits, so enqueue() is one step (nothing is awaited   *)
(* while its lock is held, and the queue has no bound).  A restart begins  *)
(* anew.  Tasks are numbered in the order they were made, which is that of *)
(* the timestamps of their keys.                                           *)
(***************************************************************************)
EXTENDS Integers, Sequences, FiniteSets, SequencesExt

CONSTANTS
  MaxTasks,     \* bound: tasks made
  Keys,         \* payload hashes: type, user and payload
  UserOf,       \* the user of each
  SyncKeys,     \* those of type "sync"
  Workers,
  ListLimit,    \* a user's list is cut when it is longer (100) ...
  ListKeep,     \* ... to this length (80)
  MaxKeys,      \* _IDEMPOTENCY_MAX_SIZE
  NoKey

ASSUME MemQueueAssumption ==
  /\ MaxTasks \in Nat /\ MaxKeys \in Nat \ {0}
  /\ ListLimit \in Nat /\ ListKeep \in 1..ListLimit
  /\ SyncKeys \subseteq Keys /\ NoKey \notin Keys

TaskIds == 1..MaxTasks
NoTask == 0
Users == {UserOf[k] : k \in Keys}

VARIABLES
  task,       \* the Task objects
  kept,       \* _tasks: those that can be looked up
  list,       \* _user_tasks
  idem,       \* _idempotency: pairs of a key and a task
  fifo,       \* _queue
  at,         \* the workers
  forgotten   \* history: tasks dropped from _tasks, or whose key aged out

mqVars == <<task, kept, list, idem, fifo, at, forgotten>>

NewTask == [status |-> "absent", key |-> NoKey]

MqTypeOK ==
  /\ task \in [TaskIds -> [status : {"absent", "pending", "running", "completed", "failed"},
                           key : Keys \cup {NoKey}]]
  /\ kept \subseteq TaskIds /\ forgotten \subseteq TaskIds
  /\ list \in [Users -> Seq(TaskIds)] /\ \A u \in Users : Len(list[u]) <= ListLimit
  /\ idem \subseteq Keys \X TaskIds /\ Cardinality(idem) <= MaxKeys
  /\ fifo \in Seq(TaskIds)
  /\ at \in [Workers -> [pc : {"idle", "asleep", "handler"}, task : TaskIds \cup {NoTask}]]

Idle == [pc |-> "idle", task |-> NoTask]

MqInit ==
  /\ task = [t \in TaskIds |-> NewTask]
  /\ kept = {} /\ forgotten = {}
  /\ list = [u \in Users |-> <<>>]
  /\ idem = {} /\ fifo = <<>>
  /\ at = [w \in Workers |-> Idle]

-----------------------------------------------------------------------------
Waiting(t) == task[t].status = "pending"        \* mutant of Unfinished
Unfinished(t) == task[t].status \in {"pending", "running"}

Named(k) == {t \in kept : <<k, t>> \in idem}

(* The newest of some entries.                                              *)
Newest(entries) ==
  {S \in SUBSET entries : \A e \in S, f \in entries \ S : f[2] < e[2]}

(* _prune_idempotency(): the entries of more than an hour, which are the    *)
(* oldest, and then the oldest that are too many; never the new one.        *)
Pruned(entries) ==
  IF Cardinality(entries) <= MaxKeys THEN {entries}
  ELSE {S \in Newest(entries) : S # {} /\ Cardinality(S) <= MaxKeys}
Lost(before, after) == {e[2] : e \in before \ after}

NotCut(ids) == ids                              \* mutant of Cut
Cut(ids) == IF Len(ids) > ListLimit
            THEN SubSeq(ids, Len(ids) - ListKeep + 1, Len(ids)) ELSE ids

(* enqueue(): the unfinished task of the same payload, or a new one.        *)
Fresh(t) == task[t].status = "absent" /\ \A s \in 1..(t - 1) : task[s].status # "absent"

Enqueue(k) ==
  /\ ~\E t \in Named(k) : Unfinished(t)
  /\ \E t \in TaskIds :
       LET u    == UserOf[k]
           ids  == Append(list[u], t)
           keys == {e \in idem : e[1] # k} \cup {<<k, t>>}
           gone == ToSet(ids) \ ToSet(Cut(ids))
       IN /\ Fresh(t)
          /\ task' = [task EXCEPT ![t] = [status |-> "pending", key |-> k]]
          /\ idem' \in Pruned(keys)
          /\ list' = [list EXCEPT ![u] = Cut(ids)]
          /\ kept' = (kept \cup {t}) \ gone
          /\ fifo' = Append(fifo, t)
          /\ forgotten' = forgotten \cup gone \cup Lost(keys, idem')
  /\ UNCHANGED at

(* cleanup_idempotency(), from a cron job.                                  *)
CleanUp ==
  /\ idem' \in Newest(idem) \ {idem}
  /\ forgotten' = forgotten \cup Lost(idem, idem')
  /\ UNCHANGED <<task, kept, list, fifo, at>>

-----------------------------------------------------------------------------
(* _worker(): _running_users holds the users of the syncs that run.         *)

RunningUsers == {UserOf[task[at[w].task].key] :
                   w \in {v \in Workers : at[v].pc = "handler"
                                          /\ task[at[v].task].key \in SyncKeys}}
AnyTime(t) == TRUE                              \* mutant of CanStart
CanStart(t) == task[t].key \in SyncKeys => UserOf[task[t].key] \notin RunningUsers

Forget(t) == fifo' = Tail(fifo)                 \* mutant of PutBack
PutBack(t) == fifo' = Append(Tail(fifo), t)

Pop(w) ==
  /\ at[w].pc = "idle" /\ fifo # <<>>
  /\ LET t == Head(fifo)
     IN \/ /\ t \notin kept
           /\ fifo' = Tail(fifo)
           /\ UNCHANGED <<at, task>>
        \/ /\ t \in kept /\ ~CanStart(t)
           /\ PutBack(t)
           /\ at' = [at EXCEPT ![w].pc = "asleep"]
           /\ UNCHANGED task
        \/ /\ t \in kept /\ CanStart(t)
           /\ fifo' = Tail(fifo)
           /\ task' = [task EXCEPT ![t].status = "running"]
           /\ at' = [at EXCEPT ![w] = [pc |-> "handler", task |-> t]]
  /\ UNCHANGED <<kept, list, idem, forgotten>>

Wake(w) ==
  /\ at[w].pc = "asleep"
  /\ at' = [at EXCEPT ![w] = Idle]
  /\ UNCHANGED <<task, kept, list, idem, fifo, forgotten>>

(* The handler returns or raises; the user is free again in either case.    *)
Finish(w) ==
  /\ at[w].pc = "handler"
  /\ \E s \in {"completed", "failed"} : task' = [task EXCEPT ![at[w].task].status = s]
  /\ at' = [at EXCEPT ![w] = Idle]
  /\ UNCHANGED <<kept, list, idem, fifo, forgotten>>

Work(w) == Pop(w) \/ Wake(w) \/ Finish(w)

MqNext ==
  \/ \E k \in Keys : Enqueue(k)
  \/ CleanUp
  \/ \E w \in Workers : Work(w)

(* Worker coroutines are scheduled again and again, and handlers end.       *)
MqFair == \A w \in Workers : WF_mqVars(Work(w))
MqSpec == MqInit /\ [][MqNext]_mqVars /\ MqFair

-----------------------------------------------------------------------------
(* The queue keeps the promises of TaskLifecycle, without a second try: a   *)
(* task runs once, syncs of a user never overlap, a settled task is final.  *)
Life == INSTANCE TaskLifecycle WITH
  Tasks       <- TaskIds,
  MaxAttempts <- 0,
  Groups      <- Users,
  None        <- NoKey,
  state       <- [t \in TaskIds |-> task[t].status],
  attempts    <- [t \in TaskIds |-> 0],
  executing   <- {at[w].task : w \in {v \in Workers : at[v].pc = "handler"}},
  group       <- [t \in TaskIds |-> IF task[t].key \in SyncKeys THEN UserOf[task[t].key] ELSE NoKey]

MemImplementsLifecycle == Life!LifeSpec

(* A payload that is asked for again while it waits or runs is the task     *)
(* that exists: every unfinished task is the one its key names, unless its  *)
(* user's list overflowed or its key aged out.                              *)
OneTaskPerKey == \A t \in TaskIds :
  task[t].status \in {"pending", "running"} => (t \in forgotten \/ t \in Named(task[t].key))

(* A task that waits is executed to its end, unless its user's list has     *)
(* overflowed: a deferred sync goes back to the queue, every time.          *)
EveryTaskEnds == \A t \in TaskIds :
  (task[t].status = "pending") ~> (task[t].status \in {"completed", "failed"} \/ t \notin kept)
=============================================================================
