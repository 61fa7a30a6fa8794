----------------------------- MODULE RedisQueue -----------------------------
(***************************************************************************)
(* The Redis-backed task queue, app/workers/queue.py, class RedisTaskQueue *)
(* Callers of enqueue() and worker coroutines share one Redis; every await *)
(* of a Redis command is one atomic step, and anything may happen between  *)
(* two of them.                                                            *)
(*                                                                         *)
(* Time is counted in ticks: the TTL of the running_syncs set and the run  *)
(* time of each handler advance together.  The other deadlines (run_after, *)
(* the one-hour TTL of a task hash) are far longer and are left            *)
(* nondeterministic: they pass at some point.                              *)
(***************************************************************************)
EXTENDS Integers, Sequences, FiniteSets

CONSTANTS
  Users,          \* user ids
  Types,          \* task types with a registered handler
  Sync,           \* the type "sync", serialised per user
  TypeRank,       \* position of a type in the order of registration
  Requests,       \* what enqueue() may be called with
  Enqueuers,      \* callers of enqueue(): HTTP handlers, the scheduler
  Workers,        \* worker coroutines
  Processes,      \* operating-system processes that run workers
  ProcessOf,      \* the process of a worker
  MaxRetries,     \* DLQ_MAX_RETRIES
  TaskTimeout,    \* TASK_TIMEOUT, in ticks
  LockTTL,        \* _RUNNING_SYNC_TTL, in ticks
  Prompt,         \* TRUE when a Redis round trip is short against a tick
  MaxCalls,       \* bound: calls of enqueue()
  MaxCrashes,     \* bound: process crashes
  MaxErrors,      \* bound: failing Redis commands
  MaxExpiries,    \* bound: task hashes that outlive _TASK_TTL
  NoType, NoUser  \* a field missing from a hash

Priorities == {"high", "medium", "low"}

ASSUME TypesAssumption ==
  /\ Sync \in Types
  /\ NoType \notin Types
  /\ NoUser \notin Users
  /\ TypeRank \in [Types -> Nat]
  /\ ProcessOf \in [Workers -> Processes]

ASSUME RequestsAssumption ==
  Requests \subseteq [type : Types, user : Users, prio : Priorities,
                      delayed : BOOLEAN]

ASSUME BoundsAssumption ==
  /\ MaxRetries \in Nat \ {0}
  /\ TaskTimeout \in Nat \ {0}
  /\ LockTTL \in Nat \ {0}
  /\ Prompt \in BOOLEAN
  /\ {MaxCalls, MaxCrashes, MaxErrors, MaxExpiries} \subseteq Nat

TaskIds  == 1..MaxCalls
NoTask   == 0
TaskRefs == TaskIds \cup {NoTask}

Statuses == {"absent", "pending", "running", "completed", "failed"}

(* A task:<id> hash.  Fields no property reads (payload, result, error, the *)
(* timestamps) are left out; delayed says that run_after lies ahead, ttl    *)
(* that the key has an expiry.                                              *)
Hash == [type : Types \cup {NoType}, user : Users \cup {NoUser},
         status : Statuses, retry : Nat,
         prio : Priorities, delayed : BOOLEAN, ttl : BOOLEAN]

NoHash == [type |-> NoType, user |-> NoUser, status |-> "absent",
           retry |-> 0, prio |-> "high", delayed |-> FALSE, ttl |-> FALSE]

Queues == Priorities \X (Types \cup {NoType})
Polled == Priorities \X Types       \* the keys of _all_queue_keys()
Keys   == Types \X Users             \* _payload_hash, one payload per pair
PriorityRank == [p \in Priorities |-> IF p = "high" THEN 0
                                      ELSE IF p = "medium" THEN 1 ELSE 2]

Forever == LockTTL + 1               \* a running_syncs key without expiry

VARIABLES
  hash,       \* task:<id>
  idem,       \* idem:<hash of the payload>
  queue,      \* queue:[<priority>:]<type>; BLPOP takes from the left
  dlq,        \* dlq:tasks
  running,    \* running_syncs
  lockTtl,    \* remaining TTL of running_syncs, 0 when the key is gone
  caller,     \* the enqueue() call each enqueuer is in
  calls,      \* calls of enqueue() so far
  raced,      \* history: keys two calls of enqueue() were busy with at once
  pc,         \* the await each worker stands at
  job,        \* the task id a worker took from a queue and still owns
  loc,        \* its local variables
  elapsed,    \* ticks its handler has run
  crashes, errors, expiries

lock       == <<running, lockTtl>>
redisVars  == <<hash, idem, queue, dlq, lock>>
workerVars == <<pc, job, loc, elapsed>>
faults     == <<crashes, errors, expiries>>
env        == <<caller, calls, raced, faults>>
vars       == <<redisVars, workerVars, env>>

-----------------------------------------------------------------------------
NoRequest == [type |-> NoType, user |-> NoUser, prio |-> "high", delayed |-> FALSE]
Caller == [pc : {"idle", "hgetall", "pipeline"}, id : TaskRefs,
           found : TaskRefs, req : Requests \cup {NoRequest}]
IdleCaller == [pc |-> "idle", id |-> NoTask, found |-> NoTask, req |-> NoRequest]

WorkerPCs == {"idle", "hgetall", "defer", "sadd", "busy", "expire", "unhandled",
              "start", "handler", "complete", "hincrby", "retry", "srem", "dead"}

(* task_type, user_id and retry_count of an iteration; dying: an exception  *)
(* is unwinding that nothing catches.                                       *)
Locals == [type : Types \cup {NoType}, user : Users \cup {NoUser}, tries : Nat,
           dying : BOOLEAN]
NoLocals == [type |-> NoType, user |-> NoUser, tries |-> 0, dying |-> FALSE]

TypeOK ==
  /\ hash \in [TaskIds -> Hash]
  /\ idem \in [Keys -> TaskRefs]
  /\ queue \in [Queues -> Seq(TaskIds)]
  /\ dlq \in Seq(TaskIds)
  /\ running \subseteq Users \cup {NoUser}
  /\ lockTtl \in 0..Forever
  /\ caller \in [Enqueuers -> Caller]
  /\ calls \in 0..MaxCalls
  /\ raced \subseteq Keys
  /\ pc \in [Workers -> WorkerPCs]
  /\ job \in [Workers -> TaskRefs]
  /\ loc \in [Workers -> Locals]
  /\ elapsed \in [Workers -> 0..TaskTimeout]
  /\ crashes \in 0..MaxCrashes
  /\ errors \in 0..MaxErrors
  /\ expiries \in 0..MaxExpiries

Init ==
  /\ hash = [t \in TaskIds |-> NoHash]
  /\ idem = [k \in Keys |-> NoTask]
  /\ queue = [q \in Queues |-> << >>]
  /\ dlq = << >>
  /\ running = {}
  /\ lockTtl = 0
  /\ caller = [e \in Enqueuers |-> IdleCaller]
  /\ calls = 0
  /\ raced = {}
  /\ pc = [w \in Workers |-> "idle"]
  /\ job = [w \in Workers |-> NoTask]
  /\ loc = [w \in Workers |-> NoLocals]
  /\ elapsed = [w \in Workers |-> 0]
  /\ crashes = 0 /\ errors = 0 /\ expiries = 0

-----------------------------------------------------------------------------
(* enqueue(): GET idem, HGETALL of the task it names, one MULTI pipeline.   *)
(* The id a call will use is fixed when it starts: uuid4() is fresh either  *)
(* way.                                                                     *)

KeyOf(req) == <<req.type, req.user>>

EnqueueGet(e, req) ==
  /\ caller[e].pc = "idle"
  /\ calls < MaxCalls
  /\ calls' = calls + 1
  /\ raced' = IF \E f \in Enqueuers : /\ caller[f].pc # "idle"
                                     /\ KeyOf(caller[f].req) = KeyOf(req)
              THEN raced \cup {KeyOf(req)} ELSE raced
  /\ LET found == idem[KeyOf(req)]
     IN caller' = [caller EXCEPT ![e] =
          [pc |-> IF found = NoTask THEN "pipeline" ELSE "hgetall",
           id |-> calls + 1, found |-> found, req |-> req]]
  /\ UNCHANGED <<redisVars, workerVars, faults>>

UnfinishedIfPending(t) == hash[t].status = "pending"    \* mutant of Unfinished
Unfinished(t) == hash[t].status \in {"pending", "running"}

EnqueueCheck(e) ==
  /\ caller[e].pc = "hgetall"
  /\ caller' =
       IF Unfinished(caller[e].found)
       THEN [caller EXCEPT ![e] = IdleCaller]
       ELSE [caller EXCEPT ![e].pc = "pipeline"]
  /\ UNCHANGED <<redisVars, calls, raced, workerVars, faults>>

(* Mutant of TaskOf: no EXPIRE on the task hash.                            *)
TaskForever(req) ==
  [type |-> req.type, user |-> req.user, status |-> "pending", retry |-> 0,
   prio |-> req.prio, delayed |-> req.delayed, ttl |-> FALSE]
TaskOf(req) ==
  [type |-> req.type, user |-> req.user, status |-> "pending", retry |-> 0,
   prio |-> req.prio, delayed |-> req.delayed, ttl |-> TRUE]

EnqueuePush(e) ==
  /\ caller[e].pc = "pipeline"
  /\ LET req == caller[e].req
         id  == caller[e].id
         q   == <<req.prio, req.type>>
     IN /\ hash' = [hash EXCEPT ![id] = TaskOf(req)]
        /\ idem' = [idem EXCEPT ![KeyOf(req)] = id]
        /\ queue' = [queue EXCEPT ![q] = <<id>> \o @]
  /\ caller' = [caller EXCEPT ![e] = IdleCaller]
  /\ UNCHANGED <<dlq, lock, calls, raced, workerVars, faults>>

Enqueue(e) ==
  \/ \E req \in Requests : EnqueueGet(e, req)
  \/ EnqueueCheck(e)
  \/ EnqueuePush(e)

-----------------------------------------------------------------------------
(* _worker(): one step per awaited Redis command.                           *)

Goto(w, label) == pc' = [pc EXCEPT ![w] = label]

Drop(w) == job' = [job EXCEPT ![w] = NoTask]

(* The iteration ends: back to BLPOP, or out of the loop for good.          *)
Leave(w, label) ==
  /\ Goto(w, label)
  /\ loc' = [loc EXCEPT ![w] = NoLocals]
  /\ elapsed' = [elapsed EXCEPT ![w] = 0]

(* The finally clause: a sync gives its lock back before the loop goes on.  *)
Unwind(w) ==
  IF loc[w].type = Sync
  THEN Goto(w, "srem") /\ UNCHANGED <<loc, elapsed>>
  ELSE Leave(w, "idle")

(* BLPOP takes from the first non-empty list in the order of _all_queue_keys *)
Before(q, r) == \/ PriorityRank[q[1]] < PriorityRank[r[1]]
                \/ q[1] = r[1] /\ TypeRank[q[2]] <= TypeRank[r[2]]

Pop(w) ==
  /\ pc[w] = "idle"
  /\ \E q \in Polled :
       /\ queue[q] # << >>
       /\ \A r \in Polled : queue[r] # << >> => Before(q, r)
       /\ job' = [job EXCEPT ![w] = Head(queue[q])]
       /\ queue' = [queue EXCEPT ![q] = Tail(@)]
  /\ Goto(w, "hgetall")
  /\ UNCHANGED <<hash, idem, dlq, lock, loc, elapsed, env>>

NextAfterFetch(h) ==
  CASE h.delayed                      -> "defer"
    [] ~h.delayed /\ h.type = Sync    -> "sadd"
    [] ~h.delayed /\ h.type \notin Types -> "unhandled"
    [] OTHER                          -> "start"

Fetch(w) ==
  /\ pc[w] = "hgetall"
  /\ LET h == hash[job[w]]
     IN IF h = NoHash
        THEN Leave(w, "idle") /\ Drop(w)
        ELSE /\ Goto(w, NextAfterFetch(h))
             /\ loc' = [loc EXCEPT ![w].type = h.type, ![w].user = h.user]
             /\ UNCHANGED <<job, elapsed>>
  /\ UNCHANGED <<redisVars, env>>

(* Every requeue and every retry goes to the right end of the list of the   *)
(* default priority.                                                        *)
RPush(w) ==
  LET q == <<"high", loc[w].type>>
  IN queue' = [queue EXCEPT ![q] = Append(@, job[w])]

(* Mutants of PushBack: no continue after RPUSH; no RPUSH.                  *)
PushBackGoesOn(w) ==
  RPush(w) /\ Goto(w, "start") /\ UNCHANGED <<job, loc, elapsed>>
PushBackLoses(w) == Drop(w) /\ Leave(w, "idle") /\ UNCHANGED queue

PushBack(w) == RPush(w) /\ Drop(w) /\ Leave(w, "idle")

(* run_after lies ahead, or a sync of the user is running                   *)
Requeue(w) ==
  /\ pc[w] \in {"defer", "busy"}
  /\ PushBack(w)
  /\ UNCHANGED <<hash, idem, dlq, lock, env>>

(* Mutants of TryAcquire: the answer of SADD ignored; EXPIRE even when the  *)
(* lock was not obtained.                                                   *)
TryAcquireUnchecked(w) ==
  /\ pc[w] = "sadd"
  /\ Goto(w, "expire")
  /\ running' = running \cup {loc[w].user}
  /\ lockTtl' = IF running = {} THEN Forever ELSE lockTtl
  /\ UNCHANGED <<hash, idem, queue, dlq, job, loc, elapsed, env>>
TryAcquireRenews(w) ==
  /\ pc[w] = "sadd"
  /\ Goto(w, IF loc[w].user \in running THEN "busy" ELSE "start")
  /\ running' = running \cup {loc[w].user}
  /\ lockTtl' = LockTTL
  /\ UNCHANGED <<hash, idem, queue, dlq, job, loc, elapsed, env>>

(* SADD creates the set, without a TTL, when no sync is running.            *)
TryAcquire(w) ==
  /\ pc[w] = "sadd"
  /\ Goto(w, IF loc[w].user \in running THEN "busy" ELSE "expire")
  /\ running' = running \cup {loc[w].user}
  /\ lockTtl' = IF running = {} THEN Forever ELSE lockTtl
  /\ UNCHANGED <<hash, idem, queue, dlq, job, loc, elapsed, env>>

(* EXPIRE is for the whole set: it renews the lock of every other user too. *)
SetLockTTL(w) ==
  /\ pc[w] = "expire"
  /\ lockTtl' = IF running = {} THEN 0 ELSE LockTTL
  /\ Goto(w, "start")
  /\ UNCHANGED <<hash, idem, queue, dlq, running, job, loc, elapsed,
                 env>>

Unhandled(w) ==
  /\ pc[w] = "unhandled"
  /\ hash' = [hash EXCEPT ![job[w]].status = "failed"]
  /\ Drop(w)
  /\ Leave(w, "idle")
  /\ UNCHANGED <<idem, queue, dlq, lock, env>>

(* HSET creates the hash anew, with these fields only, if it has expired.   *)
Start(w) ==
  /\ pc[w] = "start"
  /\ hash' = [hash EXCEPT ![job[w]].status = "running"]
  /\ Goto(w, "handler")
  /\ UNCHANGED <<idem, queue, dlq, lock, job, loc, elapsed, env>>

(* The handler returns; or it raises, or is cancelled by wait_for().        *)
HandlerEnds(w) ==
  /\ pc[w] = "handler"
  /\ Goto(w, "complete") \/ Goto(w, "hincrby")
  /\ UNCHANGED <<redisVars, job, loc, elapsed, env>>

Complete(w) ==
  /\ pc[w] = "complete"
  /\ hash' = [hash EXCEPT ![job[w]].status = "completed"]
  /\ Drop(w)
  /\ Unwind(w)
  /\ UNCHANGED <<idem, queue, dlq, lock, env>>

(* _handle_task_failure(): HINCRBY, then one of two pipelines.              *)
RetryCountIsOne(w) == 1                              \* mutant of RetryCount
RetryCount(w) == hash[job[w]].retry + 1

CountRetry(w) ==
  /\ pc[w] = "hincrby"
  /\ hash' = [hash EXCEPT ![job[w]].retry = RetryCount(w)]
  /\ loc' = [loc EXCEPT ![w].tries = RetryCount(w)]
  /\ Goto(w, "retry")
  /\ UNCHANGED <<idem, queue, dlq, lock, job, elapsed, env>>

MayRetryOnceMore(w) == loc[w].tries <= MaxRetries   \* mutant of MayRetry
MayRetry(w) == loc[w].tries < MaxRetries

Retry(w) ==
  /\ pc[w] = "retry"
  /\ MayRetry(w)
  /\ hash' = [hash EXCEPT ![job[w]].status = "pending", ![job[w]].delayed = TRUE]
  /\ RPush(w)
  /\ Drop(w)
  /\ Unwind(w)
  /\ UNCHANGED <<idem, dlq, lock, env>>

DeadLetter(w) ==
  /\ pc[w] = "retry"
  /\ ~MayRetry(w)
  /\ hash' = [hash EXCEPT ![job[w]].status = "failed"]
  /\ dlq' = <<job[w]>> \o dlq
  /\ Drop(w)
  /\ Unwind(w)
  /\ UNCHANGED <<idem, queue, lock, env>>

Unlock(w) == running \ {loc[w].user}

(* SREM; Redis deletes a set, and with it its TTL, when it becomes empty.   *)
Release(w) ==
  /\ pc[w] = "srem"
  /\ running' = Unlock(w)
  /\ lockTtl' = IF running' = {} THEN 0 ELSE lockTtl
  /\ Leave(w, IF loc[w].dying THEN "dead" ELSE "idle")
  /\ UNCHANGED <<hash, idem, queue, dlq, job, env>>

WorkerStep(w) ==
  \/ Pop(w) \/ Fetch(w) \/ Requeue(w) \/ TryAcquire(w) \/ SetLockTTL(w)
  \/ Unhandled(w) \/ Start(w) \/ HandlerEnds(w) \/ Complete(w)
  \/ CountRetry(w) \/ Retry(w) \/ DeadLetter(w) \/ Release(w)

-----------------------------------------------------------------------------
(* Faults.                                                                  *)

(* A Redis command raises.  BLPOP's exceptions are caught; one raised by    *)
(* the completion pipeline takes the path of a failed handler; one raised   *)
(* by _handle_task_failure() still runs the finally clause; all others end  *)
(* the coroutine, which gather(return_exceptions=True) never restarts.      *)
RedisError(w) ==
  /\ errors < MaxErrors
  /\ errors' = errors + 1
  /\ \/ /\ pc[w] \in {"hgetall", "defer", "sadd", "busy", "expire", "unhandled",
                      "start", "srem"}
        /\ Leave(w, "dead")
        /\ Drop(w)
     \/ /\ pc[w] = "complete"
        /\ Goto(w, "hincrby")
        /\ UNCHANGED <<job, loc, elapsed>>
     \/ /\ pc[w] \in {"hincrby", "retry"}
        /\ Drop(w)
        /\ IF loc[w].type = Sync
           THEN /\ Goto(w, "srem")
                /\ loc' = [loc EXCEPT ![w].dying = TRUE]
                /\ UNCHANGED elapsed
           ELSE Leave(w, "dead")
  /\ UNCHANGED <<redisVars, caller, calls, raced, crashes, expiries>>

(* A process dies, or is restarted, and comes back with fresh workers:      *)
(* what they held is forgotten, what they wrote to Redis stays.             *)
Crash(p) ==
  /\ crashes < MaxCrashes
  /\ crashes' = crashes + 1
  /\ pc' = [w \in Workers |-> IF ProcessOf[w] = p THEN "idle" ELSE pc[w]]
  /\ job' = [w \in Workers |-> IF ProcessOf[w] = p THEN NoTask ELSE job[w]]
  /\ loc' = [w \in Workers |-> IF ProcessOf[w] = p THEN NoLocals ELSE loc[w]]
  /\ elapsed' = [w \in Workers |-> IF ProcessOf[w] = p THEN 0 ELSE elapsed[w]]
  /\ UNCHANGED <<redisVars, caller, calls, raced, errors, expiries>>

(* _TASK_TTL runs out: the hash and the idempotency key written with it go. *)
ExpireTask(t) ==
  /\ expiries < MaxExpiries
  /\ hash[t].ttl
  /\ expiries' = expiries + 1
  /\ hash' = [hash EXCEPT ![t] = NoHash]
  /\ idem' = [k \in Keys |-> IF idem[k] = t THEN NoTask ELSE idem[k]]
  /\ UNCHANGED <<queue, dlq, lock, workerVars, caller, calls, raced,
                 crashes, errors>>

BecomeDue(t) ==
  /\ hash[t].delayed
  /\ hash' = [hash EXCEPT ![t].delayed = FALSE]
  /\ UNCHANGED <<idem, queue, dlq, lock, workerVars, env>>

-----------------------------------------------------------------------------
(* Time.                                                                    *)

Executing == {"handler", "complete", "hincrby", "retry"}

(* From SADD to SREM the worker counts on the user's entry in running_syncs *)
Holds(w) == pc[w] \in {"expire", "start", "srem"} \cup Executing
            /\ loc[w].type = Sync

(* Mutant of TimeMayPass: handlers without wait_for().                      *)
TimeAlwaysPasses == \A w \in Workers : Prompt /\ Holds(w) => pc[w] = "handler"

(* wait_for() lets no handler run past its timeout; with Prompt, the Redis  *)
(* commands a lock holder issues take no time worth a tick.                 *)
TimeMayPass ==
  \A w \in Workers :
    /\ pc[w] = "handler" => elapsed[w] < TaskTimeout
    /\ Prompt /\ Holds(w) => pc[w] = "handler"

Tick ==
  /\ TimeMayPass
  /\ lockTtl > 0 \/ \E w \in Workers : pc[w] = "handler"
  /\ elapsed' = [w \in Workers |-> IF pc[w] = "handler" THEN elapsed[w] + 1
                                   ELSE elapsed[w]]
  /\ lockTtl' = IF lockTtl \in {0, Forever} THEN lockTtl ELSE lockTtl - 1
  /\ running' = IF lockTtl = 1 THEN {} ELSE running
  /\ UNCHANGED <<hash, idem, queue, dlq, pc, job, loc, env>>

-----------------------------------------------------------------------------
Next ==
  \/ \E e \in Enqueuers : Enqueue(e)
  \/ \E w \in Workers : WorkerStep(w) \/ RedisError(w)
  \/ \E p \in Processes : Crash(p)
  \/ \E t \in TaskIds : ExpireTask(t) \/ BecomeDue(t)
  \/ Tick

Spec == Init /\ [][Next]_vars

-----------------------------------------------------------------------------
(* Safety.                                                                  *)

(* Two syncs of one user never run at the same time: the running_syncs lock *)
(* does its work although it is an expiring set shared by all users.        *)
SyncMutex ==
  \A v, w \in Workers :
    /\ v # w
    /\ pc[v] \in Executing /\ pc[w] \in Executing
    /\ loc[v].type = Sync /\ loc[w].type = Sync
    => loc[v].user # loc[w].user

(* A task id is in one place at most: one position of one list, or the      *)
(* hands of one worker.  No requeue, retry or crash ever delivers it twice. *)
AtMostOneOwner ==
  /\ \A v, w \in Workers : job[v] = job[w] /\ job[v] # NoTask => v = w
  /\ \A w \in Workers, q \in Queues :
       \A i \in 1..Len(queue[q]) : queue[q][i] # job[w]
  /\ \A q, r \in Queues :
       \A i \in 1..Len(queue[q]), j \in 1..Len(queue[r]) :
         queue[q][i] = queue[r][j] => q = r /\ i = j

Waiting(t) == \E q \in Polled : \E i \in 1..Len(queue[q]) : queue[q][i] = t
InHand(t) == \E w \in Workers : job[w] = t

(* Without faults no task that still has to run drops out of sight: it is   *)
(* in a list some worker polls, or a worker has it.                         *)
NothingStranded ==
  crashes + errors + expiries = 0 =>
    \A t \in TaskIds :
      Unfinished(t) => Waiting(t) \/ InHand(t)

(* Together: without faults a task that still has to run is in exactly one  *)
(* place, and with faults in one at most.                                   *)
HeldOnce == AtMostOneOwner /\ NothingStranded

(* The dead-letter list names each task that used up its attempts, once,    *)
(* and only those: no task fails for good any other way, none is tried      *)
(* again after it got there.                                                *)
DeadLetterExact ==
  expiries = 0 =>
    /\ \A i, j \in 1..Len(dlq) : dlq[i] = dlq[j] => i = j
    /\ \A t \in TaskIds :
         (\E i \in 1..Len(dlq) : dlq[i] = t)
           <=> hash[t].status = "failed" /\ hash[t].retry = MaxRetries

(* Idempotency: never two unfinished tasks for one payload, unless two      *)
(* calls overlapped: both can find the key free between GET and pipeline.   *)
OneUnfinishedPerKey ==
  \A s, t \in TaskIds :
    /\ Unfinished(s) /\ Unfinished(t)
    /\ hash[s].type = hash[t].type /\ hash[s].user = hash[t].user
    /\ <<hash[s].type, hash[s].user>> \in Keys \ raced
    => s = t

(* "high (user-triggered), medium (scheduled sync), low (fetch-range,       *)
(* backfill)" (_queue_key): a list holds the tasks of its own priority.     *)
(* Requeues and retries of a scheduled sync break it.                       *)
PriorityKept ==
  \A q \in Polled : \A i \in 1..Len(queue[q]) : hash[queue[q][i]].prio = q[1]

-----------------------------------------------------------------------------
(* A task a crash left pending or running, in no list and in nobody's hands *)
Lost(t) == Unfinished(t) /\ ~InHand(t) /\ ~Waiting(t)

(* Fairness: the event loop runs every coroutine that is ready, time passes *)
(* and deadlines come.  The hash of a lost task expires; of a task that is  *)
(* still on its way it may, an hour being long, but need not.               *)
Fairness ==
  /\ \A w \in Workers : WF_vars(WorkerStep(w))
  /\ \A t \in TaskIds : /\ WF_vars(BecomeDue(t))
                       /\ WF_vars(Lost(t) /\ ExpireTask(t))
  /\ WF_vars(Tick)

FairSpec == Spec /\ Fairness

(* Every task a caller got an id for is settled in the end, unless a fault  *)
(* hits it: no cycle of requeues, retries and lock conflicts keeps it       *)
(* waiting.                                                                 *)
EveryTaskSettles ==
  \A t \in TaskIds : hash[t].status = "pending"
                       ~> \/ hash[t].status \in {"completed", "failed"}
                          \/ crashes + errors + expiries > 0

(* A lock whose owner died, and that has its TTL, is free again some day:   *)
(* waiting syncs do not keep it alive.                                      *)
Orphaned(u) == u \in running /\ lockTtl # Forever
               /\ \A w \in Workers : Holds(w) => loc[w].user # u
OrphanedLockFreed == \A u \in Users : Orphaned(u) ~> ~Orphaned(u)

(* A lost task blocks its idempotency key only until its hash expires (if   *)
(* the bound on expiries is not used up).                                   *)
LostTaskUnblocks ==
  \A k \in Keys : \A t \in TaskIds :
    idem[k] = t /\ Lost(t) ~> idem[k] # t \/ expiries = MaxExpiries

(* Together: what a dead worker leaves behind blocks nobody for ever.       *)
FaultsHeal == OrphanedLockFreed /\ LostTaskUnblocks

-----------------------------------------------------------------------------
(* Refinement: a task executes while a worker stands between the HSET that  *)
(* marks it running and the pipeline that settles it.                       *)
Life == INSTANCE TaskLifecycle WITH
  Tasks       <- TaskIds,
  MaxAttempts <- MaxRetries,
  Groups      <- Users,
  None        <- NoUser,
  state       <- [t \in TaskIds |-> hash[t].status],
  attempts    <- [t \in TaskIds |-> hash[t].retry],
  executing   <- {job[w] : w \in {v \in Workers : pc[v] \in Executing}},
  group       <- [t \in TaskIds |-> IF hash[t].type = Sync THEN hash[t].user
                                    ELSE NoUser]

(* The queue implements the life cycle clients rely on, whatever the order  *)
(* of the workers' Redis commands, crashes and failing commands included.   *)
ImplementsLifecycle == Life!LifeSpec
=============================================================================
