-------------------------- MODULE RedisQueue_proofs --------------------------
(***************************************************************************)
(* Proofs about RedisQueue, for any number of users, workers, processes,   *)
(* callers, calls and faults.                                              *)
(***************************************************************************)
EXTENDS RedisQueue, SequenceTheorems, TLAPS

(* The program counters at which a worker still owns the task it popped.    *)
HandPCs == {"hgetall", "defer", "sadd", "busy", "expire", "unhandled", "start"}
             \cup Executing

(* A worker that owns a task knows its id.                                  *)
JobOK == \A w \in Workers : pc[w] \in HandPCs => job[w] \in TaskIds

(* A call in progress has an id and a request; before the HGETALL it has    *)
(* found an idempotency key.                                                *)
CallerOK ==
  \A e \in Enqueuers :
    /\ caller[e].pc # "idle" => caller[e].id \in TaskIds /\ caller[e].req \in Requests
    /\ caller[e].pc = "hgetall" => caller[e].found \in TaskIds

TypeInv == TypeOK /\ JobOK /\ CallerOK

LEMMA NoHashType == NoHash \in Hash /\ NoLocals \in Locals /\ IdleCaller \in Caller
BY DEF NoHash, Hash, NoLocals, Locals, IdleCaller, Caller, NoRequest, Priorities,
       Statuses, TaskRefs, NoTask

LEMMA LocalsUpdate ==
  ASSUME NEW l \in Locals, NEW t \in Types \cup {NoType}, NEW u \in Users \cup {NoUser}
  PROVE  [l EXCEPT !.type = t, !.user = u] \in Locals
BY DEF Locals

LEMMA LocalsCount ==
  ASSUME NEW l \in Locals, NEW n \in Nat
  PROVE  [l EXCEPT !.tries = n] \in Locals
BY DEF Locals

(* What Leave and Unwind do to the types of a worker's variables.           *)
LEMMA LeaveType ==
  ASSUME TypeOK, NEW w \in Workers, NEW label \in WorkerPCs, Leave(w, label)
  PROVE  /\ pc' = [pc EXCEPT ![w] = label]
         /\ pc' \in [Workers -> WorkerPCs]
         /\ loc' \in [Workers -> Locals]
         /\ elapsed' \in [Workers -> 0..TaskTimeout]
BY NoHashType, BoundsAssumption DEF TypeOK, Leave, Goto

UnwindsTyped(w) ==
  /\ pc' = [pc EXCEPT ![w] = "srem"] \/ pc' = [pc EXCEPT ![w] = "idle"]
  /\ pc' \in [Workers -> WorkerPCs]
  /\ loc' \in [Workers -> Locals]
  /\ elapsed' \in [Workers -> 0..TaskTimeout]

LEMMA UnwindType ==
  ASSUME TypeOK, NEW w \in Workers, Unwind(w)
  PROVE  UnwindsTyped(w)
<1>1. CASE loc[w].type = Sync
  BY <1>1 DEF Unwind, UnwindsTyped, TypeOK, Goto, WorkerPCs
<1>2. CASE loc[w].type # Sync
  BY <1>2, LeaveType, "idle" \in WorkerPCs DEF Unwind, UnwindsTyped, WorkerPCs
<1> QED BY <1>1, <1>2

(* A worker that lets go of its task has no program counter that owns one.  *)
LEMMA DropKeepsJob ==
  ASSUME pc \in [Workers -> WorkerPCs], job \in [Workers -> TaskRefs], JobOK,
         NEW w \in Workers, Drop(w),
         pc' = [pc EXCEPT ![w] = "srem"] \/ pc' = [pc EXCEPT ![w] = "idle"]
  PROVE  JobOK' /\ job' \in [Workers -> TaskRefs]
<1>1. job' = [job EXCEPT ![w] = NoTask] /\ pc'[w] \notin HandPCs
  BY DEF Drop, HandPCs, Executing
<1>2. job' \in [Workers -> TaskRefs]
  BY <1>1 DEF TaskRefs
<1>3. \A v \in Workers \ {w} : pc'[v] = pc[v] /\ job'[v] = job[v]
  BY <1>1
<1> QED BY <1>1, <1>2, <1>3 DEF JobOK

(* A task id goes to the right end of the high list of its type.            *)
LEMMA RPushType ==
  ASSUME TypeOK, NEW w \in Workers, job[w] \in TaskIds, RPush(w)
  PROVE  queue' \in [Queues -> Seq(TaskIds)]
<1> DEFINE q == <<"high", loc[w].type>>
<1>1. q \in Queues
  BY DEF TypeOK, Locals, Queues, Priorities
<1>2. Append(queue[q], job[w]) \in Seq(TaskIds)
  BY <1>1 DEF TypeOK
<1> QED BY <1>1, <1>2 DEF RPush, TypeOK

-----------------------------------------------------------------------------
(* The type invariant, one lemma per group of actions.                      *)

LEMMA EnqueueType ==
  ASSUME TypeInv, NEW e \in Enqueuers, Enqueue(e)
  PROVE  TypeInv'
<1> USE DEF TypeInv, TypeOK, JobOK, CallerOK, redisVars, workerVars, env, faults, lock
<1>1. ASSUME NEW req \in Requests, EnqueueGet(e, req) PROVE TypeInv'
  <2>1. calls + 1 \in TaskIds /\ KeyOf(req) \in Keys
    BY <1>1, RequestsAssumption, BoundsAssumption
    DEF EnqueueGet, TaskIds, KeyOf, Keys
  <2>2. idem[KeyOf(req)] \in TaskRefs
    BY <2>1
  <2>3. CallerOK' /\ caller' \in [Enqueuers -> Caller]
    BY <1>1, <2>1, <2>2 DEF EnqueueGet, Caller, TaskRefs, NoTask
  <2>4. calls' \in 0..MaxCalls /\ raced' \subseteq Keys
    BY <1>1, <2>1 DEF EnqueueGet, TaskIds
  <2> QED BY <1>1, <2>3, <2>4 DEF EnqueueGet
<1>2. ASSUME EnqueueCheck(e) PROVE TypeInv'
  <2>1. CallerOK' /\ caller' \in [Enqueuers -> Caller]
    BY <1>2, NoHashType DEF EnqueueCheck, Caller, IdleCaller
  <2> QED BY <1>2, <2>1 DEF EnqueueCheck
<1>3. ASSUME EnqueuePush(e) PROVE TypeInv'
  <2> DEFINE req == caller[e].req
             id  == caller[e].id
             q   == <<req.prio, req.type>>
  <2>1. id \in TaskIds /\ req \in Requests
    BY <1>3 DEF EnqueuePush
  <2>2. q \in Queues /\ KeyOf(req) \in Keys /\ TaskOf(req) \in Hash
    BY <2>1, RequestsAssumption
    DEF Queues, KeyOf, Keys, TaskOf, Hash, Statuses
  <2>3. hash' \in [TaskIds -> Hash] /\ idem' \in [Keys -> TaskRefs]
    BY <1>3, <2>1, <2>2 DEF EnqueuePush, TaskRefs
  <2>4. queue' \in [Queues -> Seq(TaskIds)]
    <3>1. <<id>> \o queue[q] \in Seq(TaskIds)
      BY <2>1, <2>2
    <3> QED BY <1>3, <2>2, <3>1 DEF EnqueuePush
  <2>5. CallerOK' /\ caller' \in [Enqueuers -> Caller]
    BY <1>3, NoHashType DEF EnqueuePush, IdleCaller
  <2> QED BY <1>3, <2>3, <2>4, <2>5 DEF EnqueuePush
<1> QED BY <1>1, <1>2, <1>3 DEF Enqueue

(* The steps that leave the task's hash alone.                              *)
LEMMA TakeType ==
  ASSUME TypeInv, NEW w \in Workers, Pop(w) \/ Fetch(w) \/ Requeue(w)
  PROVE  TypeInv'
<1> USE DEF TypeInv, TypeOK, JobOK, CallerOK, redisVars, workerVars, env, faults, lock
<1>1. CASE Pop(w)
  <2>1. PICK q \in Polled : /\ queue[q] # << >>
                            /\ job' = [job EXCEPT ![w] = Head(queue[q])]
                            /\ queue' = [queue EXCEPT ![q] = Tail(@)]
    BY <1>1 DEF Pop
  <2>2. q \in Queues
    BY DEF Polled, Queues
  <2>3. Head(queue[q]) \in TaskIds /\ Tail(queue[q]) \in Seq(TaskIds)
    BY <2>1, <2>2
  <2>4. job' \in [Workers -> TaskRefs] /\ job'[w] \in TaskIds
    BY <2>1, <2>3 DEF TaskRefs
  <2>5. queue' \in [Queues -> Seq(TaskIds)]
    BY <2>1, <2>2, <2>3
  <2>6. pc' = [pc EXCEPT ![w] = "hgetall"] /\ pc' \in [Workers -> WorkerPCs]
    BY <1>1 DEF Pop, Goto, WorkerPCs
  <2>7. JobOK'
    BY <2>1, <2>4, <2>6
  <2> QED BY <1>1, <2>4, <2>5, <2>6, <2>7 DEF Pop
<1>2. CASE Fetch(w)
  <2> DEFINE h == hash[job[w]]
  <2>1. job[w] \in TaskIds /\ h \in Hash
    BY <1>2 DEF Fetch, HandPCs
  <2>2. CASE h = NoHash
    <3>1. Leave(w, "idle") /\ Drop(w)
      BY <1>2, <2>2 DEF Fetch
    <3>2. pc' = [pc EXCEPT ![w] = "idle"] /\ pc' \in [Workers -> WorkerPCs]
          /\ loc' \in [Workers -> Locals] /\ elapsed' \in [Workers -> 0..TaskTimeout]
      BY <3>1, LeaveType, "idle" \in WorkerPCs DEF WorkerPCs
    <3> QED BY <1>2, <3>1, <3>2 DEF Fetch, Drop, HandPCs, Executing, TaskRefs
  <2>3. CASE h # NoHash
    <3>1. /\ pc' = [pc EXCEPT ![w] = NextAfterFetch(h)]
          /\ loc' = [loc EXCEPT ![w].type = h.type, ![w].user = h.user]
          /\ UNCHANGED <<job, elapsed>>
      BY <1>2, <2>3 DEF Fetch, Goto
    <3>2. NextAfterFetch(h) \in WorkerPCs
      BY DEF NextAfterFetch, WorkerPCs
    <3>3. loc' \in [Workers -> Locals]
      <4> DEFINE l == [loc[w] EXCEPT !.type = h.type, !.user = h.user]
      <4>1. l \in Locals
        <5>1. loc[w] \in Locals
          OBVIOUS
        <5>2. h.type \in Types \cup {NoType} /\ h.user \in Users \cup {NoUser}
          BY <2>1 DEF Hash
        <5> HIDE DEF h
        <5> QED BY <5>1, <5>2, LocalsUpdate
      <4>2. loc' = [loc EXCEPT ![w] = l]
        BY <3>1 DEF Locals
      <4> HIDE DEF l
      <4> QED BY <4>1, <4>2
    <3>4. JobOK'
      BY <2>1, <3>1
    <3> QED BY <1>2, <3>1, <3>2, <3>3, <3>4 DEF Fetch
  <2> QED BY <2>2, <2>3
<1>3. CASE Requeue(w)
  <2>1. RPush(w) /\ Drop(w) /\ Leave(w, "idle") /\ job[w] \in TaskIds
    BY <1>3 DEF Requeue, PushBack, HandPCs
  <2>2. queue' \in [Queues -> Seq(TaskIds)]
    BY <2>1, RPushType
  <2>3. pc' = [pc EXCEPT ![w] = "idle"] /\ pc' \in [Workers -> WorkerPCs]
        /\ loc' \in [Workers -> Locals] /\ elapsed' \in [Workers -> 0..TaskTimeout]
    BY <2>1, LeaveType, "idle" \in WorkerPCs DEF WorkerPCs
  <2> QED BY <1>3, <2>1, <2>2, <2>3 DEF Requeue, Drop, HandPCs, Executing, TaskRefs
<1> QED BY <1>1, <1>2, <1>3

LEMMA LockStepsType ==
  ASSUME TypeInv, NEW w \in Workers, TryAcquire(w) \/ SetLockTTL(w) \/ Release(w)
  PROVE  TypeInv'
<1> USE DEF TypeInv, TypeOK, JobOK, CallerOK, redisVars, workerVars, env, faults, lock
<1>1. CASE TryAcquire(w)
  <2>1. running' \subseteq Users \cup {NoUser} /\ lockTtl' \in 0..Forever
    BY <1>1, BoundsAssumption DEF TryAcquire, Locals, Forever
  <2>2. pc' \in [Workers -> WorkerPCs]
    BY <1>1 DEF TryAcquire, Goto, WorkerPCs
  <2> QED BY <1>1, <2>1, <2>2 DEF TryAcquire, Goto, HandPCs
<1>2. CASE SetLockTTL(w)
  <2>1. lockTtl' \in 0..Forever
    BY <1>2, BoundsAssumption DEF SetLockTTL, Forever
  <2> QED BY <1>2, <2>1 DEF SetLockTTL, Goto, HandPCs, WorkerPCs
<1>3. CASE Release(w)
  <2>1. running' \subseteq Users \cup {NoUser} /\ lockTtl' \in 0..Forever
    BY <1>3, BoundsAssumption DEF Release, Unlock, Forever
  <2>2. PICK label \in {"dead", "idle"} : Leave(w, label)
    BY <1>3 DEF Release
  <2>3. pc' = [pc EXCEPT ![w] = label] /\ pc' \in [Workers -> WorkerPCs]
        /\ loc' \in [Workers -> Locals] /\ elapsed' \in [Workers -> 0..TaskTimeout]
    BY <2>2, LeaveType, label \in WorkerPCs DEF WorkerPCs
  <2>4. label \notin HandPCs
    BY DEF HandPCs, Executing
  <2> QED BY <1>3, <2>1, <2>3, <2>4 DEF Release
<1> QED BY <1>1, <1>2, <1>3

(* An EXCEPT of a task's status, or of its retry counter, keeps a hash.      *)
LEMMA HashFieldType ==
  ASSUME hash \in [TaskIds -> Hash], NEW t \in TaskIds, NEW s \in Statuses,
         NEW n \in Nat
  PROVE  /\ [hash EXCEPT ![t].status = s] \in [TaskIds -> Hash]
         /\ [hash EXCEPT ![t].retry = n] \in [TaskIds -> Hash]
         /\ [hash EXCEPT ![t].delayed = FALSE] \in [TaskIds -> Hash]
         /\ [hash EXCEPT ![t].status = s, ![t].delayed = TRUE] \in [TaskIds -> Hash]
<1> hash[t] \in Hash
  OBVIOUS
<1>1. [hash[t] EXCEPT !.status = s] \in Hash
  BY DEF Hash
<1>2. [hash[t] EXCEPT !.retry = n] \in Hash
  BY DEF Hash
<1>3. [hash[t] EXCEPT !.delayed = FALSE] \in Hash
  BY DEF Hash
<1>4. [hash[t] EXCEPT !.status = s, !.delayed = TRUE] \in Hash
  BY DEF Hash
<1>5. [hash EXCEPT ![t].status = s, ![t].delayed = TRUE]
        = [hash EXCEPT ![t] = [hash[t] EXCEPT !.status = s, !.delayed = TRUE]]
  BY DEF Hash
<1> QED BY <1>1, <1>2, <1>3, <1>4, <1>5

LEMMA HashStepsType ==
  ASSUME TypeInv, NEW w \in Workers,
         \/ Unhandled(w) \/ Start(w) \/ HandlerEnds(w) \/ Complete(w)
         \/ CountRetry(w) \/ Retry(w) \/ DeadLetter(w)
  PROVE  TypeInv'
<1> USE DEF TypeInv, TypeOK, JobOK, CallerOK, redisVars, workerVars, env, faults, lock
<1>1. CASE Unhandled(w)
  <2>1. job[w] \in TaskIds
    BY <1>1 DEF Unhandled, HandPCs
  <2>2. hash' \in [TaskIds -> Hash]
    BY <1>1, <2>1, HashFieldType, "failed" \in Statuses DEF Unhandled, Statuses
  <2>3. pc' = [pc EXCEPT ![w] = "idle"] /\ pc' \in [Workers -> WorkerPCs]
        /\ loc' \in [Workers -> Locals] /\ elapsed' \in [Workers -> 0..TaskTimeout]
    BY <1>1, LeaveType, "idle" \in WorkerPCs DEF Unhandled, WorkerPCs
  <2> QED BY <1>1, <2>2, <2>3 DEF Unhandled, Drop, HandPCs, Executing, TaskRefs
<1>2. CASE Start(w)
  <2>1. job[w] \in TaskIds
    BY <1>2 DEF Start, HandPCs
  <2>2. hash' \in [TaskIds -> Hash]
    BY <1>2, <2>1, HashFieldType, "running" \in Statuses DEF Start, Statuses
  <2> QED BY <1>2, <2>1, <2>2 DEF Start, Goto, WorkerPCs
<1>3. CASE HandlerEnds(w)
  <2>1. job[w] \in TaskIds
    BY <1>3 DEF HandlerEnds, HandPCs, Executing
  <2> QED BY <1>3, <2>1 DEF HandlerEnds, Goto, WorkerPCs
<1>4. CASE Complete(w)
  <2>1. job[w] \in TaskIds
    BY <1>4 DEF Complete, HandPCs, Executing
  <2>2. hash' \in [TaskIds -> Hash]
    BY <1>4, <2>1, HashFieldType, "completed" \in Statuses DEF Complete, Statuses
  <2>4. UnwindsTyped(w)
    BY <1>4, UnwindType DEF Complete
  <2>6. JobOK' /\ job' \in [Workers -> TaskRefs]
    BY <1>4, <2>4, DropKeepsJob DEF Complete, UnwindsTyped
  <2> QED BY <1>4, <2>2, <2>4, <2>6 DEF Complete, UnwindsTyped
<1>5. CASE CountRetry(w)
  <2>1. job[w] \in TaskIds
    BY <1>5 DEF CountRetry, HandPCs, Executing
  <2>2. RetryCount(w) \in Nat
    BY <2>1 DEF RetryCount, Hash
  <2>3. hash' \in [TaskIds -> Hash]
    BY <1>5, <2>1, <2>2, HashFieldType, "failed" \in Statuses DEF CountRetry, Statuses
  <2>4. loc' \in [Workers -> Locals]
    <3>1. [loc[w] EXCEPT !.tries = RetryCount(w)] \in Locals
      BY <2>2, LocalsCount
    <3>2. loc' = [loc EXCEPT ![w] = [loc[w] EXCEPT !.tries = RetryCount(w)]]
      BY <1>5 DEF CountRetry, Locals
    <3> QED BY <3>1, <3>2
  <2> QED BY <1>5, <2>1, <2>3, <2>4 DEF CountRetry, Goto, WorkerPCs
<1>6. CASE Retry(w)
  <2>1. job[w] \in TaskIds
    BY <1>6 DEF Retry, HandPCs, Executing
  <2>2. hash' \in [TaskIds -> Hash]
    BY <1>6, <2>1, HashFieldType, "pending" \in Statuses DEF Retry, Statuses
  <2>4. UnwindsTyped(w)
    BY <1>6, UnwindType DEF Retry
  <2>5. queue' \in [Queues -> Seq(TaskIds)]
    BY <1>6, <2>1, RPushType DEF Retry
  <2>6. JobOK' /\ job' \in [Workers -> TaskRefs]
    BY <1>6, <2>4, DropKeepsJob DEF Retry, UnwindsTyped
  <2> QED BY <1>6, <2>2, <2>4, <2>5, <2>6 DEF Retry, UnwindsTyped
<1>7. CASE DeadLetter(w)
  <2>1. job[w] \in TaskIds
    BY <1>7 DEF DeadLetter, HandPCs, Executing
  <2>2. hash' \in [TaskIds -> Hash]
    BY <1>7, <2>1, HashFieldType, "failed" \in Statuses DEF DeadLetter, Statuses
  <2>4. UnwindsTyped(w)
    BY <1>7, UnwindType DEF DeadLetter
  <2>5. dlq' \in Seq(TaskIds)
    BY <1>7, <2>1 DEF DeadLetter
  <2>6. JobOK' /\ job' \in [Workers -> TaskRefs]
    BY <1>7, <2>4, DropKeepsJob DEF DeadLetter, UnwindsTyped
  <2> QED BY <1>7, <2>2, <2>4, <2>5, <2>6 DEF DeadLetter, UnwindsTyped
<1> QED BY <1>1, <1>2, <1>3, <1>4, <1>5, <1>6, <1>7

LEMMA FaultsType ==
  ASSUME TypeInv,
         \/ \E w \in Workers : RedisError(w)
         \/ \E p \in Processes : Crash(p)
         \/ \E t \in TaskIds : ExpireTask(t) \/ BecomeDue(t)
         \/ Tick
  PROVE  TypeInv'
<1> USE DEF TypeInv, TypeOK, JobOK, CallerOK, redisVars, workerVars, env, faults, lock
<1>1. ASSUME NEW w \in Workers, RedisError(w) PROVE TypeInv'
  <2>1. errors' \in 0..MaxErrors
    <3>1. errors \in 0..MaxErrors /\ errors < MaxErrors /\ errors' = errors + 1
      BY <1>1 DEF RedisError
    <3> HIDE DEF TypeInv, TypeOK
    <3> QED BY <3>1, BoundsAssumption
  <2>2. CASE Leave(w, "dead") /\ Drop(w)
    <3>1. pc' = [pc EXCEPT ![w] = "dead"] /\ pc' \in [Workers -> WorkerPCs]
          /\ loc' \in [Workers -> Locals] /\ elapsed' \in [Workers -> 0..TaskTimeout]
      BY <2>2, LeaveType, "dead" \in WorkerPCs DEF WorkerPCs
    <3> QED BY <1>1, <2>1, <2>2, <3>1
            DEF RedisError, Drop, HandPCs, Executing, TaskRefs
  <2>3. CASE pc[w] = "complete" /\ Goto(w, "hincrby") /\ UNCHANGED <<job, loc, elapsed>>
    BY <1>1, <2>1, <2>3 DEF RedisError, Goto, WorkerPCs, HandPCs, Executing
  <2>4. CASE /\ Drop(w) /\ Goto(w, "srem")
             /\ loc' = [loc EXCEPT ![w].dying = TRUE] /\ UNCHANGED elapsed
    <3>1. loc' \in [Workers -> Locals]
      BY <2>4 DEF Locals
    <3> QED BY <1>1, <2>1, <2>4, <3>1
            DEF RedisError, Drop, Goto, WorkerPCs, HandPCs, Executing, TaskRefs
  <2> QED BY <1>1, <2>2, <2>3, <2>4 DEF RedisError
<1>2. ASSUME NEW p \in Processes, Crash(p) PROVE TypeInv'
  <2>1. crashes' \in 0..MaxCrashes
    BY <1>2, BoundsAssumption DEF Crash
  <2>2. /\ pc' \in [Workers -> WorkerPCs] /\ job' \in [Workers -> TaskRefs]
        /\ loc' \in [Workers -> Locals] /\ elapsed' \in [Workers -> 0..TaskTimeout]
    <3>1. pc' \in [Workers -> WorkerPCs] /\ job' \in [Workers -> TaskRefs]
      BY <1>2 DEF Crash, WorkerPCs, TaskRefs
    <3>2. loc' \in [Workers -> Locals]
      BY <1>2, NoHashType DEF Crash
    <3>3. elapsed' \in [Workers -> 0..TaskTimeout]
      BY <1>2, BoundsAssumption DEF Crash
    <3> QED BY <3>1, <3>2, <3>3
  <2>3. JobOK'
    BY <1>2 DEF Crash, HandPCs, Executing
  <2> QED BY <1>2, <2>1, <2>2, <2>3 DEF Crash
<1>3. ASSUME NEW t \in TaskIds, ExpireTask(t) PROVE TypeInv'
  <2>1. expiries' \in 0..MaxExpiries
    BY <1>3, BoundsAssumption DEF ExpireTask
  <2>2. hash' \in [TaskIds -> Hash] /\ idem' \in [Keys -> TaskRefs]
    BY <1>3, NoHashType DEF ExpireTask, TaskRefs
  <2> QED BY <1>3, <2>1, <2>2 DEF ExpireTask
<1>4. ASSUME NEW t \in TaskIds, BecomeDue(t) PROVE TypeInv'
  <2>1. hash' \in [TaskIds -> Hash]
    BY <1>4, HashFieldType, "failed" \in Statuses DEF BecomeDue, Statuses
  <2> QED BY <1>4, <2>1 DEF BecomeDue
<1>5. CASE Tick
  <2>1. elapsed' \in [Workers -> 0..TaskTimeout]
    <3>1. ASSUME NEW w \in Workers
          PROVE  /\ elapsed[w] \in 0..TaskTimeout
                 /\ pc[w] = "handler" => elapsed[w] < TaskTimeout
      BY <1>5 DEF Tick, TimeMayPass
    <3>2. elapsed' = [w \in Workers |-> IF pc[w] = "handler" THEN elapsed[w] + 1
                                       ELSE elapsed[w]]
      BY <1>5 DEF Tick
    <3> HIDE DEF TypeInv, TypeOK
    <3> QED BY <3>1, <3>2, BoundsAssumption
  <2>2. lockTtl' \in 0..Forever /\ running' \subseteq Users \cup {NoUser}
    BY <1>5, BoundsAssumption DEF Tick, Forever
  <2> QED BY <1>5, <2>1, <2>2 DEF Tick
<1> QED BY <1>1, <1>2, <1>3, <1>4, <1>5

LEMMA TypeInit == Init => TypeInv
<1> SUFFICES ASSUME Init PROVE TypeInv
  OBVIOUS
<1>1. TypeOK
  BY NoHashType, BoundsAssumption
  DEF Init, TypeOK, TaskRefs, NoTask, WorkerPCs, Forever
<1>2. JobOK /\ CallerOK
  BY DEF Init, JobOK, CallerOK, HandPCs, Executing, IdleCaller
<1> QED BY <1>1, <1>2 DEF TypeInv

LEMMA TypeStep == TypeInv /\ [Next]_vars => TypeInv'
<1> SUFFICES ASSUME TypeInv, [Next]_vars PROVE TypeInv'
  OBVIOUS
<1>1. CASE UNCHANGED vars
  BY <1>1 DEF vars, redisVars, workerVars, env, faults, lock, TypeInv, TypeOK, JobOK,
              CallerOK
<1>2. ASSUME NEW w \in Workers, WorkerStep(w) PROVE TypeInv'
  BY <1>2, TakeType, LockStepsType, HashStepsType DEF WorkerStep
<1> QED BY <1>1, <1>2, EnqueueType, FaultsType DEF Next

(* Type correctness of the queue's state in Redis and in its workers.       *)
THEOREM TypeCorrect == Spec => []TypeOK
<1>1. TypeInv => TypeOK
  BY DEF TypeInv
<1> QED BY TypeInit, TypeStep, <1>1, PTL DEF Spec

-----------------------------------------------------------------------------
(* The per-user sync lock.  SyncMutex is not inductive: that two holders     *)
(* are different users follows from each holder's user being in the set, and *)
(* that it stays there until the holder is done from the TTL it started with *)
(* being at least what its handler may still run.                            *)

Timed == {"handler", "complete", "hincrby", "retry", "srem"}

Clocks ==
  /\ running # {} => lockTtl > 0
  /\ \A w \in Workers : pc[w] \notin Timed => elapsed[w] = 0
  /\ \A w \in Workers : pc[w] = "srem" => loc[w].type = Sync

HolderOK(w) ==
  Holds(w) => /\ loc[w].user \in running
              /\ pc[w] # "expire" => lockTtl + elapsed[w] >= LockTTL

HoldersDiffer ==
  \A v, w \in Workers : v # w /\ Holds(v) /\ Holds(w) => loc[v].user # loc[w].user

LockInv == Clocks /\ (\A w \in Workers : HolderOK(w)) /\ HoldersDiffer

(* The setting under which the lock works: the TTL outlasts the task timeout, *)
(* and the Redis commands of a lock holder are fast against both.             *)
LockOutlastsTask == Prompt /\ TaskTimeout < LockTTL

(* A step that leaves the lock alone and gives it to nobody.                 *)
LEMMA NoNewHolder ==
  ASSUME TypeOK, LockInv, UNCHANGED lock,
         \A v \in Workers : pc'[v] \notin Timed => elapsed'[v] = 0,
         \A v \in Workers : pc'[v] = "srem" => loc'[v].type = Sync,
         \A v \in Workers : Holds(v)' =>
            /\ Holds(v)
            /\ loc'[v].user = loc[v].user
            /\ elapsed'[v] = elapsed[v]
            /\ pc[v] = "expire" => pc'[v] = "expire"
  PROVE  LockInv'
<1>1. Clocks'
  BY DEF LockInv, Clocks, lock
<1>2. ASSUME NEW v \in Workers PROVE HolderOK(v)'
  BY <1>2 DEF LockInv, HolderOK, lock
<1>3. HoldersDiffer'
  BY DEF LockInv, HoldersDiffer
<1> QED BY <1>1, <1>2, <1>3 DEF LockInv

(* A worker that ends an iteration, or goes to give the lock back.           *)
LEMMA LeaveKeepsLock ==
  ASSUME TypeOK, LockInv, UNCHANGED lock, NEW w \in Workers,
         \/ \E label \in {"idle", "dead"} : Leave(w, label)
         \/ Unwind(w) /\ pc[w] \in Executing
  PROVE  LockInv'
<1>1. CASE \E label \in {"idle", "dead"} : Leave(w, label)
  BY <1>1, NoNewHolder
  DEF Leave, Goto, TypeOK, LockInv, Clocks, Timed, Holds, Executing
<1>2. CASE loc[w].type = Sync /\ Unwind(w) /\ pc[w] \in Executing
  <2>1. /\ pc' = [pc EXCEPT ![w] = "srem"]
        /\ UNCHANGED <<loc, elapsed>>
    BY <1>2 DEF Unwind, Goto
  <2> QED BY <1>2, <2>1, NoNewHolder
          DEF TypeOK, LockInv, Clocks, Timed, Holds, Executing
<1>3. CASE loc[w].type # Sync /\ Unwind(w)
  BY <1>1, <1>3 DEF Unwind
<1> QED BY <1>1, <1>2, <1>3

(* A step of one worker between two program counters, locals unchanged.      *)
LEMMA GotoKeepsLock ==
  ASSUME TypeOK, LockInv, UNCHANGED <<lock, loc, elapsed>>, NEW w \in Workers,
         NEW label \in WorkerPCs, Goto(w, label),
         \/ pc[w] = "sadd" /\ label = "busy"
         \/ pc[w] = "start" /\ label = "handler"
         \/ pc[w] \in Executing /\ label \in Executing
  PROVE  LockInv'
BY NoNewHolder DEF Goto, TypeOK, LockInv, Clocks, Timed, Holds, Executing

LEMMA LockStepsKeepLock ==
  ASSUME TypeInv, LockInv, NEW w \in Workers,
         TryAcquire(w) \/ SetLockTTL(w) \/ Release(w)
  PROVE  LockInv'
<1> USE DEF TypeInv, TypeOK
<1>1. CASE TryAcquire(w) /\ loc[w].user \in running
  <2>1. UNCHANGED <<lock, loc, elapsed>> /\ Goto(w, "busy") /\ pc[w] = "sadd"
    <3>1. running' = running
      BY <1>1 DEF TryAcquire
    <3>2. lockTtl' = lockTtl
      BY <1>1 DEF TryAcquire
    <3> QED BY <1>1, <3>1, <3>2 DEF TryAcquire, lock
  <2> QED BY <2>1, GotoKeepsLock DEF WorkerPCs
<1>2. CASE TryAcquire(w) /\ loc[w].user \notin running
  <2>1. /\ pc[w] = "sadd" /\ pc' = [pc EXCEPT ![w] = "expire"]
        /\ running' = running \cup {loc[w].user}
        /\ lockTtl' = IF running = {} THEN Forever ELSE lockTtl
        /\ UNCHANGED <<loc, elapsed>>
    BY <1>2 DEF TryAcquire, Goto
  <2>2. Clocks'
    BY <2>1, BoundsAssumption DEF LockInv, Clocks, Forever, Timed
  <2>3. \A v \in Workers \ {w} : Holds(v)' <=> Holds(v)
    BY <2>1 DEF Holds
  <2>4. ASSUME NEW v \in Workers PROVE HolderOK(v)'
    <3>1. CASE v = w
      BY <2>1, <3>1 DEF HolderOK
    <3>2. CASE v # w
      BY <2>1, <2>3, <3>2 DEF LockInv, HolderOK
    <3> QED BY <3>1, <3>2
  <2>5. HoldersDiffer'
    BY <1>2, <2>1, <2>3 DEF LockInv, HoldersDiffer, HolderOK
  <2> QED BY <2>2, <2>4, <2>5 DEF LockInv
<1>3. CASE SetLockTTL(w)
  <2>1. /\ pc[w] = "expire" /\ pc' = [pc EXCEPT ![w] = "start"]
        /\ lockTtl' = IF running = {} THEN 0 ELSE LockTTL
        /\ UNCHANGED <<running, loc, elapsed>>
    BY <1>3 DEF SetLockTTL, Goto
  <2>2. Clocks'
    BY <2>1, BoundsAssumption DEF LockInv, Clocks, Timed
  <2>3. \A v \in Workers : Holds(v)' <=> Holds(v)
    BY <2>1 DEF Holds
  <2>4. ASSUME NEW v \in Workers PROVE HolderOK(v)'
    <3>1. elapsed[v] \in Nat /\ LockTTL \in Nat
      BY BoundsAssumption
    <3>2. Holds(v) => loc[v].user \in running
      BY DEF LockInv, HolderOK
    <3> HIDE DEF TypeInv, TypeOK
    <3> QED BY <2>1, <2>3, <3>1, <3>2 DEF HolderOK
  <2>5. HoldersDiffer'
    BY <2>1, <2>3 DEF LockInv, HoldersDiffer
  <2> QED BY <2>2, <2>4, <2>5 DEF LockInv
<1>4. CASE Release(w)
  <2>1. PICK label \in {"dead", "idle"} : Leave(w, label)
    BY <1>4 DEF Release
  <2>2. /\ pc[w] = "srem" /\ pc' = [pc EXCEPT ![w] = label]
        /\ loc' = [loc EXCEPT ![w] = NoLocals]
        /\ elapsed' = [elapsed EXCEPT ![w] = 0]
        /\ running' = running \ {loc[w].user}
        /\ lockTtl' = IF running' = {} THEN 0 ELSE lockTtl
    BY <1>4, <2>1 DEF Release, Leave, Goto, Unlock
  <2>3. Clocks'
    BY <2>2 DEF LockInv, Clocks, Timed
  <2>4. Holds(w) /\ ~Holds(w)'
    BY <2>2 DEF LockInv, Clocks, Holds, Executing
  <2>5. \A v \in Workers \ {w} : Holds(v)' <=> Holds(v)
    BY <2>2 DEF Holds
  <2>6. ASSUME NEW v \in Workers PROVE HolderOK(v)'
    <3>1. CASE v = w
      BY <2>4, <3>1 DEF HolderOK
    <3>2. CASE v # w
      BY <2>2, <2>4, <2>5, <3>2 DEF LockInv, HolderOK, HoldersDiffer
    <3> QED BY <3>1, <3>2
  <2>7. HoldersDiffer'
    BY <2>2, <2>4, <2>5 DEF LockInv, HoldersDiffer
  <2> QED BY <2>3, <2>6, <2>7 DEF LockInv
<1> QED BY <1>1, <1>2, <1>3, <1>4

LEMMA WorkerKeepsLock ==
  ASSUME TypeInv, LockInv, NEW w \in Workers, WorkerStep(w)
  PROVE  LockInv'
<1> USE DEF TypeInv
<1>1. CASE Pop(w)
  BY <1>1, NoNewHolder
  DEF Pop, Goto, TypeOK, LockInv, Clocks, Timed, Holds, Executing, lock
<1>2. CASE Fetch(w)
  <2> DEFINE h == hash[job[w]]
  <2>1. CASE h = NoHash
    BY <1>2, <2>1, LeaveKeepsLock DEF Fetch, redisVars
  <2>2. CASE h # NoHash
    <3>1. /\ pc[w] = "hgetall" /\ pc' = [pc EXCEPT ![w] = NextAfterFetch(h)]
          /\ loc' = [loc EXCEPT ![w].type = h.type, ![w].user = h.user]
          /\ UNCHANGED <<lock, elapsed>>
      BY <1>2, <2>2 DEF Fetch, Goto, redisVars
    <3>2. NextAfterFetch(h) \in {"defer", "sadd", "unhandled", "start"}
      BY DEF NextAfterFetch
    <3>3. ~Holds(w)'
      <4>1. NextAfterFetch(h) = "start" => h.type # Sync
        BY DEF NextAfterFetch
      <4>2. loc'[w].type = h.type
        BY <3>1 DEF TypeOK, Locals
      <4> QED BY <3>1, <3>2, <4>1, <4>2 DEF TypeOK, Holds, Executing
    <3>4. \A v \in Workers \ {w} : pc'[v] = pc[v] /\ loc'[v] = loc[v]
      BY <3>1 DEF TypeOK
    <3>5. pc'[w] \notin Timed
      BY <3>1, <3>2 DEF TypeOK, Timed
    <3>6. \A v \in Workers \ {w} : Holds(v)' => Holds(v)
      BY <3>4 DEF Holds
    <3> HIDE DEF h
    <3> QED BY <3>1, <3>3, <3>4, <3>5, <3>6, NoNewHolder DEF LockInv, Clocks, Timed
  <2> QED BY <2>1, <2>2
<1>3. CASE Requeue(w)
  BY <1>3, LeaveKeepsLock DEF Requeue, PushBack
<1>4. CASE Unhandled(w)
  BY <1>4, LeaveKeepsLock DEF Unhandled
<1>5. CASE Start(w)
  BY <1>5, GotoKeepsLock DEF Start, WorkerPCs
<1>6. CASE HandlerEnds(w)
  BY <1>6, GotoKeepsLock DEF HandlerEnds, WorkerPCs, Executing, redisVars
<1>7. CASE Complete(w) \/ Retry(w) \/ DeadLetter(w)
  BY <1>7, LeaveKeepsLock DEF Complete, Retry, DeadLetter, Executing
<1>8. CASE CountRetry(w)
  <2>1. /\ pc[w] = "hincrby" /\ pc' = [pc EXCEPT ![w] = "retry"]
        /\ loc' = [loc EXCEPT ![w].tries = RetryCount(w)]
        /\ UNCHANGED <<lock, elapsed>>
    BY <1>8 DEF CountRetry, Goto
  <2>2. \A v \in Workers : loc'[v].user = loc[v].user /\ loc'[v].type = loc[v].type
    BY <2>1 DEF TypeOK, Locals
  <2> QED BY <2>1, <2>2, NoNewHolder
          DEF TypeOK, LockInv, Clocks, Timed, Holds, Executing
<1> QED BY <1>1, <1>2, <1>3, <1>4, <1>5, <1>6, <1>7, <1>8, LockStepsKeepLock
        DEF WorkerStep

LEMMA FaultsKeepLock ==
  ASSUME TypeInv, LockInv,
         \/ \E w \in Workers : RedisError(w)
         \/ \E p \in Processes : Crash(p)
         \/ \E t \in TaskIds : ExpireTask(t) \/ BecomeDue(t)
         \/ \E e \in Enqueuers : Enqueue(e)
  PROVE  LockInv'
<1> USE DEF TypeInv
<1>1. ASSUME NEW w \in Workers, RedisError(w) PROVE LockInv'
  <2>1. UNCHANGED lock
    BY <1>1 DEF RedisError, redisVars
  <2>2. CASE Leave(w, "dead")
    BY <2>1, <2>2, LeaveKeepsLock
  <2>3. CASE pc[w] = "complete" /\ Goto(w, "hincrby") /\ UNCHANGED <<job, loc, elapsed>>
    BY <2>1, <2>3, GotoKeepsLock DEF WorkerPCs, Executing
  <2>4. CASE /\ pc[w] \in {"hincrby", "retry"} /\ loc[w].type = Sync
             /\ Goto(w, "srem") /\ loc' = [loc EXCEPT ![w].dying = TRUE]
             /\ UNCHANGED elapsed
    <3>1. \A v \in Workers : loc'[v].user = loc[v].user /\ loc'[v].type = loc[v].type
      BY <2>4 DEF TypeOK, Locals
    <3> QED BY <2>1, <2>4, <3>1, NoNewHolder
            DEF Goto, TypeOK, LockInv, Clocks, Timed, Holds, Executing
  <2> QED BY <1>1, <2>2, <2>3, <2>4 DEF RedisError
<1>2. ASSUME NEW p \in Processes, Crash(p) PROVE LockInv'
  BY <1>2, NoNewHolder
  DEF Crash, TypeOK, LockInv, Clocks, Timed, Holds, Executing, redisVars, NoLocals
<1>3. ASSUME UNCHANGED <<lock, workerVars>> PROVE LockInv'
  BY <1>3, NoNewHolder DEF LockInv, Clocks, Holds, workerVars
<1>4. ASSUME NEW t \in TaskIds, ExpireTask(t) \/ BecomeDue(t)
      PROVE  UNCHANGED <<lock, workerVars>>
  BY <1>4 DEF ExpireTask, BecomeDue
<1>5. ASSUME NEW e \in Enqueuers, Enqueue(e) PROVE UNCHANGED <<lock, workerVars>>
  BY <1>5 DEF Enqueue, EnqueueGet, EnqueueCheck, EnqueuePush, redisVars
<1> QED BY <1>1, <1>2, <1>3, <1>4, <1>5

(* One tick takes at most as much from the TTL as it adds to the run time.   *)
LEMMA TtlArithmetic ==
  ASSUME NEW ttl \in Int, NEW run \in Nat, NEW max \in Nat, NEW next,
         next \in {ttl - 1, max + 1}, ttl + run >= max
  PROVE  next + (run + 1) >= max
OBVIOUS

LEMMA TickKeepsLock ==
  ASSUME LockOutlastsTask, TypeInv, LockInv, Tick
  PROVE  LockInv'
<1> USE BoundsAssumption DEF TypeInv, TypeOK
<1>1. /\ elapsed' = [w \in Workers |-> IF pc[w] = "handler" THEN elapsed[w] + 1
                                       ELSE elapsed[w]]
      /\ lockTtl' = IF lockTtl \in {0, Forever} THEN lockTtl ELSE lockTtl - 1
      /\ running' = IF lockTtl = 1 THEN {} ELSE running
      /\ UNCHANGED <<pc, loc>>
  BY DEF Tick
<1>2. \A w \in Workers : Holds(w) => pc[w] = "handler" /\ elapsed[w] < TaskTimeout
  BY DEF Tick, TimeMayPass, LockOutlastsTask
<1>3. \A w \in Workers : Holds(w)' <=> Holds(w)
  BY <1>1 DEF Holds
<1>4. Clocks'
  BY <1>1 DEF LockInv, Clocks, Timed, Forever
<1>5. ASSUME NEW w \in Workers PROVE HolderOK(w)'
  <2>1. SUFFICES ASSUME Holds(w) PROVE loc[w].user \in running'
                                    /\ lockTtl' + elapsed'[w] >= LockTTL
    BY <1>1, <1>3 DEF HolderOK
  <2>2. pc[w] = "handler" /\ elapsed[w] < TaskTimeout /\ loc[w].user \in running
        /\ lockTtl + elapsed[w] >= LockTTL
    BY <1>2, <2>1 DEF LockInv, HolderOK
  <2>3. elapsed[w] \in Nat /\ LockTTL \in Nat /\ TaskTimeout \in Nat /\ lockTtl \in Int
    BY DEF Forever
  <2> HIDE DEF TypeInv, TypeOK
  <2>4. lockTtl > 1
    BY <2>2, <2>3 DEF LockOutlastsTask
  <2>5. running' = running /\ lockTtl' \in {lockTtl - 1, Forever}
    BY <1>1, <2>3, <2>4
  <2>6. elapsed'[w] = elapsed[w] + 1
    BY <1>1, <2>2
  <2>7. lockTtl' + elapsed'[w] >= LockTTL
    BY <2>2, <2>3, <2>5, <2>6, TtlArithmetic DEF Forever
  <2> QED BY <2>2, <2>5, <2>7
<1>6. HoldersDiffer'
  BY <1>1, <1>3 DEF LockInv, HoldersDiffer
<1> QED BY <1>4, <1>5, <1>6 DEF LockInv

LEMMA LockInit == Init => LockInv
BY DEF Init, LockInv, Clocks, HolderOK, HoldersDiffer, Holds, Executing, Timed

LEMMA LockStep ==
  ASSUME LockOutlastsTask, TypeInv, LockInv, [Next]_vars
  PROVE  LockInv'
<1>1. CASE UNCHANGED vars
  BY <1>1, NoNewHolder
  DEF vars, redisVars, workerVars, LockInv, Clocks, Holds, TypeInv
<1> QED BY <1>1, WorkerKeepsLock, FaultsKeepLock, TickKeepsLock DEF Next

(* Two syncs of one user never execute at the same time, however many users, *)
(* workers and processes there are and whatever crashes, if the TTL of the   *)
(* lock exceeds the task timeout.                                            *)
THEOREM SyncsExclusive == LockOutlastsTask => (Spec => []SyncMutex)
<1> SUFFICES ASSUME LockOutlastsTask PROVE Spec => []SyncMutex
  OBVIOUS
<1>1. TypeInv /\ LockInv /\ [Next]_vars => LockInv'
  BY LockStep
<1>2. TypeInv /\ LockInv => SyncMutex
  BY DEF LockInv, HoldersDiffer, SyncMutex, Holds
<1> QED BY TypeInit, TypeStep, LockInit, <1>1, <1>2, PTL DEF Spec

-----------------------------------------------------------------------------
(* Where a task id is.  A call of enqueue() uses an id nobody has seen yet;  *)
(* a worker holds an id only between BLPOP and the command that gives it up. *)

Unborn(t) == t > calls \/ \E e \in Enqueuers : caller[e].pc # "idle" /\ caller[e].id = t
Queued(t) == \E q \in Queues : \E i \in 1..Len(queue[q]) : queue[q][i] = t

CallsOK ==
  \A e, f \in Enqueuers :
    caller[e].pc # "idle" =>
      /\ caller[e].id <= calls
      /\ caller[f].pc # "idle" /\ caller[e].id = caller[f].id => e = f

UnbornOK ==
  \A t \in TaskIds : Unborn(t) => hash[t] = NoHash /\ ~Queued(t) /\ ~InHand(t)

JobExact == \A w \in Workers : job[w] # NoTask => pc[w] \in HandPCs

PlaceInv == CallsOK /\ UnbornOK /\ JobExact /\ AtMostOneOwner

(* What a step of a worker, failing or not, does to the ids, seen from       *)
(* outside: it keeps its task, gives it up, takes the head of a list or puts *)
(* its task at the end of one; it writes to the hash of its own task only.   *)
KeepsOrDrops(w) == queue' = queue /\ job'[w] \in {job[w], NoTask}
TakesHead(w) ==
  /\ job[w] = NoTask
  /\ \E q \in Polled : /\ queue[q] # << >>
                       /\ job'[w] = Head(queue[q])
                       /\ queue' = [queue EXCEPT ![q] = Tail(@)]
GivesBack(w) ==
  (Requeue(w) \/ Retry(w)) /\ job[w] \in TaskIds /\ RPush(w) /\ job'[w] = NoTask

WorkerEffect(w) ==
  /\ UNCHANGED <<caller, calls, raced, idem>>
  /\ \A t \in TaskIds : t # job[w] => hash'[t] = hash[t]
  /\ \A v \in Workers \ {w} : job'[v] = job[v] /\ pc'[v] = pc[v] /\ loc'[v] = loc[v]
  /\ job'[w] # NoTask => pc'[w] \in HandPCs
  /\ KeepsOrDrops(w) \/ TakesHead(w) \/ GivesBack(w)

LEMMA NoHashIds == NoTask \notin TaskIds
BY DEF NoTask, TaskIds

LEMMA WorkerEffects ==
  ASSUME TypeInv, JobExact, NEW w \in Workers, WorkerStep(w) \/ RedisError(w)
  PROVE  WorkerEffect(w)
<1> USE DEF TypeInv, TypeOK, redisVars, workerVars, env, faults, lock
<1>1. CASE Pop(w)
  <2>1. job[w] = NoTask
    BY <1>1 DEF Pop, JobExact, HandPCs, Executing
  <2>2. /\ pc' = [pc EXCEPT ![w] = "hgetall"]
        /\ \E q \in Polled : /\ queue[q] # << >>
                             /\ job' = [job EXCEPT ![w] = Head(queue[q])]
                             /\ queue' = [queue EXCEPT ![q] = Tail(@)]
        /\ UNCHANGED <<hash, loc, caller, calls, raced, idem>>
    BY <1>1 DEF Pop, Goto
  <2>3. TakesHead(w)
    BY <2>1, <2>2 DEF TakesHead
  <2> QED BY <2>2, <2>3 DEF WorkerEffect, HandPCs
<1>2. CASE Fetch(w)
  <2>1. UNCHANGED <<hash, queue, caller, calls, raced, idem>>
    BY <1>2 DEF Fetch
  <2>2. CASE Leave(w, "idle") /\ Drop(w)
    BY <2>1, <2>2 DEF WorkerEffect, KeepsOrDrops, Leave, Drop, Goto
  <2>3. CASE hash[job[w]] # NoHash
    <3>1. /\ pc' = [pc EXCEPT ![w] = NextAfterFetch(hash[job[w]])]
          /\ loc' = [loc EXCEPT ![w].type = hash[job[w]].type,
                                ![w].user = hash[job[w]].user]
          /\ job' = job
      BY <1>2, <2>3 DEF Fetch, Goto
    <3>2. NextAfterFetch(hash[job[w]]) \in HandPCs
      BY DEF NextAfterFetch, HandPCs
    <3> QED BY <2>1, <3>1, <3>2 DEF WorkerEffect, KeepsOrDrops
  <2> QED BY <1>2, <2>2, <2>3 DEF Fetch
<1>3. CASE Requeue(w)
  <2>1. job[w] \in TaskIds
    BY <1>3 DEF Requeue, JobOK, HandPCs
  <2> QED BY <1>3, <2>1
          DEF Requeue, PushBack, Leave, Drop, Goto, WorkerEffect, GivesBack
<1>4. CASE TryAcquire(w) \/ SetLockTTL(w) \/ HandlerEnds(w)
  BY <1>4 DEF TryAcquire, SetLockTTL, HandlerEnds, Goto, WorkerEffect, KeepsOrDrops,
              HandPCs, Executing
<1>5. CASE Start(w) \/ CountRetry(w)
  BY <1>5 DEF Start, CountRetry, Goto, WorkerEffect, KeepsOrDrops, HandPCs, Executing
<1>6. CASE Unhandled(w)
  BY <1>6 DEF Unhandled, Leave, Drop, Goto, WorkerEffect, KeepsOrDrops
<1>7. CASE Complete(w) \/ DeadLetter(w)
  BY <1>7 DEF Complete, DeadLetter, Unwind, Leave, Drop, Goto, WorkerEffect, KeepsOrDrops
<1>8. CASE Retry(w)
  <2>1. job[w] \in TaskIds
    BY <1>8 DEF Retry, JobOK, HandPCs, Executing
  <2> QED BY <1>8, <2>1
          DEF Retry, Unwind, Leave, Drop, Goto, WorkerEffect, GivesBack
<1>9. CASE Release(w)
  <2>1. job[w] = NoTask
    BY <1>9 DEF Release, JobExact, HandPCs, Executing
  <2> QED BY <1>9, <2>1 DEF Release, Leave, Goto, WorkerEffect, KeepsOrDrops
<1>10. CASE RedisError(w)
  BY <1>10 DEF RedisError, Leave, Drop, Goto, WorkerEffect, KeepsOrDrops, HandPCs, Executing
<1> QED BY <1>1, <1>2, <1>3, <1>4, <1>5, <1>6, <1>7, <1>8, <1>9, <1>10 DEF WorkerStep

(* Lists of ids: what each way of changing one does to the places of ids.    *)
HandsDiffer == \A v, w \in Workers : job[v] = job[w] /\ job[v] # NoTask => v = w
HandsNotQueued ==
  \A w \in Workers, q \in Queues : \A i \in 1..Len(queue[q]) : queue[q][i] # job[w]
QueuesDiffer ==
  \A q, r \in Queues : \A i \in 1..Len(queue[q]), j \in 1..Len(queue[r]) :
    queue[q][i] = queue[r][j] => q = r /\ i = j

LEMMA OwnerParts == AtMostOneOwner <=> HandsDiffer /\ HandsNotQueued /\ QueuesDiffer
BY DEF AtMostOneOwner, HandsDiffer, HandsNotQueued, QueuesDiffer

LEMMA KeptPlaces ==
  ASSUME TypeInv, AtMostOneOwner, queue' = queue,
         \A w \in Workers : job'[w] \in {job[w], NoTask}
  PROVE  AtMostOneOwner' /\ \A t \in TaskIds : Queued(t)' <=> Queued(t)
<1>1. HandsDiffer' /\ QueuesDiffer'
  BY OwnerParts DEF HandsDiffer, QueuesDiffer
<1>2. HandsNotQueued'
  <2>1. \A q \in Queues : \A i \in 1..Len(queue[q]) : queue[q][i] \in TaskIds
    BY DEF TypeInv, TypeOK
  <2> QED BY <2>1, OwnerParts, NoHashIds DEF HandsNotQueued
<1>3. AtMostOneOwner'
  BY <1>1, <1>2 DEF AtMostOneOwner, HandsDiffer, HandsNotQueued, QueuesDiffer
<1> QED BY <1>3 DEF Queued

LEMMA PoppedPlaces ==
  ASSUME TypeInv, AtMostOneOwner, NEW w \in Workers, NEW q \in Queues,
         queue[q] # << >>, queue' = [queue EXCEPT ![q] = Tail(@)],
         job'[w] = Head(queue[q]), \A v \in Workers \ {w} : job'[v] = job[v]
  PROVE  /\ AtMostOneOwner'
         /\ Queued(job'[w]) /\ job'[w] \in TaskIds
         /\ \A t \in TaskIds : Queued(t)' => Queued(t)
         /\ \A t \in TaskIds : Queued(t) => Queued(t)' \/ t = job'[w]
<1> DEFINE off(r) == IF r = q THEN 1 ELSE 0
<1>1. /\ \A r \in Queues : queue[r] \in Seq(TaskIds)
      /\ queue \in [Queues -> Seq(TaskIds)]
  BY DEF TypeInv, TypeOK
<1>2. \A r \in Queues : Len(queue'[r]) = Len(queue[r]) - off(r)
  <2>1. Len(Tail(queue[q])) = Len(queue[q]) - 1
    BY <1>1
  <2> QED BY <1>1, <2>1
<1>3. \A r \in Queues : \A i \in 1..Len(queue'[r]) :
         /\ i + off(r) \in 1..Len(queue[r])
         /\ queue'[r][i] = queue[r][i + off(r)]
  <2>1. \A i \in 1..Len(queue'[q]) : Tail(queue[q])[i] = queue[q][i + 1]
    BY <1>1, <1>2
  <2>2. \A r \in Queues : Len(queue[r]) \in Nat
    BY <1>1
  <2> QED BY <1>1, <1>2, <2>1, <2>2
<1>4. 1 \in 1..Len(queue[q]) /\ job'[w] = queue[q][1] /\ job'[w] \in TaskIds
  BY <1>1
<1>5. \A r \in Queues : Len(queue[r]) \in Nat
  BY <1>1
<1>6. HandsDiffer'
  BY <1>4, OwnerParts DEF HandsDiffer, HandsNotQueued
<1>7. HandsNotQueued'
  <2> SUFFICES ASSUME NEW v \in Workers, NEW r \in Queues, NEW i \in 1..Len(queue'[r])
               PROVE  queue'[r][i] # job'[v]
    BY DEF HandsNotQueued
  <2>1. CASE v # w
    BY <2>1, <1>3, OwnerParts DEF HandsNotQueued
  <2>2. CASE v = w
    <3>1. ~(r = q /\ i + off(r) = 1)
      BY <1>5
    <3> QED BY <2>2, <3>1, <1>3, <1>4, OwnerParts DEF QueuesDiffer
  <2> QED BY <2>1, <2>2
<1>8. QueuesDiffer'
  <2> SUFFICES ASSUME NEW r \in Queues, NEW s \in Queues, NEW i \in 1..Len(queue'[r]),
                      NEW j \in 1..Len(queue'[s]), queue'[r][i] = queue'[s][j]
               PROVE  r = s /\ i = j
    BY DEF QueuesDiffer
  <2>1. r = s /\ i + off(r) = j + off(s)
    BY <1>3, OwnerParts DEF QueuesDiffer
  <2> QED BY <2>1, <1>5
<1>9. \A t \in TaskIds : Queued(t)' => Queued(t)
  BY <1>3 DEF Queued
<1>10. ASSUME NEW t \in TaskIds, Queued(t), t # job'[w] PROVE Queued(t)'
  <2>1. PICK r \in Queues : \E i \in 1..Len(queue[r]) : queue[r][i] = t
    BY <1>10 DEF Queued
  <2>2. PICK i \in 1..Len(queue[r]) : queue[r][i] = t
    BY <2>1
  <2>3. i - off(r) \in 1..Len(queue'[r])
    BY <2>2, <1>2, <1>4, <1>5, <1>10
  <2>4. queue'[r][i - off(r)] = t
    BY <2>2, <2>3, <1>3
  <2> QED BY <2>3, <2>4 DEF Queued
<1>11. AtMostOneOwner'
  BY <1>6, <1>7, <1>8 DEF AtMostOneOwner, HandsDiffer, HandsNotQueued, QueuesDiffer
<1>12. Queued(job'[w])
  BY <1>4 DEF Queued
<1> QED BY <1>4, <1>9, <1>10, <1>11, <1>12

LEMMA SameShift ==
  ASSUME NEW i \in Int, NEW j \in Int, NEW d \in Int, i - d = j - d
  PROVE  i = j
OBVIOUS

(* An id nobody has goes to one end of one list.                             *)
LEMMA PushedPlaces ==
  ASSUME TypeInv, AtMostOneOwner, NEW q \in Queues, NEW t \in TaskIds,
         ~Queued(t), \A v \in Workers : job'[v] \in {job[v], NoTask} /\ job'[v] # t,
         \/ queue' = [queue EXCEPT ![q] = Append(@, t)]
         \/ queue' = [queue EXCEPT ![q] = <<t>> \o @]
  PROVE  /\ AtMostOneOwner'
         /\ \A u \in TaskIds : Queued(u)' <=> Queued(u) \/ u = t
<1>1. queue \in [Queues -> Seq(TaskIds)] /\ \A r \in Queues : queue[r] \in Seq(TaskIds)
  BY DEF TypeInv, TypeOK
<1>2. PICK d \in {0, 1} :
        /\ Len(queue'[q]) = Len(queue[q]) + 1
        /\ queue'[q][IF d = 0 THEN Len(queue[q]) + 1 ELSE 1] = t
        /\ \A i \in 1..Len(queue[q]) : queue'[q][i + d] = queue[q][i]
  <2>1. CASE queue' = [queue EXCEPT ![q] = Append(@, t)]
    <3>1. queue'[q] = Append(queue[q], t)
      BY <1>1, <2>1
    <3>2. /\ Len(queue'[q]) = Len(queue[q]) + 1
          /\ queue'[q][Len(queue[q]) + 1] = t
          /\ \A i \in 1..Len(queue[q]) : queue'[q][i] = queue[q][i]
      BY <1>1, <3>1, AppendProperties
    <3> QED BY <3>2, <1>1
  <2>2. CASE queue' = [queue EXCEPT ![q] = <<t>> \o @]
    <3>1. queue'[q] = <<t>> \o queue[q] /\ <<t>> \in Seq(TaskIds)
      BY <1>1, <2>2
    <3>2. /\ Len(queue'[q]) = 1 + Len(queue[q])
          /\ \A i \in 1..(1 + Len(queue[q])) :
               queue'[q][i] = IF i <= 1 THEN <<t>>[i] ELSE queue[q][i - 1]
      BY <1>1, <3>1, ConcatProperties, Len(<<t>>) = 1
    <3>3. Len(queue[q]) \in Nat
      BY <1>1
    <3>4. queue'[q][1] = t /\ \A i \in 1..Len(queue[q]) : queue'[q][i + 1] = queue[q][i]
      BY <3>2, <3>3
    <3> HIDE DEF TypeInv
    <3> QED BY <3>2, <3>3, <3>4
  <2> QED BY <2>1, <2>2
<1>3. \A r \in Queues \ {q} : queue'[r] = queue[r]
  BY <1>1
<1>4. \A r \in Queues : Len(queue[r]) \in Nat
  BY <1>1
<1> DEFINE at == IF d = 0 THEN Len(queue[q]) + 1 ELSE 1
           off(r) == IF r = q THEN d ELSE 0
<1>5. ASSUME NEW r \in Queues, NEW i \in 1..Len(queue'[r])
      PROVE  \/ r = q /\ i = at /\ queue'[r][i] = t
             \/ /\ i - off(r) \in 1..Len(queue[r])
                /\ queue'[r][i] = queue[r][i - off(r)]
  <2>1. CASE r # q
    BY <2>1, <1>3, <1>4
  <2>2. CASE r = q /\ i = at
    BY <2>2, <1>2
  <2>3. CASE r = q /\ i # at
    <3>1. i - d \in 1..Len(queue[q])
      BY <2>3, <1>2, <1>4
    <3> QED BY <2>3, <3>1, <1>2, <1>4
  <2> QED BY <2>1, <2>2, <2>3
<1> HIDE DEF at
<1>6. \A r \in Queues : \A i \in 1..Len(queue[r]) : queue[r][i] # t /\ queue[r][i] \in TaskIds
  BY <1>1 DEF Queued
<1>7. HandsDiffer'
  BY OwnerParts DEF HandsDiffer
<1>8. HandsNotQueued'
  BY <1>5, <1>6, OwnerParts, NoHashIds DEF HandsNotQueued
<1>9. QueuesDiffer'
  <2> SUFFICES ASSUME NEW r \in Queues, NEW s \in Queues, NEW i \in 1..Len(queue'[r]),
                      NEW j \in 1..Len(queue'[s]), queue'[r][i] = queue'[s][j]
               PROVE  r = s /\ i = j
    BY DEF QueuesDiffer
  <2>1. CASE queue'[r][i] = t
    <3>1. r = q /\ i = at
      BY <2>1, <1>5, <1>6
    <3>2. queue'[s][j] = t
      BY <2>1
    <3>3. s = q /\ j = at
      BY <3>2, <1>5, <1>6
    <3> QED BY <3>1, <3>3
  <2>2. CASE queue'[r][i] # t
    <3>1. i - off(r) \in 1..Len(queue[r]) /\ queue'[r][i] = queue[r][i - off(r)]
      BY <2>2, <1>5
    <3>2. queue'[s][j] # t
      BY <2>2
    <3>3. j - off(s) \in 1..Len(queue[s]) /\ queue'[s][j] = queue[s][j - off(s)]
      BY <3>2, <1>5
    <3>4. QueuesDiffer
      BY OwnerParts
    <3> HIDE DEF off
    <3>5. queue[r][i - off(r)] = queue[s][j - off(s)]
      BY <3>1, <3>3
    <3>6. r = s /\ i - off(r) = j - off(s)
      BY <3>1, <3>3, <3>4, <3>5, Zenon DEF QueuesDiffer
    <3>7. i \in Int /\ j \in Int /\ off(r) \in Int
      BY DEF off
    <3>8. i - off(r) = j - off(r)
      BY <3>6
    <3> QED BY <3>6, <3>7, <3>8, SameShift, Zenon
  <2> QED BY <2>1, <2>2
<1>10. ASSUME NEW u \in TaskIds, Queued(u)' PROVE Queued(u) \/ u = t
  <2>1. PICK r \in Queues : \E i \in 1..Len(queue'[r]) : queue'[r][i] = u
    BY <1>10 DEF Queued
  <2>2. PICK i \in 1..Len(queue'[r]) : queue'[r][i] = u
    BY <2>1
  <2>3. u = t \/ (i - off(r) \in 1..Len(queue[r]) /\ u = queue[r][i - off(r)])
    BY <1>5, <2>2
  <2> QED BY <2>3, Zenon DEF Queued
<1>11. Queued(t)'
  <2>1. at \in 1..Len(queue'[q]) /\ queue'[q][at] = t
    BY <1>2, <1>4 DEF at
  <2> QED BY <2>1 DEF Queued
<1>12. ASSUME NEW u \in TaskIds, Queued(u) PROVE Queued(u)'
  <2>1. PICK r \in Queues : \E i \in 1..Len(queue[r]) : queue[r][i] = u
    BY <1>12 DEF Queued
  <2>2. PICK i \in 1..Len(queue[r]) : queue[r][i] = u
    BY <2>1
  <2>3. i + off(r) \in 1..Len(queue'[r]) /\ queue'[r][i + off(r)] = u
    BY <2>2, <1>2, <1>3, <1>4
  <2> QED BY <2>3 DEF Queued
<1>13. AtMostOneOwner'
  BY <1>7, <1>8, <1>9 DEF AtMostOneOwner, HandsDiffer, HandsNotQueued, QueuesDiffer
<1> QED BY <1>10, <1>11, <1>12, <1>13

(* The head of a polled list, and the end of the list a worker gives back to.*)
LEMMA WorkerPlaces ==
  ASSUME TypeInv, PlaceInv, NEW w \in Workers, WorkerEffect(w)
  PROVE  /\ AtMostOneOwner'
         /\ \A t \in TaskIds : /\ Queued(t)' => Queued(t) \/ t = job[w]
                               /\ InHand(t)' => InHand(t) \/ Queued(t)
                               /\ Queued(t) => Queued(t)' \/ InHand(t)'
<1> USE DEF PlaceInv
<1>1. \A v \in Workers \ {w} : job'[v] = job[v]
  BY DEF WorkerEffect
<1>2. CASE KeepsOrDrops(w)
  <2>1. \A v \in Workers : job'[v] \in {job[v], NoTask}
    BY <1>1, <1>2 DEF KeepsOrDrops
  <2> QED BY <1>2, <2>1, KeptPlaces, NoHashIds DEF KeepsOrDrops, InHand
<1>3. CASE TakesHead(w)
  <2>1. PICK q \in Polled : /\ queue[q] # << >> /\ job'[w] = Head(queue[q])
                            /\ queue' = [queue EXCEPT ![q] = Tail(@)]
    BY <1>3 DEF TakesHead
  <2>2. q \in Queues
    BY DEF Polled, Queues
  <2>3. /\ AtMostOneOwner' /\ Queued(job'[w])
        /\ \A t \in TaskIds : Queued(t)' => Queued(t)
        /\ \A t \in TaskIds : Queued(t) => Queued(t)' \/ t = job'[w]
    BY <1>1, <2>1, <2>2, PoppedPlaces
  <2> QED BY <1>1, <2>3 DEF InHand
<1>4. CASE GivesBack(w)
  <2> DEFINE q == <<"high", loc[w].type>>
  <2>1. q \in Queues /\ job[w] \in TaskIds
    BY <1>4 DEF GivesBack, TypeInv, TypeOK, Locals, Queues, Priorities
  <2>2. ~Queued(job[w])
    BY OwnerParts DEF Queued, HandsNotQueued
  <2>3. \A v \in Workers : job'[v] \in {job[v], NoTask} /\ job'[v] # job[w]
    BY <1>1, <1>4, <2>1, OwnerParts, NoHashIds DEF GivesBack, HandsDiffer
  <2>4. queue' = [queue EXCEPT ![q] = Append(@, job[w])]
    BY <1>4 DEF GivesBack, RPush
  <2>5. AtMostOneOwner' /\ \A t \in TaskIds : Queued(t)' <=> Queued(t) \/ t = job[w]
    <3> HIDE DEF q
    <3> QED BY <2>1, <2>2, <2>3, <2>4, PushedPlaces
  <2> QED BY <2>3, <2>5, NoHashIds DEF InHand
<1> QED BY <1>2, <1>3, <1>4 DEF WorkerEffect

LEMMA WorkerKeepsPlaces ==
  ASSUME TypeInv, PlaceInv, NEW w \in Workers, WorkerStep(w) \/ RedisError(w)
  PROVE  PlaceInv'
<1>1. WorkerEffect(w)
  BY WorkerEffects DEF PlaceInv
<1>2. /\ UNCHANGED <<caller, calls>>
      /\ \A t \in TaskIds : t # job[w] => hash'[t] = hash[t]
  BY <1>1 DEF WorkerEffect
<1>3. CallsOK'
  BY <1>2 DEF PlaceInv, CallsOK
<1>4. UnbornOK'
  <2> SUFFICES ASSUME NEW t \in TaskIds, Unborn(t)
               PROVE  hash'[t] = NoHash /\ ~Queued(t)' /\ ~InHand(t)'
    BY <1>2 DEF UnbornOK, Unborn
  <2>1. hash[t] = NoHash /\ ~Queued(t) /\ ~InHand(t) /\ t # job[w]
    BY DEF PlaceInv, UnbornOK, InHand
  <2> QED BY <1>1, <1>2, <2>1, WorkerPlaces
<1>5. JobExact'
  BY <1>1 DEF WorkerEffect, PlaceInv, JobExact
<1> QED BY <1>1, <1>3, <1>4, <1>5, WorkerPlaces DEF PlaceInv

LEMMA EnqueueKeepsPlaces ==
  ASSUME TypeInv, PlaceInv, NEW e \in Enqueuers, Enqueue(e)
  PROVE  PlaceInv'
<1> USE DEF TypeInv, TypeOK, PlaceInv, redisVars, workerVars, env, faults, lock
<1>1. UNCHANGED <<job, pc>>
  BY DEF Enqueue, EnqueueGet, EnqueueCheck, EnqueuePush
<1>2. JobExact' /\ \A t \in TaskIds : InHand(t)' <=> InHand(t)
  BY <1>1 DEF JobExact, InHand
<1>3. ASSUME NEW req \in Requests, EnqueueGet(e, req) PROVE PlaceInv'
  <2>1. /\ UNCHANGED <<hash, queue>> /\ calls' = calls + 1
        /\ caller[e].pc = "idle" /\ caller'[e].id = calls + 1
        /\ \A f \in Enqueuers \ {e} : caller'[f] = caller[f]
    BY <1>3 DEF EnqueueGet
  <2>2. CallsOK'
    <3> SUFFICES ASSUME NEW f \in Enqueuers, NEW g \in Enqueuers, caller'[f].pc # "idle"
                 PROVE  /\ caller'[f].id <= calls'
                        /\ caller'[g].pc # "idle" /\ caller'[f].id = caller'[g].id => f = g
      BY DEF CallsOK
    <3>1. \A h \in Enqueuers \ {e} : caller[h].pc # "idle" => caller[h].id \in 1..calls
      BY DEF CallsOK, CallerOK, TaskIds
    <3>2. calls \in Nat
      BY BoundsAssumption
    <3> HIDE DEF TypeOK, PlaceInv, TypeInv
    <3>3. caller'[f].id \in 1..(calls + 1) /\ (f # e => caller'[f].id <= calls)
      BY <2>1, <3>1, <3>2
    <3>4. caller'[g].pc # "idle" /\ g # e => caller'[g].id <= calls
      BY <2>1, <3>1, <3>2
    <3>5. f # e /\ g # e /\ caller'[g].pc # "idle" /\ caller'[f].id = caller'[g].id => f = g
      BY <2>1 DEF PlaceInv, CallsOK
    <3> QED BY <2>1, <3>2, <3>3, <3>4, <3>5
  <2>3. UnbornOK'
    <3> SUFFICES ASSUME NEW t \in TaskIds, Unborn(t)' PROVE Unborn(t)
      BY <1>2, <2>1 DEF UnbornOK, Queued
    <3>1. CASE t > calls + 1 \/ t = calls + 1
      BY <3>1, BoundsAssumption DEF Unborn, TaskIds
    <3>2. CASE \E f \in Enqueuers \ {e} : caller[f].pc # "idle" /\ caller[f].id = t
      BY <3>2 DEF Unborn
    <3> QED BY <2>1, <3>1, <3>2 DEF Unborn
  <2> QED BY <1>1, <1>2, <2>1, <2>2, <2>3 DEF AtMostOneOwner
<1>4. ASSUME EnqueueCheck(e) PROVE PlaceInv'
  <2>1. /\ UNCHANGED <<hash, queue, calls>>
        /\ \A f \in Enqueuers : /\ caller'[f].pc # "idle" => caller[f].pc # "idle"
                                /\ caller'[f].pc # "idle" => caller'[f].id = caller[f].id
    BY <1>4 DEF EnqueueCheck, IdleCaller, Caller
  <2>2. CallsOK'
    BY <2>1 DEF CallsOK
  <2>3. \A t \in TaskIds : (Unborn(t)' => Unborn(t)) /\ (Queued(t)' <=> Queued(t))
    BY <2>1 DEF Unborn, Queued
  <2>4. UnbornOK'
    BY <1>2, <2>1, <2>3 DEF UnbornOK
  <2>5. AtMostOneOwner'
    <3> HIDE DEF TypeInv, TypeOK
    <3> QED BY <1>1, <2>1 DEF AtMostOneOwner
  <2> QED BY <1>2, <2>2, <2>4, <2>5
<1>5. ASSUME EnqueuePush(e) PROVE PlaceInv'
  <2> DEFINE id == caller[e].id
             q  == <<caller[e].req.prio, caller[e].req.type>>
  <2>1. /\ id \in TaskIds /\ q \in Queues /\ Unborn(id) /\ caller[e].pc # "idle"
    BY <1>5, RequestsAssumption DEF EnqueuePush, CallerOK, Queues, Unborn
  <2>2. /\ hash' = [hash EXCEPT ![id] = TaskOf(caller[e].req)]
        /\ queue' = [queue EXCEPT ![q] = <<id>> \o @]
        /\ caller' = [caller EXCEPT ![e] = IdleCaller] /\ calls' = calls
    BY <1>5 DEF EnqueuePush
  <2>3. ~Queued(id) /\ \A v \in Workers : job'[v] \in {job[v], NoTask} /\ job'[v] # id
    BY <1>1, <2>1 DEF UnbornOK, InHand
  <2>4. /\ AtMostOneOwner'
        /\ \A t \in TaskIds : Queued(t)' <=> Queued(t) \/ t = id
    <3> HIDE DEF id, q
    <3> QED BY <2>1, <2>2, <2>3, PushedPlaces
  <2>5. CallsOK'
    BY <2>2 DEF CallsOK, IdleCaller
  <2>6. UnbornOK'
    <3> SUFFICES ASSUME NEW t \in TaskIds, Unborn(t)' PROVE Unborn(t) /\ t # id
      BY <1>2, <2>2, <2>4 DEF UnbornOK
    <3>1. Unborn(t)
      BY <2>2 DEF Unborn, IdleCaller
    <3>2. t # id
      BY <2>1, <2>2 DEF Unborn, CallsOK, IdleCaller, TaskIds, Caller
    <3> QED BY <3>1, <3>2
  <2> QED BY <1>2, <2>4, <2>5, <2>6
<1> QED BY <1>3, <1>4, <1>5 DEF Enqueue

LEMMA OthersKeepPlaces ==
  ASSUME TypeInv, PlaceInv,
         \/ \E p \in Processes : Crash(p)
         \/ \E t \in TaskIds : ExpireTask(t) \/ BecomeDue(t)
         \/ Tick
         \/ UNCHANGED vars
  PROVE  PlaceInv'
<1> USE DEF redisVars, workerVars, env, faults, lock, vars
<1>1. UNCHANGED <<caller, calls, queue>>
  BY DEF Crash, ExpireTask, BecomeDue, Tick
<1>2. \A w \in Workers : \/ job'[w] = job[w] /\ pc'[w] = pc[w]
                         \/ job'[w] = NoTask
  BY DEF Crash, ExpireTask, BecomeDue, Tick, TypeInv, TypeOK
<1>3. \A t \in TaskIds : hash[t] = NoHash => hash'[t] = NoHash
  <2>1. CASE \E t \in TaskIds : BecomeDue(t)
    <3>1. PICK u \in TaskIds : /\ hash[u].delayed
                              /\ hash' = [hash EXCEPT ![u].delayed = FALSE]
      BY <2>1 DEF BecomeDue
    <3>2. hash[u] # NoHash
      BY <3>1 DEF NoHash
    <3>3. \A t \in TaskIds \ {u} : hash'[t] = hash[t]
      BY <3>1 DEF TypeInv, TypeOK
    <3> QED BY <3>2, <3>3
  <2>2. CASE \E t \in TaskIds : ExpireTask(t)
    BY <2>2 DEF ExpireTask, TypeInv, TypeOK
  <2> QED BY <2>1, <2>2 DEF Crash, Tick
<1>4. AtMostOneOwner' /\ \A t \in TaskIds : Queued(t)' <=> Queued(t)
  BY <1>1, <1>2, KeptPlaces DEF PlaceInv
<1> QED BY <1>1, <1>2, <1>3, <1>4, NoHashIds
        DEF PlaceInv, CallsOK, UnbornOK, Unborn, InHand, JobExact

LEMMA PlaceInit == Init => PlaceInv
BY DEF Init, PlaceInv, CallsOK, UnbornOK, Unborn, InHand, Queued, JobExact, AtMostOneOwner,
       IdleCaller, TaskIds, NoTask

LEMMA PlaceStep == TypeInv /\ PlaceInv /\ [Next]_vars => PlaceInv'
BY EnqueueKeepsPlaces, WorkerKeepsPlaces, OthersKeepPlaces DEF Next

(* No id is ever in two places: the exclusive half of HeldOnce, whatever     *)
(* crashes, fails or expires.                                                *)
THEOREM DeliveredOnce == Spec => []AtMostOneOwner
<1>1. PlaceInv => AtMostOneOwner
  BY DEF PlaceInv
<1> QED BY TypeInit, TypeStep, PlaceInit, PlaceStep, <1>1, PTL DEF Spec

-----------------------------------------------------------------------------
(* What is known of a task from where it is, as long as no hash expires:     *)
(* while it waits it is pending with attempts left; while a worker has it,   *)
(* status, counter and the worker's locals go with the program counter.      *)

HandOK(w) ==
  job[w] # NoTask =>
    LET h == hash[job[w]]
    IN /\ h.type \in Types
       /\ pc[w] # "hgetall" => loc[w].type = h.type /\ loc[w].user = h.user
       /\ pc[w] \notin Executing => h.status = "pending" /\ h.retry < MaxRetries
       /\ pc[w] \in Executing => h.status = "running"
       /\ pc[w] \in Executing \ {"retry"} => h.retry < MaxRetries
       /\ pc[w] = "retry" => h.retry = loc[w].tries /\ h.retry <= MaxRetries
       /\ pc[w] # "unhandled"

WaitOK ==
  /\ \A t \in TaskIds : Queued(t) =>
       hash[t].type \in Types /\ hash[t].status = "pending" /\ hash[t].retry < MaxRetries
  /\ \A q \in Queues \ Polled : queue[q] = << >>

Dead(t) == \E i \in 1..Len(dlq) : dlq[i] = t
GivenUp(t) == hash[t].status = "failed" /\ hash[t].retry = MaxRetries
DlqOK ==
  /\ \A i, j \in 1..Len(dlq) : dlq[i] = dlq[j] => i = j
  /\ \A t \in TaskIds : Dead(t) <=> GivenUp(t)

TaskInv == expiries = 0 => WaitOK /\ (\A w \in Workers : HandOK(w)) /\ DlqOK

KnownInv ==
  crashes + errors + expiries = 0 =>
    \A t \in TaskIds : Unfinished(t) => Queued(t) \/ InHand(t)

(* Idempotency keys.  A key whose calls never overlapped names its only      *)
(* unfinished task; a call that may still push knows there is none.          *)
KeyedBy(t) == <<hash[t].type, hash[t].user>>
Alone(e) == caller[e].pc # "idle" /\ KeyOf(caller[e].req) \notin raced
Claims(t, k) == Unfinished(t) /\ KeyedBy(t) = k

PlacedUnfinished ==
  \A t \in TaskIds : (Queued(t) \/ InHand(t)) /\ hash[t].type \in Types => Unfinished(t)
KeyNames ==
  \A t \in TaskIds : \A k \in Keys \ raced : Claims(t, k) => idem[k] = t
AloneOK ==
  \A e \in Enqueuers : Alone(e) =>
    /\ \A f \in Enqueuers :
         caller[f].pc # "idle" /\ KeyOf(caller[f].req) = KeyOf(caller[e].req) => e = f
    /\ \A t \in TaskIds : Claims(t, KeyOf(caller[e].req)) =>
         caller[e].pc = "hgetall" /\ t = caller[e].found

KeyInv == PlacedUnfinished /\ KeyNames /\ AloneOK

(* What a step of a worker does to its own task.                             *)
TaskMoved(w) ==
  /\ HandOK(w)'
  /\ Requeue(w) \/ Retry(w) =>
       /\ loc[w].type \in Types
       /\ hash'[job[w]].type \in Types
       /\ hash'[job[w]].status = "pending" /\ hash'[job[w]].retry < MaxRetries
  /\ \/ DeadLetter(w)
     \/ dlq' = dlq /\ \A t \in TaskIds : t = job[w] => ~GivenUp(t)'

LEMMA OwnTask ==
  ASSUME TypeInv, PlaceInv, TaskInv, expiries = 0, NEW w \in Workers,
         WorkerStep(w) \/ RedisError(w)
  PROVE  TaskMoved(w)
<1> USE DEF TypeInv, TypeOK, redisVars, workerVars, env, faults, lock
<1>1. /\ HandOK(w) /\ WaitOK /\ DlqOK
      /\ job[w] # NoTask => job[w] \in TaskIds /\ pc[w] \in HandPCs
      /\ pc[w] \in HandPCs => job[w] # NoTask /\ job[w] \in TaskIds
  BY NoHashIds DEF TaskInv, JobOK, PlaceInv, JobExact, TaskRefs
<1>2. CASE Pop(w)
  <2>1. PICK q \in Polled : /\ queue[q] # << >>
                            /\ job' = [job EXCEPT ![w] = Head(queue[q])]
    BY <1>2 DEF Pop
  <2>2. q \in Queues /\ 1 \in 1..Len(queue[q]) /\ job'[w] = queue[q][1] /\ job'[w] \in TaskIds
    BY <2>1 DEF Polled, Queues
  <2>3. Queued(job'[w])
    BY <2>2 DEF Queued
  <2>4. hash' = hash /\ dlq' = dlq /\ pc'[w] = "hgetall" /\ job[w] = NoTask /\ pc[w] = "idle"
    BY <1>1, <1>2 DEF Pop, Goto, HandPCs, Executing
  <2>5. HandOK(w)'
    BY <1>1, <2>2, <2>3, <2>4 DEF HandOK, WaitOK, Executing
  <2> QED BY <2>4, <2>5, NoHashIds DEF TaskMoved, Requeue, Retry
<1> DEFINE h == hash[job[w]]
<1>3. CASE Fetch(w)
  <2>1. /\ hash' = hash /\ dlq' = dlq /\ pc[w] = "hgetall" /\ h.status = "pending"
        /\ h.type \in Types /\ h.retry < MaxRetries /\ job[w] \in TaskIds
    BY <1>1, <1>3 DEF Fetch, HandOK, HandPCs, Executing
  <2>2. HandOK(w)'
    <3>1. CASE Drop(w)
      BY <3>1 DEF Drop, HandOK
    <3>2. CASE h # NoHash
      <4>1. /\ pc'[w] = NextAfterFetch(h) /\ job' = job
            /\ loc'[w].type = h.type /\ loc'[w].user = h.user
        BY <1>3, <3>2 DEF Fetch, Goto, Locals
      <4>2. NextAfterFetch(h) \notin Executing \cup {"unhandled"}
        BY <2>1 DEF NextAfterFetch, Executing
      <4> QED BY <1>1, <2>1, <4>1, <4>2 DEF HandOK, Executing
    <3> QED BY <1>3, <3>1, <3>2 DEF Fetch
  <2> QED BY <2>1, <2>2 DEF TaskMoved, GivenUp, Requeue, Retry
<1>4. CASE Requeue(w)
  BY <1>1, <1>4
  DEF Requeue, PushBack, Drop, TaskMoved, HandOK, HandPCs, Executing, GivenUp
<1>5. CASE TryAcquire(w) \/ SetLockTTL(w) \/ HandlerEnds(w)
  BY <1>1, <1>5
  DEF TryAcquire, SetLockTTL, HandlerEnds, Goto, TaskMoved, HandOK, HandPCs, Executing,
      GivenUp, Requeue, Retry
<1>6. CASE Start(w)
  <2>1. /\ pc[w] = "start" /\ pc'[w] = "handler" /\ dlq' = dlq /\ job' = job /\ loc' = loc
        /\ hash'[job[w]] = [h EXCEPT !.status = "running"] /\ h \in Hash
    BY <1>1, <1>6 DEF Start, Goto, HandPCs
  <2>2. /\ hash'[job[w]].status = "running" /\ hash'[job[w]].type = h.type
        /\ hash'[job[w]].user = h.user /\ hash'[job[w]].retry = h.retry
    BY <2>1 DEF Hash
  <2> HIDE DEF TypeInv, TypeOK, h
  <2> QED BY <1>1, <2>1, <2>2
          DEF TaskMoved, HandOK, Executing, HandPCs, GivenUp, Requeue, Retry, h
<1>7. CASE CountRetry(w)
  <2>1. /\ pc[w] = "hincrby" /\ pc'[w] = "retry" /\ dlq' = dlq /\ job' = job
        /\ hash'[job[w]] = [h EXCEPT !.retry = h.retry + 1] /\ h \in Hash
        /\ loc'[w] = [loc[w] EXCEPT !.tries = h.retry + 1] /\ loc[w] \in Locals
    BY <1>1, <1>7 DEF CountRetry, RetryCount, Goto, HandPCs, Executing
  <2>2. /\ hash'[job[w]].status = h.status /\ hash'[job[w]].type = h.type
        /\ hash'[job[w]].user = h.user /\ hash'[job[w]].retry = h.retry + 1
        /\ loc'[w].type = loc[w].type /\ loc'[w].user = loc[w].user
        /\ loc'[w].tries = h.retry + 1
        /\ h.retry \in Nat /\ MaxRetries \in Nat
    BY <2>1, BoundsAssumption DEF Hash, Locals
  <2>3. /\ h.type \in Types /\ loc[w].type = h.type /\ loc[w].user = h.user
        /\ h.status = "running" /\ h.retry < MaxRetries
    BY <1>1, <2>1 DEF HandOK, Executing, HandPCs
  <2> HIDE DEF TypeInv, TypeOK, h
  <2>4. h.retry + 1 <= MaxRetries
    BY <2>2, <2>3
  <2>5. HandOK(w)'
    BY <2>1, <2>2, <2>3, <2>4 DEF HandOK, Executing
  <2>6. \A t \in TaskIds : t = job[w] => ~GivenUp(t)'
    BY <2>2, <2>3 DEF GivenUp
  <2> QED BY <2>1, <2>5, <2>6 DEF TaskMoved, Requeue, Retry
<1>8. CASE Unhandled(w)
  BY <1>1, <1>8 DEF Unhandled, HandOK, HandPCs
<1>9. CASE Complete(w)
  <2>1. /\ dlq' = dlq /\ job'[w] = NoTask /\ pc[w] = "complete"
        /\ hash'[job[w]] = [h EXCEPT !.status = "completed"] /\ h \in Hash
    BY <1>1, <1>9 DEF Complete, Drop, HandPCs, Executing
  <2>2. hash'[job[w]].status = "completed"
    BY <2>1 DEF Hash
  <2> HIDE DEF TypeInv, TypeOK, h
  <2>3. HandOK(w)' /\ ~Requeue(w) /\ ~Retry(w)
    BY <2>1 DEF HandOK, Requeue, Retry
  <2>4. \A t \in TaskIds : t = job[w] => ~GivenUp(t)'
    BY <2>2 DEF GivenUp
  <2> QED BY <2>1, <2>3, <2>4 DEF TaskMoved
<1>10. CASE Retry(w)
  <2>1. /\ dlq' = dlq /\ job'[w] = NoTask /\ pc[w] = "retry" /\ loc[w].tries < MaxRetries
        /\ hash'[job[w]] = [h EXCEPT !.status = "pending", !.delayed = TRUE] /\ h \in Hash
        /\ loc[w].type = h.type
    BY <1>1, <1>10 DEF Retry, MayRetry, Drop, HandPCs, Executing, HandOK, Hash
  <2>2. /\ hash'[job[w]].status = "pending" /\ hash'[job[w]].type = h.type
        /\ hash'[job[w]].retry = h.retry
    BY <2>1 DEF Hash
  <2> HIDE DEF TypeInv, TypeOK, h
  <2> QED BY <1>1, <2>1, <2>2 DEF TaskMoved, HandOK, HandPCs, Executing, GivenUp, Requeue, h
<1>11. CASE DeadLetter(w)
  BY <1>11 DEF DeadLetter, Drop, TaskMoved, HandOK, Requeue, Retry
<1>12. CASE Release(w)
  <2>1. job[w] = NoTask
    BY <1>12, <1>1 DEF Release, HandPCs, Executing
  <2> QED BY <1>12, <2>1, NoHashIds DEF Release, TaskMoved, HandOK, Requeue, Retry
<1>13. CASE RedisError(w)
  <2>1. UNCHANGED <<hash, dlq, queue>>
    BY <1>13 DEF RedisError
  <2>2. HandOK(w)'
    <3>1. CASE job'[w] = NoTask
      BY <3>1 DEF HandOK
    <3>2. CASE pc[w] = "complete" /\ Goto(w, "hincrby") /\ UNCHANGED <<job, loc, elapsed>>
      BY <1>1, <2>1, <3>2 DEF HandOK, Goto, Executing
    <3>3. CASE Drop(w)
      BY <3>3 DEF Drop, HandOK
    <3> QED BY <1>13, <3>1, <3>2, <3>3 DEF RedisError
  <2>3. ~Retry(w) /\ ~Requeue(w)
    <3>1. errors' = errors + 1 /\ errors \in Int
      BY <1>13, BoundsAssumption DEF RedisError
    <3>2. errors' # errors
      <4> HIDE DEF TypeInv, TypeOK
      <4> QED BY <3>1
    <3> QED BY <3>2 DEF Retry, Requeue
  <2>4. \A t \in TaskIds : t = job[w] => ~GivenUp(t)'
    BY <1>1, <2>1, NoHashIds DEF GivenUp, HandOK
  <2> QED BY <2>1, <2>2, <2>3, <2>4 DEF TaskMoved
<1> QED BY <1>2, <1>3, <1>4, <1>5, <1>6, <1>7, <1>8, <1>9, <1>10, <1>11, <1>12, <1>13
        DEF WorkerStep

LEMMA WorkerKeepsTasks ==
  ASSUME TypeInv, PlaceInv, TaskInv, NEW w \in Workers, WorkerStep(w) \/ RedisError(w)
  PROVE  TaskInv'
<1>1. expiries' = expiries
  BY DEF WorkerStep, Pop, Fetch, Requeue, TryAcquire, SetLockTTL, Unhandled, Start,
         HandlerEnds, Complete, CountRetry, Retry, DeadLetter, Release, RedisError,
         env, faults
<1> SUFFICES ASSUME expiries = 0 PROVE WaitOK' /\ (\A v \in Workers : HandOK(v)') /\ DlqOK'
  BY <1>1 DEF TaskInv
<1>2. WaitOK /\ (\A v \in Workers : HandOK(v)) /\ DlqOK
  BY DEF TaskInv
<1>3. WorkerEffect(w) /\ TaskMoved(w) /\ AtMostOneOwner'
  BY WorkerEffects, OwnTask, WorkerPlaces DEF PlaceInv
<1>4. \A t \in TaskIds : t # job[w] => hash'[t] = hash[t]
  BY <1>3 DEF WorkerEffect
<1>5. \A t \in TaskIds : Queued(t)' => (Queued(t) /\ t # job[w]) \/ (GivesBack(w) /\ t = job[w])
  <2> SUFFICES ASSUME NEW t \in TaskIds, Queued(t)'
               PROVE  (Queued(t) /\ t # job[w]) \/ (GivesBack(w) /\ t = job[w])
    OBVIOUS
  <2>1. Queued(t) \/ t = job[w]
    BY <1>3, WorkerPlaces
  <2>2. Queued(t) => t # job[w]
    BY OwnerParts DEF PlaceInv, HandsNotQueued, Queued
  <2>3. CASE KeepsOrDrops(w)
    BY <2>1, <2>2, <2>3 DEF KeepsOrDrops, Queued
  <2>4. CASE TakesHead(w)
    BY <2>1, <2>2, <2>4, NoHashIds DEF TakesHead
  <2> QED BY <1>3, <2>1, <2>2, <2>3, <2>4 DEF WorkerEffect
<1>6. \A t \in TaskIds : Queued(t)' =>
        hash'[t].type \in Types /\ hash'[t].status = "pending" /\ hash'[t].retry < MaxRetries
  BY <1>2, <1>3, <1>4, <1>5 DEF WaitOK, TaskMoved, GivesBack
<1>7. \A q \in Queues \ Polled : queue'[q] = << >>
  <2> SUFFICES ASSUME NEW q \in Queues \ Polled PROVE queue'[q] = queue[q]
    BY <1>2 DEF WaitOK
  <2>1. CASE GivesBack(w)
    <3>1. <<"high", loc[w].type>> \in Polled
      BY <1>3, <2>1 DEF GivesBack, TaskMoved, Polled, Priorities
    <3> QED BY <2>1, <3>1 DEF GivesBack, RPush, TypeInv, TypeOK
  <2> QED BY <1>3, <2>1 DEF WorkerEffect, KeepsOrDrops, TakesHead, TypeInv, TypeOK
<1>8. ASSUME NEW v \in Workers PROVE HandOK(v)'
  <2>1. CASE v = w
    BY <1>3, <2>1 DEF TaskMoved
  <2>2. CASE v # w
    <3>1. job'[v] = job[v] /\ pc'[v] = pc[v] /\ loc'[v] = loc[v]
      BY <1>3, <2>2 DEF WorkerEffect
    <3>2. job[v] # NoTask => job[v] \in TaskIds /\ job[v] # job[w]
      BY <2>2, OwnerParts DEF PlaceInv, HandsDiffer, TypeInv, TypeOK, TaskRefs
    <3>3. job[v] # NoTask => hash'[job[v]] = hash[job[v]]
      BY <1>4, <3>2
    <3> QED BY <1>2, <3>1, <3>3 DEF HandOK
  <2> QED BY <2>1, <2>2
<1>9. DlqOK'
  <2>1. CASE DeadLetter(w)
    <3>1. /\ pc[w] = "retry" /\ job[w] \in TaskIds /\ hash[job[w]] \in Hash
          /\ hash[job[w]].retry = MaxRetries /\ hash[job[w]].status = "running"
      BY <1>2, <2>1, NoHashIds, BoundsAssumption, SMTT(30)
      DEF DeadLetter, MayRetry, TypeInv, TypeOK, JobOK, HandPCs, Executing, HandOK, Locals,
          Hash
    <3>2. dlq' = <<job[w]>> \o dlq /\ dlq \in Seq(TaskIds)
      BY <2>1 DEF DeadLetter, TypeInv, TypeOK
    <3>3. /\ Len(dlq') = Len(dlq) + 1 /\ Len(dlq) \in Nat
          /\ \A i \in 1..Len(dlq') : dlq'[i] = IF i = 1 THEN job[w] ELSE dlq[i - 1]
      BY <3>1, <3>2
    <3>4. hash'[job[w]] = [hash[job[w]] EXCEPT !.status = "failed"]
      BY <2>1, <3>1 DEF DeadLetter, TypeInv, TypeOK
    <3>5. GivenUp(job[w]) = FALSE /\ \A t \in TaskIds : t = job[w] => GivenUp(t)'
      BY <3>1, <3>4 DEF GivenUp, Hash
    <3>6. \A i \in 1..Len(dlq) : dlq[i] # job[w]
      BY <1>2, <3>1, <3>5 DEF DlqOK, Dead
    <3>7. \A i, j \in 1..Len(dlq') : dlq'[i] = dlq'[j] => i = j
      <4> SUFFICES ASSUME NEW i \in 1..Len(dlq'), NEW j \in 1..Len(dlq'), dlq'[i] = dlq'[j]
                   PROVE  i = j
        OBVIOUS
      <4>1. i # 1 => i - 1 \in 1..Len(dlq)
        BY <3>3
      <4>2. j # 1 => j - 1 \in 1..Len(dlq)
        BY <3>3
      <4>3. i # 1 /\ j # 1 => i - 1 = j - 1
        BY <1>2, <3>3, <4>1, <4>2 DEF DlqOK
      <4> QED BY <3>3, <3>6, <4>1, <4>2, <4>3
    <3>8. \A t \in TaskIds : Dead(t)' <=> Dead(t) \/ t = job[w]
      <4> SUFFICES ASSUME NEW t \in TaskIds PROVE Dead(t)' <=> Dead(t) \/ t = job[w]
        OBVIOUS
      <4>1. Dead(t)' => Dead(t) \/ t = job[w]
        BY <3>3 DEF Dead
      <4>2. t = job[w] => Dead(t)'
        <5>1. 1 \in 1..Len(dlq') /\ dlq'[1] = job[w]
          BY <3>3
        <5> QED BY <5>1 DEF Dead
      <4>3. ASSUME NEW i \in 1..Len(dlq), dlq[i] = t PROVE Dead(t)'
        <5>1. i + 1 \in 1..Len(dlq') /\ dlq'[i + 1] = t
          BY <3>3, <4>3
        <5> QED BY <5>1 DEF Dead
      <4> QED BY <4>1, <4>2, <4>3 DEF Dead
    <3>9. \A t \in TaskIds : t # job[w] => (GivenUp(t)' <=> GivenUp(t))
      BY <1>4 DEF GivenUp
    <3> QED BY <1>2, <3>5, <3>7, <3>8, <3>9 DEF DlqOK
  <2>2. CASE dlq' = dlq /\ \A t \in TaskIds : t = job[w] => ~GivenUp(t)'
    <3>1. \A t \in TaskIds : t = job[w] => ~GivenUp(t)
      BY <1>2, NoHashIds DEF HandOK, GivenUp
    <3>2. \A t \in TaskIds : GivenUp(t)' <=> GivenUp(t)
      BY <1>4, <2>2, <3>1 DEF GivenUp
    <3> QED BY <1>2, <2>2, <3>2 DEF DlqOK, Dead
  <2> QED BY <1>3, <2>1, <2>2 DEF TaskMoved
<1> QED BY <1>6, <1>7, <1>8, <1>9 DEF WaitOK

LEMMA EnqueueKeepsTasks ==
  ASSUME TypeInv, PlaceInv, TaskInv, NEW e \in Enqueuers, Enqueue(e)
  PROVE  TaskInv'
<1> USE DEF TypeInv, TypeOK, redisVars, workerVars, env, faults, lock
<1>1. UNCHANGED <<pc, job, loc, dlq, expiries>>
  BY DEF Enqueue, EnqueueGet, EnqueueCheck, EnqueuePush
<1> SUFFICES ASSUME expiries = 0 PROVE WaitOK' /\ (\A v \in Workers : HandOK(v)') /\ DlqOK'
  BY <1>1 DEF TaskInv
<1>2. WaitOK /\ (\A v \in Workers : HandOK(v)) /\ DlqOK
  BY DEF TaskInv
<1>3. CASE UNCHANGED <<hash, queue>>
  BY <1>1, <1>2, <1>3 DEF WaitOK, HandOK, DlqOK, Queued, Dead, GivenUp
<1>4. CASE EnqueuePush(e)
  <2> DEFINE id == caller[e].id
             req == caller[e].req
             q  == <<req.prio, req.type>>
  <2>1. /\ id \in TaskIds /\ req \in Requests /\ Unborn(id)
    BY <1>4 DEF EnqueuePush, CallerOK, Unborn
  <2>2. q \in Polled /\ q \in Queues
    BY <2>1, RequestsAssumption DEF Polled, Queues
  <2>3. /\ hash' = [hash EXCEPT ![id] = TaskOf(req)]
        /\ queue' = [queue EXCEPT ![q] = <<id>> \o @]
    BY <1>4 DEF EnqueuePush
  <2>4. /\ hash[id] = NoHash /\ ~Queued(id)
        /\ \A v \in Workers : job'[v] \in {job[v], NoTask} /\ job'[v] # id
    BY <1>1, <2>1 DEF PlaceInv, UnbornOK, InHand
  <2>5. \A t \in TaskIds : Queued(t)' <=> Queued(t) \/ t = id
    <3> HIDE DEF id, q
    <3> QED BY <2>1, <2>2, <2>3, <2>4, PushedPlaces DEF PlaceInv
  <2>6. /\ hash'[id].type \in Types /\ hash'[id].status = "pending"
        /\ hash'[id].retry < MaxRetries
    BY <2>1, <2>3, RequestsAssumption, BoundsAssumption DEF TaskOf
  <2>7. \A t \in TaskIds \ {id} : hash'[t] = hash[t]
    BY <2>3
  <2> HIDE DEF id, q, req
  <2>8. WaitOK'
    BY <1>2, <2>2, <2>3, <2>5, <2>6, <2>7 DEF WaitOK
  <2>9. \A v \in Workers : HandOK(v)'
    BY <1>1, <1>2, <2>4, <2>7 DEF HandOK, TaskRefs
  <2>10. DlqOK'
    <3>1. ~GivenUp(id) /\ \A t \in TaskIds : t = id => ~GivenUp(t)'
      BY <2>4, <2>6 DEF GivenUp, NoHash
    <3>2. \A t \in TaskIds : GivenUp(t)' <=> GivenUp(t)
      BY <2>7, <3>1 DEF GivenUp
    <3> QED BY <1>1, <1>2, <3>2 DEF DlqOK, Dead
  <2> QED BY <2>8, <2>9, <2>10
<1> QED BY <1>3, <1>4 DEF Enqueue, EnqueueGet, EnqueueCheck

LEMMA OthersKeepTasks ==
  ASSUME TypeInv, PlaceInv, TaskInv,
         \/ \E p \in Processes : Crash(p)
         \/ \E t \in TaskIds : ExpireTask(t) \/ BecomeDue(t)
         \/ Tick
         \/ UNCHANGED vars
  PROVE  TaskInv'
<1> USE DEF TypeInv, TypeOK, redisVars, workerVars, env, faults, lock, vars
<1> SUFFICES ASSUME expiries' = 0 PROVE WaitOK' /\ (\A v \in Workers : HandOK(v)') /\ DlqOK'
  BY DEF TaskInv
<1>1. ~\E t \in TaskIds : ExpireTask(t)
  <2> SUFFICES ASSUME NEW t \in TaskIds, ExpireTask(t) PROVE FALSE
    OBVIOUS
  <2>1. expiries \in Nat /\ expiries' = expiries + 1
    BY BoundsAssumption DEF ExpireTask
  <2> HIDE DEF TypeInv, TypeOK
  <2> QED BY <2>1
<1>2. UNCHANGED <<queue, dlq, expiries>>
  BY <1>1 DEF Crash, BecomeDue, Tick
<1>3. WaitOK /\ (\A v \in Workers : HandOK(v)) /\ DlqOK
  BY <1>2 DEF TaskInv
<1>4. \A v \in Workers : \/ job'[v] = NoTask
                         \/ job'[v] = job[v] /\ pc'[v] = pc[v] /\ loc'[v] = loc[v]
  BY <1>1 DEF Crash, BecomeDue, Tick
<1>5. \A t \in TaskIds : /\ hash'[t].type = hash[t].type /\ hash'[t].user = hash[t].user
                         /\ hash'[t].status = hash[t].status
                         /\ hash'[t].retry = hash[t].retry
  <2>1. CASE \E t \in TaskIds : BecomeDue(t)
    <3>1. PICK u \in TaskIds : hash' = [hash EXCEPT ![u].delayed = FALSE]
      BY <2>1 DEF BecomeDue
    <3>2. \A t \in TaskIds : hash'[t] \in {hash[t], [hash[t] EXCEPT !.delayed = FALSE]}
      BY <3>1
    <3>3. ASSUME NEW h \in Hash
          PROVE  LET g == [h EXCEPT !.delayed = FALSE]
                 IN g.type = h.type /\ g.user = h.user /\ g.status = h.status
                    /\ g.retry = h.retry
      BY DEF Hash
    <3>4. \A t \in TaskIds : hash[t] \in Hash
      OBVIOUS
    <3> HIDE DEF TypeInv, TypeOK
    <3> QED BY <3>2, <3>3, <3>4
  <2> QED BY <1>1, <2>1 DEF Crash, Tick
<1> HIDE DEF TypeInv, TypeOK
<1>6. WaitOK'
  BY <1>2, <1>3, <1>5 DEF WaitOK, Queued
<1>7. \A v \in Workers : HandOK(v)'
  <2>1. \A v \in Workers : job[v] # NoTask => job[v] \in TaskIds
    BY DEF TypeInv, TypeOK, TaskRefs
  <2> QED BY <1>3, <1>4, <1>5, <2>1 DEF HandOK
<1>8. DlqOK'
  BY <1>2, <1>3, <1>5 DEF DlqOK, Dead, GivenUp
<1> QED BY <1>6, <1>7, <1>8

LEMMA TaskInit == Init => TaskInv
BY BoundsAssumption DEF Init, TaskInv, WaitOK, HandOK, DlqOK, Queued, Dead, GivenUp, NoHash

LEMMA TaskStep == TypeInv /\ PlaceInv /\ TaskInv /\ [Next]_vars => TaskInv'
BY EnqueueKeepsTasks, WorkerKeepsTasks, OthersKeepTasks DEF Next

(* The dead-letter list names exactly the tasks that used up their attempts, *)
(* once each, as long as no task hash outlives its hour.                     *)
THEOREM DeadLettersExact == Spec => []DeadLetterExact
<1>1. TaskInv => DeadLetterExact
  BY DEF TaskInv, DlqOK, DeadLetterExact, Dead, GivenUp
<1> QED BY TypeInit, TypeStep, PlaceInit, PlaceStep, TaskInit, TaskStep, <1>1, PTL DEF Spec

-----------------------------------------------------------------------------
(* Nothing is stranded: the other half of HeldOnce.  A worker lets go of a   *)
(* task only by a command that settles it or puts it back, faults apart.     *)

LEMMA SumZero ==
  ASSUME NEW a \in Nat, NEW b \in Nat, NEW c \in Nat, a + b + c = 0
  PROVE  a = 0 /\ b = 0 /\ c = 0
OBVIOUS

LEMMA KnownStep ==
  TypeInv /\ PlaceInv /\ TaskInv /\ KnownInv /\ [Next]_vars => KnownInv'
<1> SUFFICES ASSUME TypeInv, PlaceInv, TaskInv, KnownInv, [Next]_vars,
                    crashes' + errors' + expiries' = 0,
                    NEW t \in TaskIds, Unfinished(t)'
             PROVE  Queued(t)' \/ InHand(t)'
  BY DEF KnownInv
<1> USE DEF TypeInv, TypeOK, redisVars, workerVars, env, faults, lock, vars
<1>1. /\ crashes \in Nat /\ errors \in Nat /\ expiries \in Nat
      /\ crashes' \in Nat /\ errors' \in Nat /\ expiries' \in Nat
  BY TypeStep, BoundsAssumption
<1>2. /\ crashes' = 0 /\ errors' = 0 /\ expiries' = 0
  <2> HIDE DEF TypeInv, TypeOK
  <2> QED BY <1>1, SumZero
<1>3. /\ ~\E w \in Workers : RedisError(w)
      /\ ~\E p \in Processes : Crash(p)
      /\ ~\E u \in TaskIds : ExpireTask(u)
  BY <1>1, <1>2 DEF RedisError, Crash, ExpireTask
<1>4. ASSUME crashes = 0, errors = 0, expiries = 0, Unfinished(t)
      PROVE  Queued(t) \/ InHand(t)
  BY <1>4 DEF KnownInv
<1>5. ASSUME NEW w \in Workers, WorkerStep(w) PROVE Queued(t)' \/ InHand(t)'
  <2>1. WorkerEffect(w)
    BY <1>5, WorkerEffects DEF PlaceInv
  <2>2. UNCHANGED <<crashes, errors, expiries>>
    BY <1>5 DEF WorkerStep, Pop, Fetch, Requeue, TryAcquire, SetLockTTL, Unhandled, Start,
       HandlerEnds, Complete, CountRetry, Retry, DeadLetter, Release
  <2>3. HandOK(w)
    BY <1>2, <2>2 DEF TaskInv
  <2>4. CASE t # job[w]
    <3>1. Unfinished(t)
      BY <2>1, <2>4 DEF WorkerEffect, Unfinished
    <3>2. Queued(t) \/ \E v \in Workers \ {w} : job[v] = t
      BY <1>2, <1>4, <2>2, <2>4, <3>1 DEF InHand
    <3>3. Queued(t) => Queued(t)' \/ InHand(t)'
      BY <2>1, WorkerPlaces
    <3> QED BY <2>1, <3>2, <3>3 DEF WorkerEffect, InHand
  <2>5. CASE t = job[w] /\ job'[w] = job[w]
    BY <2>5 DEF InHand
  <2>6. CASE t = job[w] /\ (Requeue(w) \/ Retry(w))
    <3> DEFINE q == <<"high", loc[w].type>>
    <3>1. q \in Queues /\ queue' = [queue EXCEPT ![q] = Append(@, t)]
      BY <2>6 DEF Requeue, PushBack, Retry, RPush, Locals, Queues, Priorities
    <3>2. Len(queue[q]) + 1 \in 1..Len(queue'[q]) /\ queue'[q][Len(queue[q]) + 1] = t
      <4> HIDE DEF q
      <4>1. queue[q] \in Seq(TaskIds) /\ queue'[q] = Append(queue[q], t)
        BY <3>1
      <4>2. Len(queue[q]) \in Nat
        BY <4>1
      <4> QED BY <4>1, <4>2, AppendProperties
    <3> QED BY <3>1, <3>2 DEF Queued
  <2>7. CASE t = job[w] /\ (Unhandled(w) \/ Complete(w) \/ DeadLetter(w))
    <3>1. \E s \in {"completed", "failed"} : hash' = [hash EXCEPT ![job[w]].status = s]
      BY <2>7 DEF Unhandled, Complete, DeadLetter
    <3>2. hash[t] \in Hash
      OBVIOUS
    <3>3. \E s \in {"completed", "failed"} : hash'[t] = [hash[t] EXCEPT !.status = s]
      BY <2>7, <3>1
    <3>4. hash'[t].status \in {"completed", "failed"}
      <4> HIDE DEF TypeInv, TypeOK
      <4> QED BY <3>2, <3>3 DEF Hash
    <3> QED BY <3>4 DEF Unfinished
  <2>8. CASE t = job[w] /\ Fetch(w)
    <3>1. hash[t].status = "pending"
      BY <2>3, <2>8, NoHashIds DEF HandOK, Fetch, Executing
    <3>2. hash[t] # NoHash
      BY <3>1 DEF NoHash
    <3> QED BY <2>8, <3>2 DEF Fetch, InHand
  <2> QED BY <1>5, <2>4, <2>5, <2>6, <2>7, <2>8, NoHashIds
          DEF WorkerStep, Pop, TryAcquire, SetLockTTL, Start, HandlerEnds, CountRetry,
              Release, PlaceInv, JobExact, HandPCs, Executing
<1>6. ASSUME NEW e \in Enqueuers, Enqueue(e) PROVE Queued(t)' \/ InHand(t)'
  <2>1. UNCHANGED <<job, crashes, errors, expiries>>
    BY <1>6 DEF Enqueue, EnqueueGet, EnqueueCheck, EnqueuePush
  <2>2. CASE UNCHANGED <<hash, queue>>
    BY <1>2, <1>4, <2>1, <2>2 DEF Unfinished, Queued, InHand
  <2>3. CASE EnqueuePush(e)
    <3> DEFINE id == caller[e].id
               q  == <<caller[e].req.prio, caller[e].req.type>>
    <3>1. id \in TaskIds /\ q \in Queues /\ Unborn(id)
      BY <2>3, RequestsAssumption DEF EnqueuePush, CallerOK, Unborn, Queues
    <3>2. /\ hash' = [hash EXCEPT ![id] = TaskOf(caller[e].req)]
          /\ queue' = [queue EXCEPT ![q] = <<id>> \o @]
      BY <2>3 DEF EnqueuePush
    <3>3. ~Queued(id) /\ \A v \in Workers : job'[v] \in {job[v], NoTask} /\ job'[v] # id
      BY <2>1, <3>1 DEF PlaceInv, UnbornOK, InHand
    <3>4. \A u \in TaskIds : Queued(u)' <=> Queued(u) \/ u = id
      <4> HIDE DEF id, q
      <4> QED BY <3>1, <3>2, <3>3, PushedPlaces DEF PlaceInv
    <3>5. t # id => hash'[t] = hash[t]
      BY <3>2
    <3> HIDE DEF id, q
    <3> QED BY <1>2, <1>4, <2>1, <3>4, <3>5 DEF Unfinished, InHand
  <2> QED BY <1>6, <2>2, <2>3 DEF Enqueue, EnqueueGet, EnqueueCheck
<1>7. CASE (\E u \in TaskIds : BecomeDue(u)) \/ Tick \/ UNCHANGED vars
  <2>1. UNCHANGED <<queue, job, crashes, errors, expiries>>
    BY <1>7 DEF BecomeDue, Tick
  <2>2. hash'[t] = hash[t] \/ hash'[t] = [hash[t] EXCEPT !.delayed = FALSE]
    BY <1>7 DEF BecomeDue, Tick
  <2>3. hash'[t].status = hash[t].status
    BY <2>2 DEF Hash
  <2> QED BY <1>2, <1>4, <2>1, <2>3 DEF Unfinished, Queued, InHand
<1> QED BY <1>3, <1>5, <1>6, <1>7 DEF Next

(* A task that still has to run is in exactly one place, and with faults in  *)
(* one at most: no requeue, retry, lock conflict or crash delivers a task    *)
(* twice, and none but a crash, a failing command or an expiry loses it.     *)
THEOREM HeldExactlyOnce == Spec => []HeldOnce
<1>1. Init => KnownInv
  BY DEF Init, KnownInv, Unfinished, NoHash
<1>2. PlaceInv /\ TaskInv /\ KnownInv /\ TypeInv => HeldOnce
  <2> SUFFICES ASSUME TypeInv, TaskInv, KnownInv, crashes + errors + expiries = 0,
                      NEW t \in TaskIds, Unfinished(t)
               PROVE  Waiting(t) \/ InHand(t)
    BY DEF HeldOnce, NothingStranded, PlaceInv
  <2>1. Queued(t) \/ InHand(t)
    BY DEF KnownInv
  <2>2. expiries = 0
    <3>1. crashes \in Nat /\ errors \in Nat /\ expiries \in Nat
      BY BoundsAssumption DEF TypeInv, TypeOK
    <3> QED BY <3>1
  <2>3. \A q \in Queues \ Polled : Len(queue[q]) = 0
    BY <2>2 DEF TaskInv, WaitOK
  <2> QED BY <2>1, <2>3 DEF Queued, Waiting
<1> QED BY TypeInit, TypeStep, PlaceInit, PlaceStep, TaskInit, TaskStep, KnownStep,
           <1>1, <1>2, PTL DEF Spec

-----------------------------------------------------------------------------
(* Idempotency keys.  That a key has one unfinished task is not inductive:   *)
(* it takes that the key names it, and what the calls in progress have seen. *)

(* A step after which no task has a claim it did not have before, and no     *)
(* call and no key has changed.                                              *)
LEMMA NoNewClaim ==
  ASSUME KeyNames, AloneOK, UNCHANGED <<caller, raced, idem>>,
         \A t \in TaskIds : \A k \in Keys : Claims(t, k)' => Claims(t, k),
         \A e \in Enqueuers : caller[e].pc # "idle" => KeyOf(caller[e].req) \in Keys
  PROVE  KeyNames' /\ AloneOK'
<1>1. KeyNames'
  BY DEF KeyNames
<1>2. AloneOK'
  BY DEF AloneOK, Alone
<1> QED BY <1>1, <1>2

LEMMA CallersHaveKeys ==
  ASSUME TypeInv
  PROVE  \A e \in Enqueuers : caller[e].pc # "idle" => KeyOf(caller[e].req) \in Keys
BY RequestsAssumption DEF TypeInv, CallerOK, KeyOf, Keys

(* What a worker's writes leave of a task's type and status.                 *)
LEMMA OwnTaskKeyed ==
  ASSUME TypeInv, PlaceInv, PlacedUnfinished, NEW w \in Workers,
         WorkerStep(w) \/ RedisError(w), job[w] \in TaskIds
  PROVE  LET old == hash[job[w]]
             new == hash'[job[w]]
         IN /\ new.type = old.type /\ new.user = old.user
            /\ \/ new.status = old.status
               \/ new.status \in {"running", "pending"}
               \/ job'[w] = NoTask /\ queue' = queue
<1> USE DEF TypeInv, TypeOK, redisVars, workerVars, env, faults, lock
<1> DEFINE old == hash[job[w]]
           new == hash'[job[w]]
<1>1. old \in Hash
  OBVIOUS
<1>2. CASE UNCHANGED hash
  BY <1>2
<1>3. CASE Start(w)
  <2>1. new = [old EXCEPT !.status = "running"]
    BY <1>3 DEF Start
  <2> HIDE DEF TypeInv, TypeOK, old, new
  <2> QED BY <1>1, <2>1 DEF Hash, old, new
<1>4. CASE Retry(w)
  <2>1. new = [old EXCEPT !.status = "pending", !.delayed = TRUE]
    BY <1>4 DEF Retry, Hash
  <2> HIDE DEF TypeInv, TypeOK, old, new
  <2> QED BY <1>1, <2>1 DEF Hash, old, new
<1>5. CASE CountRetry(w)
  <2>1. new = [old EXCEPT !.retry = RetryCount(w)]
    BY <1>5 DEF CountRetry
  <2> HIDE DEF TypeInv, TypeOK, old, new
  <2> QED BY <1>1, <2>1 DEF Hash, old, new
<1>6. CASE Unhandled(w) \/ Complete(w) \/ DeadLetter(w)
  <2>1. /\ \E s \in Statuses : new = [old EXCEPT !.status = s]
        /\ job'[w] = NoTask /\ queue' = queue
    BY <1>6 DEF Unhandled, Complete, DeadLetter, Drop, Statuses
  <2> HIDE DEF TypeInv, TypeOK, old, new
  <2> QED BY <1>1, <2>1 DEF Hash, old, new
<1> QED BY <1>2, <1>3, <1>4, <1>5, <1>6
        DEF WorkerStep, Pop, Fetch, Requeue, TryAcquire, SetLockTTL, HandlerEnds, Release,
            RedisError

LEMMA WorkerKeepsKeys ==
  ASSUME TypeInv, PlaceInv, KeyInv, NEW w \in Workers, WorkerStep(w) \/ RedisError(w)
  PROVE  KeyInv'
<1>1. /\ WorkerEffect(w) /\ UNCHANGED <<caller, raced, idem>>
      /\ \A t \in TaskIds : t # job[w] => hash'[t] = hash[t]
  BY WorkerEffects DEF PlaceInv, WorkerEffect
<1>2. job[w] \in TaskIds => InHand(job[w]) /\ ~Queued(job[w])
  BY OwnerParts DEF PlaceInv, HandsNotQueued, InHand, Queued
<1>3. ASSUME NEW t \in TaskIds, NEW k \in Keys, Claims(t, k)' PROVE Claims(t, k)
  <2>1. CASE t # job[w]
    BY <1>1, <1>3, <2>1 DEF Claims, Unfinished, KeyedBy
  <2>2. CASE t = job[w]
    <3>1. KeyedBy(t) = k
      BY <1>3, <2>2, OwnTaskKeyed DEF Claims, KeyedBy, KeyInv
    <3>2. hash[t].type \in Types
      BY <3>1 DEF KeyedBy, Keys
    <3> QED BY <1>2, <2>2, <3>1, <3>2 DEF Claims, KeyInv, PlacedUnfinished
  <2> QED BY <2>1, <2>2
<1>4. PlacedUnfinished'
  <2> SUFFICES ASSUME NEW t \in TaskIds, Queued(t)' \/ InHand(t)', hash'[t].type \in Types
               PROVE  Unfinished(t)'
    BY DEF PlacedUnfinished
  <2>1. Queued(t) \/ InHand(t)
    BY <1>1, <1>2, WorkerPlaces
  <2>2. CASE t # job[w]
    BY <1>1, <2>1, <2>2 DEF KeyInv, PlacedUnfinished, Unfinished
  <2>3. CASE t = job[w]
    <3>1. hash[t].type \in Types /\ Unfinished(t)
      BY <2>1, <2>3, OwnTaskKeyed DEF KeyInv, PlacedUnfinished
    <3>2. CASE job'[w] = NoTask /\ queue' = queue
      <4>1. ~Queued(t)'
        BY <1>2, <2>3, <3>2 DEF Queued
      <4>2. ~InHand(t)'
        BY <1>1, <2>3, <3>2, NoHashIds, OwnerParts
        DEF WorkerEffect, InHand, PlaceInv, HandsDiffer
      <4> QED BY <4>1, <4>2
    <3> QED BY <2>3, <3>1, <3>2, OwnTaskKeyed DEF KeyInv, Unfinished
  <2> QED BY <2>2, <2>3
<1>5. KeyNames' /\ AloneOK'
  BY <1>1, <1>3, CallersHaveKeys, NoNewClaim DEF KeyInv
<1> QED BY <1>4, <1>5 DEF KeyInv

LEMMA EnqueueKeepsKeys ==
  ASSUME TypeInv, PlaceInv, KeyInv, NEW e \in Enqueuers, Enqueue(e)
  PROVE  KeyInv'
<1> USE DEF TypeInv, TypeOK, redisVars, workerVars, env, faults, lock
<1>1. job' = job /\ PlacedUnfinished /\ KeyNames /\ AloneOK
  BY DEF Enqueue, EnqueueGet, EnqueueCheck, EnqueuePush, KeyInv
<1>2. ASSUME UNCHANGED <<hash, queue>> PROVE PlacedUnfinished'
  BY <1>1, <1>2 DEF PlacedUnfinished, Queued, InHand, Unfinished
<1>3. ASSUME NEW req \in Requests, EnqueueGet(e, req) PROVE KeyInv'
  <2> DEFINE k == KeyOf(req)
  <2>1. /\ k \in Keys /\ raced \subseteq raced' /\ UNCHANGED <<hash, queue, idem>>
        /\ caller[e].pc = "idle"
        /\ caller'[e] = [pc |-> IF idem[k] = NoTask THEN "pipeline" ELSE "hgetall",
                         id |-> calls + 1, found |-> idem[k], req |-> req]
        /\ \A f \in Enqueuers \ {e} : caller'[f] = caller[f]
        /\ \A f \in Enqueuers : caller[f].pc # "idle" /\ KeyOf(caller[f].req) = k
                                  => k \in raced'
    BY <1>3, RequestsAssumption DEF EnqueueGet, KeyOf, Keys
  <2>2. \A t \in TaskIds, h \in Keys : Claims(t, h)' <=> Claims(t, h)
    BY <2>1 DEF Claims, Unfinished, KeyedBy
  <2>3. KeyNames'
    BY <1>1, <2>1, <2>2 DEF KeyNames
  <2>4. /\ caller'[e].pc # "idle" /\ caller'[e].req = req /\ caller'[e].found = idem[k]
        /\ idem[k] # NoTask => caller'[e].pc = "hgetall"
    BY <2>1
  <2> HIDE DEF k, TypeInv, TypeOK
  <2>5. KeyOf(req) = k
    BY DEF k
  <2>6. AloneOK'
    <3> SUFFICES ASSUME NEW f \in Enqueuers, Alone(f)'
                 PROVE  /\ \A g \in Enqueuers :
                             caller'[g].pc # "idle"
                             /\ KeyOf(caller'[g].req) = KeyOf(caller'[f].req) => f = g
                        /\ \A t \in TaskIds : Claims(t, KeyOf(caller[f].req))' =>
                             caller'[f].pc = "hgetall" /\ t = caller'[f].found
      BY DEF AloneOK, KeyOf
    <3>1. KeyOf(caller'[f].req) \notin raced'
      BY DEF Alone, KeyOf
    <3>2. CASE f = e
      <4>1. \A g \in Enqueuers : caller'[g].pc # "idle"
                                 /\ KeyOf(caller'[g].req) = k => e = g
        BY <2>1, <2>4, <2>5, <3>1, <3>2
      <4>2. \A t \in TaskIds : Claims(t, k) => t = idem[k]
        BY <1>1, <2>1, <2>4, <2>5, <3>1, <3>2 DEF KeyNames
      <4>3. \A t \in TaskIds : Claims(t, KeyOf(caller[f].req))' => Claims(t, k)
        BY <2>1, <2>2, <2>4, <2>5, <3>2 DEF KeyOf
      <4> QED BY <2>4, <2>5, <3>2, <4>1, <4>2, <4>3, NoHashIds
    <3>3. CASE f # e
      <4>1. caller'[f] = caller[f] /\ Alone(f)
        BY <2>1, <3>1, <3>3 DEF Alone, KeyOf
      <4>2. KeyOf(caller[f].req) # k
        BY <2>1, <3>1, <4>1 DEF Alone
      <4>3. \A t \in TaskIds : Claims(t, KeyOf(caller[f].req))'
                                => Claims(t, KeyOf(caller[f].req))
        BY <2>1, <4>1 DEF Claims, Unfinished, KeyedBy, KeyOf
      <4> QED BY <1>1, <2>1, <2>4, <2>5, <4>1, <4>2, <4>3 DEF AloneOK
    <3> QED BY <3>2, <3>3
  <2> QED BY <1>2, <2>1, <2>3, <2>6 DEF KeyInv
<1>4. ASSUME EnqueueCheck(e) PROVE KeyInv'
  <2>1. /\ UNCHANGED <<hash, queue, idem, raced>> /\ caller[e].pc = "hgetall"
        /\ \/ caller'[e].pc = "idle"
           \/ caller'[e].req = caller[e].req /\ ~Unfinished(caller[e].found)
        /\ \A f \in Enqueuers \ {e} : caller'[f] = caller[f]
    BY <1>4 DEF EnqueueCheck, IdleCaller, Caller
  <2>2. KeyNames'
    BY <1>1, <2>1 DEF KeyNames, Claims, Unfinished, KeyedBy
  <2> HIDE DEF TypeInv, TypeOK
  <2>3. AloneOK'
    <3> SUFFICES ASSUME NEW f \in Enqueuers, Alone(f)'
                 PROVE  /\ \A g \in Enqueuers :
                             caller'[g].pc # "idle"
                             /\ KeyOf(caller'[g].req) = KeyOf(caller'[f].req) => f = g
                        /\ \A t \in TaskIds : Claims(t, KeyOf(caller[f].req))' =>
                             caller'[f].pc = "hgetall" /\ t = caller'[f].found
      BY DEF AloneOK, KeyOf
    <3>1. /\ caller'[f].pc # "idle" /\ caller[f].pc # "idle"
          /\ caller'[f].req = caller[f].req /\ Alone(f)
      BY <2>1 DEF Alone, KeyOf
    <3>2. \A g \in Enqueuers : caller'[g].pc # "idle" =>
            caller[g].pc # "idle" /\ caller'[g].req = caller[g].req
      BY <2>1
    <3>3. \A t \in TaskIds : Claims(t, KeyOf(caller[f].req))' =>
            Claims(t, KeyOf(caller[f].req))
      BY <2>1, <3>1 DEF Claims, Unfinished, KeyedBy, KeyOf
    <3>4. \A t \in TaskIds : Claims(t, KeyOf(caller[f].req)) => f # e
      BY <1>1, <2>1, <3>1 DEF AloneOK, Claims
    <3> QED BY <1>1, <2>1, <3>1, <3>2, <3>3, <3>4 DEF AloneOK
  <2> QED BY <1>2, <2>1, <2>2, <2>3 DEF KeyInv
<1>5. ASSUME EnqueuePush(e) PROVE KeyInv'
  <2> DEFINE id == caller[e].id
             req == caller[e].req
             k   == KeyOf(req)
             q   == <<req.prio, req.type>>
  <2>1. /\ id \in TaskIds /\ req \in Requests /\ Unborn(id) /\ q \in Queues /\ k \in Keys
    BY <1>5, RequestsAssumption DEF EnqueuePush, CallerOK, Unborn, Queues, KeyOf, Keys
  <2>2. /\ hash' = [hash EXCEPT ![id] = TaskOf(req)] /\ raced' = raced
        /\ idem' = [idem EXCEPT ![k] = id] /\ caller[e].pc = "pipeline"
        /\ queue' = [queue EXCEPT ![q] = <<id>> \o @]
        /\ caller' = [caller EXCEPT ![e] = IdleCaller]
    BY <1>5 DEF EnqueuePush
  <2>3. /\ ~Queued(id) /\ ~InHand(id)
        /\ \A v \in Workers : job'[v] \in {job[v], NoTask} /\ job'[v] # id
    BY <1>1, <2>1 DEF PlaceInv, UnbornOK, InHand
  <2>4. \A t \in TaskIds : Queued(t)' <=> Queued(t) \/ t = id
    <3> HIDE DEF id, q
    <3> QED BY <2>1, <2>2, <2>3, PushedPlaces DEF PlaceInv
  <2>5. /\ \A t \in TaskIds \ {id} : hash'[t] = hash[t]
        /\ hash'[id] = TaskOf(req) /\ idem'[k] = id
        /\ \A h \in Keys \ {k} : idem'[h] = idem[h]
        /\ caller'[e] = IdleCaller /\ \A f \in Enqueuers \ {e} : caller'[f] = caller[f]
    BY <2>1, <2>2
  <2>6. /\ TaskOf(req).status = "pending"
        /\ <<TaskOf(req).type, TaskOf(req).user>> = k
    BY DEF TaskOf, KeyOf
  <2> HIDE DEF id, q, k, req, TypeInv, TypeOK
  <2>7. PlacedUnfinished'
    <3>1. \A t \in TaskIds : InHand(t)' <=> InHand(t)
      BY <1>1 DEF InHand
    <3> QED BY <1>1, <2>4, <2>5, <2>6, <3>1 DEF PlacedUnfinished, Unfinished
  <2>8. ASSUME NEW t \in TaskIds, NEW h \in Keys, Claims(t, h)'
        PROVE  (t = id /\ h = k) \/ (t # id /\ Claims(t, h))
    BY <2>5, <2>6, <2>8 DEF Claims, Unfinished, KeyedBy
  <2>9. k \notin raced => Alone(e)
    BY <2>2 DEF Alone, k, req
  <2>10. KeyNames'
    <3> SUFFICES ASSUME NEW t \in TaskIds, NEW h \in Keys \ raced, Claims(t, h)'
                 PROVE  idem'[h] = t
      BY <2>2 DEF KeyNames
    <3>1. CASE t = id /\ h = k
      BY <2>5, <3>1
    <3>2. CASE t # id /\ Claims(t, h)
      <4>1. h # k
        BY <1>1, <2>2, <2>9, <3>2 DEF AloneOK, k, req
      <4> QED BY <1>1, <2>5, <3>2, <4>1 DEF KeyNames
    <3> QED BY <2>8, <3>1, <3>2
  <2>11. AloneOK'
    <3> SUFFICES ASSUME NEW f \in Enqueuers, Alone(f)'
                 PROVE  /\ \A g \in Enqueuers :
                             caller'[g].pc # "idle"
                             /\ KeyOf(caller'[g].req) = KeyOf(caller'[f].req) => f = g
                        /\ \A t \in TaskIds : Claims(t, KeyOf(caller[f].req))' =>
                             caller'[f].pc = "hgetall" /\ t = caller'[f].found
      BY DEF AloneOK, KeyOf
    <3>1. f # e /\ caller'[f] = caller[f] /\ Alone(f)
      BY <2>2, <2>5 DEF Alone, KeyOf, IdleCaller
    <3>2. \A g \in Enqueuers : caller'[g].pc # "idle" => caller'[g] = caller[g]
      BY <2>5 DEF IdleCaller
    <3>3. KeyOf(caller[f].req) # k
      BY <1>1, <2>2, <3>1 DEF AloneOK, k, req
    <3>4. KeyOf(caller[f].req) \in Keys
      BY <3>1, CallersHaveKeys DEF Alone
    <3>5. \A t \in TaskIds : Claims(t, KeyOf(caller[f].req))' =>
            Claims(t, KeyOf(caller[f].req))
      <4>1. KeyOf(caller[f].req)' = KeyOf(caller[f].req)
        BY <3>1 DEF KeyOf
      <4> QED BY <2>8, <3>3, <3>4, <4>1 DEF Claims
    <3> QED BY <1>1, <3>1, <3>2, <3>5 DEF AloneOK
  <2> QED BY <2>7, <2>10, <2>11 DEF KeyInv
<1> QED BY <1>3, <1>4, <1>5 DEF Enqueue

LEMMA OthersKeepKeys ==
  ASSUME TypeInv, PlaceInv, KeyInv,
         \/ \E p \in Processes : Crash(p)
         \/ \E t \in TaskIds : ExpireTask(t) \/ BecomeDue(t)
         \/ Tick
         \/ UNCHANGED vars
  PROVE  KeyInv'
<1> USE DEF redisVars, workerVars, env, faults, lock, vars
<1>1. UNCHANGED <<queue, caller, raced>>
  BY DEF Crash, ExpireTask, BecomeDue, Tick
<1>2. \A w \in Workers : job'[w] \in {job[w], NoTask}
  BY DEF Crash, ExpireTask, BecomeDue, Tick, TypeInv, TypeOK
<1>3. ASSUME NEW t \in TaskIds
      PROVE  \/ /\ hash'[t].type = hash[t].type /\ hash'[t].user = hash[t].user
                /\ hash'[t].status = hash[t].status
             \/ hash'[t] = NoHash
  <2>1. CASE \E u \in TaskIds : ExpireTask(u)
    BY <2>1 DEF ExpireTask, TypeInv, TypeOK
  <2>2. CASE \E u \in TaskIds : BecomeDue(u)
    <3>1. hash'[t] = hash[t] \/ hash'[t] = [hash[t] EXCEPT !.delayed = FALSE]
      BY <2>2 DEF BecomeDue, TypeInv, TypeOK
    <3>2. hash[t] \in Hash
      BY DEF TypeInv, TypeOK
    <3> QED BY <3>1, <3>2 DEF Hash
  <2> QED BY <2>1, <2>2 DEF Crash, Tick
<1>4. PlacedUnfinished'
  <2>1. \A t \in TaskIds : Queued(t)' \/ InHand(t)' => Queued(t) \/ InHand(t)
    BY <1>1, <1>2, NoHashIds DEF Queued, InHand
  <2> QED BY <1>3, <2>1, TypesAssumption DEF KeyInv, PlacedUnfinished, Unfinished, NoHash
<1>5. \A t \in TaskIds, k \in Keys : Claims(t, k)' => Claims(t, k)
  BY <1>3 DEF Claims, Unfinished, KeyedBy, NoHash
<1>6. CASE idem' = idem
  BY <1>1, <1>4, <1>5, <1>6, CallersHaveKeys, NoNewClaim DEF KeyInv
<1>7. CASE \E u \in TaskIds : ExpireTask(u)
  <2>1. PICK u \in TaskIds : /\ hash' = [hash EXCEPT ![u] = NoHash]
                             /\ idem' = [k \in Keys |-> IF idem[k] = u THEN NoTask
                                                        ELSE idem[k]]
    BY <1>7 DEF ExpireTask
  <2>2. \A k \in Keys : ~Claims(u, k)'
    BY <2>1 DEF Claims, Unfinished, NoHash, TypeInv, TypeOK
  <2>3. KeyNames'
    BY <1>1, <1>5, <2>1, <2>2 DEF KeyNames, KeyInv
  <2>4. AloneOK'
    BY <1>1, <1>5, CallersHaveKeys DEF KeyInv, AloneOK, Alone, KeyOf
  <2> QED BY <1>4, <2>3, <2>4 DEF KeyInv
<1> QED BY <1>6, <1>7 DEF Crash, BecomeDue, Tick

LEMMA KeyInit == Init => KeyInv
BY DEF Init, KeyInv, PlacedUnfinished, KeyNames, AloneOK, Alone, Claims, Unfinished, NoHash,
       Queued, InHand, IdleCaller, TaskIds, NoTask

LEMMA KeyStep == TypeInv /\ PlaceInv /\ KeyInv /\ [Next]_vars => KeyInv'
BY EnqueueKeepsKeys, WorkerKeepsKeys, OthersKeepKeys DEF Next

(* Idempotency: two unfinished tasks never have one payload, unless two      *)
(* calls of enqueue() for it overlapped, whatever expires or crashes.        *)
THEOREM PayloadsUnique == Spec => []OneUnfinishedPerKey
<1>1. KeyInv => OneUnfinishedPerKey
  BY DEF KeyInv, KeyNames, OneUnfinishedPerKey, Claims, KeyedBy
<1> QED BY TypeInit, TypeStep, PlaceInit, PlaceStep, KeyInit, KeyStep, <1>1, PTL DEF Spec

-----------------------------------------------------------------------------
(* The refinement of TaskLifecycle, while no hash expires: an hour is long   *)
(* against the life of a task.  A step of a worker on its own task, seen     *)
(* through the mapping, is a step of the life cycle or a stutter.            *)

NoExpiry == MaxExpiries = 0

state    == [t \in TaskIds |-> hash[t].status]
attempts == [t \in TaskIds |-> hash[t].retry]
working  == {job[w] : w \in {v \in Workers : pc[v] \in Executing}}
GroupOf(t) == IF hash[t].type = Sync THEN hash[t].user ELSE NoUser
group    == [t \in TaskIds |-> GroupOf(t)]

LEMMA Working ==
  ASSUME NEW t
  PROVE  t \in working <=> \E w \in Workers : pc[w] \in Executing /\ job[w] = t
BY DEF working

(* Other workers' tasks stay in `working' over a step of w; so does w's own  *)
(* exactly if w goes on executing.                                           *)
LEMMA WorkingStep ==
  ASSUME TypeInv, AtMostOneOwner, NEW w \in Workers, job[w] \in TaskIds,
         \A v \in Workers \ {w} : job'[v] = job[v] /\ pc'[v] = pc[v],
         job'[w] \in {job[w], NoTask}, pc'[w] \in Executing => job'[w] = job[w]
  PROVE  /\ pc'[w] \in Executing => working' = working \cup {job[w]}
         /\ pc'[w] \notin Executing => working' = working \ {job[w]}
         /\ pc[w] \in Executing => job[w] \in working
         /\ pc[w] \notin Executing => job[w] \notin working
<1>1. \A v \in Workers \ {w} : pc[v] \in Executing => job[v] # job[w]
  BY OwnerParts, NoHashIds DEF HandsDiffer, TypeInv, JobOK, HandPCs
<1>2. \A t : t \in working' <=> \E v \in Workers : pc'[v] \in Executing /\ job'[v] = t
  BY DEF working
<1> QED BY <1>1, <1>2, Working

(* What the refinement sees of a worker that does not touch a hash.          *)
LEMMA WorkingKept ==
  ASSUME \A v \in Workers : \/ job'[v] = job[v] /\ (pc'[v] \in Executing <=> pc[v] \in Executing)
                            \/ pc[v] \notin Executing /\ pc'[v] \notin Executing
  PROVE  working' = working
<1>1. \A t : t \in working' <=> \E v \in Workers : pc'[v] \in Executing /\ job'[v] = t
  BY DEF working
<1> QED BY <1>1, Working

(* The mapped variables are those of the instance.                           *)
LEMMA Mapped ==
  /\ Life!LifeInit <=> /\ state = [t \in TaskIds |-> "absent"]
                       /\ attempts = [t \in TaskIds |-> 0]
                       /\ working = {}
                       /\ group = [t \in TaskIds |-> NoUser]
  /\ Life!lifeVars = <<state, attempts, working, group>>
BY DEF Life!LifeInit, Life!lifeVars, state, attempts, working, group, GroupOf

(* The steps of the life cycle, through the mapping.                         *)
LEMMA MappedSubmit ==
  ASSUME NEW t \in TaskIds
  PROVE  Life!Submit(t) <=>
           /\ state[t] = "absent"
           /\ state' = [state EXCEPT ![t] = "pending"]
           /\ \E g \in Users \cup {NoUser} : group' = [group EXCEPT ![t] = g]
           /\ UNCHANGED <<attempts, working>>
BY Zenon DEF Life!Submit, state, attempts, working, group, GroupOf

LEMMA MappedBegin ==
  ASSUME NEW t \in TaskIds
  PROVE  Life!Begin(t) <=>
           /\ state[t] = "pending"
           /\ t \notin working
           /\ ~(group[t] # NoUser /\ \E u \in working : group[u] = group[t])
           /\ state' = [state EXCEPT ![t] = "running"]
           /\ working' = working \cup {t}
           /\ UNCHANGED <<attempts, group>>
BY Zenon DEF Life!Begin, Life!Excluded, state, attempts, working, group, GroupOf

LEMMA MappedEnds ==
  ASSUME NEW t \in TaskIds
  PROVE  /\ Life!Succeed(t) <=>
              /\ t \in working
              /\ state' = [state EXCEPT ![t] = "completed"]
              /\ working' = working \ {t}
              /\ UNCHANGED <<attempts, group>>
         /\ Life!TryAgain(t) <=>
              /\ t \in working
              /\ attempts[t] < MaxRetries
              /\ state' = [state EXCEPT ![t] = "pending"]
              /\ working' = working \ {t}
              /\ UNCHANGED <<attempts, group>>
         /\ Life!GiveUp(t) <=>
              /\ t \in working
              /\ attempts[t] = MaxRetries
              /\ state' = [state EXCEPT ![t] = "failed"]
              /\ working' = working \ {t}
              /\ UNCHANGED <<attempts, group>>
<1> USE DEF state, attempts, working, group, GroupOf
<1>1. Life!Succeed(t) <=>
        /\ t \in working
        /\ state' = [state EXCEPT ![t] = "completed"]
        /\ working' = working \ {t}
        /\ UNCHANGED <<attempts, group>>
  BY Zenon DEF Life!Succeed
<1>2. Life!TryAgain(t) <=>
        /\ t \in working
        /\ attempts[t] < MaxRetries
        /\ state' = [state EXCEPT ![t] = "pending"]
        /\ working' = working \ {t}
        /\ UNCHANGED <<attempts, group>>
  BY Zenon DEF Life!TryAgain
<1>3. Life!GiveUp(t) <=>
        /\ t \in working
        /\ attempts[t] = MaxRetries
        /\ state' = [state EXCEPT ![t] = "failed"]
        /\ working' = working \ {t}
        /\ UNCHANGED <<attempts, group>>
  BY Zenon DEF Life!GiveUp
<1> HIDE DEF state, attempts, working, group, GroupOf
<1> QED BY <1>1, <1>2, <1>3

LEMMA MappedCount ==
  ASSUME NEW t \in TaskIds
  PROVE  Life!CountFailure(t) <=>
           /\ t \in working
           /\ attempts[t] < MaxRetries
           /\ attempts' = [attempts EXCEPT ![t] = attempts[t] + 1]
           /\ UNCHANGED <<state, working, group>>
BY Zenon DEF Life!CountFailure, state, attempts, working, group, GroupOf

LEMMA MappedAbandon ==
  Life!Abandon <=>
    /\ \E T \in SUBSET working : working' = working \ T
    /\ UNCHANGED <<state, attempts, group>>
BY Zenon DEF Life!Abandon, state, attempts, working, group, GroupOf

LEMMA LifeStart == Init => Life!LifeInit
BY Mapped, Working
DEF Init, state, attempts, working, group, GroupOf, NoHash, Executing

LifeInv == TypeInv /\ PlaceInv /\ TaskInv /\ LockInv

(* A step that neither changes a hash in what is mapped nor the set of tasks *)
(* at work stutters; one that only takes tasks out of it abandons them.      *)
SameTasks ==
  \A t \in TaskIds : /\ hash'[t].status = hash[t].status
                     /\ hash'[t].retry = hash[t].retry
                     /\ hash'[t].type = hash[t].type
                     /\ hash'[t].user = hash[t].user

LEMMA SameMapped ==
  ASSUME SameTasks
  PROVE  state' = state /\ attempts' = attempts /\ group' = group
BY DEF SameTasks, state, attempts, group, GroupOf

LEMMA AbandonStep ==
  ASSUME SameTasks, \A t : t \in working' => t \in working
  PROVE  Life!LifeNext
<1>1. \E T \in SUBSET working : working' = working \ T
  <2>1. working' = working \ (working \ working')
    OBVIOUS
  <2> QED BY <2>1
<1>2. Life!Abandon
  BY <1>1, SameMapped, MappedAbandon
<1> QED BY <1>2 DEF Life!LifeNext

(* A write of the status of one task.                                        *)
LEMMA StatusMapped ==
  ASSUME hash \in [TaskIds -> Hash], NEW t \in TaskIds, NEW s,
         \/ hash' = [hash EXCEPT ![t].status = s]
         \/ hash' = [hash EXCEPT ![t].status = s, ![t].delayed = TRUE]
  PROVE  /\ state' = [state EXCEPT ![t] = s]
         /\ attempts' = attempts
         /\ group' = group
<1>1. \A u \in TaskIds : hash[u] \in Hash
  OBVIOUS
<1>2. \A u \in TaskIds \ {t} : hash'[u] = hash[u]
  OBVIOUS
<1>3. /\ hash'[t].status = s /\ hash'[t].retry = hash[t].retry
      /\ hash'[t].type = hash[t].type /\ hash'[t].user = hash[t].user
  BY <1>1 DEF Hash
<1>4. \A u \in TaskIds : GroupOf(u)' = GroupOf(u)
  BY <1>2, <1>3 DEF GroupOf
<1>5. state' = [state EXCEPT ![t] = s]
  BY <1>2, <1>3 DEF state
<1>6. attempts' = attempts
  BY <1>2, <1>3 DEF attempts
<1> QED BY <1>4, <1>5, <1>6 DEF group

(* The task a worker has in hand.                                            *)
LEMMA OwnedTask ==
  ASSUME LifeInv, expiries = 0, NEW w \in Workers, pc[w] \in HandPCs
  PROVE  \E t \in TaskIds :
           /\ t = job[w] /\ job[w] # NoTask
           /\ HandOK(w)
           /\ hash[t] \in Hash
           /\ t \in working <=> pc[w] \in Executing
<1>1. job[w] \in TaskIds /\ job[w] # NoTask
  BY NoHashIds DEF LifeInv, TypeInv, JobOK
<1>2. HandOK(w) /\ hash[job[w]] \in Hash
  BY <1>1 DEF LifeInv, TaskInv, TypeInv, TypeOK
<1>3. job[w] \in working <=> pc[w] \in Executing
  <2>1. \A v \in Workers \ {w} : job[v] # job[w]
    BY <1>1, OwnerParts DEF LifeInv, PlaceInv, HandsDiffer
  <2> QED BY <2>1, Working
<1> QED BY <1>1, <1>2, <1>3

(* The first HSET begins the task: no worker that executes a task of the same *)
(* group is left, because the lock keeps them apart.                          *)
LEMMA StartRefines ==
  ASSUME LifeInv, expiries = 0, NEW w \in Workers, Start(w)
  PROVE  Life!LifeNext
<1>1. /\ pc[w] = "start" /\ pc'[w] = "handler" /\ job' = job /\ loc' = loc
      /\ \A v \in Workers \ {w} : pc'[v] = pc[v]
      /\ hash' = [hash EXCEPT ![job[w]].status = "running"]
  BY DEF Start, Goto, LifeInv, TypeInv, TypeOK
<1>2. PICK t \in TaskIds : /\ t = job[w] /\ job[w] # NoTask
                           /\ HandOK(w)
                           /\ hash[t] \in Hash
                           /\ t \in working <=> pc[w] \in Executing
  BY <1>1, OwnedTask DEF HandPCs
<1>3. /\ hash[t].status = "pending" /\ loc[w].type = hash[t].type
      /\ loc[w].user = hash[t].user
  BY <1>1, <1>2 DEF HandOK, Executing
<1>4. t \notin working /\ working' = working \cup {t}
  BY <1>1, <1>2, WorkingStep DEF LifeInv, PlaceInv, Executing
<1>5. ASSUME GroupOf(t) # NoUser, NEW u \in working, GroupOf(u) = GroupOf(t) PROVE FALSE
  <2>1. PICK v \in Workers : pc[v] \in Executing /\ job[v] = u
    BY <1>5, Working
  <2>2. v # w
    BY <1>1, <2>1 DEF Executing
  <2>3. loc[v].type = hash[u].type /\ loc[v].user = hash[u].user
    BY <2>1, OwnedTask DEF HandOK, HandPCs, Executing
  <2>4. hash[t].type = Sync /\ hash[u].type = Sync /\ hash[t].user = hash[u].user
    BY <1>5 DEF GroupOf
  <2>5. Holds(v) /\ Holds(w) /\ loc[v].user = loc[w].user
    BY <1>1, <1>3, <2>1, <2>3, <2>4 DEF Holds
  <2> QED BY <2>2, <2>5 DEF LifeInv, LockInv, HoldersDiffer
<1>6. /\ state' = [state EXCEPT ![t] = "running"] /\ attempts' = attempts /\ group' = group
  BY <1>1, <1>2, StatusMapped DEF LifeInv, TypeInv, TypeOK
<1>7. state[t] = "pending" /\ ~(group[t] # NoUser /\ \E u \in working : group[u] = group[t])
  <2>1. \A u \in working : u \in TaskIds
    BY Working DEF LifeInv, TypeInv, JobOK, HandPCs
  <2> QED BY <1>2, <1>3, <1>5, <2>1 DEF state, group
<1>8. Life!Begin(t)
  BY <1>2, <1>4, <1>6, <1>7, MappedBegin
<1> QED BY <1>2, <1>8 DEF Life!LifeNext

(* The pipelines that settle a task.                                         *)
LEMMA SettleRefines ==
  ASSUME LifeInv, expiries = 0, NEW w \in Workers,
         Complete(w) \/ Retry(w) \/ DeadLetter(w)
  PROVE  Life!LifeNext
<1>1. /\ pc[w] \in {"complete", "retry"} /\ pc'[w] \in {"srem", "idle"}
      /\ job'[w] = NoTask
      /\ \A v \in Workers \ {w} : pc'[v] = pc[v] /\ job'[v] = job[v]
  BY DEF Complete, Retry, DeadLetter, Unwind, Leave, Drop, Goto, LifeInv, TypeInv, TypeOK
<1>2. PICK t \in TaskIds : /\ t = job[w] /\ job[w] # NoTask
                           /\ HandOK(w)
                           /\ hash[t] \in Hash
                           /\ t \in working <=> pc[w] \in Executing
  BY <1>1, OwnedTask DEF HandPCs, Executing
<1>3. t \in working /\ working' = working \ {t}
  BY <1>1, <1>2, WorkingStep DEF LifeInv, PlaceInv, Executing
<1>4. hash \in [TaskIds -> Hash]
  BY DEF LifeInv, TypeInv, TypeOK
<1>5. CASE Complete(w)
  <2>1. hash' = [hash EXCEPT ![t].status = "completed"]
    BY <1>2, <1>5 DEF Complete
  <2>2. Life!Succeed(t)
    BY <1>3, <1>4, <2>1, StatusMapped, MappedEnds
  <2> QED BY <2>2 DEF Life!LifeNext
<1>6. CASE Retry(w)
  <2>1. hash' = [hash EXCEPT ![t].status = "pending", ![t].delayed = TRUE]
    BY <1>2, <1>6 DEF Retry
  <2>2. attempts[t] < MaxRetries
    BY <1>2, <1>6 DEF Retry, MayRetry, HandOK, Executing, attempts
  <2>3. Life!TryAgain(t)
    BY <1>3, <1>4, <2>1, <2>2, StatusMapped, MappedEnds
  <2> QED BY <2>3 DEF Life!LifeNext
<1>7. CASE DeadLetter(w)
  <2>1. hash' = [hash EXCEPT ![t].status = "failed"]
    BY <1>2, <1>7 DEF DeadLetter
  <2>2. attempts[t] = MaxRetries
    <3>1. /\ hash[t].retry = loc[w].tries /\ hash[t].retry <= MaxRetries
          /\ ~(loc[w].tries < MaxRetries)
      BY <1>2, <1>7 DEF DeadLetter, MayRetry, HandOK, Executing
    <3>2. hash[t].retry \in Nat /\ MaxRetries \in Nat
      BY <1>2, BoundsAssumption DEF Hash
    <3> QED BY <3>1, <3>2 DEF attempts
  <2>3. Life!GiveUp(t)
    BY <1>3, <1>4, <2>1, <2>2, StatusMapped, MappedEnds
  <2> QED BY <2>3 DEF Life!LifeNext
<1> QED BY <1>5, <1>6, <1>7

(* HINCRBY counts the failed attempt.                                        *)
LEMMA CountRefines ==
  ASSUME LifeInv, expiries = 0, NEW w \in Workers, CountRetry(w)
  PROVE  Life!LifeNext
<1>1. /\ pc[w] = "hincrby" /\ pc'[w] = "retry" /\ job' = job
      /\ \A v \in Workers \ {w} : pc'[v] = pc[v]
      /\ hash' = [hash EXCEPT ![job[w]].retry = hash[job[w]].retry + 1]
  BY DEF CountRetry, RetryCount, Goto, LifeInv, TypeInv, TypeOK
<1>2. PICK t \in TaskIds : /\ t = job[w] /\ job[w] # NoTask
                           /\ HandOK(w)
                           /\ hash[t] \in Hash
                           /\ t \in working <=> pc[w] \in Executing
  BY <1>1, OwnedTask DEF HandPCs, Executing
<1>3. t \in working /\ working' = working
  <2>1. \A v \in Workers : job'[v] = job[v] /\ (pc'[v] \in Executing <=> pc[v] \in Executing)
    BY <1>1 DEF Executing
  <2>2. working' = working
    BY <2>1, WorkingKept
  <2> QED BY <1>1, <1>2, <2>2 DEF Executing
<1>4. attempts[t] < MaxRetries
  BY <1>1, <1>2 DEF HandOK, Executing, attempts
<1>5. /\ \A u \in TaskIds \ {t} : hash'[u] = hash[u]
      /\ hash'[t].status = hash[t].status /\ hash'[t].type = hash[t].type
      /\ hash'[t].user = hash[t].user /\ hash'[t].retry = hash[t].retry + 1
  <2>1. hash \in [TaskIds -> Hash]
    BY DEF LifeInv, TypeInv, TypeOK
  <2> QED BY <1>1, <1>2, <2>1 DEF Hash
<1>6. attempts' = [attempts EXCEPT ![t] = attempts[t] + 1]
  BY <1>5 DEF attempts
<1>7. state' = state /\ group' = group
  BY <1>5 DEF state, group, GroupOf
<1>8. Life!CountFailure(t)
  BY <1>3, <1>4, <1>6, <1>7, MappedCount
<1> QED BY <1>8 DEF Life!LifeNext

(* Whatever neither starts nor settles a task.                               *)
LEMMA QuietRefines ==
  ASSUME SameTasks,
         \A v \in Workers : pc'[v] \in Executing => pc[v] \in Executing /\ job'[v] = job[v]
  PROVE  Life!LifeNext
<1>1. \A t : t \in working' <=> \E v \in Workers : pc'[v] \in Executing /\ job'[v] = t
  BY DEF working
<1> QED BY <1>1, Working, AbandonStep

LEMMA WorkerRefines ==
  ASSUME LifeInv, expiries = 0, NEW w \in Workers, WorkerStep(w)
  PROVE  Life!LifeNext
<1> USE DEF LifeInv, TypeInv, TypeOK
<1>1. ASSUME hash' = hash, \A v \in Workers \ {w} : pc'[v] = pc[v] /\ job'[v] = job[v],
             pc'[w] \in Executing => pc[w] \in Executing /\ job'[w] = job[w]
      PROVE  Life!LifeNext
  BY <1>1, QuietRefines DEF SameTasks
<1>2. CASE Pop(w)
  BY <1>1, <1>2 DEF Pop, Goto, Executing
<1>3. CASE Fetch(w)
  <2>1. /\ hash' = hash /\ pc[w] = "hgetall"
        /\ \A v \in Workers \ {w} : pc'[v] = pc[v] /\ job'[v] = job[v]
    BY <1>3 DEF Fetch, Leave, Drop, Goto, redisVars
  <2>2. pc'[w] \notin Executing
    <3>1. pc'[w] \in {"idle", NextAfterFetch(hash[job[w]])}
      BY <1>3 DEF Fetch, Leave, Goto
    <3>2. NextAfterFetch(hash[job[w]]) \notin Executing
      BY DEF NextAfterFetch, Executing
    <3> QED BY <3>1, <3>2 DEF Executing
  <2> QED BY <1>1, <2>1, <2>2
<1>4. CASE Requeue(w)
  BY <1>1, <1>4 DEF Requeue, PushBack, Leave, Drop, Goto, Executing
<1>5. CASE TryAcquire(w) \/ SetLockTTL(w)
  BY <1>1, <1>5 DEF TryAcquire, SetLockTTL, Goto, Executing
<1>6. CASE HandlerEnds(w)
  BY <1>1, <1>6 DEF HandlerEnds, Goto, Executing, redisVars
<1>7. CASE Release(w)
  BY <1>1, <1>7 DEF Release, Leave, Goto, Executing
<1>8. CASE Unhandled(w)
  <2>1. pc[w] \in HandPCs /\ pc[w] = "unhandled"
    BY <1>8 DEF Unhandled, HandPCs
  <2>2. HandOK(w) /\ job[w] # NoTask
    BY <2>1, OwnedTask
  <2> QED BY <2>1, <2>2 DEF HandOK
<1>9. CASE Complete(w) \/ Retry(w) \/ DeadLetter(w)
  BY <1>9, SettleRefines
<1> QED BY <1>2, <1>3, <1>4, <1>5, <1>6, <1>7, <1>8, <1>9, StartRefines, CountRefines
        DEF WorkerStep

(* A command that fails, or a process that dies, abandons what is at work.   *)
LEMMA FaultsRefine ==
  ASSUME LifeInv, expiries = 0, NoExpiry,
         \/ \E w \in Workers : RedisError(w)
         \/ \E p \in Processes : Crash(p)
         \/ \E t \in TaskIds : ExpireTask(t) \/ BecomeDue(t)
         \/ Tick
         \/ UNCHANGED vars
  PROVE  Life!LifeNext
<1> USE DEF LifeInv, TypeInv, TypeOK
<1>1. ASSUME NEW w \in Workers, RedisError(w) PROVE Life!LifeNext
  <2>1. hash' = hash
    BY <1>1 DEF RedisError, redisVars
  <2>2. \A v \in Workers : pc'[v] \in Executing => pc[v] \in Executing /\ job'[v] = job[v]
    BY <1>1 DEF RedisError, Leave, Drop, Goto, Executing
  <2> QED BY <2>1, <2>2, QuietRefines DEF SameTasks
<1>2. ASSUME NEW p \in Processes, Crash(p) PROVE Life!LifeNext
  <2>1. hash' = hash
    BY <1>2 DEF Crash, redisVars
  <2>2. \A v \in Workers : pc'[v] \in Executing => pc[v] \in Executing /\ job'[v] = job[v]
    BY <1>2 DEF Crash, Executing
  <2> QED BY <2>1, <2>2, QuietRefines DEF SameTasks
<1>3. ASSUME NEW t \in TaskIds, BecomeDue(t) PROVE Life!LifeNext
  <2>1. SameTasks
    BY <1>3 DEF BecomeDue, SameTasks, Hash
  <2> QED BY <1>3, <2>1, QuietRefines DEF BecomeDue, workerVars
<1>4. ASSUME NEW t \in TaskIds, ExpireTask(t) PROVE FALSE
  <2>1. expiries < MaxExpiries
    BY <1>4 DEF ExpireTask
  <2> QED BY <2>1 DEF NoExpiry
<1>5. CASE Tick
  BY <1>5, QuietRefines DEF Tick, SameTasks
<1>6. CASE UNCHANGED vars
  BY <1>6, QuietRefines DEF vars, redisVars, workerVars, SameTasks
<1> QED BY <1>1, <1>2, <1>3, <1>4, <1>5, <1>6

(* The pipeline of enqueue() submits a task nobody has seen.                 *)
LEMMA EnqueueRefines ==
  ASSUME LifeInv, NEW e \in Enqueuers, Enqueue(e)
  PROVE  Life!LifeNext
<1> USE DEF LifeInv, TypeInv, TypeOK
<1>1. ASSUME UNCHANGED <<hash, pc, job>> PROVE Life!LifeNext
  BY <1>1, QuietRefines DEF SameTasks
<1>2. CASE (\E req \in Requests : EnqueueGet(e, req)) \/ EnqueueCheck(e)
  BY <1>1, <1>2 DEF EnqueueGet, EnqueueCheck, redisVars, workerVars
<1>3. CASE EnqueuePush(e)
  <2>1. PICK t \in TaskIds : t = caller[e].id /\ caller[e].pc # "idle"
    BY <1>3 DEF EnqueuePush, CallerOK
  <2>2. hash[t] = NoHash
    BY <2>1 DEF PlaceInv, UnbornOK, Unborn
  <2> DEFINE req == caller[e].req
  <2>3. hash' = [hash EXCEPT ![t] = TaskOf(req)] /\ UNCHANGED <<pc, job>>
    BY <1>3, <2>1 DEF EnqueuePush, workerVars
  <2>4. req.user \in Users
    BY <2>1, RequestsAssumption DEF CallerOK
  <2>5. \A u \in TaskIds \ {t} : hash'[u] = hash[u]
    BY <2>3
  <2>6. /\ hash'[t].status = "pending" /\ hash'[t].retry = 0
        /\ hash'[t].type = req.type /\ hash'[t].user = req.user
    BY <2>3 DEF TaskOf
  <2>7. /\ hash[t].status = "absent" /\ hash[t].retry = 0
    BY <2>2 DEF NoHash
  <2> HIDE DEF LifeInv, TypeInv, TypeOK
  <2>8. state[t] = "absent" /\ state' = [state EXCEPT ![t] = "pending"]
    BY <2>5, <2>6, <2>7 DEF state
  <2>9. attempts' = attempts
    BY <2>5, <2>6, <2>7 DEF attempts
  <2>10. \E g \in Users \cup {NoUser} : group' = [group EXCEPT ![t] = g]
    <3> DEFINE g == IF req.type = Sync THEN req.user ELSE NoUser
    <3>1. group' = [group EXCEPT ![t] = g]
      BY <2>5, <2>6 DEF group, GroupOf
    <3>2. g \in Users \cup {NoUser}
      BY <2>4
    <3> QED BY <3>1, <3>2
  <2>11. working' = working
    BY <2>3, WorkingKept
  <2>12. Life!Submit(t)
    BY <2>8, <2>9, <2>10, <2>11, MappedSubmit
  <2> QED BY <2>12 DEF Life!LifeNext
<1> QED BY <1>2, <1>3 DEF Enqueue

(* The queue implements the life cycle: a task begins once at a time and     *)
(* never beside another sync of its user, is tried MaxRetries times, and     *)
(* what is settled stays so, whatever order the Redis commands of the        *)
(* workers take and whatever fails or dies, as long as the lock outlasts a   *)
(* task and no hash expires.                                                 *)
THEOREM LifecycleImplemented ==
  LockOutlastsTask /\ NoExpiry => (Spec => ImplementsLifecycle)
<1> SUFFICES ASSUME LockOutlastsTask, NoExpiry PROVE Spec => ImplementsLifecycle
  OBVIOUS
<1>1. Init => LifeInv
  BY TypeInit, PlaceInit, TaskInit, LockInit DEF LifeInv
<1>2. LifeInv /\ [Next]_vars => LifeInv'
  BY TypeStep, PlaceStep, TaskStep, LockStep DEF LifeInv
<1>3. LifeInv /\ [Next]_vars => [Life!LifeNext]_(Life!lifeVars)
  <2> SUFFICES ASSUME LifeInv, [Next]_vars PROVE Life!LifeNext
    OBVIOUS
  <2>1. expiries = 0
    BY DEF LifeInv, TypeInv, TypeOK, NoExpiry
  <2> QED BY <2>1, WorkerRefines, FaultsRefine, EnqueueRefines DEF Next
<1> QED BY LifeStart, <1>1, <1>2, <1>3, PTL DEF Spec, ImplementsLifecycle, Life!LifeSpec
=============================================================================
