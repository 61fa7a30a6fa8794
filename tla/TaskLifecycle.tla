--------------------------- MODULE TaskLifecycle ---------------------------
(***************************************************************************)
(* What the task queue promises its clients (get_status, the handlers): a  *)
(* task is pending until it starts, is executed by one worker at a time,   *)
(* is tried at most MaxAttempts times, ends as completed or failed and     *)
(* then never changes; two tasks that exclude each other never execute at  *)
(* the same time.  RedisQueue implements this specification.               *)
(***************************************************************************)
EXTENDS Naturals

CONSTANTS
  Tasks,
  MaxAttempts

VARIABLES
  state,        \* "absent", "pending", "running", "completed" or "failed"
  attempts,     \* failed attempts so far
  executing,    \* the tasks whose handler is at work
  group         \* tasks of one group exclude each other; None excludes nothing

lifeVars == <<state, attempts, executing, group>>

CONSTANTS Groups, None

LifeInit ==
  /\ state = [t \in Tasks |-> "absent"]
  /\ attempts = [t \in Tasks |-> 0]
  /\ executing = {}
  /\ group = [t \in Tasks |-> None]

Submit(t) ==
  /\ state[t] = "absent"
  /\ state' = [state EXCEPT ![t] = "pending"]
  /\ \E g \in Groups \cup {None} : group' = [group EXCEPT ![t] = g]
  /\ UNCHANGED <<attempts, executing>>

Excluded(t) == group[t] # None /\ \E u \in executing : group[u] = group[t]

Begin(t) ==
  /\ state[t] = "pending"
  /\ t \notin executing
  /\ ~Excluded(t)
  /\ state' = [state EXCEPT ![t] = "running"]
  /\ executing' = executing \cup {t}
  /\ UNCHANGED <<attempts, group>>

Succeed(t) ==
  /\ t \in executing
  /\ state' = [state EXCEPT ![t] = "completed"]
  /\ executing' = executing \ {t}
  /\ UNCHANGED <<attempts, group>>

CountFailure(t) ==
  /\ t \in executing
  /\ attempts[t] < MaxAttempts
  /\ attempts' = [attempts EXCEPT ![t] = @ + 1]
  /\ UNCHANGED <<state, executing, group>>

TryAgain(t) ==
  /\ t \in executing
  /\ attempts[t] < MaxAttempts
  /\ state' = [state EXCEPT ![t] = "pending"]
  /\ executing' = executing \ {t}
  /\ UNCHANGED <<attempts, group>>

GiveUp(t) ==
  /\ t \in executing
  /\ attempts[t] = MaxAttempts
  /\ state' = [state EXCEPT ![t] = "failed"]
  /\ executing' = executing \ {t}
  /\ UNCHANGED <<attempts, group>>

(* Processes die: the tasks they executed stay "running" for ever.          *)
Abandon ==
  /\ \E T \in SUBSET executing : executing' = executing \ T
  /\ UNCHANGED <<state, attempts, group>>

LifeNext ==
  \/ \E t \in Tasks : \/ Submit(t) \/ Begin(t) \/ Succeed(t)
                      \/ CountFailure(t) \/ TryAgain(t) \/ GiveUp(t)
  \/ Abandon

LifeSpec == LifeInit /\ [][LifeNext]_lifeVars
=============================================================================
