-------------------------- MODULE Background_proofs --------------------------
(***************************************************************************)
(* Proofs about the background work of the process: the in-memory queue,   *)
(* the exports and the backfill loops, for any number of tasks, keys,      *)
(* workers, jobs, transactions and emails.                                 *)
(***************************************************************************)
EXTENDS MCBackground, SequenceTheorems, FiniteSetTheorems, TLAPS

-----------------------------------------------------------------------------
(* Sequences.                                                               *)

LEMMA SeqMembers ==
  ASSUME NEW S, NEW s \in Seq(S)
  PROVE  /\ DOMAIN s = 1..Len(s) /\ Len(s) \in Nat
         /\ \A i \in 1..Len(s) : s[i] \in S /\ s[i] \in ToSet(s)
         /\ \A x : x \in ToSet(s) <=> \E i \in 1..Len(s) : s[i] = x
         /\ ToSet(s) \subseteq S
BY DEF ToSet

LEMMA AppendMembers ==
  ASSUME NEW S, NEW s \in Seq(S), NEW e \in S
  PROVE  /\ Append(s, e) \in Seq(S)
         /\ ToSet(Append(s, e)) = ToSet(s) \cup {e}
<1>1. /\ Append(s, e) \in Seq(S) /\ Len(Append(s, e)) = Len(s) + 1
      /\ \A i \in 1..Len(s) : Append(s, e)[i] = s[i]
      /\ Append(s, e)[Len(s) + 1] = e
  BY AppendProperties
<1>2. DOMAIN Append(s, e) = 1..Len(s) + 1 /\ DOMAIN s = 1..Len(s) /\ Len(s) \in Nat
  BY <1>1
<1>3. \A i \in 1..Len(s) + 1 : i \in 1..Len(s) \/ i = Len(s) + 1
  BY <1>2
<1>4. \A x : x \in ToSet(Append(s, e)) <=> x \in ToSet(s) \/ x = e
  BY <1>1, <1>2, <1>3 DEF ToSet
<1> QED BY <1>1, <1>4

(* A sequence without repetitions, and what is left when its head goes, or   *)
(* goes to the end.                                                          *)
Distinct(s) == \A i, j \in 1..Len(s) : s[i] = s[j] => i = j

LEMMA TailMembers ==
  ASSUME NEW S, NEW s \in Seq(S), s # <<>>
  PROVE  /\ Head(s) \in S /\ Head(s) \in ToSet(s) /\ Head(s) = s[1] /\ 1 \in 1..Len(s)
         /\ Tail(s) \in Seq(S)
         /\ ToSet(Tail(s)) \subseteq ToSet(s)
         /\ ToSet(s) \subseteq ToSet(Tail(s)) \cup {Head(s)}
         /\ Distinct(s) => Distinct(Tail(s)) /\ Head(s) \notin ToSet(Tail(s))
<1>1. /\ Tail(s) \in Seq(S) /\ Len(Tail(s)) = Len(s) - 1
      /\ \A i \in 1..Len(Tail(s)) : Tail(s)[i] = s[i + 1]
      /\ Head(s) = s[1] /\ Len(s) \in Nat \ {0}
  BY HeadTailProperties, EmptySeq
<1>2. \A i \in 1..Len(s) : i = 1 \/ (i - 1 \in 1..Len(Tail(s)) /\ Tail(s)[i - 1] = s[i])
  BY <1>1
<1>3. DOMAIN s = 1..Len(s) /\ DOMAIN Tail(s) = 1..Len(Tail(s)) /\ 1 \in 1..Len(s)
  BY <1>1
<1>4. \A i \in 1..Len(Tail(s)) : i + 1 \in 1..Len(s) /\ i + 1 # 1
  BY <1>1
<1>5. ToSet(Tail(s)) \subseteq ToSet(s)
  BY <1>1, <1>3, <1>4 DEF ToSet
<1>6. ToSet(s) \subseteq ToSet(Tail(s)) \cup {Head(s)}
  <2> SUFFICES ASSUME NEW x \in ToSet(s), x # s[1] PROVE x \in ToSet(Tail(s))
    BY <1>1
  <2>1. PICK i \in 1..Len(s) : s[i] = x
    BY <1>3 DEF ToSet
  <2>2. i - 1 \in DOMAIN Tail(s) /\ Tail(s)[i - 1] = x
    BY <1>2, <1>3, <2>1
  <2> QED BY <2>2 DEF ToSet
<1>7. ASSUME Distinct(s) PROVE Distinct(Tail(s)) /\ Head(s) \notin ToSet(Tail(s))
  <2>1. Distinct(Tail(s))
    BY <1>1, <1>4, <1>7 DEF Distinct
  <2>2. \A i \in 1..Len(Tail(s)) : Tail(s)[i] # s[1]
    BY <1>1, <1>3, <1>4, <1>7 DEF Distinct
  <2> QED BY <1>1, <1>3, <2>1, <2>2 DEF ToSet
<1>8. Head(s) \in ToSet(s) /\ Head(s) \in S
  BY <1>1, <1>3 DEF ToSet
<1> QED BY <1>1, <1>3, <1>5, <1>6, <1>7, <1>8

LEMMA AppendDistinct ==
  ASSUME NEW S, NEW s \in Seq(S), NEW e \in S, Distinct(s), e \notin ToSet(s)
  PROVE  Distinct(Append(s, e))
<1>1. /\ Len(Append(s, e)) = Len(s) + 1 /\ Len(s) \in Nat
      /\ \A i \in 1..Len(s) : Append(s, e)[i] = s[i] /\ s[i] # e
      /\ Append(s, e)[Len(s) + 1] = e
  BY AppendProperties, SeqMembers
<1> QED BY <1>1 DEF Distinct

-----------------------------------------------------------------------------
(* The in-memory queue: types.                                               *)

MqTypeInv == MqTypeOK /\ IsFiniteSet(idem)

LEMMA CutType ==
  ASSUME NEW ids \in Seq(TaskIds)
  PROVE  Cut(ids) \in Seq(TaskIds) /\ Len(Cut(ids)) <= ListLimit
<1>1. CASE Len(ids) > ListLimit
  <2> DEFINE m == Len(ids) - ListKeep + 1
  <2>1. /\ Len(ids) \in Nat /\ ListKeep \in 1..ListLimit /\ ListLimit \in Nat
        /\ m \in 1..Len(ids)
    BY <1>1, MemQueueAssumption, SeqMembers
  <2>2. \A i \in m..Len(ids) : ids[i] \in TaskIds
    BY <2>1, SeqMembers
  <2>3. /\ SubSeq(ids, m, Len(ids)) \in Seq(TaskIds)
        /\ Len(SubSeq(ids, m, Len(ids))) = Len(ids) - m + 1
    BY <2>1, <2>2, SubSeqProperties
  <2> QED BY <1>1, <2>1, <2>3 DEF Cut
<1>2. CASE ~(Len(ids) > ListLimit)
  BY <1>2, MemQueueAssumption, SeqMembers DEF Cut
<1> QED BY <1>1, <1>2

LEMMA PrunedType ==
  ASSUME NEW entries, IsFiniteSet(entries), NEW S \in Pruned(entries)
  PROVE  S \subseteq entries /\ IsFiniteSet(S) /\ Cardinality(S) <= MaxKeys
BY FS_Subset DEF Pruned, Newest

LEMMA NewestType ==
  ASSUME NEW entries, IsFiniteSet(entries), NEW S \in Newest(entries)
  PROVE  S \subseteq entries /\ IsFiniteSet(S) /\ Cardinality(S) <= Cardinality(entries)
BY FS_Subset DEF Newest

LEMMA MqInitType == MqInit => MqTypeInv
<1> SUFFICES ASSUME MqInit PROVE MqTypeInv
  OBVIOUS
<1>1. IsFiniteSet({}) /\ Cardinality({}) = 0
  BY FS_EmptySet
<1> QED BY <1>1, MemQueueAssumption, EmptySeq DEF MqInit, MqTypeInv, MqTypeOK, NewTask, Idle

LEMMA MqEnqueueType ==
  ASSUME MqTypeInv, NEW k \in Keys, Enqueue(k)
  PROVE  MqTypeInv'
<1> USE DEF MqTypeInv, MqTypeOK
<1> DEFINE u == UserOf[k]
           keys(t) == {e \in idem : e[1] # k} \cup {<<k, t>>}
<1>1. PICK t \in TaskIds :
        /\ task' = [task EXCEPT ![t] = [status |-> "pending", key |-> k]]
        /\ idem' \in Pruned(keys(t))
        /\ list' = [list EXCEPT ![u] = Cut(Append(list[u], t))]
        /\ kept' = (kept \cup {t}) \ (ToSet(Append(list[u], t)) \ ToSet(Cut(Append(list[u], t))))
        /\ fifo' = Append(fifo, t)
        /\ forgotten' = forgotten
             \cup (ToSet(Append(list[u], t)) \ ToSet(Cut(Append(list[u], t))))
             \cup Lost(keys(t), idem')
        /\ UNCHANGED at
  BY DEF Enqueue
<1>2. u \in Users /\ list[u] \in Seq(TaskIds)
  BY DEF Users
<1>3. Append(list[u], t) \in Seq(TaskIds) /\ Append(fifo, t) \in Seq(TaskIds)
  BY <1>2, AppendProperties
<1>4. Cut(Append(list[u], t)) \in Seq(TaskIds) /\ Len(Cut(Append(list[u], t))) <= ListLimit
  BY <1>3, CutType
<1>5. ToSet(Append(list[u], t)) \subseteq TaskIds
  BY <1>3, SeqMembers
<1>6. IsFiniteSet(keys(t)) /\ keys(t) \subseteq Keys \X TaskIds
  <2>1. IsFiniteSet({e \in idem : e[1] # k})
    BY FS_Subset
  <2>2. IsFiniteSet({<<k, t>>})
    BY FS_Singleton
  <2>3. IsFiniteSet(keys(t))
    BY <2>1, <2>2, FS_Union
  <2>4. keys(t) \subseteq Keys \X TaskIds
    OBVIOUS
  <2> QED BY <2>3, <2>4
<1>7. idem' \subseteq keys(t) /\ IsFiniteSet(idem') /\ Cardinality(idem') <= MaxKeys
  <2> HIDE DEF keys
  <2> QED BY <1>1, <1>6, PrunedType
<1>8. forgotten' \subseteq TaskIds
  <2>1. Lost(keys(t), idem') \subseteq TaskIds
    BY <1>6 DEF Lost
  <2> QED BY <1>1, <1>5, <2>1
<1>9. /\ task' \in [TaskIds -> [status : {"absent", "pending", "running", "completed", "failed"},
                                key : Keys \cup {NoKey}]]
      /\ kept' \subseteq TaskIds
  BY <1>1
<1>10. list' \in [Users -> Seq(TaskIds)] /\ \A v \in Users : Len(list'[v]) <= ListLimit
  BY <1>1, <1>2, <1>4
<1> QED BY <1>1, <1>3, <1>6, <1>7, <1>8, <1>9, <1>10

LEMMA MqWorkType ==
  ASSUME MqTypeInv, CleanUp \/ \E w \in Workers : Work(w)
  PROVE  MqTypeInv'
<1> USE DEF MqTypeInv, MqTypeOK
<1>1. CASE CleanUp
  <2>1. idem' \subseteq idem /\ IsFiniteSet(idem') /\ Cardinality(idem') <= Cardinality(idem)
    BY <1>1, NewestType DEF CleanUp
  <2>2. Cardinality(idem') <= MaxKeys
    <3>1. Cardinality(idem) \in Nat /\ Cardinality(idem') \in Nat
      BY <2>1, FS_CardinalityType
    <3> QED BY <2>1, <3>1, MemQueueAssumption
  <2>3. forgotten' \subseteq TaskIds
    BY <1>1 DEF CleanUp, Lost
  <2> QED BY <1>1, <2>1, <2>2, <2>3 DEF CleanUp
<1>2. ASSUME NEW w \in Workers, Pop(w) PROVE MqTypeInv'
  <2> DEFINE t == Head(fifo)
  <2>1. t \in TaskIds /\ Tail(fifo) \in Seq(TaskIds) /\ Append(Tail(fifo), t) \in Seq(TaskIds)
    BY <1>2, TailMembers, AppendProperties DEF Pop
  <2>2. fifo' \in Seq(TaskIds)
    BY <1>2, <2>1 DEF Pop, PutBack
  <2>3. task' \in [TaskIds -> [status : {"absent", "pending", "running", "completed", "failed"},
                               key : Keys \cup {NoKey}]]
    <3>1. task \in [TaskIds -> [status : {"absent", "pending", "running", "completed", "failed"},
                                key : Keys \cup {NoKey}]]
      OBVIOUS
    <3>2. task' = task \/ task' = [task EXCEPT ![t].status = "running"]
      BY <1>2 DEF Pop
    <3> HIDE DEF MqTypeInv, MqTypeOK, t
    <3> QED BY <2>1, <3>1, <3>2
  <2>4. at' \in [Workers -> [pc : {"idle", "asleep", "handler"}, task : TaskIds \cup {NoTask}]]
    <3>1. at[w] \in [pc : {"idle", "asleep", "handler"}, task : TaskIds \cup {NoTask}]
      OBVIOUS
    <3>2. \/ at' = at
          \/ at' = [at EXCEPT ![w].pc = "asleep"]
          \/ at' = [at EXCEPT ![w] = [pc |-> "handler", task |-> t]]
      BY <1>2 DEF Pop
    <3>3. CASE at' = [at EXCEPT ![w].pc = "asleep"]
      BY <3>3
    <3>4. CASE at' = [at EXCEPT ![w] = [pc |-> "handler", task |-> t]]
      BY <2>1, <3>4
    <3> QED BY <3>2, <3>3, <3>4
  <2> QED BY <1>2, <2>2, <2>3, <2>4 DEF Pop
<1>3. ASSUME NEW w \in Workers, Wake(w) PROVE MqTypeInv'
  BY <1>3 DEF Wake, Idle
<1>4. ASSUME NEW w \in Workers, Finish(w) PROVE MqTypeInv'
  <2>1. PICK s \in {"completed", "failed"} : task' = [task EXCEPT ![at[w].task].status = s]
    BY <1>4 DEF Finish
  <2>2. task' \in [TaskIds -> [status : {"absent", "pending", "running", "completed", "failed"},
                               key : Keys \cup {NoKey}]]
    BY <2>1
  <2> QED BY <1>4, <2>2 DEF Finish, Idle
<1> QED BY <1>1, <1>2, <1>3, <1>4 DEF Work

LEMMA MqStepType == MqTypeInv /\ [MqNext]_mqVars => MqTypeInv'
<1>1. MqTypeInv /\ UNCHANGED mqVars => MqTypeInv'
  BY DEF MqTypeInv, MqTypeOK, mqVars
<1> QED BY <1>1, MqEnqueueType, MqWorkType DEF MqNext

(* The in-memory queue always has its type: no list is longer than its      *)
(* limit, no more keys are remembered than fit, and a worker is at one of   *)
(* its points with a task or none.                                          *)
THEOREM MqTypeCorrect == MqSpec => []MqTypeOK
<1>1. MqTypeInv => MqTypeOK
  BY DEF MqTypeInv
<1> QED BY <1>1, MqInitType, MqStepType, PTL DEF MqSpec

-----------------------------------------------------------------------------
(* The in-memory queue: where a task is.  One that waits in the queue is    *)
(* "pending" and waits there once; one that a handler has is "running", and *)
(* no other handler has it.                                                 *)
Handles(w) == at[w].pc = "handler"

MqPlaces ==
  /\ Distinct(fifo)
  /\ \A t \in ToSet(fifo) : task[t].status = "pending"
  /\ \A w \in Workers : Handles(w) => at[w].task \in TaskIds /\ task[at[w].task].status = "running"
  /\ \A v, w \in Workers : Handles(v) /\ Handles(w) /\ at[v].task = at[w].task => v = w

LEMMA MqInitPlaces == MqInit => MqPlaces
BY EmptySeq DEF MqInit, MqPlaces, Distinct, ToSet, Handles, Idle

LEMMA MqEnqueuePlaces ==
  ASSUME MqTypeInv, MqPlaces, NEW k \in Keys, Enqueue(k)
  PROVE  MqPlaces'
<1> USE DEF MqTypeInv, MqTypeOK
<1>1. PICK t \in TaskIds :
        /\ task[t].status = "absent"
        /\ task' = [task EXCEPT ![t] = [status |-> "pending", key |-> k]]
        /\ fifo' = Append(fifo, t)
        /\ at' = at
  BY DEF Enqueue, Fresh
<1>2. t \notin ToSet(fifo) /\ ToSet(fifo) \subseteq TaskIds
  BY <1>1, SeqMembers DEF MqPlaces
<1>3. Distinct(fifo') /\ ToSet(fifo') = ToSet(fifo) \cup {t}
  BY <1>1, <1>2, AppendDistinct, AppendMembers DEF MqPlaces
<1>4. \A s \in ToSet(fifo') : task'[s].status = "pending"
  BY <1>1, <1>2, <1>3 DEF MqPlaces
<1>5. \A w \in Workers : Handles(w) => task'[at[w].task] = task[at[w].task]
  BY <1>1 DEF MqPlaces
<1> QED BY <1>1, <1>3, <1>4, <1>5 DEF MqPlaces, Handles

LEMMA MqWorkPlaces ==
  ASSUME MqTypeInv, MqPlaces, NEW w \in Workers, Work(w)
  PROVE  MqPlaces'
<1> USE DEF MqTypeInv, MqTypeOK
<1>1. CASE Pop(w)
  <2> DEFINE t == Head(fifo)
  <2>1. /\ t \in TaskIds /\ t \in ToSet(fifo) /\ Tail(fifo) \in Seq(TaskIds)
        /\ ToSet(Tail(fifo)) \subseteq ToSet(fifo) /\ ToSet(fifo) \subseteq TaskIds
        /\ Distinct(Tail(fifo)) /\ t \notin ToSet(Tail(fifo))
    BY <1>1, TailMembers, SeqMembers DEF Pop, MqPlaces
  <2>2. at[w].pc = "idle" /\ task[t].status = "pending"
    BY <1>1, <2>1 DEF Pop, MqPlaces
  <2>3. CASE fifo' = Tail(fifo) /\ at' = at /\ task' = task
    BY <2>1, <2>3 DEF MqPlaces, Handles
  <2>4. CASE PutBack(t) /\ at' = [at EXCEPT ![w].pc = "asleep"] /\ task' = task
    <3>1. Distinct(fifo') /\ ToSet(fifo') = ToSet(Tail(fifo)) \cup {t}
      <4> DEFINE q == Tail(fifo)
      <4>1. q \in Seq(TaskIds) /\ t \in TaskIds /\ t \notin ToSet(q) /\ Distinct(q)
        BY <2>1
      <4>2. fifo' = Append(q, t)
        BY <2>4 DEF PutBack
      <4> HIDE DEF q, t, MqTypeInv, MqTypeOK
      <4>3. Distinct(Append(q, t))
        BY <4>1, AppendDistinct
      <4>4. ToSet(Append(q, t)) = ToSet(q) \cup {t}
        BY <4>1, AppendMembers
      <4> QED BY <4>2, <4>3, <4>4 DEF q
    <3>2. \A v \in Workers : Handles(v)' => Handles(v) /\ at'[v].task = at[v].task
      BY <2>4 DEF Handles
    <3> QED BY <2>1, <2>4, <3>1, <3>2 DEF MqPlaces
  <2>5. CASE /\ fifo' = Tail(fifo) /\ task' = [task EXCEPT ![t].status = "running"]
             /\ at' = [at EXCEPT ![w] = [pc |-> "handler", task |-> t]]
    <3>1. \A v \in Workers \ {w} : at'[v] = at[v]
      BY <2>5
    <3>2. at'[w].pc = "handler" /\ at'[w].task = t /\ task'[t].status = "running"
      BY <2>1, <2>5
    <3>3. \A s \in TaskIds \ {t} : task'[s] = task[s]
      BY <2>5
    <3>4. \A v \in Workers \ {w} : Handles(v) => at[v].task # t
      BY <2>2 DEF MqPlaces
    <3>5. \A s \in ToSet(fifo') : task'[s].status = "pending"
      BY <2>1, <2>5, <3>3 DEF MqPlaces
    <3>6. \A v \in Workers : Handles(v)' => at'[v].task \in TaskIds /\ task'[at'[v].task].status = "running"
      BY <2>1, <3>1, <3>2, <3>3, <3>4 DEF MqPlaces, Handles
    <3>7. \A v, x \in Workers : Handles(v)' /\ Handles(x)' /\ at'[v].task = at'[x].task => v = x
      BY <3>1, <3>2, <3>4 DEF MqPlaces, Handles
    <3> QED BY <2>1, <2>5, <3>5, <3>6, <3>7 DEF MqPlaces
  <2> QED BY <1>1, <2>3, <2>4, <2>5 DEF Pop
<1>2. CASE Wake(w)
  <2>1. \A v \in Workers : Handles(v)' => Handles(v) /\ at'[v] = at[v]
    BY <1>2 DEF Wake, Handles, Idle
  <2> QED BY <1>2, <2>1 DEF Wake, MqPlaces
<1>3. CASE Finish(w)
  <2> DEFINE t == at[w].task
  <2>1. PICK s \in {"completed", "failed"} : task' = [task EXCEPT ![t].status = s]
    BY <1>3 DEF Finish
  <2>2. \A v \in Workers : Handles(v)' => Handles(v) /\ at'[v] = at[v] /\ v # w
    BY <1>3 DEF Finish, Handles, Idle
  <2>3. \A r \in TaskIds \ {t} : task'[r] = task[r]
    BY <2>1
  <2>4. t \in TaskIds /\ task[t].status = "running"
    BY <1>3 DEF Finish, MqPlaces, Handles
  <2>5. t \notin ToSet(fifo) /\ ToSet(fifo) \subseteq TaskIds /\ fifo' = fifo
    BY <1>3, <2>4, SeqMembers DEF MqPlaces, Finish
  <2>6. \A v \in Workers : Handles(v)' => at[v].task # t
    BY <1>3, <2>2 DEF MqPlaces, Finish, Handles
  <2> QED BY <2>2, <2>3, <2>5, <2>6 DEF MqPlaces
<1> QED BY <1>1, <1>2, <1>3 DEF Work

LEMMA MqStepPlaces == MqTypeInv /\ MqPlaces /\ [MqNext]_mqVars => MqPlaces'
<1>1. MqPlaces /\ UNCHANGED mqVars => MqPlaces'
  BY DEF MqPlaces, mqVars, Handles
<1>2. MqPlaces /\ CleanUp => MqPlaces'
  BY DEF MqPlaces, CleanUp, Handles
<1> QED BY <1>1, <1>2, MqEnqueuePlaces, MqWorkPlaces DEF MqNext

-----------------------------------------------------------------------------
(* The in-memory queue: one task per key.                                    *)
LEMMA MqEnqueueKey ==
  ASSUME MqTypeInv, OneTaskPerKey, NEW k \in Keys, Enqueue(k)
  PROVE  OneTaskPerKey'
<1> USE DEF MqTypeInv, MqTypeOK
<1> DEFINE u == UserOf[k]
           keys(t) == {e \in idem : e[1] # k} \cup {<<k, t>>}
           gone(t) == ToSet(Append(list[u], t)) \ ToSet(Cut(Append(list[u], t)))
<1>1. PICK t \in TaskIds :
        /\ task' = [task EXCEPT ![t] = [status |-> "pending", key |-> k]]
        /\ kept' = (kept \cup {t}) \ gone(t)
        /\ forgotten' = forgotten \cup gone(t) \cup Lost(keys(t), idem')
        /\ ~\E s \in Named(k) : Unfinished(s)
  BY DEF Enqueue
<1> HIDE DEF gone
<1>2. \A e \in keys(t) : e \in idem' \/ e[2] \in forgotten'
  BY <1>1 DEF Lost
<1>3. ASSUME NEW s \in TaskIds, Unfinished(s)', s \notin forgotten'
      PROVE  s \in kept' /\ <<task'[s].key, s>> \in idem'
  <2>1. CASE s = t
    BY <1>1, <1>2, <1>3, <2>1
  <2>2. CASE s # t
    <3>1. task'[s] = task[s] /\ s \notin forgotten /\ s \notin gone(t)
      BY <1>1, <1>3, <2>2
    <3>2. s \in kept /\ <<task[s].key, s>> \in idem /\ Unfinished(s)
      BY <1>3, <3>1 DEF OneTaskPerKey, Named, Unfinished
    <3>3. task[s].key # k
      BY <1>1, <3>2 DEF Named
    <3>4. <<task[s].key, s>> \in keys(t)
      BY <3>2, <3>3
    <3> QED BY <1>1, <1>2, <1>3, <3>1, <3>2, <3>4
  <2> QED BY <2>1, <2>2
<1> QED BY <1>3 DEF OneTaskPerKey, Named, Unfinished

LEMMA MqWorkKey ==
  ASSUME MqTypeInv, MqPlaces, OneTaskPerKey, NEW w \in Workers, Work(w)
  PROVE  OneTaskPerKey'
<1> USE DEF MqTypeInv, MqTypeOK
<1>1. UNCHANGED <<kept, idem, forgotten>>
  BY DEF Work, Pop, Wake, Finish
<1>2. ASSUME \A t \in TaskIds : /\ task'[t].key = task[t].key
                                /\ Unfinished(t)' => Unfinished(t)
      PROVE  OneTaskPerKey'
  BY <1>1, <1>2 DEF OneTaskPerKey, Named, Unfinished
<1>3. CASE Pop(w)
  <2> DEFINE h == Head(fifo)
  <2>1. h \in TaskIds /\ task[h].status = "pending"
    BY <1>3, TailMembers DEF Pop, MqPlaces
  <2>2. task' = task \/ task' = [task EXCEPT ![h].status = "running"]
    BY <1>3 DEF Pop
  <2> HIDE DEF h
  <2>3. \A t \in TaskIds : /\ task'[t].key = task[t].key
                           /\ Unfinished(t)' => Unfinished(t)
    <3>1. CASE task' = task
      BY <3>1 DEF Unfinished
    <3>2. CASE task' = [task EXCEPT ![h].status = "running"]
      BY <2>1, <3>2 DEF Unfinished
    <3> QED BY <2>2, <3>1, <3>2
  <2> QED BY <1>2, <2>3
<1>4. CASE Wake(w)
  BY <1>2, <1>4 DEF Wake, Unfinished
<1>5. CASE Finish(w)
  <2>1. PICK s \in {"completed", "failed"} : task' = [task EXCEPT ![at[w].task].status = s]
    BY <1>5 DEF Finish
  <2>2. \A t \in TaskIds : /\ task'[t].key = task[t].key
                           /\ Unfinished(t)' => Unfinished(t)
    BY <2>1 DEF Unfinished
  <2> QED BY <1>2, <2>2
<1> QED BY <1>3, <1>4, <1>5 DEF Work

LEMMA MqStepKey == MqTypeInv /\ MqPlaces /\ OneTaskPerKey /\ [MqNext]_mqVars => OneTaskPerKey'
<1>1. OneTaskPerKey /\ UNCHANGED mqVars => OneTaskPerKey'
  BY DEF OneTaskPerKey, mqVars, Named
<1>2. OneTaskPerKey /\ CleanUp => OneTaskPerKey'
  <2> SUFFICES ASSUME OneTaskPerKey, CleanUp PROVE OneTaskPerKey'
    OBVIOUS
  <2>1. \A e \in idem : e \in idem' \/ e[2] \in forgotten'
    BY DEF CleanUp, Lost
  <2>2. UNCHANGED <<task, kept>> /\ forgotten \subseteq forgotten'
    BY DEF CleanUp
  <2> QED BY <2>1, <2>2 DEF OneTaskPerKey, Named
<1> QED BY <1>1, <1>2, MqEnqueueKey, MqWorkKey DEF MqNext

(* A payload that is asked for again while its task waits or runs gets that *)
(* task (enqueue(), queue.py): whatever the number of users, keys, tasks    *)
(* and workers, an unfinished task is the one its key names, unless its     *)
(* user's list was cut or its key was pruned.                               *)
THEOREM MemOneTaskPerKey == MqSpec => []OneTaskPerKey
<1>1. MqInit => OneTaskPerKey
  BY DEF MqInit, OneTaskPerKey, NewTask
<1> QED BY <1>1, MqInitType, MqInitPlaces, MqStepType, MqStepPlaces, MqStepKey, PTL DEF MqSpec

-----------------------------------------------------------------------------
(* The in-memory queue implements TaskLifecycle.                            *)
GroupOf(t) == IF task[t].key \in SyncKeys THEN UserOf[task[t].key] ELSE NoKey
state      == [t \in TaskIds |-> task[t].status]
attempts   == [t \in TaskIds |-> 0]
working    == {at[w].task : w \in {v \in Workers : at[v].pc = "handler"}}
group      == [t \in TaskIds |-> GroupOf(t)]

LEMMA MqMapped ==
  /\ Life!LifeInit <=> /\ state = [t \in TaskIds |-> "absent"]
                       /\ attempts = [t \in TaskIds |-> 0]
                       /\ working = {}
                       /\ group = [t \in TaskIds |-> NoKey]
  /\ Life!lifeVars = <<state, attempts, working, group>>
BY DEF Life!LifeInit, Life!lifeVars, state, attempts, working, group, GroupOf

LEMMA MqMappedSubmit ==
  ASSUME NEW t \in TaskIds
  PROVE  Life!Submit(t) <=>
           /\ state[t] = "absent"
           /\ state' = [state EXCEPT ![t] = "pending"]
           /\ \E g \in Users \cup {NoKey} : group' = [group EXCEPT ![t] = g]
           /\ UNCHANGED <<attempts, working>>
BY Zenon DEF Life!Submit, state, attempts, working, group, GroupOf

LEMMA MqMappedBegin ==
  ASSUME NEW t \in TaskIds
  PROVE  Life!Begin(t) <=>
           /\ state[t] = "pending"
           /\ t \notin working
           /\ ~(group[t] # NoKey /\ \E u \in working : group[u] = group[t])
           /\ state' = [state EXCEPT ![t] = "running"]
           /\ working' = working \cup {t}
           /\ UNCHANGED <<attempts, group>>
BY Zenon DEF Life!Begin, Life!Excluded, state, attempts, working, group, GroupOf

LEMMA MqMappedSucceed ==
  ASSUME NEW t \in TaskIds
  PROVE  Life!Succeed(t) <=>
           /\ t \in working
           /\ state' = [state EXCEPT ![t] = "completed"]
           /\ working' = working \ {t}
           /\ UNCHANGED <<attempts, group>>
BY Zenon DEF Life!Succeed, state, attempts, working, group, GroupOf

LEMMA MqMappedGiveUp ==
  ASSUME NEW t \in TaskIds
  PROVE  Life!GiveUp(t) <=>
           /\ t \in working
           /\ attempts[t] = 0
           /\ state' = [state EXCEPT ![t] = "failed"]
           /\ working' = working \ {t}
           /\ UNCHANGED <<attempts, group>>
BY Zenon DEF Life!GiveUp, state, attempts, working, group, GroupOf

LEMMA MqWorking == \A t : t \in working <=> \E v \in Workers : Handles(v) /\ at[v].task = t
BY DEF working, Handles

LEMMA MqWorkingNext ==
  \A t : t \in working' <=> \E v \in Workers : Handles(v)' /\ at'[v].task = t
BY DEF working, Handles

LEMMA MqLifeStart == MqInit => Life!LifeInit
<1> SUFFICES ASSUME MqInit PROVE Life!LifeInit
  OBVIOUS
<1>1. working = {}
  BY MqWorking DEF MqInit, Handles, Idle
<1>2. state = [t \in TaskIds |-> "absent"] /\ group = [t \in TaskIds |-> NoKey]
  BY MemQueueAssumption DEF MqInit, state, group, GroupOf, NewTask
<1> QED BY <1>1, <1>2, MqMapped DEF attempts

(* What a change of one task looks like from outside.                       *)
LEMMA MqStatusMapped ==
  ASSUME MqTypeInv, NEW t \in TaskIds, NEW s,
         task' = [task EXCEPT ![t].status = s]
  PROVE  /\ state' = [state EXCEPT ![t] = s]
         /\ UNCHANGED <<attempts, group>>
<1>1. /\ \A r \in TaskIds : task'[r].key = task[r].key
      /\ \A r \in TaskIds : task'[r].status = IF r = t THEN s ELSE task[r].status
  BY DEF MqTypeInv, MqTypeOK
<1>2. \A r \in TaskIds : GroupOf(r)' = GroupOf(r)
  BY <1>1 DEF GroupOf
<1> QED BY <1>1, <1>2 DEF state, group, attempts

LEMMA MqSubmitRefines ==
  ASSUME MqTypeInv, NEW k \in Keys, Enqueue(k)
  PROVE  Life!LifeNext
<1> USE DEF MqTypeInv, MqTypeOK
<1>1. PICK t \in TaskIds :
        /\ task[t].status = "absent"
        /\ task' = [task EXCEPT ![t] = [status |-> "pending", key |-> k]]
        /\ at' = at
  BY DEF Enqueue, Fresh
<1> DEFINE g == IF k \in SyncKeys THEN UserOf[k] ELSE NoKey
<1>2. g \in Users \cup {NoKey}
  BY DEF Users
<1>3. \A r \in TaskIds : task'[r] = IF r = t THEN [status |-> "pending", key |-> k] ELSE task[r]
  BY <1>1
<1>4. \A r \in TaskIds : GroupOf(r)' = IF r = t THEN g ELSE GroupOf(r)
  BY <1>3 DEF GroupOf
<1>5. state[t] = "absent" /\ state' = [state EXCEPT ![t] = "pending"]
  BY <1>1, <1>3 DEF state
<1>6. group' = [group EXCEPT ![t] = g]
  BY <1>4 DEF group
<1>7. UNCHANGED <<attempts, working>>
  BY <1>1 DEF attempts, working
<1> HIDE DEF g
<1>8. Life!Submit(t)
  BY <1>2, <1>5, <1>6, <1>7, MqMappedSubmit
<1> QED BY <1>8 DEF Life!LifeNext

LEMMA MqBeginRefines ==
  ASSUME MqTypeInv, MqPlaces, NEW w \in Workers, NEW t \in TaskIds,
         at[w].pc = "idle", task[t].status = "pending", CanStart(t),
         task' = [task EXCEPT ![t].status = "running"],
         at' = [at EXCEPT ![w] = [pc |-> "handler", task |-> t]]
  PROVE  Life!LifeNext
<1> USE DEF MqTypeInv, MqTypeOK
<1>1. t \notin working
  BY MqWorking DEF MqPlaces
<1>2. ASSUME group[t] # NoKey, NEW u \in working, group[u] = group[t] PROVE FALSE
  <2>1. PICK v \in Workers : Handles(v) /\ at[v].task = u
    BY MqWorking
  <2>2. u \in TaskIds
    BY <2>1 DEF MqPlaces
  <2>3. task[t].key \in SyncKeys /\ task[u].key \in SyncKeys
        /\ UserOf[task[u].key] = UserOf[task[t].key]
    BY <1>2, <2>2 DEF group, GroupOf
  <2>4. UserOf[task[u].key] \in RunningUsers
    BY <2>1, <2>3 DEF RunningUsers, Handles
  <2> QED BY <2>3, <2>4 DEF CanStart
<1>3. state[t] = "pending"
  BY DEF state
<1>4. state' = [state EXCEPT ![t] = "running"] /\ UNCHANGED <<attempts, group>>
  BY MqStatusMapped
<1>5. /\ \A v \in Workers \ {w} : at'[v] = at[v]
      /\ Handles(w)' /\ at'[w].task = t /\ ~Handles(w)
  BY DEF Handles
<1>6. working' = working \cup {t}
  <2>1. \A x : x \in working' <=> (x \in working \/ x = t)
    BY <1>5, MqWorking, MqWorkingNext DEF Handles
  <2> QED BY <2>1
<1>7. Life!Begin(t)
  BY <1>1, <1>2, <1>3, <1>4, <1>6, MqMappedBegin
<1> QED BY <1>7 DEF Life!LifeNext

LEMMA MqFinishRefines ==
  ASSUME MqTypeInv, MqPlaces, NEW w \in Workers, Finish(w)
  PROVE  Life!LifeNext
<1> USE DEF MqTypeInv, MqTypeOK
<1>1. Handles(w) /\ at[w].task \in TaskIds
  BY DEF Finish, MqPlaces, Handles
<1>2. PICK t \in TaskIds : t = at[w].task
  BY <1>1
<1>3. PICK s \in {"completed", "failed"} : task' = [task EXCEPT ![t].status = s]
  BY <1>2 DEF Finish
<1>4. t \in working /\ attempts[t] = 0
  BY <1>1, <1>2, MqWorking DEF attempts
<1>5. /\ \A v \in Workers \ {w} : at'[v] = at[v] /\ (Handles(v)' <=> Handles(v))
      /\ ~Handles(w)'
  BY DEF Finish, Handles, Idle
<1>6. working' = working \ {t}
  <2>1. \A v \in Workers : Handles(v) /\ v # w => at[v].task # t
    BY <1>1, <1>2 DEF MqPlaces
  <2> HIDE DEF MqTypeInv, MqTypeOK
  <2>2. ASSUME NEW x, x \in working' PROVE x \in working /\ x # t
    <3>1. PICK v \in Workers : Handles(v)' /\ at'[v].task = x
      BY <2>2, MqWorkingNext
    <3>2. v # w /\ Handles(v) /\ at[v].task = x
      BY <1>5, <3>1
    <3> QED BY <2>1, <3>2, MqWorking
  <2>3. ASSUME NEW x, x \in working, x # t PROVE x \in working'
    <3>1. PICK v \in Workers : Handles(v) /\ at[v].task = x
      BY <2>3, MqWorking
    <3>2. v # w
      BY <1>2, <2>3, <3>1
    <3> QED BY <1>5, <3>1, <3>2, MqWorkingNext
  <2> QED BY <2>2, <2>3
<1>7. state' = [state EXCEPT ![t] = s] /\ UNCHANGED <<attempts, group>>
  BY <1>3, MqStatusMapped
<1>8. CASE s = "completed"
  <2>1. Life!Succeed(t)
    BY <1>4, <1>6, <1>7, <1>8, MqMappedSucceed
  <2> QED BY <2>1 DEF Life!LifeNext
<1>9. CASE s = "failed"
  <2>1. Life!GiveUp(t)
    BY <1>4, <1>6, <1>7, <1>9, MqMappedGiveUp
  <2> QED BY <2>1 DEF Life!LifeNext
<1> QED BY <1>8, <1>9

LEMMA MqMappedAbandon ==
  Life!Abandon <=>
    /\ \E T \in SUBSET working : working' = working \ T
    /\ UNCHANGED <<state, attempts, group>>
BY Zenon DEF Life!Abandon, state, attempts, working, group, GroupOf

(* Steps that leave the tasks and the handlers alone: nobody is abandoned.  *)
LEMMA MqQuietRefines ==
  ASSUME task' = task,
         \A v \in Workers : /\ Handles(v)' <=> Handles(v)
                            /\ Handles(v) => at'[v].task = at[v].task
  PROVE  Life!LifeNext
<1>1. working' = working \ {}
  <2>1. \A x : x \in working' <=> x \in working
    BY MqWorking, MqWorkingNext
  <2> QED BY <2>1
<1>2. UNCHANGED <<state, attempts, group>>
  BY DEF state, attempts, group, GroupOf
<1>3. Life!Abandon
  BY <1>1, <1>2, MqMappedAbandon
<1> QED BY <1>3 DEF Life!LifeNext

LEMMA MqWorkRefines ==
  ASSUME MqTypeInv, MqPlaces, NEW w \in Workers, Work(w)
  PROVE  Life!LifeNext
<1> USE DEF MqTypeInv, MqTypeOK
<1>1. CASE Pop(w)
  <2>1. PICK t \in TaskIds : t = Head(fifo) /\ task[t].status = "pending"
    BY <1>1, TailMembers DEF Pop, MqPlaces
  <2>2. at[w].pc = "idle"
    BY <1>1 DEF Pop
  <2>3. CASE task' = task /\ (at' = at \/ at' = [at EXCEPT ![w].pc = "asleep"])
    <3>1. \A v \in Workers : (Handles(v)' <=> Handles(v)) /\ at'[v].task = at[v].task
      BY <2>2, <2>3 DEF Handles
    <3> QED BY <2>3, <3>1, MqQuietRefines
  <2>4. CASE /\ CanStart(t) /\ task' = [task EXCEPT ![t].status = "running"]
             /\ at' = [at EXCEPT ![w] = [pc |-> "handler", task |-> t]]
    BY <2>1, <2>2, <2>4, MqBeginRefines
  <2> QED BY <1>1, <2>1, <2>3, <2>4 DEF Pop
<1>2. CASE Wake(w)
  <2>1. /\ \A v \in Workers \ {w} : at'[v] = at[v] /\ (Handles(v)' <=> Handles(v))
        /\ ~Handles(w) /\ ~Handles(w)'
    BY <1>2 DEF Wake, Handles, Idle
  <2> QED BY <1>2, <2>1, MqQuietRefines DEF Wake
<1>3. CASE Finish(w)
  BY <1>3, MqFinishRefines
<1> QED BY <1>1, <1>2, <1>3 DEF Work

(* The queue of LOCAL_MODE (class TaskQueue, queue.py) implements the       *)
(* promise of TaskLifecycle without a second try: a task waits, is executed *)
(* by one worker, ends and then never changes, and two syncs of a user      *)
(* never overlap.                                                           *)
THEOREM MemLifecycleImplemented == MqSpec => MemImplementsLifecycle
<1>1. MqTypeInv /\ MqPlaces /\ [MqNext]_mqVars => [Life!LifeNext]_(Life!lifeVars)
  <2> SUFFICES ASSUME MqTypeInv, MqPlaces, [MqNext]_mqVars PROVE Life!LifeNext
    OBVIOUS
  <2>1. CASE CleanUp
    BY <2>1, MqQuietRefines DEF CleanUp, Handles
  <2>2. CASE UNCHANGED mqVars
    BY <2>2, MqQuietRefines DEF mqVars, Handles
  <2> QED BY <2>1, <2>2, MqSubmitRefines, MqWorkRefines DEF MqNext
<1> QED BY <1>1, MqLifeStart, MqInitType, MqInitPlaces, MqStepType, MqStepPlaces, PTL
        DEF MqSpec, MemImplementsLifecycle, Life!LifeSpec

-----------------------------------------------------------------------------
(* The exports: types.                                                      *)
LEMMA ExInitType == ExInit => ExTypeOK
BY ExportAssumption DEF ExInit, ExTypeOK, NoRow, NoProc, NoFile

(* What a query answers: ascending rows of those after the last one, and    *)
(* nothing before the end of the answer is left out.                        *)
Ascending(s) == \A i, k \in 1..Len(s) : i < k => s[i] < s[k]

LEMMA RowsAnswer ==
  ASSUME ExTypeOK, NEW j \in Jobs, NEW rows \in Rows(j)
  PROVE  /\ rows \in Seq(TxIds) /\ ToSet(rows) \subseteq After(j) /\ Ascending(rows)
         /\ rows # <<>> => /\ Len(rows) \in Nat \ {0} /\ Last(rows) \in ToSet(rows)
                           /\ \A t \in After(j) : t <= Last(rows) => t \in ToSet(rows)
         /\ rows = <<>> => After(j) = {}
<1> DEFINE A == After(j)
<1>1. A \subseteq TxIds /\ A \subseteq Nat
  BY ExportAssumption DEF After, Mine, ExTypeOK
<1>2. /\ \E m \in 0..BatchSize : rows \in [1..m -> A]
      /\ Ascending(rows)
      /\ \A t \in A \ ToSet(rows) : Len(rows) = BatchSize /\ \A i \in 1..Len(rows) : rows[i] < t
  BY DEF Rows, BoundedSeq, SeqOf, Ascending
<1> HIDE DEF A
<1>3. PICK m \in 0..BatchSize : rows \in [1..m -> A]
  BY <1>2
<1>4. rows \in Seq(A) /\ Len(rows) = m /\ m \in Nat /\ BatchSize \in Nat \ {0}
  BY <1>3, ExportAssumption
<1>5. rows \in Seq(TxIds) /\ ToSet(rows) \subseteq A
  <2>1. rows \in Seq(TxIds)
    <3>1. rows \in [1..m -> TxIds]
      BY <1>1, <1>3
    <3> QED BY <1>4, <3>1
  <2>2. \A i \in DOMAIN rows : rows[i] \in A
    BY <1>3
  <2> QED BY <2>1, <2>2 DEF ToSet
<1>6. ASSUME rows # <<>>
      PROVE  /\ Len(rows) \in Nat \ {0} /\ Last(rows) \in ToSet(rows)
             /\ \A t \in A : t <= Last(rows) => t \in ToSet(rows)
  <2>1. Len(rows) \in Nat \ {0} /\ Len(rows) \in 1..Len(rows)
    BY <1>4, <1>6, EmptySeq
  <2>2. Last(rows) \in ToSet(rows)
    BY <1>4, <2>1 DEF Last, ToSet
  <2>3. ASSUME NEW t \in A, t <= Last(rows), t \notin ToSet(rows) PROVE FALSE
    <3>1. Last(rows) < t
      BY <1>2, <2>1, <2>3 DEF Last
    <3>2. Last(rows) \in Nat /\ t \in Nat
      BY <1>1, <1>5, <2>2
    <3> QED BY <2>3, <3>1, <3>2
  <2> QED BY <2>1, <2>2, <2>3
<1>7. ASSUME rows = <<>> PROVE A = {}
  <2>1. Len(rows) = 0 /\ ToSet(rows) = {}
    BY <1>7 DEF ToSet
  <2> QED BY <1>2, <1>4, <2>1
<1> QED BY <1>2, <1>5, <1>6, <1>7 DEF A

LEMMA PageType ==
  ASSUME ExTypeOK, NEW j \in Jobs, Page(j)
  PROVE  ExTypeOK'
<1> USE DEF ExTypeOK
<1>1. PICK rows \in Rows(j) :
        IF rows = <<>>
        THEN proc' = [proc EXCEPT ![j].pc = "end"] /\ UNCHANGED file
        ELSE /\ file' = [file EXCEPT ![j] = @ \o rows]
             /\ proc' = [proc EXCEPT ![j].last = Last(rows)]
  BY DEF Page
<1> DEFINE procs == [pc : {"none", "start", "pages", "end", "except"}, last : TxIds \cup {0}]
<1> proc[j] \in procs
  OBVIOUS
<1>2. CASE rows = <<>>
  <2>1. proc' = [proc EXCEPT ![j].pc = "end"] /\ file' = file
    BY <1>1, <1>2
  <2>2. [proc[j] EXCEPT !.pc = "end"] \in procs
    OBVIOUS
  <2>3. proc' \in [Jobs -> procs]
    BY <2>1, <2>2
  <2> QED BY <2>1, <2>3 DEF Page
<1>3. CASE rows # <<>>
  <2>1. rows \in Seq(TxIds) /\ Last(rows) \in TxIds
    <3>1. ToSet(rows) \subseteq TxIds
      BY RowsAnswer DEF After, Mine
    <3> QED BY <1>3, <3>1, RowsAnswer
  <2>2. rows \in Seq(TxIds \cup {0}) /\ file[j] \in Seq(TxIds \cup {0})
    BY <2>1
  <2>3. file[j] \o rows \in Seq(TxIds \cup {0})
    BY <2>2, ConcatProperties
  <2>4. file' \in [Jobs -> Seq(TxIds \cup {0})]
    BY <1>1, <1>3, <2>3
  <2>5. [proc[j] EXCEPT !.last = Last(rows)] \in procs
    BY <2>1
  <2>6. proc' \in [Jobs -> procs]
    BY <1>1, <1>3, <2>5
  <2> QED BY <2>4, <2>6 DEF Page
<1> QED BY <1>2, <1>3

(* A job's row stays a row when its status changes, and when it has a path;  *)
(* its process stays one when it goes on.                                    *)
LEMMA NextRow ==
  ASSUME NEW rows, NEW procs,
         rows = [status : {"absent", "queued", "processing", "completed", "failed"},
                 user : Owners \cup {NoOwner}, path : BOOLEAN],
         procs = [pc : {"none", "start", "pages", "end", "except"}, last : TxIds \cup {0}],
         row \in [Jobs -> rows], proc \in [Jobs -> procs], NEW j \in Jobs
  PROVE  /\ [row EXCEPT ![j].status = "processing"] \in [Jobs -> rows]
         /\ [row EXCEPT ![j].status = "failed"] \in [Jobs -> rows]
         /\ [row EXCEPT ![j].status = "completed", ![j].path = TRUE] \in [Jobs -> rows]
         /\ [proc EXCEPT ![j].pc = "pages"] \in [Jobs -> procs]
<1>1. row[j] \in rows /\ proc[j] \in procs
  OBVIOUS
<1>2. /\ [row[j] EXCEPT !.status = "processing"] \in rows
      /\ [row[j] EXCEPT !.status = "failed"] \in rows
      /\ [row[j] EXCEPT !.status = "completed", !.path = TRUE] \in rows
      /\ [proc[j] EXCEPT !.pc = "pages"] \in procs
  BY <1>1
<1>3. /\ [row EXCEPT ![j] = [@ EXCEPT !.status = "processing"]] \in [Jobs -> rows]
      /\ [row EXCEPT ![j] = [@ EXCEPT !.status = "failed"]] \in [Jobs -> rows]
      /\ [proc EXCEPT ![j] = [@ EXCEPT !.pc = "pages"]] \in [Jobs -> procs]
  BY <1>2, Zenon
<1>4. [row EXCEPT ![j].status = "completed", ![j].path = TRUE] \in [Jobs -> rows]
  BY <1>1, <1>2
<1> QED BY <1>3, <1>4, Zenon

LEMMA ExStepType == ExTypeOK /\ [ExNext]_exVars => ExTypeOK'
<1> SUFFICES ASSUME ExTypeOK, [ExNext]_exVars PROVE ExTypeOK'
  OBVIOUS
<1> USE DEF ExTypeOK
<1>1. CASE UNCHANGED exVars
  BY <1>1 DEF exVars
<1>2. ASSUME NEW t \in TxIds, AddTx(t) PROVE ExTypeOK'
  BY <1>2 DEF AddTx
<1>3. ASSUME NEW t \in TxIds, DeleteTx(t) PROVE ExTypeOK'
  BY <1>3 DEF DeleteTx
<1>4. ASSUME NEW j \in Jobs, NEW u \in Owners, Create(j, u) PROVE ExTypeOK'
  BY <1>4 DEF Create
<1>5. ASSUME NEW j \in Jobs, NEW u \in Owners, CancelExport(j, u) PROVE ExTypeOK'
  BY <1>5 DEF CancelExport, NoFile
<1>6. ASSUME NEW j \in Jobs, BeginExport(j) PROVE ExTypeOK'
  <2>1. /\ proc' \in [Jobs -> [pc : {"none", "start", "pages", "end", "except"}, last : TxIds \cup {0}]]
        /\ row' \in [Jobs -> [status : {"absent", "queued", "processing", "completed", "failed"},
                             user : Owners \cup {NoOwner}, path : BOOLEAN]]
    BY <1>6, NextRow DEF BeginExport
  <2>2. file' \in [Jobs -> Seq(TxIds \cup {0})]
    BY <1>6, EmptySeq DEF BeginExport
  <2>3. always' \in [Jobs -> SUBSET TxIds] /\ ever' \in [Jobs -> SUBSET TxIds]
    BY <1>6 DEF BeginExport
  <2> QED BY <1>6, <2>1, <2>2, <2>3 DEF BeginExport
<1>7. ASSUME NEW j \in Jobs, Complete(j) PROVE ExTypeOK'
  <2>1. proc' \in [Jobs -> [pc : {"none", "start", "pages", "end", "except"}, last : TxIds \cup {0}]]
    BY <1>7 DEF Complete, NoProc
  <2>2. row' \in [Jobs -> [status : {"absent", "queued", "processing", "completed", "failed"},
                         user : Owners \cup {NoOwner}, path : BOOLEAN]]
    BY <1>7, NextRow DEF Complete
  <2> QED BY <1>7, <2>1, <2>2 DEF Complete
<1>8. ASSUME NEW j \in Jobs, Raise(j) PROVE ExTypeOK'
  <2>1. proc' \in [Jobs -> [pc : {"none", "start", "pages", "end", "except"}, last : TxIds \cup {0}]]
    BY <1>8 DEF Raise
  <2> QED BY <1>8, <2>1 DEF Raise
<1>9. ASSUME NEW j \in Jobs, Except(j) PROVE ExTypeOK'
  <2>1. row' = row \/ row' = [row EXCEPT ![j].status = "failed"]
    BY <1>9 DEF Except, Recorded
  <2>2. row' \in [Jobs -> [status : {"absent", "queued", "processing", "completed", "failed"},
                          user : Owners \cup {NoOwner}, path : BOOLEAN]]
    <3>1. CASE row' = row
      BY <3>1
    <3>2. CASE row' = [row EXCEPT ![j].status = "failed"]
      BY <3>2, NextRow
    <3> QED BY <2>1, <3>1, <3>2
  <2>3. cut' \subseteq Jobs
    BY <1>9 DEF Except, Recorded
  <2>4. proc' \in [Jobs -> [pc : {"none", "start", "pages", "end", "except"}, last : TxIds \cup {0}]]
    BY <1>9 DEF Except, NoProc
  <2> QED BY <1>9, <2>2, <2>3, <2>4 DEF Except
<1>10. CASE Restart
  BY <1>10, ExportAssumption DEF Restart, NoProc
<1> QED BY <1>1, <1>2, <1>3, <1>4, <1>5, <1>6, <1>7, <1>8, <1>9, <1>10, PageType
        DEF ExNext, Process

(* The exports always have their type.                                      *)
THEOREM ExTypeCorrect == ExSpec => []ExTypeOK
BY ExInitType, ExStepType, PTL DEF ExSpec

-----------------------------------------------------------------------------
(* The exports: what a file has.  While it is written it ascends up to the  *)
(* last id that was read, has every transaction of the user up to there     *)
(* that was never away, and nothing that was never there; what holds at its *)
(* end is not touched again.                                                *)
Belongs(S, j) == {t \in S : TxOwner[t] = row[j].user}

Written(j) ==
  /\ Ascending(file[j])
  /\ ToSet(file[j]) \subseteq Belongs(ever[j], j)

Writing(j) ==
  /\ file[j] \in Seq(TxIds) /\ Written(j)
  /\ always[j] \subseteq txs /\ txs \subseteq ever[j]
  /\ \A t \in ToSet(file[j]) : t <= proc[j].last
  /\ \A t \in Belongs(always[j], j) : t <= proc[j].last => t \in ToSet(file[j])

WholeFile(j) ==
  /\ file[j] \in Seq(TxIds) /\ Written(j)
  /\ Belongs(always[j], j) \subseteq ToSet(file[j])

ExJobInv(j) ==
  /\ proc[j].pc \in {"none", "start"} => proc[j].last = 0
  /\ row[j].status \in {"absent", "completed"} => proc[j].pc = "none"
  /\ row[j].path => row[j].status = "completed"
  /\ proc[j].pc = "pages" => Writing(j)
  /\ proc[j].pc = "end" => WholeFile(j)
  /\ row[j].status = "completed" => file[j] = NoFile \/ WholeFile(j)

ExInv == ExTypeOK /\ \A j \in Jobs : ExJobInv(j)

LEMMA ExInitInv == ExInit => ExInv
<1> SUFFICES ASSUME ExInit, NEW j \in Jobs PROVE ExJobInv(j)
  BY ExInitType DEF ExInv
<1> QED BY DEF ExInit, ExJobInv, NoRow, NoProc

(* A job is not disturbed by what happens to the others.                    *)
LEMMA SameJob ==
  ASSUME NEW j \in Jobs, ExJobInv(j), txs' = txs,
         row'[j] = row[j], proc'[j] = proc[j], file'[j] = file[j],
         always'[j] = always[j], ever'[j] = ever[j]
  PROVE  ExJobInv(j)'
BY DEF ExJobInv, Writing, WholeFile, Written, Belongs

LEMMA AscendingMore ==
  ASSUME NEW s \in Seq(TxIds), NEW r \in Seq(TxIds), Ascending(s), Ascending(r),
         \A x \in ToSet(s), y \in ToSet(r) : x < y
  PROVE  /\ s \o r \in Seq(TxIds) /\ Ascending(s \o r)
         /\ ToSet(s \o r) = ToSet(s) \cup ToSet(r)
<1>1. /\ s \o r \in Seq(TxIds) /\ Len(s \o r) = Len(s) + Len(r)
      /\ \A i \in 1..Len(s) + Len(r) : (s \o r)[i] = IF i <= Len(s) THEN s[i] ELSE r[i - Len(s)]
  BY ConcatProperties
<1>2. Len(s) \in Nat /\ Len(r) \in Nat /\ DOMAIN s = 1..Len(s) /\ DOMAIN r = 1..Len(r)
      /\ DOMAIN (s \o r) = 1..Len(s) + Len(r)
  BY <1>1
<1>3. /\ \A i \in 1..Len(s) : s[i] \in ToSet(s) /\ i \in 1..Len(s) + Len(r)
      /\ \A i \in 1..Len(r) : r[i] \in ToSet(r) /\ Len(s) + i \in 1..Len(s) + Len(r)
      /\ \A i \in 1..Len(s) + Len(r) : ~(i <= Len(s)) => i - Len(s) \in 1..Len(r)
      /\ \A i \in 1..Len(s) + Len(r) : i <= Len(s) => i \in 1..Len(s)
  BY <1>2 DEF ToSet
<1>4. /\ \A i \in 1..Len(s) : (s \o r)[i] = s[i]
      /\ \A i \in 1..Len(r) : (s \o r)[Len(s) + i] = r[i]
  BY <1>1, <1>2, <1>3
<1>5. ToSet(s \o r) = ToSet(s) \cup ToSet(r)
  <2>1. \A x \in ToSet(s \o r) : x \in ToSet(s) \cup ToSet(r)
    BY <1>1, <1>2, <1>3 DEF ToSet
  <2>2. \A x \in ToSet(s) : x \in ToSet(s \o r)
    BY <1>2, <1>3, <1>4 DEF ToSet
  <2>3. \A x \in ToSet(r) : x \in ToSet(s \o r)
    BY <1>2, <1>3, <1>4 DEF ToSet
  <2> QED BY <2>1, <2>2, <2>3
<1>6. ASSUME NEW i \in 1..Len(s) + Len(r), NEW k \in 1..Len(s) + Len(r), i < k
      PROVE  (s \o r)[i] < (s \o r)[k]
  <2>1. CASE k <= Len(s)
    BY <1>1, <1>2, <1>3, <1>6, <2>1 DEF Ascending
  <2>2. CASE ~(i <= Len(s))
    <3>1. i - Len(s) \in 1..Len(r) /\ k - Len(s) \in 1..Len(r) /\ i - Len(s) < k - Len(s) /\ ~(k <= Len(s))
      BY <1>2, <1>3, <1>6, <2>2
    <3> QED BY <1>1, <2>2, <3>1 DEF Ascending
  <2>3. CASE i <= Len(s) /\ ~(k <= Len(s))
    <3>1. s[i] \in ToSet(s) /\ r[k - Len(s)] \in ToSet(r)
      BY <1>3, <2>3
    <3> QED BY <1>1, <2>3, <3>1
  <2> QED BY <1>2, <2>1, <2>2, <2>3
<1> QED BY <1>1, <1>5, <1>6 DEF Ascending

(* A page: what was read comes after all that is there, and nothing between *)
(* is left out.                                                             *)
LEMMA PageInv ==
  ASSUME ExInv, NEW j \in Jobs, Page(j)
  PROVE  ExJobInv(j)'
<1> USE DEF ExInv
<1>1. PICK rows \in Rows(j) :
        IF rows = <<>>
        THEN proc' = [proc EXCEPT ![j].pc = "end"] /\ UNCHANGED file
        ELSE /\ file' = [file EXCEPT ![j] = @ \o rows]
             /\ proc' = [proc EXCEPT ![j].last = Last(rows)]
  BY DEF Page
<1>2. /\ ExJobInv(j) /\ proc[j].pc = "pages" /\ Writing(j)
      /\ UNCHANGED <<txs, row, restarts, always, ever, cut>>
      /\ row[j].status \notin {"absent", "completed"}
      /\ row[j].path => row[j].status = "completed"
  BY DEF Page, ExJobInv
<1>3. /\ file[j] \in Seq(TxIds) /\ Written(j)
      /\ always[j] \subseteq txs /\ txs \subseteq ever[j]
      /\ \A t \in ToSet(file[j]) : t <= proc[j].last
      /\ \A t \in Belongs(always[j], j) : t <= proc[j].last => t \in ToSet(file[j])
  BY <1>2 DEF Writing
<1>4. txs \subseteq Nat /\ proc[j].last \in Nat /\ always[j] \subseteq Nat /\ TxIds \subseteq Nat
  <2>1. txs \subseteq TxIds /\ proc[j].last \in TxIds \cup {0} /\ TxIds \subseteq Nat
    BY ExportAssumption DEF ExTypeOK
  <2> HIDE DEF ExInv
  <2>2. always[j] \subseteq txs
    BY <1>3
  <2>3. txs \subseteq Nat
    BY <2>1
  <2>4. always[j] \subseteq Nat
    BY <2>2, <2>3
  <2>5. proc[j].last \in Nat
    BY <2>1, 0 \in Nat, Zenon
  <2> QED BY <2>1, <2>3, <2>4, <2>5, Zenon
<1>5. \A t \in Belongs(always[j], j) : t <= proc[j].last \/ t \in After(j)
  BY <1>2, <1>3, <1>4 DEF Belongs, After, Mine
<1>6. CASE rows = <<>>
  <2>1. After(j) = {}
    BY <1>6, RowsAnswer
  <2>2. file'[j] = file[j] /\ proc'[j].pc = "end" /\ row'[j] = row[j]
    BY <1>1, <1>2, <1>6 DEF ExTypeOK
  <2>3. WholeFile(j)
    BY <1>3, <1>5, <2>1 DEF WholeFile
  <2>4. WholeFile(j)'
    BY <1>2, <2>2, <2>3 DEF WholeFile, Written, Belongs
  <2> QED BY <1>2, <2>2, <2>4 DEF ExJobInv
<1>7. CASE rows # <<>>
  <2>1. file'[j] = file[j] \o rows /\ proc'[j].pc = "pages" /\ proc'[j].last = Last(rows)
    BY <1>1, <1>2, <1>7 DEF ExTypeOK
  <2>2. /\ rows \in Seq(TxIds) /\ ToSet(rows) \subseteq After(j) /\ Ascending(rows)
        /\ Last(rows) \in ToSet(rows)
        /\ \A t \in After(j) : t <= Last(rows) => t \in ToSet(rows)
    BY <1>7, RowsAnswer
  <2>3. ToSet(file[j]) \subseteq Nat /\ ToSet(rows) \subseteq Nat
    <3>1. ToSet(file[j]) \subseteq ever[j] /\ ever[j] \subseteq TxIds
      BY <1>3 DEF Written, Belongs, ExTypeOK
    <3>2. After(j) \subseteq txs
      BY DEF After, Mine
    <3> QED BY <1>4, <2>2, <3>1, <3>2
  <2>4. \A x \in ToSet(file[j]), y \in ToSet(rows) : x < y
    <3>1. \A y \in ToSet(rows) : y > proc[j].last
      BY <2>2 DEF After
    <3> QED BY <1>3, <1>4, <2>3, <3>1
  <2>5. /\ file'[j] \in Seq(TxIds) /\ Ascending(file'[j])
        /\ ToSet(file'[j]) = ToSet(file[j]) \cup ToSet(rows)
    BY <1>3, <2>1, <2>2, <2>4, AscendingMore DEF Written
  <2>6. ToSet(file'[j]) \subseteq Belongs(ever[j], j)
    BY <1>2, <1>3, <2>2, <2>5 DEF Written, Belongs, After, Mine
  <2>7. \A t \in ToSet(file'[j]) : t <= Last(rows)
    <3>1. \A y \in ToSet(rows) : y <= Last(rows)
      <4>1. \A i \in 1..Len(rows) : i < Len(rows) \/ i = Len(rows)
        BY <2>2
      <4>2. Len(rows) \in 1..Len(rows) /\ DOMAIN rows = 1..Len(rows)
        BY <2>2, <1>7, RowsAnswer
      <4>3. \A i \in 1..Len(rows) : rows[i] \in Nat
        BY <2>3, <4>2 DEF ToSet
      <4>4. \A i \in 1..Len(rows) : rows[i] <= rows[Len(rows)]
        BY <2>2, <4>1, <4>2, <4>3 DEF Ascending
      <4> QED BY <4>2, <4>4 DEF Last, ToSet
    <3> QED BY <2>2, <2>3, <2>4, <2>5, <3>1
  <2>8. \A t \in Belongs(always[j], j) : t <= Last(rows) => t \in ToSet(file'[j])
    BY <1>3, <1>5, <2>2, <2>5
  <2>9. Writing(j)'
    BY <1>2, <1>3, <2>1, <2>5, <2>6, <2>7, <2>8 DEF Writing, Written, Belongs
  <2> QED BY <1>2, <2>1, <2>9 DEF ExJobInv
<1> QED BY <1>6, <1>7

(* The other steps.                                                          *)
LEMMA ChangeInv ==
  ASSUME ExInv, NEW t \in TxIds, AddTx(t) \/ DeleteTx(t), NEW j \in Jobs
  PROVE  ExJobInv(j)'
<1>1. /\ ExJobInv(j) /\ UNCHANGED <<row, file, proc>>
  BY DEF ExInv, AddTx, DeleteTx
<1>2. CASE proc[j].pc = "pages"
  <2>1. /\ Writing(j) /\ row[j].status # "completed"
    BY <1>1, <1>2 DEF ExJobInv
  <2>2. \/ txs' = txs \cup {t} /\ ever'[j] = ever[j] \cup {t} /\ always'[j] = always[j]
        \/ txs' = txs \ {t} /\ ever'[j] = ever[j] /\ always'[j] = always[j] \ {t}
    BY <1>2 DEF AddTx, DeleteTx, ExInv, ExTypeOK
  <2>3. always'[j] \subseteq txs' /\ txs' \subseteq ever'[j]
        /\ always'[j] \subseteq always[j] /\ ever[j] \subseteq ever'[j]
    BY <2>1, <2>2 DEF Writing
  <2>4. Writing(j)'
    BY <1>1, <2>1, <2>3 DEF Writing, Written, Belongs
  <2> QED BY <1>1, <1>2, <2>1, <2>4 DEF ExJobInv
<1>3. CASE proc[j].pc # "pages"
  <2>1. always'[j] = always[j] /\ ever'[j] = ever[j]
    BY <1>3 DEF AddTx, DeleteTx, ExInv, ExTypeOK
  <2> QED BY <1>1, <1>3, <2>1 DEF ExJobInv, WholeFile, Written, Belongs
<1> QED BY <1>2, <1>3

LEMMA ProcessInv ==
  ASSUME ExInv, NEW j \in Jobs, Process(j)
  PROVE  ExJobInv(j)'
<1> USE DEF ExInv, ExTypeOK
<1>1. CASE BeginExport(j)
  <2>1. /\ file'[j] = <<>> /\ proc'[j].pc = "pages" /\ row'[j].status = "processing"
        /\ row'[j].path = row[j].path
        /\ always'[j] = txs /\ ever'[j] = txs /\ txs' = txs /\ proc[j].pc = "start"
        /\ proc'[j].last = 0
    BY <1>1 DEF BeginExport, ExJobInv
  <2>2. <<>> \in Seq(TxIds) /\ Ascending(<<>>) /\ ToSet(<<>>) = {}
    BY EmptySeq DEF Ascending, ToSet
  <2>3. \A t \in txs : ~(t <= 0)
    <3>1. \A t \in txs : t \in Nat \ {0}
      BY ExportAssumption
    <3> QED BY <3>1
  <2>4. Writing(j)'
    BY <2>1, <2>2, <2>3 DEF Writing, Written, Belongs
  <2>5. ~row[j].path
    BY <2>1 DEF ExJobInv
  <2> QED BY <2>1, <2>4, <2>5 DEF ExJobInv
<1>2. CASE Page(j)
  BY <1>2, PageInv
<1>3. CASE Complete(j)
  <2>1. /\ proc[j].pc = "end" /\ file' = file /\ always' = always /\ ever' = ever
        /\ proc'[j] = NoProc /\ row'[j].status = "completed" /\ row'[j].user = row[j].user
    BY <1>3 DEF Complete
  <2>2. WholeFile(j)
    BY <2>1 DEF ExJobInv
  <2>3. WholeFile(j)'
    BY <2>1, <2>2 DEF WholeFile, Written, Belongs
  <2> QED BY <2>1, <2>3 DEF ExJobInv, NoProc
<1>4. CASE Raise(j)
  <2>1. /\ proc[j].pc # "none" /\ row' = row /\ proc'[j].pc = "except"
    BY <1>4 DEF Raise
  <2> QED BY <2>1 DEF ExJobInv
<1>5. CASE Except(j)
  <2>1. /\ proc[j].pc = "except" /\ proc'[j] = NoProc
        /\ row'[j] = row[j] \/ (row'[j].status = "failed" /\ row'[j].path = row[j].path)
    BY <1>5 DEF Except, Recorded
  <2>2. row[j].status \notin {"absent", "completed"} /\ ~row[j].path
    BY <2>1 DEF ExJobInv
  <2> QED BY <2>1, <2>2 DEF ExJobInv, NoProc
<1> QED BY <1>1, <1>2, <1>3, <1>4, <1>5 DEF Process

LEMMA RequestInv ==
  ASSUME ExInv, NEW j \in Jobs, NEW u \in Owners, Create(j, u) \/ CancelExport(j, u)
  PROVE  ExJobInv(j)'
<1> USE DEF ExInv, ExTypeOK
<1>1. CASE Create(j, u)
  <2>1. /\ proc[j].pc = "none" /\ proc[j].last = 0
        /\ row'[j] = [status |-> "queued", user |-> u, path |-> FALSE]
        /\ proc'[j].pc = "start" /\ proc'[j].last = proc[j].last
    BY <1>1 DEF Create, ExJobInv
  <2> QED BY <2>1 DEF ExJobInv
<1>2. CASE CancelExport(j, u)
  <2>1. row' = row /\ proc' = proc /\ file'[j] = NoFile /\ row[j].status = "completed"
    BY <1>2 DEF CancelExport, ExJobInv
  <2> QED BY <2>1 DEF ExJobInv
<1> QED BY <1>1, <1>2

LEMMA ExStepInv == ExInv /\ [ExNext]_exVars => ExInv'
<1> SUFFICES ASSUME ExInv, [ExNext]_exVars, NEW j \in Jobs PROVE ExJobInv(j)'
  BY ExStepType DEF ExInv
<1> USE DEF ExInv, ExTypeOK
<1>1. CASE UNCHANGED exVars
  BY <1>1, SameJob DEF exVars
<1>2. ASSUME NEW t \in TxIds, AddTx(t) \/ DeleteTx(t) PROVE ExJobInv(j)'
  BY <1>2, ChangeInv
<1>3. ASSUME NEW i \in Jobs, NEW u \in Owners, Create(i, u) \/ CancelExport(i, u)
      PROVE  ExJobInv(j)'
  <2>1. CASE i = j
    BY <1>3, <2>1, RequestInv
  <2>2. CASE i # j
    <3>1. /\ txs' = txs /\ row'[j] = row[j] /\ proc'[j] = proc[j] /\ file'[j] = file[j]
          /\ always'[j] = always[j] /\ ever'[j] = ever[j]
      BY <1>3, <2>2 DEF Create, CancelExport
    <3> QED BY <3>1, SameJob
  <2> QED BY <2>1, <2>2
<1>4. ASSUME NEW i \in Jobs, Process(i) PROVE ExJobInv(j)'
  <2>1. CASE i = j
    BY <1>4, <2>1, ProcessInv
  <2>2. CASE i # j
    <3>1. /\ txs' = txs /\ row'[j] = row[j] /\ proc'[j] = proc[j] /\ file'[j] = file[j]
          /\ always'[j] = always[j] /\ ever'[j] = ever[j]
      BY <1>4, <2>2 DEF Process, BeginExport, Page, Complete, Raise, Except, Recorded
    <3> QED BY <3>1, SameJob
  <2> QED BY <2>1, <2>2
<1>5. CASE Restart
  <2>1. /\ UNCHANGED <<txs, row, file, always, ever>> /\ proc'[j] = NoProc /\ ExJobInv(j)
    BY <1>5 DEF Restart
  <2> QED BY <2>1 DEF ExJobInv, NoProc, WholeFile, Written, Belongs
<1> QED BY <1>1, <1>2, <1>3, <1>4, <1>5 DEF ExNext

LEMMA ExInvFaithful == ExInv => ExportFaithful
<1> SUFFICES ASSUME ExInv, NEW j \in Jobs, Download(j)
             PROVE  /\ Belongs(always[j], j) \subseteq ToSet(file[j])
                    /\ ToSet(file[j]) \subseteq Belongs(ever[j], j)
                    /\ IsInjective(file[j])
  BY DEF ExportFaithful, Belongs
<1>1. WholeFile(j)
  BY DEF Download, ExInv, ExJobInv
<1>2. IsInjective(file[j])
  <2>1. DOMAIN file[j] = 1..Len(file[j]) /\ Len(file[j]) \in Nat
    BY <1>1 DEF WholeFile
  <2>2. \A i \in 1..Len(file[j]) : file[j][i] \in Nat
    <3>1. \A i \in 1..Len(file[j]) : file[j][i] \in TxIds
      BY <1>1 DEF WholeFile
    <3> QED BY <3>1, ExportAssumption
  <2>3. \A i, k \in 1..Len(file[j]) : i < k => file[j][i] < file[j][k]
    BY <1>1 DEF WholeFile, Written, Ascending
  <2>4. \A i, k \in 1..Len(file[j]) : file[j][i] = file[j][k] => i = k
    BY <2>1, <2>2, <2>3
  <2> QED BY <2>1, <2>4 DEF IsInjective
<1> QED BY <1>1, <1>2 DEF WholeFile, Written

(* Every file that download_export() (exports.py) hands out has each of the *)
(* user's transactions that was there from its first page to its last, and  *)
(* only such of the user's as were there at some time, once each: for any   *)
(* number of jobs and users, whatever is added and deleted between pages.   *)
THEOREM ExportsFaithful == ExSpec => []ExportFaithful
BY ExInitInv, ExStepInv, ExInvFaithful, PTL DEF ExSpec

-----------------------------------------------------------------------------
(* The backfill loops: types.                                               *)
LoopType ==
  [kind : LoopKinds, pc : {"query", "each", "done", "failed"}, wanted : SUBSET Emails,
   rest : Seq(Emails), batch : Seq(Emails), offset : Nat, fresh : SUBSET Emails,
   tried : SUBSET Emails, got : SUBSET Emails, stuck : BOOLEAN]

LEMMA RowedType ==
  ASSUME NEW S \in SUBSET Emails, NEW s \in Rowed(S)
  PROVE  s \in Seq(Emails) /\ ToSet(s) = S
<1>1. IsFiniteSet(S) /\ Cardinality(S) \in Nat
  BY BackfillAssumption, FS_Subset, FS_CardinalityType
<1>2. s \in [1..Cardinality(S) -> S] /\ ToSet(s) = S
  BY DEF Rowed
<1>3. s \in [1..Cardinality(S) -> Emails]
  BY <1>2
<1> QED BY <1>1, <1>2, <1>3

LEMMA SliceType ==
  ASSUME NEW s \in Seq(Emails), NEW from \in Nat
  PROVE  Slice(s, from) \in Seq(Emails)
<1> DEFINE n == IF from + Batch < Len(s) THEN from + Batch ELSE Len(s)
<1>1. n \in Int /\ from + 1 \in Int /\ Len(s) \in Nat /\ n <= Len(s)
  BY BackfillAssumption
<1>2. \A i \in (from + 1)..n : s[i] \in Emails
  BY <1>1
<1> HIDE DEF n
<1>3. SubSeq(s, from + 1, n) \in Seq(Emails)
  BY <1>1, <1>2, SubSeqProperties
<1> QED BY <1>3 DEF Slice, n

(* The first batch of a list, and what comes after it, are the list.        *)
LEMMA SliceSplits ==
  ASSUME NEW s \in Seq(Emails)
  PROVE  /\ SubSeq(s, Batch + 1, Len(s)) \in Seq(Emails)
         /\ ToSet(s) \subseteq ToSet(Slice(s, 0)) \cup ToSet(SubSeq(s, Batch + 1, Len(s)))
         /\ Slice(s, 0) = <<>> => s = <<>>
<1> DEFINE n == IF 0 + Batch < Len(s) THEN 0 + Batch ELSE Len(s)
           a == SubSeq(s, 0 + 1, n)
           b == SubSeq(s, Batch + 1, Len(s))
<1>1. n \in Int /\ Len(s) \in Nat /\ n <= Len(s) /\ Batch \in Nat \ {0} /\ n >= 0
      /\ (n = 0 => Len(s) = 0) /\ n <= Batch /\ (n < Len(s) => n = Batch)
  BY BackfillAssumption
<1>2. \A i \in 1..Len(s) : s[i] \in Emails
  OBVIOUS
<1> HIDE DEF n
<1>3. /\ a \in Seq(Emails) /\ Len(a) = n
      /\ \A i \in 1..n : a[i] = s[i]
  <2>1. \A i \in (0 + 1)..n : s[i] \in Emails
    BY <1>1, <1>2
  <2>2. /\ a \in Seq(Emails) /\ Len(a) = (IF 0 + 1 <= n THEN n - (0 + 1) + 1 ELSE 0)
        /\ \A i \in 1..n - (0 + 1) + 1 : a[i] = s[(0 + 1) + i - 1]
    BY <1>1, <2>1, SubSeqProperties
  <2>3. \A i \in 1..n : i \in 1..n - (0 + 1) + 1 /\ (0 + 1) + i - 1 = i
    BY <1>1
  <2>4. Len(a) = n
    BY <1>1, <2>2
  <2> QED BY <2>2, <2>3, <2>4
<1>4. /\ b \in Seq(Emails) /\ Len(b) = (IF Batch + 1 <= Len(s) THEN Len(s) - Batch ELSE 0)
      /\ \A i \in 1..Len(s) - Batch : b[i] = s[Batch + i]
  <2>1. \A i \in (Batch + 1)..Len(s) : s[i] \in Emails
    BY <1>1, <1>2
  <2>2. /\ b \in Seq(Emails) /\ Len(b) = (IF Batch + 1 <= Len(s) THEN Len(s) - (Batch + 1) + 1 ELSE 0)
        /\ \A i \in 1..Len(s) - (Batch + 1) + 1 : b[i] = s[(Batch + 1) + i - 1]
    BY <1>1, <2>1, SubSeqProperties
  <2>3. \A i \in 1..Len(s) - Batch : i \in 1..Len(s) - (Batch + 1) + 1 /\ (Batch + 1) + i - 1 = Batch + i
    BY <1>1
  <2>4. Len(b) = (IF Batch + 1 <= Len(s) THEN Len(s) - Batch ELSE 0)
    BY <1>1, <2>2
  <2> QED BY <2>2, <2>3, <2>4
<1>5. DOMAIN s = 1..Len(s) /\ DOMAIN a = 1..Len(a) /\ DOMAIN b = 1..Len(b)
  BY <1>3, <1>4
<1> HIDE DEF a, b
<1>6. ASSUME NEW x \in ToSet(s) PROVE x \in ToSet(a) \cup ToSet(b)
  <2>1. PICK i \in 1..Len(s) : s[i] = x
    BY <1>5 DEF ToSet
  <2>2. CASE i <= n
    <3>1. i \in DOMAIN a /\ a[i] = x
      BY <1>1, <1>3, <1>5, <2>1, <2>2
    <3> QED BY <3>1 DEF ToSet
  <2>3. CASE ~(i <= n)
    <3>1. n = Batch /\ i - Batch \in 1..Len(s) - Batch /\ Batch + (i - Batch) = i /\ Batch + 1 <= Len(s)
      BY <1>1, <2>1, <2>3
    <3>2. i - Batch \in DOMAIN b /\ b[i - Batch] = x
      BY <1>4, <1>5, <2>1, <3>1
    <3> QED BY <3>2 DEF ToSet
  <2> QED BY <2>2, <2>3
<1>7. a = <<>> => s = <<>>
  <2> SUFFICES ASSUME a = <<>> PROVE s = <<>>
    OBVIOUS
  <2>1. Len(s) = 0
    BY <1>1, <1>3
  <2> QED BY <2>1, EmptySeq
<1>8. Slice(s, 0) = a
  BY DEF Slice, a, n
<1> QED BY <1>4, <1>6, <1>7, <1>8 DEF b

LEMMA NewLoopType ==
  ASSUME body \in [Emails -> Bodies], NEW kind \in LoopKinds
  PROVE  NewLoop(kind) \in LoopType
<1>1. <<>> \in Seq(Emails)
  BY EmptySeq
<1> QED BY <1>1 DEF NewLoop, LoopType, Missing

LEMMA BfInitType == BfInit => BfTypeOK
<1> SUFFICES ASSUME BfInit PROVE loop \in LoopType
  BY DEF BfInit, BfTypeOK, LoopType
<1>1. body \in [Emails -> Bodies]
  BY DEF BfInit
<1>2. CASE loop \in {NewLoop(kind) : kind \in {"paged", "range", "clean"}}
  BY <1>1, <1>2, NewLoopType DEF LoopKinds
<1>3. ASSUME NEW S \in SUBSET Emails, NEW s \in Rowed(S), NEW l,
             l = [NewLoop("loaded") EXCEPT !.rest = s]
      PROVE  l \in LoopType /\ [l EXCEPT !.wanted = S] \in LoopType
  <2>1. NewLoop("loaded") \in LoopType /\ s \in Seq(Emails)
    BY <1>1, <1>3, NewLoopType, RowedType DEF LoopKinds
  <2> QED BY <1>3, <2>1 DEF LoopType
<1>4. \A S \in SUBSET Emails : \A s \in Rowed(S) :
        /\ [NewLoop("loaded") EXCEPT !.rest = s] \in LoopType
        /\ [NewLoop("loaded") EXCEPT !.rest = s, !.wanted = S] \in LoopType
  BY <1>3
<1>5. Missing \in SUBSET Emails /\ Stored \in SUBSET Emails
  BY DEF Missing, Stored
<1>6. CASE \E s \in ById(Missing) : loop = [NewLoop("loaded") EXCEPT !.rest = s]
  <2>1. PICK s \in Rowed(Missing) : loop = [NewLoop("loaded") EXCEPT !.rest = s]
    BY <1>6 DEF ById
  <2> QED BY <1>4, <1>5, <2>1
<1>7. CASE \E S \in SUBSET Stored : \E s \in Rowed(S) :
             loop = [NewLoop("loaded") EXCEPT !.rest = s, !.wanted = S]
  <2>1. PICK S \in SUBSET Stored :
          \E s \in Rowed(S) : loop = [NewLoop("loaded") EXCEPT !.rest = s, !.wanted = S]
    BY <1>7
  <2>2. S \in SUBSET Emails
    BY <1>5
  <2> QED BY <1>4, <2>1, <2>2
<1> QED BY <1>2, <1>6, <1>7 DEF BfInit

LEMMA TakesType ==
  ASSUME loop \in LoopType, NEW b \in Seq(Emails), Takes(b)
  PROVE  loop' \in LoopType
BY DEF Takes, LoopType

LEMMA QueryType ==
  ASSUME BfTypeOK, Query
  PROVE  BfTypeOK'
<1>1. loop \in LoopType /\ body' = body /\ body \in [Emails -> Bodies] /\ loop.offset \in Nat
      /\ loop.rest \in Seq(Emails)
  BY DEF BfTypeOK, LoopType, Query
<1>2. Missing \in SUBSET Emails /\ Stored \in SUBSET Emails
  BY DEF Missing, Stored
<1>3. CASE QueryLoaded
  <2>1. Slice(loop.rest, 0) \in Seq(Emails) /\ SubSeq(loop.rest, Batch + 1, Len(loop.rest)) \in Seq(Emails)
    BY <1>1, SliceType, SliceSplits
  <2>2. loop' \in LoopType
    BY <1>1, <1>3, <2>1 DEF QueryLoaded, LoopType
  <2> QED BY <1>1, <2>2 DEF BfTypeOK, LoopType
<1>4. ASSUME NEW S \in SUBSET Emails, NEW s \in Rowed(S), NEW n \in Nat
      PROVE  Slice(s, n) \in Seq(Emails)
  BY RowedType, SliceType
<1>5. CASE QueryPaged
  <2>1. PICK s \in Rowed(Missing) : Takes(Slice(s, 0))
    BY <1>5 DEF QueryPaged, FirstPage, ById
  <2>2. loop' \in LoopType
    BY <1>1, <1>2, <1>4, <2>1, TakesType
  <2> QED BY <1>1, <2>2 DEF BfTypeOK, LoopType
<1>6. CASE QueryRange
  <2>1. PICK s \in Rowed(Missing) : Takes(Slice(s, loop.offset))
    BY <1>6 DEF QueryRange
  <2>2. loop' \in LoopType
    BY <1>1, <1>2, <1>4, <2>1, TakesType
  <2> QED BY <1>1, <2>2 DEF BfTypeOK, LoopType
<1>7. CASE QueryClean
  <2>1. PICK s \in Rowed(Stored) : Takes(<<>>) \/ Takes(Slice(s, loop.offset))
    BY <1>7 DEF QueryClean
  <2>2. <<>> \in Seq(Emails)
    BY EmptySeq
  <2>3. loop' \in LoopType
    BY <1>1, <1>2, <1>4, <2>1, <2>2, TakesType
  <2> QED BY <1>1, <2>3 DEF BfTypeOK, LoopType
<1> QED BY <1>3, <1>5, <1>6, <1>7 DEF Query

LEMMA FetchBodyType ==
  ASSUME BfTypeOK, FetchBody
  PROVE  BfTypeOK'
<1>1. loop \in LoopType /\ body' = body /\ body \in [Emails -> Bodies] /\ loop.batch \in Seq(Emails)
      /\ loop.batch # <<>>
  BY DEF BfTypeOK, LoopType, FetchBody
<1>2. PICK e \in Emails : e = Head(loop.batch)
  BY <1>1, TailMembers
<1> DEFINE next  == [loop EXCEPT !.batch = Tail(@)]
           asked == [next EXCEPT !.tried = @ \cup {e}]
<1>3. next \in LoopType
  <2>1. Tail(loop.batch) \in Seq(Emails)
    BY <1>1, TailMembers
  <2> QED BY <1>1, <2>1 DEF LoopType
<1>4. asked \in LoopType
  <2> HIDE DEF next
  <2> QED BY <1>3 DEF LoopType
<1>5. [asked EXCEPT !.fresh = @ \cup {e}, !.got = @ \cup {e}] \in LoopType
  <2> HIDE DEF asked
  <2> QED BY <1>4 DEF LoopType
<1>6. \/ loop' = next \/ loop' = asked
      \/ loop' = [asked EXCEPT !.fresh = @ \cup {e}, !.got = @ \cup {e}]
  BY <1>2 DEF FetchBody
<1> HIDE DEF next, asked
<1>7. loop' \in LoopType
  BY <1>3, <1>4, <1>5, <1>6
<1> QED BY <1>1, <1>7 DEF BfTypeOK, LoopType

LEMMA BfStepType == BfTypeOK /\ [BfNext]_bfVars => BfTypeOK'
<1> SUFFICES ASSUME BfTypeOK, [BfNext]_bfVars PROVE BfTypeOK'
  OBVIOUS
<1>1. loop \in LoopType /\ body \in [Emails -> Bodies]
  BY DEF BfTypeOK, LoopType
<1>2. CASE UNCHANGED bfVars
  BY <1>2 DEF BfTypeOK, bfVars
<1>3. CASE Commit
  <2>1. body' \in [Emails -> Bodies]
    BY <1>1, <1>3 DEF Commit, Bodies
  <2>2. loop.offset + Batch \in Nat
    BY <1>1, BackfillAssumption DEF LoopType
  <2>3. loop' \in LoopType
    BY <1>1, <1>3, <2>2 DEF Commit, LoopType
  <2> QED BY <2>1, <2>3 DEF BfTypeOK, LoopType
<1>4. CASE Fail
  <2>1. loop' \in LoopType /\ body' = body
    BY <1>1, <1>4 DEF Fail, LoopType
  <2> QED BY <1>1, <2>1 DEF BfTypeOK, LoopType
<1>5. ASSUME NEW e \in Emails, Arrive(e) PROVE BfTypeOK'
  <2>1. body' \in [Emails -> Bodies] /\ loop' = loop
    BY <1>1, <1>5 DEF Arrive, Bodies
  <2> QED BY <1>1, <2>1 DEF BfTypeOK, LoopType
<1> QED BY <1>2, <1>3, <1>4, <1>5, QueryType, FetchBodyType DEF BfNext, LoopStep

(* The loops always have their type.                                        *)
THEOREM BfTypeCorrect == BfSpec => []BfTypeOK
BY BfInitType, BfStepType, PTL DEF BfSpec

-----------------------------------------------------------------------------
(* The backfill loops: what is still to do is in the hand of the loop, or   *)
(* still missing; what came in is stored or waits for the commit.           *)
ToDo ==
  /\ (loop.kind = "loaded" /\ loop.pc \in {"query", "each"})
       => loop.wanted \subseteq loop.tried \cup ToSet(loop.batch) \cup ToSet(loop.rest)
  /\ (loop.kind = "loaded" /\ loop.pc = "done") => loop.wanted \subseteq loop.tried
  /\ (loop.kind = "paged" /\ loop.pc # "failed") => loop.wanted \subseteq loop.tried \cup Missing
  /\ (loop.kind = "paged" /\ loop.pc = "done") => loop.stuck \/ loop.wanted \subseteq loop.tried
  /\ loop.pc = "query" => loop.batch = <<>>

Arrived ==
  /\ loop.fresh \subseteq loop.tried
  /\ loop.pc # "each" => loop.fresh = {}
  /\ loop.pc # "failed" => \A e \in loop.got : e \in loop.fresh \/ body[e] = "clean"

BfInv == BfTypeOK /\ ToDo /\ Arrived

LEMMA BfInitInv == BfInit => BfInv
<1> SUFFICES ASSUME BfInit PROVE ToDo /\ Arrived
  BY BfInitType DEF BfInv
<1>1. CASE loop \in {NewLoop(kind) : kind \in {"paged", "range", "clean"}}
  BY <1>1 DEF NewLoop, ToDo, Arrived
<1>2. CASE \E s \in ById(Missing) : loop = [NewLoop("loaded") EXCEPT !.rest = s]
  <2>1. PICK s \in Rowed(Missing) : loop = [NewLoop("loaded") EXCEPT !.rest = s]
    BY <1>2 DEF ById
  <2>2. ToSet(s) = Missing
    BY <2>1 DEF Rowed
  <2> QED BY <2>1, <2>2 DEF NewLoop, ToDo, Arrived
<1>3. CASE \E S \in SUBSET Stored : \E s \in Rowed(S) :
             loop = [NewLoop("loaded") EXCEPT !.rest = s, !.wanted = S]
  <2>1. PICK S \in SUBSET Stored :
          \E s \in Rowed(S) : loop = [NewLoop("loaded") EXCEPT !.rest = s, !.wanted = S]
    BY <1>3
  <2>2. PICK s \in Rowed(S) : loop = [NewLoop("loaded") EXCEPT !.rest = s, !.wanted = S]
    BY <2>1
  <2>3. ToSet(s) = S
    BY <2>2 DEF Rowed
  <2> QED BY <2>2, <2>3 DEF NewLoop, ToDo, Arrived
<1> QED BY <1>1, <1>2, <1>3 DEF BfInit

LEMMA QueryInv ==
  ASSUME BfInv, Query
  PROVE  ToDo' /\ Arrived'
<1> USE DEF BfInv
<1>1. loop \in LoopType /\ body' = body /\ loop.pc = "query" /\ loop.batch = <<>>
      /\ loop.rest \in Seq(Emails) /\ Missing' = Missing
  BY DEF BfTypeOK, LoopType, Query, ToDo, Missing
<1>2. ASSUME NEW b, Takes(b)
      PROVE  /\ loop'.kind = loop.kind /\ loop'.wanted = loop.wanted /\ loop'.rest = loop.rest
             /\ loop'.fresh = loop.fresh /\ loop'.tried = loop.tried /\ loop'.got = loop.got
             /\ loop'.batch = b /\ loop'.pc = IF b = <<>> THEN "done" ELSE "each"
  BY <1>1, <1>2 DEF Takes, LoopType
<1>3. CASE QueryLoaded
  <2>1. /\ loop'.kind = loop.kind /\ loop'.wanted = loop.wanted /\ loop'.fresh = loop.fresh
        /\ loop'.tried = loop.tried /\ loop'.got = loop.got
        /\ loop'.batch = Slice(loop.rest, 0)
        /\ loop'.rest = SubSeq(loop.rest, Batch + 1, Len(loop.rest))
        /\ loop'.pc = IF loop.rest = <<>> THEN "done" ELSE "each"
        /\ loop.kind = "loaded"
    BY <1>1, <1>3 DEF QueryLoaded, LoopType
  <2>2. ToSet(loop.rest) \subseteq ToSet(loop'.batch) \cup ToSet(loop'.rest)
    BY <1>1, <2>1, SliceSplits
  <2>3. ToSet(<<>>) = {}
    BY DEF ToSet
  <2>4. loop.wanted \subseteq loop.tried \cup ToSet(loop.rest)
    BY <1>1, <2>1, <2>3 DEF ToDo
  <2> QED BY <1>1, <2>1, <2>2, <2>3, <2>4 DEF ToDo, Arrived
<1>4. CASE QueryPaged
  <2>1. PICK s \in Rowed(Missing) : Takes(Slice(s, 0))
    BY <1>4 DEF QueryPaged, FirstPage, ById
  <2>2. s \in Seq(Emails) /\ ToSet(s) = Missing
    <3>1. Missing \in SUBSET Emails
      BY DEF Missing
    <3> QED BY <2>1, <3>1, RowedType
  <2>3. Slice(s, 0) = <<>> => Missing = {}
    <3>1. ToSet(<<>>) = {}
      BY DEF ToSet
    <3> QED BY <2>2, <3>1, SliceSplits
  <2>4. loop.kind = "paged" /\ loop.wanted \subseteq loop.tried \cup Missing
    BY <1>1, <1>4 DEF QueryPaged, ToDo
  <2> QED BY <1>1, <1>2, <2>1, <2>3, <2>4 DEF ToDo, Arrived
<1>5. CASE QueryRange \/ QueryClean
  <2>1. PICK b : Takes(b)
    BY <1>5 DEF QueryRange, QueryClean
  <2>2. loop.kind \notin {"loaded", "paged"}
    BY <1>5 DEF QueryRange, QueryClean
  <2> QED BY <1>1, <1>2, <2>1, <2>2 DEF ToDo, Arrived
<1> QED BY <1>3, <1>4, <1>5 DEF Query

LEMMA FetchBodyInv ==
  ASSUME BfInv, FetchBody
  PROVE  ToDo' /\ Arrived'
<1> USE DEF BfInv
<1>1. loop \in LoopType /\ body' = body /\ Missing' = Missing /\ loop.pc = "each"
      /\ loop.batch \in Seq(Emails) /\ loop.batch # <<>>
  BY DEF BfTypeOK, LoopType, FetchBody, Missing
<1>2. PICK e \in Emails : e = Head(loop.batch)
  BY <1>1, TailMembers
<1>3. /\ loop'.kind = loop.kind /\ loop'.wanted = loop.wanted /\ loop'.rest = loop.rest
      /\ loop'.pc = loop.pc /\ loop'.batch = Tail(loop.batch) /\ loop'.stuck = loop.stuck
      /\ \/ /\ loop.kind = "clean"
            /\ loop'.tried = loop.tried /\ loop'.fresh = loop.fresh /\ loop'.got = loop.got
         \/ /\ loop'.tried = loop.tried \cup {e}
            /\ loop'.fresh = loop.fresh \cup {e} /\ loop'.got = loop.got \cup {e}
         \/ /\ loop'.tried = loop.tried \cup {e}
            /\ loop'.fresh = loop.fresh /\ loop'.got = loop.got
  BY <1>1, <1>2 DEF FetchBody, LoopType
<1>4. ToSet(loop.batch) \subseteq ToSet(Tail(loop.batch)) \cup {e}
  BY <1>1, <1>2, TailMembers
<1>5. ToDo'
  BY <1>1, <1>3, <1>4 DEF ToDo
<1>6. Arrived'
  BY <1>1, <1>3 DEF Arrived
<1> QED BY <1>5, <1>6

LEMMA CommitInv ==
  ASSUME BfInv, Commit
  PROVE  ToDo' /\ Arrived'
<1> USE DEF BfInv
<1>1. loop \in LoopType /\ loop.pc = "each" /\ loop.batch = <<>> /\ body \in [Emails -> Bodies]
  BY DEF BfTypeOK, LoopType, Commit
<1>2. /\ loop'.kind = loop.kind /\ loop'.wanted = loop.wanted /\ loop'.rest = loop.rest
      /\ loop'.batch = loop.batch /\ loop'.tried = loop.tried /\ loop'.got = loop.got
      /\ loop'.fresh = {} /\ loop'.stuck = (loop.fresh = {})
      /\ loop'.pc = IF GoesOn(loop.fresh # {}) THEN "query" ELSE "done"
  BY <1>1 DEF Commit, LoopType
<1>3. \A e \in Emails : body'[e] = IF e \in loop.fresh THEN "clean" ELSE body[e]
  BY DEF Commit
<1>4. Missing \subseteq Missing' \cup loop.tried
  BY <1>3 DEF Missing, Arrived
<1>5. ToDo'
  BY <1>1, <1>2, <1>4 DEF ToDo, GoesOn
<1>6. Arrived'
  <2>1. loop.got \subseteq Emails
    BY <1>1 DEF LoopType
  <2> QED BY <1>1, <1>2, <1>3, <2>1 DEF Arrived
<1> QED BY <1>5, <1>6

LEMMA BfStepInv == BfInv /\ [BfNext]_bfVars => BfInv'
<1> SUFFICES ASSUME BfInv, [BfNext]_bfVars PROVE ToDo' /\ Arrived'
  BY BfStepType DEF BfInv
<1>1. loop \in LoopType /\ body \in [Emails -> Bodies] /\ ToDo /\ Arrived
  BY DEF BfInv, BfTypeOK, LoopType
<1>2. CASE UNCHANGED bfVars
  BY <1>1, <1>2 DEF bfVars, ToDo, Arrived, Missing
<1>3. CASE Fail
  <2>1. loop'.pc = "failed" /\ loop'.fresh = {} /\ loop'.tried = loop.tried
        /\ loop'.kind = loop.kind
    BY <1>1, <1>3 DEF Fail, LoopType
  <2> QED BY <2>1 DEF ToDo, Arrived
<1>4. ASSUME NEW e \in Emails, Arrive(e) PROVE ToDo' /\ Arrived'
  <2>1. /\ loop' = loop /\ body[e] = "absent"
        /\ \A x \in Emails \ {e} : body'[x] = body[x]
    BY <1>1, <1>4 DEF Arrive
  <2>2. Missing \subseteq Missing'
    BY <2>1 DEF Missing
  <2>3. loop.got \subseteq Emails
    BY <1>1 DEF LoopType
  <2>4. ToDo'
    BY <1>1, <2>1, <2>2 DEF ToDo
  <2>5. Arrived'
    BY <1>1, <2>1, <2>3 DEF Arrived
  <2> QED BY <2>4, <2>5
<1> QED BY <1>2, <1>3, <1>4, QueryInv, FetchBodyInv, CommitInv DEF BfNext, LoopStep

(* Any backfill that ends well (backfill-bodies, backfill-attachments: the  *)
(* loaded list; backfill-bodies-sync: the paged one) has asked for all the  *)
(* emails it was to fill, or stopped after a batch without an update, and   *)
(* has stored every body that it got, for any emails and batch size.        *)
THEOREM BackfillsComplete == BfSpec => []BackfillComplete
<1>1. BfInv => BackfillComplete
  BY DEF BfInv, ToDo, Arrived, BackfillComplete
<1> QED BY <1>1, BfInitInv, BfStepInv, PTL DEF BfSpec

-----------------------------------------------------------------------------
(* All of the background work, one part at a time.                          *)
LEMMA NoWorkType ==
  ASSUME NoWork
  PROVE  BfInv
<1>1. body = [e \in Emails |-> "absent"] /\ loop = [NewLoop("paged") EXCEPT !.pc = "done"]
  BY DEF NoWork
<1>2. NewLoop("paged") \in LoopType
  BY <1>1, NewLoopType DEF LoopKinds, Bodies
<1>3. Missing = {}
  BY <1>1 DEF Missing
<1>4. BfTypeOK
  BY <1>1, <1>2 DEF BfTypeOK, LoopType, Bodies
<1>5. loop.kind = "paged" /\ loop.wanted = {} /\ loop.fresh = {} /\ loop.got = {} /\ loop.pc = "done"
  BY <1>1, <1>3 DEF NewLoop
<1> QED BY <1>4, <1>5 DEF BfInv, ToDo, Arrived

AllParts == MqTypeInv /\ MqPlaces /\ OneTaskPerKey /\ ExInv /\ BfInv

(* The type of the whole, and the three promises together, as the run       *)
(* checks them.                                                             *)
THEOREM BackgroundCorrect ==
  BackgroundSpec => [](BackgroundTypeOK /\ OneTaskPerKey /\ ExportFaithful /\ BackfillComplete)
<1>1. BackgroundInit => AllParts
  <2>1. MqInit => OneTaskPerKey
    BY DEF MqInit, OneTaskPerKey, NewTask
  <2> QED BY <2>1, MqInitType, MqInitPlaces, ExInitInv, BfInitInv, NoWorkType
          DEF BackgroundInit, AllParts
<1>2. AllParts /\ [BackgroundNext]_<<mqVars, exVars, bfVars, part>> => AllParts'
  <2>1. [BackgroundNext]_<<mqVars, exVars, bfVars, part>>
          => [MqNext]_mqVars /\ [ExNext]_exVars /\ [BfNext]_bfVars
    BY DEF BackgroundNext
  <2> QED BY <2>1, MqStepType, MqStepPlaces, MqStepKey, ExStepInv, BfStepInv DEF AllParts
<1>3. AllParts => BackgroundTypeOK /\ OneTaskPerKey /\ ExportFaithful /\ BackfillComplete
  BY ExInvFaithful DEF AllParts, BackgroundTypeOK, MqTypeInv, ExInv, BfInv,
                       ToDo, Arrived, BackfillComplete
<1> QED BY <1>1, <1>2, <1>3, PTL DEF BackgroundSpec
=============================================================================
