--------------------------- MODULE Reading_proofs ---------------------------
(***************************************************************************)
(* Proofs about what users teach and plan: aliases of merchants, rules and *)
(* filters of a sender domain, lists whose requests check what they read.  *)
(* For any users, requests, rows and overlaps of them.                     *)
(***************************************************************************)
EXTENDS MCReading, FiniteLemmas

-----------------------------------------------------------------------------
(* Aliases.  Each is in the cache, or will be: a load has yet to run its    *)
(* query, or has read it and has yet to fill.  (A load that clears what     *)
(* another one filled has its own query before it.)                         *)
Loads == [pc   : {"idle", "insert", "clear", "select", "fill"},
          ask  : Aliases \cup {Nothing},
          read : SUBSET Aliases]
Cached(a) ==
  \/ unloaded
  \/ Lower[a.name] \in DOMAIN cache
  \/ \E j \in Loaders : \/ job[j].pc \in {"clear", "select"}
                        \/ job[j].pc = "fill" /\ a \in job[j].read
MrInv ==
  /\ alias \subseteq Aliases /\ Distinct(alias) /\ unloaded \in BOOLEAN
  /\ job \in [Loaders -> Loads]
  /\ \A j \in Loaders : job[j].pc = "insert" => job[j].ask \in Aliases
  /\ \A n \in DOMAIN cache : \E a \in Aliases : Lower[a.name] = n /\ a.canonical = cache[n]
  /\ \A a \in alias : Cached(a)

LEMMA MrInitInv == MrInit => MrInv
<1> SUFFICES ASSUME MrInit PROVE MrInv
  OBVIOUS
<1>1. /\ alias \subseteq Aliases /\ Distinct(alias) /\ unloaded \in BOOLEAN /\ DOMAIN cache = {}
      /\ job = [j \in Loaders |-> IF j = Startup /\ ~unloaded
                                    THEN [NoJob EXCEPT !.pc = "clear"] ELSE NoJob]
  BY DEF MrInit, Empty
<1>2. /\ NoJob \in Loads /\ NoJob.pc = "idle"
      /\ [NoJob EXCEPT !.pc = "clear"] \in Loads /\ [NoJob EXCEPT !.pc = "clear"].pc = "clear"
  BY DEF NoJob, Loads
<1>3. \A j \in Loaders : job[j].pc # "insert"
  BY <1>1, <1>2
<1>4. Startup \in Loaders
  BY DEF Loaders
<1>5. \A a \in alias : Cached(a)
  BY <1>1, <1>2, <1>4 DEF Cached
<1> QED BY <1>1, <1>2, <1>3, <1>5 DEF MrInv

(* A request or load moves on, keeping what the others have.                *)
LEMMA MoveInv ==
  ASSUME MrInv, NEW i \in Loaders, NEW q \in Loads,
         job' = [job EXCEPT ![i] = q], UNCHANGED cache,
         q.pc = "insert" => q.ask \in Aliases,
         alias' \subseteq Aliases, Distinct(alias'), unloaded' \in BOOLEAN,
         unloaded => unloaded',
         \A a \in alias' : \/ unloaded'
                           \/ q.pc \in {"clear", "select"}
                           \/ q.pc = "fill" /\ a \in q.read
                           \/ job[i].pc \in {"idle", "insert"} /\ a \in alias
  PROVE  MrInv'
<1>1. /\ job' \in [Loaders -> Loads] /\ job'[i] = q
      /\ \A j \in Loaders : j # i => job'[j] = job[j]
  BY DEF MrInv
<1>2. \A j \in Loaders : job'[j].pc = "insert" => job'[j].ask \in Aliases
  BY <1>1 DEF MrInv
<1>3. ASSUME NEW a \in alias' PROVE Cached(a)'
  <2>1. CASE \/ unloaded'
             \/ q.pc \in {"clear", "select"}
             \/ q.pc = "fill" /\ a \in q.read
    BY <1>1, <2>1 DEF Cached
  <2>2. CASE job[i].pc \in {"idle", "insert"} /\ a \in alias
    <3>1. Cached(a)
      BY <2>2 DEF MrInv
    <3> QED BY <1>1, <2>2, <3>1 DEF Cached
  <2> QED BY <2>1, <2>2
<1> QED BY <1>1, <1>2, <1>3 DEF MrInv

LEMMA MrStepInv == MrInv /\ [MrNext]_mrVars => MrInv'
<1> SUFFICES ASSUME MrInv, [MrNext]_mrVars PROVE MrInv'
  OBVIOUS
<1>1. /\ job \in [Loaders -> Loads] /\ NoJob \in Loads /\ NoJob.pc = "idle"
      /\ alias \subseteq Aliases /\ Distinct(alias) /\ unloaded \in BOOLEAN
      /\ Creators \subseteq Loaders
  BY DEF MrInv, NoJob, Loads, Loaders
<1>2. ASSUME NEW r \in Creators, CreateAlias(r) PROVE MrInv'
  <2>1. PICK a \in Aliases : job' = [job EXCEPT ![r] = [NoJob EXCEPT !.pc = "insert", !.ask = a]]
    BY <1>2 DEF CreateAlias
  <2>2. job[r].pc = "idle" /\ UNCHANGED <<alias, cache, unloaded>>
    BY <1>2 DEF CreateAlias
  <2> DEFINE q == [NoJob EXCEPT !.pc = "insert", !.ask = a]
  <2>3. q \in Loads /\ q.ask \in Aliases
    BY DEF NoJob, Loads
  <2> HIDE DEF q
  <2>4. job' = [job EXCEPT ![r] = q]
    BY <2>1 DEF q
  <2> QED BY <1>1, <2>2, <2>3, <2>4, MoveInv
<1>3. ASSUME NEW r \in Creators, InsertAlias(r) PROVE MrInv'
  <2>1. /\ job[r].pc = "insert" /\ job[r].ask \in Aliases /\ UNCHANGED <<cache, unloaded>>
        /\ r \in Loaders
    BY <1>1, <1>3 DEF InsertAlias, MrInv
  <2>2. CASE Goes(r, "idle") /\ UNCHANGED alias
    <3> DEFINE q == [job[r] EXCEPT !.pc = "idle"]
    <3>1. q \in Loads /\ q.pc = "idle" /\ job' = [job EXCEPT ![r] = q]
      BY <1>1, <2>1, <2>2 DEF Goes, Loads
    <3> HIDE DEF q
    <3> QED BY <1>1, <2>1, <2>2, <3>1, MoveInv
  <2>3. CASE /\ ~Taken(job[r].ask) /\ Goes(r, "clear") /\ alias' = alias \cup {job[r].ask}
    <3> DEFINE q == [job[r] EXCEPT !.pc = "clear"]
    <3>1. q \in Loads /\ q.pc = "clear" /\ job' = [job EXCEPT ![r] = q]
      BY <1>1, <2>1, <2>3 DEF Goes, Loads
    <3>2. Distinct(alias') /\ alias' \subseteq Aliases
      BY <1>1, <2>1, <2>3 DEF Distinct, Taken
    <3> HIDE DEF q
    <3> QED BY <1>1, <2>1, <2>3, <3>1, <3>2, MoveInv
  <2> QED BY <1>3, <2>2, <2>3 DEF InsertAlias
<1>4. ASSUME NEW j \in Loaders, Clear(j) PROVE MrInv'
  <2> DEFINE q == [job[j] EXCEPT !.pc = "select"]
  <2>1. /\ q \in Loads /\ q.pc = "select" /\ job' = [job EXCEPT ![j] = q]
        /\ DOMAIN cache' = {} /\ UNCHANGED <<alias, unloaded>>
    BY <1>1, <1>4 DEF Clear, Goes, Empty, Loads
  <2> HIDE DEF q
  <2>2. job' \in [Loaders -> Loads] /\ job'[j] = q /\ \A i \in Loaders : i # j => job'[i] = job[i]
    BY <1>1, <2>1
  <2>3. \A a \in alias' : Cached(a)'
    BY <2>1, <2>2 DEF Cached
  <2>4. \A i \in Loaders : job'[i].pc = "insert" => job'[i].ask \in Aliases
    BY <2>1, <2>2 DEF MrInv
  <2> QED BY <1>1, <2>1, <2>2, <2>3, <2>4 DEF MrInv
<1>5. ASSUME NEW j \in Loaders, Select(j) PROVE MrInv'
  <2> DEFINE q == [job[j] EXCEPT !.pc = "fill", !.read = alias]
  <2>1. job[j] \in Loads
    BY <1>1
  <2>2. /\ q \in Loads /\ q.pc = "fill" /\ q.read = alias
        /\ UNCHANGED <<alias, cache, unloaded>>
    BY <1>1, <1>5, <2>1 DEF Select, Loads
  <2>3. job' = [job EXCEPT ![j] = q]
    BY <1>1, <1>5, <2>1 DEF Select, Loads
  <2> HIDE DEF q
  <2> QED BY <1>1, <2>2, <2>3, MoveInv
<1>6. ASSUME NEW j \in Loaders, LoadFails(j) PROVE MrInv'
  BY <1>1, <1>6, MoveInv DEF LoadFails
<1>7. ASSUME NEW j \in Loaders, FillCache(j) PROVE MrInv'
  <2> DEFINE keys == {Lower[a.name] : a \in job[j].read}
  <2>1. PICK new \in [keys -> {a.canonical : a \in job[j].read}] :
          /\ \A n \in keys : \E a \in job[j].read : Lower[a.name] = n /\ a.canonical = new[n]
          /\ cache' = Added(new)
    BY <1>7 DEF FillCache
  <2>2. job' = [job EXCEPT ![j] = NoJob] /\ job[j].pc = "fill" /\ UNCHANGED <<alias, unloaded>>
    BY <1>7 DEF FillCache
  <2>3. /\ DOMAIN cache' = DOMAIN cache \cup keys
        /\ \A n \in DOMAIN cache' : cache'[n] = IF n \in keys THEN new[n] ELSE cache[n]
    BY <2>1 DEF Added
  <2>4. job[j].read \subseteq Aliases
    BY <1>1 DEF Loads
  <2>5. \A n \in DOMAIN cache' : \E a \in Aliases : Lower[a.name] = n /\ a.canonical = cache'[n]
    BY <2>1, <2>3, <2>4 DEF MrInv
  <2>6. job' \in [Loaders -> Loads] /\ job'[j] = NoJob /\ \A i \in Loaders : i # j => job'[i] = job[i]
    BY <1>1, <2>2
  <2>7. ASSUME NEW a \in alias PROVE Cached(a)'
    <3>1. Cached(a)
      BY DEF MrInv
    <3>2. CASE a \in job[j].read
      BY <2>3, <3>2 DEF Cached
    <3>3. CASE a \notin job[j].read
      BY <2>2, <2>3, <2>6, <3>1, <3>3 DEF Cached
    <3> QED BY <3>2, <3>3
  <2>8. \A i \in Loaders : job'[i].pc = "insert" => job'[i].ask \in Aliases
    BY <1>1, <2>6 DEF MrInv
  <2> QED BY <1>1, <2>2, <2>5, <2>6, <2>7, <2>8 DEF MrInv
<1>8. CASE UNCHANGED mrVars
  BY <1>8 DEF mrVars, MrInv, Cached
<1> QED BY <1>2, <1>3, <1>4, <1>5, <1>6, <1>7, <1>8 DEF MrNext, LoadStep

LEMMA MrInvGives == MrInv => MrTypeOK /\ AliasesResolve
<1> SUFFICES ASSUME MrInv PROVE MrTypeOK /\ AliasesResolve
  OBVIOUS
<1>1. MrTypeOK
  BY DEF MrInv, MrTypeOK, Loads
<1>2. ASSUME ~Loading, ~unloaded, NEW a \in alias, Clean[a.name] = Lower[a.name]
      PROVE  Resolve(a.name).method \in {"exact_seed", "exact_db"}
  <2>1. Lower[a.name] \in DOMAIN cache
    BY <1>2 DEF MrInv, Cached, Loading
  <2> QED BY <1>2, <2>1 DEF Resolve
<1> QED BY <1>1, <1>2 DEF AliasesResolve

(* A name that is an alias resolves by a seed or by the aliases once no     *)
(* load is under way and none failed, however creations and the loads they  *)
(* and the startup run overlap (classifier/merchant_entity.py).             *)
THEOREM AliasesFound == MrSpec => [](MrTypeOK /\ AliasesResolve)
BY MrInitInv, MrStepInv, MrInvGives, PTL DEF MrSpec

-----------------------------------------------------------------------------
(* The filter's lists.  In calm there is one request at most; it is about   *)
(* mails whose state it still knows, and its row is what it has read.       *)
States == {"absent", "review_pending", "passed", "discarded"}
ReviewOps == {"keep", "discard", "undo"}
Reviews == [op    : ReviewOps \cup {"create", "refine", "delete"},
            mails : SUBSET Inbox,
            seen  : [Inbox -> States],
            list  : Rows,
            read  : {n \in Int : n >= Missing},
            gone  : BOOLEAN]
FlTyped ==
  /\ state \in [Inbox -> States] /\ stored \subseteq Inbox
  /\ row \in [Rows -> {n \in Int : n >= Missing}]
  /\ review \in [Reviewers -> Reviews \cup {NoReview}]
  /\ reviews \in 0 .. MaxReviews /\ calm \in BOOLEAN

Current(a) ==
  /\ a.read = row[a.list] /\ ~a.gone
  /\ \A e \in a.mails : a.seen[e] = state[e]
  /\ \/ /\ a.op \in {"keep", "discard"} /\ a.list = ListOf(a.op) /\ a.mails # {}
        /\ \A e \in a.mails : state[e] = "review_pending"
     \/ /\ a.op = "undo"
        /\ \E e \in Inbox : /\ a.mails = {e}
                            /\ \/ state[e] = "passed" /\ a.list = "allow"
                               \/ state[e] = "discarded" /\ a.list = "block"
OneCurrent == calm =>
  \A r \in Reviewers : review[r] # NoReview =>
    Current(review[r]) /\ \A v \in Reviewers : v # r => review[v] = NoReview
FlInv == FlTyped /\ OneCurrent /\ FiltersFollow

LEMMA InStateFinite ==
  ASSUME NEW status
  PROVE  IsFiniteSet(InState(status)) /\ Cardinality(InState(status)) \in Nat
BY FiltersAssumption, FS_Subset, FS_CardinalityType DEF InState

LEMMA FlInitInv == FlInit => FlInv
<1> SUFFICES ASSUME FlInit PROVE FlInv
  OBVIOUS
<1>1. /\ state = [e \in Inbox |-> "absent"] /\ stored = {} /\ row = [x \in Rows |-> Missing]
      /\ review = [r \in Reviewers |-> NoReview] /\ reviews = 0 /\ calm = TRUE
  BY DEF FlInit
<1>2. FlTyped
  BY <1>1, FiltersAssumption DEF FlTyped, States, Missing
<1>3. OneCurrent
  BY <1>1 DEF OneCurrent
<1>4. InState("passed") = {} /\ InState("discarded") = {}
  BY <1>1 DEF InState
<1>5. FiltersFollow
  BY <1>1, <1>4, FS_EmptySet DEF FiltersFollow, Counted, Rows
<1> QED BY <1>2, <1>3, <1>5 DEF FlInv

LEMMA ArriveInv ==
  ASSUME FlInv, NEW e \in Inbox, Arrive(e)
  PROVE  FlInv'
<1>1. PICK w \in Words : \E d \in Evaluate(w) :
        /\ state' = [state EXCEPT ![e] = StatusOf(d)]
        /\ stored' = IF d = "pass" THEN stored \cup {e} ELSE stored
        /\ calm' = (calm /\ d = "review")
  BY DEF Arrive
<1>2. PICK d \in Evaluate(w) :
        /\ state' = [state EXCEPT ![e] = StatusOf(d)]
        /\ stored' = IF d = "pass" THEN stored \cup {e} ELSE stored
        /\ calm' = (calm /\ d = "review")
  BY <1>1
<1>3. state[e] = "absent" /\ UNCHANGED <<row, review, reviews>>
  BY DEF Arrive
<1>4. StatusOf(d) \in States /\ (d = "review" => StatusOf(d) = "review_pending")
  BY DEF StatusOf, States
<1>5. /\ state \in [Inbox -> States] /\ calm \in BOOLEAN
      /\ state' \in [Inbox -> States]
      /\ state'[e] = StatusOf(d) /\ \A m \in Inbox : m # e => state'[m] = state[m]
  BY <1>2, <1>4 DEF FlInv, FlTyped
<1>6. FlTyped'
  BY <1>2, <1>3, <1>5 DEF FlInv, FlTyped
<1>7. ASSUME calm' PROVE calm /\ d = "review" /\ stored' = stored /\ state'[e] = "review_pending"
  BY <1>2, <1>4, <1>5, <1>7
<1>8. FiltersFollow'
  <2> SUFFICES ASSUME calm' PROVE FiltersFollow'
    BY DEF FiltersFollow
  <2>1. \A status \in {"passed", "discarded"} : InState(status)' = InState(status)
    BY <1>3, <1>5, <1>7 DEF InState
  <2> QED BY <1>3, <1>7, <2>1 DEF FlInv, FiltersFollow
<1>9. OneCurrent'
  <2> SUFFICES ASSUME calm', NEW r \in Reviewers, review[r] # NoReview
               PROVE  Current(review[r])' /\ \A v \in Reviewers : v # r => review[v] = NoReview
    BY <1>3 DEF OneCurrent
  <2>1. Current(review[r]) /\ \A v \in Reviewers : v # r => review[v] = NoReview
    BY <1>7 DEF FlInv, OneCurrent
  <2>2. review[r] \in Reviews
    BY DEF FlInv, FlTyped
  <2>3. \A m \in review[r].mails : m # e /\ m \in Inbox
    BY <1>3, <2>1, <2>2 DEF Current, Reviews
  <2>4. Current(review[r])'
    BY <1>3, <1>5, <2>1, <2>3 DEF Current
  <2> QED BY <2>1, <2>4
<1> QED BY <1>6, <1>8, <1>9 DEF FlInv

LEMMA OpensInv ==
  ASSUME FlInv, NEW r \in Reviewers, NEW a, NEW quiet \in BOOLEAN, Opens(r, a, quiet), a \in Reviews,
         quiet => Current(a)
  PROVE  FlInv'
<1>1. /\ review[r] = NoReview /\ reviews < MaxReviews
      /\ review' = [review EXCEPT ![r] = a] /\ reviews' = reviews + 1
      /\ calm' = (calm /\ quiet /\ ~Busy)
      /\ UNCHANGED <<state, stored, row>>
  BY DEF Opens
<1>2. /\ review' \in [Reviewers -> Reviews \cup {NoReview}] /\ review'[r] = a
      /\ \A v \in Reviewers : v # r => review'[v] = review[v]
  BY <1>1 DEF FlInv, FlTyped
<1>3. FlTyped'
  BY <1>1, <1>2, FiltersAssumption DEF FlInv, FlTyped
<1>4. FiltersFollow'
  BY <1>1 DEF FlInv, FlTyped, FiltersFollow, InState
<1>5. OneCurrent'
  <2> SUFFICES ASSUME calm', NEW v \in Reviewers, review'[v] # NoReview
               PROVE  Current(review[v])' /\ \A o \in Reviewers : o # v => review'[o] = NoReview
    BY DEF OneCurrent
  <2>1. quiet /\ \A o \in Reviewers : review[o] = NoReview
    BY <1>1 DEF Busy, FlInv, FlTyped
  <2>2. v = r /\ review'[v] = a
    BY <1>2, <2>1
  <2>3. Current(a)
    BY <2>1
  <2>4. Current(review[v])'
    BY <1>1, <2>2, <2>3 DEF Current
  <2> QED BY <1>2, <2>1, <2>2, <2>4
<1> QED BY <1>3, <1>4, <1>5 DEF FlInv

(* What a request has read.                                                 *)
LEMMA ReadingTyped ==
  ASSUME FlInv, NEW op \in ReviewOps \cup {"create", "refine", "delete"}, NEW es \in SUBSET Inbox,
         NEW l \in Rows
  PROVE  /\ Reading(op, es, l) \in Reviews
         /\ LET a == Reading(op, es, l)
            IN /\ a.op = op /\ a.mails = es /\ a.list = l /\ a.read = row[l] /\ ~a.gone
               /\ a.seen = state
BY DEF Reading, Reviews, FlInv, FlTyped

LEMMA RequestInv ==
  ASSUME FlInv, NEW r \in Reviewers,
         \/ Review(r) \/ StartUndo(r) \/ CreateFilter(r) \/ RefineFilter(r) \/ DeleteFilter(r)
  PROVE  FlInv'
<1>1. ASSUME NEW l \in Rows, NEW op \in {"create", "refine", "delete"},
             Opens(r, Reading(op, {}, l), FALSE)
      PROVE  FlInv'
  BY <1>1, OpensInv, ReadingTyped
<1>2. CASE Review(r)
  <2>1. PICK es \in (SUBSET Inbox) \ {{}}, op \in {"keep", "discard"} :
          Opens(r, Reading(op, es, ListOf(op)), \A e \in es : state[e] = "review_pending")
    BY <1>2 DEF Review
  <2> DEFINE a == Reading(op, es, ListOf(op))
             quiet == \A e \in es : state[e] = "review_pending"
  <2>2. ListOf(op) \in Rows /\ op \in ReviewOps /\ es \in SUBSET Inbox
    BY DEF ListOf, Rows, ReviewOps
  <2>3. /\ a \in Reviews /\ a.op = op /\ a.mails = es /\ a.list = ListOf(op)
        /\ a.read = row[ListOf(op)] /\ ~a.gone /\ a.seen = state
    BY <2>2, ReadingTyped
  <2>4. ASSUME quiet PROVE Current(a)
    <3>1. \A e \in es : state[e] = "review_pending"
      BY <2>4
    <3> HIDE DEF a
    <3> QED BY <2>3, <3>1 DEF Current
  <2>5. quiet \in BOOLEAN /\ Opens(r, a, quiet)
    BY <2>1
  <2> HIDE DEF a, quiet
  <2> QED BY <2>3, <2>4, <2>5, OpensInv
<1>3. CASE StartUndo(r)
  <2>1. PICK e \in Inbox :
          /\ Present({e}) /\ state[e] # "review_pending"
          /\ Opens(r, Reading("undo", {e}, IF state[e] = "passed" THEN "allow" ELSE "block"), TRUE)
    BY <1>3 DEF StartUndo
  <2> DEFINE l == IF state[e] = "passed" THEN "allow" ELSE "block"
             a == Reading("undo", {e}, l)
  <2>2. state[e] \in {"passed", "discarded"} /\ l \in Rows
    BY <2>1 DEF Present, FlInv, FlTyped, States, Rows
  <2>3. /\ a \in Reviews /\ a.op = "undo" /\ a.mails = {e} /\ a.list = l
        /\ a.read = row[l] /\ ~a.gone /\ a.seen = state
    BY <2>2, ReadingTyped DEF ReviewOps
  <2>4. Current(a)
    BY <2>2, <2>3 DEF Current
  <2>5. Opens(r, a, TRUE)
    BY <2>1
  <2> HIDE DEF a
  <2> QED BY <2>3, <2>4, <2>5, OpensInv
<1> QED BY <1>1, <1>2, <1>3 DEF CreateFilter, RefineFilter, DeleteFilter

(* A request commits: what stays to see is that in calm the lists count     *)
(* what the states say.                                                     *)
LEMMA CommitInv ==
  ASSUME FlInv, NEW r \in Reviewers, review[r] # NoReview,
         UNCHANGED <<reviews, calm>>,
         state' \in [Inbox -> States], stored' \subseteq Inbox,
         row' \in [Rows -> {n \in Int : n >= Missing}],
         review' \in [Reviewers -> Reviews \cup {NoReview}], review'[r] = NoReview,
         \A v \in Reviewers : review[v] = NoReview => review'[v] = NoReview,
         calm => FiltersFollow'
  PROVE  FlInv'
<1>1. FlTyped'
  BY DEF FlInv, FlTyped
<1>2. ASSUME calm PROVE \A v \in Reviewers : review'[v] = NoReview
  BY <1>2 DEF FlInv, OneCurrent
<1>3. OneCurrent'
  BY <1>2 DEF OneCurrent
<1>4. FiltersFollow'
  BY DEF FiltersFollow
<1> QED BY <1>1, <1>3, <1>4 DEF FlInv

(* What a request in calm finds.                                            *)
LEMMA InCalm ==
  ASSUME FlInv, calm, NEW r \in Reviewers, review[r] # NoReview
  PROVE  /\ Current(review[r])
         /\ row["allow"] = Counted(Cardinality(InState("passed")))
         /\ row["block"] = Counted(Cardinality(InState("discarded")))
         /\ stored = InState("passed")
BY DEF FlInv, OneCurrent, FiltersFollow

LEMMA MarksState ==
  ASSUME FlInv, NEW r \in Reviewers, review[r] # NoReview, NEW status \in States, Marks(r, status)
  PROVE  /\ state' \in [Inbox -> States]
         /\ calm => \A e \in Inbox : state'[e] = IF e \in review[r].mails THEN status ELSE state[e]
<1>1. state' = [e \in Inbox |->
        IF e \in review[r].mails /\ review[r].seen[e] # status THEN status ELSE state[e]]
  BY DEF Marks
<1>2. state' \in [Inbox -> States]
  BY <1>1 DEF FlInv, FlTyped
<1>3. ASSUME calm PROVE \A e \in Inbox : e \in review[r].mails => review[r].seen[e] = state[e]
  BY <1>3, InCalm DEF Current
<1> QED BY <1>1, <1>2, <1>3

LEMMA DoneTyped ==
  ASSUME FlInv, NEW r \in Reviewers, Done(r)
  PROVE  /\ review' \in [Reviewers -> Reviews \cup {NoReview}] /\ review'[r] = NoReview
         /\ \A v \in Reviewers : review[v] = NoReview => review'[v] = NoReview
BY DEF Done, FlInv, FlTyped

LEMMA TakeTyped ==
  ASSUME FlInv, NEW r \in Reviewers, NEW x \in Rows, Take(r, x)
  PROVE  /\ review' \in [Reviewers -> Reviews \cup {NoReview}] /\ review'[r] = NoReview
         /\ \A v \in Reviewers : review[v] = NoReview => review'[v] = NoReview
         /\ row' \in [Rows -> {n \in Int : n >= Missing}]
         /\ row' = [row EXCEPT ![x] = Missing]
<1>1. review' = Freed(r, x) /\ row' = [row EXCEPT ![x] = Missing]
  BY DEF Take
<1>2. ASSUME NEW v \in Reviewers, review[v] # NoReview
      PROVE  [review[v] EXCEPT !.gone = TRUE] \in Reviews
  <2>1. review[v] \in Reviews
    BY <1>2 DEF FlInv, FlTyped
  <2> QED BY <2>1 DEF Reviews
<1>3. \A v \in Reviewers : Freed(r, x)[v] \in Reviews \cup {NoReview}
  BY <1>2 DEF Freed, FlInv, FlTyped
<1>4. row' \in [Rows -> {n \in Int : n >= Missing}]
  BY <1>1 DEF FlInv, FlTyped, Missing
<1> QED BY <1>1, <1>3, <1>4 DEF Freed

LEMMA ReviewInv ==
  ASSUME FlInv, NEW r \in Reviewers, review[r] # NoReview, CommitReview(r), UNCHANGED <<reviews, calm>>
  PROVE  FlInv'
<1> DEFINE a == review[r]
           n == Cardinality(a.mails)
<1>1. a \in Reviews /\ a.op \in {"keep", "discard"}
  BY DEF CommitReview, FlInv, FlTyped
<1>7. PICK status \in {"passed", "discarded"} :
        status = IF a.op = "keep" THEN "passed" ELSE "discarded"
  BY <1>1
<1>2. /\ a.mails \subseteq Inbox /\ a.list \in Rows /\ a.read \in Int /\ a.read >= Missing
      /\ IsFiniteSet(a.mails) /\ n \in Nat
  BY <1>1, FiltersAssumption, FS_Subset, FS_CardinalityType DEF Reviews
<1>3. /\ Marks(r, status) /\ status \in States
      /\ stored' = IF a.op = "keep" THEN stored \cup a.mails ELSE stored
  BY <1>1, <1>7 DEF CommitReview, States
<1>4. /\ Done(r) /\ row' = [row EXCEPT ![a.list] = IF a.read = Missing THEN n ELSE a.read + n]
      /\ a.read = Missing => row[a.list] = Missing
  BY DEF CommitReview, CountUp, Put
<1>5. /\ state' \in [Inbox -> States] /\ stored' \subseteq Inbox
      /\ row \in [Rows -> {m \in Int : m >= Missing}]
      /\ row' \in [Rows -> {m \in Int : m >= Missing}]
  <2>1. (IF a.read = Missing THEN n ELSE a.read + n) \in {m \in Int : m >= Missing}
    BY <1>2 DEF Missing
  <2> QED BY <1>2, <1>3, <1>4, <2>1, MarksState DEF FlInv, FlTyped
<1>6. ASSUME calm PROVE FiltersFollow'
  <2>1. /\ Current(a) /\ stored = InState("passed")
        /\ row["allow"] = Counted(Cardinality(InState("passed")))
        /\ row["block"] = Counted(Cardinality(InState("discarded")))
    BY <1>6, InCalm
  <2>2. /\ a.list = ListOf(a.op) /\ a.mails # {} /\ a.read = row[a.list]
        /\ \A e \in a.mails : state[e] = "review_pending"
    BY <1>1, <2>1 DEF Current
  <2>3. \A e \in Inbox : state'[e] = IF e \in a.mails THEN status ELSE state[e]
    BY <1>3, <1>6, MarksState
  <2>4. n > 0
    BY <1>2, <2>2, FS_EmptySet
  <2>5. InState(status)' = InState(status) \cup a.mails /\ InState(status) \cap a.mails = {}
    BY <1>2, <2>2, <2>3 DEF InState
  <2>6. ASSUME NEW other \in {"passed", "discarded"}, other # status
        PROVE  InState(other)' = InState(other)
    BY <1>2, <2>2, <2>3, <2>6 DEF InState
  <2>7. Cardinality(InState(status)') = Cardinality(InState(status)) + n
    <3>1. /\ IsFiniteSet(InState(status)) /\ Cardinality(InState(status)) \in Nat
          /\ Cardinality(InState(status) \cap a.mails) = 0
      BY <2>5, InStateFinite, FS_EmptySet
    <3>2. Cardinality(InState(status) \cup a.mails)
            = Cardinality(InState(status)) + n - Cardinality(InState(status) \cap a.mails)
      BY <1>2, <3>1, FS_Union
    <3>3. Cardinality(InState(status) \cup a.mails) = Cardinality(InState(status)) + n
      BY <1>2, <3>1, <3>2
    <3> QED BY <2>5, <3>3
  <2>8. row'[a.list] = Counted(Cardinality(InState(status)'))
    <3>1. row[a.list] = Counted(Cardinality(InState(status))) /\ Cardinality(InState(status)) \in Nat
      BY <1>1, <1>7, <2>1, <2>2, InStateFinite DEF ListOf
    <3>2. row'[a.list] = IF a.read = Missing THEN n ELSE a.read + n
      BY <1>2, <1>4, <1>5
    <3> DEFINE c == Cardinality(InState(status))
    <3>3. row'[a.list] = Counted(c + n)
      <4>1. c \in Nat /\ a.read = Counted(c)
        BY <2>2, <3>1
      <4> HIDE DEF c
      <4> QED BY <1>2, <2>4, <3>2, <4>1 DEF Counted, Missing
    <3> QED BY <2>7, <3>3
  <2>9. \A x \in Rows : x # a.list => row'[x] = row[x]
    BY <1>4, <1>5
  <2>10. stored' = InState("passed")'
    BY <1>1, <1>3, <1>7, <2>1, <2>5, <2>6
  <2>11. CASE a.op = "keep"
    <3>1. status = "passed" /\ a.list = "allow"
      BY <1>7, <2>2, <2>11 DEF ListOf
    <3>2. InState("discarded")' = InState("discarded")
      BY <2>6, <3>1
    <3>3. row'["block"] = row["block"]
      BY <2>9, <3>1 DEF Rows
    <3> QED BY <2>1, <2>8, <2>10, <3>1, <3>2, <3>3 DEF FiltersFollow
  <2>12. CASE a.op = "discard"
    <3>1. status = "discarded" /\ a.list = "block"
      BY <1>7, <2>2, <2>12 DEF ListOf
    <3>2. InState("passed")' = InState("passed")
      BY <2>6, <3>1
    <3>3. row'["allow"] = row["allow"]
      BY <2>9, <3>1 DEF Rows
    <3> QED BY <2>1, <2>8, <2>10, <3>1, <3>2, <3>3 DEF FiltersFollow
  <2> QED BY <1>1, <2>11, <2>12
<1> QED BY <1>4, <1>5, <1>6, DoneTyped, CommitInv

LEMMA UndoInv ==
  ASSUME FlInv, NEW r \in Reviewers, review[r] # NoReview, CommitUndo(r), UNCHANGED <<reviews, calm>>
  PROVE  FlInv'
<1> DEFINE a == review[r]
<1>1. /\ a \in Reviews /\ a.op = "undo" /\ Marks(r, "review_pending") /\ CountDown(r)
      /\ stored' = IF a.list = "allow" THEN stored \ a.mails ELSE stored
  BY DEF CommitUndo, FlInv, FlTyped
<1>2. a.mails \subseteq Inbox /\ a.list \in Rows /\ a.read \in Int /\ a.read >= Missing
  BY <1>1 DEF Reviews
<1>3. /\ state' \in [Inbox -> States] /\ stored' \subseteq Inbox
      /\ row \in [Rows -> {m \in Int : m >= Missing}]
  BY <1>1, MarksState DEF FlInv, FlTyped, States
<1>4. \/ Done(r) /\ UNCHANGED row /\ (a.read = Missing \/ a.gone)
      \/ Take(r, a.list) /\ Leaves(a.read) /\ a.read # Missing
      \/ /\ Done(r) /\ row' = [row EXCEPT ![a.list] = a.read - 1]
         /\ ~Leaves(a.read) /\ a.read # Missing
  BY <1>1 DEF CountDown, Put
<1>5. /\ review' \in [Reviewers -> Reviews \cup {NoReview}] /\ review'[r] = NoReview
      /\ \A v \in Reviewers : review[v] = NoReview => review'[v] = NoReview
  BY <1>2, <1>4, DoneTyped, TakeTyped
<1>6. row' \in [Rows -> {m \in Int : m >= Missing}]
  BY <1>2, <1>3, <1>4, TakeTyped DEF Leaves, Missing
<1>7. ASSUME calm PROVE FiltersFollow'
  <2>1. /\ Current(a) /\ stored = InState("passed")
        /\ row["allow"] = Counted(Cardinality(InState("passed")))
        /\ row["block"] = Counted(Cardinality(InState("discarded")))
    BY <1>7, InCalm
  <2>2. PICK e \in Inbox : /\ a.mails = {e}
                           /\ \/ state[e] = "passed" /\ a.list = "allow"
                              \/ state[e] = "discarded" /\ a.list = "block"
    BY <1>1, <2>1 DEF Current
  <2>14. PICK status \in {"passed", "discarded"} :
           status = IF a.list = "allow" THEN "passed" ELSE "discarded"
    BY <1>1
  <2>3. /\ a.read = row[a.list] /\ ~a.gone /\ state[e] = status
    BY <2>1, <2>2, <2>14 DEF Current
  <2>4. \A m \in Inbox : state'[m] = IF m = e THEN "review_pending" ELSE state[m]
    BY <1>1, <1>7, <2>2, MarksState DEF States
  <2>5. InState(status)' = InState(status) \ {e} /\ e \in InState(status)
    BY <2>3, <2>4 DEF InState
  <2>6. ASSUME NEW other \in {"passed", "discarded"}, other # status
        PROVE  InState(other)' = InState(other)
    BY <2>3, <2>4, <2>6 DEF InState
  <2> DEFINE c == Cardinality(InState(status))
  <2>7. Cardinality(InState(status)') = c - 1 /\ c \in Nat /\ c > 0
    <3>1. IsFiniteSet(InState(status)) /\ c \in Nat
      BY InStateFinite
    <3>2. c # 0
      BY <2>5, <3>1, FS_EmptySet
    <3>3. Cardinality(InState(status) \ {e}) = c - 1
      BY <2>5, <3>1, FS_RemoveElement
    <3> QED BY <2>5, <3>1, <3>2, <3>3
  <2>8. a.read = c
    <3>1. row[a.list] = Counted(c)
      BY <2>1, <2>2, <2>14
    <3> QED BY <2>3, <2>7, <3>1 DEF Counted
  <2>9. row' = [row EXCEPT ![a.list] = Counted(c - 1)]
    <3>1. a.read # Missing /\ ~a.gone
      BY <2>3, <2>7, <2>8 DEF Missing
    <3>2. CASE Leaves(a.read)
      <4>1. c - 1 = 0
        BY <2>7, <2>8, <3>2 DEF Leaves
      <4>2. row' = [row EXCEPT ![a.list] = Missing]
        BY <1>2, <1>4, <3>1, <3>2, TakeTyped
      <4> QED BY <4>1, <4>2 DEF Counted
    <3>3. CASE ~Leaves(a.read)
      <4>1. c - 1 # 0
        BY <2>7, <2>8, <3>3 DEF Leaves
      <4>2. row' = [row EXCEPT ![a.list] = c - 1]
        BY <1>4, <2>8, <3>1, <3>3
      <4> QED BY <4>1, <4>2 DEF Counted
    <3> QED BY <3>2, <3>3
  <2>10. row'[a.list] = Counted(Cardinality(InState(status)'))
    BY <1>2, <1>3, <2>7, <2>9
  <2>11. \A x \in Rows : x # a.list => row'[x] = row[x]
    BY <1>3, <2>9
  <2>12. CASE a.list = "allow"
    <3>1. InState("discarded")' = InState("discarded")
      BY <2>6, <2>12, <2>14
    <3>2. row'["block"] = row["block"]
      BY <2>11, <2>12 DEF Rows
    <3>3. stored' = InState("passed")'
      BY <1>1, <2>1, <2>2, <2>5, <2>12, <2>14
    <3> QED BY <2>1, <2>10, <2>12, <2>14, <3>1, <3>2, <3>3 DEF FiltersFollow
  <2>13. CASE a.list = "block"
    <3>1. InState("passed")' = InState("passed")
      BY <2>6, <2>13, <2>14
    <3>2. row'["allow"] = row["allow"]
      BY <2>11, <2>13 DEF Rows
    <3>3. stored' = InState("passed")'
      BY <1>1, <2>1, <2>13, <3>1
    <3> QED BY <2>1, <2>10, <2>13, <2>14, <3>1, <3>2, <3>3 DEF FiltersFollow
  <2> QED BY <2>2, <2>12, <2>13
<1> QED BY <1>3, <1>5, <1>6, <1>7, CommitInv

LEMMA FinishInv ==
  ASSUME FlInv, NEW r \in Reviewers, Finish(r)
  PROVE  FlInv'
<1>1. review[r] # NoReview /\ UNCHANGED <<reviews, calm>>
  BY DEF Finish
<1>2. review[r] \in Reviews /\ review[r].list \in Rows
  BY <1>1 DEF FlInv, FlTyped, Reviews
<1>3. CASE CommitFilter(r)
  <2>1. /\ review[r].op \in {"create", "delete"} /\ UNCHANGED <<state, stored>>
        /\ \/ Done(r) /\ row' = [row EXCEPT ![review[r].list] = 0]
           \/ Done(r) /\ UNCHANGED row
           \/ Take(r, review[r].list)
    BY <1>3 DEF CommitFilter, Put
  <2>2. ~calm
    BY <1>1, <2>1, InCalm DEF Current
  <2>3. row' \in [Rows -> {m \in Int : m >= Missing}]
    BY <1>2, <2>1, TakeTyped DEF FlInv, FlTyped, Missing
  <2> QED BY <1>1, <1>2, <2>1, <2>2, <2>3, DoneTyped, TakeTyped, CommitInv DEF FlInv, FlTyped
<1>4. CASE Abort(r)
  <2>1. Done(r) /\ UNCHANGED <<state, stored, row>>
    BY <1>4 DEF Abort
  <2>2. calm => FiltersFollow'
    BY <2>1 DEF FlInv, FiltersFollow, InState
  <2> QED BY <1>1, <2>1, <2>2, DoneTyped, CommitInv DEF FlInv, FlTyped
<1> QED BY <1>1, <1>3, <1>4, ReviewInv, UndoInv DEF Finish

LEMMA FlStepInv == FlInv /\ [FlNext]_flVars => FlInv'
<1> SUFFICES ASSUME FlInv, [FlNext]_flVars PROVE FlInv'
  OBVIOUS
<1>1. CASE UNCHANGED flVars
  BY <1>1 DEF flVars, FlInv, FlTyped, OneCurrent, Current, FiltersFollow, InState
<1> QED BY <1>1, ArriveInv, RequestInv, FinishInv DEF FlNext

LEMMA FlInvGives == FlInv => FlTypeOK /\ FiltersFollow
<1> SUFFICES ASSUME FlInv PROVE FlTypeOK
  BY DEF FlInv
<1>1. \A r \in Reviewers : review[r] # NoReview => review[r].list \in Rows
  BY DEF FlInv, FlTyped, Reviews
<1> QED BY <1>1 DEF FlInv, FlTyped, FlTypeOK, States

(* As long as waiting mails are reviewed and reviews undone one after the   *)
(* other, a list has its domain while a mail is kept or discarded and       *)
(* counts these mails, for any number of mails and requests                 *)
(* (api/emails.py, classifier/pre_filter.py).                               *)
THEOREM ListsFollow == FlSpec => [](FlTypeOK /\ FiltersFollow)
BY FlInitInv, FlStepInv, FlInvGives, PTL DEF FlSpec

-----------------------------------------------------------------------------
(* Rules.  The evidence counts the transactions of all kinds: those of two  *)
(* kinds are in it, and one more of a kind is one more.                     *)
Grown(t, k) == [t EXCEPT ![k] = @ + 1]
Heap(k, n) == {k} \X (1 .. n)
Gathered(t) == UNION {Heap(k, t[k]) : k \in DOMAIN t}

LEMMA KindsFinite == IsFiniteSet(Kinds)
<1>1. IsFiniteSet({"Income", "CC Payment", NoTopic})
  <2>1. IsFiniteSet({"Income"}) /\ IsFiniteSet({"CC Payment"}) /\ IsFiniteSet({NoTopic})
    BY FS_Singleton
  <2>2. IsFiniteSet({"Income"} \cup {"CC Payment"})
    BY <2>1, FS_Union
  <2>3. IsFiniteSet({"Income"} \cup {"CC Payment"} \cup {NoTopic})
    BY <2>1, <2>2, FS_Union
  <2>4. {"Income"} \cup {"CC Payment"} \cup {NoTopic} = {"Income", "CC Payment", NoTopic}
    OBVIOUS
  <2> QED BY <2>3, <2>4
<1>2. IsFiniteSet(Topics \cup {"Income", "CC Payment", NoTopic})
  BY <1>1, RulesAssumption, FS_Union
<1> QED BY <1>2, RulesAssumption, FS_Product DEF Kinds

LEMMA HeapSize ==
  ASSUME NEW k, NEW n \in Nat
  PROVE  IsFiniteSet(Heap(k, n)) /\ Cardinality(Heap(k, n)) = n
<1>1. IsFiniteSet({k}) /\ Cardinality({k}) = 1
  BY FS_Singleton
<1>2. IsFiniteSet(1 .. n) /\ Cardinality(1 .. n) = n
  <2>1. IsFiniteSet(1 .. n) /\ Cardinality(1 .. n) = IF 1 > n THEN 0 ELSE n - 1 + 1
    BY FS_Interval
  <2> QED BY <2>1
<1>3. /\ IsFiniteSet({k} \X (1 .. n))
      /\ Cardinality({k} \X (1 .. n)) = Cardinality({k}) * Cardinality(1 .. n)
  BY <1>1, <1>2, FS_Product, Zenon
<1>4. 1 * n = n
  OBVIOUS
<1> QED BY <1>1, <1>2, <1>3, <1>4 DEF Heap

LEMMA GatheredMembers ==
  ASSUME NEW M \in Nat, NEW t \in [Kinds -> 0 .. M]
  PROVE  /\ \A x : x \in Gathered(t) <=> \E k \in Kinds : x \in Heap(k, t[k])
         /\ IsFiniteSet(Gathered(t)) /\ Evidence(t) = Cardinality(Gathered(t))
         /\ Evidence(t) \in Nat
<1>1. \A x : x \in Gathered(t) <=> \E k \in Kinds : x \in Heap(k, t[k])
  BY DEF Gathered
<1>2. Gathered(t) \subseteq Kinds \X (1 .. M)
  <2> SUFFICES ASSUME NEW k \in Kinds, NEW x \in Heap(k, t[k]) PROVE x \in Kinds \X (1 .. M)
    BY <1>1
  <2>1. t[k] \in 0 .. M
    OBVIOUS
  <2> QED BY <2>1 DEF Heap
<1>3. IsFiniteSet(Kinds \X (1 .. M))
  <2>1. IsFiniteSet(1 .. M)
    BY FS_Interval
  <2> QED BY <2>1, KindsFinite, FS_Product, Zenon
<1>4. IsFiniteSet(Gathered(t))
  BY <1>2, <1>3, FS_Subset
<1>5. Evidence(t) = Cardinality(Gathered(t))
  BY DEF Evidence, Gathered, Heap
<1> QED BY <1>1, <1>4, <1>5, FS_CardinalityType

LEMMA EvidenceCounts ==
  ASSUME NEW M \in Nat, NEW t \in [Kinds -> 0 .. M], NEW k \in Kinds
  PROVE  /\ Evidence(t) \in Nat /\ t[k] <= Evidence(t)
         /\ \A l \in Kinds : l # k => t[k] + t[l] <= Evidence(t)
         /\ Evidence(Grown(t, k)) = Evidence(t) + 1
<1>1. /\ \A x : x \in Gathered(t) <=> \E l \in Kinds : x \in Heap(l, t[l])
      /\ IsFiniteSet(Gathered(t)) /\ Evidence(t) = Cardinality(Gathered(t)) /\ Evidence(t) \in Nat
  BY GatheredMembers
<1>2. \A l \in Kinds : t[l] \in Nat
  OBVIOUS
<1>3. t[k] <= Evidence(t)
  <2>1. Heap(k, t[k]) \in SUBSET Gathered(t)
    BY <1>1
  <2>2. Cardinality(Heap(k, t[k])) <= Cardinality(Gathered(t))
    BY <1>1, <2>1, FS_Subset
  <2> QED BY <1>1, <1>2, <2>2, HeapSize
<1>4. ASSUME NEW l \in Kinds, l # k PROVE t[k] + t[l] <= Evidence(t)
  <2> DEFINE both == Heap(k, t[k]) \cup Heap(l, t[l])
  <2>1. /\ IsFiniteSet(Heap(k, t[k])) /\ Cardinality(Heap(k, t[k])) = t[k]
        /\ IsFiniteSet(Heap(l, t[l])) /\ Cardinality(Heap(l, t[l])) = t[l]
    BY <1>2, HeapSize
  <2>2. Heap(k, t[k]) \cap Heap(l, t[l]) = {}
    BY <1>4 DEF Heap
  <2>3. Cardinality(both) = t[k] + t[l]
    <3>1. Cardinality(both) = Cardinality(Heap(k, t[k])) + Cardinality(Heap(l, t[l]))
                                - Cardinality(Heap(k, t[k]) \cap Heap(l, t[l]))
      BY <2>1, FS_Union
    <3>2. Cardinality(Heap(k, t[k]) \cap Heap(l, t[l])) = 0
      BY <2>2, FS_EmptySet
    <3> HIDE DEF both
    <3> QED BY <1>2, <2>1, <3>1, <3>2
  <2>4. both \in SUBSET Gathered(t)
    BY <1>1
  <2> HIDE DEF both
  <2>5. Cardinality(both) <= Cardinality(Gathered(t))
    BY <1>1, <2>4, FS_Subset
  <2> QED BY <1>1, <2>3, <2>5
<1>5. Evidence(Grown(t, k)) = Evidence(t) + 1
  <2> DEFINE g == Grown(t, k)
             new == <<k, t[k] + 1>>
  <2>1. /\ g \in [Kinds -> 0 .. (M + 1)] /\ M + 1 \in Nat
        /\ g[k] = t[k] + 1 /\ \A l \in Kinds : l # k => g[l] = t[l]
    BY DEF Grown
  <2> HIDE DEF g
  <2>2. /\ \A x : x \in Gathered(g) <=> \E l \in Kinds : x \in Heap(l, g[l])
        /\ Evidence(g) = Cardinality(Gathered(g))
    BY <2>1, GatheredMembers
  <2>3. \A x : x \in Heap(k, g[k]) <=> x \in Heap(k, t[k]) \/ x = new
    BY <1>2, <2>1 DEF Heap
  <2>4. new \notin Heap(k, t[k]) /\ \A l \in Kinds : l # k => new \notin Heap(l, t[l])
    BY <1>2 DEF Heap
  <2> HIDE DEF new
  <2>5. \A x : x \in Gathered(g) <=> x \in Gathered(t) \cup {new}
    BY <1>1, <2>1, <2>2, <2>3
  <2>6. Gathered(g) = Gathered(t) \cup {new} /\ new \notin Gathered(t)
    BY <1>1, <2>4, <2>5
  <2>7. Cardinality(Gathered(t) \cup {new}) = Cardinality(Gathered(t)) + 1
    BY <1>1, <2>6, FS_AddElement
  <2> QED BY <1>1, <2>2, <2>6, <2>7 DEF g
<1> QED BY <1>1, <1>3, <1>4, <1>5

LEMMA OnlyOne == ASSUME NEW S, NEW k \in S, \A x \in S : x = k PROVE Cardinality(S) <= 1
<1>1. S = {k}
  OBVIOUS
<1> QED BY <1>1, FS_Singleton

LEMMA LearnedIsOne ==
  ASSUME NEW M \in Nat, NEW t \in [Kinds -> 0 .. M]
  PROVE  /\ \A k, l \in Majority(t) : k = l
         /\ Cardinality(Majority(t)) <= 1
         /\ \A k \in Majority(t) : Majority(Grown(t, k)) = {k}
<1>1. Evidence(t) \in Nat \/ Kinds = {}
  BY EvidenceCounts
<1>2. \A k \in Kinds : t[k] \in Nat /\ (k \in Majority(t) <=> t[k] >= 3 /\ 5 * t[k] >= 4 * Evidence(t))
  BY DEF Majority
<1>3. Majority(t) \subseteq Kinds
  BY DEF Majority
<1>4. \A k, l \in Majority(t) : k = l
  <2> SUFFICES ASSUME NEW k \in Majority(t), NEW l \in Majority(t), k # l PROVE FALSE
    OBVIOUS
  <2>1. k \in Kinds /\ l \in Kinds
    BY <1>3
  <2>2. Evidence(t) \in Nat /\ t[k] + t[l] <= Evidence(t)
    BY <2>1, EvidenceCounts
  <2> QED BY <1>2, <2>1, <2>2
<1>5. Cardinality(Majority(t)) <= 1
  <2>1. CASE Majority(t) = {}
    BY <2>1, FS_EmptySet
  <2>2. CASE Majority(t) # {}
    <3>1. PICK k : k \in Majority(t)
      BY <2>2
    <3>2. \A x \in Majority(t) : x = k
      BY <1>4, <3>1
    <3> QED BY <3>1, <3>2, OnlyOne, Zenon
  <2> QED BY <2>1, <2>2
<1>6. ASSUME NEW k \in Majority(t) PROVE Majority(Grown(t, k)) = {k}
  <2> DEFINE g == Grown(t, k)
             e == Evidence(t)
  <2>1. k \in Kinds /\ t[k] >= 3 /\ 5 * t[k] >= 4 * e
    BY <1>2, <1>3
  <2>2. DOMAIN g = Kinds /\ g[k] = t[k] + 1 /\ \A l \in Kinds : l # k => g[l] = t[l]
    BY <2>1 DEF Grown
  <2>3. e \in Nat /\ Evidence(g) = e + 1 /\ \A l \in Kinds : l # k => t[k] + t[l] <= e
    BY <2>1, EvidenceCounts
  <2> HIDE DEF g, e
  <2>4. \A l \in Kinds : l \in Majority(g) <=> g[l] >= 3 /\ 5 * g[l] >= 4 * (e + 1)
    BY <2>2, <2>3 DEF Majority
  <2>5. k \in Majority(g)
    BY <1>2, <2>1, <2>2, <2>3, <2>4
  <2>6. ASSUME NEW l \in Kinds, l # k PROVE l \notin Majority(g)
    <3>1. g[l] = t[l] /\ t[l] \in Nat /\ t[k] \in Nat /\ t[k] + t[l] <= e
      BY <1>2, <2>1, <2>2, <2>3, <2>6
    <3> QED BY <2>1, <2>3, <2>4, <3>1
  <2>7. Majority(g) \subseteq Kinds
    BY <2>2 DEF Majority
  <2> QED BY <2>5, <2>6, <2>7 DEF g
<1> QED BY <1>4, <1>5, <1>6

(* What a request is to do: columns of a row that keep a pattern from       *)
(* ignoring mails, for a key of its own kind.  A row it has read and that   *)
(* nobody deleted is there, under whatever key.                             *)
AskFields == {"op", "key", "given", "to", "read", "gone"}
Task(a) ==
  /\ DOMAIN a = AskFields
  /\ a.op \in {"put", "patch", "delete"} /\ a.key \in Keys /\ a.to \in Keys
  /\ a.key \in Regexes <=> a.to \in Regexes
  /\ Columns(a.given) /\ a.gone \in BOOLEAN
  /\ a.op = "put" => "label" \in DOMAIN a.given
  /\ a.key \in Regexes /\ "label" \in DOMAIN a.given => a.given["label"] # "ignore"
There(a) == a.op # "none" /\ a.read # NoRule /\ ~a.gone => rules[a.key] # NoRule

RuInv ==
  /\ rules \in [Keys -> RuleRows \cup {NoRule}]
  /\ \A x \in Regexes : rules[x] # NoRule => rules[x].label # "ignore"
  /\ DOMAIN asks = Writers
  /\ \A w \in Writers : asks[w] # NoAsk => Task(asks[w]) /\ There(asks[w])
  /\ tally \in [Kinds -> 0 .. MaxEvidence] /\ writes \in 0 .. MaxWrites
  /\ builtin \in Builtins

LEMMA RuInitInv == RuInit => RuInv
BY RulesAssumption DEF RuInit, RuInv

LEMMA RowIsNoNoRule == \A q \in RuleRows : q # NoRule
BY RulesAssumption

LEMMA OverlaidRow ==
  ASSUME NEW q \in RuleRows, NEW new, Columns(new)
  PROVE  /\ Overlaid(q, new) \in RuleRows
         /\ Overlaid(q, new).label = IF "label" \in DOMAIN new THEN new["label"] ELSE q.label
<1> DEFINE cs == {"label", "category", "enabled"}
           o == Overlaid(q, new)
<1>1. DOMAIN q = cs /\ DOMAIN new \subseteq cs
  BY DEF RuleRows, Columns
<1>2. o = [c \in cs |-> IF c \in DOMAIN new THEN new[c] ELSE q[c]]
  BY <1>1 DEF Overlaid
<1>3. /\ q["label"] \in Labels /\ q["category"] \in Topics \cup {NoTopic} /\ q["enabled"] \in BOOLEAN
  BY DEF RuleRows
<1> HIDE DEF o
<1>4. /\ o["label"] \in Labels /\ o["category"] \in Topics \cup {NoTopic} /\ o["enabled"] \in BOOLEAN
      /\ o["label"] = IF "label" \in DOMAIN new THEN new["label"] ELSE q["label"]
  BY <1>2, <1>3 DEF Columns
<1>5. o \in RuleRows
  <2>1. o = [label |-> o["label"], category |-> o["category"], enabled |-> o["enabled"]]
    BY <1>2
  <2> QED BY <1>4, <2>1 DEF RuleRows
<1> QED BY <1>4, <1>5 DEF o

LEMMA InsertedRow ==
  ASSUME NEW new, Columns(new), "label" \in DOMAIN new
  PROVE  /\ Overlaid(Fresh, new) \in RuleRows
         /\ Overlaid(Fresh, new).label = new["label"]
<1> DEFINE cs == {"label", "category", "enabled"}
           o == Overlaid(Fresh, new)
<1>1. DOMAIN Fresh \cup DOMAIN new = cs
  BY DEF Fresh, Columns
<1>2. o = [c \in cs |-> IF c \in DOMAIN new THEN new[c] ELSE Fresh[c]]
  BY <1>1 DEF Overlaid
<1>3. Fresh["category"] = NoTopic /\ Fresh["enabled"] = TRUE
  BY DEF Fresh
<1> HIDE DEF o
<1>4. /\ o["label"] \in Labels /\ o["category"] \in Topics \cup {NoTopic} /\ o["enabled"] \in BOOLEAN
      /\ o["label"] = new["label"]
  BY <1>2, <1>3 DEF Columns
<1>5. o \in RuleRows
  <2>1. o = [label |-> o["label"], category |-> o["category"], enabled |-> o["enabled"]]
    BY <1>2
  <2> QED BY <1>4, <2>1 DEF RuleRows
<1> QED BY <1>4, <1>5 DEF o

LEMMA AskedInv ==
  ASSUME RuInv, NEW w \in Writers,
         \/ PutRule(w) \/ PatchRule(w) \/ PutPattern(w) \/ PatchPattern(w) \/ RemoveRule(w)
  PROVE  RuInv'
<1>1. ASSUME NEW op \in {"put", "patch", "delete"}, NEW k \in Keys, NEW given, NEW to \in Keys,
             Columns(given), k \in Regexes <=> to \in Regexes,
             op = "put" => "label" \in DOMAIN given,
             k \in Regexes /\ "label" \in DOMAIN given => given["label"] # "ignore",
             Asks(w, Begins(op, k, given, to))
      PROVE  RuInv'
  <2> DEFINE a == Begins(op, k, given, to)
  <2>1. /\ DOMAIN a = AskFields /\ a.op = op /\ a.key = k /\ a.to = to /\ a.given = given
        /\ a.read = rules[k] /\ a.gone = FALSE
    BY DEF Begins, AskFields
  <2>2. /\ asks' = [asks EXCEPT ![w] = a] /\ writes' = writes + 1 /\ writes < MaxWrites
        /\ UNCHANGED <<builtin, rules, tally>>
    BY <1>1 DEF Asks
  <2> HIDE DEF a
  <2>3. Task(a) /\ There(a)
    BY <1>1, <2>1 DEF Task, There
  <2>4. There(a)'
    <3>1. a.op # "none" /\ a.read # NoRule /\ ~a.gone => rules[a.key] # NoRule
      BY <2>3 DEF There
    <3>2. rules' = rules
      BY <2>2
    <3> QED BY <2>1, <2>2, <3>1 DEF There, Begins, a
  <2>5. DOMAIN asks' = Writers /\ asks'[w] = a /\ \A v \in Writers : v # w => asks'[v] = asks[v]
    BY <2>2 DEF RuInv
  <2>6. ASSUME NEW v \in Writers, asks'[v] # NoAsk PROVE Task(asks'[v]) /\ There(asks[v])'
    <3>1. CASE v = w
      BY <2>2, <2>3, <2>5, <3>1 DEF There
    <3>2. CASE v # w
      BY <2>2, <2>5, <2>6, <3>2 DEF RuInv, There
    <3> QED BY <3>1, <3>2
  <2>7. writes' \in 0 .. MaxWrites
    BY <2>2, RulesAssumption DEF RuInv
  <2> QED BY <2>2, <2>5, <2>6, <2>7 DEF RuInv, Task
<1>2. Teachers \subseteq Keys /\ Regexes \subseteq Keys /\ \A u \in Teachers : u \notin Regexes
  BY RulesAssumption DEF Keys
<1>3. CASE PutRule(w)
  <2>1. PICK u \in Teachers, g \in Teachings : Asks(w, Begins("put", u, g, u))
    BY <1>3 DEF PutRule
  <2>2. Columns(g) /\ "label" \in DOMAIN g
    BY RulesAssumption
  <2> QED BY <1>1, <1>2, <2>1, <2>2
<1>4. CASE PatchRule(w)
  <2>1. PICK u \in Teachers, g \in Changes : Asks(w, Begins("patch", u, g, u))
    BY <1>4 DEF PatchRule
  <2>2. Columns(g)
    BY RulesAssumption
  <2> QED BY <1>1, <1>2, <2>1, <2>2
<1>5. CASE PutPattern(w)
  <2>1. PICK x \in Regexes, l \in Labels \ {"ignore"} :
          Asks(w, Begins("put", x, [label |-> l, category |-> NoTopic, enabled |-> TRUE], x))
    BY <1>5 DEF PutPattern
  <2> DEFINE g == [label |-> l, category |-> NoTopic, enabled |-> TRUE]
  <2>2. Columns(g) /\ "label" \in DOMAIN g /\ g["label"] = l
    BY DEF Columns
  <2> HIDE DEF g
  <2>3. Asks(w, Begins("put", x, g, x))
    BY <2>1 DEF g
  <2> QED BY <1>1, <1>2, <2>2, <2>3
<1>6. CASE PatchPattern(w)
  <2>1. PICK x \in Regexes, to \in Regexes, g \in Changes :
          /\ "label" \in DOMAIN g => g.label # "ignore"
          /\ Asks(w, Begins("patch", x, g, to))
    BY <1>6 DEF PatchPattern
  <2>2. Columns(g)
    BY RulesAssumption
  <2> QED BY <1>1, <1>2, <2>1, <2>2
<1>7. CASE RemoveRule(w)
  <2>1. PICK k \in Keys : Asks(w, Begins("delete", k, Only(Fresh, {}), k))
    BY <1>7 DEF RemoveRule
  <2>2. DOMAIN Only(Fresh, {}) = {}
    BY DEF Only, Restrict
  <2>3. Columns(Only(Fresh, {}))
    BY <2>2 DEF Columns
  <2> QED BY <1>1, <2>1, <2>2, <2>3
<1> QED BY <1>3, <1>4, <1>5, <1>6, <1>7

LEMMA CommittedInv ==
  ASSUME RuInv, NEW w \in Writers, CommitRule(w)
  PROVE  RuInv'
<1> DEFINE a == asks[w]
<1>1. /\ a # NoAsk /\ Task(a) /\ There(a) /\ UNCHANGED <<builtin, tally, writes>>
      /\ DOMAIN asks = Writers /\ rules \in [Keys -> RuleRows \cup {NoRule}]
  BY DEF CommitRule, RuInv
<1>2. ASSUME rules' \in [Keys -> RuleRows \cup {NoRule}],
             \A x \in Regexes : rules'[x] # NoRule => rules'[x].label # "ignore",
             DOMAIN asks' = Writers,
             \A v \in Writers : v # w /\ asks[v] # NoAsk =>
                asks'[v] = NoAsk \/ (Task(asks'[v]) /\ There(asks[v])'),
             asks'[w] = NoAsk
      PROVE  RuInv'
  <2>1. ASSUME NEW v \in Writers, asks'[v] # NoAsk, asks[v] = NoAsk => asks'[v] = NoAsk
        PROVE  Task(asks'[v]) /\ There(asks[v])'
    BY <1>2, <2>1
  <2>2. \A v \in Writers : asks[v] = NoAsk => asks'[v] = NoAsk
    <3> SUFFICES ASSUME NEW v \in Writers, asks[v] = NoAsk PROVE asks'[v] = NoAsk
      OBVIOUS
    <3>1. NoAsk.op = "none"
      BY DEF NoAsk
    <3>2. CASE InsertRow(w) \/ WriteFails(w)
      BY <3>2 DEF InsertRow, WriteFails, Ends
    <3>3. CASE UpdateRow(w) \/ DropRow(w)
      <4>1. ~OfRow(v, a.key)
        BY DEF OfRow
      <4> QED BY <3>3, <4>1 DEF UpdateRow, DropRow, Ends
    <3> QED BY <3>2, <3>3 DEF CommitRule
  <2> QED BY <1>1, <1>2, <2>1, <2>2 DEF RuInv
<1>3. ASSUME UNCHANGED rules \/ \E k \in Keys : \E q \in RuleRows : rules' = [rules EXCEPT ![k] = q],
             Ends(w, asks)
      PROVE  /\ DOMAIN asks' = Writers /\ asks'[w] = NoAsk
             /\ \A v \in Writers : v # w /\ asks[v] # NoAsk =>
                  asks'[v] = NoAsk \/ (Task(asks'[v]) /\ There(asks[v])')
  <2>1. asks' = [v \in Writers |-> IF v = w THEN NoAsk ELSE asks[v]]
    BY <1>3 DEF Ends
  <2>2. \A k \in Keys : rules[k] # NoRule => rules'[k] # NoRule
    BY <1>1, <1>3, RowIsNoNoRule
  <2>3. ASSUME NEW v \in Writers, v # w, asks[v] # NoAsk
        PROVE  Task(asks'[v]) /\ There(asks[v])'
    <3>1. asks'[v] = asks[v] /\ Task(asks[v]) /\ There(asks[v])
      BY <2>1, <2>3 DEF RuInv
    <3> QED BY <2>2, <3>1 DEF There, Task
  <2> QED BY <2>1, <2>3
<1>4. CASE InsertRow(w)
  <2> DEFINE q == Overlaid(Fresh, a.given)
  <2>1. /\ Inserts(a) /\ rules' = [rules EXCEPT ![a.key] = q] /\ Ends(w, asks)
    BY <1>4 DEF InsertRow
  <2>2. q \in RuleRows /\ q.label = a.given["label"] /\ "label" \in DOMAIN a.given
    BY <1>1, <2>1, InsertedRow DEF Inserts, Task
  <2> HIDE DEF q
  <2>3. rules' \in [Keys -> RuleRows \cup {NoRule}]
    BY <1>1, <2>1, <2>2
  <2>4. \A x \in Regexes : rules'[x] # NoRule => rules'[x].label # "ignore"
    BY <1>1, <2>1, <2>2 DEF RuInv, Task, Keys
  <2>5. \E k \in Keys : \E p \in RuleRows : rules' = [rules EXCEPT ![k] = p]
    BY <1>1, <2>1, <2>2 DEF Task
  <2> QED BY <1>2, <1>3, <2>1, <2>3, <2>4, <2>5
<1>5. CASE WriteFails(w)
  <2>1. Ends(w, asks) /\ UNCHANGED rules
    BY <1>5 DEF WriteFails
  <2>2. \A x \in Regexes : rules'[x] # NoRule => rules'[x].label # "ignore"
    BY <2>1 DEF RuInv
  <2> QED BY <1>1, <1>2, <1>3, <2>1, <2>2
<1>6. CASE UpdateRow(w)
  <2> DEFINE q == Overlaid(rules[a.key], Differing(a))
  <2>1. /\ Updates(a)
        /\ rules' = [k \in Keys |-> IF k = a.to THEN q ELSE IF k = a.key THEN NoRule ELSE rules[k]]
        /\ Ends(w, [v \in Writers |->
             IF ~OfRow(v, a.key) THEN asks[v]
             ELSE [asks[v] EXCEPT !.key = a.to, !.to = IF @ = a.key THEN a.to ELSE @]])
    BY <1>6 DEF UpdateRow
  <2>2. rules[a.key] \in RuleRows /\ a.key \in Keys /\ a.to \in Keys
    BY <1>1, <2>1 DEF Updates, There, Task
  <2>3. /\ Columns(Differing(a)) /\ DOMAIN Differing(a) \subseteq DOMAIN a.given
        /\ \A c \in DOMAIN Differing(a) : Differing(a)[c] = a.given[c]
    BY <1>1 DEF Differing, Only, Restrict, Task, Columns
  <2>4. q \in RuleRows
        /\ q.label = IF "label" \in DOMAIN Differing(a) THEN Differing(a)["label"] ELSE rules[a.key].label
    BY <2>2, <2>3, OverlaidRow
  <2> HIDE DEF q
  <2>5. rules' \in [Keys -> RuleRows \cup {NoRule}]
    BY <1>1, <2>1, <2>4
  <2>6. \A x \in Regexes : rules'[x] # NoRule => rules'[x].label # "ignore"
    <3>1. a.to \in Regexes => q.label # "ignore"
      BY <1>1, <2>2, <2>3, <2>4, RowIsNoNoRule DEF RuInv, Task
    <3> QED BY <2>1, <3>1 DEF RuInv, Keys
  <2>7. q # NoRule
    BY <2>4, RowIsNoNoRule
  <2>8. DOMAIN asks' = Writers /\ asks'[w] = NoAsk
    BY <2>1 DEF Ends
  <2>9. ASSUME NEW v \in Writers, v # w, asks[v] # NoAsk
        PROVE  Task(asks'[v]) /\ There(asks[v])'
    <3>1. Task(asks[v]) /\ There(asks[v])
      BY <2>9 DEF RuInv
    <3>2. CASE asks[v].key # a.key
      <4>1. asks'[v] = asks[v]
        BY <2>1, <2>9, <3>2 DEF Ends, OfRow
      <4> QED BY <2>1, <2>7, <3>1, <3>2, <4>1 DEF There, Task
    <3>3. CASE asks[v].key = a.key
      <4> DEFINE b == [asks[v] EXCEPT !.key = a.to, !.to = IF @ = a.key THEN a.to ELSE @]
      <4>1. asks'[v] = b
        BY <2>1, <2>9, <3>3 DEF Ends, OfRow
      <4>2. /\ DOMAIN b = AskFields /\ b.op = asks[v].op /\ b.key = a.to /\ b.given = asks[v].given
            /\ b.read = asks[v].read /\ b.gone = asks[v].gone
            /\ b.to = IF asks[v].to = a.key THEN a.to ELSE asks[v].to
        BY <3>1 DEF Task, AskFields
      <4> HIDE DEF b
      <4>3. Task(b)
        BY <1>1, <3>1, <3>3, <4>2 DEF Task
      <4>4. rules'[a.to] # NoRule
        BY <2>1, <2>2, <2>7
      <4> QED BY <4>1, <4>2, <4>3, <4>4 DEF There
    <3> QED BY <3>2, <3>3
  <2> QED BY <1>2, <2>5, <2>6, <2>8, <2>9
<1>7. CASE DropRow(w)
  <2>1. /\ rules' = [rules EXCEPT ![a.key] = NoRule]
        /\ Ends(w, [v \in Writers |-> IF OfRow(v, a.key) THEN [asks[v] EXCEPT !.gone = TRUE] ELSE asks[v]])
    BY <1>7 DEF DropRow
  <2>2. /\ rules' \in [Keys -> RuleRows \cup {NoRule}]
        /\ \A k \in Keys : k # a.key => rules'[k] = rules[k]
        /\ rules'[a.key] = NoRule
    BY <1>1, <2>1 DEF Task
  <2>3. \A x \in Regexes : rules'[x] # NoRule => rules'[x].label # "ignore"
    BY <2>2 DEF RuInv, Keys
  <2>4. DOMAIN asks' = Writers /\ asks'[w] = NoAsk
    BY <2>1 DEF Ends
  <2>5. ASSUME NEW v \in Writers, v # w, asks[v] # NoAsk
        PROVE  Task(asks'[v]) /\ There(asks[v])'
    <3>1. Task(asks[v]) /\ There(asks[v])
      BY <2>5 DEF RuInv
    <3>2. CASE asks[v].key # a.key
      <4>1. asks'[v] = asks[v]
        BY <2>1, <2>5, <3>2 DEF Ends, OfRow
      <4> QED BY <2>2, <3>1, <3>2, <4>1 DEF There, Task
    <3>3. CASE asks[v].key = a.key
      <4> DEFINE b == [asks[v] EXCEPT !.gone = TRUE]
      <4>1. asks'[v] = b
        BY <2>1, <2>5, <3>3 DEF Ends, OfRow
      <4>2. /\ DOMAIN b = AskFields /\ b.op = asks[v].op /\ b.key = asks[v].key
            /\ b.given = asks[v].given /\ b.read = asks[v].read /\ b.gone = TRUE /\ b.to = asks[v].to
        BY <3>1 DEF Task, AskFields
      <4> HIDE DEF b
      <4>3. Task(b)
        BY <3>1, <4>2 DEF Task
      <4> QED BY <4>1, <4>2, <4>3 DEF There
    <3> QED BY <3>2, <3>3
  <2> QED BY <1>2, <2>2, <2>3, <2>4, <2>5
<1> QED BY <1>4, <1>5, <1>6, <1>7 DEF CommitRule

(* What the engine says: certain of itself, it has a verdict of a kind, and *)
(* the certainty of a rule is the rule's own label's.                       *)
Tops == Topics \cup {"Income", "CC Payment", NoTopic}

LEMMA RulesTyped ==
  ASSUME RuInv, NEW db \in DbRules
  PROVE  RuleOf(db) # NoRule => RuleOf(db).label \in Labels /\ RuleOf(db).category \in Tops
<1>1. ASSUME NEW v \in Written PROVE v.label \in Labels /\ v.category \in Tops
  <2>1. PICK u \in Teachers : rules[u] # NoRule /\ v = Verdict(rules[u].label, rules[u].category)
    BY DEF Written
  <2>2. rules[u] \in RuleRows
    BY <2>1 DEF RuInv, Keys
  <2> QED BY <2>1, <2>2 DEF Verdict, RuleRows, Tops
<1>2. ASSUME NEW v \in Learned PROVE v.label \in Labels /\ v.category \in Tops
  <2>1. PICK k \in Kinds : v = Verdict(k[1], k[2])
    BY DEF Learned, Majority, RuInv
  <2>2. k[1] \in Labels /\ k[2] \in Tops
    BY DEF Kinds, Tops
  <2> QED BY <2>1, <2>2 DEF Verdict
<1>3. db # NoRule => db \in Written \/ db \in Learned
  BY DEF DbRules
<1>4. builtin # NoRule => builtin.label \in Labels /\ builtin.category \in Tops
  BY RulesAssumption DEF RuInv, Tops
<1> QED BY <1>1, <1>2, <1>3, <1>4 DEF RuleOf

LEMMA Capped == \A n \in Nat : /\ AtMost(62 + 12 * n, 90) \in Int /\ AtMost(62 + 12 * n, 90) <= 90
                               /\ AtMost(62 + 10 * n, 88) \in Int /\ AtMost(62 + 10 * n, 88) <= 88
BY DEF AtMost

(* An answer the engine may give with this rule.                            *)
Sound(x, rule, trust) ==
  /\ x.confidence >= 75 => x.label \in Labels /\ x.category \in Tops
  /\ x.confidence \in {92, 98} => x.confidence = trust /\ rule # NoRule /\ x.label = rule.label
\* A certainty that is no rule's.
NoRules(n) == n \in Int /\ n \notin {92, 98}

LEMMA EngineSays ==
  ASSUME RuInv, NEW m \in Letters, NEW db \in DbRules
  PROVE  Sound(ApplyRules(m, db), RuleOf(db), TrustOf(db))
<1>1. /\ "expense" \in Labels /\ "income" \in Labels /\ "ignore" \in Labels
      /\ "Income" \in Tops /\ NoTopic \in Tops
      /\ m.income \in Nat /\ m.expense \in Nat
  BY RulesAssumption DEF Tops
<1>2. PICK rule : rule = RuleOf(db)
  OBVIOUS
<1>3. PICK trust \in {92, 98} : trust = TrustOf(db)
  BY DEF TrustOf
<1>4. PICK topic \in Tops : topic = TopicOf(rule)
  BY <1>1, <1>2, RulesTyped DEF TopicOf
<1>5. rule # NoRule => rule.label \in Labels
  BY <1>2, RulesTyped
<1>6. /\ Earnings(m) \in Int /\ Earnings(m) <= 90
      /\ AtMost(62 + 10 * m.expense, 88) \in Int /\ AtMost(62 + 10 * m.expense, 88) <= 88
  <2>1. /\ AtMost(62 + 12 * m.income, 90) \in Int /\ AtMost(62 + 12 * m.income, 90) <= 90
        /\ AtMost(62 + 10 * m.expense, 88) \in Int /\ AtMost(62 + 10 * m.expense, 88) <= 88
    BY <1>1, Capped
  <2> QED BY <2>1 DEF Earnings
<1>7. ASSUME NEW l \in Labels, NEW c \in Tops, NEW n, NoRules(n)
      PROVE  Sound(Result(l, c, n), rule, trust)
  BY <1>7 DEF NoRules, Result, Sound
<1>8. ASSUME NEW l \in Labels, NEW c \in Tops, NEW low, NoRules(low)
      PROVE  Sound(Result(l, c, Trust(rule, l, trust, low)), rule, trust)
  <2>1. CASE rule # NoRule /\ rule.label = l
    BY <2>1 DEF Result, Trust, Sound
  <2>2. CASE ~(rule # NoRule /\ rule.label = l)
    <3>1. Trust(rule, l, trust, low) = low
      BY <2>2 DEF Trust
    <3> QED BY <1>7, <1>8, <3>1
  <2> QED BY <2>1, <2>2
<1>9. Sound(Unsure, rule, trust)
  BY DEF Unsure, Result, Sound
<1>10. Sound(ByWords(m), rule, trust)
  <2>1. /\ Sound(Result("ignore", NoTopic, 82), rule, trust)
        /\ Sound(Result("income", "Income", Earnings(m)), rule, trust)
        /\ Sound(Result("expense", NoTopic, AtMost(62 + 10 * m.expense, 88)), rule, trust)
    <3>1. NoRules(82) /\ NoRules(Earnings(m)) /\ NoRules(AtMost(62 + 10 * m.expense, 88))
      BY <1>6 DEF NoRules
    <3> QED BY <1>1, <1>7, <3>1
  <2> QED BY <1>9, <2>1 DEF ByWords
<1>11. Sound(ByMoney(m, rule, trust), rule, trust)
  <2> DEFINE c == IF topic = NoTopic THEN "Income" ELSE topic
  <2>1. c \in Tops
    BY <1>1
  <2> HIDE DEF c
  <2>2. /\ Sound(Result("income", c, Trust(rule, "income", trust, Earnings(m))), rule, trust)
        /\ Sound(Result("expense", topic, Trust(rule, "expense", trust, 88)), rule, trust)
    <3>1. NoRules(88) /\ NoRules(Earnings(m)) /\ "income" \in Labels /\ "expense" \in Labels
      BY <1>1, <1>6 DEF NoRules
    <3> QED BY <1>8, <2>1, <3>1
  <2> USE DEF c
  <2> QED BY <1>4, <1>9, <2>2 DEF ByMoney
<1>12. /\ Sound(Result("ignore", NoTopic, 85), rule, trust)
       /\ Sound(Result("ignore", "CC Payment", 95), rule, trust)
  <2>1. NoRules(85) /\ NoRules(95) /\ "ignore" \in Labels /\ NoTopic \in Tops
    BY <1>1 DEF NoRules
  <2>2. "CC Payment" \in Tops
    BY Zenon DEF Tops
  <2>3. PICK c \in Tops : c = "CC Payment"
    BY <2>2, Zenon
  <2>4. Sound(Result("ignore", c, 95), rule, trust)
    BY <1>7, <2>1
  <2>5. Sound(Result("ignore", "CC Payment", 95), rule, trust)
    BY <2>3, <2>4, Zenon
  <2>6. Sound(Result("ignore", NoTopic, 85), rule, trust)
    BY <1>7, <2>1
  <2> QED BY <2>5, <2>6, Zenon
<1>13. rule # NoRule => Sound(Result(rule.label, topic, trust), rule, trust)
  BY <1>5 DEF Result, Sound
<1> QED BY <1>2, <1>3, <1>4, <1>10, <1>11, <1>12, <1>13 DEF ApplyRules

LEMMA ImportRuleInv ==
  ASSUME RuInv, NEW m \in Letters, Import(m)
  PROVE  RuInv'
<1>1. PICK db \in DbRules :
        /\ Evidence(tally) < MaxEvidence /\ ApplyRules(m, db).confidence >= 75
        /\ tally' = [tally EXCEPT ![<<ApplyRules(m, db).label, ApplyRules(m, db).category>>] = @ + 1]
        /\ UNCHANGED <<builtin, rules, asks, writes>>
  BY DEF Import
<1>2. PICK k \in Kinds : k = <<ApplyRules(m, db).label, ApplyRules(m, db).category>>
  <2>1. ApplyRules(m, db).label \in Labels /\ ApplyRules(m, db).category \in Tops
    BY <1>1, EngineSays DEF Sound
  <2> QED BY <2>1, Zenon DEF Kinds, Tops
<1>3. tally \in [Kinds -> 0 .. MaxEvidence] /\ MaxEvidence \in Nat
  BY RulesAssumption DEF RuInv
<1>4. Evidence(tally) \in Nat /\ tally[k] <= Evidence(tally)
  BY <1>3, EvidenceCounts
<1>5. tally' = [tally EXCEPT ![k] = @ + 1]
  BY <1>1, <1>2, Zenon
<1>6. tally' \in [Kinds -> 0 .. MaxEvidence]
  BY <1>1, <1>3, <1>4, <1>5
<1> QED BY <1>1, <1>6 DEF RuInv, There, Task

LEMMA RuStepInv == RuInv /\ [RuNext]_ruVars => RuInv'
<1> SUFFICES ASSUME RuInv, [RuNext]_ruVars PROVE RuInv'
  OBVIOUS
<1>1. CASE UNCHANGED ruVars
  BY <1>1 DEF RuInv, There, Task, ruVars
<1>2. CASE \E w \in Writers : PutRule(w) \/ PatchRule(w) \/ PutPattern(w) \/ PatchPattern(w)
                              \/ RemoveRule(w) \/ CommitRule(w)
  BY <1>2, AskedInv, CommittedInv
<1>3. CASE \E m \in Letters : Import(m)
  BY <1>3, ImportRuleInv
<1> QED BY <1>1, <1>2, <1>3 DEF RuNext

LEMMA CertaintyHolds == RuInv => CertaintyOfRule
<1> SUFFICES ASSUME RuInv, NEW db \in DbRules, NEW m \in Letters
             PROVE  LET r == ApplyRules(m, db)
                    IN /\ r.confidence = 98 => db # NoRule /\ r.label = db.label
                       /\ r.confidence = 92 => db = NoRule /\ r.label = builtin.label
  BY DEF CertaintyOfRule
<1>1. Sound(ApplyRules(m, db), RuleOf(db), TrustOf(db))
  BY EngineSays
<1> QED BY <1>1 DEF Sound, RuleOf, TrustOf

(* What the tester shows holds the rule the engine took, if the domain has  *)
(* no other teacher.                                                        *)
LEMMA TesterHolds == RuInv => TesterExplains
<1> SUFFICES ASSUME RuInv, NEW u \in Teachers, NEW m \in Letters,
                    Learned = {}, \A v \in Teachers \ {u} : rules[v] = NoRule,
                    NEW t \in TestRules(u, m), t.classification.confidence \in {92, 98}
             PROVE  \E n \in t.matches : n.type # "pattern" /\ n.label = t.classification.label
  BY DEF TesterExplains
<1>1. PICK db \in DbRules : t = [matches |-> Shown(u), classification |-> ApplyRules(m, db)]
  BY DEF TestRules
<1>2. /\ RuleOf(db) # NoRule
      /\ t.classification.label = RuleOf(db).label /\ t.matches = Shown(u)
  BY <1>1, EngineSays DEF Sound
<1>3. CASE db = NoRule
  <2>1. Match("builtin_domain", builtin.label, TRUE) \in Shown(u) /\ RuleOf(db) = builtin
    <3>1. RuleOf(db) = builtin /\ builtin \in {builtin} \ {NoRule}
      BY <1>2, <1>3 DEF RuleOf
    <3>2. Match("builtin_domain", builtin.label, TRUE)
            \in {Match("builtin_domain", builtin.label, TRUE) : n \in {builtin} \ {NoRule}}
      <4> DEFINE found == Match("builtin_domain", builtin.label, TRUE)
                 S == {builtin} \ {NoRule}
      <4>1. builtin \in S
        BY <3>1
      <4> HIDE DEF found, S
      <4>2. found \in {found : n \in S}
        BY <4>1
      <4> QED BY <4>2 DEF found, S
    <3> QED BY <3>1, <3>2 DEF Shown
  <2> QED BY <1>2, <2>1 DEF Match
<1>4. CASE db # NoRule
  <2>1. db \in Written
    BY <1>4 DEF DbRules
  <2>2. PICK v \in Teachers : rules[v] # NoRule /\ db = Verdict(rules[v].label, rules[v].category)
    BY <2>1 DEF Written
  <2>3. v = u /\ db.label = rules[u].label /\ RuleOf(db) = db
    BY <1>4, <2>2 DEF Verdict, RuleOf
  <2>4. Match("sender_domain", rules[u].label, rules[u].enabled) \in Shown(u)
    BY <2>2, <2>3 DEF Shown
  <2> QED BY <1>2, <2>3, <2>4 DEF Match
<1> QED BY <1>3, <1>4

LEMMA RuInvGives == RuInv => RuTypeOK /\ RulesAgree
<1> SUFFICES ASSUME RuInv PROVE RuTypeOK /\ RulesAgree
  OBVIOUS
<1>1. RuTypeOK
  <2>1. ASSUME NEW k \in Keys, rules[k] # NoRule
        PROVE  /\ rules[k].label \in Labels /\ rules[k].category \in Topics \cup {NoTopic}
               /\ rules[k].enabled \in BOOLEAN /\ (k \in Regexes => rules[k].label # "ignore")
    BY <2>1 DEF RuInv, RuleRows
  <2>2. \A w \in Writers : asks[w] # NoAsk => asks[w].key \in Keys /\ asks[w].to \in Keys
    BY DEF RuInv, Task
  <2> QED BY <2>1, <2>2 DEF RuTypeOK, RuInv
<1>2. LearnedOnce
  <2>1. tally \in [Kinds -> 0 .. MaxEvidence] /\ MaxEvidence \in Nat
    BY RulesAssumption DEF RuInv
  <2> QED BY <2>1, LearnedIsOne DEF LearnedOnce, Grown
<1> QED BY <1>1, <1>2, CertaintyHolds, TesterHolds DEF RulesAgree

(* However rules come about, whoever's they are and whichever requests      *)
(* overlap: a domain learns one verdict and keeps it, a rule's certainty    *)
(* goes with the rule's label, and the tester names the rule.               *)
THEOREM RulesAreOne == RuSpec => [](RuTypeOK /\ RulesAgree)
<1>1. RuInit => RuInv
  BY RuInitInv
<1>2. RuInv /\ [RuNext]_ruVars => RuInv'
  BY RuStepInv
<1>3. RuInv => RuTypeOK /\ RulesAgree
  BY RuInvGives
<1> QED BY <1>1, <1>2, <1>3, PTL DEF RuSpec

-----------------------------------------------------------------------------
(* Lists.  A request has checked its values against the rows it has read;   *)
(* what it read of a debt was a row.                                        *)
Unlike(ns, seen, c) == \A n \in ns : \A d \in Kept(seen) \ {c} : ~Alike(seen[d], n)
Wish(o) ==
  \/ o = NoOrder
  \/ o.op = "debt" /\ o.id \in Debts /\ o.body \in Bodies /\ Accepted(o.body) /\ o.seen \in Owings
  \/ o.op = "gift" /\ o.id \in Goals /\ o.amount \in Positive
  \/ /\ o.op = "cats" /\ o.names \subseteq Names /\ Unlike(o.names, o.seen, Unborn)
     /\ \A n, m \in o.names : n # m => ~Alike(n, m)
  \/ /\ o.op = "rename" /\ o.id \in Cats /\ o.name \in Names /\ DOMAIN o.seen = Cats
     /\ Unlike({o.name}, o.seen, o.id)

OrderPart ==
  /\ DOMAIN order = Planners
  /\ \A p \in Planners : Wish(order[p]) /\ (order[p].op = "debt" => debt[order[p].id] # Unborn)
DebtPart ==
  /\ debt \in [Debts -> Owings \cup NoRows]
  /\ \A d \in Kept(debt) \ stale : debt[d].paid <= debt[d].total
CatPart ==
  /\ cat \in [Cats -> Names \cup NoRows]
  /\ \A c, d \in Kept(cat) \ stale : c # d => ~Alike(cat[c], cat[d])
GiftPart ==
  /\ goal \in [Goals -> Targets \cup NoRows] /\ gift \in [Gifts -> Donations \cup NoRows]
  /\ \A i \in Kept(gift) \ stale : goal[gift[i].goal] # Gone
LinkPart == links \subseteq Names \X Names
PlInv == /\ OrderPart /\ DebtPart /\ CatPart /\ GiftPart /\ LinkPart
         /\ asked \in 0 .. MaxAsked
SubPart == DOMAIN sub = Subs /\ \A s \in Kept(sub) : sub[s].amount \in Int \cup {Unborn}

LEMMA PlInitInv == PlInit => PlInv
<1> SUFFICES ASSUME PlInit PROVE PlInv
  OBVIOUS
<1>1. OrderPart
  BY DEF PlInit, OrderPart, Wish, NoOrder
<1>2. DebtPart /\ CatPart
  BY PlansAssumption DEF PlInit, DebtPart, CatPart
<1>3. GiftPart
  BY PlansAssumption DEF PlInit, GiftPart
<1>4. LinkPart /\ asked \in 0 .. MaxAsked
  BY PlansAssumption DEF PlInit, LinkPart
<1> QED BY <1>1, <1>2, <1>3, <1>4 DEF PlInv

(* A part whose rows stay is left alone by whatever adds to the stale ones  *)
(* or takes another table's away.                                           *)
LEMMA DebtsAlone ==
  ASSUME DebtPart, UNCHANGED debt, \A d \in Debts : d \in stale => d \in stale'
  PROVE  DebtPart'
BY DEF DebtPart, Kept
LEMMA CatsAlone ==
  ASSUME CatPart, UNCHANGED cat, \A d \in Cats : d \in stale => d \in stale'
  PROVE  CatPart'
BY DEF CatPart, Kept
LEMMA GiftsAlone ==
  ASSUME GiftPart, UNCHANGED <<goal, gift>>, \A d \in Gifts : d \in stale => d \in stale'
  PROVE  GiftPart'
BY DEF GiftPart, Kept
LEMMA OrdersAlone ==
  ASSUME OrderPart, UNCHANGED <<order, debt>>
  PROVE  OrderPart'
<1>1. order' = order /\ debt' = debt
  OBVIOUS
<1>2. \A p \in Planners : Wish(order'[p]) /\ (order'[p].op = "debt" => debt'[order'[p].id] # Unborn)
  BY <1>1 DEF OrderPart
<1> QED BY <1>1, <1>2 DEF OrderPart, Wish

LEMMA StartsBound ==
  ASSUME Starts, asked \in 0 .. MaxAsked
  PROVE  asked' \in 0 .. MaxAsked
BY PlansAssumption DEF Starts

LEMMA RowIsNoEnd ==
  /\ \A q \in Targets \cup Names \cup Donations \cup Owings : q \notin NoRows
  /\ Unborn \in NoRows /\ Gone \in NoRows /\ Unborn # Gone
BY PlansAssumption DEF NoRows, Targets

LEMMA OpenedInv ==
  ASSUME PlInv, NEW p \in Planners, NEW o, Opened(p, o), Wish(o),
         o.op = "debt" => debt[o.id] # Unborn
  PROVE  PlInv'
<1>1. /\ Starts /\ order' = [order EXCEPT ![p] = o]
      /\ UNCHANGED <<goal, gift, debt, cat, links, stale>>
  BY DEF Opened, rowsKept
<1>2. OrderPart'
  <2>1. DOMAIN order' = Planners /\ order'[p] = o /\ \A q \in Planners : q # p => order'[q] = order[q]
    BY <1>1 DEF PlInv, OrderPart
  <2>2. ASSUME NEW q \in Planners
        PROVE  Wish(order'[q]) /\ (order'[q].op = "debt" => debt[order'[q].id] # Unborn)
    BY <2>1 DEF PlInv, OrderPart
  <2> QED BY <1>1, <2>1, <2>2 DEF OrderPart, Wish
<1>3. DebtPart' /\ CatPart' /\ GiftPart' /\ LinkPart'
  BY <1>1, DebtsAlone, CatsAlone, GiftsAlone DEF PlInv, LinkPart
<1> QED BY <1>1, <1>2, <1>3, StartsBound DEF PlInv

LEMMA OpensKeep ==
  ASSUME PlInv, NEW p \in Planners,
         OpenDebt(p) \/ OpenGift(p) \/ OpenCategory(p) \/ OpenGenerate(p) \/ OpenRename(p)
  PROVE  PlInv'
<1>0. /\ DebtPart /\ CatPart /\ GiftPart
      /\ Kept(cat) \ {Unborn} = Kept(cat)
  BY PlansAssumption DEF PlInv, CatPart, Kept
<1>1. CASE OpenDebt(p)
  <2>1. PICK d \in Kept(debt), b \in Bodies :
          Accepted(b) /\ Opened(p, [op |-> "debt", id |-> d, seen |-> debt[d], body |-> b])
    BY <1>1 DEF OpenDebt
  <2> DEFINE o == [op |-> "debt", id |-> d, seen |-> debt[d], body |-> b]
  <2>2. d \in Debts /\ debt[d] \in Owings /\ debt[d] # Unborn
    BY <1>0 DEF DebtPart, Kept, NoRows
  <2>3. o.op = "debt" /\ o.id = d /\ o.seen = debt[d] /\ o.body = b
    OBVIOUS
  <2> HIDE DEF o
  <2>4. Wish(o)
    BY <2>1, <2>2, <2>3 DEF Wish
  <2>5. Opened(p, o)
    BY <2>1 DEF o
  <2> QED BY <2>2, <2>3, <2>4, <2>5, OpenedInv
<1>2. CASE OpenGift(p)
  <2>1. PICK g \in Kept(goal), a \in Positive :
          Opened(p, [op |-> "gift", id |-> g, seen |-> goal[g], amount |-> a])
    BY <1>2 DEF OpenGift
  <2> DEFINE o == [op |-> "gift", id |-> g, seen |-> goal[g], amount |-> a]
  <2>2. g \in Goals
    BY <1>0 DEF GiftPart, Kept
  <2>3. o.op = "gift" /\ o.id = g /\ o.amount = a
    OBVIOUS
  <2> HIDE DEF o
  <2>4. Wish(o)
    BY <2>2, <2>3 DEF Wish
  <2>5. Opened(p, o)
    BY <2>1 DEF o
  <2> QED BY <2>3, <2>4, <2>5, OpenedInv
<1>3. ASSUME NEW ns \in SUBSET Names, \A n \in ns : ~Clashes(n, Unborn),
             \A n, m \in ns : n # m => ~Alike(n, m),
             Opened(p, [op |-> "cats", names |-> ns, seen |-> cat])
      PROVE  PlInv'
  <2> DEFINE o == [op |-> "cats", names |-> ns, seen |-> cat]
  <2>1. o.op = "cats" /\ o.names = ns /\ o.seen = cat
    OBVIOUS
  <2> HIDE DEF o
  <2>2. Unlike(ns, cat, Unborn)
    BY <1>3 DEF Unlike, Clashes
  <2>3. Wish(o)
    BY <1>3, <2>1, <2>2 DEF Wish
  <2>4. Opened(p, o)
    BY <1>3 DEF o
  <2> QED BY <2>1, <2>3, <2>4, OpenedInv
<1>4. CASE OpenCategory(p)
  <2>1. PICK n \in Names : ~Clashes(n, Unborn)
                           /\ Opened(p, [op |-> "cats", names |-> {n}, seen |-> cat])
    BY <1>4 DEF OpenCategory
  <2> QED BY <1>3, <2>1
<1>5. CASE OpenGenerate(p)
  <2>1. PICK used \in SUBSET Names :
          Opened(p, [op |-> "cats", names |-> {n \in {Titled[m] : m \in used} : ~Clashes(n, Unborn)},
                     seen |-> cat])
    BY <1>5 DEF OpenGenerate
  <2> DEFINE ns == {n \in {Titled[m] : m \in used} : ~Clashes(n, Unborn)}
  <2>2. ns \in SUBSET Names /\ \A n \in ns : ~Clashes(n, Unborn)
    BY PlansAssumption
  <2>3. \A n, m \in ns : n # m => ~Alike(n, m)
    BY PlansAssumption
  <2> HIDE DEF ns
  <2>4. Opened(p, [op |-> "cats", names |-> ns, seen |-> cat])
    BY <2>1 DEF ns
  <2> QED BY <1>3, <2>2, <2>3, <2>4
<1>6. CASE OpenRename(p)
  <2>1. PICK c \in Kept(cat), n \in Names :
          ~Clashes(n, c) /\ Opened(p, [op |-> "rename", id |-> c, name |-> n, seen |-> cat])
    BY <1>6 DEF OpenRename
  <2> DEFINE o == [op |-> "rename", id |-> c, name |-> n, seen |-> cat]
  <2>2. o.op = "rename" /\ o.id = c /\ o.name = n /\ o.seen = cat
    OBVIOUS
  <2> HIDE DEF o
  <2>3. Unlike({n}, cat, c) /\ c \in Cats /\ DOMAIN cat = Cats
    BY <1>0, <2>1 DEF Unlike, Clashes, CatPart, Kept
  <2>4. Wish(o)
    BY <2>2, <2>3 DEF Wish
  <2>5. Opened(p, o)
    BY <2>1 DEF o
  <2> QED BY <2>2, <2>4, <2>5, OpenedInv
<1> QED BY <1>1, <1>2, <1>4, <1>5, <1>6

LEMMA WishGives ==
  ASSUME NEW o, Wish(o)
  PROVE  /\ o.op = "debt" => /\ o.id \in Debts /\ o.body \in Bodies /\ Accepted(o.body)
                             /\ o.seen \in Owings
         /\ o.op = "gift" => o.id \in Goals /\ o.amount \in Positive
         /\ o.op = "cats" => /\ o.names \subseteq Names /\ Unlike(o.names, o.seen, Unborn)
                             /\ \A n, m \in o.names : n # m => ~Alike(n, m)
         /\ o.op = "rename" => /\ o.id \in Cats /\ o.name \in Names /\ DOMAIN o.seen = Cats
                               /\ Unlike({o.name}, o.seen, o.id)
<1>1. o = NoOrder => o.op = "none"
  BY DEF NoOrder
<1> QED BY <1>1 DEF Wish

LEMMA SumsAreNumbers ==
  /\ \A a \in Positive : a \in Targets
  /\ \A b \in Bodies : Accepted(b) => b["total"] \in Targets /\ b["paid"] \in Nat /\ b["paid"] <= b["total"]
<1>1. \A a \in Sums : a \in Int
  BY PlansAssumption
<1> QED BY <1>1 DEF Positive, Targets, Bodies, Accepted

LEMMA ClosedInv ==
  ASSUME OrderPart, NEW p \in Planners, Closed(p),
         \A d \in Debts : debt[d] # Unborn => debt'[d] # Unborn
  PROVE  OrderPart'
<1>1. DOMAIN order' = Planners /\ order'[p] = NoOrder /\ \A q \in Planners : q # p => order'[q] = order[q]
  BY DEF Closed, OrderPart
<1>2. Wish(NoOrder) /\ NoOrder.op = "none"
  BY DEF Wish, NoOrder
<1>3. ASSUME NEW q \in Planners, order[q].op = "debt" PROVE order[q].id \in Debts
  BY <1>3, WishGives DEF OrderPart
<1>4. ASSUME NEW q \in Planners
      PROVE  Wish(order'[q]) /\ (order'[q].op = "debt" => debt'[order'[q].id] # Unborn)
  <2>1. CASE q = p
    BY <1>1, <1>2, <2>1
  <2>2. CASE q # p
    BY <1>1, <1>3, <2>2 DEF OrderPart
  <2> QED BY <2>1, <2>2
<1> QED BY <1>1, <1>4 DEF OrderPart, Wish

LEMMA DebtSaved ==
  ASSUME PlInv, NEW p \in Planners, SaveDebt(p)
  PROVE  PlInv'
<1> DEFINE o == order[p]
           filled == [k \in {"total", "paid"} |-> IF o.body[k] # o.seen[k] THEN o.body[k] ELSE debt[o.id][k]]
<1>1. /\ OrderPart /\ DebtPart /\ CatPart /\ GiftPart /\ LinkPart
      /\ o.op = "debt" /\ Closed(p) /\ UNCHANGED <<goal, gift, cat, links, asked>>
  BY DEF PlInv, SaveDebt
<1>2. /\ o.id \in Debts /\ o.body \in Bodies /\ Accepted(o.body) /\ o.seen \in Owings
      /\ debt[o.id] # Unborn
  <2>1. Wish(o) /\ debt[o.id] # Unborn
    BY <1>1 DEF OrderPart
  <2> QED BY <1>1, <2>1, WishGives
<1>3. CASE debt[o.id] = Gone
  <2>1. UNCHANGED <<debt, stale>>
    BY <1>3 DEF SaveDebt
  <2>2. DebtPart' /\ CatPart' /\ GiftPart' /\ LinkPart'
    BY <1>1, <2>1, DebtsAlone, CatsAlone, GiftsAlone DEF LinkPart
  <2> QED BY <1>1, <2>1, <2>2, ClosedInv DEF PlInv
<1>4. CASE debt[o.id] # Gone
  <2>1. /\ debt' = [debt EXCEPT ![o.id] = filled]
        /\ stale' = IF debt[o.id] # o.seen THEN stale \cup {o.id} ELSE stale \ {o.id}
    BY <1>4 DEF SaveDebt
  <2>2. debt[o.id] \in Owings
    BY <1>1, <1>2, <1>4 DEF DebtPart, NoRows
  <2>3. /\ filled["total"] \in Targets /\ filled["paid"] \in Nat /\ filled = [total |-> filled["total"], paid |-> filled["paid"]]
        /\ debt[o.id] = o.seen => filled["paid"] <= filled["total"]
    <3>1. /\ o.body["total"] \in Targets /\ o.body["paid"] \in Nat /\ o.body["paid"] <= o.body["total"]
      BY <1>2, SumsAreNumbers
    <3>2. o.seen["total"] \in Targets /\ o.seen["paid"] \in Nat
      BY <1>2 DEF Owings
    <3>3. debt[o.id]["total"] \in Targets /\ debt[o.id]["paid"] \in Nat
      BY <2>2 DEF Owings
    <3> QED BY <3>1, <3>2, <3>3
  <2> HIDE DEF filled
  <2>4. filled \in Owings /\ filled.paid = filled["paid"] /\ filled.total = filled["total"]
    BY <2>3 DEF Owings
  <2>5. filled # Unborn /\ filled # Gone
    BY <2>4, RowIsNoEnd DEF NoRows
  <2>6. /\ debt' \in [Debts -> Owings \cup NoRows] /\ debt'[o.id] = filled
        /\ \A d \in Debts : d # o.id => debt'[d] = debt[d]
    BY <1>1, <1>2, <2>1, <2>4 DEF DebtPart
  <2>7. DebtPart'
    <3>1. ASSUME NEW d \in Debts, debt'[d] \notin NoRows, d \notin stale' PROVE debt'[d].paid <= debt'[d].total
      <4>1. CASE d = o.id
        BY <2>1, <2>3, <2>4, <2>6, <3>1, <4>1
      <4>2. CASE d # o.id
        <5>1. debt'[d] = debt[d] /\ d \notin stale
          BY <2>1, <2>6, <3>1, <4>2
        <5> QED BY <1>1, <3>1, <5>1 DEF DebtPart, Kept, NoRows
      <4> QED BY <4>1, <4>2
    <3> QED BY <2>6, <3>1 DEF DebtPart, Kept, NoRows
  <2>8. CatPart' /\ GiftPart' /\ LinkPart'
    <3>1. o.id \notin Cats /\ o.id \notin Gifts
      BY <1>2, PlansAssumption
    <3>2. \A d : d # o.id => (d \in stale => d \in stale')
      BY <2>1
    <3> QED BY <1>1, <3>1, <3>2, CatsAlone, GiftsAlone DEF LinkPart
  <2>9. \A d \in Debts : debt[d] # Unborn => debt'[d] # Unborn
    BY <2>5, <2>6
  <2> QED BY <1>1, <2>7, <2>8, <2>9, ClosedInv DEF PlInv
<1> QED BY <1>3, <1>4

LEMMA GiftSaved ==
  ASSUME PlInv, NEW p \in Planners, SaveGift(p)
  PROVE  PlInv'
<1> DEFINE o == order[p]
<1>1. /\ OrderPart /\ DebtPart /\ CatPart /\ GiftPart /\ LinkPart
      /\ o.op = "gift" /\ Closed(p) /\ UNCHANGED <<goal, debt, cat, links, asked>>
  BY DEF PlInv, SaveGift
<1>2. o.id \in Goals /\ o.amount \in Targets
  <2>1. Wish(o)
    BY DEF PlInv, OrderPart
  <2> QED BY <1>1, <2>1, WishGives, SumsAreNumbers
<1>3. OrderPart'
  BY <1>1, ClosedInv
<1>4. CASE UNCHANGED <<gift, stale>>
  <2>1. DebtPart' /\ CatPart' /\ GiftPart' /\ LinkPart'
    BY <1>1, <1>4, DebtsAlone, CatsAlone, GiftsAlone DEF LinkPart
  <2> QED BY <1>1, <1>3, <2>1 DEF PlInv
<1>5. CASE ~(UNCHANGED <<gift, stale>>)
  <2> DEFINE filled == [goal |-> o.id, amount |-> o.amount]
  <2>1. PICK i \in Gifts :
          /\ gift[i] = Unborn /\ gift' = [gift EXCEPT ![i] = filled]
          /\ stale' = IF goal[o.id] = Gone THEN stale \cup {i} ELSE stale
    BY <1>5 DEF SaveGift
  <2>2. filled \in Donations /\ filled.goal = o.id
    BY <1>2 DEF Donations
  <2> HIDE DEF filled
  <2>3. /\ gift' \in [Gifts -> Donations \cup NoRows] /\ gift'[i] = filled
        /\ \A j \in Gifts : j # i => gift'[j] = gift[j]
    BY <1>1, <2>1, <2>2 DEF GiftPart
  <2>4. ASSUME NEW j \in Gifts, gift'[j] \notin NoRows, j \notin stale' PROVE goal[gift'[j].goal] # Gone
    <3>1. CASE j = i
      BY <2>1, <2>2, <2>3, <2>4, <3>1
    <3>2. CASE j # i
      <4>1. gift'[j] = gift[j] /\ j \notin stale
        BY <2>1, <2>3, <2>4, <3>2
      <4> QED BY <1>1, <2>4, <4>1 DEF GiftPart, Kept, NoRows
    <3> QED BY <3>1, <3>2
  <2>5. GiftPart'
    BY <1>1, <2>3, <2>4 DEF GiftPart, Kept, NoRows
  <2>6. \A d : d \in stale => d \in stale'
    BY <2>1
  <2>7. DebtPart' /\ CatPart' /\ LinkPart'
    BY <1>1, <2>6, DebtsAlone, CatsAlone DEF LinkPart
  <2> QED BY <1>1, <1>3, <2>5, <2>7 DEF PlInv
<1> QED BY <1>4, <1>5

LEMMA CategoriesSaved ==
  ASSUME PlInv, NEW p \in Planners, SaveCategories(p)
  PROVE  PlInv'
<1> DEFINE o == order[p]
<1>1. /\ OrderPart /\ DebtPart /\ CatPart /\ GiftPart /\ LinkPart
      /\ o.op = "cats" /\ Closed(p) /\ UNCHANGED <<goal, gift, debt, links, asked>>
  BY DEF PlInv, SaveCategories
<1>2. /\ o.names \subseteq Names /\ Unlike(o.names, o.seen, Unborn)
      /\ \A n, m \in o.names : n # m => ~Alike(n, m)
  <2>1. Wish(o)
    BY <1>1 DEF OrderPart
  <2> QED BY <1>1, <2>1, WishGives
<1>3. OrderPart'
  BY <1>1, ClosedInv
<1>4. CASE UNCHANGED <<cat, stale>>
  <2>1. DebtPart' /\ CatPart' /\ GiftPart' /\ LinkPart'
    BY <1>1, <1>4, DebtsAlone, CatsAlone, GiftsAlone DEF LinkPart
  <2> QED BY <1>1, <1>3, <2>1 DEF PlInv
<1>5. CASE ~(UNCHANGED <<cat, stale>>)
  <2>1. PICK at \in Injection(o.names, {c \in Cats : cat[c] = Unborn}) :
          /\ cat' = [c \in Cats |-> IF c \in Range(at) THEN Inverse(at, o.names, Cats)[c] ELSE cat[c]]
          /\ stale' = IF cat # o.seen THEN stale \cup Range(at) ELSE stale
    BY <1>5 DEF SaveCategories
  <2>2. /\ at \in [o.names -> {c \in Cats : cat[c] = Unborn}]
        /\ \A n, m \in o.names : at[n] = at[m] => n = m
    BY DEF Injection, IsInjective
  <2>3. ASSUME NEW c \in Cats, c \in Range(at)
        PROVE  \E n \in o.names : at[n] = c /\ cat'[c] = n
    <3>1. PICK n \in o.names : at[n] = c
      BY <2>2, <2>3 DEF Range
    <3>2. cat'[c] = CHOOSE s \in o.names : c \in Range(at) => at[s] = c
      BY <2>1, <2>3 DEF Inverse
    <3> QED BY <2>3, <3>1, <3>2
  <2>4. \A c \in Cats : c \notin Range(at) => cat'[c] = cat[c]
    BY <2>1
  <2>5. cat' \in [Cats -> Names \cup NoRows]
    <3>1. \A c \in Cats : cat'[c] \in Names \cup NoRows
      BY <1>1, <1>2, <2>3, <2>4 DEF CatPart
    <3>2. DOMAIN cat' = Cats /\ cat' = [c \in Cats |-> cat'[c]]
      BY <2>1
    <3> QED BY <3>1, <3>2
  <2>6. ASSUME NEW c \in Cats, cat'[c] \notin NoRows, c \notin stale', c \in Range(at),
               NEW d \in Cats, cat'[d] \notin NoRows, d \notin stale', c # d
        PROVE  ~Alike(cat'[c], cat'[d]) /\ ~Alike(cat'[d], cat'[c])
    <3>1. cat = o.seen
      BY <2>1, <2>6
    <3>2. PICK n \in o.names : at[n] = c /\ cat'[c] = n
      BY <2>3, <2>6
    <3>3. CASE d \in Range(at)
      <4>1. PICK m \in o.names : at[m] = d /\ cat'[d] = m
        BY <2>3, <3>3
      <4> QED BY <1>2, <2>6, <3>2, <4>1
    <3>4. CASE d \notin Range(at)
      <4>1. cat'[d] = cat[d] /\ d \in Kept(cat) \ {Unborn}
        BY <1>1, <2>4, <2>6, <3>4, PlansAssumption DEF Kept, CatPart, NoRows
      <4>2. ~Alike(cat[d], n)
        BY <1>2, <3>1, <4>1 DEF Unlike
      <4> QED BY <3>2, <4>1, <4>2 DEF Alike
    <3> QED BY <3>3, <3>4
  <2>7. CatPart'
    <3>1. ASSUME NEW c \in Cats, cat'[c] \notin NoRows, c \notin stale',
                 NEW d \in Cats, cat'[d] \notin NoRows, d \notin stale', c # d
          PROVE  ~Alike(cat'[c], cat'[d])
      <4>1. CASE c \in Range(at) \/ d \in Range(at)
        BY <2>6, <3>1, <4>1
      <4>2. CASE c \notin Range(at) /\ d \notin Range(at)
        <5>1. cat'[c] = cat[c] /\ cat'[d] = cat[d] /\ c \notin stale /\ d \notin stale
          BY <2>1, <2>4, <3>1, <4>2
        <5>2. c \in Kept(cat) \ stale /\ d \in Kept(cat) \ stale
          BY <1>1, <3>1, <5>1 DEF CatPart, Kept, NoRows
        <5> QED BY <1>1, <3>1, <5>1, <5>2 DEF CatPart
      <4> QED BY <4>1, <4>2
    <3>2. \A c : c \in Kept(cat') \ stale' => c \in Cats /\ cat'[c] \notin NoRows /\ c \notin stale'
      BY <2>5 DEF Kept, NoRows
    <3> QED BY <2>5, <3>1, <3>2 DEF CatPart, Kept
  <2>8. \A d : d \in stale => d \in stale'
    BY <2>1
  <2>9. DebtPart' /\ GiftPart' /\ LinkPart'
    BY <1>1, <2>8, DebtsAlone, GiftsAlone DEF LinkPart
  <2> QED BY <1>1, <1>3, <2>7, <2>9 DEF PlInv
<1> QED BY <1>4, <1>5

LEMMA NameSaved ==
  ASSUME PlInv, NEW p \in Planners, SaveName(p)
  PROVE  PlInv'
<1> DEFINE o == order[p]
<1>1. /\ OrderPart /\ DebtPart /\ CatPart /\ GiftPart /\ LinkPart
      /\ o.op = "rename" /\ Closed(p) /\ UNCHANGED <<goal, gift, debt, links, asked>>
  BY DEF PlInv, SaveName
<1>2. /\ o.id \in Cats /\ o.name \in Names /\ DOMAIN o.seen = Cats
      /\ Unlike({o.name}, o.seen, o.id)
  <2>1. Wish(o)
    BY <1>1 DEF OrderPart
  <2> QED BY <1>1, <2>1, WishGives
<1>3. OrderPart'
  BY <1>1, ClosedInv
<1>4. CASE UNCHANGED <<cat, stale>>
  <2>1. DebtPart' /\ CatPart' /\ GiftPart' /\ LinkPart'
    BY <1>1, <1>4, DebtsAlone, CatsAlone, GiftsAlone DEF LinkPart
  <2> QED BY <1>1, <1>3, <2>1 DEF PlInv
<1>5. CASE ~(UNCHANGED <<cat, stale>>)
  <2>1. /\ cat' = [cat EXCEPT ![o.id] = o.name]
        /\ stale' = IF OthersChanged(o.seen, o.id) THEN stale \cup {o.id} ELSE stale \ {o.id}
    BY <1>5 DEF SaveName
  <2>2. /\ cat' \in [Cats -> Names \cup NoRows] /\ cat'[o.id] = o.name
        /\ \A c \in Cats : c # o.id => cat'[c] = cat[c]
    BY <1>1, <1>2, <2>1 DEF CatPart
  <2>3. ASSUME o.id \notin stale', NEW d \in Cats, cat'[d] \notin NoRows, d # o.id
        PROVE  ~Alike(cat'[d], o.name) /\ ~Alike(o.name, cat'[d])
    <3>1. cat'[d] = cat[d] /\ cat[d] = o.seen[d]
      BY <2>1, <2>2, <2>3 DEF OthersChanged
    <3>2. ~Alike(o.seen[d], o.name)
      BY <1>2, <2>3, <3>1 DEF Unlike, Kept, NoRows
    <3> QED BY <3>1, <3>2 DEF Alike
  <2>4. CatPart'
    <3>1. ASSUME NEW c \in Cats, cat'[c] \notin NoRows, c \notin stale',
                 NEW d \in Cats, cat'[d] \notin NoRows, d \notin stale', c # d
          PROVE  ~Alike(cat'[c], cat'[d])
      <4>1. CASE c = o.id \/ d = o.id
        BY <2>2, <2>3, <3>1, <4>1
      <4>2. CASE c # o.id /\ d # o.id
        <5>1. cat'[c] = cat[c] /\ cat'[d] = cat[d] /\ c \notin stale /\ d \notin stale
          BY <2>1, <2>2, <3>1, <4>2
        <5>2. c \in Kept(cat) \ stale /\ d \in Kept(cat) \ stale
          BY <1>1, <3>1, <5>1 DEF CatPart, Kept, NoRows
        <5> QED BY <1>1, <3>1, <5>1, <5>2 DEF CatPart
      <4> QED BY <4>1, <4>2
    <3>2. \A c : c \in Kept(cat') \ stale' => c \in Cats /\ cat'[c] \notin NoRows /\ c \notin stale'
      BY <2>2 DEF Kept, NoRows
    <3> QED BY <2>2, <3>1, <3>2 DEF CatPart, Kept
  <2>5. o.id \notin Debts /\ o.id \notin Gifts
    BY <1>2, PlansAssumption
  <2>6. \A d : d # o.id => (d \in stale => d \in stale')
    BY <2>1
  <2>7. DebtPart' /\ GiftPart' /\ LinkPart'
    BY <1>1, <2>5, <2>6, DebtsAlone, GiftsAlone DEF LinkPart
  <2> QED BY <1>1, <1>3, <2>4, <2>7 DEF PlInv
<1> QED BY <1>4, <1>5

(* The handlers nobody can come between.                                    *)
LEMMA DebtsAtOnce ==
  ASSUME PlInv, AddDebt \/ DropDebt
  PROVE  PlInv'
<1>1. /\ OrderPart /\ DebtPart /\ CatPart /\ GiftPart /\ LinkPart
      /\ Starts /\ UNCHANGED <<order, goal, gift, cat, links, stale>>
  BY DEF PlInv, AddDebt, DropDebt, AtOnce
<1>2. PICK d \in Debts, q \in Owings \cup {Gone} :
        debt' = [debt EXCEPT ![d] = q] /\ (q # Gone => q.paid <= q.total)
  <2>1. CASE AddDebt
    <3>1. PICK d \in Debts, b \in Bodies : Accepted(b) /\ debt' = [debt EXCEPT ![d] = b]
      BY <2>1 DEF AddDebt
    <3>2. b = [total |-> b["total"], paid |-> b["paid"]] /\ b.paid = b["paid"] /\ b.total = b["total"]
      BY DEF Bodies
    <3>3. b \in Owings /\ b.paid <= b.total
      BY <3>1, <3>2, SumsAreNumbers DEF Owings
    <3> QED BY <3>1, <3>3
  <2>2. CASE DropDebt
    BY <1>1, <2>2 DEF DropDebt, DebtPart, Kept
  <2> QED BY <2>1, <2>2
<1>3. /\ debt' \in [Debts -> Owings \cup NoRows] /\ debt'[d] = q
      /\ \A e \in Debts : e # d => debt'[e] = debt[e]
  BY <1>1, <1>2 DEF DebtPart, NoRows
<1>4. DebtPart'
  <2>1. ASSUME NEW e \in Debts, debt'[e] \notin NoRows, e \notin stale PROVE debt'[e].paid <= debt'[e].total
    BY <1>1, <1>2, <1>3, <2>1 DEF DebtPart, Kept, NoRows
  <2> QED BY <1>1, <1>3, <2>1 DEF DebtPart, Kept, NoRows
<1>5. OrderPart'
  <2>1. q # Unborn
    BY RowIsNoEnd
  <2>2. \A p \in Planners : order[p].op = "debt" => order[p].id \in Debts
    BY <1>1, WishGives DEF OrderPart
  <2>3. order' = order
    BY <1>1
  <2>4. \A p \in Planners :
          Wish(order'[p]) /\ (order'[p].op = "debt" => debt'[order'[p].id] # Unborn)
    BY <1>1, <1>3, <2>1, <2>2, <2>3 DEF OrderPart
  <2> QED BY <1>1, <2>3, <2>4 DEF OrderPart, Wish
<1>6. CatPart' /\ GiftPart' /\ LinkPart'
  BY <1>1, CatsAlone, GiftsAlone DEF LinkPart
<1> QED BY <1>1, <1>4, <1>5, <1>6, StartsBound DEF PlInv

LEMMA GoalsAtOnce ==
  ASSUME PlInv, AddGoal \/ SetTarget \/ DropGoal
  PROVE  PlInv'
<1>1. /\ OrderPart /\ DebtPart /\ CatPart /\ GiftPart /\ LinkPart
      /\ Starts /\ UNCHANGED <<order, debt, cat, links, stale>>
  BY DEF PlInv, AddGoal, SetTarget, DropGoal, AtOnce
<1>2. GiftPart'
  <2>1. CASE AddGoal \/ SetTarget
    <3>1. PICK g \in Goals, a \in Targets : goal' = [goal EXCEPT ![g] = a] /\ UNCHANGED gift
      BY <1>1, <2>1, SumsAreNumbers DEF AddGoal, SetTarget, GiftPart, Kept
    <3>2. /\ goal' \in [Goals -> Targets \cup NoRows]
          /\ \A h \in Goals : goal[h] # Gone => goal'[h] # Gone
      BY <1>1, <3>1, RowIsNoEnd DEF GiftPart
    <3>3. ASSUME NEW i \in Gifts, gift[i] \notin NoRows, i \notin stale PROVE goal'[gift[i].goal] # Gone
      <4>1. gift[i].goal \in Goals /\ goal[gift[i].goal] # Gone
        BY <1>1, <3>3 DEF GiftPart, Kept, NoRows, Donations
      <4> QED BY <3>2, <4>1
    <3> QED BY <1>1, <3>1, <3>2, <3>3 DEF GiftPart, Kept, NoRows
  <2>2. CASE DropGoal
    <3>1. PICK g \in Goals : /\ goal' = [goal EXCEPT ![g] = Gone]
                             /\ gift' = [i \in Gifts |-> Outlived(i, g)]
      BY <1>1, <2>2 DEF DropGoal, GiftPart, Kept
    <3>2. goal' \in [Goals -> Targets \cup NoRows] /\ \A h \in Goals : h # g => goal'[h] = goal[h]
      BY <1>1, <3>1 DEF GiftPart, NoRows
    <3>3. \A i \in Gifts : gift'[i] = Gone \/ (gift'[i] = gift[i] /\ i \notin GiftsOf(g))
      BY <3>1 DEF Outlived
    <3>4. gift' \in [Gifts -> Donations \cup NoRows]
      <4>1. gift' = [i \in Gifts |-> gift'[i]]
        BY <3>1
      <4>2. \A i \in Gifts : gift'[i] \in Donations \cup NoRows
        BY <1>1, <3>3 DEF GiftPart, NoRows
      <4> QED BY <4>1, <4>2
    <3>5. ASSUME NEW i \in Gifts, gift'[i] \notin NoRows, i \notin stale PROVE goal'[gift'[i].goal] # Gone
      <4>1. gift'[i] = gift[i] /\ i \notin GiftsOf(g)
        BY <3>3, <3>5 DEF NoRows
      <4>2. i \in Kept(gift)
        BY <1>1, <3>5, <4>1 DEF Kept, GiftPart, NoRows
      <4>3. gift[i].goal # g /\ gift[i].goal \in Goals
        BY <1>1, <4>1, <4>2 DEF GiftsOf, GiftPart, Kept, NoRows, Donations
      <4>4. goal[gift[i].goal] # Gone
        BY <1>1, <3>5, <4>2 DEF GiftPart
      <4> QED BY <3>2, <4>1, <4>3, <4>4
    <3> QED BY <1>1, <3>2, <3>4, <3>5 DEF GiftPart, Kept, NoRows
  <2> QED BY <2>1, <2>2
<1>3. OrderPart' /\ DebtPart' /\ CatPart' /\ LinkPart'
  BY <1>1, OrdersAlone, DebtsAlone, CatsAlone DEF LinkPart
<1> QED BY <1>1, <1>2, <1>3, StartsBound DEF PlInv

LEMMA CategoryAtOnce ==
  ASSUME PlInv, DropCategory
  PROVE  PlInv'
<1>1. /\ OrderPart /\ DebtPart /\ CatPart /\ GiftPart /\ LinkPart
      /\ Starts /\ UNCHANGED <<order, goal, gift, debt, links, stale>>
  BY DEF PlInv, DropCategory, AtOnce
<1>2. PICK c \in Cats : cat' = [cat EXCEPT ![c] = Gone]
  BY <1>1 DEF DropCategory, CatPart, Kept
<1>3. /\ cat' \in [Cats -> Names \cup NoRows] /\ cat'[c] = Gone
      /\ \A d \in Cats : d # c => cat'[d] = cat[d]
  BY <1>1, <1>2 DEF CatPart, NoRows
<1>4. CatPart'
  <2>1. \A d : d \in Kept(cat') => d \in Kept(cat) /\ cat'[d] = cat[d]
    BY <1>1, <1>3 DEF CatPart, Kept
  <2> QED BY <1>1, <1>3, <2>1 DEF CatPart, Alike
<1>5. OrderPart' /\ DebtPart' /\ GiftPart' /\ LinkPart'
  BY <1>1, OrdersAlone, DebtsAlone, GiftsAlone DEF LinkPart
<1> QED BY <1>1, <1>4, <1>5, StartsBound DEF PlInv

LEMMA OthersAtOnce ==
  ASSUME PlInv, \/ PutBudget \/ DropBudget \/ AddLink \/ DropLink \/ AddSub \/ ChangeSub \/ DropSub
                \/ Find \/ Advise
  PROVE  PlInv'
<1>1. /\ OrderPart /\ DebtPart /\ CatPart /\ GiftPart /\ LinkPart
      /\ Starts /\ UNCHANGED <<order, goal, gift, debt, cat, stale>>
  BY DEF PlInv, PutBudget, DropBudget, AddLink, DropLink, AddSub, ChangeSub, DropSub, Find, Advise,
         AtOnce, rowsKept
<1>2. LinkPart'
  <2>1. \/ UNCHANGED links \/ \E s, t \in Names : links' = links \cup {<<s, t>>}
        \/ \E l \in links : links' = links \ {l}
    BY DEF PutBudget, DropBudget, AddLink, DropLink, AddSub, ChangeSub, DropSub, Find, Advise, rowsKept
  <2> QED BY <1>1, <2>1 DEF LinkPart
<1>3. OrderPart' /\ DebtPart' /\ CatPart' /\ GiftPart'
  BY <1>1, OrdersAlone, DebtsAlone, CatsAlone, GiftsAlone
<1> QED BY <1>1, <1>2, <1>3, StartsBound DEF PlInv

LEMMA PlStepInv == PlInv /\ [PlNext]_plVars => PlInv'
<1> SUFFICES ASSUME PlInv, [PlNext]_plVars PROVE PlInv'
  OBVIOUS
<1>1. CASE UNCHANGED plVars
  BY <1>1, OrdersAlone, DebtsAlone, CatsAlone, GiftsAlone DEF plVars, PlInv, LinkPart
<1>2. CASE PlNext
  BY <1>2, OpensKeep, DebtSaved, GiftSaved, CategoriesSaved, NameSaved,
     DebtsAtOnce, GoalsAtOnce, CategoryAtOnce, OthersAtOnce DEF PlNext
<1> QED BY <1>1, <1>2

LEMMA PlInvGives == PlInv => PlTypeOK /\ ChecksHold
<1> SUFFICES ASSUME PlInv PROVE PlTypeOK /\ ChecksHold
  OBVIOUS
<1>1. ChecksHold
  BY DEF PlInv, DebtPart, CatPart, GiftPart, ChecksHold
<1>2. \A d \in Kept(debt) : debt[d].total > 0 /\ debt[d].paid >= 0
  <2>1. \A d \in Kept(debt) : debt[d] \in Owings
    BY DEF PlInv, DebtPart, Kept, NoRows
  <2> QED BY <2>1 DEF Owings, Targets
<1>3. \A g \in Kept(goal) : goal[g] > 0
  <2>1. \A g \in Kept(goal) : goal[g] \in Targets
    BY DEF PlInv, GiftPart, Kept, NoRows
  <2> QED BY <2>1 DEF Targets
<1>4. \A i \in Kept(gift) : gift[i].goal \in Goals
  BY DEF PlInv, GiftPart, Kept, NoRows, Donations
<1>5. \A c \in Kept(cat) : cat[c] \in Names
  BY DEF PlInv, CatPart, Kept, NoRows
<1> QED BY <1>1, <1>2, <1>3, <1>4, <1>5 DEF PlInv, LinkPart, PlTypeOK

-----------------------------------------------------------------------------
(* What recurring expenses come to: MonthlyTotal and PlannedTotal are sums  *)
(* in the sense of FiniteLemmas.                                              *)
LEMMA MonthlyIs ==
  ASSUME NEW w, w = [s \in Subs |-> InMonth12(sub[s].frequency) * sub[s].amount], SubPart
  PROVE  MonthlyTotal = Total(w, {s \in Active : sub[s].amount # Unborn})
<1> DEFINE S == {s \in Active : sub[s].amount # Unborn}
           F(s) == InMonth12(sub[s].frequency) * sub[s].amount
<1>1. S \subseteq Subs /\ IsFiniteSet(S)
  BY PlansAssumption, FS_Subset DEF Active, Kept, SubPart
<1> HIDE DEF S
<1> DEFINE Eq(it) == it = [s \in SUBSET S |-> IF s = {} THEN 0 ELSE F(OneOf(s)) + it[s \ {OneOf(s)}]]
           h == CHOOSE it : Eq(it)
<1>2. \A s \in SUBSET S : s # {} => w[OneOf(s)] = F(OneOf(s))
  <2> HIDE DEF F
  <2> SUFFICES ASSUME NEW s \in SUBSET S, s # {} PROVE w[OneOf(s)] = F(OneOf(s))
    OBVIOUS
  <2>1. OneOf(s) \in S
    BY <1>1, Rest
  <2> QED BY <2>1, <1>1 DEF F
<1> HIDE DEF F
<1>3. \A it : Eq(it) <=> Summed(it, w, SUBSET S)
  BY <1>2, Zenon DEF Summed
<1>4. (CHOOSE it : Eq(it)) = (CHOOSE it : Summed(it, w, SUBSET S))
  BY <1>3, Zenon
<1>5. MonthlyTotal = h[S]
  BY DEF MonthlyTotal, MapThenSumSet, MapThenFoldSet, OneOf, S, F
<1>6. Total(w, S) = (CHOOSE it : Summed(it, w, SUBSET S))[S]
  BY DEF Total, MapThenSumSet, MapThenFoldSet, OneOf, Summed
<1> QED BY <1>4, <1>5, <1>6 DEF S

LEMMA PlannedIs ==
  ASSUME NEW v, SubPart,
         v = [s \in Subs |-> IF sub[s].amount = Unborn THEN 0 ELSE Share(sub[s].frequency) * sub[s].amount]
  PROVE  PlannedTotal = Total(v, Active)
<1> DEFINE S == Active
           F(s) == IF sub[s].amount = Unborn THEN 0 ELSE Share(sub[s].frequency) * sub[s].amount
<1>1. S \subseteq Subs /\ IsFiniteSet(S)
  BY PlansAssumption, FS_Subset DEF Active, Kept, SubPart
<1> HIDE DEF S
<1> DEFINE Eq(it) == it = [s \in SUBSET S |-> IF s = {} THEN 0 ELSE F(OneOf(s)) + it[s \ {OneOf(s)}]]
           h == CHOOSE it : Eq(it)
<1>2. \A s \in SUBSET S : s # {} => v[OneOf(s)] = F(OneOf(s))
  <2> HIDE DEF F
  <2> SUFFICES ASSUME NEW s \in SUBSET S, s # {} PROVE v[OneOf(s)] = F(OneOf(s))
    OBVIOUS
  <2>1. OneOf(s) \in S
    BY <1>1, Rest
  <2> QED BY <2>1, <1>1 DEF F
<1> HIDE DEF F
<1>3. \A it : Eq(it) <=> Summed(it, v, SUBSET S)
  BY <1>2, Zenon DEF Summed
<1>4. (CHOOSE it : Eq(it)) = (CHOOSE it : Summed(it, v, SUBSET S))
  BY <1>3, Zenon
<1>5. PlannedTotal = h[S]
  BY DEF PlannedTotal, MapThenSumSet, MapThenFoldSet, OneOf, S, F
<1>6. Total(v, S) = (CHOOSE it : Summed(it, v, SUBSET S))[S]
  BY DEF Total, MapThenSumSet, MapThenFoldSet, OneOf, Summed
<1> QED BY <1>4, <1>5, <1>6 DEF S

LEMMA TotalsFit == SubPart => TotalsAgree
<1> SUFFICES ASSUME SubPart, \A s \in Active : sub[s].frequency \in Checked
             PROVE  MonthlyTotal = PlannedTotal
  BY DEF TotalsAgree
<1> DEFINE w == [s \in Subs |-> InMonth12(sub[s].frequency) * sub[s].amount]
           v == [s \in Subs |-> IF sub[s].amount = Unborn THEN 0 ELSE Share(sub[s].frequency) * sub[s].amount]
           S == {s \in Active : sub[s].amount # Unborn}
           R == {s \in Active : sub[s].amount = Unborn}
<1>1. /\ S \cup R = Active /\ S \cap R = {} /\ Active \subseteq Subs
      /\ IsFiniteSet(S) /\ IsFiniteSet(R)
  BY PlansAssumption, FS_Subset DEF Active, Kept, SubPart
<1>2. /\ MonthlyTotal = Total(w, S) /\ PlannedTotal = Total(v, Active)
  BY MonthlyIs, PlannedIs
<1>3. \A s \in S : w[s] \in Int /\ v[s] = w[s]
  <2> SUFFICES ASSUME NEW s \in S PROVE w[s] \in Int /\ v[s] = w[s]
    OBVIOUS
  <2>1. s \in Subs /\ s \in Kept(sub) /\ sub[s].amount \in Int /\ sub[s].frequency \in Checked
    BY <1>1 DEF SubPart, Active
  <2>2. Share(sub[s].frequency) = InMonth12(sub[s].frequency)
    BY <2>1 DEF Share, Checked
  <2>3. InMonth12(sub[s].frequency) \in Int
    BY <2>1 DEF InMonth12, Checked
  <2> QED BY <2>1, <2>2, <2>3
<1>4. \A s \in R : v[s] = 0
  BY <1>1
<1> HIDE DEF w, v, S, R
<1>5. Total(v, Active) = Total(v, S) + Total(v, R)
  <2>1. \A s \in S \cup R : v[s] \in Int
    BY <1>3, <1>4
  <2> QED BY <1>1, <2>1, TotalUnion
<1>6. Total(v, R) = 0
  BY <1>1, <1>4, TotalConstant
<1>7. Total(v, S) = Total(w, S) /\ Total(w, S) \in Int
  BY <1>1, <1>3, TotalSame, TotalType
<1> QED BY <1>2, <1>5, <1>6, <1>7

(* The amounts above zero come first, so that the last of them is the least. *)
LEMMA FirstAreAbove ==
  ASSUME NEW n \in Nat, NEW f \in [1 .. n -> Int], Descending(f)
  PROVE  /\ Cardinality(Above(f)) \in 0 .. n /\ Above(f) = 1 .. Cardinality(Above(f))
         /\ IsFiniteSet(Above(f))
<1> DEFINE M == {m \in Nat : Above(f) \subseteq 1 .. m}
<1>1. n \in M /\ M \subseteq Nat
  BY DEF Above
<1>2. PICK k \in M : \A m \in M : k <= m
  BY <1>1, LeastNumber
<1>3. k \in 0 .. n /\ Above(f) \subseteq 1 .. k
  BY <1>1, <1>2
<1>4. CASE k = 0
  <2>1. Above(f) = {} /\ 1 .. 0 = {}
    BY <1>3, <1>4
  <2> QED BY <2>1, FS_EmptySet
<1>5. CASE k # 0
  <2>1. k \in Above(f)
    <3>1. k - 1 \in Nat /\ k - 1 \notin M
      BY <1>2, <1>3, <1>5
    <3> QED BY <1>3, <3>1
  <2>2. 1 .. k \subseteq Above(f)
    <3> SUFFICES ASSUME NEW j \in 1 .. k, j # k PROVE j \in Above(f)
      BY <2>1
    <3>1. f[j] >= f[k] /\ f[k] > 0 /\ f[j] \in Int /\ f[k] \in Int
      BY <1>3, <2>1 DEF Above, Descending
    <3> QED BY <1>3, <3>1 DEF Above
  <2>3. Above(f) = 1 .. k
    BY <1>3, <2>2
  <2>4. Cardinality(1 .. k) = k /\ IsFiniteSet(1 .. k)
    BY <1>3, <1>5, FS_Interval
  <2> QED BY <1>3, <2>3, <2>4
<1> QED BY <1>4, <1>5

LEMMA Between ==
  ASSUME NEW m \in Nat, m > 0, NEW lo \in Int, NEW hi \in Int, NEW s \in Int,
         lo * m <= s, s <= hi * m
  PROVE  /\ s \div m \in Int /\ lo <= s \div m /\ s \div m <= hi
         /\ s % m > 0 => s \div m + 1 <= hi
<1> DEFINE q == s \div m
           r == s % m
<1>1. q \in Int /\ r \in Int /\ s = m * q + r /\ 0 <= r /\ r < m
  OBVIOUS
<1> HIDE DEF q, r
<1>2. ASSUME q < lo PROVE FALSE
  <2>1. q + 1 <= lo
    BY <1>1, <1>2
  <2>2. m * (q + 1) <= m * lo
    BY <1>1, <2>1
  <2> QED BY <1>1, <2>2
<1>3. ASSUME q > hi PROVE FALSE
  <2>1. m * (hi + 1) <= m * q
    BY <1>1, <1>3
  <2> QED BY <1>1, <2>1
<1>4. ASSUME r > 0, q + 1 > hi PROVE FALSE
  <2>1. m * hi <= m * q
    BY <1>1, <1>4
  <2> QED BY <1>1, <1>4, <2>1
<1> QED BY <1>1, <1>2, <1>3, <1>4 DEF q, r

LEMMA MeanBetween ==
  ASSUME NEW S, IsFiniteSet(S), S # {}, NEW f, NEW lo \in Int, NEW hi \in Int,
         \A i \in S : f[i] \in Int /\ lo <= f[i] /\ f[i] <= hi
  PROVE  lo <= Mean(S, f) /\ Mean(S, f) <= hi
<1> DEFINE low == [i \in S |-> lo]
           top == [i \in S |-> hi]
           sum == Total(f, S)
           n == Cardinality(S)
<1>1. Total(low, S) <= sum /\ sum <= Total(top, S) /\ sum \in Int
  <2>1. /\ \A i \in S : low[i] \in Int /\ f[i] \in Int /\ low[i] <= f[i]
        /\ \A i \in S : top[i] \in Int /\ f[i] \in Int /\ f[i] <= top[i]
    OBVIOUS
  <2> HIDE DEF low, top
  <2> QED BY <2>1, TotalAtMost, TotalType
<1>2. n \in Nat /\ n > 0 /\ Total(low, S) = lo * n /\ Total(top, S) = hi * n
  <2>1. n \in Nat /\ n # 0
    BY FS_CardinalityType, FS_EmptySet
  <2>2. (\A i \in S : low[i] = lo) /\ (\A i \in S : top[i] = hi)
    OBVIOUS
  <2> HIDE DEF low, top
  <2> QED BY <2>1, <2>2, TotalConstant
<1>3. Mean(S, f) = IF 2 * (sum % n) > n \/ (2 * (sum % n) = n /\ (sum \div n) % 2 = 1)
                   THEN (sum \div n) + 1 ELSE sum \div n
  BY DEF Mean, Total
<1> HIDE DEF sum, n, low, top
<1>4. sum % n \in Int /\ (2 * (sum % n) > n \/ 2 * (sum % n) = n => sum % n > 0)
  BY <1>1, <1>2
<1>5. /\ sum \div n \in Int /\ lo <= sum \div n /\ sum \div n <= hi
      /\ sum % n > 0 => sum \div n + 1 <= hi
  BY <1>1, <1>2, Between
<1> HIDE DEF sum, n
<1> QED BY <1>3, <1>4, <1>5

LEMMA AdviceFits == Advise => BaselineWithin'
<1> SUFFICES ASSUME NEW f \in Ranked, Descending(f), NEW ex \in SUBSET DOMAIN f,
                    advice' = [of |-> "baseline", rows |-> f, answer |-> Baseline(f, ex)]
             PROVE  BaselineWithin'
  BY DEF Advise
<1> DEFINE A == Above(f)
           k == Cardinality(A)
<1>1. advice'.rows = f /\ advice'.answer = Baseline(f, ex)
  OBVIOUS
<1>2. PICK n \in 0 .. AdviceRows : f \in [1 .. n -> Sums]
  BY DEF Ranked
<1>3. n \in Nat /\ f \in [1 .. n -> Int]
  <2>1. AdviceRows \in Nat /\ Sums \subseteq Int
    BY PlansAssumption
  <2>2. n \in Nat
    BY <2>1
  <2>3. DOMAIN f = 1 .. n /\ f = [i \in 1 .. n |-> f[i]] /\ \A i \in 1 .. n : f[i] \in Int
    BY <1>2, <2>1, Zenon
  <2> QED BY <2>2, <2>3
<1>4. k \in 0 .. n /\ A = 1 .. k /\ IsFiniteSet(A)
  BY <1>3, FirstAreAbove
<1>5. CASE A = {}
  BY <1>1, <1>5 DEF Baseline, BaselineWithin
<1>6. CASE A # {}
  <2>1. /\ k >= 1 /\ f[1] \in Int /\ f[k] \in Int
        /\ \A i \in A : f[i] \in Int /\ f[k] <= f[i] /\ f[i] <= f[1]
    <3>1. k >= 1 /\ 1 \in 1 .. n /\ k \in 1 .. n /\ A \subseteq 1 .. n
      BY <1>4, <1>6
    <3>2. ASSUME NEW i \in A PROVE f[i] \in Int /\ f[k] <= f[i] /\ f[i] <= f[1]
      <4>1. i \in 1 .. k /\ i \in 1 .. n
        BY <1>4, <3>1
      <4>2. (i = k \/ i < k) /\ (i = 1 \/ 1 < i)
        BY <3>1, <4>1
      <4> HIDE DEF k, A
      <4> QED BY <1>3, <3>1, <4>1, <4>2 DEF Descending
    <3> HIDE DEF k, A
    <3> QED BY <1>3, <3>1, <3>2
  <2>2. f[k] <= Baseline(f, ex) /\ Baseline(f, ex) <= f[1]
    <3>1. CASE A \ ex # {}
      <4> DEFINE S == A \ ex
      <4>1. IsFiniteSet(S) /\ S # {} /\ S \subseteq A
        BY <1>4, <3>1, FS_Subset
      <4>2. Baseline(f, ex) = Mean(S, f)
        BY <3>1 DEF Baseline
      <4> HIDE DEF S, k, A
      <4>3. f[k] <= Mean(S, f) /\ Mean(S, f) <= f[1]
        BY <2>1, <4>1, MeanBetween
      <4> QED BY <4>2, <4>3
    <3>2. CASE A \ ex = {}
      <4>1. Baseline(f, ex) = f[k - k \div 2]
        BY <1>6, <3>2 DEF Baseline, Upper
      <4>2. k - k \div 2 \in 1 .. k
        BY <1>4, <2>1
      <4> HIDE DEF k
      <4> QED BY <1>4, <2>1, <4>1, <4>2
    <3> QED BY <3>1, <3>2
  <2> HIDE DEF k
  <2>3. IF Above(advice'.rows) = {} THEN advice'.answer = 0
        ELSE advice'.answer <= advice'.rows[1] /\ advice'.answer >= advice'.rows[Cardinality(Above(advice'.rows))]
    <3> DEFINE b == Baseline(f, ex)
    <3>1. b <= f[1] /\ f[k] <= b
      BY <2>2
    <3> HIDE DEF b
    <3>2. advice'.answer = b
      BY <1>1 DEF b
    <3> QED BY <1>1, <1>6, <3>1, <3>2 DEF k
  <2> QED BY <2>3 DEF BaselineWithin
<1> QED BY <1>5, <1>6

(* Each part is left alone, but for the handlers of its own table.          *)
LEMMA SubsKept == SubPart /\ [PlNext]_plVars => SubPart'
<1> SUFFICES ASSUME SubPart, [PlNext]_plVars PROVE SubPart'
  OBVIOUS
<1>1. CASE UNCHANGED sub
  BY <1>1 DEF SubPart, Kept
<1>2. CASE AddSub \/ ChangeSub
  <2>1. PICK s \in Subs, r \in Expenses : sub' = [sub EXCEPT ![s] = r]
    BY <1>2 DEF AddSub, ChangeSub, SubPart, Kept
  <2>2. r.amount \in Int \cup {Unborn}
    BY PlansAssumption
  <2>3. DOMAIN sub' = Subs /\ sub'[s] = r /\ \A q \in Subs : q # s => sub'[q] = sub[q]
    BY <2>1 DEF SubPart
  <2>4. ASSUME NEW q \in Kept(sub') PROVE sub'[q].amount \in Int \cup {Unborn}
    <3>1. q \in Subs /\ (q # s => q \in Kept(sub))
      BY <2>3 DEF Kept, SubPart
    <3> QED BY <2>2, <2>3, <3>1 DEF SubPart
  <2> QED BY <2>3, <2>4 DEF SubPart
<1>3. CASE DropSub
  <2>1. PICK s \in Subs : sub' = [sub EXCEPT ![s] = Gone]
    BY <1>3 DEF DropSub, SubPart, Kept
  <2>2. DOMAIN sub' = Subs /\ \A q \in Kept(sub') : q \in Kept(sub) /\ sub'[q] = sub[q]
    BY <2>1 DEF SubPart, Kept
  <2> QED BY <2>2 DEF SubPart
<1>4. AddSub \/ ChangeSub \/ DropSub \/ UNCHANGED sub
  <2>1. CASE \E p \in Planners :
                  \/ OpenDebt(p) \/ OpenGift(p) \/ OpenCategory(p) \/ OpenGenerate(p) \/ OpenRename(p)
                  \/ SaveDebt(p) \/ SaveGift(p) \/ SaveCategories(p) \/ SaveName(p)
    BY <2>1 DEF OpenDebt, OpenGift, OpenCategory, OpenGenerate, OpenRename, Opened, rowsKept,
                SaveDebt, SaveGift, SaveCategories, SaveName
  <2>2. CASE UNCHANGED plVars
    BY <2>2 DEF plVars
  <2> QED BY <2>1, <2>2 DEF PlNext, AddDebt, DropDebt, AddGoal, SetTarget, DropGoal, DropCategory,
                PutBudget, DropBudget, AddLink, DropLink, Find, Advise, rowsKept
<1> QED BY <1>1, <1>2, <1>3, <1>4

LEMMA AdviceKept == BaselineWithin /\ [PlNext]_plVars => BaselineWithin'
<1> SUFFICES ASSUME BaselineWithin, [PlNext]_plVars PROVE BaselineWithin'
  OBVIOUS
<1>1. CASE advice' = advice \/ advice' = Unborn
  BY <1>1 DEF BaselineWithin
<1>2. CASE Find
  BY <1>2 DEF Find, BaselineWithin
<1>3. CASE ~(Find \/ Advise)
  <2>1. CASE \E p \in Planners :
                  \/ OpenDebt(p) \/ OpenGift(p) \/ OpenCategory(p) \/ OpenGenerate(p) \/ OpenRename(p)
                  \/ SaveDebt(p) \/ SaveGift(p) \/ SaveCategories(p) \/ SaveName(p)
    BY <1>1, <2>1 DEF OpenDebt, OpenGift, OpenCategory, OpenGenerate, OpenRename, Opened,
                SaveDebt, SaveGift, SaveCategories, SaveName
  <2>2. CASE UNCHANGED plVars
    BY <1>1, <2>2 DEF plVars
  <2> QED BY <1>1, <1>3, <2>1, <2>2 DEF PlNext, AddDebt, DropDebt, AddGoal, SetTarget, DropGoal, DropCategory,
                PutBudget, DropBudget, AddLink, DropLink, AddSub, ChangeSub, DropSub, AtOnce
<1> QED BY <1>2, <1>3, AdviceFits

PlansInv == PlInv /\ SubPart /\ BaselineWithin
LEMMA PlansInvGives == PlansInv => PlTypeOK /\ PlansHold
BY PlInvGives, TotalsFit DEF PlansInv, PlansHold
LEMMA PlansInitInv == PlInit => PlansInv
<1> SUFFICES ASSUME PlInit PROVE SubPart /\ BaselineWithin
  BY PlInitInv DEF PlansInv
<1>1. SubPart
  BY PlansAssumption DEF PlInit, SubPart
<1> QED BY <1>1 DEF PlInit, BaselineWithin
LEMMA PlansStepInv == PlansInv /\ [PlNext]_plVars => PlansInv'
BY PlStepInv, SubsKept, AdviceKept DEF PlansInv

(* What a handler has checked of the rows it has read holds of the rows     *)
(* there are, unless what it had read was old when it wrote: debts are paid *)
(* at most, categories differ in more than case, contributions have a goal. *)
(* The page and the advisor count the same for a month, and the advisor's   *)
(* baseline lies between the least and the largest amount.  For any users'  *)
(* requests and any overlap of them, any amounts and any verdict of the LLM *)
(* (api/debt.py, api/settings.py, api/goals.py, api/recurring.py,           *)
(* api/budget_llm.py).                                                      *)
THEOREM PlansAreKept == PlSpec => [](PlTypeOK /\ PlansHold)
BY PlansInitInv, PlansStepInv, PlansInvGives, PTL DEF PlSpec

-----------------------------------------------------------------------------
(* Pages.  The listing has one row for each id, whatever is added, edited   *)
(* or deleted between two pages.                                            *)
Lines == {Row(i, s) : i \in Ids, s \in Says}
Methods == {"PUT", "POST"}
OneEach(q) == \A m, n \in 1 .. Len(q) : q[m].id = q[n].id => m = n
PassTyped ==
  /\ DOMAIN pass = DOMAIN NoPass
  /\ pass.kind \in {"none", "cursor", "offset", "csv", "audit"}
  /\ pass.left \in BOOLEAN /\ pass.open \in BOOLEAN
PagesInv ==
  /\ rows \in Seq(Lines) /\ OneEach(rows)
  /\ log \in Seq(Methods) /\ Len(log) <= MaxLog
  /\ PassTyped /\ changes \in 0 .. MaxChanges

LEMMA LineHasId == \A i \in Ids, s \in Says : Row(i, s) \in Lines /\ Row(i, s).id = i
<1> SUFFICES ASSUME NEW i \in Ids, NEW s \in Says PROVE Row(i, s) \in Lines /\ Row(i, s).id = i
  OBVIOUS
<1>1. Row(i, s) \in Lines
  BY DEF Lines
<1>2. Row(i, s)["id"] = i
  BY DEF Row
<1> QED BY <1>1, <1>2

LEMMA RowsOfAll ==
  ASSUME rows \in Seq(Lines)
  PROVE  /\ \A r : r \in All <=> \E n \in 1 .. Len(rows) : r = rows[n]
         /\ \A n \in 1 .. Len(rows) : rows[n].id \in IdsOf(All) /\ rows[n].id \in Ids
<1>1. \A r : r \in All <=> \E n \in 1 .. Len(rows) : r = rows[n]
  BY DEF All, ToSet
<1>2. ASSUME NEW n \in 1 .. Len(rows) PROVE rows[n].id \in IdsOf(All) /\ rows[n].id \in Ids
  <2>1. rows[n] \in Lines
    OBVIOUS
  <2>2. PICK i \in Ids, s \in Says : rows[n] = Row(i, s)
    BY <2>1 DEF Lines
  <2>3. rows[n].id \in Ids
    BY <2>2, LineHasId
  <2> QED BY <1>1, <2>3 DEF IdsOf
<1> QED BY <1>1, <1>2

(* Distinct ids are as many as the rows.                                    *)
LEMMA AsManyIds ==
  ASSUME rows \in Seq(Lines), OneEach(rows)
  PROVE  Cardinality(IdsOf(All)) = Len(rows)
<1> DEFINE f == [n \in 1 .. Len(rows) |-> rows[n].id]
<1>1. \A x \in IdsOf(All) : \E n \in 1 .. Len(rows) : f[n] = x
  BY RowsOfAll DEF IdsOf
<1>2. f \in [1 .. Len(rows) -> IdsOf(All)]
  BY RowsOfAll
<1>3. \A m, n \in 1 .. Len(rows) : f[m] = f[n] => m = n
  BY DEF OneEach
<1> HIDE DEF f
<1>4. f \in Bijection(1 .. Len(rows), IdsOf(All))
  BY <1>1, <1>2, <1>3 DEF Bijection, Injection, Surjection, IsInjective
<1>5. Len(rows) \in Nat /\ IsFiniteSet(1 .. Len(rows)) /\ Cardinality(1 .. Len(rows)) = Len(rows)
  <2>1. Len(rows) \in Nat
    OBVIOUS
  <2>2. /\ IsFiniteSet(1 .. Len(rows))
        /\ Cardinality(1 .. Len(rows)) = IF 1 > Len(rows) THEN 0 ELSE Len(rows) - 1 + 1
    BY <2>1, FS_Interval, SMTT(30)
  <2> QED BY <2>1, <2>2
<1>6. ExistsBijection(1 .. Len(rows), IdsOf(All))
  BY <1>4 DEF ExistsBijection
<1> QED BY <1>5, <1>6, FS_Bijection

LEMMA PgInitKeeps == PgInit => PagesInv
<1> SUFFICES ASSUME PgInit PROVE PagesInv
  OBVIOUS
<1>1. PassTyped
  BY DEF PgInit, PassTyped, NoPass
<1> QED BY <1>1, PagingAssumption DEF PgInit, PagesInv, OneEach

LEMMA RowAdded ==
  ASSUME rows \in Seq(Lines), OneEach(rows), NEW i \in Ids, NEW s \in Says, i \notin IdsOf(All)
  PROVE  Append(rows, Row(i, s)) \in Seq(Lines) /\ OneEach(Append(rows, Row(i, s)))
<1> DEFINE q == Append(rows, Row(i, s))
<1>1. Row(i, s) \in Lines /\ Row(i, s).id = i
  BY LineHasId
<1>2. q \in Seq(Lines) /\ Len(q) = Len(rows) + 1 /\ q[Len(rows) + 1] = Row(i, s)
      /\ \A n \in 1 .. Len(rows) : q[n] = rows[n]
  BY <1>1
<1> HIDE DEF q
<1>3. \A n \in 1 .. Len(rows) : q[n].id # i
  BY <1>2, RowsOfAll
<1>4. OneEach(q)
  <2> SUFFICES ASSUME NEW m \in 1 .. Len(q), NEW n \in 1 .. Len(q), q[m].id = q[n].id PROVE m = n
    BY DEF OneEach
  <2>1. /\ m \in 1 .. Len(rows) \/ m = Len(rows) + 1
        /\ n \in 1 .. Len(rows) \/ n = Len(rows) + 1
    BY <1>2
  <2> QED BY <1>1, <1>2, <1>3, <2>1 DEF OneEach
<1> QED BY <1>2, <1>4 DEF q

LEMMA RowEdited ==
  ASSUME rows \in Seq(Lines), OneEach(rows), NEW n \in 1 .. Len(rows), NEW s \in Says
  PROVE  LET q == [rows EXCEPT ![n] = Row(@.id, s)] IN q \in Seq(Lines) /\ OneEach(q)
<1> DEFINE new == Row(rows[n].id, s)
           q == [rows EXCEPT ![n] = new]
<1>1. rows[n].id \in Ids
  BY RowsOfAll
<1>2. new \in Lines /\ new.id = rows[n].id
  BY <1>1, LineHasId
<1> HIDE DEF new
<1>3. q \in Seq(Lines) /\ Len(q) = Len(rows) /\ q[n] = new /\ \A m \in 1 .. Len(rows) : m # n => q[m] = rows[m]
  BY <1>2
<1> HIDE DEF q
<1>4. \A m \in 1 .. Len(rows) : q[m].id = rows[m].id
  BY <1>2, <1>3
<1>5. OneEach(q)
  BY <1>3, <1>4 DEF OneEach
<1> QED BY <1>3, <1>5 DEF q, new

LEMMA RowDeleted ==
  ASSUME rows \in Seq(Lines), OneEach(rows), NEW n \in 1 .. Len(rows)
  PROVE  /\ RemoveAt(rows, n) \in Seq(Lines) /\ OneEach(RemoveAt(rows, n))
         /\ \A m \in 1 .. Len(rows) : m # n => \E k \in DOMAIN RemoveAt(rows, n) : RemoveAt(rows, n)[k] = rows[m]
<1> DEFINE q == RemoveAt(rows, n)
           a == SubSeq(rows, 1, n - 1)
           b == SubSeq(rows, n + 1, Len(rows))
<1>1. a \in Seq(Lines) /\ Len(a) = n - 1 /\ \A k \in 1 .. (n - 1) : a[k] = rows[k]
  OBVIOUS
<1>2. b \in Seq(Lines) /\ Len(b) = Len(rows) - n /\ \A k \in 1 .. (Len(rows) - n) : b[k] = rows[k + n]
  OBVIOUS
<1>3. q = a \o b
  BY DEF RemoveAt
<1> HIDE DEF q, a, b
<1>4. q \in Seq(Lines) /\ Len(q) = Len(rows) - 1
  BY <1>1, <1>2, <1>3
<1>5. \A k \in 1 .. (Len(rows) - 1) : q[k] = rows[IF k < n THEN k ELSE k + 1]
  <2> SUFFICES ASSUME NEW k \in 1 .. (Len(rows) - 1) PROVE q[k] = rows[IF k < n THEN k ELSE k + 1]
    OBVIOUS
  <2>1. q[k] = IF k <= Len(a) THEN a[k] ELSE b[k - Len(a)]
    BY <1>1, <1>2, <1>3
  <2>2. CASE k < n
    BY <1>1, <2>1, <2>2
  <2>3. CASE ~(k < n)
    BY <1>1, <1>2, <2>1, <2>3
  <2> QED BY <2>2, <2>3
<1>6. OneEach(q)
  <2> SUFFICES ASSUME NEW k \in 1 .. Len(q), NEW l \in 1 .. Len(q), q[k].id = q[l].id PROVE k = l
    BY DEF OneEach
  <2>0. ASSUME NEW i \in 1 .. Len(q)
        PROVE  \E x \in 1 .. Len(rows) : x = (IF i < n THEN i ELSE i + 1) /\ q[i] = rows[x]
    <3>1. q[i] = rows[IF i < n THEN i ELSE i + 1]
      BY <1>4, <1>5
    <3>2. (IF i < n THEN i ELSE i + 1) \in 1 .. Len(rows)
      BY <1>4
    <3> QED BY <3>1, <3>2
  <2>1. PICK x \in 1 .. Len(rows) : x = (IF k < n THEN k ELSE k + 1) /\ q[k] = rows[x]
    BY <2>0
  <2>2. PICK y \in 1 .. Len(rows) : y = (IF l < n THEN l ELSE l + 1) /\ q[l] = rows[y]
    BY <2>0
  <2>3. x = y
    BY <2>1, <2>2 DEF OneEach
  <2> QED BY <1>4, <2>1, <2>2, <2>3
<1>7. ASSUME NEW m \in 1 .. Len(rows), m # n PROVE \E k \in DOMAIN q : q[k] = rows[m]
  <2> DEFINE k == IF m < n THEN m ELSE m - 1
  <2>1. k \in 1 .. (Len(rows) - 1) /\ m = IF k < n THEN k ELSE k + 1
    BY <1>7
  <2>2. DOMAIN q = 1 .. (Len(rows) - 1)
    BY <1>4
  <2> HIDE DEF k
  <2> QED BY <1>5, <2>1, <2>2
<1> QED BY <1>4, <1>6, <1>7 DEF q

LEMMA PassKept ==
  ASSUME PagesInv, Start \/ NextPage
  PROVE  PagesInv'
<1>1. rows' = rows /\ log' = log /\ PassTyped
  BY DEF Start, NextPage, PagesInv
<1>2. CASE Start
  <2>1. PICK kind \in {"cursor", "offset", "csv", "audit"} :
          \E f, cursor, stayed, total : Ask(kind, f, cursor, stayed, total)
    BY <1>2 DEF Start, StartCursor, StartOffset, StartExport, StartAudit
  <2>2. PassTyped'
    BY <2>1 DEF Ask, PassTyped, NoPass
  <2>3. changes' \in 0 .. MaxChanges
    BY <1>2, PagingAssumption DEF Start
  <2> QED BY <1>1, <2>2, <2>3 DEF PagesInv, OneEach
<1>3. CASE NextPage
  <2>1. \/ pass' = [pass EXCEPT !.got = @ \o IdSeq(CursorPage(pass.filter, pass.cursor).items),
                                !.cursor = CursorPage(pass.filter, pass.cursor).next,
                                !.open = CursorPage(pass.filter, pass.cursor).next # Null]
        \/ \E ids, at : \E more \in BOOLEAN : Turn(ids, at, more)
    BY <1>3 DEF NextPage
  <2>2. PassTyped'
    <3>1. CASE \E ids, at : \E more \in BOOLEAN : Turn(ids, at, more)
      BY <1>1, <3>1 DEF Turn, PassTyped, NoPass
    <3>2. CASE ~(\E ids, at : \E more \in BOOLEAN : Turn(ids, at, more))
      BY <1>1, <2>1, <3>2 DEF PassTyped, NoPass
    <3> QED BY <3>1, <3>2
  <2>3. changes' = changes
    BY <1>3 DEF NextPage
  <2> QED BY <1>1, <2>2, <2>3 DEF PagesInv, OneEach
<1> QED BY <1>2, <1>3

LEMMA TouchedKeeps ==
  ASSUME PassTyped, NEW i, Touched(i)
  PROVE  PassTyped'
BY DEF Touched, PassTyped, NoPass

LEMMA RowsChange ==
  ASSUME PagesInv, AddRow \/ EditRow \/ DeleteRow
  PROVE  PagesInv'
<1>1. /\ rows \in Seq(Lines) /\ OneEach(rows) /\ PassTyped /\ DOMAIN rows = 1 .. Len(rows)
      /\ Commit /\ log' = log
  BY DEF PagesInv, AddRow, EditRow, DeleteRow, Commit
<1>2. changes' \in 0 .. MaxChanges
  BY PagingAssumption DEF PagesInv, AddRow, EditRow, DeleteRow, Commit
<1>3. rows' \in Seq(Lines) /\ OneEach(rows)' /\ PassTyped'
  <2>1. CASE AddRow
    <3>1. PICK i \in Ids, s \in Says : i \notin IdsOf(All) /\ rows' = Append(rows, Row(i, s)) /\ pass' = pass
      BY <2>1 DEF AddRow
    <3>2. rows' \in Seq(Lines) /\ OneEach(rows')
      BY <1>1, <3>1, RowAdded
    <3> QED BY <1>1, <3>1, <3>2 DEF OneEach, PassTyped
  <2>2. CASE EditRow
    <3>1. PICK n \in 1 .. Len(rows), s \in Says :
            rows' = [rows EXCEPT ![n] = Row(@.id, s)] /\ Touched(rows[n].id)
      BY <1>1, <2>2 DEF EditRow
    <3>2. rows' \in Seq(Lines) /\ OneEach(rows')
      BY <1>1, <3>1, RowEdited
    <3> QED BY <1>1, <3>1, <3>2, TouchedKeeps DEF OneEach
  <2>3. CASE DeleteRow
    <3>1. PICK n \in 1 .. Len(rows) : rows' = RemoveAt(rows, n) /\ Touched(rows[n].id)
      BY <1>1, <2>3 DEF DeleteRow
    <3>2. rows' \in Seq(Lines) /\ OneEach(rows')
      BY <1>1, <3>1, RowDeleted
    <3> QED BY <1>1, <3>1, <3>2, TouchedKeeps DEF OneEach
  <2> QED BY <2>1, <2>2, <2>3
<1> QED BY <1>1, <1>2, <1>3 DEF PagesInv

LEMMA PgStepKeeps == PagesInv /\ [PgNext]_pgVars => PagesInv'
<1> SUFFICES ASSUME PagesInv, [PgNext]_pgVars PROVE PagesInv'
  OBVIOUS
<1>1. CASE UNCHANGED pgVars
  BY <1>1 DEF pgVars, PagesInv, OneEach, PassTyped
<1>2. CASE Fill
  <2>1. rows \in Seq(Lines) /\ OneEach(rows) /\ pass' = pass /\ changes' = changes
    BY <1>2 DEF PagesInv, Fill
  <2>2. CASE \E i \in Ids \ IdsOf(All), s \in Says : rows' = Append(rows, Row(i, s)) /\ UNCHANGED log
    <3>1. rows' \in Seq(Lines) /\ OneEach(rows') /\ log' = log
      BY <2>1, <2>2, RowAdded
    <3> QED BY <2>1, <3>1 DEF PagesInv, PassTyped, OneEach
  <2>3. CASE \E m \in Methods : Len(log) < MaxLog - 1 /\ log' = Append(log, m) /\ UNCHANGED rows
    <3>1. log' \in Seq(Methods) /\ Len(log') <= MaxLog
      BY <2>3, PagingAssumption DEF PagesInv
    <3> QED BY <2>1, <2>3, <3>1 DEF PagesInv, PassTyped, OneEach
  <2> QED BY <1>2, <2>2, <2>3 DEF Fill, Methods
<1>3. CASE Audit
  <2>1. log' \in Seq(Methods) /\ Len(log') <= MaxLog
    BY <1>3, PagingAssumption DEF Audit, PagesInv, Methods
  <2> QED BY <1>3, <2>1 DEF Audit, PagesInv, PassTyped, OneEach
<1> QED BY <1>1, <1>2, <1>3, PassKept, RowsChange DEF PgNext

LEMMA PagesGive == PagesInv => PgTypeOK
<1> SUFFICES ASSUME PagesInv PROVE PgTypeOK
  OBVIOUS
<1>1. ASSUME NEW r \in All PROVE r.id \in Ids /\ \E s \in Says : r = Row(r.id, s)
  <2>1. r \in Lines
    BY RowsOfAll DEF PagesInv
  <2>2. PICK i \in Ids, s \in Says : r = Row(i, s)
    BY <2>1 DEF Lines
  <2>3. r.id = i
    BY <2>2, LineHasId
  <2> QED BY <2>2, <2>3
<1> QED BY <1>1, AsManyIds DEF PagesInv, PassTyped, PgTypeOK

-----------------------------------------------------------------------------
(* The orders of the pages, and what a page is.                             *)
LEMMA NewestExists ==
  ASSUME NEW S, IsFiniteSet(S), S \subseteq Int
  PROVE  \E z \in SetToSeqs(S) : \A k, l \in DOMAIN z : k < l => z[k] > z[l]
<1> DEFINE R == {p \in S \X S : p[1] > p[2]}
<1>1. \A x, y : <<x, y>> \in R <=> x \in S /\ y \in S /\ x > y
  OBVIOUS
<1> HIDE DEF R
<1>2. Ranks(R, S)
  <2>1. ASSUME NEW x \in S, NEW y \in S, x # y PROVE <<x, y>> \in R \/ <<y, x>> \in R
    <3>1. x \in Int /\ y \in Int /\ x # y
      BY <2>1
    <3> QED BY <1>1, <3>1
  <2>2. ASSUME NEW x \in S, NEW y \in S, NEW z \in S, <<x, y>> \in R, <<y, z>> \in R PROVE <<x, z>> \in R
    <3>1. x \in Int /\ y \in Int /\ z \in Int
      OBVIOUS
    <3> QED BY <1>1, <2>2, <3>1
  <2> QED BY <2>1, <2>2 DEF Ranks
<1>3. PICK z \in SetToSeqs(S) : InTurn(z, R)
  BY <1>2, OrderFound
<1> QED BY <1>1, <1>3 DEF InTurn
LEMMA NewestFirst ==
  ASSUME NEW S, IsFiniteSet(S), S \subseteq Int
  PROVE  LET q == InOrder(S, LAMBDA m, n : m > n)
         IN  q \in SetToSeqs(S) /\ \A k, l \in DOMAIN q : k < l => q[k] > q[l]
<1> DEFINE Good(z) == \A k, l \in DOMAIN z : k < l => z[k] > z[l]
           c == CHOOSE z \in SetToSeqs(S) : Good(z)
<1>1. \E z \in SetToSeqs(S) : Good(z)
  BY NewestExists
<1>2. c \in SetToSeqs(S) /\ Good(c)
  <2> HIDE DEF Good
  <2> QED BY <1>1
<1>3. InOrder(S, LAMBDA m, n : m > n) = c
  BY Zenon DEF InOrder
<1> QED BY <1>2, <1>3, Zenon

LEMMA LeastIdExists ==
  ASSUME NEW S, IsFiniteSet(S), \A r \in S : r.id \in Int, \A r, s \in S : r.id = s.id => r = s
  PROVE  \E z \in SetToSeqs(S) : \A k, l \in DOMAIN z : k < l => z[k].id < z[l].id
<1> DEFINE R == {p \in S \X S : p[1].id < p[2].id}
<1>1. \A x, y : <<x, y>> \in R <=> x \in S /\ y \in S /\ x.id < y.id
  OBVIOUS
<1> HIDE DEF R
<1>2. Ranks(R, S)
  <2>1. ASSUME NEW x \in S, NEW y \in S, x # y PROVE <<x, y>> \in R \/ <<y, x>> \in R
    <3>1. x.id \in Int /\ y.id \in Int /\ x.id # y.id
      BY <2>1
    <3> QED BY <1>1, <3>1
  <2>2. ASSUME NEW x \in S, NEW y \in S, NEW z \in S, <<x, y>> \in R, <<y, z>> \in R PROVE <<x, z>> \in R
    <3>1. x.id \in Int /\ y.id \in Int /\ z.id \in Int
      OBVIOUS
    <3> QED BY <1>1, <2>2, <3>1
  <2> QED BY <2>1, <2>2 DEF Ranks
<1>3. PICK z \in SetToSeqs(S) : InTurn(z, R)
  BY <1>2, OrderFound
<1> QED BY <1>1, <1>3 DEF InTurn
LEMMA LeastIdFirst ==
  ASSUME NEW S, IsFiniteSet(S), \A r \in S : r.id \in Int, \A r, s \in S : r.id = s.id => r = s
  PROVE  LET q == InOrder(S, LAMBDA r, s : r.id < s.id)
         IN  q \in SetToSeqs(S) /\ \A k, l \in DOMAIN q : k < l => q[k].id < q[l].id
<1> DEFINE Good(z) == \A k, l \in DOMAIN z : k < l => z[k].id < z[l].id
           c == CHOOSE z \in SetToSeqs(S) : Good(z)
<1>1. \E z \in SetToSeqs(S) : Good(z)
  BY LeastIdExists
<1>2. c \in SetToSeqs(S) /\ Good(c)
  <2> HIDE DEF Good
  <2> QED BY <1>1
<1>3. InOrder(S, LAMBDA r, s : r.id < s.id) = c
  BY Zenon DEF InOrder
<1> QED BY <1>2, <1>3, Zenon

LEMMA LatestExists ==
  ASSUME NEW S, IsFiniteSet(S), \A r \in S : r.id \in Int /\ r.date \in Int,
         \A r, s \in S : r.id = s.id => r = s
  PROVE  \E z \in SetToSeqs(S) : \A k, l \in DOMAIN z : k < l => Later(z[k], z[l])
<1> DEFINE R == {p \in S \X S : Later(p[1], p[2])}
<1>1. \A x, y : <<x, y>> \in R <=> x \in S /\ y \in S /\ Later(x, y)
  OBVIOUS
<1> HIDE DEF R
<1>2. Ranks(R, S)
  <2>1. ASSUME NEW x \in S, NEW y \in S, x # y PROVE <<x, y>> \in R \/ <<y, x>> \in R
    <3>1. /\ x.id \in Int /\ y.id \in Int /\ x.id # y.id /\ x.date \in Int /\ y.date \in Int
      BY <2>1
    <3> QED BY <1>1, <3>1 DEF Later
  <2>2. ASSUME NEW x \in S, NEW y \in S, NEW z \in S, <<x, y>> \in R, <<y, z>> \in R PROVE <<x, z>> \in R
    <3>1. /\ x.id \in Int /\ y.id \in Int /\ z.id \in Int
          /\ x.date \in Int /\ y.date \in Int /\ z.date \in Int
      OBVIOUS
    <3> QED BY <1>1, <2>2, <3>1 DEF Later
  <2> QED BY <2>1, <2>2 DEF Ranks
<1>3. PICK z \in SetToSeqs(S) : InTurn(z, R)
  BY <1>2, OrderFound
<1> QED BY <1>1, <1>3 DEF InTurn
LEMMA LatestFirst ==
  ASSUME NEW S, IsFiniteSet(S), \A r \in S : r.id \in Int /\ r.date \in Int,
         \A r, s \in S : r.id = s.id => r = s
  PROVE  LET q == InOrder(S, Later)
         IN  q \in SetToSeqs(S) /\ \A k, l \in DOMAIN q : k < l => Later(q[k], q[l])
<1> DEFINE Good(z) == \A k, l \in DOMAIN z : k < l => Later(z[k], z[l])
           c == CHOOSE z \in SetToSeqs(S) : Good(z)
<1>1. \E z \in SetToSeqs(S) : Good(z)
  BY LatestExists
<1>2. c \in SetToSeqs(S) /\ Good(c)
  <2> HIDE DEF Good
  <2> QED BY <1>1
<1>3. InOrder(S, Later) = c
  BY Zenon DEF InOrder
<1> QED BY <1>2, <1>3, Zenon

LEMMA FirstIs ==
  ASSUME NEW S, NEW q \in Seq(S), NEW n \in Nat
  PROVE  /\ FirstOf(q, n) \in Seq(S)
         /\ Len(FirstOf(q, n)) = IF Len(q) < n THEN Len(q) ELSE n
         /\ \A k \in 1 .. Len(FirstOf(q, n)) : FirstOf(q, n)[k] = q[k]
BY DEF FirstOf

LEMMA PageIs ==
  ASSUME NEW S, NEW q \in Seq(S), NEW skip \in Nat
  PROVE  /\ Page(q, skip) \in Seq(S)
         /\ Len(Page(q, skip)) = IF Len(q) <= skip THEN 0
                                 ELSE IF Len(q) - skip < PageLimit THEN Len(q) - skip ELSE PageLimit
         /\ \A k \in 1 .. Len(Page(q, skip)) : Page(q, skip)[k] = q[skip + k]
<1> DEFINE z == SubSeq(q, skip + 1, Len(q))
<1>1. /\ z \in Seq(S) /\ Len(z) = IF Len(q) <= skip THEN 0 ELSE Len(q) - skip
      /\ \A k \in 1 .. Len(z) : z[k] = q[skip + k]
  OBVIOUS
<1>2. PageLimit \in Nat /\ Page(q, skip) = FirstOf(z, PageLimit)
  BY PagingAssumption DEF Page
<1> HIDE DEF z
<1>3. /\ FirstOf(z, PageLimit) \in Seq(S)
      /\ Len(FirstOf(z, PageLimit)) = IF Len(z) < PageLimit THEN Len(z) ELSE PageLimit
      /\ \A k \in 1 .. Len(FirstOf(z, PageLimit)) : FirstOf(z, PageLimit)[k] = z[k]
  BY <1>1, <1>2, FirstIs
<1>4. Len(z) \in Nat /\ Len(q) \in Nat /\ Len(FirstOf(z, PageLimit)) <= Len(z)
  BY <1>1, <1>2, <1>3
<1> QED BY <1>1, <1>2, <1>3, <1>4

(* The rows of a listing are as few as its ids.                             *)
Listing(S) == /\ IsFiniteSet(S)
              /\ \A r \in S : r.id \in Nat \ {0} /\ r.date \in Int \cup {Null}
              /\ \A r, s \in S : r.id = s.id => r = s
LEMMA AllIsListing ==
  ASSUME PagesInv
  PROVE  Listing(All)
<1>1. rows \in Seq(Lines) /\ OneEach(rows) /\ Len(rows) \in Nat
  BY DEF PagesInv
<1>2. \A r : r \in All <=> \E n \in 1 .. Len(rows) : r = rows[n]
  BY <1>1, RowsOfAll
<1>3. \A r \in All : r.id \in Nat \ {0} /\ r.date \in Int \cup {Null}
  <2> SUFFICES ASSUME NEW r \in All PROVE r.id \in Nat \ {0} /\ r.date \in Int \cup {Null}
    OBVIOUS
  <2>1. r \in Lines
    BY <1>1, <1>2
  <2>2. PICK i \in Ids, s \in Says : r = Row(i, s)
    BY <2>1 DEF Lines
  <2>3. r["id"] = i /\ r["date"] = s["date"]
    BY <2>2, PagingAssumption DEF Row
  <2> QED BY <2>3, PagingAssumption
<1>4. \A r, s \in All : r.id = s.id => r = s
  BY <1>2, <1>1 DEF OneEach
<1>5. IsFiniteSet(All)
  <2>1. DOMAIN rows = 1 .. Len(rows) /\ IsFiniteSet(1 .. Len(rows))
    BY <1>1, FS_Interval
  <2>2. rows \in Surjection(1 .. Len(rows), All)
    BY <1>1, <1>2 DEF Surjection
  <2> QED BY <2>1, <2>2, FS_Surjection
<1> QED BY <1>3, <1>4, <1>5 DEF Listing

(* What the client has of a row: nothing, or one line.                      *)
Never(q, i) == \A n \in 1 .. Len(q) : q[n] # i
Once(q, i) == \E n \in 1 .. Len(q) : q[n] = i /\ \A m \in 1 .. Len(q) : q[m] = i => m = n
Has(q, i) == \E n \in 1 .. Len(q) : q[n] = i

LEMMA GotMore ==
  ASSUME NEW q \in Seq(Nat), NEW p \in Seq(Nat), NEW i
  PROVE  /\ q \o p \in Seq(Nat) /\ Len(q \o p) = Len(q) + Len(p)
         /\ Never(q, i) /\ Never(p, i) => Never(q \o p, i)
         /\ Never(q, i) /\ Once(p, i) => Once(q \o p, i)
         /\ Once(q, i) /\ Never(p, i) => Once(q \o p, i)
         /\ Has(q, i) \/ Has(p, i) => Has(q \o p, i)
<1> DEFINE z == q \o p
<1>1. /\ z \in Seq(Nat) /\ Len(z) = Len(q) + Len(p) /\ Len(q) \in Nat /\ Len(p) \in Nat
      /\ \A n \in 1 .. Len(q) : z[n] = q[n]
      /\ \A n \in 1 .. Len(p) : z[Len(q) + n] = p[n]
  OBVIOUS
<1>2. \A n \in 1 .. Len(z) : n \in 1 .. Len(q) \/ \E m \in 1 .. Len(p) : n = Len(q) + m
  <2> SUFFICES ASSUME NEW n \in 1 .. Len(z), n \notin 1 .. Len(q) PROVE \E m \in 1 .. Len(p) : n = Len(q) + m
    OBVIOUS
  <2>1. n - Len(q) \in 1 .. Len(p) /\ n = Len(q) + (n - Len(q))
    BY <1>1
  <2> QED BY <2>1
<1>3. (\A n \in 1 .. Len(q) : n \in 1 .. Len(z)) /\ (\A n \in 1 .. Len(p) : Len(q) + n \in 1 .. Len(z))
  BY <1>1
<1> HIDE DEF z
<1>4. ASSUME Never(q, i), Once(p, i) PROVE Once(z, i)
  <2>1. PICK n \in 1 .. Len(p) : p[n] = i /\ \A m \in 1 .. Len(p) : p[m] = i => m = n
    BY <1>4 DEF Once
  <2>2. ASSUME NEW m \in 1 .. Len(z), z[m] = i PROVE m = Len(q) + n
    <3>1. m \notin 1 .. Len(q)
      BY <1>1, <1>4, <2>2 DEF Never
    <3>2. PICK k \in 1 .. Len(p) : m = Len(q) + k
      BY <1>2, <3>1
    <3>3. p[k] = i
      BY <1>1, <2>2, <3>2
    <3> QED BY <2>1, <3>2, <3>3
  <2>3. Len(q) + n \in 1 .. Len(z) /\ z[Len(q) + n] = i
    BY <1>1, <1>3, <2>1
  <2> QED BY <2>2, <2>3 DEF Once
<1>5. ASSUME Once(q, i), Never(p, i) PROVE Once(z, i)
  <2>1. PICK n \in 1 .. Len(q) : q[n] = i /\ \A m \in 1 .. Len(q) : q[m] = i => m = n
    BY <1>5 DEF Once
  <2>2. ASSUME NEW m \in 1 .. Len(z), z[m] = i PROVE m = n
    BY <1>1, <1>2, <1>5, <2>1, <2>2 DEF Never
  <2>3. n \in 1 .. Len(z) /\ z[n] = i
    BY <1>1, <1>3, <2>1
  <2> QED BY <2>2, <2>3 DEF Once
<1>6. Never(q, i) /\ Never(p, i) => Never(z, i)
  BY <1>1, <1>2 DEF Never
<1>7. Has(q, i) \/ Has(p, i) => Has(z, i)
  BY <1>1, <1>3 DEF Has
<1> QED BY <1>1, <1>4, <1>5, <1>6, <1>7 DEF z

LEMMA OnceIsOne ==
  ASSUME NEW q \in Seq(Nat), NEW i, Once(q, i)
  PROVE  Count({n \in DOMAIN q : q[n] = i}) = 1 /\ Has(q, i)
<1>1. PICK n \in 1 .. Len(q) : q[n] = i /\ \A m \in 1 .. Len(q) : q[m] = i => m = n
  BY DEF Once
<1>2. {m \in DOMAIN q : q[m] = i} = {n}
  <2>1. DOMAIN q = 1 .. Len(q)
    OBVIOUS
  <2> QED BY <1>1, <2>1
<1> QED BY <1>1, <1>2, FS_Singleton DEF Count, Has

(* What is known of the rows that were there and unchanged all the while:   *)
(* by key, the client has them once if they come before where it is, and    *)
(* not if they come after; by offset, it has them, or as many newer ones    *)
(* are there as it has left behind.                                         *)
CursorPart == pass.kind = "cursor" =>
  /\ pass.open => pass.cursor \in Int \X Int
  /\ \A i \in pass.stayed : \E r \in Listed(pass.filter) :
       /\ r.id = i /\ r.date # Null
       /\ IF pass.open /\ r \in Below(pass.cursor) THEN Never(pass.got, i) ELSE Once(pass.got, i)
Ahead == {r \in Exported(pass.filter) : r.id > pass.at}
Behind == {r \in Exported(pass.filter) : r.id <= pass.at}
CsvPart == pass.kind = "csv" =>
  /\ pass.at \in Nat
  /\ \A i \in pass.stayed : \E r \in Exported(pass.filter) :
       r.id = i /\ IF pass.open /\ r.id > pass.at THEN Never(pass.got, i) ELSE Once(pass.got, i)
  /\ changes = 0 => /\ pass.total = Cardinality(Exported(pass.filter))
                    /\ Len(pass.got) = Cardinality(Behind)
                    /\ ~pass.open => Ahead = {}
Beyond(N, n) == Cardinality({m \in N : m > n})
Places == {n \in DOMAIN rows : rows[n] \in Listed(pass.filter)}
OffsetPart == pass.kind = "offset" =>
  /\ pass.at \in Nat
  /\ ~pass.left => \A i \in pass.stayed :
       \/ Has(pass.got, i)
       \/ pass.open /\ \E n \in Places : rows[n].id = i /\ Beyond(Places, n) >= pass.at
AuditPart == pass.kind = "audit" =>
  /\ pass.at \in Nat
  /\ \A i \in pass.stayed :
       \/ Has(pass.got, i)
       \/ pass.open /\ i \in Entries(pass.filter) /\ Beyond(Entries(pass.filter), i) >= pass.at
PassInv == pass.got \in Seq(Nat) /\ CursorPart /\ CsvPart /\ OffsetPart /\ AuditPart

(* A page shows the first of its order.                                     *)
Shows(q, S, ids, limit) ==
  /\ q \in SetToSeqs(S) /\ \A k, l \in DOMAIN q : q[k].id = q[l].id => k = l
  /\ ids \in Seq(Nat) /\ Len(ids) = IF Len(q) < limit THEN Len(q) ELSE limit
  /\ \A k \in 1 .. Len(ids) : ids[k] = q[k].id
LEMMA CursorTurn ==
  ASSUME PagesInv, NEW f, NEW c \in Int \X Int
  PROVE  \E q : /\ Shows(q, Listed(f) \cap Below(c), IdSeq(CursorPage(f, c).items), PageLimit)
                /\ \A k, l \in DOMAIN q : k < l => Later(q[k], q[l])
                /\ CursorPage(f, c).next = IF Len(q) > PageLimit THEN KeyOf(q[PageLimit]) ELSE Null
<1> DEFINE S == Listed(f) \cap Below(c)
           q == InOrder(S, Later)
           page == FirstOf(q, PageLimit + 1)
           items == FirstOf(page, PageLimit)
           ids == IdSeq(items)
<1>1. Listing(All) /\ S \subseteq All /\ \A r \in S : r.date # Null
  BY AllIsListing DEF Below
<1>2. /\ IsFiniteSet(S) /\ \A r \in S : r.id \in Int /\ r.id \in Nat /\ r.date \in Int
      /\ \A r, s \in S : r.id = s.id => r = s
  BY <1>1, FS_Subset DEF Listing
<1>3. CursorPage(f, c) = [items |-> items, next |-> IF Len(page) > PageLimit THEN NextCursor(page) ELSE Null]
  BY Zenon DEF CursorPage
<1> HIDE DEF S
<1>4. q \in SetToSeqs(S) /\ \A k, l \in DOMAIN q : k < l => Later(q[k], q[l])
  BY <1>2, LatestFirst, Zenon
<1>5. PageLimit \in Nat \ {0}
  BY PagingAssumption
<1> HIDE DEF q
<1>6. q \in Seq(S) /\ Len(q) \in Nat /\ \A k, l \in DOMAIN q : q[k].id = q[l].id => k = l
  BY <1>2, <1>4, SeqHasAll
<1>7. /\ page \in Seq(S) /\ Len(page) = IF Len(q) < PageLimit + 1 THEN Len(q) ELSE PageLimit + 1
      /\ \A k \in 1 .. Len(page) : page[k] = q[k]
  BY <1>5, <1>6, FirstIs
<1> HIDE DEF page
<1>8. /\ items \in Seq(S) /\ Len(items) = IF Len(page) < PageLimit THEN Len(page) ELSE PageLimit
      /\ \A k \in 1 .. Len(items) : items[k] = page[k]
  BY <1>5, <1>7, FirstIs
<1> HIDE DEF items
<1>9. /\ Len(items) = IF Len(q) < PageLimit THEN Len(q) ELSE PageLimit
      /\ Len(items) \in Nat /\ DOMAIN items = 1 .. Len(items)
      /\ \A k \in 1 .. Len(items) : items[k] = q[k] /\ items[k] \in S
  BY <1>5, <1>6, <1>7, <1>8
<1>10. /\ ids \in Seq(Nat) /\ Len(ids) = IF Len(q) < PageLimit THEN Len(q) ELSE PageLimit
       /\ \A k \in 1 .. Len(ids) : ids[k] = q[k].id
  <2>1. ids = [k \in 1 .. Len(items) |-> items[k].id] /\ \A k \in 1 .. Len(items) : items[k].id \in Nat
    BY <1>2, <1>9 DEF IdSeq
  <2> HIDE DEF ids
  <2>2. ids \in Seq(Nat) /\ Len(ids) = Len(items)
    BY <1>9, <2>1
  <2> QED BY <1>9, <2>1, <2>2
<1>11. (IF Len(page) > PageLimit THEN NextCursor(page) ELSE Null)
        = IF Len(q) > PageLimit THEN KeyOf(q[PageLimit]) ELSE Null
  BY <1>5, <1>6, <1>7 DEF NextCursor
<1> HIDE DEF ids
<1>12. CursorPage(f, c).items = items /\ CursorPage(f, c).next = IF Len(q) > PageLimit THEN KeyOf(q[PageLimit]) ELSE Null
  BY <1>3, <1>11
<1>13. Shows(q, S, ids, PageLimit)
  BY <1>4, <1>6, <1>10 DEF Shows
<1> QED BY <1>4, <1>12, <1>13 DEF ids, S

LEMMA CsvTurn ==
  ASSUME PagesInv, NEW f, NEW last \in Nat
  PROVE  \E q : /\ Shows(q, {r \in Exported(f) : r.id > last}, IdSeq(CsvBatch(f, last)), BatchSize)
                /\ \A k, l \in DOMAIN q : k < l => q[k].id < q[l].id
                /\ CsvBatch(f, last) \in Seq({r \in Exported(f) : r.id > last})
                /\ Len(CsvBatch(f, last)) = Len(IdSeq(CsvBatch(f, last)))
                /\ \A k \in 1 .. Len(CsvBatch(f, last)) : CsvBatch(f, last)[k] = q[k]
<1> DEFINE S == {r \in Exported(f) : r.id > last}
           q == InOrder(S, LAMBDA r, s : r.id < s.id)
<1>1. Listing(All) /\ S \subseteq All
  BY AllIsListing DEF Exported
<1>2. /\ IsFiniteSet(S) /\ \A r \in S : r.id \in Int
      /\ \A r, s \in S : r.id = s.id => r = s
  BY <1>1, FS_Subset DEF Listing
<1>3. CsvBatch(f, last) = FirstOf(q, BatchSize)
  BY Zenon DEF CsvBatch
<1> HIDE DEF S
<1>4. q \in SetToSeqs(S) /\ \A k, l \in DOMAIN q : k < l => q[k].id < q[l].id
  BY <1>2, LeastIdFirst, Zenon
<1> HIDE DEF q
<1>5. /\ q \in Seq(S) /\ Len(q) \in Nat /\ DOMAIN q = 1 .. Len(q) /\ \A k \in 1 .. Len(q) : q[k] \in S
      /\ \A k, l \in DOMAIN q : q[k].id = q[l].id => k = l
  <2>1. q \in Seq(S) /\ Len(q) \in Nat /\ DOMAIN q = 1 .. Len(q) /\ \A k \in 1 .. Len(q) : q[k] \in S
    BY <1>2, <1>4, SeqHasAll
  <2>2. ASSUME NEW k \in 1 .. Len(q), NEW l \in 1 .. Len(q), q[k].id = q[l].id PROVE k = l
    <3>1. q[k].id \in Int /\ q[l].id \in Int
      BY <1>2, <2>1
    <3>2. ~(k < l) /\ ~(l < k)
      BY <1>4, <2>1, <2>2, <3>1
    <3> QED BY <2>1, <3>2
  <2> QED BY <2>1, <2>2
<1>6. BatchSize \in Nat
  BY PagingAssumption
<1> DEFINE p == CsvBatch(f, last)
           ids == IdSeq(p)
<1>7. /\ p \in Seq(S) /\ Len(p) = IF Len(q) < BatchSize THEN Len(q) ELSE BatchSize
      /\ \A k \in 1 .. Len(p) : p[k] = q[k]
  <2>1. p = FirstOf(q, BatchSize)
    BY <1>3
  <2>2. q \in Seq(S)
    BY <1>5
  <2>3. /\ FirstOf(q, BatchSize) \in Seq(S)
        /\ Len(FirstOf(q, BatchSize)) = IF Len(q) < BatchSize THEN Len(q) ELSE BatchSize
        /\ \A k \in 1 .. Len(FirstOf(q, BatchSize)) : FirstOf(q, BatchSize)[k] = q[k]
    BY <1>6, <2>2, FirstIs
  <2> HIDE DEF p
  <2> QED BY <2>1, <2>3, Zenon
<1> HIDE DEF p
<1>8. /\ Len(p) \in Nat /\ Len(p) <= Len(q) /\ DOMAIN p = 1 .. Len(p)
      /\ \A k \in 1 .. Len(p) : p[k].id \in Nat /\ k \in 1 .. Len(q)
  <2>1. Len(p) \in Nat /\ Len(p) <= Len(q) /\ DOMAIN p = 1 .. Len(p)
    BY <1>5, <1>6, <1>7
  <2>2. \A k \in 1 .. Len(p) : p[k].id \in Nat /\ k \in 1 .. Len(q)
    BY <1>1, <1>5, <1>7, <2>1 DEF Listing
  <2> QED BY <2>1, <2>2
<1>9. ids = [k \in 1 .. Len(p) |-> p[k].id]
  BY <1>8 DEF IdSeq
<1> HIDE DEF ids
<1>10. ids \in Seq(Nat) /\ Len(ids) = Len(p) /\ \A k \in 1 .. Len(p) : ids[k] = q[k].id
  BY <1>7, <1>8, <1>9
<1>11. Shows(q, S, ids, BatchSize)
  BY <1>4, <1>5, <1>7, <1>10 DEF Shows
<1> QED BY <1>4, <1>7, <1>10, <1>11 DEF S, p, ids

LEMMA CursorNext ==
  ASSUME PagesInv, PassInv, NextPage, pass.kind = "cursor"
  PROVE  PassInv'
<1> DEFINE c == pass.cursor
           f == pass.filter
           p == CursorPage(f, c)
           ids == IdSeq(p.items)
           S == Listed(f) \cap Below(c)
<1>1. /\ pass.open /\ UNCHANGED <<rows, log, changes>> /\ DOMAIN pass = DOMAIN NoPass
      /\ pass' = [pass EXCEPT !.got = @ \o ids, !.cursor = p.next, !.open = p.next # Null]
  BY DEF NextPage, PagesInv, PassTyped
<1>2. /\ pass.got \in Seq(Nat) /\ c \in Int \X Int
      /\ \A i \in pass.stayed : \E r \in Listed(f) :
           /\ r.id = i /\ r.date # Null
           /\ IF r \in Below(c) THEN Never(pass.got, i) ELSE Once(pass.got, i)
  BY <1>1 DEF PassInv, CursorPart
<1>5. Listing(All) /\ S \subseteq All
  BY AllIsListing DEF Below
<1>6. /\ IsFiniteSet(S) /\ \A r \in S : r.id \in Nat /\ r.date \in Int
      /\ \A r, s \in All : r.id = s.id => r = s
      /\ \A r \in All : r.id \in Nat /\ r.date \in Int \cup {Null}
  BY <1>5, FS_Subset DEF Listing, Below
<1>4. /\ pass'.got = pass.got \o ids /\ pass'.cursor = p.next /\ pass'.open = (p.next # Null)
      /\ pass'.kind = "cursor" /\ pass'.filter = f /\ pass'.stayed = pass.stayed
  BY <1>1 DEF NoPass
<1> HIDE DEF c, f
<1>0. PICK q : /\ Shows(q, S, ids, PageLimit)
               /\ \A k, l \in DOMAIN q : k < l => Later(q[k], q[l])
               /\ p.next = IF Len(q) > PageLimit THEN KeyOf(q[PageLimit]) ELSE Null
  BY <1>2, CursorTurn
<1> HIDE DEF p, ids
<1>3. /\ \A k, l \in DOMAIN q : k < l => Later(q[k], q[l])
      /\ p.next = IF Len(q) > PageLimit THEN KeyOf(q[PageLimit]) ELSE Null
      /\ ids \in Seq(Nat) /\ Len(ids) = IF Len(q) < PageLimit THEN Len(q) ELSE PageLimit
      /\ \A k \in 1 .. Len(ids) : ids[k] = q[k].id
      /\ q \in SetToSeqs(S) /\ \A k, l \in DOMAIN q : q[k].id = q[l].id => k = l
  BY <1>0, Zenon DEF Shows
<1> HIDE DEF S
<1>7. /\ Len(q) \in Nat /\ DOMAIN q = 1 .. Len(q) /\ \A k \in 1 .. Len(q) : q[k] \in S
      /\ \A r \in S : \E k \in 1 .. Len(q) : q[k] = r
  BY <1>3, <1>6, SeqHasAll
<1>8. PageLimit \in Nat \ {0} /\ Null \notin Int
  BY PagingAssumption
<1>9. Len(ids) \in Nat /\ Len(ids) <= Len(q) /\ Len(ids) <= PageLimit
  BY <1>3, <1>7, <1>8
<1>11. \A x, r : r \in Below(x) <=> /\ r \in All /\ r.date # Null
                                    /\ x[1] > r.date \/ (x[1] = r.date /\ x[2] > r.id)
  BY DEF Below, Later
<1>12. \A k, l \in 1 .. Len(q) : q[k].id = q[l].id => k = l
  BY <1>3, <1>7
\* Where the client is now: at the last row it has been shown.
<1>13. ASSUME p.next # Null
       PROVE  /\ Len(q) > PageLimit /\ Len(ids) = PageLimit /\ p.next = <<q[PageLimit].date, q[PageLimit].id>>
              /\ PageLimit \in 1 .. Len(q) /\ q[PageLimit] \in S
  <2> HIDE DEF p, ids
  <2>0. Len(q) > PageLimit
    BY <1>3, <1>13
  <2>1. p.next = KeyOf(q[PageLimit])
    BY <1>3, <2>0
  <2>2. Len(ids) = PageLimit /\ PageLimit \in 1 .. Len(q)
    <3>1. Len(ids) = IF Len(q) < PageLimit THEN Len(q) ELSE PageLimit
      BY <1>3
    <3>2. Len(q) \in Nat /\ PageLimit \in Nat \ {0}
      BY <1>7, <1>8
    <3> QED BY <2>0, <3>1, <3>2
  <2>3. q[PageLimit] \in S
    BY <1>7, <2>2
  <2> QED BY <2>0, <2>1, <2>2, <2>3, Zenon DEF KeyOf
<1>14. ASSUME Len(q) > PageLimit PROVE p.next # Null /\ p.next \in Int \X Int
  <2>1. p.next = <<q[PageLimit].date, q[PageLimit].id>> /\ q[PageLimit] \in S
    BY <1>3, <1>7, <1>8, <1>14 DEF KeyOf
  <2>2. p.next \in Int \X Int
    BY <1>6, <2>1
  <2> QED BY <2>2, PagingAssumption
<1>15. p.next # Null => p.next \in Int \X Int
  BY <1>13, <1>14
<1> HIDE DEF p, ids
<1>16. ASSUME NEW i \in pass.stayed
       PROVE  \E r \in Listed(f) :
                /\ r.id = i /\ r.date # Null
                /\ IF p.next # Null /\ r \in Below(p.next) THEN Never(pass.got \o ids, i)
                                                           ELSE Once(pass.got \o ids, i)
  <2>1. PICK r \in Listed(f) : /\ r.id = i /\ r.date # Null
                               /\ IF r \in Below(c) THEN Never(pass.got, i) ELSE Once(pass.got, i)
    BY <1>2, <1>16
  <2>2. r \in All /\ r.id \in Nat /\ r.date \in Int
    BY <1>6, <2>1 DEF Listed
  <2>3. CASE r \in Below(c)
    <3>1. PICK k \in 1 .. Len(q) : q[k] = r
      BY <1>7, <2>1, <2>3 DEF S
    <3>2. CASE k <= Len(ids)
      <4>1. Once(ids, i)
        <5>1. k \in 1 .. Len(ids) /\ ids[k] = i
          BY <1>3, <1>9, <2>1, <3>1, <3>2
        <5>2. ASSUME NEW m \in 1 .. Len(ids), ids[m] = i PROVE m = k
          <6>1. m \in 1 .. Len(q) /\ q[m].id = q[k].id
            BY <1>3, <1>9, <2>1, <3>1, <5>2
          <6> QED BY <1>12, <6>1
        <5> QED BY <5>1, <5>2 DEF Once
      <4>2. Once(pass.got \o ids, i)
        BY <1>2, <1>3, <2>1, <2>3, <4>1, GotMore
      <4>3. ASSUME p.next # Null, r \in Below(p.next) PROVE FALSE
        <5> DEFINE e == q[PageLimit]
        <5>1. /\ e.date > r.date \/ (e.date = r.date /\ e.id > r.id)
              /\ e.date \in Int /\ e.id \in Int
          BY <1>6, <1>11, <1>13, <4>3
        <5>2. k = PageLimit \/ k < PageLimit
          BY <1>8, <1>13, <3>2, <4>3
        <5>3. CASE k = PageLimit
          BY <2>2, <3>1, <5>1, <5>3
        <5>4. CASE k < PageLimit
          <6>1. Later(q[k], q[PageLimit])
            BY <1>3, <1>7, <1>13, <4>3, <5>4
          <6> QED BY <2>2, <3>1, <5>1, <6>1 DEF Later
        <5> QED BY <5>2, <5>3, <5>4
      <4> QED BY <2>1, <4>2, <4>3
    <3>3. CASE ~(k <= Len(ids))
      <4>1. Len(q) > PageLimit /\ PageLimit < k /\ PageLimit \in 1 .. Len(q)
        BY <1>3, <1>7, <1>8, <3>3
      <4>2. Never(ids, i)
        <5> SUFFICES ASSUME NEW m \in 1 .. Len(ids), ids[m] = i PROVE FALSE
          BY DEF Never
        <5>1. m \in 1 .. Len(q) /\ q[m].id = q[k].id
          BY <1>3, <1>9, <2>1, <3>1
        <5>2. m = k
          BY <1>12, <5>1
        <5> QED BY <1>9, <3>3, <5>2
      <4>3. Never(pass.got \o ids, i)
        BY <1>2, <1>3, <2>1, <2>3, <4>2, GotMore
      <4>4. p.next # Null
        BY <1>14, <4>1
      <4>5. r \in Below(p.next)
        <5>1. Later(q[PageLimit], q[k])
          BY <1>3, <1>7, <4>1
        <5> QED BY <1>11, <1>13, <2>1, <2>2, <3>1, <4>4, <5>1 DEF Later
      <4> QED BY <2>1, <4>3, <4>4, <4>5
    <3> QED BY <3>2, <3>3
  <2>4. CASE r \notin Below(c)
    <3>1. Never(ids, i)
      <4> SUFFICES ASSUME NEW m \in 1 .. Len(ids), ids[m] = i PROVE FALSE
        BY DEF Never
      <4>1. m \in 1 .. Len(q) /\ q[m].id = r.id /\ q[m] \in S
        BY <1>3, <1>7, <1>9, <2>1
      <4>2. q[m] = r
        BY <1>5, <1>6, <2>2, <4>1
      <4> QED BY <2>4, <4>1, <4>2 DEF S
    <3>2. Once(pass.got \o ids, i)
      BY <1>2, <1>3, <2>1, <2>4, <3>1, GotMore
    <3>3. ASSUME p.next # Null, r \in Below(p.next) PROVE FALSE
      <4> DEFINE e == q[PageLimit]
      <4>1. /\ e.date > r.date \/ (e.date = r.date /\ e.id > r.id)
            /\ e.date \in Int /\ e.id \in Int /\ e \in Below(c)
        BY <1>6, <1>11, <1>13, <3>3 DEF S
      <4>2. /\ c[1] > e.date \/ (c[1] = e.date /\ c[2] > e.id)
            /\ c[1] \in Int /\ c[2] \in Int
        BY <1>2, <1>11, <4>1
      <4>3. c[1] > r.date \/ (c[1] = r.date /\ c[2] > r.id)
        BY <2>2, <4>1, <4>2
      <4> QED BY <1>11, <2>1, <2>2, <2>4, <4>3
    <3> QED BY <2>1, <3>2, <3>3
  <2> QED BY <2>3, <2>4
<1>17. pass'.got \in Seq(Nat)
  BY <1>2, <1>3, <1>4, GotMore
<1>18. CursorPart'
  <2>1. Listed(pass.filter)' = Listed(f)
    BY <1>1, <1>4 DEF Listed, Ranged, InCategory, Known, All
  <2>2. Below(pass.cursor)' = Below(p.next)
    BY <1>1, <1>4 DEF Below, Later, All
  <2>3. pass'.open => pass'.cursor \in Int \X Int
    BY <1>4, <1>15
  <2>4. \A i \in pass'.stayed : \E r \in Listed(pass.filter)' :
          /\ r.id = i /\ r.date # Null
          /\ IF pass'.open /\ r \in Below(pass.cursor)' THEN Never(pass'.got, i) ELSE Once(pass'.got, i)
    <3> SUFFICES ASSUME NEW i \in pass'.stayed
                 PROVE  \E r \in Listed(pass.filter)' :
                          /\ r.id = i /\ r.date # Null
                          /\ IF pass'.open /\ r \in Below(pass.cursor)' THEN Never(pass'.got, i) ELSE Once(pass'.got, i)
      OBVIOUS
    <3>1. PICK r \in Listed(f) :
            /\ r.id = i /\ r.date # Null
            /\ IF p.next # Null /\ r \in Below(p.next) THEN Never(pass.got \o ids, i)
                                                       ELSE Once(pass.got \o ids, i)
      BY <1>4, <1>16
    <3>2. pass'.open /\ r \in Below(pass.cursor)' <=> p.next # Null /\ r \in Below(p.next)
      BY <1>4, <2>2, Zenon
    <3>3. IF pass'.open /\ r \in Below(pass.cursor)' THEN Never(pass'.got, i) ELSE Once(pass'.got, i)
      BY <1>4, <3>1, <3>2, Zenon
    <3> QED BY <2>1, <3>1, <3>3
  <2> QED BY <2>3, <2>4, Zenon DEF CursorPart
<1> QED BY <1>4, <1>17, <1>18 DEF PassInv, CsvPart, OffsetPart, AuditPart

LEMMA FirstFew ==
  ASSUME NEW q, NEW n \in Nat, \A k, l \in 1 .. n : q[k] = q[l] => k = l,
         NEW S, \A x : x \in S <=> \E k \in 1 .. n : q[k] = x
  PROVE  IsFiniteSet(S) /\ Cardinality(S) = n
<1> DEFINE h == [k \in 1 .. n |-> q[k]]
<1>1. h \in [1 .. n -> S] /\ (\A k \in 1 .. n : h[k] = q[k]) /\ \A x \in S : \E k \in 1 .. n : h[k] = x
  OBVIOUS
<1> HIDE DEF h
<1>2. h \in Bijection(1 .. n, S)
  BY <1>1 DEF Bijection, Injection, Surjection, IsInjective
<1>3. IsFiniteSet(1 .. n) /\ Cardinality(1 .. n) = n
  BY FS_Interval
<1>4. ExistsBijection(1 .. n, S)
  BY <1>2 DEF ExistsBijection
<1> QED BY <1>3, <1>4, FS_Bijection

LEMMA CsvNext ==
  ASSUME PagesInv, PassInv, NextPage, pass.kind = "csv"
  PROVE  PassInv'
<1> DEFINE f == pass.filter
           at == pass.at
           p == CsvBatch(f, at)
           ids == IdSeq(p)
           n == Len(ids)
           X == Exported(f)
           S == {r \in X : r.id > at}
<1>1. /\ pass.open /\ UNCHANGED <<rows, log, changes>> /\ DOMAIN pass = DOMAIN NoPass
      /\ pass' = [pass EXCEPT !.got = @ \o ids, !.at = IF p = <<>> THEN at ELSE Last(p).id, !.open = p # <<>>]
  BY DEF NextPage, Turn, PagesInv, PassTyped
<1>2. /\ pass.got \in Seq(Nat) /\ at \in Nat
      /\ \A i \in pass.stayed : \E r \in X :
           r.id = i /\ IF r.id > at THEN Never(pass.got, i) ELSE Once(pass.got, i)
      /\ changes = 0 => pass.total = Cardinality(X) /\ Len(pass.got) = Cardinality({r \in X : r.id <= at})
  BY <1>1 DEF PassInv, CsvPart, Behind
<1>3. /\ pass'.got = pass.got \o ids /\ pass'.at = (IF p = <<>> THEN at ELSE Last(p).id)
      /\ (pass'.open <=> p # <<>>) /\ pass'.total = pass.total
      /\ pass'.kind = "csv" /\ pass'.filter = f /\ pass'.stayed = pass.stayed
  BY <1>1 DEF NoPass
<1>4. Exported(pass.filter)' = X
  BY <1>1, <1>3 DEF Exported, Ranged, All
<1>5. /\ IsFiniteSet(X) /\ IsFiniteSet(S) /\ \A r \in X : r.id \in Nat
      /\ \A r, s \in X : r.id = s.id => r = s
  <2>1. Listing(All) /\ X \subseteq All /\ S \subseteq All
    BY AllIsListing DEF Exported
  <2> QED BY <2>1, FS_Subset DEF Listing
<1>20. PICK q : /\ Shows(q, S, ids, BatchSize)
                /\ \A k, l \in DOMAIN q : k < l => q[k].id < q[l].id
                /\ p \in Seq(S)
                /\ Len(p) = Len(ids)
                /\ \A k \in 1 .. Len(p) : p[k] = q[k]
  <2>1. at \in Nat
    BY <1>2
  <2> HIDE DEF f, at
  <2> QED BY <2>1, CsvTurn DEF X
<1>6. /\ \A k, l \in DOMAIN q : k < l => q[k].id < q[l].id
      /\ p \in Seq(S) /\ Len(p) = n /\ \A k \in 1 .. Len(p) : p[k] = q[k]
  BY <1>20
<1>7. (p = <<>> <=> n = 0) /\ (p # <<>> => Last(p) = q[n] /\ n \in 1 .. Len(p)) /\ n \in Nat
  <2>1. Len(p) \in Nat /\ Len(p) = n /\ (p = <<>> <=> Len(p) = 0)
    BY <1>6
  <2> HIDE DEF p, n
  <2>2. p # <<>> => n \in 1 .. Len(p)
    BY <2>1
  <2> QED BY <1>6, <2>1, <2>2 DEF Last
<1> HIDE DEF p, ids, S, X
<1>8. /\ q \in SetToSeqs(S) /\ \A k, l \in DOMAIN q : q[k].id = q[l].id => k = l
      /\ ids \in Seq(Nat) /\ n = IF Len(q) < BatchSize THEN Len(q) ELSE BatchSize
      /\ \A k \in 1 .. n : ids[k] = q[k].id
  BY <1>20, Zenon DEF Shows
<1>9. /\ Len(q) \in Nat /\ DOMAIN q = 1 .. Len(q) /\ \A k \in 1 .. Len(q) : q[k] \in S
      /\ \A r \in S : \E k \in 1 .. Len(q) : q[k] = r
  BY <1>5, <1>8, SeqHasAll
<1>10. /\ n <= Len(q) /\ (n = 0 => Len(q) = 0) /\ \A k \in 1 .. n : k \in 1 .. Len(q)
  <2>1. BatchSize \in Nat \ {0}
    BY PagingAssumption
  <2>2. n = IF Len(q) < BatchSize THEN Len(q) ELSE BatchSize
    BY <1>8
  <2>3. Len(q) \in Nat
    BY <1>9
  <2> HIDE DEF n
  <2> QED BY <2>1, <2>2, <2>3
<1>11. \A r : r \in S <=> r \in X /\ r.id > at
  BY DEF S
<1> DEFINE new == IF n = 0 THEN at ELSE q[n].id
<1>12. pass'.at = new /\ (pass'.open <=> n # 0)
  BY <1>3, <1>7
<1> HIDE DEF n
<1>13. new \in Nat /\ at <= new /\ (n # 0 => n \in 1 .. Len(q) /\ new = q[n].id /\ new > at)
  <2>1. CASE n = 0
    BY <1>2, <2>1
  <2>2. CASE n # 0
    <3>1. n \in 1 .. n
      BY <1>7, <2>2
    <3>2. n \in 1 .. Len(q) /\ q[n] \in X /\ q[n].id > at
      BY <1>9, <1>10, <1>11, <3>1
    <3> QED BY <1>2, <1>5, <2>2, <3>2
  <2> QED BY <2>1, <2>2
<1>14. \A k \in 1 .. Len(q) : k <= n <=> q[k].id <= new
  <2> SUFFICES ASSUME NEW k \in 1 .. Len(q) PROVE k <= n <=> q[k].id <= new
    OBVIOUS
  <2>1. q[k].id \in Nat /\ q[k].id > at /\ k \in Nat
    BY <1>5, <1>9, <1>11
  <2>2. CASE n = 0
    BY <1>9, <1>10, <2>2
  <2>3. CASE n # 0
    <3>1. n \in 1 .. Len(q) /\ new = q[n].id /\ new \in Nat /\ n \in Nat
      BY <1>13, <2>3
    <3>2. k < n => q[k].id < q[n].id
      BY <1>6, <1>9, <3>1
    <3>3. n < k => q[n].id < q[k].id
      BY <1>6, <1>9, <3>1
    <3> HIDE DEF new
    <3> QED BY <2>1, <3>1, <3>2, <3>3
  <2> QED BY <2>2, <2>3
<1> HIDE DEF new
<1>15. ASSUME NEW i \in pass.stayed
       PROVE  \E r \in X : r.id = i /\ IF n # 0 /\ r.id > new THEN Never(pass.got \o ids, i)
                                                              ELSE Once(pass.got \o ids, i)
  <2>1. PICK r \in X : r.id = i /\ IF r.id > at THEN Never(pass.got, i) ELSE Once(pass.got, i)
    BY <1>2
  <2>2. r.id \in Nat
    BY <1>5
  <2>3. CASE r.id > at
    <3>1. PICK k \in 1 .. Len(q) : q[k] = r
      BY <1>9, <1>11, <2>3
    <3>2. n # 0
      BY <1>9, <1>10, <3>1
    <3>3. CASE k <= n
      <4>1. Once(ids, i)
        <5>1. k \in 1 .. n /\ ids[k] = i
          BY <1>7, <1>8, <2>1, <3>1, <3>3
        <5>2. ASSUME NEW m \in 1 .. n, ids[m] = i PROVE m = k
          <6>1. m \in 1 .. Len(q) /\ q[m].id = q[k].id
            BY <1>8, <1>10, <2>1, <3>1, <5>2
          <6> QED BY <1>8, <1>9, <6>1
        <5> QED BY <5>1, <5>2 DEF Once, n
      <4>2. Once(pass.got \o ids, i)
        BY <1>2, <1>8, <2>1, <2>3, <4>1, GotMore
      <4>3. ~(r.id > new)
        BY <1>13, <1>14, <2>2, <3>1, <3>3
      <4> QED BY <2>1, <4>2, <4>3
    <3>4. CASE ~(k <= n)
      <4>1. Never(ids, i)
        <5> SUFFICES ASSUME NEW m \in 1 .. n, ids[m] = i PROVE FALSE
          BY DEF Never, n
        <5>1. m \in 1 .. Len(q) /\ q[m].id = q[k].id
          BY <1>8, <1>10, <2>1, <3>1
        <5>2. m = k
          BY <1>8, <1>9, <5>1
        <5> QED BY <1>7, <3>4, <5>2
      <4>2. Never(pass.got \o ids, i)
        BY <1>2, <1>8, <2>1, <2>3, <4>1, GotMore
      <4>3. r.id > new
        BY <1>13, <1>14, <2>2, <3>1, <3>4
      <4> QED BY <2>1, <3>2, <4>2, <4>3
    <3> QED BY <3>3, <3>4
  <2>4. CASE ~(r.id > at)
    <3>1. Never(ids, i)
      <4> SUFFICES ASSUME NEW m \in 1 .. n, ids[m] = i PROVE FALSE
        BY DEF Never, n
      <4>1. q[m].id = r.id /\ q[m] \in S
        BY <1>8, <1>9, <1>10, <2>1
      <4> QED BY <1>11, <2>4, <4>1
    <3>2. Once(pass.got \o ids, i)
      BY <1>2, <1>8, <2>1, <2>4, <3>1, GotMore
    <3>3. ~(r.id > new)
      BY <1>2, <1>13, <2>2, <2>4
    <3> QED BY <2>1, <3>2, <3>3
  <2> QED BY <2>3, <2>4
<1>16. ASSUME changes = 0
       PROVE  /\ Len(pass.got \o ids) = Cardinality({r \in X : r.id <= new})
              /\ n = 0 => {r \in X : r.id > new} = {}
  <2> DEFINE A == {r \in X : r.id <= at}
             B == {q[k] : k \in 1 .. n}
  <2>1. \A k, l \in 1 .. n : q[k] = q[l] => k = l
    BY <1>8, <1>9, <1>10
  <2>0. n \in Nat
    BY <1>7
  <2>2. IsFiniteSet(B) /\ Cardinality(B) = n
    <3>1. \A x : x \in B <=> \E k \in 1 .. n : q[k] = x
      OBVIOUS
    <3> HIDE DEF B
    <3> QED BY <2>0, <2>1, <3>1, FirstFew
  <2>3. {r \in X : r.id <= new} = A \cup B
    <3>1. ASSUME NEW r \in X, r.id <= new PROVE r \in A \cup B
      <4>1. CASE r.id > at
        <5>1. PICK k \in 1 .. Len(q) : q[k] = r
          BY <1>9, <1>11, <4>1
        <5>2. k \in 1 .. n
          BY <1>7, <1>14, <3>1, <5>1
        <5> QED BY <5>1, <5>2
      <4>2. CASE ~(r.id > at)
        BY <1>2, <1>5, <4>2
      <4> QED BY <4>1, <4>2
    <3>2. \A r \in A : r.id <= new
      BY <1>2, <1>5, <1>13
    <3>3. ASSUME NEW k \in 1 .. n PROVE q[k] \in X /\ q[k].id <= new
      BY <1>7, <1>9, <1>10, <1>11, <1>14
    <3> QED BY <3>1, <3>2, <3>3
  <2>4. IsFiniteSet(A) /\ A \cap B = {}
    <3>1. A \subseteq X
      OBVIOUS
    <3>2. \A k \in 1 .. n : q[k].id > at
      BY <1>9, <1>10, <1>11
    <3>3. A \cap B = {}
      BY <1>2, <1>5, <3>2
    <3> QED BY <1>5, <3>1, <3>3, FS_Subset
  <2> HIDE DEF A, B
  <2>5. Cardinality(A \cup B) = Cardinality(A) + n /\ Cardinality(A) \in Nat
    <3>1. Cardinality(A \cap B) = 0
      BY <2>4, FS_EmptySet
    <3>2. Cardinality(A \cup B) = Cardinality(A) + Cardinality(B) - Cardinality(A \cap B)
      BY <2>2, <2>4, FS_Union
    <3>3. Cardinality(A) \in Nat
      BY <2>4, FS_CardinalityType
    <3> QED BY <2>0, <2>2, <3>1, <3>2, <3>3
  <2>6. Len(pass.got \o ids) = Len(pass.got) + n
    BY <1>2, <1>8, GotMore DEF n
  <2>7. Len(pass.got) = Cardinality(A)
    BY <1>2, <1>16 DEF A
  <2>8. n = 0 => {r \in X : r.id > new} = {}
    <3> SUFFICES ASSUME n = 0, NEW r \in X, r.id > new PROVE FALSE
      OBVIOUS
    <3>1. r.id > at
      BY <1>2, <1>5, <1>13
    <3> QED BY <1>9, <1>10, <1>11, <3>1
  <2> QED BY <2>3, <2>5, <2>6, <2>7, <2>8
<1>17. pass'.got \in Seq(Nat)
  BY <1>2, <1>3, <1>8, GotMore
<1>18. CsvPart'
  <2>1. pass'.at \in Nat
    BY <1>12, <1>13
  <2>2. ASSUME NEW i \in pass'.stayed
        PROVE  \E r \in Exported(pass.filter)' :
                 r.id = i /\ IF pass'.open /\ r.id > pass'.at THEN Never(pass'.got, i) ELSE Once(pass'.got, i)
    <3>1. PICK r \in X : r.id = i /\ IF n # 0 /\ r.id > new THEN Never(pass.got \o ids, i)
                                                             ELSE Once(pass.got \o ids, i)
      BY <1>3, <1>15, <2>2
    <3>2. pass'.open /\ r.id > pass'.at <=> n # 0 /\ r.id > new
      BY <1>12, Zenon
    <3>3. IF pass'.open /\ r.id > pass'.at THEN Never(pass'.got, i) ELSE Once(pass'.got, i)
      BY <1>3, <3>1, <3>2, Zenon
    <3> QED BY <1>4, <3>1, <3>3
  <2>3. Behind' = {r \in X : r.id <= new} /\ Ahead' = {r \in X : r.id > new}
    BY <1>4, <1>12 DEF Behind, Ahead
  <2>4. changes' = 0 => /\ pass'.total = Cardinality(Exported(pass.filter)')
                        /\ Len(pass'.got) = Cardinality(Behind')
                        /\ ~pass'.open => Ahead' = {}
    <3> SUFFICES ASSUME changes = 0 PROVE /\ pass.total = Cardinality(X)
                                          /\ Len(pass.got \o ids) = Cardinality({r \in X : r.id <= new})
                                          /\ n = 0 => {r \in X : r.id > new} = {}
      BY <1>1, <1>3, <1>4, <1>12, <2>3
    <3> QED BY <1>2, <1>16
  <2> QED BY <2>1, <2>2, <2>4 DEF CsvPart
<1> QED BY <1>3, <1>17, <1>18 DEF PassInv, CursorPart, OffsetPart, AuditPart

(* A page by offset shows a place, or passes it by with as many before it.  *)
LEMMA PageMisses ==
  ASSUME NEW N, IsFiniteSet(N), N \subseteq Int, NEW q \in SetToSeqs(N),
         \A k, l \in DOMAIN q : k < l => q[k] > q[l],
         NEW S, NEW z \in Seq(S), Len(z) = Len(q),
         NEW skip \in Nat, NEW k \in 1 .. Len(q), Beyond(N, q[k]) >= skip
  PROVE  /\ Len(Page(z, skip)) \in Nat
         /\ \/ \E j \in 1 .. Len(Page(z, skip)) : Page(z, skip)[j] = z[k]
            \/ /\ Len(Page(z, skip)) = PageLimit
               /\ Beyond(N, q[k]) >= skip + Len(Page(z, skip))
<1> DEFINE A == {m \in N : m > q[k]}
           n == k - 1
           p == Page(z, skip)
<1>1. /\ Len(q) \in Nat /\ DOMAIN q = 1 .. Len(q) /\ \A l \in 1 .. Len(q) : q[l] \in N
      /\ \A x \in N : \E l \in 1 .. Len(q) : q[l] = x
  BY SeqHasAll
<1>2. n \in Nat /\ \A l \in 1 .. n : l \in 1 .. Len(q) /\ l < k
  BY <1>1
<1>3. \A l \in 1 .. Len(q) : q[l] \in Int
  BY <1>1
<1>4. \A l, m \in 1 .. Len(q) : q[l] = q[m] => l = m
  <2> SUFFICES ASSUME NEW l \in 1 .. Len(q), NEW m \in 1 .. Len(q), l # m PROVE q[l] # q[m]
    OBVIOUS
  <2>1. l < m \/ m < l
    BY <1>1
  <2>2. q[l] > q[m] \/ q[m] > q[l]
    BY <1>1, <2>1
  <2> QED BY <1>3, <2>2
<1>5. \A x : x \in A <=> \E l \in 1 .. n : q[l] = x
  <2>1. ASSUME NEW l \in 1 .. n PROVE q[l] \in A
    <3>1. l \in 1 .. Len(q) /\ l < k
      BY <1>2
    <3>2. q[l] > q[k]
      BY <1>1, <3>1
    <3> QED BY <1>1, <3>1, <3>2
  <2>2. ASSUME NEW x \in A PROVE \E l \in 1 .. n : q[l] = x
    <3>1. PICK l \in 1 .. Len(q) : q[l] = x
      BY <1>1
    <3>2. l # k /\ ~(k < l)
      <4>1. q[l] > q[k] /\ q[l] \in Int /\ q[k] \in Int
        BY <1>3, <3>1
      <4>2. k < l => q[k] > q[l]
        BY <1>1
      <4> QED BY <4>1, <4>2
    <3>3. l \in 1 .. n
      BY <1>1, <3>2
    <3> QED BY <3>1, <3>3
  <2> QED BY <2>1, <2>2
<1>6. Cardinality(A) = n
  <2>1. \A l, m \in 1 .. n : q[l] = q[m] => l = m
    BY <1>2, <1>4
  <2> HIDE DEF A, n
  <2> QED BY <1>2, <1>5, <2>1, FirstFew
<1>7. n >= skip
  BY <1>6 DEF Beyond
<1>8. /\ Len(p) = IF Len(q) <= skip THEN 0
                  ELSE IF Len(q) - skip < PageLimit THEN Len(q) - skip ELSE PageLimit
      /\ \A j \in 1 .. Len(p) : p[j] = z[skip + j]
  BY PageIs
<1>9. PageLimit \in Nat \ {0}
  BY PagingAssumption
<1> HIDE DEF p, A
<1>10. Len(p) \in Nat
  BY <1>1, <1>8, <1>9
<1>11. CASE k <= skip + PageLimit
  <2> DEFINE j == k - skip
  <2>1. j \in 1 .. Len(p) /\ skip + j = k
    BY <1>1, <1>7, <1>8, <1>9, <1>11
  <2>2. p[j] = z[k]
    BY <1>8, <2>1
  <2> QED BY <1>10, <2>1, <2>2 DEF p
<1>12. CASE ~(k <= skip + PageLimit)
  <2>1. Len(p) = PageLimit /\ n >= skip + Len(p)
    BY <1>1, <1>8, <1>9, <1>12
  <2> QED BY <1>6, <1>10, <2>1 DEF p, A, Beyond
<1> QED BY <1>11, <1>12

LEMMA NewestRows ==
  ASSUME PagesInv, NEW S, S \subseteq All
  PROVE  \E q : /\ q \in SetToSeqs({n \in DOMAIN rows : rows[n] \in S})
                /\ \A k, l \in DOMAIN q : k < l => q[k] > q[l]
                /\ Newest(S) \in Seq(S)
                /\ Len(Newest(S)) = Len(q)
                /\ \A k \in 1 .. Len(q) : Newest(S)[k] = rows[q[k]]
<1> DEFINE N == {n \in DOMAIN rows : rows[n] \in S}
           q == InOrder(N, LAMBDA m, n : m > n)
<1>1. IsFiniteSet(N) /\ N \subseteq Int /\ \A n \in N : rows[n] \in S
  <2>1. rows \in Seq(Lines)
    BY DEF PagesInv
  <2>2. DOMAIN rows = 1 .. Len(rows) /\ Len(rows) \in Nat
    BY <2>1
  <2>3. N \subseteq 1 .. Len(rows) /\ N \subseteq Int
    BY <2>2
  <2>4. IsFiniteSet(1 .. Len(rows)) /\ \A n \in N : rows[n] \in S
    BY <2>2, FS_Interval
  <2> HIDE DEF N
  <2> QED BY <2>3, <2>4, FS_Subset
<1>2. Newest(S) = [k \in DOMAIN q |-> rows[q[k]]]
  BY Zenon DEF Newest
<1> HIDE DEF N
<1>3. q \in SetToSeqs(N) /\ \A k, l \in DOMAIN q : k < l => q[k] > q[l]
  BY <1>1, NewestFirst, Zenon
<1> HIDE DEF q
<1>4. Len(q) \in Nat /\ DOMAIN q = 1 .. Len(q) /\ \A k \in 1 .. Len(q) : q[k] \in N
  BY <1>1, <1>3, SeqHasAll
<1>5. /\ Newest(S) \in Seq(S) /\ Len(Newest(S)) = Len(q)
      /\ \A k \in 1 .. Len(q) : Newest(S)[k] = rows[q[k]]
  <2> DEFINE z == [k \in 1 .. Len(q) |-> rows[q[k]]]
  <2>1. Newest(S) = z /\ \A k \in 1 .. Len(q) : rows[q[k]] \in S
    BY <1>1, <1>2, <1>4
  <2>2. z \in Seq(S) /\ Len(z) = Len(q) /\ \A k \in 1 .. Len(q) : z[k] = rows[q[k]]
    BY <1>4, <2>1
  <2> QED BY <2>1, <2>2
<1> QED BY <1>3, <1>5 DEF N

LEMMA PlacesFinite ==
  ASSUME PagesInv
  PROVE  IsFiniteSet(Places) /\ Places \subseteq 1 .. Len(rows) /\ Len(rows) \in Nat /\ DOMAIN rows = 1 .. Len(rows)
<1>1. rows \in Seq(Lines)
  BY DEF PagesInv
<1>2. DOMAIN rows = 1 .. Len(rows) /\ Len(rows) \in Nat
  BY <1>1
<1>3. Places \subseteq 1 .. Len(rows)
  BY <1>2 DEF Places
<1>4. IsFiniteSet(1 .. Len(rows))
  BY <1>2, FS_Interval
<1> QED BY <1>2, <1>3, <1>4, FS_Subset

LEMMA OffsetNext ==
  ASSUME PagesInv, PassInv, NextPage, pass.kind = "offset"
  PROVE  PassInv'
<1> DEFINE f == pass.filter
           at == pass.at
           S == Listed(f)
           z == Newest(S)
           p == OffsetPage(f, at)
           ids == IdSeq(p)
<1>1. /\ pass.open /\ UNCHANGED <<rows, log, changes>> /\ DOMAIN pass = DOMAIN NoPass
      /\ pass' = [pass EXCEPT !.got = @ \o ids, !.at = at + Len(p), !.open = (Len(p) = PageLimit)]
  BY DEF NextPage, Turn, PagesInv, PassTyped
<1>2. /\ pass'.got = pass.got \o ids /\ pass'.at = at + Len(p) /\ (pass'.open <=> Len(p) = PageLimit)
      /\ pass'.kind = "offset" /\ pass'.filter = f /\ pass'.stayed = pass.stayed /\ pass'.left = pass.left
  BY <1>1 DEF NoPass
<1>3. pass.got \in Seq(Nat)
  BY DEF PassInv
<1>4. Listing(All) /\ S \subseteq All
  BY AllIsListing DEF Listed
<1>5. Places' = Places /\ Places = {n \in DOMAIN rows : rows[n] \in S}
  BY <1>1, <1>2 DEF Places, Listed, Ranged, InCategory, Known, All
<1>6. PICK q : /\ q \in SetToSeqs(Places)
               /\ \A k, l \in DOMAIN q : k < l => q[k] > q[l]
               /\ z \in Seq(S)
               /\ Len(z) = Len(q)
               /\ \A k \in 1 .. Len(q) : z[k] = rows[q[k]]
  <2> HIDE DEF S
  <2> QED BY <1>4, <1>5, NewestRows
<1>7. IsFiniteSet(Places) /\ Places \subseteq Int
  BY PlacesFinite
<1>8. \A x \in Places : \E l \in 1 .. Len(q) : q[l] = x
  BY <1>6, <1>7, SeqHasAll
<1>9. p = Page(z, at)
  BY DEF OffsetPage
<1> HIDE DEF S, z, p
<1>10. ASSUME NEW o \in Nat
       PROVE  /\ Page(z, o) \in Seq(S) /\ IdSeq(Page(z, o)) \in Seq(Nat)
              /\ Len(IdSeq(Page(z, o))) = Len(Page(z, o))
              /\ \A j \in 1 .. Len(Page(z, o)) : IdSeq(Page(z, o))[j] = Page(z, o)[j].id
  <2> DEFINE y == Page(z, o)
  <2>1. y \in Seq(S)
    BY <1>6, PageIs
  <2> HIDE DEF y
  <2>2. IdSeq(y) = [n \in 1 .. Len(y) |-> y[n].id] /\ \A n \in 1 .. Len(y) : y[n].id \in Nat
    BY <1>4, <2>1 DEF IdSeq, Listing
  <2>3. IdSeq(y) \in Seq(Nat) /\ Len(IdSeq(y)) = Len(y)
    BY <2>1, <2>2
  <2> QED BY <2>1, <2>2, <2>3 DEF y
<1>11. at \in Nat
  BY DEF PassInv, OffsetPart
<1>12. /\ p \in Seq(S) /\ ids \in Seq(Nat) /\ Len(ids) = Len(p) /\ Len(p) \in Nat
       /\ \A j \in 1 .. Len(p) : ids[j] = p[j].id
  <2> HIDE DEF at
  <2>1. p \in Seq(S) /\ ids \in Seq(Nat) /\ Len(ids) = Len(p) /\ \A j \in 1 .. Len(p) : ids[j] = p[j].id
    BY <1>9, <1>10, <1>11, Zenon
  <2> QED BY <2>1
<1> HIDE DEF ids
<1>13. ASSUME ~pass.left, NEW i \in pass.stayed
       PROVE  \/ Has(pass.got \o ids, i)
              \/ Len(p) = PageLimit /\ \E n \in Places : rows[n].id = i /\ Beyond(Places, n) >= at + Len(p)
  <2>1. \/ Has(pass.got, i)
        \/ \E n \in Places : rows[n].id = i /\ Beyond(Places, n) >= at
    BY <1>13 DEF PassInv, OffsetPart
  <2>2. CASE Has(pass.got, i)
    BY <1>3, <1>12, <2>2, GotMore
  <2>3. CASE \E n \in Places : rows[n].id = i /\ Beyond(Places, n) >= at
    <3>1. PICK n \in Places : rows[n].id = i /\ Beyond(Places, n) >= at
      BY <2>3
    <3>2. PICK k \in 1 .. Len(q) : q[k] = n
      BY <1>8
    <3>3. \/ \E j \in 1 .. Len(p) : p[j] = z[k]
          \/ Len(p) = PageLimit /\ Beyond(Places, n) >= at + Len(p)
      <4>1. Beyond(Places, q[k]) >= at
        BY <3>1, <3>2
      <4> HIDE DEF at
      <4>2. \/ \E j \in 1 .. Len(Page(z, at)) : Page(z, at)[j] = z[k]
            \/ /\ Len(Page(z, at)) = PageLimit
               /\ Beyond(Places, q[k]) >= at + Len(Page(z, at))
        BY <1>6, <1>7, <1>11, <4>1, PageMisses
      <4> QED BY <1>9, <3>2, <4>2
    <3>4. CASE \E j \in 1 .. Len(p) : p[j] = z[k]
      <4>1. PICK j \in 1 .. Len(p) : p[j] = z[k]
        BY <3>4
      <4>2. ids[j] = i /\ j \in 1 .. Len(ids)
        BY <1>6, <1>12, <3>1, <3>2, <4>1
      <4>3. Has(ids, i)
        BY <4>2 DEF Has
      <4> QED BY <1>3, <1>12, <4>3, GotMore
    <3>5. CASE Len(p) = PageLimit /\ Beyond(Places, n) >= at + Len(p)
      BY <3>1, <3>5
    <3> QED BY <3>3, <3>4, <3>5
  <2> QED BY <2>1, <2>2, <2>3
<1>14. pass'.got \in Seq(Nat)
  BY <1>2, <1>3, <1>12, GotMore
<1>15. OffsetPart'
  <2>1. pass'.at \in Nat
    BY <1>2, <1>11, <1>12
  <2>2. ASSUME ~pass'.left, NEW i \in pass'.stayed
        PROVE  \/ Has(pass'.got, i)
               \/ pass'.open /\ \E n \in Places' : rows'[n].id = i /\ Beyond(Places', n) >= pass'.at
    <3>1. ~pass.left /\ i \in pass.stayed
      BY <1>2, <2>2
    <3>2. \/ Has(pass.got \o ids, i)
          \/ Len(p) = PageLimit /\ \E n \in Places : rows[n].id = i /\ Beyond(Places, n) >= at + Len(p)
      BY <1>13, <3>1
    <3> QED BY <1>1, <1>2, <1>5, <3>2, Zenon
  <2> QED BY <2>1, <2>2 DEF OffsetPart
<1> QED BY <1>2, <1>14, <1>15 DEF PassInv, CursorPart, CsvPart, AuditPart

LEMMA EntriesFinite ==
  ASSUME PagesInv, NEW m
  PROVE  IsFiniteSet(Entries(m)) /\ Entries(m) \subseteq Nat /\ Len(log) \in Nat /\ Entries(m) \subseteq 1 .. Len(log)
<1>1. log \in Seq(Methods)
  BY DEF PagesInv
<1>2. Len(log) \in Nat /\ IsFiniteSet(1 .. Len(log))
  BY <1>1, FS_Interval
<1>3. Entries(m) \subseteq 1 .. Len(log)
  BY DEF Entries
<1> QED BY <1>2, <1>3, FS_Subset

LEMMA AuditTurn ==
  ASSUME PagesInv, NEW m
  PROVE  \E q : /\ q \in SetToSeqs(Entries(m))
                /\ \A k, l \in DOMAIN q : k < l => q[k] > q[l]
                /\ q \in Seq(Entries(m)) /\ q \in Seq(Nat)
                /\ \A skip : AuditPage(m, skip) = Page(q, skip)
<1> DEFINE N == Entries(m)
           q == InOrder(N, LAMBDA a, b : a > b)
<1>1. IsFiniteSet(N) /\ N \subseteq Int /\ N \subseteq Nat
  BY EntriesFinite
<1>2. \A skip : AuditPage(m, skip) = Page(q, skip)
  BY Zenon DEF AuditPage
<1> HIDE DEF N
<1>3. q \in SetToSeqs(N) /\ \A k, l \in DOMAIN q : k < l => q[k] > q[l]
  BY <1>1, NewestFirst, Zenon
<1> HIDE DEF q
<1>4. q \in Seq(N) /\ Len(q) \in Nat /\ DOMAIN q = 1 .. Len(q) /\ \A k \in 1 .. Len(q) : q[k] \in N
  BY <1>1, <1>3, SeqHasAll
<1>5. q \in Seq(Nat)
  <2>1. \A k \in 1 .. Len(q) : q[k] \in Nat
    BY <1>1, <1>4
  <2> QED BY <1>4, <2>1
<1> QED BY <1>2, <1>3, <1>4, <1>5 DEF N

LEMMA AuditNext ==
  ASSUME PagesInv, PassInv, NextPage, pass.kind = "audit"
  PROVE  PassInv'
<1> DEFINE f == pass.filter
           at == pass.at
           N == Entries(f)
           p == AuditPage(f, at)
<1>1. /\ pass.open /\ UNCHANGED <<rows, log, changes>> /\ DOMAIN pass = DOMAIN NoPass
      /\ pass' = [pass EXCEPT !.got = @ \o p, !.at = at + Len(p), !.open = (Len(p) = PageLimit)]
  BY DEF NextPage, Turn, PagesInv, PassTyped
<1>2. /\ pass'.got = pass.got \o p /\ pass'.at = at + Len(p) /\ (pass'.open <=> Len(p) = PageLimit)
      /\ pass'.kind = "audit" /\ pass'.filter = f /\ pass'.stayed = pass.stayed
  BY <1>1 DEF NoPass
<1>3. pass.got \in Seq(Nat) /\ at \in Nat
  BY DEF PassInv, AuditPart
<1>4. Entries(pass.filter)' = N
  BY <1>1, <1>2 DEF Entries
<1>5. IsFiniteSet(N) /\ N \subseteq Int
  BY EntriesFinite
<1>6. PICK q : /\ q \in SetToSeqs(N)
               /\ \A k, l \in DOMAIN q : k < l => q[k] > q[l]
               /\ q \in Seq(N) /\ q \in Seq(Nat)
               /\ \A skip : AuditPage(f, skip) = Page(q, skip)
  BY AuditTurn
<1>7. \A x \in N : \E l \in 1 .. Len(q) : q[l] = x
  <2> HIDE DEF N
  <2> QED BY <1>5, <1>6, SeqHasAll
<1>8. p = Page(q, at)
  BY <1>6
<1> HIDE DEF N, p
<1>9. p \in Seq(Nat) /\ Len(p) \in Nat
  <2> HIDE DEF at
  <2>1. p \in Seq(Nat)
    BY <1>3, <1>6, <1>8, PageIs
  <2> QED BY <2>1
<1>10. ASSUME NEW i \in pass.stayed
       PROVE  \/ Has(pass.got \o p, i)
              \/ Len(p) = PageLimit /\ i \in N /\ Beyond(N, i) >= at + Len(p)
  <2>1. Has(pass.got, i) \/ (i \in N /\ Beyond(N, i) >= at)
    BY DEF PassInv, AuditPart, N
  <2>2. CASE Has(pass.got, i)
    BY <1>3, <1>9, <2>2, GotMore
  <2>3. CASE i \in N /\ Beyond(N, i) >= at
    <3>1. PICK k \in 1 .. Len(q) : q[k] = i
      BY <1>7, <2>3
    <3>2. \/ \E j \in 1 .. Len(p) : p[j] = i
          \/ Len(p) = PageLimit /\ Beyond(N, i) >= at + Len(p)
      <4>1. Beyond(N, q[k]) >= at
        BY <2>3, <3>1
      <4> HIDE DEF at
      <4>2. \/ \E j \in 1 .. Len(Page(q, at)) : Page(q, at)[j] = q[k]
            \/ /\ Len(Page(q, at)) = PageLimit
               /\ Beyond(N, q[k]) >= at + Len(Page(q, at))
        BY <1>3, <1>5, <1>6, <4>1, PageMisses
      <4> QED BY <1>8, <3>1, <4>2
    <3>3. CASE \E j \in 1 .. Len(p) : p[j] = i
      <4>1. Has(p, i)
        BY <3>3 DEF Has
      <4> QED BY <1>3, <1>9, <4>1, GotMore
    <3> QED BY <2>3, <3>2, <3>3
  <2> QED BY <2>1, <2>2, <2>3
<1>11. pass'.got \in Seq(Nat)
  BY <1>2, <1>3, <1>9, GotMore
<1>12. AuditPart'
  <2>1. pass'.at \in Nat
    BY <1>2, <1>3, <1>9
  <2>2. ASSUME NEW i \in pass'.stayed
        PROVE  \/ Has(pass'.got, i)
               \/ pass'.open /\ i \in Entries(pass.filter)' /\ Beyond(Entries(pass.filter)', i) >= pass'.at
    <3>1. \/ Has(pass.got \o p, i)
          \/ Len(p) = PageLimit /\ i \in N /\ Beyond(N, i) >= at + Len(p)
      BY <1>2, <1>10, <2>2
    <3> QED BY <1>2, <1>4, <3>1, Zenon
  <2> QED BY <2>1, <2>2 DEF AuditPart
<1> QED BY <1>2, <1>11, <1>12 DEF PassInv, CursorPart, CsvPart, OffsetPart

(* A client that starts has nothing yet, and all it asks for is ahead.      *)
LEMMA NothingYet ==
  \A i : Never(<<>>, i)
BY DEF Never
LEMMA PassStarts ==
  ASSUME PagesInv, Start
  PROVE  PassInv'
<1>1. UNCHANGED <<rows, log>> /\ changes' = 0
  BY DEF Start
<1>2. <<>> \in Seq(Nat) /\ Len(<<>>) = 0
  OBVIOUS
<1>3. Listing(All)
  BY AllIsListing
<1>4. CASE StartCursor
  <2>1. PICK f \in Filters, c \in FirstCursors :
          Ask("cursor", f, c, IdsOf(Listed(f) \cap Below(c)), Count(Listed(f)))
    BY <1>4 DEF StartCursor
  <2>2. /\ pass'.kind = "cursor" /\ pass'.filter = f /\ pass'.cursor = c /\ pass'.got = <<>> /\ pass'.open
        /\ pass'.stayed = IdsOf(Listed(f) \cap Below(c))
    BY <2>1 DEF Ask
  <2>3. Listed(pass.filter)' = Listed(f) /\ Below(pass.cursor)' = Below(c)
    BY <1>1, <2>2 DEF Listed, Ranged, InCategory, Known, All, Below, Later
  <2>4. c \in Int \X Int
    BY PagingAssumption
  <2>5. ASSUME NEW i \in pass'.stayed
        PROVE  \E r \in Listed(f) : r.id = i /\ r.date # Null /\ r \in Below(c) /\ Never(<<>>, i)
    <3>1. PICK r \in Listed(f) \cap Below(c) : r.id = i
      BY <2>2 DEF IdsOf
    <3> QED BY <3>1, NothingYet DEF Below
  <2>6. CursorPart'
    <3>1. ASSUME NEW i \in pass'.stayed
          PROVE  \E r \in Listed(pass.filter)' :
                   /\ r.id = i /\ r.date # Null
                   /\ IF pass'.open /\ r \in Below(pass.cursor)' THEN Never(pass'.got, i) ELSE Once(pass'.got, i)
      BY <2>2, <2>3, <2>5, Zenon
    <3>2. pass'.open => pass'.cursor \in Int \X Int
      BY <2>2, <2>4
    <3> QED BY <3>1, <3>2, Zenon DEF CursorPart
  <2>7. pass'.got \in Seq(Nat)
    BY <1>2, <2>2
  <2> QED BY <2>2, <2>6, <2>7 DEF PassInv, CsvPart, OffsetPart, AuditPart
<1>5. CASE StartOffset
  <2>1. PICK f \in Filters : Ask("offset", f, Null, IdsOf(Listed(f)), Count(Listed(f)))
    BY <1>5 DEF StartOffset
  <2>2. /\ pass'.kind = "offset" /\ pass'.filter = f /\ pass'.got = <<>> /\ pass'.open /\ pass'.at = 0
        /\ pass'.stayed = IdsOf(Listed(f))
    BY <2>1 DEF Ask
  <2>3. Places' = {n \in DOMAIN rows : rows[n] \in Listed(f)}
    BY <1>1, <2>2 DEF Listed, Ranged, InCategory, Known, All, Places
  <2>4. ASSUME NEW i \in pass'.stayed
        PROVE  pass'.open /\ \E n \in Places' : rows'[n].id = i /\ Beyond(Places', n) >= pass'.at
    <3>1. PICK r \in Listed(f) : r.id = i
      BY <2>2 DEF IdsOf
    <3>2. r \in All
      BY DEF Listed
    <3>3. PICK n \in DOMAIN rows : rows[n] = r
      BY <3>2, RowsOfAll DEF PagesInv
    <3>4. n \in Places'
      BY <2>3, <3>3
    <3>5. IsFiniteSet(Places')
      <4>1. DOMAIN rows = 1 .. Len(rows) /\ IsFiniteSet(1 .. Len(rows))
        BY PlacesFinite, FS_Interval
      <4>2. Places' \subseteq DOMAIN rows
        BY <2>3
      <4> HIDE DEF Places
      <4> QED BY <4>1, <4>2, FS_Subset
    <3>6. IsFiniteSet({m \in Places' : m > n})
      BY <3>5, FS_Subset
    <3>7. Beyond(Places', n) \in Nat
      BY <3>6, FS_CardinalityType DEF Beyond
    <3>8. Beyond(Places', n) >= pass'.at
      BY <2>2, <3>7
    <3> QED BY <1>1, <2>2, <3>1, <3>3, <3>4, <3>8
  <2>5. OffsetPart'
    <3>1. pass'.at \in Nat
      BY <2>2
    <3> QED BY <2>4, <3>1 DEF OffsetPart
  <2>7. pass'.got \in Seq(Nat)
    BY <1>2, <2>2
  <2> QED BY <2>2, <2>5, <2>7 DEF PassInv, CsvPart, CursorPart, AuditPart
<1>6. CASE StartExport
  <2>1. PICK f \in Filters : Ask("csv", f, Null, IdsOf(Exported(f)), Count(Exported(f)))
    BY <1>6 DEF StartExport
  <2>2. /\ pass'.kind = "csv" /\ pass'.filter = f /\ pass'.got = <<>> /\ pass'.open /\ pass'.at = 0
        /\ pass'.stayed = IdsOf(Exported(f)) /\ pass'.total = Cardinality(Exported(f))
    BY <2>1 DEF Ask, Count
  <2>3. Exported(pass.filter)' = Exported(f)
    BY <1>1, <2>2 DEF Exported, Ranged, All
  <2>4. \A r \in Exported(f) : r.id \in Nat /\ r.id > 0
    <3>1. \A r \in All : r.id \in Nat \ {0}
      BY <1>3 DEF Listing
    <3> QED BY <3>1 DEF Exported
  <2>5. ASSUME NEW i \in pass'.stayed
        PROVE  \E r \in Exported(f) : r.id = i /\ r.id > pass'.at /\ Never(pass'.got, i)
    <3>1. PICK r \in Exported(f) : r.id = i
      BY <2>2 DEF IdsOf
    <3> QED BY <2>2, <2>4, <3>1, NothingYet
  <2>6. Behind' = {}
    BY <2>2, <2>3, <2>4 DEF Behind
  <2>7. CsvPart'
    <3>1. ASSUME NEW i \in pass'.stayed
          PROVE  \E r \in Exported(pass.filter)' :
                   r.id = i /\ IF pass'.open /\ r.id > pass'.at THEN Never(pass'.got, i) ELSE Once(pass'.got, i)
      BY <2>2, <2>3, <2>5, Zenon
    <3>2. Len(pass'.got) = Cardinality(Behind') /\ pass'.total = Cardinality(Exported(pass.filter)')
      BY <1>2, <2>2, <2>3, <2>6, FS_EmptySet
    <3>3. pass'.at \in Nat
      BY <2>2
    <3> QED BY <2>2, <3>1, <3>2, <3>3 DEF CsvPart
  <2>8. pass'.got \in Seq(Nat)
    BY <1>2, <2>2
  <2> QED BY <2>2, <2>7, <2>8 DEF PassInv, OffsetPart, CursorPart, AuditPart
<1>7. CASE StartAudit
  <2>1. PICK m : Ask("audit", m, Null, Entries(m), Len(log))
    BY <1>7 DEF StartAudit
  <2>2. /\ pass'.kind = "audit" /\ pass'.filter = m /\ pass'.got = <<>> /\ pass'.open /\ pass'.at = 0
        /\ pass'.stayed = Entries(m)
    BY <2>1 DEF Ask
  <2>3. Entries(pass.filter)' = Entries(m)
    BY <1>1, <2>2 DEF Entries
  <2>4. ASSUME NEW i \in pass'.stayed
        PROVE  i \in Entries(m) /\ Beyond(Entries(m), i) >= pass'.at
    <3>1. IsFiniteSet(Entries(m))
      BY EntriesFinite
    <3>2. IsFiniteSet({n \in Entries(m) : n > i})
      BY <3>1, FS_Subset
    <3>3. Beyond(Entries(m), i) \in Nat
      BY <3>2, FS_CardinalityType DEF Beyond
    <3> QED BY <2>2, <3>3
  <2>5. AuditPart'
    <3>1. pass'.at \in Nat
      BY <2>2
    <3> QED BY <2>2, <2>3, <2>4, <3>1 DEF AuditPart
  <2>6. pass'.got \in Seq(Nat)
    BY <1>2, <2>2
  <2> QED BY <2>2, <2>5, <2>6 DEF PassInv, OffsetPart, CursorPart, CsvPart
<1> QED BY <1>4, <1>5, <1>6, <1>7 DEF Start

(* A row that is still there, unchanged, stays where it was.                *)
LEMMA RowsStay ==
  ASSUME PagesInv, pass.open, AddRow \/ EditRow \/ DeleteRow
  PROVE  /\ changes' = changes + 1 /\ pass.kind # "audit" /\ UNCHANGED log
         /\ DOMAIN pass' = DOMAIN NoPass
         /\ pass'.kind = pass.kind /\ pass'.filter = pass.filter /\ pass'.at = pass.at
         /\ pass'.cursor = pass.cursor /\ pass'.got = pass.got /\ pass'.open
         /\ pass'.stayed \subseteq pass.stayed
         /\ \A r \in All : r.id \in pass'.stayed => r \in All'
         /\ ~pass'.left => /\ ~pass.left
                           /\ \A n \in DOMAIN rows : n \in DOMAIN rows' /\ rows'[n] = rows[n]
<1>1. /\ Commit /\ changes' = changes + 1 /\ pass.kind # "audit" /\ UNCHANGED log
      /\ rows \in Seq(Lines) /\ OneEach(rows) /\ DOMAIN rows = 1 .. Len(rows) /\ DOMAIN pass = DOMAIN NoPass
      /\ \A r \in All : \E n \in 1 .. Len(rows) : r = rows[n]
  BY RowsOfAll DEF PagesInv, PassTyped, AddRow, EditRow, DeleteRow, Commit
<1>2. ASSUME NEW n \in 1 .. Len(rows), Touched(rows[n].id),
             \A m \in 1 .. Len(rows) : m # n => \E k \in DOMAIN rows' : rows'[k] = rows[m]
      PROVE  /\ DOMAIN pass' = DOMAIN NoPass
             /\ pass'.kind = pass.kind /\ pass'.filter = pass.filter /\ pass'.at = pass.at
             /\ pass'.cursor = pass.cursor /\ pass'.got = pass.got /\ pass'.open
             /\ pass'.stayed \subseteq pass.stayed
             /\ \A r \in All : r.id \in pass'.stayed => r \in All'
             /\ pass'.left
  <2>1. pass' = [pass EXCEPT !.stayed = pass.stayed \ {rows[n].id}, !.left = pass.left \/ pass.open]
    BY <1>2 DEF Touched
  <2>2. /\ DOMAIN pass' = DOMAIN NoPass /\ pass'.stayed = pass.stayed \ {rows[n].id}
        /\ pass'.kind = pass.kind /\ pass'.filter = pass.filter /\ pass'.at = pass.at
        /\ pass'.cursor = pass.cursor /\ pass'.got = pass.got /\ pass'.open = pass.open
        /\ (pass'.left <=> (pass.left \/ pass.open))
    BY <1>1, <2>1 DEF NoPass
  <2>3. ASSUME NEW r \in All, r.id \in pass'.stayed PROVE r \in All'
    <3>1. PICK m \in 1 .. Len(rows) : r = rows[m]
      BY <1>1
    <3>2. m # n
      BY <2>2, <2>3, <3>1
    <3>3. PICK k \in DOMAIN rows' : rows'[k] = r
      BY <1>2, <3>1, <3>2
    <3> QED BY <3>3 DEF All, ToSet
  <2>4. pass'.left /\ pass'.open
    BY <2>2, Zenon
  <2> QED BY <2>2, <2>3, <2>4
<1>3. CASE AddRow
  <2>1. PICK i \in Ids, s \in Says : rows' = Append(rows, Row(i, s)) /\ pass' = pass
    BY <1>3 DEF AddRow
  <2>2. \A n \in DOMAIN rows : n \in DOMAIN rows' /\ rows'[n] = rows[n]
    BY <1>1, <2>1
  <2>3. ASSUME NEW r \in All PROVE r \in All'
    BY <2>2 DEF All, ToSet
  <2> QED BY <1>1, <2>1, <2>2, <2>3
<1>4. CASE EditRow
  <2>1. PICK n \in 1 .. Len(rows), s \in Says :
          rows' = [rows EXCEPT ![n] = Row(@.id, s)] /\ Touched(rows[n].id)
    BY <1>1, <1>4 DEF EditRow
  <2>2. \A m \in 1 .. Len(rows) : m # n => m \in DOMAIN rows' /\ rows'[m] = rows[m]
    BY <1>1, <2>1
  <2> QED BY <1>1, <1>2, <2>1, <2>2
<1>5. CASE DeleteRow
  <2>1. PICK n \in 1 .. Len(rows) : rows' = RemoveAt(rows, n) /\ Touched(rows[n].id)
    BY <1>1, <1>5 DEF DeleteRow
  <2>2. \A m \in 1 .. Len(rows) : m # n => \E k \in DOMAIN rows' : rows'[k] = rows[m]
    BY <1>1, <2>1, RowDeleted
  <2> QED BY <1>1, <1>2, <2>1, <2>2
<1> QED BY <1>3, <1>4, <1>5

LEMMA PassOverChange ==
  ASSUME PagesInv, PassInv, pass.open, AddRow \/ EditRow \/ DeleteRow
  PROVE  PassInv'
<1> DEFINE f == pass.filter
<1>1. /\ changes' = changes + 1 /\ pass.kind # "audit"
      /\ pass'.kind = pass.kind /\ pass'.filter = f /\ pass'.at = pass.at
      /\ pass'.cursor = pass.cursor /\ pass'.got = pass.got /\ pass'.open
      /\ pass'.stayed \subseteq pass.stayed
      /\ \A r \in All : r.id \in pass'.stayed => r \in All'
      /\ ~pass'.left => /\ ~pass.left
                        /\ \A n \in DOMAIN rows : n \in DOMAIN rows' /\ rows'[n] = rows[n]
  BY RowsStay
<1>2. ASSUME NEW r \in All, r \in All'
      PROVE  /\ r \in Listed(f) => r \in Listed(pass.filter)'
             /\ r \in Exported(f) => r \in Exported(pass.filter)'
             /\ r \in Below(pass.cursor) <=> r \in Below(pass.cursor)'
  <2>1. r \in Listed(f) => r \in Listed(pass.filter)'
    BY <1>1, <1>2, Zenon DEF Listed, Ranged, InCategory, Known
  <2>2. r \in Exported(f) => r \in Exported(pass.filter)'
    BY <1>1, <1>2, Zenon DEF Exported, Ranged
  <2>3. r \in Below(pass.cursor) <=> r \in Below(pass.cursor)'
    BY <1>1, <1>2, Zenon DEF Below, Later
  <2> QED BY <2>1, <2>2, <2>3
<1>3. CursorPart'
  <2> SUFFICES ASSUME pass'.kind = "cursor" PROVE CursorPart'
    BY DEF CursorPart
  <2>0. CursorPart /\ pass.kind = "cursor"
    BY <1>1 DEF PassInv
  <2>1. pass'.cursor \in Int \X Int
    BY <1>1, <2>0 DEF CursorPart
  <2>2. ASSUME NEW i \in pass'.stayed
        PROVE  \E r \in Listed(pass.filter)' :
                 /\ r.id = i /\ r.date # Null
                 /\ IF pass'.open /\ r \in Below(pass.cursor)' THEN Never(pass'.got, i) ELSE Once(pass'.got, i)
    <3>1. PICK r \in Listed(f) :
            /\ r.id = i /\ r.date # Null
            /\ IF pass.open /\ r \in Below(pass.cursor) THEN Never(pass.got, i) ELSE Once(pass.got, i)
      BY <1>1, <2>0 DEF CursorPart
    <3>2. r \in All
      BY DEF Listed
    <3>3. r \in All'
      BY <1>1, <3>1, <3>2
    <3>4. r \in Listed(pass.filter)' /\ (r \in Below(pass.cursor) <=> r \in Below(pass.cursor)')
      BY <1>2, <3>2, <3>3
    <3>5. pass'.open /\ r \in Below(pass.cursor)' <=> pass.open /\ r \in Below(pass.cursor)
      BY <1>1, <3>4, Zenon
    <3>6. IF pass'.open /\ r \in Below(pass.cursor)' THEN Never(pass'.got, i) ELSE Once(pass'.got, i)
      BY <1>1, <3>1, <3>5, Zenon
    <3> QED BY <3>1, <3>4, <3>6
  <2> QED BY <2>1, <2>2, Zenon DEF CursorPart
<1>4. CsvPart'
  <2> SUFFICES ASSUME pass'.kind = "csv" PROVE CsvPart'
    BY DEF CsvPart
  <2>0. CsvPart /\ pass.kind = "csv"
    BY <1>1 DEF PassInv
  <2>1. pass'.at \in Nat /\ changes' # 0
    BY <1>1, <2>0 DEF CsvPart, PagesInv
  <2>2. ASSUME NEW i \in pass'.stayed
        PROVE  \E r \in Exported(pass.filter)' :
                 r.id = i /\ IF pass'.open /\ r.id > pass'.at THEN Never(pass'.got, i) ELSE Once(pass'.got, i)
    <3>1. PICK r \in Exported(f) :
            r.id = i /\ IF pass.open /\ r.id > pass.at THEN Never(pass.got, i) ELSE Once(pass.got, i)
      BY <1>1, <2>0 DEF CsvPart
    <3>2. r \in All
      BY DEF Exported
    <3>3. r \in All'
      BY <1>1, <3>1, <3>2
    <3>4. r \in Exported(pass.filter)'
      BY <1>2, <3>2, <3>3
    <3>5. IF pass'.open /\ r.id > pass'.at THEN Never(pass'.got, i) ELSE Once(pass'.got, i)
      BY <1>1, <3>1, Zenon
    <3> QED BY <3>1, <3>4, <3>5
  <2> QED BY <2>1, <2>2 DEF CsvPart
<1>5. OffsetPart'
  <2> SUFFICES ASSUME pass'.kind = "offset" PROVE OffsetPart'
    BY DEF OffsetPart
  <2>0. OffsetPart /\ pass.kind = "offset"
    BY <1>1 DEF PassInv
  <2>1. pass'.at \in Nat /\ pass.at \in Nat
    BY <1>1, <2>0 DEF OffsetPart
  <2>2. ASSUME ~pass'.left, NEW i \in pass'.stayed
        PROVE  \/ Has(pass'.got, i)
               \/ pass'.open /\ \E n \in Places' : rows'[n].id = i /\ Beyond(Places', n) >= pass'.at
    <3>1. \/ Has(pass.got, i)
          \/ \E n \in Places : rows[n].id = i /\ Beyond(Places, n) >= pass.at
      BY <1>1, <2>0, <2>2 DEF OffsetPart
    <3>2. \A n \in DOMAIN rows : n \in DOMAIN rows' /\ rows'[n] = rows[n]
      BY <1>1, <2>2
    <3>3. \A r \in All : r \in All'
      BY <3>2 DEF All, ToSet
    <3>4. \A n \in Places : n \in Places'
      <4> SUFFICES ASSUME NEW n \in Places PROVE n \in Places'
        OBVIOUS
      <4>1. n \in DOMAIN rows /\ rows[n] \in Listed(f) /\ rows[n] \in All
        BY DEF Places, Listed
      <4>2. rows[n] \in Listed(pass.filter)'
        BY <1>2, <3>3, <4>1
      <4>3. n \in DOMAIN rows' /\ rows'[n] \in Listed(pass.filter)'
        BY <3>2, <4>1, <4>2
      <4> QED BY <4>3 DEF Places
    <3>5. IsFiniteSet(Places')
      <4>1. PagesInv'
        BY RowsChange
      <4>2. DOMAIN rows' = 1 .. Len(rows') /\ Len(rows') \in Nat
        BY <4>1 DEF PagesInv
      <4>3. IsFiniteSet(1 .. Len(rows'))
        BY <4>2, FS_Interval
      <4>4. Places' \subseteq 1 .. Len(rows')
        BY <4>2 DEF Places
      <4> HIDE DEF Places
      <4> QED BY <4>3, <4>4, FS_Subset
    <3>6. CASE \E n \in Places : rows[n].id = i /\ Beyond(Places, n) >= pass.at
      <4>1. PICK n \in Places : rows[n].id = i /\ Beyond(Places, n) >= pass.at
        BY <3>6
      <4> DEFINE A == {m \in Places : m > n}
                 B == {m \in Places' : m > n}
      <4>2. A \subseteq B /\ IsFiniteSet(B)
        BY <3>4, <3>5, FS_Subset
      <4>3. Beyond(Places, n) = Cardinality(A) /\ Beyond(Places', n) = Cardinality(B)
        BY DEF Beyond
      <4> HIDE DEF A, B
      <4>4. Cardinality(A) <= Cardinality(B) /\ Cardinality(A) \in Nat /\ Cardinality(B) \in Nat
        BY <4>2, FS_Subset, FS_CardinalityType
      <4>5. Beyond(Places', n) >= pass'.at
        BY <1>1, <2>1, <4>1, <4>3, <4>4
      <4>6. n \in Places' /\ rows'[n].id = i
        BY <3>2, <3>4, <4>1 DEF Places
      <4> QED BY <1>1, <4>5, <4>6
    <3>7. CASE Has(pass.got, i)
      BY <1>1, <3>7
    <3> QED BY <3>1, <3>6, <3>7
  <2> QED BY <2>1, <2>2 DEF OffsetPart
<1>6. pass'.got \in Seq(Nat)
  BY <1>1 DEF PassInv
<1> QED BY <1>1, <1>3, <1>4, <1>5, <1>6 DEF PassInv, AuditPart

LEMMA PassOverAudit ==
  ASSUME PagesInv, PassInv, Audit
  PROVE  PassInv'
<1> DEFINE N == Entries(pass.filter)
           M == Entries(pass.filter)'
<1>1. UNCHANGED <<rows, pass, changes>> /\ pass.kind = "audit" /\ \E m \in Methods : log' = Append(log, m)
  BY DEF Audit, Methods
<1>2. AuditPart /\ pass.got \in Seq(Nat) /\ pass.at \in Nat
  BY <1>1 DEF PassInv, AuditPart
<1>3. log \in Seq(Methods) /\ Len(log) \in Nat
  BY DEF PagesInv
<1>4. Len(log') = Len(log) + 1 /\ \A n \in 1 .. Len(log) : log'[n] = log[n]
  BY <1>1, <1>3
<1>5. N \subseteq M /\ M \subseteq 1 .. Len(log')
  <2>1. N = {n \in 1 .. Len(log) : pass.filter # Null => log[n] = pass.filter}
    BY DEF Entries
  <2>2. M = {n \in 1 .. Len(log') : pass.filter # Null => log'[n] = pass.filter}
    BY <1>1 DEF Entries
  <2> QED BY <1>3, <1>4, <2>1, <2>2
<1>6. IsFiniteSet(M)
  <2>1. IsFiniteSet(1 .. Len(log'))
    BY <1>3, <1>4, FS_Interval
  <2> HIDE DEF M
  <2> QED BY <1>5, <2>1, FS_Subset
<1> HIDE DEF N, M
<1>7. ASSUME NEW i \in pass'.stayed
      PROVE  Has(pass'.got, i) \/ (pass'.open /\ i \in M /\ Beyond(M, i) >= pass'.at)
  <2>1. Has(pass.got, i) \/ (pass.open /\ i \in N /\ Beyond(N, i) >= pass.at)
    BY <1>1, <1>2 DEF AuditPart, N
  <2>2. CASE pass.open /\ i \in N /\ Beyond(N, i) >= pass.at
    <3> DEFINE A == {m \in N : m > i}
               B == {m \in M : m > i}
    <3>1. A \subseteq B /\ IsFiniteSet(B)
      BY <1>5, <1>6, FS_Subset
    <3>2. Beyond(N, i) = Cardinality(A) /\ Beyond(M, i) = Cardinality(B)
      BY DEF Beyond
    <3> HIDE DEF A, B
    <3>3. Cardinality(A) <= Cardinality(B) /\ Cardinality(A) \in Nat /\ Cardinality(B) \in Nat
      BY <3>1, FS_Subset, FS_CardinalityType
    <3> QED BY <1>1, <1>2, <1>5, <2>2, <3>2, <3>3
  <2> QED BY <1>1, <2>1, <2>2
<1>8. AuditPart'
  BY <1>1, <1>2, <1>7 DEF AuditPart, M
<1> QED BY <1>1, <1>2, <1>8 DEF PassInv, CursorPart, CsvPart, OffsetPart

LEMMA PassKeeps == PagesInv /\ PassInv /\ [PgNext]_pgVars => PassInv'
<1> SUFFICES ASSUME PagesInv, PassInv, [PgNext]_pgVars PROVE PassInv'
  OBVIOUS
<1>1. CASE UNCHANGED pgVars
  <2>1. /\ UNCHANGED <<rows, log, pass, changes>>
        /\ Listed(pass.filter)' = Listed(pass.filter) /\ Below(pass.cursor)' = Below(pass.cursor)
    BY <1>1 DEF pgVars, Listed, Ranged, InCategory, Known, All, Below, Later
  <2>2. Exported(pass.filter)' = Exported(pass.filter) /\ Entries(pass.filter)' = Entries(pass.filter)
    BY <2>1 DEF Exported, Ranged, All, Entries
  <2>3. Places' = Places /\ Behind' = Behind /\ Ahead' = Ahead
    BY <2>1, <2>2 DEF Places, Behind, Ahead
  <2>4. CursorPart' /\ CsvPart'
    BY <2>1, <2>2, <2>3 DEF PassInv, CursorPart, CsvPart
  <2>5. OffsetPart' /\ AuditPart'
    BY <2>1, <2>2, <2>3 DEF PassInv, OffsetPart, AuditPart
  <2> QED BY <2>1, <2>4, <2>5 DEF PassInv
<1>2. CASE Fill
  <2>1. pass' = NoPass
    BY <1>2 DEF Fill
  <2> QED BY <2>1 DEF PassInv, CursorPart, CsvPart, OffsetPart, AuditPart, NoPass
<1>3. CASE NextPage
  <2>1. pass.kind \in {"cursor", "offset", "csv", "audit"}
    BY <1>3 DEF NextPage
  <2> QED BY <1>3, <2>1, CursorNext, OffsetNext, CsvNext, AuditNext
<1> QED BY <1>1, <1>2, <1>3, PassStarts, PassOverChange, PassOverAudit DEF PgNext

LEMMA PassInit == PgInit => PassInv
BY DEF PgInit, NoPass, PassInv, CursorPart, CsvPart, OffsetPart, AuditPart

LEMMA PassGives == PagesInv /\ PassInv => PassesExact
<1> SUFFICES ASSUME PagesInv, PassInv, pass.kind # "none", ~pass.open
             PROVE  /\ pass.kind \in {"cursor", "csv"} =>
                         \A i \in pass.stayed : Count({n \in DOMAIN pass.got : pass.got[n] = i}) = 1
                    /\ ~pass.left => pass.stayed \subseteq ToSet(pass.got)
                    /\ (pass.kind = "csv" /\ changes = 0) => Len(pass.got) = pass.total
  BY DEF PassesExact
<1>1. pass.got \in Seq(Nat)
  BY DEF PassInv
<1>2. ASSUME pass.kind \in {"cursor", "csv"}, NEW i \in pass.stayed PROVE Once(pass.got, i)
  BY <1>2 DEF PassInv, CursorPart, CsvPart
<1>3. ASSUME pass.kind \in {"cursor", "csv"}, NEW i \in pass.stayed
      PROVE  Count({n \in DOMAIN pass.got : pass.got[n] = i}) = 1 /\ Has(pass.got, i)
  BY <1>1, <1>2, <1>3, OnceIsOne
<1>4. \A i : Has(pass.got, i) => i \in ToSet(pass.got)
  BY <1>1 DEF Has, ToSet
<1>5. ASSUME ~pass.left, NEW i \in pass.stayed, pass.kind \in {"cursor", "csv", "offset", "audit"}
      PROVE  i \in ToSet(pass.got)
  <2>1. CASE pass.kind \in {"cursor", "csv"}
    BY <1>3, <1>4, <1>5, <2>1
  <2>2. CASE pass.kind \in {"offset", "audit"}
    BY <1>4, <1>5, <2>2 DEF PassInv, OffsetPart, AuditPart
  <2> QED BY <1>5, <2>1, <2>2
<1>6. ASSUME pass.kind = "csv", changes = 0 PROVE Len(pass.got) = pass.total
  <2>1. /\ pass.total = Cardinality(Exported(pass.filter)) /\ Len(pass.got) = Cardinality(Behind)
        /\ Ahead = {}
    BY <1>6 DEF PassInv, CsvPart
  <2>2. \A r \in Exported(pass.filter) : r.id \in Nat
    <3>1. \A r \in All : r.id \in Nat
      BY AllIsListing DEF Listing
    <3> QED BY <3>1 DEF Exported
  <2>3. pass.at \in Nat
    BY <1>6 DEF PassInv, CsvPart
  <2>4. Behind = Exported(pass.filter)
    <3>1. ASSUME NEW r \in Exported(pass.filter) PROVE r.id <= pass.at
      <4>1. ~(r.id > pass.at)
        BY <2>1 DEF Ahead
      <4>2. r.id \in Nat
        BY <2>2
      <4> QED BY <2>3, <4>1, <4>2
    <3> QED BY <3>1 DEF Behind
  <2> QED BY <2>1, <2>4
<1>7. pass.kind \in {"cursor", "csv", "offset", "audit"}
  BY DEF PagesInv, PassTyped
<1> QED BY <1>3, <1>5, <1>6, <1>7

(* A client that pages to the end by key gets every row that stayed exactly *)
(* once, one that pages by offset misses none as long as rows only arrive,  *)
(* and an undisturbed download has as many rows as announced: for any ids,  *)
(* page sizes, filters, cursors and commits between the pages.              *)
THEOREM PassesAreExact == PgSpec => []PassesExact
<1>1. PgInit => PagesInv /\ PassInv
  BY PgInitKeeps, PassInit
<1>2. PagesInv /\ PassInv /\ [PgNext]_pgVars => PagesInv' /\ PassInv'
  BY PgStepKeeps, PassKeeps
<1> QED BY <1>1, <1>2, PassGives, PTL DEF PgSpec

-----------------------------------------------------------------------------
(* The answers of one moment.                                               *)
LEMMA SplitIs ==
  ASSUME NEW f, NEW g, g = [k \in DOMAIN AliasesOf |-> Count(Listed([f EXCEPT !.category = k]))]
  PROVE  MapThenSumSet(LAMBDA k : Count(Listed([f EXCEPT !.category = k])), DOMAIN AliasesOf)
           = Total(g, DOMAIN AliasesOf)
<1> DEFINE S == DOMAIN AliasesOf
           F(k) == Count(Listed([f EXCEPT !.category = k]))
<1>1. IsFiniteSet(S)
  BY PagingAssumption
<1>0. \A k \in S : g[k] = F(k)
  OBVIOUS
<1> HIDE DEF S
<1> DEFINE Eq(it) == it = [s \in SUBSET S |-> IF s = {} THEN 0 ELSE F(OneOf(s)) + it[s \ {OneOf(s)}]]
           h == CHOOSE it : Eq(it)
<1>2. \A s \in SUBSET S : s # {} => g[OneOf(s)] = F(OneOf(s))
  <2> HIDE DEF F
  <2> SUFFICES ASSUME NEW s \in SUBSET S, s # {} PROVE g[OneOf(s)] = F(OneOf(s))
    OBVIOUS
  <2>1. OneOf(s) \in S
    BY <1>1, Rest
  <2> QED BY <1>0, <2>1
<1> HIDE DEF F
<1>3. \A it : Eq(it) <=> Summed(it, g, SUBSET S)
  BY <1>2, Zenon DEF Summed
<1>4. (CHOOSE it : Eq(it)) = (CHOOSE it : Summed(it, g, SUBSET S))
  BY <1>3, Zenon
<1>5. MapThenSumSet(LAMBDA k : Count(Listed([f EXCEPT !.category = k])), DOMAIN AliasesOf) = h[S]
  BY DEF MapThenSumSet, MapThenFoldSet, OneOf, S, F
<1>6. Total(g, S) = (CHOOSE it : Summed(it, g, SUBSET S))[S]
  BY DEF Total, MapThenSumSet, MapThenFoldSet, OneOf, Summed
<1> QED BY <1>4, <1>5, <1>6, Zenon DEF S

LEMMA CategoriesSplit ==
  ASSUME PagesInv, NEW f \in Filters, f.category = Null
  PROVE  Count(Listed(f)) =
           MapThenSumSet(LAMBDA k : Count(Listed([f EXCEPT !.category = k])), DOMAIN AliasesOf)
<1> DEFINE S == Listed(f)
           K == DOMAIN AliasesOf
           Named(r) == \E k \in K : k # "other" /\ r.category \in AliasesOf[k]
           key == [r \in S |-> IF Named(r) THEN CHOOSE k \in K : k # "other" /\ r.category \in AliasesOf[k]
                                           ELSE "other"]
           g == [k \in K |-> Count(Listed([f EXCEPT !.category = k]))]
<1>1. /\ IsFiniteSet(K) /\ "other" \in K /\ Null \notin K
      /\ \A j, k \in K : j # k => AliasesOf[j] \cap AliasesOf[k] = {}
      /\ DOMAIN f = {"label", "from", "to", "category"}
  BY PagingAssumption
<1>2. IsFiniteSet(S)
  <2>1. S \subseteq All /\ IsFiniteSet(All)
    BY AllIsListing DEF Listed, Listing
  <2> HIDE DEF S
  <2> QED BY <2>1, FS_Subset
<1>3. \A r \in S : /\ Named(r) => key[r] \in K /\ key[r] # "other" /\ r.category \in AliasesOf[key[r]]
                   /\ ~Named(r) => key[r] = "other"
  OBVIOUS
<1>4. ASSUME NEW k \in K PROVE Listed([f EXCEPT !.category = k]) = {r \in S : key[r] = k}
  <2> DEFINE e == [f EXCEPT !.category = k]
  <2>1. e.label = f.label /\ e.from = f.from /\ e.to = f.to /\ e.category = k /\ k # Null
    BY <1>1
  <2> HIDE DEF e
  <2>2. \A r : r \in Listed(e) <=> r \in S /\ InCategory(r, k)
    BY <2>1, Zenon DEF Listed, Ranged
  <2>3. ASSUME NEW r \in S PROVE InCategory(r, k) <=> key[r] = k
    <3> HIDE DEF key, S
    <3>1. CASE k = "other"
      <4>1. InCategory(r, k) <=> r.category \in AliasesOf["other"] \/ ~\E j \in K : r.category \in AliasesOf[j]
        BY <3>1 DEF InCategory, Known
      <4>2. InCategory(r, k) <=> ~Named(r)
        BY <1>1, <4>1
      <4> QED BY <1>3, <3>1, <4>2
    <3>2. CASE k # "other"
      <4>1. InCategory(r, k) <=> r.category \in AliasesOf[k]
        BY <3>2 DEF InCategory
      <4>2. r.category \in AliasesOf[k] => Named(r)
        BY <3>2
      <4> HIDE DEF Named
      <4> QED BY <1>1, <1>3, <3>2, <4>1, <4>2
    <3> QED BY <3>1, <3>2
  <2> QED BY <2>2, <2>3 DEF e
<1>5. \A r \in S : key[r] \in K
  BY <1>1, <1>3
<1> HIDE DEF key
<1>6. \A k \in K : g[k] = Cardinality(OfKey(S, key, k))
  BY <1>4 DEF Count, OfKey
<1> HIDE DEF S
<1>7. MapThenSumSet(LAMBDA k : Count(Listed([f EXCEPT !.category = k])), DOMAIN AliasesOf) = Total(g, K)
  BY SplitIs, Zenon
<1> HIDE DEF g, K
<1>8. Total(g, K) = Cardinality(S)
  BY <1>1, <1>2, <1>5, <1>6, CountGroups
<1> QED BY <1>7, <1>8, Zenon DEF Count, S

LEMMA NewestAll ==
  ASSUME PagesInv, NEW S, S \subseteq All
  PROVE  Len(Newest(S)) = Cardinality(S) /\ Newest(S) \in Seq(S)
<1> DEFINE N == {n \in DOMAIN rows : rows[n] \in S}
           h == [n \in N |-> rows[n]]
<1>1. PICK q : /\ q \in SetToSeqs(N)
               /\ \A k, l \in DOMAIN q : k < l => q[k] > q[l]
               /\ Newest(S) \in Seq(S)
               /\ Len(Newest(S)) = Len(q)
               /\ \A k \in 1 .. Len(q) : Newest(S)[k] = rows[q[k]]
  BY NewestRows
<1>2. rows \in Seq(Lines) /\ OneEach(rows)
  BY DEF PagesInv
<1>3. DOMAIN rows = 1 .. Len(rows) /\ IsFiniteSet(1 .. Len(rows))
  BY <1>2, FS_Interval
<1>4. \A r \in S : \E n \in 1 .. Len(rows) : r = rows[n]
  BY <1>2, RowsOfAll
<1>5. h \in Bijection(N, S)
  <2>1. h \in [N -> S] /\ \A n \in N : h[n] = rows[n]
    OBVIOUS
  <2>2. \A r \in S : \E n \in N : h[n] = r
    BY <1>3, <1>4
  <2>3. \A m, n \in N : h[m] = h[n] => m = n
    BY <1>2, <1>3, <2>1 DEF OneEach
  <2> HIDE DEF h, N
  <2> QED BY <2>1, <2>2, <2>3 DEF Bijection, Injection, Surjection, IsInjective
<1>6. N \subseteq 1 .. Len(rows)
  BY <1>3
<1> HIDE DEF N, h
<1>7. IsFiniteSet(N)
  BY <1>3, <1>6, FS_Subset
<1>8. Cardinality(N) = Cardinality(S)
  <2>1. ExistsBijection(N, S)
    BY <1>5 DEF ExistsBijection
  <2> QED BY <1>7, <2>1, FS_Bijection
<1>9. Len(q) = Cardinality(N)
  BY <1>1, <1>7, SeqHasAll
<1> QED BY <1>1, <1>8, <1>9

LEMMA SearchAgrees ==
  ASSUME PagesInv, NEW q, NEW lo
  PROVE  LET s == Search(q, lo)
         IN /\ s.count >= Len(s.items)
            /\ Len(s.items) < PageLimit => s.count = Len(s.items)
            /\ MapThenSumSet(LAMBDA m : s.months[m], DOMAIN s.months)
                 = Count({r \in Found(q, lo) : r.date # Null})
            /\ MapThenSumSet(LAMBDA m : s.tops[m], DOMAIN s.tops) <= s.count
<1> DEFINE s == Search(q, lo)
           S == Aggregated(q, lo)
           D == {r \in S : r.date # Null}
           T == {r \in S : Mail[r.id].merchant # Null}
<1>1. Found(q, lo) = S
  BY DEF Found, Aggregated
<1>2. /\ s.items = FirstOf(Newest(S), PageLimit) /\ s.count = Cardinality(S)
      /\ s.months = [m \in Months(S) |-> Count(InMonth(S, m))]
      /\ s.tops = [m \in Merchants(S) |-> Count(AtMerchant(S, m))]
  BY <1>1, Zenon DEF Search, Count
<1>3. S \subseteq All /\ IsFiniteSet(S) /\ IsFiniteSet(D) /\ IsFiniteSet(T)
  <2>1. S \subseteq All /\ IsFiniteSet(All)
    BY AllIsListing DEF Aggregated, Listing
  <2> HIDE DEF S
  <2> QED BY <2>1, FS_Subset
<1> HIDE DEF s, S
<1>4. s.count >= Len(s.items) /\ (Len(s.items) < PageLimit => s.count = Len(s.items))
  <2>1. Newest(S) \in Seq(S) /\ Len(Newest(S)) = Cardinality(S) /\ Cardinality(S) \in Nat
    BY <1>3, NewestAll, FS_CardinalityType
  <2>2. PageLimit \in Nat
    BY PagingAssumption
  <2>3. Len(s.items) = IF Len(Newest(S)) < PageLimit THEN Len(Newest(S)) ELSE PageLimit
    BY <1>2, <2>1, <2>2, FirstIs
  <2> QED BY <1>2, <2>1, <2>2, <2>3
<1>5. Total(s.months, Months(S)) = Cardinality(D)
  <2> DEFINE key == [r \in D |-> Month(r)]
             K == Months(S)
             g == s.months
  <2>1. K = {Month(r) : r \in D}
    BY DEF Months
  <2>3. (\A r \in D : key[r] \in K) /\ \A m \in K : \E r \in D : key[r] = m
    BY <2>1
  <2>2. IsFiniteSet(K)
    <3> HIDE DEF key, K, D
    <3> QED BY <1>3, <2>3, FiniteImage
  <2>4. \A m \in K : g[m] = Cardinality(OfKey(D, key, m))
    <3> SUFFICES ASSUME NEW m \in K PROVE g[m] = Cardinality(OfKey(D, key, m))
      OBVIOUS
    <3>1. InMonth(S, m) = OfKey(D, key, m)
      BY DEF InMonth, OfKey
    <3> QED BY <1>2, <3>1 DEF Count
  <2> HIDE DEF key, K, g, D
  <2>5. Total(g, K) = Cardinality(D)
    BY <1>3, <2>2, <2>3, <2>4, CountGroups
  <2> QED BY <2>5 DEF g, K
<1>6. Total(s.tops, Merchants(S)) = Cardinality(T)
  <2> DEFINE key == [r \in T |-> Mail[r.id].merchant]
             K == Merchants(S)
             g == s.tops
  <2>1. K = {Mail[r.id].merchant : r \in T}
    BY DEF Merchants
  <2>3. (\A r \in T : key[r] \in K) /\ \A m \in K : \E r \in T : key[r] = m
    BY <2>1
  <2>2. IsFiniteSet(K)
    <3> HIDE DEF key, K, T
    <3> QED BY <1>3, <2>3, FiniteImage
  <2>4. \A m \in K : g[m] = Cardinality(OfKey(T, key, m))
    <3> SUFFICES ASSUME NEW m \in K PROVE g[m] = Cardinality(OfKey(T, key, m))
      OBVIOUS
    <3>1. AtMerchant(S, m) = OfKey(T, key, m)
      BY DEF AtMerchant, Merchants, OfKey
    <3> QED BY <1>2, <3>1 DEF Count
  <2> HIDE DEF key, K, g, T
  <2>5. Total(g, K) = Cardinality(T)
    BY <1>3, <2>2, <2>3, <2>4, CountGroups
  <2> QED BY <2>5 DEF g, K
<1>7. Cardinality(T) <= Cardinality(S)
  <2>1. T \subseteq S
    OBVIOUS
  <2> HIDE DEF T
  <2> QED BY <1>3, <2>1, FS_Subset
<1>8. /\ MapThenSumSet(LAMBDA m : s.months[m], DOMAIN s.months) = Total(s.months, Months(S))
      /\ MapThenSumSet(LAMBDA m : s.tops[m], DOMAIN s.tops) = Total(s.tops, Merchants(S))
  <2>1. DOMAIN s.months = Months(S) /\ DOMAIN s.tops = Merchants(S)
    BY <1>2
  <2> QED BY <2>1, Zenon DEF Total
<1>9. Count({r \in Found(q, lo) : r.date # Null}) = Cardinality(D)
  BY <1>1 DEF Count
<1>10. /\ MapThenSumSet(LAMBDA m : s.months[m], DOMAIN s.months)
            = Count({r \in Found(q, lo) : r.date # Null})
       /\ MapThenSumSet(LAMBDA m : s.tops[m], DOMAIN s.tops) = Cardinality(T)
  BY <1>5, <1>6, <1>8, <1>9, Zenon
<1>11. MapThenSumSet(LAMBDA m : s.tops[m], DOMAIN s.tops) <= s.count
  BY <1>2, <1>7, <1>10, Zenon
<1> QED BY <1>4, <1>10, <1>11, Zenon DEF s

LEMMA DomainCountIs ==
  ASSUME PagesInv, NEW r \in InReview, DomainOf(r) # Null
  PROVE  DomainCount(r) = Count({s \in InReview \ {r} : DomainOf(s) = DomainOf(r)})
<1> DEFINE d == DomainOf(r)
           A == {s \in InReview : DomainOf(s) = d}
           B == {s \in InReview \ {r} : DomainOf(s) = d}
<1>1. IsFiniteSet(InReview)
  <2>1. InReview \subseteq All /\ IsFiniteSet(All)
    BY AllIsListing DEF InReview, Listing
  <2> QED BY <2>1, FS_Subset
<1>2. A \subseteq InReview /\ r \in A /\ B = A \ {r}
  OBVIOUS
<1>3. DomainCounts = [e \in {DomainOf(s) : s \in InReview} \ {Null} |->
                        Cardinality({s \in InReview : DomainOf(s) = e})]
  BY Zenon DEF DomainCounts, Count
<1>4. d \in DOMAIN DomainCounts /\ DomainCounts[d] = Cardinality(A)
  BY <1>3
<1> HIDE DEF A, B, d
<1>5. IsFiniteSet(A)
  BY <1>1, <1>2, FS_Subset
<1>6. Cardinality(B) = Cardinality(A) - 1
  BY <1>2, <1>5, FS_RemoveElement
<1>7. DomainCount(r) = DomainCounts[d] - 1
  BY <1>4 DEF DomainCount, d
<1> QED BY <1>4, <1>6, <1>7 DEF B, Count, d

LEMMA AnswersGiven == PagesInv => SameAnswers /\ AnswersAgree
<1>1. PagesInv => SameAnswers
  BY CategoriesSplit, SearchAgrees, DomainCountIs, Zenon DEF SameAnswers
<1> QED BY <1>1 DEF AnswersAgree

(* The answers of one moment agree, whatever the rows are: categories split *)
(* the list, a search counts what it lists, its months and merchants add up,*)
(* the review queue counts the other rows of a domain; before a client      *)
(* pages, as the run looks at it, and while it does.                        *)
THEOREM AnswersAlwaysAgree == PgSpec => [](SameAnswers /\ AnswersAgree)
BY PgInitKeeps, PgStepKeeps, AnswersGiven, PTL DEF PgSpec

-----------------------------------------------------------------------------
(* The parts together: a step is a step of one part.                        *)
ReadingInv == PagesInv /\ PassInv /\ MrInv /\ RuInv /\ FlInv /\ PlansInv

LEMMA ReadingStepInv == ReadingInv /\ [ReadingNext]_readingVars => ReadingInv'
<1> SUFFICES ASSUME ReadingInv, [ReadingNext]_readingVars
             PROVE  /\ [PgNext]_pgVars /\ [MrNext]_mrVars /\ [RuNext]_ruVars
                    /\ [FlNext]_flVars /\ [PlNext]_plVars
  BY PgStepKeeps, PassKeeps, MrStepInv, RuStepInv, FlStepInv, PlansStepInv DEF ReadingInv
<1>1. CASE UNCHANGED readingVars
  BY <1>1 DEF readingVars
<1>2. CASE ReadingNext
  BY <1>2 DEF ReadingNext
<1> QED BY <1>1, <1>2

LEMMA ReadingInitInv == ReadingInit => ReadingInv
BY PgInitKeeps, PassInit, MrInitInv, RuInitInv, FlInitInv, PlansInitInv DEF ReadingInit, ReadingInv

(* Types of all five, among them one row for each id in a listing that      *)
(* changes while it is paged through, and every list's rows as their        *)
(* handlers accept them.                                                    *)
THEOREM ReadingTypeCorrect == ReadingSpec => []ReadingTypeOK
<1>1. ReadingInv => ReadingTypeOK
  BY PagesGive, MrInvGives, RuInvGives, FlInvGives, PlansInvGives DEF ReadingInv, ReadingTypeOK
<1> QED BY <1>1, ReadingInitInv, ReadingStepInv, PTL DEF ReadingSpec

(* What users have taught holds in all that reads it: aliases resolve, the  *)
(* rules agree, the lists follow reviews; what is promised of the lists that*)
(* users keep holds; and so does what is promised of pages and answers.     *)
THEOREM ReadingHolds ==
  ReadingSpec => []TeachingsHold /\ []PlansHold /\ []PassesExact /\ []AnswersAgree
<1>1. ReadingInv => TeachingsHold /\ PlansHold /\ PassesExact /\ AnswersAgree
  BY MrInvGives, RuInvGives, FlInvGives, PlansInvGives, PassGives, AnswersGiven DEF ReadingInv, TeachingsHold
<1> QED BY <1>1, ReadingInitInv, ReadingStepInv, PTL DEF ReadingSpec
=============================================================================
