------------------------------ MODULE Filters ------------------------------
(***************************************************************************)
(* The filter in front of the import, for one user and one sender domain   *)
(* (classifier/pre_filter.py, api/filter.py, api/emails.py): a keep counts *)
(* the domain up on the allowlist, a discard on the blocklist, an undo     *)
(* counts it down again; a row can also be written by hand.  A request     *)
(* reads the row and writes its count back in another step.                *)
(***************************************************************************)
EXTENDS Integers, FiniteSets, FiniteSetsExt

CONSTANTS
  Inbox,          \* mails of the domain
  Reviewers,      \* requests, each used again
  Words,          \* what else the filter looks at: [amount, verb, network, keyword]
  MaxReviews      \* bound on requests

ASSUME FiltersAssumption == IsFiniteSet(Inbox) /\ MaxReviews \in Nat

VARIABLES
  state,     \* of each mail: "absent", or its pre_filter_status
  stored,    \* mails with a transaction
  row,       \* hit_count of the row of each list, or Missing
  review,    \* of each request: what it does and what it has read
  reviews,   \* requests that have started (bound)
  calm       \* nothing but reviews of waiting mails and their undo, one by one (history)

flVars == <<state, stored, row, review, reviews, calm>>

Missing == -1
Rows == {"allow", "block"}
NoReview == [op |-> "none"]
FlInit ==
  /\ state = [e \in Inbox |-> "absent"] /\ stored = {}
  /\ row = [x \in Rows |-> Missing]
  /\ review = [r \in Reviewers |-> NoReview] /\ reviews = 0 /\ calm = TRUE

-----------------------------------------------------------------------------
(* PreFilterEngine: the lists first, then a score of the words; in between  *)
(* the LLM is asked, and without an answer the user.                        *)
OnList(l) == row[l] # Missing
Score(w) == (IF w.amount THEN 40 ELSE 0) + (IF w.verb THEN 30 ELSE 0)
            + (IF w.network THEN 20 ELSE 0) + (IF w.keyword THEN 10 ELSE 0)
Evaluate(w) ==
  IF OnList("allow") THEN {"pass"}
  ELSE IF OnList("block") THEN {"discard"}
  ELSE IF Score(w) >= 60 THEN {"pass"} ELSE IF Score(w) <= 25 THEN {"review"}
  ELSE {"pass", "review"}

(* A sync stores a mail as the filter has it; a passed one gets a           *)
(* transaction in the same commit.                                          *)
StatusOf(decision) ==
  CASE decision = "discard" -> "discarded" [] decision = "pass" -> "passed"
    [] OTHER -> "review_pending"
Arrive(e) == \E w \in Words : \E d \in Evaluate(w) :
  /\ state[e] = "absent"
  /\ state' = [state EXCEPT ![e] = StatusOf(d)]
  /\ stored' = IF d = "pass" THEN stored \cup {e} ELSE stored
  /\ calm' = (calm /\ d = "review")
  /\ UNCHANGED <<row, review, reviews>>

-----------------------------------------------------------------------------
(* A request reads the mails' states and its row.                           *)
ListOf(op) == IF op = "keep" THEN "allow" ELSE "block"
Busy == \E r \in Reviewers : review[r] # NoReview
Opens(r, a, quiet) ==
  /\ review[r] = NoReview /\ reviews < MaxReviews
  /\ review' = [review EXCEPT ![r] = a] /\ reviews' = reviews + 1
  /\ calm' = (calm /\ quiet /\ ~Busy)
  /\ UNCHANGED <<state, stored, row>>
Reading(op, es, l) ==
  [op |-> op, mails |-> es, seen |-> state, list |-> l, read |-> row[l], gone |-> FALSE]
Present(es) == \A e \in es : state[e] # "absent"

(* Review of one mail or, in one commit, of several.                        *)
Review(r) == \E es \in (SUBSET Inbox) \ {{}}, op \in {"keep", "discard"} :
  /\ Present(es)
  /\ Opens(r, Reading(op, es, ListOf(op)), \A e \in es : state[e] = "review_pending")
(* Undo of a mail that waits does nothing.                                  *)
StartUndo(r) == \E e \in Inbox :
  /\ Present({e}) /\ state[e] # "review_pending"
  /\ Opens(r, Reading("undo", {e}, IF state[e] = "passed" THEN "allow" ELSE "block"), TRUE)
(* POST /filter/rules: 409 if there is a row.                               *)
CreateFilter(r) == \E l \in Rows : ~OnList(l) /\ Opens(r, Reading("create", {}, l), FALSE)
(* Rules the LLM suggests: the answer comes as a tuple, the search for JSON  *)
(* in it raises, and the request ends before it stores any.                 *)
RefineFilter(r) == \E l \in Rows : Opens(r, Reading("refine", {}, l), FALSE)
DeleteFilter(r) == \E l \in Rows : OnList(l) /\ Opens(r, Reading("delete", {}, l), FALSE)

(* The commit.  A count is written if it differs from what was read, and    *)
(* fails if its row has gone; a second row of one list fails, and so does a *)
(* second transaction of one mail.                                          *)
Freed(r, x) == [v \in Reviewers |->
  IF v = r THEN NoReview
  ELSE IF review[v] # NoReview /\ review[v].list = x THEN [review[v] EXCEPT !.gone = TRUE] ELSE review[v]]
Done(r) == review' = [review EXCEPT ![r] = NoReview]
Put(r, x, hits) == row' = [row EXCEPT ![x] = hits] /\ Done(r)
Take(r, x) == row' = [row EXCEPT ![x] = Missing] /\ review' = Freed(r, x)
Marks(r, status) == state' = [e \in Inbox |->
  IF e \in review[r].mails /\ review[r].seen[e] # status THEN status ELSE state[e]]

CountUp(r) == LET a == review[r] IN
  IF a.read = Missing THEN row[a.list] = Missing /\ Put(r, a.list, Cardinality(a.mails))
  ELSE ~a.gone /\ Put(r, a.list, a.read + Cardinality(a.mails))
CommitReview(r) == LET a == review[r] IN
  /\ \/ a.op = "keep" /\ a.mails \cap stored = {} /\ stored' = stored \cup a.mails /\ Marks(r, "passed")
     \/ a.op = "discard" /\ UNCHANGED stored /\ Marks(r, "discarded")
  /\ CountUp(r)
Leaves(hits) == hits <= 1
CountDown(r) == LET a == review[r] IN
  \/ a.read = Missing /\ Done(r) /\ UNCHANGED row
  \/ a.read # Missing /\ Leaves(a.read)
     /\ IF a.gone THEN Done(r) /\ UNCHANGED row ELSE Take(r, a.list)
  \/ a.read # Missing /\ ~Leaves(a.read) /\ ~a.gone /\ Put(r, a.list, a.read - 1)
CommitUndo(r) ==
  /\ review[r].op = "undo" /\ Marks(r, "review_pending")
  /\ stored' = IF review[r].list = "allow" THEN stored \ review[r].mails ELSE stored
  /\ CountDown(r)
CommitFilter(r) == LET a == review[r] IN
  /\ \/ a.op = "create" /\ row[a.list] = Missing /\ Put(r, a.list, 0)
     \/ a.op = "delete" /\ IF a.gone THEN Done(r) /\ UNCHANGED row ELSE Take(r, a.list)
  /\ UNCHANGED <<state, stored>>
(* Any of them may fail: then nothing of it is stored.                      *)
Abort(r) == Done(r) /\ UNCHANGED <<state, stored, row>>
Finish(r) ==
  /\ review[r] # NoReview
  /\ CommitReview(r) \/ CommitUndo(r) \/ CommitFilter(r) \/ Abort(r)
  /\ UNCHANGED <<reviews, calm>>

FlNext ==
  \/ \E e \in Inbox : Arrive(e)
  \/ \E r \in Reviewers : Review(r) \/ StartUndo(r) \/ CreateFilter(r) \/ RefineFilter(r)
                          \/ DeleteFilter(r) \/ Finish(r)
FlSpec == FlInit /\ [][FlNext]_flVars

-----------------------------------------------------------------------------
FlTypeOK ==
  /\ state \in [Inbox -> {"absent", "review_pending", "passed", "discarded"}]
  /\ stored \subseteq Inbox
  /\ \A x \in Rows : row[x] >= Missing
  /\ \A r \in Reviewers : review[r] # NoReview => review[r].list \in Rows
  /\ reviews \in 0..MaxReviews /\ calm \in BOOLEAN

(* As long as waiting mails are reviewed and reviews undone, one after the  *)
(* other, the lists are what the reviews say: a list has the domain while a *)
(* mail is kept (discarded), counts them, and loses it with the last; and   *)
(* exactly the kept mails have transactions.                                *)
InState(status) == {e \in Inbox : state[e] = status}
Counted(n) == IF n = 0 THEN Missing ELSE n
FiltersFollow == calm =>
  /\ row["allow"] = Counted(Cardinality(InState("passed")))
  /\ row["block"] = Counted(Cardinality(InState("discarded")))
  /\ stored = InState("passed")
=============================================================================
