------------------------------ MODULE Backfill ------------------------------
(***************************************************************************)
(* The loops that fetch message bodies again, for emails that have none or *)
(* whose text was badly extracted: the owner's two endpoints               *)
(* (app/api/sync.py), the last part of a fetch-range (app/sync/range.py)   *)
(* and clean-bodies (app/sync/fetch.py).  A loop takes batches of emails,  *)
(* asks Gmail for one message after the other and commits per batch, while *)
(* a sync may add emails.                                                  *)
(***************************************************************************)
EXTENDS Integers, Sequences, FiniteSets, SequencesExt

CONSTANTS
  Emails,       \* ids, in the order of ORDER BY
  Batch         \* batch_size, 50 in all of them

ASSUME BackfillAssumption == Emails \subseteq Nat /\ IsFiniteSet(Emails) /\ Batch \in Nat \ {0}

VARIABLES
  body,     \* the stored body: "absent" when there is no such email
  loop      \* the loop that runs: its kind, place, and local variables

bfVars == <<body, loop>>

LoopKinds == {"loaded", "paged", "range", "clean"}
Bodies    == {"absent", "missing", "dirty", "clean"}

BfTypeOK ==
  /\ body \in [Emails -> Bodies]
  /\ loop \in [kind : LoopKinds, pc : {"query", "each", "done", "failed"},
               wanted : SUBSET Emails,      \* emails without a body when it began
               rest : Seq(Emails),          \* "loaded": what comes after the batch
               batch : Seq(Emails),         \* what is left of the batch
               offset : Nat,
               fresh : SUBSET Emails,       \* bodies set, not yet committed
               tried : SUBSET Emails,       \* history: messages asked for
               got   : SUBSET Emails,       \* history: bodies received
               stuck : BOOLEAN]             \* history: a batch without an update

Missing == {e \in Emails : body[e] = "missing"}
Stored  == {e \in Emails : body[e] # "absent"}
Dirty   == {e \in Emails : body[e] = "dirty"}

(* The rows of a query in any order, and in that of ORDER BY.               *)
Rowed(S) == {s \in [1..Cardinality(S) -> S] : ToSet(s) = S}
ById(S) == {s \in Rowed(S) : \A i, j \in 1..Len(s) : i < j => s[i] < s[j]}
Slice(s, from) == SubSeq(s, from + 1, IF from + Batch < Len(s) THEN from + Batch ELSE Len(s))

NewLoop(kind) ==
  [kind |-> kind, pc |-> "query", wanted |-> Missing, rest |-> <<>>, batch |-> <<>>,
   offset |-> 0, fresh |-> {}, tried |-> {}, got |-> {}, stuck |-> FALSE]

(* A loop has been asked for.  The background one, and the one for chosen   *)
(* emails, read the list of all of them first.                              *)
BfInit ==
  /\ body \in [Emails -> Bodies]
  /\ \/ loop \in {NewLoop(kind) : kind \in {"paged", "range", "clean"}}
     \/ \E s \in ById(Missing) : loop = [NewLoop("loaded") EXCEPT !.rest = s]
     \/ \E S \in SUBSET Stored : \E s \in Rowed(S) :
          loop = [NewLoop("loaded") EXCEPT !.rest = s, !.wanted = S]

-----------------------------------------------------------------------------
(* The next batch.  Two of the loops page with OFFSET and without ORDER BY: *)
(* the database may give the rows in any order.                             *)
Takes(batch) ==
  loop' = [loop EXCEPT !.batch = batch, !.pc = IF batch = <<>> THEN "done" ELSE "each"]

QueryLoaded ==
  /\ loop.kind = "loaded"
  /\ loop' = [loop EXCEPT !.batch = Slice(loop.rest, 0),
                          !.rest = SubSeq(@, Batch + 1, Len(@)),
                          !.pc = IF loop.rest = <<>> THEN "done" ELSE "each"]

NextPage(s) == Slice(s, loop.offset + Cardinality(loop.tried))   \* mutant of FirstPage
FirstPage(s) == Slice(s, 0)
QueryPaged ==
  /\ loop.kind = "paged"
  /\ \E s \in ById(Missing) : Takes(FirstPage(s))

QueryRange ==
  /\ loop.kind = "range"
  /\ \E s \in Rowed(Missing) : Takes(Slice(s, loop.offset))

(* Its first pass has found that there is something to clean.               *)
QueryClean ==
  /\ loop.kind = "clean"
  /\ \E s \in Rowed(Stored) :
       Takes(IF loop.offset = 0 /\ Dirty = {} THEN <<>> ELSE Slice(s, loop.offset))

Query ==
  /\ loop.pc = "query"
  /\ QueryLoaded \/ QueryPaged \/ QueryRange \/ QueryClean
  /\ UNCHANGED body

(* One message: a body, no text in it, or an error that is only logged; the *)
(* cleaning passes over what is not dirty.                                  *)
FetchBody ==
  /\ loop.pc = "each" /\ loop.batch # <<>>
  /\ LET e     == Head(loop.batch)
         next  == [loop EXCEPT !.batch = Tail(@)]
         asked == [next EXCEPT !.tried = @ \cup {e}]
     IN IF loop.kind = "clean" /\ body[e] # "dirty"
        THEN loop' = next
        ELSE \/ loop' = [asked EXCEPT !.fresh = @ \cup {e}, !.got = @ \cup {e}]
             \/ loop' = asked
  /\ UNCHANGED body

(* The commit.  The paged loop stops after a batch that updated nothing,    *)
(* for it would get the same one again.                                     *)
Keeps(updated) == TRUE                               \* mutant of GoesOn
GoesOn(updated) == loop.kind = "paged" => updated

Commit ==
  /\ loop.pc = "each" /\ loop.batch = <<>>
  /\ body' = [e \in Emails |-> IF e \in loop.fresh THEN "clean" ELSE body[e]]
  /\ loop' = [loop EXCEPT !.pc = IF GoesOn(loop.fresh # {}) THEN "query" ELSE "done",
                          !.offset = IF loop.kind \in {"range", "clean"} THEN @ + Batch ELSE @,
                          !.stuck = loop.fresh = {},
                          !.fresh = {}]

(* A query, the commit or the connection fails; what is uncommitted goes.   *)
Fail ==
  /\ loop.pc \in {"query", "each"}
  /\ loop' = [loop EXCEPT !.pc = "failed", !.fresh = {}]
  /\ UNCHANGED body

(* A sync stores another email, with or without a text.                     *)
Arrive(e) ==
  /\ body[e] = "absent"
  /\ \E b \in {"missing", "dirty", "clean"} : body' = [body EXCEPT ![e] = b]
  /\ UNCHANGED loop

LoopStep == Query \/ FetchBody \/ Commit \/ Fail
BfNext == LoopStep \/ \E e \in Emails : Arrive(e)

BfFair == WF_bfVars(LoopStep)
BfSpec == BfInit /\ [][BfNext]_bfVars /\ BfFair

-----------------------------------------------------------------------------
(* A loop that ends well has asked for every email it was to fill and kept  *)
(* every body it got: the loaded list is worked off to the end, the paged   *)
(* loop, whose selection shrinks as it goes, stops early only after a batch *)
(* without an update.                                                       *)
BackfillComplete ==
  (loop.pc = "done" /\ loop.kind \in {"loaded", "paged"})
    => /\ loop.wanted \subseteq loop.tried \/ (loop.kind = "paged" /\ loop.stuck)
       /\ \A e \in loop.got : body[e] = "clean"

(* Every loop comes to an end, whatever Gmail answers and a sync adds.      *)
BackfillEnds == <>(loop.pc \in {"done", "failed"})

(* "Backfill missing bodies for emails in this date range" (range.py:130).  *)
RangeComplete ==
  (loop.pc = "done" /\ loop.kind = "range") => loop.wanted \subseteq loop.tried
=============================================================================
