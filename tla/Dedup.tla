------------------------------- MODULE Dedup -------------------------------
(***************************************************************************)
(* Duplicate detection for one user (dedup/service.py, api/duplicates.py,  *)
(* sync/__init__.py): transactions are numbered in the order their e-mails *)
(* arrived, two sender domains share one learned rule, and the dates a     *)
(* transaction has all agree.  A scan and a bulk detection are database    *)
(* transactions: what they add is seen, or refused, when they commit.      *)
(***************************************************************************)
EXTENDS Integers, SequencesExt

CONSTANTS
  Txs,          \* transactions, numbered by arrival
  Inboxes,      \* what the e-mails of the transactions may say
  Orders,       \* orders a query may return them in
  Callers,      \* scans, bulk detections and resolutions under way
  MaxVerdicts   \* bound: verdicts given and reopened

\* A query over the transactions returns each of them; amounts and days are
\* whole numbers of their smallest unit.
ASSUME DedupAssumption ==
  /\ Txs \subseteq Nat /\ MaxVerdicts \in Nat
  /\ \A order \in Orders :
       order \in Seq(Txs) /\ \A t \in Txs : \E i \in DOMAIN order : order[i] = t
  /\ \A inbox \in Inboxes, t \in Txs : inbox[t].amount \in Nat /\ inbox[t].day \in Int

VARIABLES
  mail,         \* what they say
  tx,           \* "absent", "expense", "ignore" or "deleted"
  pairs,        \* the duplicate_pairs rows: their couple is unique
  rule,         \* the DomainPairRule of the two domains
  work,         \* calls between their reads and their commit
  said,         \* confirmations the rule could learn from, and verdicts given
                \* or taken back (history)
  settled,      \* couples the user has dismissed, and not reopened (history)
  scan          \* whether a scan ran, or has run, with nothing else happening (history)

ddVars == <<mail, tx, pairs, rule, work, said, settled, scan>>

NoRule == [known |-> FALSE, yes |-> 0, no |-> 0, share |-> <<0, 1>>, auto |-> FALSE]
NoWork == [kind |-> "none"]

DdInit ==
  /\ mail \in Inboxes
  /\ tx = [t \in Txs |-> "absent"]
  /\ pairs = {}
  /\ rule \in {NoRule, [known |-> TRUE, yes |-> 2, no |-> 0, share |-> <<2, 2>>, auto |-> FALSE]}
  /\ work = [c \in Callers |-> NoWork]
  /\ said = [yes |-> rule.yes, more |-> 0]
  /\ settled = {} /\ scan = "none"

(***************************************************************************)
(* Scores.                                                                 *)
(***************************************************************************)
Larger(a, b) == IF a > b THEN a ELSE b
Gap(a, b) == IF a > b THEN a - b ELSE b - a
Days(a, b) == Gap(mail[a].day, mail[b].day)
SameDomain(a, b) == mail[a].domain = mail[b].domain
\* _amount_tolerance: half a percent, in bulk three, and at least 5.
Near(a, b) == 1000 * Gap(mail[a].amount, mail[b].amount) <= Larger(5 * mail[a].amount, 5000)
NearInBulk(a, b) == 100 * Gap(mail[a].amount, mail[b].amount) <= Larger(3 * mail[a].amount, 500)
OrderAndConfirm(a, b) == {mail[a].subject, mail[b].subject} = {"order", "confirmation"}
Trusted == 2 * rule.share[1] >= rule.share[2]

\* _compute_score: the first layer that fits.  The layers after these need a
\* match of merchants or domains that an earlier one has already returned on.
Layers(a, b) == <<
  [source |-> "same_domain_exact", fits |-> SameDomain(a, b)],
  [source |-> "merchant_alias", fits |-> mail[a].merchant = mail[b].merchant],
  [source |-> "domain_pair", fits |-> rule.known /\ Trusted],
  [source |-> "investment_flow", fits |-> OrderAndConfirm(a, b)],
  [source |-> "amount_date", fits |-> Days(a, b) <= 1],
  [source |-> "reference_id_match", fits |-> mail[a].ref = mail[b].ref]>>
Score(a, b) ==
  LET fitting == {i \in DOMAIN Layers(a, b) : Layers(a, b)[i].fits} IN
  IF NearInBulk(a, b) /\ Days(a, b) <= 3 /\ fitting # {}
  THEN Layers(a, b)[Min(fitting)].source ELSE "unknown"

(***************************************************************************)
(* detect_and_record_duplicates: four passes over the other expenses, none *)
(* of which pairs what is paired already.  A view is what the transaction  *)
(* sees: the committed rows with its own.                                  *)
(***************************************************************************)
Couple(row) == {row.p, row.d}
Paired(view, t) == {u \in Txs : \E row \in view.rows : Couple(row) = {t, u}}
Expenses(view, t) == {u \in Txs \ {t} : view.tx[u] = "expense"}
Resolved(a, b) == [p |-> IF a < b THEN a ELSE b, d |-> Larger(a, b), status |-> "auto_resolved"]
Queued(a, b) == [p |-> a, d |-> b, status |-> "pending"]
Note(view, rows) ==
  [rows |-> view.rows \cup rows,
   tx |-> [t \in Txs |-> IF \E row \in rows : row.status = "auto_resolved" /\ row.d = t
                         THEN "ignore" ELSE view.tx[t]]]

ShortPass(view, t) ==
  Note(view, {Resolved(t, u) : u \in {v \in Expenses(view, t) \ Paired(view, t) :
                                        SameDomain(t, v) /\ Near(t, v) /\ Days(t, v) < 3}})
SameDomainPass(view, t) ==
  Note(view, {Resolved(t, u) : u \in {v \in Expenses(view, t) \ Paired(view, t) :
                                        SameDomain(t, v) /\ Near(t, v) /\ Days(t, v) <= 3}})
CrossDomainPass(view, t) ==
  LET found == {u \in Expenses(view, t) \ Paired(view, t) :
                  /\ ~SameDomain(t, u) /\ Near(t, u) /\ Days(t, u) <= 1
                  /\ Score(t, u) # "unknown"} IN
  Note(view, {IF rule.auto \/ Score(t, u) = "reference_id_match" THEN Resolved(t, u)
              ELSE Queued(t, u) : u \in found})
InvestmentPass(view, t) ==
  LET found == {u \in Expenses(view, t) \ Paired(view, t) :
                  ~SameDomain(t, u) /\ Near(t, u) /\ Days(t, u) <= 3 /\ OrderAndConfirm(t, u)} IN
  Note(view, {IF mail[t].subject = "order" THEN Queued(t, u) ELSE Queued(u, t) : u \in found})
LateSources == {"merchant_alias", "amount_date", "reference_id_match"}
SharedPass(view, t) ==
  LET found == {u \in Expenses(view, t) \ Paired(view, t) :
                  NearInBulk(t, u) /\ Days(t, u) <= 3 /\ Score(t, u) \in LateSources} IN
  Note(view, {IF Score(t, u) = "reference_id_match" THEN Resolved(t, u) ELSE Queued(t, u) : u \in found})
Detect(view, t) ==
  SharedPass(InvestmentPass(CrossDomainPass(SameDomainPass(view, t), t), t), t)

\* batch_detect_duplicates queues every couple of a new transaction and an
\* expense of about its time and amount.
Window(t, u) == 95 * mail[t].amount <= 100 * mail[u].amount /\ 100 * mail[u].amount <= 105 * mail[t].amount
BatchRows(ts) ==
  LET view == [rows |-> pairs, tx |-> tx]
      Found(t, u) ==
        /\ u \in Expenses(view, t) \ Paired(view, t)
        /\ u \in ts => t < u
        /\ \E v \in ts : Window(v, u)
        /\ Score(t, u) # "unknown" IN
  {Queued(c[1], c[2]) : c \in {c \in ts \X Txs : Found(c[1], c[2])}}

\* The couple of a row is unique, and its transactions exist.
Insertable(rows) ==
  /\ \A row \in rows : Couple(row) \subseteq {t \in Txs : tx[t] \in {"expense", "ignore"}}
  /\ \A row \in rows, old \in pairs : <<row.p, row.d>> # <<old.p, old.d>>

Idle(c) == work[c] = NoWork
Finish(c) == work' = [work EXCEPT ![c] = NoWork]
Disturb == scan' = "none"

\* A sync stores a transaction and detects its duplicates in the same commit;
\* keeping or reprocessing an e-mail stores one without.
Import(t) ==
  /\ tx[t] = "absent"
  /\ \A u \in Txs : u < t => tx[u] # "absent"
  /\ pairs' \in {pairs, pairs \cup BatchRows({t})}
  /\ tx' = [tx EXCEPT ![t] = "expense"]
  /\ Disturb /\ UNCHANGED <<mail, rule, work, said, settled>>

\* detect_duplicates over all transactions (_bulk); it may come between the
\* reads and the commit of the others.
BulkDetect ==
  /\ pairs' = pairs \cup BatchRows({t \in Txs : tx[t] \in {"expense", "ignore"}})
  /\ Disturb /\ UNCHANGED <<mail, tx, rule, work, said, settled>>

\* scan_all_for_duplicates: the expenses one after the other, in the order the
\* query returns them; an error in one leaves nothing to commit.  What is an
\* expense the query has decided, before the first of them is looked at.
DetectExpense(view, t) == IF tx[t] = "expense" THEN Detect(view, t) ELSE view
Scanned(order) == FoldLeft(DetectExpense, [rows |-> pairs, tx |-> tx], order)
BeginScan(c) ==
  /\ Idle(c)
  /\ \E order \in Orders :
       LET view == Scanned(order) IN
       work' = [work EXCEPT ![c] = [kind |-> "scan", rows |-> view.rows \ pairs,
                                    dropped |-> {t \in Txs : view.tx[t] # tx[t]}]]
  /\ scan' = IF \A o \in Callers \ {c} : Idle(o) THEN "alone" ELSE "none"
  /\ UNCHANGED <<mail, tx, pairs, rule, said, settled>>
ScanCommit(c) ==
  /\ work[c].kind = "scan"
  /\ \/ /\ Insertable(work[c].rows)
        /\ pairs' = pairs \cup work[c].rows
        /\ tx' = [t \in Txs |-> IF t \in work[c].dropped THEN "ignore" ELSE tx[t]]
        /\ scan' = IF scan = "alone" THEN "done" ELSE "none"
     \/ /\ ~Insertable(work[c].rows)
        /\ scan' = "none" /\ UNCHANGED <<tx, pairs>>
  /\ Finish(c) /\ UNCHANGED <<mail, rule, said, settled>>

\* resolve_pair reads the pending pair, and the rule it will learn by.
Resolve(c) ==
  /\ Idle(c)
  /\ \E row \in pairs, verdict \in {"confirmed", "dismissed"} :
       /\ row.status = "pending"
       /\ \E keep \in Couple(row) :
            work' = [work EXCEPT ![c] = [kind |-> "resolve", p |-> row.p, d |-> row.d, now |-> row.p,
                                         keep |-> keep, verdict |-> verdict, rule |-> rule]]
  /\ Disturb /\ UNCHANGED <<mail, tx, pairs, rule, said, settled>>

Discarded(w) == IF w.keep = w.p THEN w.d ELSE w.p
Learns(w) == ~SameDomain(w.p, w.d)
MinConfirmed == 3
EarnedByShare(yes, all) == 100 * yes > 85 * all
Earned(yes, all) == 100 * yes > 85 * all /\ yes >= MinConfirmed
Taught(old, verdict) ==
  LET yes == old.yes + (IF verdict = "confirmed" THEN 1 ELSE 0)
      no == old.no + (IF verdict = "dismissed" THEN 1 ELSE 0) IN
  [known |-> TRUE, yes |-> yes, no |-> no, share |-> <<yes, yes + no>>, auto |-> Earned(yes, yes + no)]
SameShare(a, b) == a[1] * b[2] = b[1] * a[2]
\* Only the columns that differ from the row that was read are written.
Written(w) ==
  LET new == Taught(w.rule, w.verdict) IN
  [known |-> TRUE,
   yes |-> IF new.yes # w.rule.yes THEN new.yes ELSE rule.yes,
   no |-> IF new.no # w.rule.no THEN new.no ELSE rule.no,
   share |-> IF SameShare(new.share, w.rule.share) THEN rule.share ELSE new.share,
   auto |-> IF new.auto # w.rule.auto THEN new.auto ELSE rule.auto]

\* The row takes the kept transaction for its first, unless another row has that
\* couple; of a confirmed pair the other transaction goes, with every row on it.
\* The row itself may have another first by now ("now"), or be gone.
RowOf(w) == {row \in pairs : row.p = w.now /\ row.d = w.d}
First(w) == IF w.keep # w.p THEN w.keep ELSE w.now
Commits(w) ==
  /\ RowOf(w) # {}
  /\ \A row \in pairs \ RowOf(w) : <<row.p, row.d>> # <<First(w), w.d>>
  /\ Learns(w) => (rule.known => w.rule.known)
Moved(c) ==
  LET w == work[c] IN
  work' = [o \in Callers |->
             IF o = c THEN NoWork
             ELSE IF work[o].kind = "resolve" /\ work[o].now = w.now /\ work[o].d = w.d
             THEN [work[o] EXCEPT !.now = First(w)] ELSE work[o]]
ResolveCommit(c) ==
  LET w == work[c] IN
  /\ w.kind = "resolve"
  /\ \/ /\ ~Commits(w)
        /\ Finish(c) /\ UNCHANGED <<tx, pairs, rule, said, settled>>
     \/ /\ Commits(w)
        /\ said.more < MaxVerdicts
        /\ Moved(c)
        /\ rule' = IF Learns(w) THEN Written(w) ELSE rule
        /\ said' = [yes |-> said.yes + (IF Learns(w) /\ w.verdict = "confirmed" THEN 1 ELSE 0),
                    more |-> said.more + 1]
        /\ LET after == (pairs \ RowOf(w)) \cup {[p |-> First(w), d |-> w.d, status |-> w.verdict]}
               gone == Discarded(w) IN
           \/ /\ w.verdict = "dismissed"
              /\ pairs' = after /\ settled' = settled \cup {{w.p, w.d}} /\ UNCHANGED tx
           \/ /\ w.verdict = "confirmed"
              /\ pairs' = {row \in after : gone \notin Couple(row)}
              /\ tx' = [tx EXCEPT ![gone] = "deleted"]
              /\ UNCHANGED settled
  /\ Disturb /\ UNCHANGED mail

Reopen(row) ==
  /\ row.status # "pending" /\ said.more < MaxVerdicts
  /\ said' = [said EXCEPT !.more = @ + 1]
  /\ pairs' = (pairs \ {row}) \cup {[row EXCEPT !.status = "pending"]}
  /\ settled' = settled \ {Couple(row)}
  /\ Disturb /\ UNCHANGED <<mail, tx, rule, work>>

DdNext ==
  \/ \E t \in Txs : Import(t)
  \/ \E c \in Callers : BeginScan(c) \/ ScanCommit(c) \/ Resolve(c) \/ ResolveCommit(c)
  \/ BulkDetect \/ \E row \in pairs : Reopen(row)
DdSpec == DdInit /\ [][DdNext]_ddVars

DdTypeOK ==
  /\ tx \in [Txs -> {"absent", "expense", "ignore", "deleted"}]
  /\ \A row \in pairs :
       /\ Couple(row) \subseteq Txs
       /\ row.status \in {"pending", "confirmed", "dismissed", "auto_resolved"}
  /\ said.more \in 0 .. MaxVerdicts /\ settled \subseteq SUBSET Txs

(***************************************************************************)
(* The domain rule resolves pairs by itself only after three confirmations *)
(* that were given, however verdicts overlap (service.py:1207-1216).       *)
(***************************************************************************)
AutoIsEarned == rule.auto => said.yes >= 3

(***************************************************************************)
(* A scan that ran undisturbed leaves no two counted expenses that the     *)
(* README (lines 80-83) calls duplicates without a pair, in whatever order *)
(* it took them and whatever the passes dropped on the way.                *)
(***************************************************************************)
DocumentedDuplicates(a, b) ==
  /\ Gap(mail[a].amount, mail[b].amount) * 200 <= mail[a].amount
  /\ \/ SameDomain(a, b) /\ Days(a, b) <= 3
     \/ ~SameDomain(a, b) /\ Days(a, b) <= 1
     \/ ~SameDomain(a, b) /\ Days(a, b) <= 3 /\ OrderAndConfirm(a, b)
ScanFindsAll ==
  scan = "done" =>
    \A a, b \in Txs : /\ a # b /\ tx[a] = "expense" /\ tx[b] = "expense"
                      /\ DocumentedDuplicates(a, b)
                      => \E row \in pairs : Couple(row) = {a, b}

(***************************************************************************)
(* "Safe to run periodically - already-paired transactions are skipped"    *)
(* (sync/__init__.py:149): a couple the user has dismissed does not come   *)
(* back as pending unless the user reopens it.                             *)
(***************************************************************************)
DismissedStaysDismissed ==
  \A row \in pairs : row.status = "pending" => Couple(row) \notin settled
=============================================================================
