---------------------------- MODULE Imports_proofs ----------------------------
(***************************************************************************)
(* Proofs about what an import shows and leads to: the learned rule of the *)
(* duplicate detection and the scans it makes, for any transactions,       *)
(* e-mails and verdicts under way; the progress of jobs, for any users,    *)
(* jobs, dicts and restarts; and the figures the pages compute, for any    *)
(* entries, dates, amounts and categories.                                 *)
(***************************************************************************)
EXTENDS MCImports, SequenceTheorems, FiniteLemmas, TLAPS

-----------------------------------------------------------------------------
(* The learned rule.  What a resolution has read of the rule counts no more *)
(* confirmations than were given by then, and they are not taken back.      *)
ResolveFields == {"kind", "p", "d", "now", "keep", "verdict", "rule"}
Reads(w) ==
  w.kind = "resolve" =>
    /\ DOMAIN w = ResolveFields
    /\ w.rule.yes \in Nat /\ w.rule.yes <= said.yes

DdInv ==
  /\ said.yes \in Nat /\ DOMAIN said = {"yes", "more"}
  /\ rule.yes \in Nat /\ rule.yes <= said.yes
  /\ DOMAIN work = Callers /\ \A c \in Callers : Reads(work[c])
  /\ AutoIsEarned

LEMMA DdInitInv == DdInit => DdInv
<1> SUFFICES ASSUME DdInit PROVE DdInv
  OBVIOUS
<1>1. /\ rule.yes \in {0, 2} /\ ~rule.auto
      /\ said.yes = rule.yes /\ DOMAIN said = {"yes", "more"}
  BY DEF DdInit, NoRule
<1>2. DOMAIN work = Callers /\ \A c \in Callers : work[c] = NoWork
  BY DEF DdInit
<1>3. NoWork.kind # "resolve"
  BY DEF NoWork
<1> QED BY <1>1, <1>2, <1>3 DEF DdInv, Reads, AutoIsEarned

(* Steps that leave the rule and what was said.                             *)
LEMMA QuietInv ==
  ASSUME DdInv, UNCHANGED <<rule, said>>, DOMAIN work' = Callers,
         \A c \in Callers : work'[c] = work[c] \/ work'[c].kind # "resolve"
  PROVE  DdInv'
BY DEF DdInv, Reads, AutoIsEarned

LEMMA ResolveInv ==
  ASSUME DdInv, NEW c \in Callers, Resolve(c)
  PROVE  DdInv'
<1>1. PICK pair \in pairs, verdict \in {"confirmed", "dismissed"} : \E keep \in Couple(pair) :
        work' = [work EXCEPT ![c] = [kind |-> "resolve", p |-> pair.p, d |-> pair.d, now |-> pair.p,
                                     keep |-> keep, verdict |-> verdict, rule |-> rule]]
  BY DEF Resolve
<1>5. PICK keep \in Couple(pair) :
        work' = [work EXCEPT ![c] = [kind |-> "resolve", p |-> pair.p, d |-> pair.d, now |-> pair.p,
                                     keep |-> keep, verdict |-> verdict, rule |-> rule]]
  BY <1>1
<1> DEFINE w == [kind |-> "resolve", p |-> pair.p, d |-> pair.d, now |-> pair.p,
                 keep |-> keep, verdict |-> verdict, rule |-> rule]
<1>2. UNCHANGED <<rule, said>>
  BY DEF Resolve
<1>3. DOMAIN w = ResolveFields /\ w.rule = rule
  BY DEF ResolveFields
<1>4. DOMAIN work' = Callers /\ \A o \in Callers : work'[o] = work[o] \/ work'[o] = w
  BY <1>5 DEF DdInv
<1> HIDE DEF w
<1> QED BY <1>2, <1>3, <1>4 DEF DdInv, Reads, AutoIsEarned

LEMMA VerdictInv ==
  ASSUME DdInv, NEW c \in Callers, ResolveCommit(c)
  PROVE  DdInv'
<1> DEFINE w == work[c]
           given == IF Learns(w) /\ w.verdict = "confirmed" THEN 1 ELSE 0
<1>1. /\ w.kind = "resolve" /\ w.rule.yes \in Nat /\ w.rule.yes <= said.yes
      /\ said.yes \in Nat /\ rule.yes \in Nat /\ rule.yes <= said.yes /\ DOMAIN work = Callers
  BY DEF ResolveCommit, DdInv, Reads
<1>2. CASE Finish(c) /\ UNCHANGED <<rule, said>>
  <2>1. DOMAIN work' = Callers /\ \A o \in Callers : work'[o] = work[o] \/ work'[o] = NoWork
    BY <1>1, <1>2 DEF Finish
  <2>2. NoWork.kind # "resolve"
    BY DEF NoWork
  <2> QED BY <1>2, <2>1, <2>2, QuietInv
<1>3. CASE /\ Moved(c)
           /\ rule' = IF Learns(w) THEN Written(w) ELSE rule
           /\ said' = [yes |-> said.yes + given, more |-> said.more + 1]
  <2>1. said'.yes = said.yes + given /\ DOMAIN said' = {"yes", "more"} /\ given \in {0, 1}
    BY <1>3
  <2>2. DOMAIN work' = Callers /\ \A o \in Callers : Reads(work[o])'
    <3>1. DOMAIN work' = Callers
            /\ \A o \in Callers : \/ work'[o] \in {work[o], NoWork}
                                  \/ /\ work[o].kind = "resolve"
                                     /\ work'[o] = [work[o] EXCEPT !.now = First(w)]
      BY <1>3 DEF Moved
    <3>2. NoWork.kind # "resolve"
      BY DEF NoWork
    <3>3. ASSUME NEW o \in Callers, work'[o].kind = "resolve"
          PROVE  /\ DOMAIN work'[o] = ResolveFields
                 /\ work'[o].rule.yes \in Nat /\ work'[o].rule.yes <= said.yes
      <4>1. CASE work'[o] = work[o]
        BY <3>3, <4>1 DEF DdInv, Reads
      <4>2. CASE work[o].kind = "resolve" /\ work'[o] = [work[o] EXCEPT !.now = First(w)]
        <5>1. DOMAIN work[o] = ResolveFields /\ work[o].rule.yes \in Nat /\ work[o].rule.yes <= said.yes
          BY <4>2 DEF DdInv, Reads
        <5>2. DOMAIN work'[o] = ResolveFields /\ work'[o].rule = work[o].rule
          BY <4>2, <5>1 DEF ResolveFields
        <5> QED BY <5>1, <5>2
      <4> QED BY <3>1, <3>2, <3>3, <4>1, <4>2
    <3> QED BY <1>1, <2>1, <3>1, <3>3 DEF Reads
  <2>3. CASE ~Learns(w)
    BY <1>1, <1>3, <2>1, <2>2, <2>3 DEF DdInv, AutoIsEarned
  <2>4. CASE Learns(w)
    <3> DEFINE new == Taught(w.rule, w.verdict)
    <3>1. /\ new.yes \in Nat /\ new.yes <= said.yes + given
          /\ new.auto => new.yes >= 3
      <4>1. /\ new.yes = w.rule.yes + (IF w.verdict = "confirmed" THEN 1 ELSE 0)
            /\ \E all : new.auto = Earned(new.yes, all)
        BY DEF Taught
      <4>2. new.auto => new.yes >= 3
        BY <4>1 DEF Earned, MinConfirmed
      <4> QED BY <1>1, <2>4, <4>1, <4>2
    <3>2. /\ rule'.yes = (IF new.yes # w.rule.yes THEN new.yes ELSE rule.yes)
          /\ rule'.auto = (IF new.auto # w.rule.auto THEN new.auto ELSE rule.auto)
      BY <1>3, <2>4 DEF Written
    <3>3. rule'.auto => said'.yes >= 3
      BY <1>1, <2>1, <3>1, <3>2 DEF DdInv, AutoIsEarned
    <3> QED BY <1>1, <2>1, <2>2, <3>1, <3>2, <3>3 DEF DdInv, AutoIsEarned
  <2> QED BY <2>3, <2>4
<1> QED BY <1>2, <1>3 DEF ResolveCommit

LEMMA DdStepInv == DdInv /\ [DdNext]_ddVars => DdInv'
<1> SUFFICES ASSUME DdInv, [DdNext]_ddVars PROVE DdInv'
  OBVIOUS
<1>1. DOMAIN work = Callers /\ NoWork.kind # "resolve"
  BY DEF DdInv, NoWork
<1>2. ASSUME NEW t \in Txs, Import(t) PROVE DdInv'
  BY <1>1, <1>2, QuietInv DEF Import
<1>3. CASE BulkDetect
  BY <1>1, <1>3, QuietInv DEF BulkDetect
<1>4. ASSUME NEW c \in Callers, BeginScan(c) PROVE DdInv'
  <2>1. PICK rows, dropped : work' = [work EXCEPT ![c] = [kind |-> "scan", rows |-> rows, dropped |-> dropped]]
    BY <1>4 DEF BeginScan
  <2>2. UNCHANGED <<rule, said>>
    BY <1>4 DEF BeginScan
  <2>3. DOMAIN work' = Callers /\ \A o \in Callers : work'[o] = work[o] \/ work'[o].kind = "scan"
    BY <1>1, <2>1
  <2> QED BY <2>2, <2>3, QuietInv
<1>5. ASSUME NEW c \in Callers, ScanCommit(c) PROVE DdInv'
  <2>1. UNCHANGED <<rule, said>> /\ work' = [work EXCEPT ![c] = NoWork]
    BY <1>5 DEF ScanCommit, Finish
  <2>2. DOMAIN work' = Callers /\ \A o \in Callers : work'[o] = work[o] \/ work'[o].kind # "resolve"
    BY <1>1, <2>1
  <2> QED BY <2>1, <2>2, QuietInv
<1>6. ASSUME NEW pair \in pairs, Reopen(pair) PROVE DdInv'
  <2>1. said'.yes = said.yes /\ DOMAIN said' = {"yes", "more"} /\ UNCHANGED <<rule, work>>
    BY <1>6 DEF Reopen, DdInv
  <2> QED BY <2>1 DEF DdInv, Reads, AutoIsEarned
<1>7. CASE UNCHANGED ddVars
  BY <1>1, <1>7, QuietInv DEF ddVars
<1> QED BY <1>2, <1>3, <1>4, <1>5, <1>6, <1>7, ResolveInv, VerdictInv DEF DdNext

(* The domain rule resolves pairs by itself only after three confirmations  *)
(* that were given, however verdicts that read the rule before overlap and  *)
(* write back the columns they changed (_update_domain_pair_rule,           *)
(* service.py).                                                             *)
THEOREM RuleIsEarned == DdSpec => []AutoIsEarned
<1>1. DdInv => AutoIsEarned
  BY DEF DdInv
<1> QED BY <1>1, DdInitInv, DdStepInv, PTL DEF DdSpec

-----------------------------------------------------------------------------
(* Duplicate detection: what rows and calls under way look like.            *)
Marks == {"absent", "expense", "ignore", "deleted"}
Couples == [p : Txs, d : Txs, status : {"pending", "confirmed", "dismissed", "auto_resolved"}]
Seen(view) == view.rows \subseteq Couples /\ view.tx \in [Txs -> Marks]
Formed(w) ==
  /\ w.kind = "scan" => w.rows \subseteq Couples
  /\ w.kind = "resolve" =>
       /\ DOMAIN w = ResolveFields
       /\ w.p \in Txs /\ w.d \in Txs /\ w.now \in Txs /\ w.keep \in Txs
       /\ w.verdict \in {"confirmed", "dismissed"}

(* A scan that is alone has found what it is to find; nobody else reads.    *)
Known(rows, a, b) == \E r \in rows : Couple(r) = {a, b}
FindsAll(c) ==
  /\ work[c].kind = "scan"
  /\ \A o \in Callers \ {c} : work[o] = NoWork
  /\ \A a, b \in Txs :
       /\ a # b /\ tx[a] = "expense" /\ tx[b] = "expense"
       /\ a \notin work[c].dropped /\ b \notin work[c].dropped
       /\ DocumentedDuplicates(a, b)
       => Known(pairs \cup work[c].rows, a, b)

ScanInv ==
  /\ mail \in Inboxes
  /\ tx \in [Txs -> Marks] /\ pairs \subseteq Couples
  /\ DOMAIN work = Callers /\ \A c \in Callers : Formed(work[c])
  /\ DOMAIN said = {"yes", "more"} /\ said.more \in 0 .. MaxVerdicts
  /\ settled \subseteq SUBSET Txs
  /\ scan = "alone" => \E c \in Callers : FindsAll(c)
  /\ ScanFindsAll

-----------------------------------------------------------------------------
(* Detection.  What a pass adds are couples of the transaction it looks at; *)
(* it makes nothing an expense.                                             *)
Grows(view, after) ==
  /\ Seen(after) /\ view.rows \subseteq after.rows
  /\ \A u \in Txs : after.tx[u] = "expense" => view.tx[u] = "expense"

LEMMA NoteGrows ==
  ASSUME NEW view, Seen(view), NEW rows, rows \subseteq Couples
  PROVE  Grows(view, Note(view, rows)) /\ rows \subseteq Note(view, rows).rows
<1>1. Note(view, rows).rows = view.rows \cup rows
  BY DEF Note
<1>2. /\ Note(view, rows).tx \in [Txs -> Marks]
      /\ \A u \in Txs : Note(view, rows).tx[u] = "expense" => view.tx[u] = "expense"
  BY DEF Note, Seen, Marks
<1> QED BY <1>1, <1>2 DEF Grows, Seen

LEMMA GrowsOn ==
  ASSUME NEW u, NEW v, NEW w, Grows(u, v), Grows(v, w)
  PROVE  Grows(u, w)
BY DEF Grows

(* Both kinds of row couple the two transactions.                           *)
LEMMA RowsCouple ==
  ASSUME NEW a \in Txs, NEW b \in Txs
  PROVE  /\ Resolved(a, b) \in Couples /\ Couple(Resolved(a, b)) = {a, b}
         /\ Queued(a, b) \in Couples /\ Couple(Queued(a, b)) = {a, b}
BY DedupAssumption DEF Resolved, Queued, Couple, Couples, Larger

LEMMA SameDomainGrows ==
  ASSUME NEW view, Seen(view), NEW t \in Txs
  PROVE  Grows(view, SameDomainPass(view, t))
<1> DEFINE found == {v \in Expenses(view, t) \ Paired(view, t) :
                       SameDomain(t, v) /\ Near(t, v) /\ Days(t, v) <= 3}
           R == {Resolved(t, u) : u \in found}
<1>1. found \subseteq Txs
  BY DEF Expenses
<1>2. R \subseteq Couples
  BY <1>1, RowsCouple
<1> HIDE DEF R
<1>3. Grows(view, Note(view, R))
  BY <1>2, NoteGrows
<1> QED BY <1>3 DEF R, SameDomainPass

LEMMA CrossDomainGrows ==
  ASSUME NEW view, Seen(view), NEW t \in Txs
  PROVE  Grows(view, CrossDomainPass(view, t))
<1> DEFINE found == {u \in Expenses(view, t) \ Paired(view, t) :
                       /\ ~SameDomain(t, u) /\ Near(t, u) /\ Days(t, u) <= 1
                       /\ Score(t, u) # "unknown"}
           R == {IF rule.auto \/ Score(t, u) = "reference_id_match" THEN Resolved(t, u)
                 ELSE Queued(t, u) : u \in found}
<1>1. found \subseteq Txs
  BY DEF Expenses
<1>2. R \subseteq Couples
  BY <1>1, RowsCouple
<1> HIDE DEF R
<1>3. Grows(view, Note(view, R))
  BY <1>2, NoteGrows
<1> QED BY <1>3 DEF R, CrossDomainPass

LEMMA InvestmentGrows ==
  ASSUME NEW view, Seen(view), NEW t \in Txs
  PROVE  Grows(view, InvestmentPass(view, t))
<1> DEFINE found == {u \in Expenses(view, t) \ Paired(view, t) :
                  ~SameDomain(t, u) /\ Near(t, u) /\ Days(t, u) <= 3 /\ OrderAndConfirm(t, u)}
           R == {IF mail[t].subject = "order" THEN Queued(t, u) ELSE Queued(u, t) : u \in found}
<1>1. found \subseteq Txs
  BY DEF Expenses
<1>2. R \subseteq Couples
  BY <1>1, RowsCouple
<1> HIDE DEF R
<1>3. Grows(view, Note(view, R))
  BY <1>2, NoteGrows
<1> QED BY <1>3 DEF R, InvestmentPass

LEMMA SharedGrows ==
  ASSUME NEW view, Seen(view), NEW t \in Txs
  PROVE  Grows(view, SharedPass(view, t))
<1> DEFINE found == {u \in Expenses(view, t) \ Paired(view, t) :
                  NearInBulk(t, u) /\ Days(t, u) <= 3 /\ Score(t, u) \in LateSources}
           R == {IF Score(t, u) = "reference_id_match" THEN Resolved(t, u) ELSE Queued(t, u) : u \in found}
<1>1. found \subseteq Txs
  BY DEF Expenses
<1>2. R \subseteq Couples
  BY <1>1, RowsCouple
<1> HIDE DEF R
<1>3. Grows(view, Note(view, R))
  BY <1>2, NoteGrows
<1> QED BY <1>3 DEF R, SharedPass

(* A couple that has a row keeps it.                                       *)
LEMMA PairedKnown ==
  ASSUME NEW view, NEW t \in Txs, NEW u \in Txs, u \in Paired(view, t)
  PROVE  Known(view.rows, t, u)
BY DEF Paired, Known

LEMMA KnownGrows ==
  ASSUME NEW view, NEW after, Grows(view, after), NEW t, NEW u, Known(view.rows, t, u)
  PROVE  Known(after.rows, t, u)
BY DEF Grows, Known

(* Within half a percent is within either tolerance.                        *)
LEMMA WithinTolerance ==
  ASSUME mail \in Inboxes, NEW t \in Txs, NEW u \in Txs, DocumentedDuplicates(t, u)
  PROVE  /\ Near(t, u) /\ NearInBulk(t, u) /\ Days(t, u) \in Nat
         /\ \/ SameDomain(t, u) /\ Days(t, u) <= 3
            \/ ~SameDomain(t, u) /\ Days(t, u) <= 1
            \/ ~SameDomain(t, u) /\ Days(t, u) <= 3 /\ OrderAndConfirm(t, u)
<1>1. mail[t].amount \in Nat /\ mail[u].amount \in Nat /\ mail[t].day \in Int /\ mail[u].day \in Int
  BY DedupAssumption
<1> DEFINE g == Gap(mail[t].amount, mail[u].amount)
           m == mail[t].amount
<1>2. g \in Nat /\ m \in Nat /\ g * 200 <= m
  BY <1>1 DEF DocumentedDuplicates, Gap
<1>3. Days(t, u) \in Nat
  BY <1>1 DEF Days, Gap
<1> HIDE DEF g, m
<1>4. 1000 * g <= Larger(5 * m, 5000)
  BY <1>2 DEF Larger
<1>5. 100 * g <= Larger(3 * m, 500)
  BY <1>2 DEF Larger
<1>6. Near(t, u) /\ NearInBulk(t, u)
  BY <1>4, <1>5 DEF Near, NearInBulk, g, m
<1> QED BY <1>3, <1>6 DEF DocumentedDuplicates

(* A score is never unknown when the amounts are near and the days are one  *)
(* apart at most: the layer of amount and date fits.                        *)
LEMMA ScoreKnown ==
  ASSUME NEW t \in Txs, NEW u \in Txs, NearInBulk(t, u), Days(t, u) \in Nat, Days(t, u) <= 1
  PROVE  Score(t, u) # "unknown"
<1> DEFINE layers == Layers(t, u)
           fitting == {i \in DOMAIN layers : layers[i].fits}
<1>1. /\ DOMAIN layers = 1 .. 6 /\ 5 \in DOMAIN layers /\ (Days(t, u) <= 1 => layers[5].fits)
      /\ \A i \in 1 .. 6 : layers[i].source # "unknown"
  <2> DEFINE l1 == [source |-> "same_domain_exact", fits |-> SameDomain(t, u)]
             l2 == [source |-> "merchant_alias", fits |-> mail[t].merchant = mail[u].merchant]
             l3 == [source |-> "domain_pair", fits |-> rule.known /\ Trusted]
             l4 == [source |-> "investment_flow", fits |-> OrderAndConfirm(t, u)]
             l5 == [source |-> "amount_date", fits |-> Days(t, u) <= 1]
             l6 == [source |-> "reference_id_match", fits |-> mail[t].ref = mail[u].ref]
  <2>1. /\ l1.source # "unknown" /\ l2.source # "unknown" /\ l3.source # "unknown"
        /\ l4.source # "unknown" /\ l5.source # "unknown" /\ l6.source # "unknown"
    OBVIOUS
  <2>2. Days(t, u) <= 1 => l5.fits
    OBVIOUS
  <2>3. layers = <<l1, l2, l3, l4, l5, l6>>
    BY Zenon DEF Layers
  <2> HIDE DEF layers, l1, l2, l3, l4, l5, l6
  <2> QED BY <2>1, <2>2, <2>3
<1> HIDE DEF layers
<1>5. layers[5].fits
  BY <1>1
<1>2. 5 \in fitting /\ fitting \subseteq 1 .. 6
  BY <1>1, <1>5, Zenon
<1>3. Min(fitting) \in 1 .. 6
  <2>1. \E i \in fitting : \A j \in fitting : i <= j
    <3>1. fitting \in SUBSET Nat /\ fitting # {}
      BY <1>2
    <3> HIDE DEF fitting
    <3> QED BY <3>1, LeastNumber
  <2>2. Min(fitting) \in fitting
    <3> HIDE DEF fitting
    <3> QED BY <2>1 DEF Min
  <2> HIDE DEF fitting
  <2> QED BY <1>2, <2>2
<1>4. Score(t, u) = layers[Min(fitting)].source
  BY <1>2 DEF Score, layers
<1> QED BY <1>1, <1>3, <1>4

(* What is documented a duplicate is coupled when its turn comes: by the    *)
(* pass of the same domain, of two domains, or of an order and its          *)
(* confirmation, unless an earlier one dropped one of the two.              *)
LEMMA SameDomainFinds ==
  ASSUME mail \in Inboxes, NEW view, Seen(view), NEW t \in Txs, NEW u \in Txs \ {t}, view.tx[u] = "expense",
         SameDomain(t, u), Near(t, u), Days(t, u) <= 3
  PROVE  Known(SameDomainPass(view, t).rows, t, u)
<1> DEFINE R == {Resolved(t, v) : v \in {x \in Expenses(view, t) \ Paired(view, t) :
                                     SameDomain(t, x) /\ Near(t, x) /\ Days(t, x) <= 3}}
<1>1. CASE u \in Paired(view, t)
  BY <1>1, PairedKnown, KnownGrows, SameDomainGrows
<1>2. CASE u \notin Paired(view, t)
  <2>1. R \subseteq Couples
    BY RowsCouple DEF Expenses
  <2>2. Resolved(t, u) \in R
    BY <1>2 DEF Expenses
  <2>3. Couple(Resolved(t, u)) = {t, u}
    BY RowsCouple
  <2>4. R \subseteq Note(view, R).rows
    <3> HIDE DEF R
    <3> QED BY <2>1, NoteGrows
  <2>5. Resolved(t, u) \in Note(view, R).rows
    BY <2>2, <2>4
  <2> HIDE DEF R
  <2>6. Known(Note(view, R).rows, t, u)
    BY <2>3, <2>5 DEF Known
  <2> QED BY <2>6 DEF R, SameDomainPass
<1> QED BY <1>1, <1>2

LEMMA CrossDomainFinds ==
  ASSUME mail \in Inboxes, NEW view, Seen(view), NEW t \in Txs, NEW u \in Txs \ {t}, view.tx[u] = "expense",
         ~SameDomain(t, u), Near(t, u), Days(t, u) <= 1, Score(t, u) # "unknown"
  PROVE  Known(CrossDomainPass(view, t).rows, t, u)
<1> DEFINE found == {x \in Expenses(view, t) \ Paired(view, t) :
                       /\ ~SameDomain(t, x) /\ Near(t, x) /\ Days(t, x) <= 1
                       /\ Score(t, x) # "unknown"}
           Line(x) == IF rule.auto \/ Score(t, x) = "reference_id_match" THEN Resolved(t, x)
                      ELSE Queued(t, x)
           R == {Line(x) : x \in found}
<1>1. CASE u \in Paired(view, t)
  BY <1>1, PairedKnown, KnownGrows, CrossDomainGrows
<1>2. CASE u \notin Paired(view, t)
  <2>1. R \subseteq Couples
    BY RowsCouple DEF Expenses
  <2>2. Line(u) \in R
    BY <1>2 DEF Expenses
  <2>3. Couple(Line(u)) = {t, u}
    BY RowsCouple
  <2>4. R \subseteq Note(view, R).rows
    <3> HIDE DEF R
    <3> QED BY <2>1, NoteGrows
  <2>5. Line(u) \in Note(view, R).rows
    BY <2>2, <2>4
  <2>7. Note(view, R) = CrossDomainPass(view, t)
    BY DEF CrossDomainPass
  <2> HIDE DEF R, Line
  <2>6. Known(Note(view, R).rows, t, u)
    BY <2>3, <2>5 DEF Known
  <2> QED BY <2>6, <2>7
<1> QED BY <1>1, <1>2

LEMMA InvestmentFinds ==
  ASSUME mail \in Inboxes, NEW view, Seen(view), NEW t \in Txs, NEW u \in Txs \ {t}, view.tx[u] = "expense",
         ~SameDomain(t, u), Near(t, u), Days(t, u) <= 3, OrderAndConfirm(t, u)
  PROVE  Known(InvestmentPass(view, t).rows, t, u)
<1> DEFINE found == {x \in Expenses(view, t) \ Paired(view, t) :
                       ~SameDomain(t, x) /\ Near(t, x) /\ Days(t, x) <= 3 /\ OrderAndConfirm(t, x)}
           Line(x) == IF mail[t].subject = "order" THEN Queued(t, x) ELSE Queued(x, t)
           R == {Line(x) : x \in found}
<1>1. CASE u \in Paired(view, t)
  BY <1>1, PairedKnown, KnownGrows, InvestmentGrows
<1>2. CASE u \notin Paired(view, t)
  <2>1. R \subseteq Couples
    BY RowsCouple DEF Expenses
  <2>2. Line(u) \in R
    BY <1>2 DEF Expenses
  <2>3. Couple(Line(u)) = {t, u}
    BY RowsCouple
  <2>4. R \subseteq Note(view, R).rows
    <3> HIDE DEF R
    <3> QED BY <2>1, NoteGrows
  <2>5. Line(u) \in Note(view, R).rows
    BY <2>2, <2>4
  <2>7. Note(view, R) = InvestmentPass(view, t)
    BY DEF InvestmentPass
  <2> HIDE DEF R, Line
  <2>6. Known(Note(view, R).rows, t, u)
    BY <2>3, <2>5 DEF Known
  <2> QED BY <2>6, <2>7
<1> QED BY <1>1, <1>2

LEMMA DetectFinds ==
  ASSUME mail \in Inboxes, NEW view, Seen(view), NEW t \in Txs
  PROVE  /\ Grows(view, Detect(view, t))
         /\ \A u \in Txs \ {t} :
              Detect(view, t).tx[u] = "expense" /\ DocumentedDuplicates(t, u)
                => Known(Detect(view, t).rows, t, u)
<1> DEFINE v1 == SameDomainPass(view, t)
           v2 == CrossDomainPass(v1, t)
           v3 == InvestmentPass(v2, t)
           v4 == SharedPass(v3, t)
<1>1. Grows(view, v1)
  BY SameDomainGrows
<1> HIDE DEF v1
<1>2. Grows(v1, v2) /\ Seen(v1)
  BY <1>1, CrossDomainGrows DEF Grows
<1> HIDE DEF v2
<1>3. Grows(v2, v3) /\ Seen(v2)
  BY <1>2, InvestmentGrows DEF Grows
<1> HIDE DEF v3
<1>4. Grows(v3, v4) /\ Seen(v3)
  BY <1>3, SharedGrows DEF Grows
<1> HIDE DEF v4
<1>5. Grows(v1, v4) /\ Grows(v2, v4) /\ Grows(view, v4) /\ Grows(v3, v4)
  BY <1>1, <1>2, <1>3, <1>4, GrowsOn
<1>6. ASSUME NEW u \in Txs \ {t}, v4.tx[u] = "expense", DocumentedDuplicates(t, u)
      PROVE  Known(v4.rows, t, u)
  <2>1. view.tx[u] = "expense" /\ v1.tx[u] = "expense" /\ v2.tx[u] = "expense"
    BY <1>5, <1>6 DEF Grows
  <2>2. /\ Near(t, u) /\ NearInBulk(t, u) /\ Days(t, u) \in Nat
        /\ \/ SameDomain(t, u) /\ Days(t, u) <= 3
           \/ ~SameDomain(t, u) /\ Days(t, u) <= 1
           \/ ~SameDomain(t, u) /\ Days(t, u) <= 3 /\ OrderAndConfirm(t, u)
    BY <1>6, WithinTolerance
  <2>3. CASE SameDomain(t, u) /\ Days(t, u) <= 3
    <3>1. Known(v1.rows, t, u)
      BY <2>1, <2>2, <2>3, SameDomainFinds DEF v1
    <3> QED BY <1>5, <3>1, KnownGrows
  <2>4. CASE ~SameDomain(t, u) /\ Days(t, u) <= 1
    <3>1. Score(t, u) # "unknown"
      BY <2>2, <2>4, ScoreKnown
    <3>2. Known(v2.rows, t, u)
      BY <1>2, <2>1, <2>2, <2>4, <3>1, CrossDomainFinds DEF v2
    <3> QED BY <1>5, <3>2, KnownGrows
  <2>5. CASE ~SameDomain(t, u) /\ Days(t, u) <= 3 /\ OrderAndConfirm(t, u)
    <3>1. Known(v3.rows, t, u)
      BY <1>3, <2>1, <2>2, <2>5, InvestmentFinds DEF v3
    <3> QED BY <1>5, <3>1, KnownGrows
  <2> QED BY <2>2, <2>3, <2>4, <2>5
<1>7. v4 = Detect(view, t)
  BY DEF v1, v2, v3, v4, Detect
<1> QED BY <1>5, <1>6, <1>7

-----------------------------------------------------------------------------
(* A scan folds the detection over the expenses of its query.               *)
Turns(it, order, D) ==
  it = [s \in D |-> IF s = {} THEN [rows |-> pairs, tx |-> tx]
                   ELSE DetectExpense(it[s \ {Max(s)}], order[Max(s)])]

LEMMA LastTurn ==
  ASSUME NEW n \in Nat, NEW s, s \subseteq 1 .. n
  PROVE  /\ IsFiniteSet(s) /\ Cardinality(s) \in Nat
         /\ Cardinality(s) = 0 => s = {}
         /\ s # {} =>
              /\ Max(s) \in s /\ \A y \in s : y <= Max(s)
              /\ Cardinality(s \ {Max(s)}) = Cardinality(s) - 1
<1>1. IsFiniteSet(1 .. n) /\ s \subseteq Nat
  BY FS_Interval
<1>2. IsFiniteSet(s)
  BY <1>1, FS_Subset
<1>3. s # {} => Max(s) \in s /\ \A y \in s : y <= Max(s)
  BY <1>1, <1>2, LastNumber
<1>4. s # {} => Cardinality(s \ {Max(s)}) = Cardinality(s) - 1
  BY <1>2, <1>3, FS_RemoveElement
<1>5. Cardinality(s) \in Nat /\ (Cardinality(s) = 0 => s = {})
  BY <1>2, FS_CardinalityType, FS_EmptySet
<1> QED BY <1>2, <1>3, <1>4, <1>5

LEMMA TurnsExist ==
  ASSUME NEW n \in Nat, NEW order
  PROVE  \E it : Turns(it, order, SUBSET (1 .. n))
<1> DEFINE S == 1 .. n
           first == [rows |-> pairs, tx |-> tx]
           G == {k \in Nat : \E it : Turns(it, order, UpTo(S, k))}
<1>0. IsFiniteSet(S)
  BY FS_Interval
<1>1. 0 \in G
  <2>1. \A s \in UpTo(S, 0) : s = {}
    <3> SUFFICES ASSUME NEW s \in SUBSET S, Cardinality(s) <= 0 PROVE s = {}
      BY DEF UpTo
    <3>1. s \subseteq 1 .. n
      OBVIOUS
    <3>2. Cardinality(s) \in Nat /\ (Cardinality(s) = 0 => s = {})
      BY <3>1, LastTurn
    <3> QED BY <3>2
  <2>2. Turns([s \in UpTo(S, 0) |-> first], order, UpTo(S, 0))
    BY <2>1 DEF Turns
  <2> QED BY <2>2
<1>2. ASSUME NEW k \in Nat, k \in G PROVE k + 1 \in G
  <2>1. PICK it : Turns(it, order, UpTo(S, k))
    BY <1>2
  <2> DEFINE new == [s \in UpTo(S, k + 1) |->
                       IF s = {} THEN first ELSE DetectExpense(it[s \ {Max(s)}], order[Max(s)])]
  <2>2. ASSUME NEW s \in UpTo(S, k + 1), s # {} PROVE new[s \ {Max(s)}] = it[s \ {Max(s)}]
    <3> DEFINE r == s \ {Max(s)}
    <3>1. r \in UpTo(S, k) /\ r \in UpTo(S, k + 1)
      <4>1. s \subseteq 1 .. n /\ Cardinality(s) <= k + 1 /\ r \subseteq 1 .. n
        BY DEF UpTo
      <4>2. Cardinality(s) \in Nat /\ Cardinality(r) = Cardinality(s) - 1
        BY <2>2, <4>1, LastTurn
      <4> HIDE DEF r
      <4> QED BY <4>1, <4>2 DEF UpTo
    <3>2. it[r] = IF r = {} THEN first ELSE DetectExpense(it[r \ {Max(r)}], order[Max(r)])
      BY <2>1, <3>1, Zenon DEF Turns
    <3> QED BY <3>1, <3>2, Zenon
  <2>3. Turns(new, order, UpTo(S, k + 1))
    BY <2>2 DEF Turns
  <2> QED BY <2>3
<1>3. Cardinality(S) \in G
  <2>1. Cardinality(S) \in Nat
    BY <1>0, FS_CardinalityType
  <2> HIDE DEF G
  <2> QED BY <1>1, <1>2, <2>1, NumberInduction
<1>4. UpTo(S, Cardinality(S)) = SUBSET S
  BY <1>0, FS_Subset, FS_CardinalityType DEF UpTo
<1> QED BY <1>3, <1>4

LEMMA ScanTurns ==
  ASSUME NEW order, order \in Orders
  PROVE  \E it : Turns(it, order, SUBSET (1 .. Len(order))) /\ Scanned(order) = it[1 .. Len(order)]
<1>1. Len(order) \in Nat /\ DOMAIN order = 1 .. Len(order)
  BY DedupAssumption
<1> DEFINE it == CHOOSE i : Turns(i, order, SUBSET (1 .. Len(order)))
<1>2. Turns(it, order, SUBSET (1 .. Len(order)))
  BY <1>1, TurnsExist
<1>3. Scanned(order) = it[1 .. Len(order)]
  BY <1>1 DEF Scanned, FoldLeft, MapThenFoldSet, Turns
<1> QED BY <1>2, <1>3

(* After n turns: the rows of the transactions that had one are there.      *)
ScannedTo(view, order, n) ==
  /\ Seen(view) /\ pairs \subseteq view.rows
  /\ \A u \in Txs : view.tx[u] = "expense" => tx[u] = "expense"
  /\ \A i \in 1 .. n : \A u \in Txs \ {order[i]} :
       /\ view.tx[order[i]] = "expense" /\ view.tx[u] = "expense"
       /\ DocumentedDuplicates(order[i], u)
       => Known(view.rows, order[i], u)

LEMMA TurnFinds ==
  ASSUME ScanInv, NEW order, NEW n \in Nat, \A i \in 1 .. (n + 1) : order[i] \in Txs,
         NEW view, ScannedTo(view, order, n)
  PROVE  ScannedTo(DetectExpense(view, order[n + 1]), order, n + 1)
<1> DEFINE t == order[n + 1]
           after == DetectExpense(view, t)
<1>1. t \in Txs /\ Seen(view) /\ mail \in Inboxes
  BY DEF ScannedTo, ScanInv
<1>2. CASE tx[t] # "expense"
  <2>1. after = view
    BY <1>2 DEF DetectExpense
  <2>2. view.tx[t] # "expense"
    BY <1>1, <1>2 DEF ScannedTo
  <2>3. \A i \in 1 .. (n + 1) : i \in 1 .. n \/ order[i] = t
    OBVIOUS
  <2> HIDE DEF t, after
  <2>4. ScannedTo(view, order, n + 1)
    BY <2>2, <2>3 DEF ScannedTo
  <2> QED BY <2>1, <2>4 DEF t, after
<1>3. CASE tx[t] = "expense"
  <2>1. after = Detect(view, t)
    BY <1>3 DEF DetectExpense
  <2> HIDE DEF t, after
  <2>2. /\ Grows(view, after)
        /\ \A u \in Txs \ {t} : after.tx[u] = "expense" /\ DocumentedDuplicates(t, u)
                                  => Known(after.rows, t, u)
    BY <1>1, <2>1, DetectFinds
  <2>3. ASSUME NEW i \in 1 .. (n + 1), NEW u \in Txs \ {order[i]},
               after.tx[order[i]] = "expense", after.tx[u] = "expense",
               DocumentedDuplicates(order[i], u)
        PROVE  Known(after.rows, order[i], u)
    <3>1. CASE i = n + 1
      <4>1. order[i] = t
        BY <3>1 DEF t
      <4> QED BY <2>2, <2>3, <4>1
    <3>2. CASE i # n + 1
      <4>1. i \in 1 .. n /\ order[i] \in Txs
        BY <3>2
      <4>2. view.tx[order[i]] = "expense" /\ view.tx[u] = "expense"
        BY <2>2, <2>3, <4>1 DEF Grows
      <4>3. Known(view.rows, order[i], u)
        BY <2>3, <4>1, <4>2 DEF ScannedTo
      <4> QED BY <2>2, <4>3, KnownGrows
    <3> QED BY <3>1, <3>2
  <2>4. /\ Seen(after) /\ pairs \subseteq after.rows
        /\ \A u \in Txs : after.tx[u] = "expense" => tx[u] = "expense"
    BY <2>2 DEF ScannedTo, Grows
  <2>5. ScannedTo(after, order, n + 1)
    BY <2>3, <2>4 DEF ScannedTo
  <2> QED BY <2>5 DEF t, after
<1> QED BY <1>2, <1>3

LEMMA ScanFinds ==
  ASSUME ScanInv, NEW order \in Orders
  PROVE  /\ Seen(Scanned(order)) /\ pairs \subseteq Scanned(order).rows
         /\ \A a \in Txs : \A b \in Txs \ {a} :
              /\ Scanned(order).tx[a] = "expense" /\ Scanned(order).tx[b] = "expense"
              /\ DocumentedDuplicates(a, b)
              => Known(Scanned(order).rows, a, b)
<1> DEFINE N == Len(order)
<1>1. /\ N \in Nat /\ DOMAIN order = 1 .. N
      /\ \A i \in 1 .. N : order[i] \in Txs
      /\ \A t \in Txs : \E i \in 1 .. N : order[i] = t
  BY DedupAssumption
<1>2. PICK it : Turns(it, order, SUBSET (1 .. N)) /\ Scanned(order) = it[1 .. N]
  BY ScanTurns
<1> HIDE DEF N
<1> DEFINE G == {n \in Nat : n <= N => ScannedTo(it[1 .. n], order, n)}
<1>3. \A s \in SUBSET (1 .. N) :
        it[s] = IF s = {} THEN [rows |-> pairs, tx |-> tx]
                ELSE DetectExpense(it[s \ {Max(s)}], order[Max(s)])
  BY <1>2, Zenon DEF Turns
<1>4. 0 \in G
  <2>1. 1 .. 0 = {} /\ {} \in SUBSET (1 .. N)
    OBVIOUS
  <2>2. it[1 .. 0] = [rows |-> pairs, tx |-> tx]
    BY <1>3, <2>1
  <2>3. ScannedTo(it[1 .. 0], order, 0)
    BY <2>1, <2>2 DEF ScannedTo, Seen, ScanInv
  <2> QED BY <2>3
<1>5. ASSUME NEW n \in Nat, n \in G PROVE n + 1 \in G
  <2> SUFFICES ASSUME n + 1 <= N PROVE ScannedTo(it[1 .. (n + 1)], order, n + 1)
    OBVIOUS
  <2> DEFINE s == 1 .. (n + 1)
  <2>1. s \in SUBSET (1 .. N) /\ s # {} /\ n <= N /\ s \subseteq 1 .. N /\ n + 1 \in s
    <3>1. n + 1 \in s /\ n <= N
      BY <1>1
    <3>2. s \subseteq 1 .. N
      BY <1>1
    <3> QED BY <3>1, <3>2
  <2>2. Max(s) \in s /\ \A y \in s : y <= Max(s)
    <3> HIDE DEF s
    <3> QED BY <1>1, <2>1, LastTurn
  <2>3. Max(s) = n + 1
    BY <2>1, <2>2
  <2>4. s \ {n + 1} = 1 .. n
    OBVIOUS
  <2>5. it[s] = DetectExpense(it[1 .. n], order[n + 1])
    <3> HIDE DEF s
    <3> QED BY <1>3, <2>1, <2>3, <2>4
  <2>6. ScannedTo(it[1 .. n], order, n)
    BY <1>5, <2>1
  <2>7. \A i \in 1 .. (n + 1) : order[i] \in Txs
    BY <1>1, <2>1
  <2>8. ScannedTo(DetectExpense(it[1 .. n], order[n + 1]), order, n + 1)
    BY <2>6, <2>7, TurnFinds
  <2> QED BY <2>5, <2>8
<1>6. ScannedTo(it[1 .. N], order, N)
  <2>1. \A n \in Nat : n \in G
    <3> HIDE DEF G
    <3> QED BY <1>4, <1>5, NumberInduction
  <2> QED BY <1>1, <2>1
<1> QED BY <1>1, <1>2, <1>6 DEF ScannedTo

-----------------------------------------------------------------------------
(* Every step keeps the form of rows and calls, and what a scan that is     *)
(* alone has found.                                                         *)
LEMMA ScanInitInv == DdInit => ScanInv
<1> SUFFICES ASSUME DdInit PROVE ScanInv
  OBVIOUS
<1>1. /\ mail \in Inboxes /\ tx \in [Txs -> Marks] /\ pairs = {}
      /\ said = [yes |-> rule.yes, more |-> 0] /\ settled = {} /\ scan = "none"
  BY DEF DdInit, Marks
<1>2. DOMAIN said = {"yes", "more"} /\ said.more \in 0 .. MaxVerdicts
  BY <1>1, DedupAssumption
<1>3. DOMAIN work = Callers /\ \A c \in Callers : Formed(work[c])
  BY DEF DdInit, NoWork, Formed
<1> QED BY <1>1, <1>2, <1>3 DEF ScanInv, ScanFindsAll

(* A step that disturbs a scan has only the form to keep.                   *)
LEMMA DisturbInv ==
  ASSUME ScanInv, Disturb, UNCHANGED mail,
         tx' \in [Txs -> Marks], pairs' \subseteq Couples, settled' \subseteq SUBSET Txs,
         DOMAIN work' = Callers, \A c \in Callers : Formed(work'[c]),
         DOMAIN said' = {"yes", "more"}, said'.more \in 0 .. MaxVerdicts
  PROVE  ScanInv'
<1>1. scan' = "none"
  BY DEF Disturb
<1>2. ScanFindsAll'
  BY <1>1 DEF ScanFindsAll
<1>3. \A c \in Callers : Formed(work[c])'
  BY DEF Formed
<1> QED BY <1>1, <1>2, <1>3 DEF ScanInv

LEMMA BatchCouples == ASSUME NEW ts, ts \subseteq Txs PROVE BatchRows(ts) \subseteq Couples
<1>1. \A c \in ts \X Txs : Queued(c[1], c[2]) \in Couples
  BY RowsCouple
<1> QED BY <1>1, Zenon DEF BatchRows

LEMMA SameDocumented ==
  ASSUME UNCHANGED mail
  PROVE  \A a, b \in Txs : DocumentedDuplicates(a, b)' <=> DocumentedDuplicates(a, b)
BY DEF DocumentedDuplicates, Gap, SameDomain, Days, OrderAndConfirm

LEMMA BeginScanInv ==
  ASSUME ScanInv, NEW c \in Callers, BeginScan(c)
  PROVE  ScanInv'
<1>1. PICK order \in Orders :
        work' = [work EXCEPT ![c] = [kind |-> "scan", rows |-> Scanned(order).rows \ pairs,
                                     dropped |-> {t \in Txs : Scanned(order).tx[t] # tx[t]}]]
  BY DEF BeginScan
<1>2. /\ UNCHANGED <<mail, tx, pairs, rule, said, settled>>
      /\ scan' = IF \A o \in Callers \ {c} : Idle(o) THEN "alone" ELSE "none"
  BY DEF BeginScan
<1> DEFINE found == Scanned(order).rows \ pairs
           drop == {t \in Txs : Scanned(order).tx[t] # tx[t]}
           seen == Scanned(order)
<1>3. /\ Seen(seen) /\ pairs \subseteq seen.rows
      /\ \A a \in Txs : \A b \in Txs \ {a} :
           /\ seen.tx[a] = "expense" /\ seen.tx[b] = "expense"
           /\ DocumentedDuplicates(a, b)
           => Known(seen.rows, a, b)
  BY ScanFinds
<1>4. /\ DOMAIN work' = Callers /\ work'[c].kind = "scan"
      /\ work'[c].rows = seen.rows \ pairs /\ work'[c].dropped = {t \in Txs : seen.tx[t] # tx[t]}
      /\ \A o \in Callers \ {c} : work'[o] = work[o]
  BY <1>1 DEF ScanInv
<1> HIDE DEF found, drop, seen
<1>5. \A o \in Callers : Formed(work[o])'
  <2>1. Formed(work[c])'
    BY <1>3, <1>4 DEF Formed, Seen
  <2> QED BY <1>4, <2>1 DEF Formed, ScanInv
<1>6. scan' = "alone" => FindsAll(c)'
  <2> SUFFICES ASSUME \A o \in Callers \ {c} : Idle(o) PROVE FindsAll(c)'
    BY <1>2
  <2>1. \A o \in Callers \ {c} : work'[o] = NoWork
    BY <1>4 DEF Idle
  <2>2. \A a, b \in Txs :
          /\ a # b /\ tx[a] = "expense" /\ tx[b] = "expense"
          /\ a \notin work'[c].dropped /\ b \notin work'[c].dropped
          /\ DocumentedDuplicates(a, b)
          => Known(pairs \cup work'[c].rows, a, b)
    <3>1. pairs \cup work'[c].rows = seen.rows
      BY <1>3, <1>4
    <3>2. \A t \in Txs \ work'[c].dropped : tx[t] = seen.tx[t]
      BY <1>4
    <3> QED BY <1>3, <3>1, <3>2
  <2>3. \A a, b \in Txs :
          /\ a # b /\ tx'[a] = "expense" /\ tx'[b] = "expense"
          /\ a \notin work'[c].dropped /\ b \notin work'[c].dropped
          /\ DocumentedDuplicates(a, b)'
          => Known(pairs' \cup work'[c].rows, a, b)
    BY <1>2, <2>2, SameDocumented
  <2>4. \A a, b : Known(pairs \cup work[c].rows, a, b)' <=> Known(pairs' \cup work'[c].rows, a, b)
    BY DEF Known, Couple
  <2> QED BY <1>4, <2>1, <2>3, <2>4 DEF FindsAll, NoWork
<1>7. scan' # "done"
  BY <1>2
<1>8. ScanFindsAll'
  BY <1>7 DEF ScanFindsAll
<1> QED BY <1>2, <1>4, <1>5, <1>6, <1>8 DEF ScanInv

LEMMA ScanCommitInv ==
  ASSUME ScanInv, NEW c \in Callers, ScanCommit(c)
  PROVE  ScanInv'
<1>1. /\ work[c].kind = "scan" /\ work[c].rows \subseteq Couples /\ Formed(work[c])
      /\ work' = [work EXCEPT ![c] = NoWork] /\ UNCHANGED <<mail, said, settled>>
  BY DEF ScanCommit, Finish, ScanInv, Formed
<1>2. DOMAIN work' = Callers /\ \A o \in Callers : work'[o] = work[o] \/ work'[o] = NoWork
  BY <1>1 DEF ScanInv
<1>3. \A o \in Callers : Formed(work[o])'
  BY <1>2 DEF Formed, NoWork, ScanInv
<1>4. CASE scan' = "none" /\ UNCHANGED <<tx, pairs>>
  <2>1. ScanFindsAll'
    BY <1>4 DEF ScanFindsAll
  <2> QED BY <1>1, <1>2, <1>3, <1>4, <2>1 DEF ScanInv
<1>5. CASE /\ pairs' = pairs \cup work[c].rows
           /\ tx' = [t \in Txs |-> IF t \in work[c].dropped THEN "ignore" ELSE tx[t]]
           /\ scan' = IF scan = "alone" THEN "done" ELSE "none"
  <2>1. pairs' \subseteq Couples /\ tx' \in [Txs -> Marks] /\ scan' # "alone"
    BY <1>1, <1>5 DEF ScanInv, Marks
  <2>2. scan = "alone" => FindsAll(c)
    <3>1. NoWork.kind # "scan"
      BY DEF NoWork
    <3> QED BY <1>1, <3>1 DEF ScanInv, FindsAll
  <2>3. ASSUME scan = "alone", NEW a \in Txs, NEW b \in Txs, a # b,
               tx'[a] = "expense", tx'[b] = "expense", DocumentedDuplicates(a, b)'
        PROVE  \E r \in pairs' : Couple(r) = {a, b}
    <3>1. /\ tx[a] = "expense" /\ tx[b] = "expense"
          /\ a \notin work[c].dropped /\ b \notin work[c].dropped
      BY <1>5, <2>3
    <3>2. DocumentedDuplicates(a, b)
      BY <1>1, <2>3, SameDocumented
    <3>3. Known(pairs \cup work[c].rows, a, b)
      BY <2>2, <2>3, <3>1, <3>2 DEF FindsAll
    <3> QED BY <1>5, <3>3 DEF Known
  <2>4. ScanFindsAll'
    <3> SUFFICES ASSUME scan' = "done", NEW a \in Txs, NEW b \in Txs, a # b,
                        tx'[a] = "expense", tx'[b] = "expense", DocumentedDuplicates(a, b)'
                 PROVE  (\E r \in pairs : Couple(r) = {a, b})'
      BY DEF ScanFindsAll
    <3>1. scan = "alone"
      BY <1>5
    <3>2. \E r \in pairs' : Couple(r) = {a, b}
      BY <2>3, <3>1
    <3> QED BY <3>2 DEF Couple
  <2> QED BY <1>1, <1>2, <1>3, <2>1, <2>4 DEF ScanInv
<1> QED BY <1>4, <1>5 DEF ScanCommit

LEMMA ResolveScanInv ==
  ASSUME ScanInv, NEW c \in Callers, Resolve(c)
  PROVE  ScanInv'
<1>1. PICK pair \in pairs, verdict \in {"confirmed", "dismissed"} : \E keep \in Couple(pair) :
        work' = [work EXCEPT ![c] = [kind |-> "resolve", p |-> pair.p, d |-> pair.d, now |-> pair.p,
                                     keep |-> keep, verdict |-> verdict, rule |-> rule]]
  BY DEF Resolve
<1>2. PICK keep \in Couple(pair) :
        work' = [work EXCEPT ![c] = [kind |-> "resolve", p |-> pair.p, d |-> pair.d, now |-> pair.p,
                                     keep |-> keep, verdict |-> verdict, rule |-> rule]]
  BY <1>1
<1> DEFINE w == [kind |-> "resolve", p |-> pair.p, d |-> pair.d, now |-> pair.p,
                 keep |-> keep, verdict |-> verdict, rule |-> rule]
<1>3. pair \in Couples /\ pair.p \in Txs /\ pair.d \in Txs /\ keep \in Txs
  BY DEF ScanInv, Couples, Couple
<1>4. Formed(w)
  BY <1>3 DEF Formed, ResolveFields
<1>5. DOMAIN work' = Callers /\ \A o \in Callers : work'[o] = work[o] \/ work'[o] = w
  BY <1>2 DEF ScanInv
<1> HIDE DEF w
<1>6. \A o \in Callers : Formed(work'[o])
  BY <1>4, <1>5 DEF ScanInv
<1>7. Disturb /\ UNCHANGED <<mail, tx, pairs, said, settled>>
  BY DEF Resolve
<1> QED BY <1>5, <1>6, <1>7, DisturbInv DEF ScanInv

LEMMA VerdictScanInv ==
  ASSUME ScanInv, NEW c \in Callers, ResolveCommit(c)
  PROVE  ScanInv'
<1> DEFINE w == work[c]
<1>1. /\ w.kind = "resolve" /\ Formed(w) /\ Disturb /\ UNCHANGED mail
      /\ w.p \in Txs /\ w.d \in Txs /\ w.now \in Txs /\ w.keep \in Txs
      /\ w.verdict \in {"confirmed", "dismissed"}
  BY DEF ResolveCommit, ScanInv, Formed
<1>2. CASE Finish(c) /\ UNCHANGED <<tx, pairs, rule, said, settled>>
  <2>1. DOMAIN work' = Callers /\ \A o \in Callers : work'[o] = work[o] \/ work'[o] = NoWork
    BY <1>2 DEF Finish, ScanInv
  <2>2. Formed(NoWork)
    BY DEF Formed, NoWork
  <2>3. \A o \in Callers : Formed(work'[o])
    BY <2>1, <2>2 DEF ScanInv
  <2> QED BY <1>1, <1>2, <2>1, <2>3, DisturbInv DEF ScanInv
<1>3. CASE Commits(w) /\ said.more < MaxVerdicts /\ Moved(c)
  <2> DEFINE after == (pairs \ RowOf(w)) \cup {[p |-> First(w), d |-> w.d, status |-> w.verdict]}
             gone == Discarded(w)
             given == IF Learns(w) /\ w.verdict = "confirmed" THEN 1 ELSE 0
  <2>1. \/ pairs' = after /\ settled' = settled \cup {{w.p, w.d}} /\ UNCHANGED tx
        \/ /\ pairs' = {r \in after : gone \notin Couple(r)}
           /\ tx' = [tx EXCEPT ![gone] = "deleted"] /\ UNCHANGED settled
    BY <1>3 DEF ResolveCommit
  <2>2. First(w) \in Txs /\ gone \in Txs
    BY <1>1 DEF First, Discarded
  <2>3. after \subseteq Couples
    BY <1>1, <2>2 DEF ScanInv, Couples
  <2>4. pairs' \subseteq Couples /\ settled' \subseteq SUBSET Txs
    BY <1>1, <2>1, <2>3 DEF ScanInv
  <2>5. tx' \in [Txs -> Marks]
    BY <2>1, <2>2 DEF ScanInv, Marks
  <2>6. said' = [yes |-> said.yes + given, more |-> said.more + 1]
    BY <1>3 DEF ResolveCommit
  <2>7. DOMAIN said' = {"yes", "more"} /\ said'.more \in 0 .. MaxVerdicts
    <3>1. DOMAIN said' = {"yes", "more"} /\ said'.more = said.more + 1
      BY <2>6
    <3> QED BY <1>3, <3>1, DedupAssumption DEF ScanInv
  <2>8. /\ DOMAIN work' = Callers
        /\ \A o \in Callers : \/ work'[o] \in {work[o], NoWork}
                              \/ /\ work[o].kind = "resolve"
                                 /\ work'[o] = [work[o] EXCEPT !.now = First(w)]
    BY <1>3 DEF Moved
  <2>9. ASSUME NEW o \in Callers PROVE Formed(work'[o])
    <3>1. CASE work'[o] \in {work[o], NoWork}
      BY <3>1 DEF Formed, NoWork, ScanInv
    <3>2. CASE work[o].kind = "resolve" /\ work'[o] = [work[o] EXCEPT !.now = First(w)]
      <4>1. Formed(work[o])
        BY DEF ScanInv
      <4>2. /\ DOMAIN work'[o] = ResolveFields /\ work'[o].kind = "resolve"
            /\ work'[o].p = work[o].p /\ work'[o].d = work[o].d /\ work'[o].now = First(w)
            /\ work'[o].keep = work[o].keep /\ work'[o].verdict = work[o].verdict
        BY <3>2, <4>1 DEF Formed, ResolveFields
      <4> QED BY <2>2, <3>2, <4>1, <4>2 DEF Formed
    <3> QED BY <2>8, <3>1, <3>2
  <2> QED BY <1>1, <2>4, <2>5, <2>7, <2>8, <2>9, DisturbInv
<1> QED BY <1>2, <1>3 DEF ResolveCommit

LEMMA ReopenScanInv ==
  ASSUME ScanInv, NEW pair \in pairs, Reopen(pair)
  PROVE  ScanInv'
<1>1. /\ said.more < MaxVerdicts /\ said' = [said EXCEPT !.more = @ + 1]
      /\ pairs' = (pairs \ {pair}) \cup {[pair EXCEPT !.status = "pending"]}
      /\ settled' = settled \ {Couple(pair)}
      /\ Disturb /\ UNCHANGED <<mail, tx, rule, work>>
  BY DEF Reopen
<1>2. [pair EXCEPT !.status = "pending"] \in Couples
  BY DEF ScanInv, Couples
<1>3. pairs' \subseteq Couples /\ settled' \subseteq SUBSET Txs
  BY <1>1, <1>2 DEF ScanInv
<1>4. DOMAIN said' = {"yes", "more"} /\ said'.more = said.more + 1
  BY <1>1 DEF ScanInv
<1>5. said'.more \in 0 .. MaxVerdicts
  BY <1>1, <1>4, DedupAssumption DEF ScanInv
<1>6. \A o \in Callers : Formed(work'[o])
  BY <1>1 DEF ScanInv
<1> QED BY <1>1, <1>3, <1>4, <1>5, <1>6, DisturbInv DEF ScanInv

LEMMA ScanStepInv == ScanInv /\ [DdNext]_ddVars => ScanInv'
<1> SUFFICES ASSUME ScanInv, [DdNext]_ddVars PROVE ScanInv'
  OBVIOUS
<1>1. ASSUME NEW t \in Txs, Import(t) PROVE ScanInv'
  <2>1. BatchRows({t}) \subseteq Couples
    BY BatchCouples
  <2>2. /\ pairs' \subseteq Couples /\ tx' \in [Txs -> Marks]
        /\ Disturb /\ UNCHANGED <<mail, rule, work, said, settled>>
    BY <1>1, <2>1 DEF Import, ScanInv, Marks
  <2>3. \A o \in Callers : Formed(work'[o])
    BY <2>2 DEF ScanInv
  <2> QED BY <2>2, <2>3, DisturbInv DEF ScanInv
<1>2. CASE BulkDetect
  <2> DEFINE ts == {t \in Txs : tx[t] \in {"expense", "ignore"}}
  <2>1. BatchRows(ts) \subseteq Couples
    BY BatchCouples
  <2>2. /\ pairs' \subseteq Couples
        /\ Disturb /\ UNCHANGED <<mail, tx, rule, work, said, settled>>
    BY <1>2, <2>1 DEF BulkDetect, ScanInv
  <2>3. \A o \in Callers : Formed(work'[o])
    BY <2>2 DEF ScanInv
  <2> QED BY <2>2, <2>3, DisturbInv DEF ScanInv
<1>3. CASE UNCHANGED ddVars
  <2>1. UNCHANGED <<mail, tx, pairs, work, said, settled, scan>>
    BY <1>3 DEF ddVars
  <2>2. ScanFindsAll'
    BY <2>1, SameDocumented DEF ScanInv, ScanFindsAll, Couple
  <2>3. \A c \in Callers : FindsAll(c)' <=> FindsAll(c)
    <3>1. \A c \in Callers, a, b \in Txs :
            Known(pairs \cup work[c].rows, a, b)' <=> Known(pairs \cup work[c].rows, a, b)
      BY <2>1 DEF Known, Couple
    <3> QED BY <2>1, <3>1, SameDocumented DEF FindsAll, NoWork
  <2>4. \A c \in Callers : Formed(work[c])' <=> Formed(work[c])
    BY <2>1 DEF Formed
  <2> QED BY <2>1, <2>2, <2>3, <2>4 DEF ScanInv
<1> QED BY <1>1, <1>2, <1>3, BeginScanInv, ScanCommitInv, ResolveScanInv, VerdictScanInv, ReopenScanInv
        DEF DdNext

LEMMA ScanInvTyped == ScanInv => DdTypeOK
<1> SUFFICES ASSUME ScanInv PROVE DdTypeOK
  OBVIOUS
<1>1. tx \in [Txs -> {"absent", "expense", "ignore", "deleted"}]
  BY DEF ScanInv, Marks
<1>2. \A r \in pairs : /\ Couple(r) \subseteq Txs
                      /\ r.status \in {"pending", "confirmed", "dismissed", "auto_resolved"}
  BY DEF ScanInv, Couples, Couple
<1> QED BY <1>1, <1>2 DEF DdTypeOK, ScanInv

(* A scan that nothing disturbed leaves no two counted expenses that the    *)
(* README calls duplicates without a pair, for any number of transactions,  *)
(* any e-mails and every order of the query, whatever its passes drop on    *)
(* the way (sync/__init__.py, service.py); and rows, calls under way and    *)
(* what the user has settled keep their form.                               *)
THEOREM ScansFindAll == DdSpec => [](DdTypeOK /\ ScanFindsAll)
<1>1. ScanInv => DdTypeOK /\ ScanFindsAll
  BY ScanInvTyped DEF ScanInv
<1> QED BY <1>1, ScanInitInv, ScanStepInv, PTL DEF DdSpec

-----------------------------------------------------------------------------
(* The progress of jobs.  Dicts of different users are apart: neither the   *)
(* present one nor one a job holds is another user's present one.           *)
JobRecs == [pc : {"idle", "begun", "running", "returned", "raised"}, prog : Dicts \cup {NoDict}]
Apart ==
  /\ \A u, v \in Users : u # v => mem[u] = NoDict \/ mem[u] # mem[v]
  /\ \A k \in Jobs, u \in Users : OwnerOf[k] # u /\ mem[u] # NoDict => job[k].prog # mem[u]
  /\ \A k \in Jobs : job[k].pc # "idle" => mem[OwnerOf[k]] # NoDict
  /\ \A k \in Jobs : job[k].pc \notin {"idle", "begun"} => job[k].prog # NoDict

(* Whoever will say that the present dict of a user runs no more: a sync    *)
(* that has yet to take a dict takes this one, or a job holds it.           *)
Answering(k, u) ==
  /\ OwnerOf[k] = u
  /\ job[k].pc = "begun" \/ (job[k].pc # "idle" /\ job[k].prog = mem[u])
Answered ==
  \A u \in Users : mem[u] # NoDict /\ heap[mem[u]].running =>
    u \in abandoned \/ \E k \in Jobs : Answering(k, u)

(* Rows of an earlier process that say running are those the recovery has   *)
(* selected, until it commits.                                              *)
Recovering ==
  /\ startup.pc = "commit" => \A u \in old : row[u].running => u \in startup.stale
  /\ startup.pc = "done" => \A u \in old : ~row[u].running

Holds(q) == q \in Seq(Items) /\ Len(q) <= QueueSize
Writing == writer.pc = "write" => writer.batch # <<>>

PgInv == PgTypeOK /\ Apart /\ Answered /\ ActiveIsShown /\ Recovering /\ Writing

LEMMA PgInitInv == PgInit => PgInv
<1> SUFFICES ASSUME PgInit PROVE PgInv
  OBVIOUS
<1>1. /\ heap \in [Dicts -> Progress] /\ mem = [u \in Users |-> NoDict]
      /\ row \in [Users -> Progress \cup {NoRow}] /\ old = {}
      /\ startup = [pc |-> "new", stale |-> {}]
      /\ job = IdleJobs
  BY DEF PgInit, Default, Progress, Phases
<1>2. \A k \in Jobs : job[k].pc = "idle" /\ job[k].prog = NoDict
  BY <1>1 DEF IdleJobs
<1>3. <<>> \in Seq(Items) /\ Len(<<>>) = 0 /\ 0 <= QueueSize
  BY EmptySeq, ProgressAssumption
<1>4. writer \in [pc : {"off", "get", "write", "dead"}, pending : Seq(Items),
                  batch : Seq(Items), bound : BOOLEAN]
  BY <1>3 DEF PgInit, NewWriter
<1>5. PgTypeOK
  BY <1>1, <1>3, <1>4, ProgressAssumption DEF PgInit, PgTypeOK, IdleJobs
<1>6. Apart /\ Answered /\ ActiveIsShown /\ Recovering
  BY <1>1, <1>2 DEF Apart, Answered, ActiveIsShown, Recovering
<1>7. Writing
  BY DEF PgInit, NewWriter, Writing
<1> QED BY <1>7, <1>5, <1>6 DEF PgInv

LEMMA PutHolds ==
  ASSUME Holds(queue), NEW items \in Seq(Items)
  PROVE  Holds(Put(queue, items))
<1>1. /\ queue \o items \in Seq(Items) /\ QueueSize \in Nat \ {0}
      /\ Len(queue \o items) \in Nat
      /\ \A i \in 1 .. Len(queue \o items) : (queue \o items)[i] \in Items
  BY ProgressAssumption, ConcatProperties, LenProperties, ElementOfSeq DEF Holds
<1> DEFINE n == IF Len(queue \o items) < QueueSize THEN Len(queue \o items) ELSE QueueSize
<1>2. n \in Nat /\ n <= QueueSize /\ n <= Len(queue \o items)
  BY <1>1
<1>3. CASE startup.pc = "new"
  BY <1>3 DEF Put
<1>4. CASE startup.pc # "new"
  <2>1. Put(queue, items) = SubSeq(queue \o items, 1, n)
    BY <1>4 DEF Put
  <2> HIDE DEF n
  <2>2. \A i \in 1 .. n : (queue \o items)[i] \in Items
    BY <1>1, <1>2
  <2>3. /\ SubSeq(queue \o items, 1, n) \in Seq(Items)
        /\ Len(SubSeq(queue \o items, 1, n)) = IF 1 <= n THEN n - 1 + 1 ELSE 0
    BY <1>2, <2>2, SubSeqProperties
  <2> QED BY <1>1, <1>2, <2>1, <2>3 DEF Holds
<1> QED BY <1>3, <1>4

(* What a step of a job that runs may write.                                *)
Said(told) == told = <<>> \/ \E p \in Progress : told = <<p>>

LEMMA ChangeWrites ==
  ASSUME PgInv, NEW j \in Jobs, job[j].pc # "idle",
         NEW mine, NEW theirs, NEW logs \in Nat, Change(j, mine, theirs, logs),
         Said(mine), Said(theirs)
  PROVE  /\ heap' \in [Dicts -> Progress] /\ Holds(queue')
         /\ UNCHANGED <<mem, writer, dbVars, startup, stops>>
         /\ mem[OwnerOf[j]] \in Dicts
         /\ \A d \in Dicts : d \notin {mem[OwnerOf[j]], job[j].prog} => heap'[d] = heap[d]
         /\ theirs = <<>> /\ mine = <<>> => heap' = heap
         /\ theirs = <<>> /\ job[j].prog # mem[OwnerOf[j]]
              => heap'[mem[OwnerOf[j]]] = heap[mem[OwnerOf[j]]]
         /\ \A p \in Progress : theirs = <<p>> => heap'[mem[OwnerOf[j]]] = p
         /\ \A p \in Progress : theirs = <<>> /\ mine = <<p>> /\ job[j].prog = mem[OwnerOf[j]]
              => heap'[mem[OwnerOf[j]]] = p
<1> DEFINE u == OwnerOf[j]
<1>1. u \in Users /\ mem[u] \in Dicts /\ heap \in [Dicts -> Progress] /\ Holds(queue)
  BY ProgressAssumption DEF PgInv, PgTypeOK, Apart, Holds
<1>2. /\ \A p \in Progress : <<p>> # <<>> /\ Head(<<p>>) = p
      /\ mine # <<>> => Head(mine) \in Progress
      /\ theirs # <<>> => Head(theirs) \in Progress
  BY DEF Said
<1>3. /\ DOMAIN heap' = Dicts
      /\ heap' = [d \in Dicts |-> IF d = mem[u] /\ theirs # <<>> THEN Head(theirs)
                                  ELSE IF d = job[j].prog /\ mine # <<>> THEN Head(mine)
                                  ELSE heap[d]]
      /\ queue' = Put(queue, [i \in 1 .. logs |-> <<u, mem[u]>>])
      /\ UNCHANGED <<mem, writer, dbVars, startup, stops>>
  BY DEF Change
<1>4. heap' \in [Dicts -> Progress]
  BY <1>1, <1>2, <1>3
<1>5. [i \in 1 .. logs |-> <<u, mem[u]>>] \in Seq(Items)
  <2>1. <<u, mem[u]>> \in Items
    BY <1>1 DEF Items
  <2> QED BY <2>1, SeqDef
<1>6. Holds(queue')
  BY <1>1, <1>3, <1>5, PutHolds
<1> QED BY <1>1, <1>2, <1>3, <1>4, <1>6

(* A step of a job that runs touches the dict it holds and the present one  *)
(* of its user; what is left to see is that the latter tells the truth.     *)
LEMMA JobTouches ==
  ASSUME PgInv, NEW j \in Jobs, NEW q \in JobRecs,
         heap' \in [Dicts -> Progress], Holds(queue'),
         UNCHANGED <<mem, writer, dbVars, startup, stops>>,
         mem[OwnerOf[j]] # NoDict,
         \A d \in Dicts : d \notin {mem[OwnerOf[j]], job[j].prog} => heap'[d] = heap[d],
         job' = [job EXCEPT ![j] = q],
         q.prog \in {job[j].prog, mem[OwnerOf[j]], NoDict},
         q.pc \notin {"idle", "begun"} => q.prog # NoDict,
         abandoned \subseteq abandoned', abandoned' \subseteq Users, disturbed' \subseteq Jobs,
         \A k \in Jobs : OwnerOf[k] # OwnerOf[j] /\ k \in disturbed => k \in disturbed',
         heap'[mem[OwnerOf[j]]].running =>
           OwnerOf[j] \in abandoned' \/ \E k \in Jobs : Answering(k, OwnerOf[j])',
         \A k \in Jobs : OwnerOf[k] = OwnerOf[j] /\ job'[k].pc \in {"begun", "running"} =>
           k \in disturbed' \/ heap'[mem[OwnerOf[j]]].running
  PROVE  PgInv'
<1> DEFINE o == OwnerOf[j]
<1>1. o \in Users /\ OwnerOf \in [Jobs -> Users] /\ NoDict \notin Dicts
  BY ProgressAssumption
<1>2. job \in [Jobs -> JobRecs] /\ mem \in [Users -> Dicts \cup {NoDict}]
  BY DEF PgInv, PgTypeOK, JobRecs
<1>3. job' \in [Jobs -> JobRecs] /\ job'[j] = q /\ \A k \in Jobs : k # j => job'[k] = job[k]
  BY <1>2
<1>4. PgTypeOK'
  BY <1>3 DEF PgInv, PgTypeOK, Holds, JobRecs, dbVars
<1>5. Apart'
  BY <1>1, <1>2, <1>3 DEF PgInv, Apart
<1>6. ASSUME NEW v \in Users, v # o, mem[v] # NoDict
      PROVE  heap'[mem[v]] = heap[mem[v]]
  BY <1>1, <1>2, <1>6 DEF PgInv, Apart
<1>7. Answered'
  <2> SUFFICES ASSUME NEW v \in Users, mem[v] # NoDict, heap'[mem[v]].running
               PROVE  v \in abandoned' \/ \E k \in Jobs : Answering(k, v)'
    BY DEF Answered
  <2>1. CASE v = o
    BY <2>1
  <2>2. CASE v # o
    <3>1. v \in abandoned \/ \E k \in Jobs : Answering(k, v)
      BY <1>6, <2>2 DEF PgInv, Answered
    <3>2. ASSUME NEW k \in Jobs, Answering(k, v) PROVE Answering(k, v)'
      BY <1>3, <2>2, <3>2 DEF Answering
    <3> QED BY <3>1, <3>2
  <2> QED BY <2>1, <2>2
<1>8. ActiveIsShown'
  <2> SUFFICES ASSUME NEW k \in Jobs, job'[k].pc \in {"begun", "running"}
               PROVE  k \in disturbed' \/ heap'[mem[OwnerOf[k]]].running
    BY DEF ActiveIsShown
  <2>1. CASE OwnerOf[k] = o
    BY <2>1
  <2>2. CASE OwnerOf[k] # o
    <3>1. k # j /\ job'[k] = job[k] /\ OwnerOf[k] \in Users
      BY <1>1, <1>3, <2>2
    <3>2. mem[OwnerOf[k]] # NoDict /\ heap'[mem[OwnerOf[k]]] = heap[mem[OwnerOf[k]]]
      BY <1>6, <2>2, <3>1 DEF PgInv, Apart
    <3> QED BY <2>2, <3>1, <3>2 DEF PgInv, ActiveIsShown
  <2> QED BY <2>1, <2>2
<1>9. Recovering' /\ Writing'
  BY DEF PgInv, Recovering, Writing, dbVars
<1> QED BY <1>4, <1>5, <1>7, <1>8, <1>9 DEF PgInv

(* A job that says that it ends, or whose handler says so: the present dict *)
(* runs no more, or another job answers for it.                             *)
LEMMA SaysEnd ==
  ASSUME PgInv, NEW j \in Jobs, NEW q \in JobRecs, job[j].pc # "idle",
         NEW mine, NEW theirs, NEW logs \in Nat, Change(j, mine, theirs, logs),
         Said(mine), Said(theirs),
         \/ \E p \in Progress : theirs = <<p>> /\ ~p.running
         \/ theirs = <<>> /\ job[j].pc = "running" /\ job[j].prog # mem[OwnerOf[j]],
         job' = [job EXCEPT ![j] = q],
         q \in {[job[j] EXCEPT !.pc = "returned"], IdleJobs[j]},
         job[j].pc = "begun" => q = IdleJobs[j],
         UNCHANGED abandoned,
         disturbed' \in {disturbed \cup Others(j), (disturbed \ {j}) \cup Others(j)}
  PROVE  PgInv'
<1> DEFINE o == OwnerOf[j]
<1>1. /\ heap' \in [Dicts -> Progress] /\ Holds(queue')
      /\ UNCHANGED <<mem, writer, dbVars, startup, stops>>
      /\ mem[o] \in Dicts
      /\ \A d \in Dicts : d \notin {mem[o], job[j].prog} => heap'[d] = heap[d]
      /\ theirs = <<>> /\ job[j].prog # mem[o] => heap'[mem[o]] = heap[mem[o]]
      /\ \A p \in Progress : theirs = <<p>> => heap'[mem[o]] = p
  BY ChangeWrites
<1>2. /\ job[j] \in JobRecs /\ job \in [Jobs -> JobRecs] /\ mem[o] # NoDict
      /\ job[j].pc \notin {"idle", "begun"} => job[j].prog # NoDict
      /\ o \in Users /\ abandoned' \subseteq Users /\ disturbed' \subseteq Jobs
  BY <1>1, ProgressAssumption DEF PgInv, PgTypeOK, JobRecs, Apart, Others
<1>3. /\ q.pc \in {"idle", "returned"} /\ q.prog \in {job[j].prog, NoDict}
      /\ q.pc \notin {"idle", "begun"} => q.prog # NoDict
  BY <1>2 DEF IdleJobs, JobRecs
<1>4. heap'[mem[o]].running => o \in abandoned' \/ \E k \in Jobs : Answering(k, o)'
  <2> SUFFICES ASSUME heap'[mem[o]].running
               PROVE  o \in abandoned \/ \E k \in Jobs : Answering(k, o)'
    OBVIOUS
  <2>1. theirs = <<>> /\ job[j].pc = "running" /\ job[j].prog # mem[o] /\ heap[mem[o]].running
    BY <1>1
  <2>2. o \in abandoned \/ \E k \in Jobs : Answering(k, o)
    BY <1>2, <2>1 DEF PgInv, Answered
  <2>3. ASSUME NEW k \in Jobs, Answering(k, o) PROVE Answering(k, o)'
    <3>1. k # j
      BY <2>1, <2>3 DEF Answering
    <3>2. job'[k] = job[k]
      BY <1>2, <3>1
    <3> QED BY <1>1, <2>3, <3>2 DEF Answering
  <2> QED BY <2>2, <2>3
<1>5. \A k \in Jobs : OwnerOf[k] = o /\ job'[k].pc \in {"begun", "running"} =>
        k \in disturbed' \/ heap'[mem[o]].running
  <2> SUFFICES ASSUME NEW k \in Jobs, OwnerOf[k] = o, job'[k].pc \in {"begun", "running"}
               PROVE  k \in disturbed'
    OBVIOUS
  <2>1. k # j /\ job'[k] = job[k]
    BY <1>2, <1>3
  <2> QED BY <2>1 DEF Others, Active
<1>6. \A k \in Jobs : OwnerOf[k] # o /\ k \in disturbed => k \in disturbed'
  OBVIOUS
<1> QED BY <1>1, <1>2, <1>3, <1>4, <1>5, <1>6, JobTouches

(* A job that goes on, or ends without a word: whether the present dict     *)
(* says running stays as it was.                                            *)
Tells(j, mine) ==
  \/ mine = <<>>
  \/ /\ job[j].pc = "running"
     /\ \E ph \in Phases : mine = <<[heap[job[j].prog] EXCEPT !.phase = ph]>>

LEMMA GoesOn ==
  ASSUME PgInv, NEW j \in Jobs, job[j].pc # "idle",
         NEW mine, NEW logs \in Nat, Change(j, mine, <<>>, logs), Tells(j, mine),
         NEW q \in JobRecs, job' = [job EXCEPT ![j] = q],
         \/ /\ job[j].pc = "running" /\ q.prog = job[j].prog /\ q.pc \in {"running", "raised"}
            /\ UNCHANGED <<abandoned, disturbed>>
         \/ /\ q = IdleJobs[j]
            /\ abandoned' = abandoned \cup {OwnerOf[j]} /\ disturbed' = disturbed \ {j}
  PROVE  PgInv'
<1> DEFINE o == OwnerOf[j]
<1>1. /\ job[j] \in JobRecs /\ job \in [Jobs -> JobRecs] /\ mem[o] # NoDict
      /\ job[j].pc \notin {"idle", "begun"} => job[j].prog # NoDict
      /\ o \in Users /\ abandoned \subseteq Users /\ disturbed \subseteq Jobs
      /\ heap \in [Dicts -> Progress] /\ mem[o] \in Dicts
  BY ProgressAssumption DEF PgInv, PgTypeOK, JobRecs, Apart
<1>2. ASSUME NEW ph \in Phases, mine = <<[heap[job[j].prog] EXCEPT !.phase = ph]>>,
             job[j].pc = "running"
      PROVE  \E p \in Progress : mine = <<p>> /\ p.running = heap[job[j].prog].running
  <2>1. job[j].prog \in Dicts /\ heap[job[j].prog] \in Progress
    BY <1>1, <1>2 DEF JobRecs
  <2>2. [heap[job[j].prog] EXCEPT !.phase = ph] \in Progress
    BY <2>1 DEF Progress
  <2>3. [heap[job[j].prog] EXCEPT !.phase = ph].running = heap[job[j].prog].running
    BY <2>1 DEF Progress
  <2> QED BY <1>2, <2>2, <2>3
<1>3. \/ mine = <<>>
      \/ \E p \in Progress : mine = <<p>> /\ p.running = heap[job[j].prog].running
  BY <1>2 DEF Tells
<1>4. /\ heap' \in [Dicts -> Progress] /\ Holds(queue')
      /\ UNCHANGED <<mem, writer, dbVars, startup, stops>>
      /\ \A d \in Dicts : d \notin {mem[o], job[j].prog} => heap'[d] = heap[d]
      /\ mine = <<>> => heap' = heap
      /\ job[j].prog # mem[o] => heap'[mem[o]] = heap[mem[o]]
      /\ \A p \in Progress : mine = <<p>> /\ job[j].prog = mem[o] => heap'[mem[o]] = p
  BY <1>3, ChangeWrites DEF Said
<1>5. heap'[mem[o]].running = heap[mem[o]].running
  BY <1>3, <1>4
<1>6. /\ q.prog \in {job[j].prog, NoDict}
      /\ q.pc \notin {"idle", "begun"} => q.prog # NoDict
      /\ abandoned \subseteq abandoned' /\ abandoned' \subseteq Users /\ disturbed' \subseteq Jobs
      /\ \A k \in Jobs : OwnerOf[k] # o /\ k \in disturbed => k \in disturbed'
      /\ job'[j] = q /\ \A k \in Jobs : k # j => job'[k] = job[k]
  BY <1>1 DEF IdleJobs
<1>7. heap'[mem[o]].running => o \in abandoned' \/ \E k \in Jobs : Answering(k, o)'
  <2> SUFFICES ASSUME heap'[mem[o]].running, o \notin abandoned'
               PROVE  \E k \in Jobs : Answering(k, o)'
    OBVIOUS
  <2>1. /\ job[j].pc = "running" /\ q.prog = job[j].prog /\ q.pc \in {"running", "raised"}
        /\ o \notin abandoned
    BY <1>6
  <2>2. PICK k \in Jobs : Answering(k, o)
    BY <1>1, <1>5, <2>1 DEF PgInv, Answered
  <2>3. Answering(k, o)'
    BY <1>4, <1>6, <2>1, <2>2 DEF Answering
  <2> QED BY <2>3
<1>8. \A k \in Jobs : OwnerOf[k] = o /\ job'[k].pc \in {"begun", "running"} =>
        k \in disturbed' \/ heap'[mem[o]].running
  <2> SUFFICES ASSUME NEW k \in Jobs, OwnerOf[k] = o, job'[k].pc \in {"begun", "running"}
               PROVE  k \in disturbed' \/ heap'[mem[o]].running
    OBVIOUS
  <2>1. job[k].pc \in {"begun", "running"}
    BY <1>6 DEF IdleJobs
  <2>2. k \in disturbed \/ heap[mem[o]].running
    BY <2>1 DEF PgInv, ActiveIsShown
  <2>3. k \in disturbed => k \in disturbed'
    BY <1>6 DEF IdleJobs
  <2> QED BY <1>5, <2>2, <2>3
<1> QED BY <1>1, <1>4, <1>6, <1>7, <1>8, JobTouches

LEMMA CaptureInv ==
  ASSUME PgInv, NEW j \in Jobs, Capture(j)
  PROVE  PgInv'
<1> DEFINE o == OwnerOf[j]
           q == [pc |-> "running", prog |-> mem[o]]
<1>1. /\ job[j].pc = "begun" /\ job' = [job EXCEPT ![j] = q]
      /\ UNCHANGED <<abandoned, disturbed, heap, mem, queue, writer, dbVars, startup, stops>>
  BY DEF Capture
<1>2. /\ job \in [Jobs -> JobRecs] /\ mem[o] # NoDict /\ mem[o] \in Dicts /\ o \in Users
      /\ abandoned \subseteq Users /\ disturbed \subseteq Jobs
      /\ heap \in [Dicts -> Progress] /\ Holds(queue)
  BY <1>1, ProgressAssumption DEF PgInv, PgTypeOK, JobRecs, Apart, Holds
<1>3. q \in JobRecs /\ q.prog = mem[o] /\ q.pc = "running"
  BY <1>2 DEF JobRecs
<1>4. job'[j] = q /\ \A k \in Jobs : k # j => job'[k] = job[k]
  BY <1>1, <1>2
<1>5. heap'[mem[o]].running => o \in abandoned' \/ \E k \in Jobs : Answering(k, o)'
  <2> SUFFICES ASSUME heap'[mem[o]].running PROVE Answering(j, o)'
    OBVIOUS
  <2> QED BY <1>1, <1>3, <1>4 DEF Answering
<1>6. \A k \in Jobs : OwnerOf[k] = o /\ job'[k].pc \in {"begun", "running"} =>
        k \in disturbed' \/ heap'[mem[o]].running
  BY <1>1, <1>4 DEF PgInv, ActiveIsShown
<1>7. /\ heap' \in [Dicts -> Progress] /\ Holds(queue')
      /\ UNCHANGED <<mem, writer, dbVars, startup, stops>>
      /\ \A d \in Dicts : d \notin {mem[o], job[j].prog} => heap'[d] = heap[d]
      /\ abandoned \subseteq abandoned' /\ abandoned' \subseteq Users /\ disturbed' \subseteq Jobs
      /\ \A k \in Jobs : OwnerOf[k] # o /\ k \in disturbed => k \in disturbed'
  BY <1>1, <1>2 DEF Holds
<1> HIDE DEF q
<1>8. q.prog \in {job[j].prog, mem[o], NoDict} /\ (q.pc \notin {"idle", "begun"} => q.prog # NoDict)
  BY <1>2, <1>3
<1> QED BY <1>1, <1>2, <1>3, <1>5, <1>6, <1>7, <1>8, JobTouches

(* A dict that nothing refers to is nobody's present dict and held by no    *)
(* job.                                                                     *)
LEMMA FreeIsNew ==
  ASSUME NEW d \in Free
  PROVE  d \in Dicts /\ (\A u \in Users : mem[u] # d) /\ (\A k \in Jobs : job[k].prog # d)
BY DEF Free, Held

LEMMA PollInv ==
  ASSUME PgInv, NEW o \in Users, Poll(o)
  PROVE  PgInv'
<1>1. PICK d \in Free : /\ mem' = [mem EXCEPT ![o] = d]
                        /\ heap' = [heap EXCEPT ![d] = Default]
  BY DEF Poll
<1>2. /\ mem[o] = NoDict
      /\ UNCHANGED <<queue, writer, dbVars, startup, stops, jobVars>>
  BY DEF Poll
<1>3. /\ d \in Dicts /\ (\A u \in Users : mem[u] # d) /\ (\A k \in Jobs : job[k].prog # d)
      /\ d # NoDict /\ OwnerOf \in [Jobs -> Users]
  BY FreeIsNew, ProgressAssumption
<1>4. heap \in [Dicts -> Progress] /\ mem \in [Users -> Dicts \cup {NoDict}] /\ Default \in Progress
      /\ ~Default.running
  BY DEF PgInv, PgTypeOK, Default, Progress, Phases
<1>5. PgTypeOK'
  <2>1. heap' \in [Dicts -> Progress] /\ mem' \in [Users -> Dicts \cup {NoDict}]
    BY <1>1, <1>3, <1>4
  <2> QED BY <1>2, <2>1 DEF PgInv, PgTypeOK, jobVars, dbVars
<1>6. /\ mem'[o] = d /\ \A u \in Users : u # o => mem'[u] = mem[u]
      /\ ~heap'[d].running /\ \A e \in Dicts : e # d => heap'[e] = heap[e]
  BY <1>1, <1>3, <1>4
<1>7. /\ job' = job /\ abandoned' = abandoned /\ disturbed' = disturbed
      /\ \A k \in Jobs : OwnerOf[k] = o => job[k].pc = "idle"
  BY <1>2 DEF jobVars, PgInv, Apart
<1>8. Apart'
  BY <1>3, <1>6, <1>7 DEF PgInv, Apart
<1>9. Answered'
  <2> SUFFICES ASSUME NEW v \in Users, mem'[v] # NoDict, heap'[mem'[v]].running
               PROVE  v \in abandoned \/ \E k \in Jobs : Answering(k, v)'
    BY <1>7 DEF Answered
  <2>1. v # o /\ mem'[v] = mem[v] /\ mem[v] \in Dicts /\ heap[mem[v]].running
    BY <1>3, <1>4, <1>6
  <2> QED BY <1>7, <2>1 DEF PgInv, Answered, Answering
<1>10. ActiveIsShown'
  <2> SUFFICES ASSUME NEW k \in Jobs, job[k].pc \in {"begun", "running"}
               PROVE  k \in disturbed \/ heap'[mem'[OwnerOf[k]]].running
    BY <1>7 DEF ActiveIsShown
  <2>1. OwnerOf[k] # o /\ OwnerOf[k] \in Users
    BY <1>3, <1>7
  <2>2. mem[OwnerOf[k]] \in Dicts /\ mem[OwnerOf[k]] # d
    BY <1>3, <1>4, <2>1 DEF PgInv, Apart
  <2> QED BY <1>6, <2>1, <2>2 DEF PgInv, ActiveIsShown
<1>11. Recovering' /\ Writing'
  BY <1>2 DEF PgInv, Recovering, Writing, dbVars
<1> QED BY <1>5, <1>8, <1>9, <1>10, <1>11 DEF PgInv

LEMMA BeginInv ==
  ASSUME PgInv, NEW j \in Jobs, Begin(j)
  PROVE  PgInv'
<1> DEFINE o == OwnerOf[j]
           q(d) == IF KindOf[j] = "sync" THEN [pc |-> "begun", prog |-> NoDict]
                   ELSE [pc |-> "running", prog |-> d]
<1>1. /\ ~Active(j) /\ abandoned' = abandoned \ {o}
      /\ UNCHANGED <<disturbed, writer, dbVars, startup, stops>>
  BY DEF Begin
<1>2. PICK f \in (IF mem[o] = NoDict THEN Free ELSE {mem[o]}) : \E d \in Free \ {f} :
         LET first == IF KindOf[j] \in {"sync", "range"} THEN <<<<o, f>>>> ELSE <<>>
         IN /\ heap' = [heap EXCEPT ![d] = Fresh, ![f] = IF mem[o] = NoDict THEN Default ELSE @]
            /\ mem' = [mem EXCEPT ![o] = d]
            /\ queue' = Put(queue, first \o <<<<o, d>>, <<o, d>>>>)
            /\ job' = [job EXCEPT ![j] =
                 IF KindOf[j] = "sync" THEN [pc |-> "begun", prog |-> NoDict]
                 ELSE [pc |-> "running", prog |-> d]]
  BY DEF Begin
<1>3. PICK d \in Free \ {f} :
         LET first == IF KindOf[j] \in {"sync", "range"} THEN <<<<o, f>>>> ELSE <<>>
         IN /\ heap' = [heap EXCEPT ![d] = Fresh, ![f] = IF mem[o] = NoDict THEN Default ELSE @]
            /\ mem' = [mem EXCEPT ![o] = d]
            /\ queue' = Put(queue, first \o <<<<o, d>>, <<o, d>>>>)
            /\ job' = [job EXCEPT ![j] = q(d)]
  BY <1>2
<1> DEFINE first == IF KindOf[j] \in {"sync", "range"} THEN <<<<o, f>>>> ELSE <<>>
<1>4. /\ heap' = [heap EXCEPT ![d] = Fresh, ![f] = IF mem[o] = NoDict THEN Default ELSE @]
      /\ mem' = [mem EXCEPT ![o] = d]
      /\ queue' = Put(queue, first \o <<<<o, d>>, <<o, d>>>>)
      /\ job' = [job EXCEPT ![j] = q(d)]
  BY <1>3
<1>5. /\ o \in Users /\ OwnerOf \in [Jobs -> Users] /\ NoDict \notin Dicts
      /\ heap \in [Dicts -> Progress] /\ mem \in [Users -> Dicts \cup {NoDict}]
      /\ job \in [Jobs -> JobRecs] /\ job[j].pc = "idle"
  BY <1>1, ProgressAssumption DEF PgInv, PgTypeOK, JobRecs, Active
<1>6. /\ d \in Dicts /\ (\A u \in Users : mem[u] # d) /\ (\A k \in Jobs : job[k].prog # d)
      /\ d # f
  BY FreeIsNew
<1>7. /\ f \in Dicts /\ (\A u \in Users : u # o => mem[u] # f)
      /\ mem[o] # NoDict => f = mem[o]
  <2>1. CASE mem[o] = NoDict
    BY <1>5, <2>1, FreeIsNew
  <2>2. CASE mem[o] # NoDict
    BY <1>5, <2>2 DEF PgInv, Apart
  <2> QED BY <2>1, <2>2
<1>8. /\ Default \in Progress /\ Fresh \in Progress /\ Fresh.running
  BY DEF Default, Fresh, Started, Progress, Phases
<1>9. /\ heap' \in [Dicts -> Progress] /\ heap'[d] = Fresh
      /\ \A e \in Dicts : e \notin {d, f} => heap'[e] = heap[e]
  BY <1>4, <1>5, <1>6, <1>7, <1>8
<1>10. /\ mem' \in [Users -> Dicts \cup {NoDict}] /\ mem'[o] = d
       /\ \A u \in Users : u # o => mem'[u] = mem[u]
  BY <1>4, <1>5, <1>6
<1>11. /\ q(d) \in JobRecs /\ q(d).pc # "idle" /\ q(d).prog \in {d, NoDict}
       /\ q(d).pc = "begun" \/ q(d).prog = d
       /\ q(d).pc \notin {"idle", "begun"} => q(d).prog # NoDict
  BY <1>5, <1>6 DEF JobRecs
<1> DEFINE qd == q(d)
<1> HIDE DEF qd, q, first
<1>12. /\ job' \in [Jobs -> JobRecs] /\ job'[j] = q(d)
       /\ \A k \in Jobs : k # j => job'[k] = job[k]
  BY <1>4, <1>5, <1>11
<1>13. Holds(queue')
  <2>1. <<o, f>> \in Items /\ <<o, d>> \in Items
    BY <1>5, <1>6, <1>7 DEF Items
  <2>2. first \in Seq(Items) /\ <<<<o, d>>, <<o, d>>>> \in Seq(Items)
    BY <2>1 DEF first
  <2>3. first \o <<<<o, d>>, <<o, d>>>> \in Seq(Items)
    BY <2>2, ConcatProperties
  <2> QED BY <1>4, <2>3, PutHolds DEF PgInv, PgTypeOK, Holds
<1>14. PgTypeOK'
  BY <1>1, <1>9, <1>10, <1>12, <1>13 DEF PgInv, PgTypeOK, Holds, JobRecs, dbVars
<1>15. Apart'
  <2>1. \A u, v \in Users : u # v => mem'[u] = NoDict \/ mem'[u] # mem'[v]
    BY <1>6, <1>10 DEF PgInv, Apart
  <2>2. \A k \in Jobs, u \in Users : OwnerOf[k] # u /\ mem'[u] # NoDict => job'[k].prog # mem'[u]
    BY <1>5, <1>6, <1>10, <1>11, <1>12 DEF PgInv, Apart
  <2>3. \A k \in Jobs : job'[k].pc # "idle" => mem'[OwnerOf[k]] # NoDict
    BY <1>5, <1>6, <1>10, <1>12 DEF PgInv, Apart
  <2>4. \A k \in Jobs : job'[k].pc \notin {"idle", "begun"} => job'[k].prog # NoDict
    BY <1>11, <1>12 DEF PgInv, Apart
  <2> QED BY <2>1, <2>2, <2>3, <2>4 DEF Apart
<1>16. ASSUME NEW v \in Users, v # o, mem[v] # NoDict
       PROVE  mem'[v] = mem[v] /\ heap'[mem'[v]] = heap[mem[v]]
  BY <1>5, <1>6, <1>7, <1>9, <1>10, <1>16
<1>17. Answered'
  <2> SUFFICES ASSUME NEW v \in Users, mem'[v] # NoDict, heap'[mem'[v]].running
               PROVE  v \in abandoned' \/ \E k \in Jobs : Answering(k, v)'
    BY DEF Answered
  <2>1. CASE v = o
    <3>1. Answering(j, v)'
      BY <1>10, <1>11, <1>12, <2>1 DEF Answering
    <3> QED BY <3>1
  <2>2. CASE v # o
    <3>1. mem'[v] = mem[v] /\ heap[mem[v]].running
      BY <1>10, <1>16, <2>2
    <3>2. v \in abandoned \/ \E k \in Jobs : Answering(k, v)
      BY <3>1 DEF PgInv, Answered
    <3>3. ASSUME NEW k \in Jobs, Answering(k, v) PROVE Answering(k, v)'
      BY <1>12, <2>2, <3>1, <3>3 DEF Answering
    <3> QED BY <1>1, <2>2, <3>2, <3>3
  <2> QED BY <2>1, <2>2
<1>18. ActiveIsShown'
  <2> SUFFICES ASSUME NEW k \in Jobs, job'[k].pc \in {"begun", "running"}
               PROVE  k \in disturbed \/ heap'[mem'[OwnerOf[k]]].running
    BY <1>1 DEF ActiveIsShown
  <2>1. CASE OwnerOf[k] = o
    BY <1>8, <1>9, <1>10, <2>1
  <2>2. CASE OwnerOf[k] # o
    <3>1. job'[k] = job[k] /\ mem[OwnerOf[k]] # NoDict /\ OwnerOf[k] \in Users
      BY <1>5, <1>12, <2>2 DEF PgInv, Apart
    <3>2. heap'[mem'[OwnerOf[k]]] = heap[mem[OwnerOf[k]]]
      BY <1>16, <2>2, <3>1
    <3> QED BY <3>1, <3>2 DEF PgInv, ActiveIsShown
  <2> QED BY <2>1, <2>2
<1>19. Recovering' /\ Writing'
  BY <1>1 DEF PgInv, Recovering, Writing, dbVars
<1> QED BY <1>14, <1>15, <1>17, <1>18, <1>19 DEF PgInv

LEMMA JobStepInv ==
  ASSUME PgInv, NEW j \in Jobs, JobStep(j)
  PROVE  PgInv'
<1> DEFINE o == OwnerOf[j]
<1>1. /\ job \in [Jobs -> JobRecs] /\ job[j] \in JobRecs /\ IdleJobs[j] \in JobRecs
      /\ \A pc \in {"running", "returned", "raised"} : [job[j] EXCEPT !.pc = pc] \in JobRecs
      /\ heap \in [Dicts -> Progress]
      /\ job[j].pc # "idle" => mem[o] \in Dicts /\ heap[mem[o]] \in Progress
  BY ProgressAssumption DEF PgInv, PgTypeOK, JobRecs, IdleJobs, Apart
<1>2. /\ Finished \in Progress /\ ~Finished.running /\ Failed \in Progress /\ ~Failed.running
      /\ Said(<<>>) /\ \A p \in Progress : Said(<<p>>)
  BY DEF Finished, Failed, Progress, Phases, Said
<1>3. CASE Begin(j)
  BY <1>3, BeginInv
<1>4. CASE Capture(j)
  BY <1>4, CaptureInv
<1>5. CASE Work(j)
  <2>1. /\ job[j].pc = "running" /\ Change(j, <<[heap[job[j].prog] EXCEPT !.phase = "busy"]>>, <<>>, 1)
        /\ job' = [job EXCEPT ![j].pc = "running"] /\ UNCHANGED <<abandoned, disturbed>>
    BY <1>5 DEF Work, Goes
  <2>2. Tells(j, <<[heap[job[j].prog] EXCEPT !.phase = "busy"]>>)
    BY <2>1 DEF Tells, Phases
  <2>3. job' = [job EXCEPT ![j] = [job[j] EXCEPT !.pc = "running"]]
    BY <1>1, <2>1
  <2>4. [job[j] EXCEPT !.pc = "running"].prog = job[j].prog /\ [job[j] EXCEPT !.pc = "running"].pc = "running"
    BY <1>1 DEF JobRecs
  <2> QED BY <1>1, <2>1, <2>2, <2>3, <2>4, GoesOn
<1>6. CASE Raise(j)
  <2>1. job[j].pc = "running" /\ Tells(j, <<>>)
        /\ Tells(j, <<[heap[job[j].prog] EXCEPT !.phase = "error"]>>)
    BY <1>6 DEF Raise, Tells, Phases
  <2>2. [job[j] EXCEPT !.pc = "raised"].prog = job[j].prog /\ [job[j] EXCEPT !.pc = "raised"].pc = "raised"
    BY <1>1 DEF JobRecs
  <2>3. CASE Goes(j, "raised")
    <3>1. job' = [job EXCEPT ![j] = [job[j] EXCEPT !.pc = "raised"]] /\ UNCHANGED <<abandoned, disturbed>>
      BY <1>1, <2>3 DEF Goes
    <3>2. \/ Change(j, <<[heap[job[j].prog] EXCEPT !.phase = "error"]>>, <<>>, 1)
          \/ Change(j, <<>>, <<>>, 0)
      BY <1>6, <2>3 DEF Raise
    <3> QED BY <1>1, <2>1, <2>2, <3>1, <3>2, GoesOn
  <2>4. CASE EndsSilently(j) /\ Change(j, <<>>, <<>>, 0)
    BY <1>1, <2>1, <2>4, GoesOn DEF EndsSilently
  <2> QED BY <1>6, <2>3, <2>4 DEF Raise
<1>7. CASE Cancel(j)
  BY <1>1, <1>7, GoesOn DEF Cancel, EndsSilently, Tells
<1>8. ASSUME Returns(j), job[j].pc = "running"
      PROVE  \E q \in JobRecs : /\ job' = [job EXCEPT ![j] = q]
                                /\ q \in {[job[j] EXCEPT !.pc = "returned"], IdleJobs[j]}
                                /\ UNCHANGED abandoned
                                /\ disturbed' \in {disturbed \cup Others(j), (disturbed \ {j}) \cup Others(j)}
  <2>1. CASE KindOf[j] = "sync"
    <3>1. job' = [job EXCEPT ![j] = [job[j] EXCEPT !.pc = "returned"]]
      BY <1>1, <1>8, <2>1 DEF Returns
    <3> QED BY <1>1, <1>8, <2>1, <3>1 DEF Returns
  <2>2. CASE KindOf[j] # "sync"
    BY <1>1, <1>8, <2>2 DEF Returns, Ends
  <2> QED BY <2>1, <2>2
<1>9. CASE Succeed(j)
  <2> DEFINE theirs == IF job[j].prog = mem[o] THEN <<Finished>> ELSE <<>>
  <2>1. job[j].pc = "running" /\ Change(j, <<Finished>>, theirs, 1) /\ Returns(j)
    BY <1>9 DEF Succeed
  <2>2. \/ theirs = <<Finished>>
        \/ theirs = <<>> /\ job[j].prog # mem[o]
    OBVIOUS
  <2> HIDE DEF theirs
  <2> QED BY <1>2, <1>8, <2>1, <2>2, SaysEnd
<1>10. CASE FetchFails(j)
  <2> DEFINE theirs == IF job[j].prog = mem[o] THEN <<Failed>> ELSE <<>>
             logs == IF KindOf[j] = "sync" THEN 0 ELSE 1
  <2>1. job[j].pc = "running" /\ Change(j, <<Failed>>, theirs, logs) /\ Returns(j) /\ logs \in Nat
    BY <1>10 DEF FetchFails
  <2>2. \/ theirs = <<Failed>>
        \/ theirs = <<>> /\ job[j].prog # mem[o]
    OBVIOUS
  <2> HIDE DEF theirs, logs
  <2> QED BY <1>2, <1>8, <2>1, <2>2, SaysEnd
<1>11. ASSUME NEW p \in Progress, ~p.running, NEW logs \in Nat, job[j].pc # "idle",
              Change(j, <<>>, <<p>>, logs), Ends(j)
       PROVE  PgInv'
  BY <1>1, <1>2, <1>11, SaysEnd DEF Ends
<1>12. CASE HandlerEnds(j)
  <2> DEFINE now == heap[mem[o]]
  <2>1. /\ job[j].pc = "returned" /\ Ends(j)
        /\ \/ Change(j, <<>>, <<Failed>>, 0)
           \/ Change(j, <<>>, <<[now EXCEPT !.running = FALSE]>>, 0)
    BY <1>12 DEF HandlerEnds
  <2>2. [now EXCEPT !.running = FALSE] \in Progress /\ ~[now EXCEPT !.running = FALSE].running
    BY <1>1, <2>1 DEF Progress
  <2> QED BY <1>2, <1>11, <2>1, <2>2
<1>13. CASE HandlerRaises(j)
  BY <1>2, <1>11, <1>13 DEF HandlerRaises, Reports
<1>14. CASE TimesOut(j)
  BY <1>2, <1>11, <1>14 DEF TimesOut, Reports
<1> QED BY <1>3, <1>4, <1>5, <1>6, <1>7, <1>9, <1>10, <1>12, <1>13, <1>14 DEF JobStep

(* Steps of the writer and of the start leave dicts and jobs alone.         *)
LEMMA KeepsTelling ==
  ASSUME PgInv, UNCHANGED <<heap, mem, jobVars>>
  PROVE  Apart' /\ Answered' /\ ActiveIsShown'
<1>1. UNCHANGED <<heap, mem, job, abandoned, disturbed>>
  BY DEF jobVars
<1> QED BY <1>1 DEF PgInv, Apart, Answered, Answering, ActiveIsShown

LEMMA WriterInv ==
  ASSUME PgInv, Take \/ QuietSecond \/ WriteRow \/ StartUp
  PROVE  PgInv'
<1> DEFINE Writers == [pc : {"off", "get", "write", "dead"}, pending : Seq(Items),
                       batch : Seq(Items), bound : BOOLEAN]
<1>1. writer \in Writers /\ queue \in Seq(Items) /\ Len(queue) <= QueueSize
  BY DEF PgInv, PgTypeOK
<1>2. UNCHANGED <<heap, mem, stops, jobVars>>
  BY DEF Take, QuietSecond, WriteRow, StartUp
<1>3. Apart' /\ Answered' /\ ActiveIsShown'
  BY <1>2, KeepsTelling
<1>4. ASSUME writer' \in Writers, Holds(queue'), startup' = startup, UNCHANGED dbVars, Writing'
      PROVE  PgInv'
  <2>1. PgTypeOK'
    BY <1>2, <1>4 DEF PgInv, PgTypeOK, Holds, dbVars, jobVars
  <2>2. Recovering'
    BY <1>4 DEF PgInv, Recovering, dbVars
  <2> QED BY <1>3, <1>4, <2>1, <2>2 DEF PgInv
<1>5. CASE Take
  <2>1. Head(queue) \in Items /\ Tail(queue) \in Seq(Items) /\ Len(Tail(queue)) = Len(queue) - 1
        /\ Len(queue) \in Nat
    BY <1>1, <1>5, HeadTailProperties, LenProperties DEF Take
  <2>2. Holds(queue')
    BY <1>1, <1>5, <2>1, ProgressAssumption DEF Take, Holds
  <2>3. Noted(writer.pending, Head(queue)) \in Seq(Items)
    <3> DEFINE pending == writer.pending
               item == Head(queue)
    <3>1. pending \in Seq(Items)
      BY <1>1
    <3>2. CASE \E i \in DOMAIN pending : pending[i][1] = item[1]
      <4>1. Noted(pending, item) = [i \in DOMAIN pending |-> IF pending[i][1] = item[1] THEN item ELSE pending[i]]
        BY <3>2 DEF Noted
      <4>2. DOMAIN pending = 1 .. Len(pending) /\ Len(pending) \in Nat
            /\ \A i \in 1 .. Len(pending) : pending[i] \in Items
        BY <3>1, LenProperties, ElementOfSeq
      <4> HIDE DEF pending, item
      <4>3. [i \in DOMAIN pending |-> IF pending[i][1] = item[1] THEN item ELSE pending[i]]
              \in [1 .. Len(pending) -> Items]
        BY <2>1, <4>2 DEF item
      <4> QED BY <4>1, <4>2, <4>3, SeqDef DEF pending, item
    <3>3. CASE ~\E i \in DOMAIN pending : pending[i][1] = item[1]
      BY <2>1, <3>1, <3>3, AppendProperties DEF Noted
    <3> QED BY <3>2, <3>3
  <2>4. writer' \in Writers /\ writer'.pc = "get"
    <3> DEFINE noted == Noted(writer.pending, Head(queue))
    <3>1. writer' = [writer EXCEPT !.pending = noted] /\ writer.pc = "get"
      BY <1>5 DEF Take
    <3> HIDE DEF noted
    <3> QED BY <1>1, <2>3, <3>1 DEF noted
  <2> QED BY <1>4, <1>5, <2>2, <2>4 DEF Take, Writing
<1>6. CASE QuietSecond
  <2>1. /\ writer' \in Writers
        /\ writer'.pc = "write" => writer'.batch # <<>>
    <3>1. CASE writer.pending # <<>>
      BY <1>1, <1>6, <3>1, EmptySeq DEF QuietSecond
    <3>2. CASE writer.pending = <<>> /\ writer.bound
      BY <1>1, <1>6, <3>2 DEF QuietSecond
    <3>3. CASE writer.pending = <<>> /\ ~writer.bound
      BY <1>1, <1>6, <3>3 DEF QuietSecond
    <3> QED BY <3>1, <3>2, <3>3
  <2> QED BY <1>1, <1>4, <1>6, <2>1 DEF QuietSecond, Writing, Holds
<1>7. CASE WriteRow
  <2>1. writer.batch \in Seq(Items) /\ writer.batch # <<>> /\ Len(writer.batch) \in Nat
    BY <1>1, <1>7, LenProperties DEF WriteRow, PgInv, Writing
  <2>2. /\ Head(writer.batch) \in Items /\ Tail(writer.batch) \in Seq(Items)
        /\ Len(Tail(writer.batch)) = Len(writer.batch) - 1
    BY <2>1, HeadTailProperties
  <2>3. writer' \in Writers /\ Writing'
    <3> DEFINE rest == Tail(writer.batch)
               pc == IF Len(writer.batch) > 1 THEN "write" ELSE "get"
    <3>1. writer' = [writer EXCEPT !.batch = rest, !.pc = pc]
      BY <1>7 DEF WriteRow
    <3>2. pc = "write" => rest # <<>>
      <4>1. Len(<<>>) = 0
        OBVIOUS
      <4>2. \A n \in Nat : n > 1 => n - 1 # 0
        OBVIOUS
      <4>3. Len(writer.batch) > 1 => Len(rest) # 0
        BY <2>1, <2>2, <4>2, Zenon
      <4> QED BY <4>1, <4>3
    <3>3. rest \in Seq(Items) /\ pc \in {"write", "get"}
      BY <2>2
    <3> HIDE DEF rest, pc
    <3> QED BY <1>1, <3>1, <3>2, <3>3 DEF Writing
  <2> DEFINE v == Head(writer.batch)[1]
             now == heap[Head(writer.batch)[2]]
  <2>4. v \in Users /\ now \in Progress
    BY <2>2 DEF Items, PgInv, PgTypeOK
  <2>5. /\ row' \in [Users -> Progress \cup {NoRow}] /\ old' \subseteq Users
        /\ \A u \in old' : u \in old /\ row'[u] = row[u]
    <3>1. CASE row' = [row EXCEPT ![v] = now] /\ old' = old \ {v}
      BY <2>4, <3>1 DEF PgInv, PgTypeOK
    <3>2. CASE UNCHANGED dbVars
      BY <3>2 DEF PgInv, PgTypeOK, dbVars
    <3> QED BY <1>7, <3>1, <3>2 DEF WriteRow, Stored
  <2>6. UNCHANGED <<queue, startup>>
    BY <1>7 DEF WriteRow
  <2>7. PgTypeOK'
    BY <1>2, <2>3, <2>5, <2>6 DEF PgInv, PgTypeOK, jobVars
  <2>8. Recovering'
    BY <2>5, <2>6 DEF PgInv, Recovering
  <2> QED BY <1>3, <2>3, <2>7, <2>8 DEF PgInv
<1>8. CASE StartUp
  <2>1. [NewWriter EXCEPT !.pc = "get"] \in Writers /\ [NewWriter EXCEPT !.pc = "get"].pc = "get"
    BY EmptySeq DEF NewWriter
  <2>2. startup' = [pc |-> "select", stale |-> {}] /\ UNCHANGED <<queue, dbVars>>
        /\ writer' = [NewWriter EXCEPT !.pc = "get"]
    BY <1>8 DEF StartUp
  <2>3. PgTypeOK'
    BY <1>2, <2>1, <2>2 DEF PgInv, PgTypeOK, dbVars, jobVars
  <2>4. Recovering' /\ Writing'
    BY <2>1, <2>2 DEF Recovering, Writing
  <2> QED BY <1>3, <2>3, <2>4 DEF PgInv
<1> QED BY <1>5, <1>6, <1>7, <1>8

(* The recovery gives each selected user a new dict that says that nothing  *)
(* runs, and counts the jobs of these users as disturbed.                   *)
LEMMA RecoverInv ==
  ASSUME PgInv, RecoverApply
  PROVE  PgInv'
<1> DEFINE stale == StaleRows
<1>1. PICK ds \in [stale -> Free] :
        /\ \A u, v \in stale : u # v => ds[u] # ds[v]
        /\ mem' = [u \in Users |-> IF u \in stale THEN ds[u] ELSE mem[u]]
        /\ heap' = [d \in Dicts |-> IF \E u \in stale : ds[u] = d THEN Failed ELSE heap[d]]
  BY DEF RecoverApply
<1>2. /\ disturbed' = disturbed \cup {k \in Jobs : Active(k) /\ OwnerOf[k] \in stale}
      /\ startup' = [pc |-> IF stale = {} THEN "done" ELSE "commit", stale |-> stale]
      /\ UNCHANGED <<queue, writer, dbVars, stops, job, abandoned>>
  BY DEF RecoverApply
<1>3. stale \subseteq Users /\ \A u \in Users : row[u].running => u \in stale
  BY DEF StaleRows, RunningRows
<1>4. \A u \in stale : /\ ds[u] \in Dicts /\ (\A v \in Users : mem[v] # ds[u])
                       /\ (\A k \in Jobs : job[k].prog # ds[u])
  BY FreeIsNew
<1>5. /\ heap \in [Dicts -> Progress] /\ mem \in [Users -> Dicts \cup {NoDict}]
      /\ NoDict \notin Dicts /\ OwnerOf \in [Jobs -> Users] /\ old \subseteq Users
      /\ Failed \in Progress /\ ~Failed.running
  BY ProgressAssumption DEF PgInv, PgTypeOK, Failed, Progress, Phases
<1> HIDE DEF stale
<1>6. heap' \in [Dicts -> Progress] /\ mem' \in [Users -> Dicts \cup {NoDict}]
  BY <1>1, <1>4, <1>5
<1>7. \A u \in stale : mem'[u] = ds[u] /\ ~heap'[mem'[u]].running
  BY <1>1, <1>3, <1>4, <1>5
<1>8. \A u \in Users \ stale : mem'[u] = mem[u] /\ (mem[u] # NoDict => heap'[mem[u]] = heap[mem[u]])
  BY <1>1, <1>4, <1>5
<1>9. PgTypeOK'
  BY <1>2, <1>3, <1>6 DEF PgInv, PgTypeOK, dbVars
<1>10. Apart'
  <2>1. \A u, v \in Users : u # v => mem'[u] = NoDict \/ mem'[u] # mem'[v]
    BY <1>1, <1>4, <1>5, <1>7, <1>8 DEF PgInv, Apart
  <2>2. \A k \in Jobs, u \in Users : OwnerOf[k] # u /\ mem'[u] # NoDict => job'[k].prog # mem'[u]
    BY <1>2, <1>4, <1>7, <1>8 DEF PgInv, Apart
  <2>3. \A k \in Jobs : job'[k].pc # "idle" => mem'[OwnerOf[k]] # NoDict
    BY <1>2, <1>4, <1>5, <1>7, <1>8 DEF PgInv, Apart
  <2>4. \A k \in Jobs : job'[k].pc \notin {"idle", "begun"} => job'[k].prog # NoDict
    BY <1>2 DEF PgInv, Apart
  <2> QED BY <2>1, <2>2, <2>3, <2>4 DEF Apart
<1>11. Answered'
  <2> SUFFICES ASSUME NEW v \in Users, mem'[v] # NoDict, heap'[mem'[v]].running
               PROVE  v \in abandoned \/ \E k \in Jobs : Answering(k, v)'
    BY <1>2 DEF Answered
  <2>1. v \notin stale /\ mem'[v] = mem[v] /\ heap[mem[v]].running
    BY <1>7, <1>8
  <2> QED BY <1>2, <2>1 DEF PgInv, Answered, Answering
<1>12. ActiveIsShown'
  <2> SUFFICES ASSUME NEW k \in Jobs, job[k].pc \in {"begun", "running"}
               PROVE  k \in disturbed' \/ heap'[mem'[OwnerOf[k]]].running
    BY <1>2 DEF ActiveIsShown
  <2>1. CASE OwnerOf[k] \in stale
    BY <1>2, <2>1 DEF Active
  <2>2. CASE OwnerOf[k] \notin stale
    <3>1. mem[OwnerOf[k]] # NoDict /\ OwnerOf[k] \in Users
      BY <1>5 DEF PgInv, Apart
    <3> QED BY <1>2, <1>8, <2>2, <3>1 DEF PgInv, ActiveIsShown
  <2> QED BY <2>1, <2>2
<1>13. Recovering' /\ Writing'
  <2>1. row' = row /\ old' = old /\ writer' = writer
    BY <1>2 DEF dbVars
  <2> QED BY <1>2, <1>3, <1>5, <2>1 DEF PgInv, Recovering, Writing
<1> QED BY <1>9, <1>10, <1>11, <1>12, <1>13 DEF PgInv

LEMMA CommitInv ==
  ASSUME PgInv, RecoverCommit
  PROVE  PgInv'
<1>1. /\ startup.pc = "commit" /\ startup' = [pc |-> "done", stale |-> {}]
      /\ row' = [u \in Users |-> IF u \in startup.stale THEN Failed ELSE row[u]]
      /\ UNCHANGED <<heap, mem, queue, writer, old, stops, jobVars>>
  BY DEF RecoverCommit
<1>2. Failed \in Progress /\ ~Failed.running
  BY DEF Failed, Progress, Phases
<1>3. PgTypeOK'
  BY <1>1, <1>2 DEF PgInv, PgTypeOK, jobVars
<1>4. Recovering'
  BY <1>1, <1>2 DEF PgInv, PgTypeOK, Recovering
<1>5. Writing'
  BY <1>1 DEF PgInv, Writing
<1> QED BY <1>1, <1>3, <1>4, <1>5, KeepsTelling DEF PgInv

LEMMA RestartInv ==
  ASSUME PgInv, NEW rows \in [Users -> Progress \cup {NoRow}], Restarts(rows)
  PROVE  PgInv'
<1>1. /\ stops < MaxStops /\ stops' = stops + 1
      /\ row' = rows /\ old' = {u \in Users : rows[u] # NoRow}
      /\ heap' = [d \in Dicts |-> Default] /\ mem' = [u \in Users |-> NoDict]
      /\ queue' = <<>> /\ writer' = NewWriter /\ startup' = [pc |-> "new", stale |-> {}]
      /\ job' = IdleJobs /\ abandoned' = {} /\ disturbed' = {}
  BY DEF Restarts
<1>2. \A k \in Jobs : job'[k].pc = "idle" /\ job'[k].prog = NoDict
  BY <1>1 DEF IdleJobs
<1>3. Default \in Progress /\ <<>> \in Seq(Items) /\ Len(<<>>) <= QueueSize
  BY EmptySeq, ProgressAssumption DEF Default, Progress, Phases
<1>4. writer' \in [pc : {"off", "get", "write", "dead"}, pending : Seq(Items),
                   batch : Seq(Items), bound : BOOLEAN]
  BY <1>1, <1>3 DEF NewWriter
<1>5. PgTypeOK'
  BY <1>1, <1>3, <1>4, ProgressAssumption DEF PgInv, PgTypeOK, IdleJobs
<1>6. Apart' /\ Answered' /\ ActiveIsShown'
  BY <1>1, <1>2 DEF Apart, Answered, ActiveIsShown
<1>7. Recovering' /\ Writing'
  BY <1>1 DEF Recovering, Writing, NewWriter
<1> QED BY <1>5, <1>6, <1>7 DEF PgInv

LEMMA ShutdownInv ==
  ASSUME PgInv, Shutdown
  PROVE  PgInv'
<1> DEFINE rows == [u \in Users |->
             IF writer.pc \in {"get", "write"} /\ \E i \in DOMAIN writer.pending : writer.pending[i][1] = u
             THEN heap[(CHOOSE item \in ToSet(writer.pending) : item[1] = u)[2]]
             ELSE row[u]]
<1>1. Restarts(rows)
  BY DEF Shutdown
<1>2. ASSUME NEW u \in Users, \E i \in DOMAIN writer.pending : writer.pending[i][1] = u
      PROVE  heap[(CHOOSE item \in ToSet(writer.pending) : item[1] = u)[2]] \in Progress
  <2> DEFINE chosen == CHOOSE item \in ToSet(writer.pending) : item[1] = u
  <2>1. writer.pending \in Seq(Items) /\ heap \in [Dicts -> Progress]
    BY DEF PgInv, PgTypeOK
  <2>2. \A i \in DOMAIN writer.pending : writer.pending[i] \in Items
    BY <2>1, LenProperties, ElementOfSeq
  <2>3. \E item \in ToSet(writer.pending) : item[1] = u
    BY <1>2 DEF ToSet
  <2>4. chosen \in ToSet(writer.pending)
    BY <2>3
  <2> HIDE DEF chosen
  <2>5. chosen \in Items
    BY <2>2, <2>4 DEF ToSet
  <2>6. chosen[2] \in Dicts
    BY <2>5 DEF Items
  <2> QED BY <2>1, <2>6 DEF chosen
<1>3. rows \in [Users -> Progress \cup {NoRow}]
  BY <1>2 DEF PgInv, PgTypeOK
<1> HIDE DEF rows
<1> QED BY <1>1, <1>3, RestartInv

LEMMA PgStepInv == PgInv /\ [PgNext]_pgVars => PgInv'
<1> SUFFICES ASSUME PgInv, [PgNext]_pgVars PROVE PgInv'
  OBVIOUS
<1>1. CASE Crash
  BY <1>1, RestartInv DEF Crash, PgInv, PgTypeOK
<1>2. CASE UNCHANGED pgVars
  <2>1. UNCHANGED <<heap, mem, queue, writer, row, old, startup, stops, job, abandoned, disturbed>>
    BY <1>2 DEF pgVars, dbVars, jobVars
  <2>2. Apart' /\ Answered' /\ ActiveIsShown'
    BY <2>1, KeepsTelling DEF jobVars
  <2>3. PgTypeOK' /\ Recovering' /\ Writing'
    BY <2>1 DEF PgInv, PgTypeOK, Recovering, Writing
  <2> QED BY <2>2, <2>3 DEF PgInv
<1> QED BY <1>1, <1>2, PollInv, JobStepInv, WriterInv, RecoverInv, CommitInv, ShutdownInv DEF PgNext

LEMMA PgInvTruthful == PgInv => ProgressTruthful
<1> SUFFICES ASSUME PgInv PROVE ProgressTruthful
  OBVIOUS
<1>1. NoPhantomRun
  BY DEF PgInv, Answered, Answering, NoPhantomRun, Active
<1> QED BY <1>1 DEF PgInv, ProgressTruthful, Recovering, NoStaleRun

(* Dicts, queue, writer, rows and jobs of the progress keep their form,     *)
(* through any interleaving of jobs, writer, recovery, crash and stop.      *)
THEOREM PgTypeCorrect == PgSpec => []PgTypeOK
<1>1. PgInv => PgTypeOK
  BY DEF PgInv
<1> QED BY <1>1, PgInitInv, PgStepInv, PTL DEF PgSpec

(* What a user is shown of their jobs is true, whatever dicts the jobs      *)
(* hold, replace and end, and no stored row of an earlier process says      *)
(* running once a start has recovered (app/sync/progress.py).               *)
THEOREM ProgressIsTruthful == PgSpec => []ProgressTruthful
BY PgInitInv, PgStepInv, PgInvTruthful, PTL DEF PgSpec

-----------------------------------------------------------------------------
(* The figures' ledger: a classification and an edit store what a row may   *)
(* hold.                                                                    *)
LEMMA FgStepType == FgTypeOK /\ [FgNext]_fgVars => FgTypeOK'
<1> SUFFICES ASSUME FgTypeOK, [FgNext]_fgVars PROVE FgTypeOK'
  OBVIOUS
<1>1. ASSUME NEW t \in Entries, Classify(t) PROVE FgTypeOK'
  <2>1. PICK l \in Labels, c \in Categories \cup {Null}, d \in Dates \cup {Null},
             s \in {"reviewed", "needs_review"} :
          entry' = [entry EXCEPT ![t] =
                     [label |-> l, type |-> TypeOf(l, c), cat |-> c, status |-> s, date |-> d]]
    BY <1>1 DEF Classify
  <2>2. TypeOf(l, c) \in Types
    BY DEF TypeOf, Types
  <2>3. [label |-> l, type |-> TypeOf(l, c), cat |-> c, status |-> s, date |-> d] \in Entry
    BY <2>2 DEF Entry
  <2> QED BY <2>1, <2>3 DEF FgTypeOK
<1>2. ASSUME NEW t \in Entries, Edit(t) PROVE FgTypeOK'
  <2>1. entry[t] \in Entry
    BY <1>2 DEF Edit, FgTypeOK
  <2>2. \E e \in Entry : entry' = [entry EXCEPT ![t] = e]
    <3>1. CASE \E l \in Labels : entry' = [entry EXCEPT ![t].label = l, ![t].status = "reviewed"]
      <4>1. PICK l \in Labels : entry' = [entry EXCEPT ![t].label = l, ![t].status = "reviewed"]
        BY <3>1
      <4>2. [entry[t] EXCEPT !.label = l, !.status = "reviewed"] \in Entry
        BY <2>1 DEF Entry
      <4>3. entry' = [entry EXCEPT ![t] = [entry[t] EXCEPT !.label = l, !.status = "reviewed"]]
        BY <4>1 DEF FgTypeOK
      <4> QED BY <4>2, <4>3
    <3>2. CASE \E c \in Categories : entry' = [entry EXCEPT ![t].cat = c, ![t].status = "reviewed"]
      <4>1. PICK c \in Categories : entry' = [entry EXCEPT ![t].cat = c, ![t].status = "reviewed"]
        BY <3>2
      <4>2. [entry[t] EXCEPT !.cat = c, !.status = "reviewed"] \in Entry
        BY <2>1 DEF Entry
      <4>3. entry' = [entry EXCEPT ![t] = [entry[t] EXCEPT !.cat = c, !.status = "reviewed"]]
        BY <4>1 DEF FgTypeOK
      <4> QED BY <4>2, <4>3
    <3>3. CASE \E d \in Dates : entry' = [entry EXCEPT ![t].date = d, ![t].status = "reviewed"]
      <4>1. PICK d \in Dates : entry' = [entry EXCEPT ![t].date = d, ![t].status = "reviewed"]
        BY <3>3
      <4>2. [entry[t] EXCEPT !.date = d, !.status = "reviewed"] \in Entry
        BY <2>1 DEF Entry
      <4>3. entry' = [entry EXCEPT ![t] = [entry[t] EXCEPT !.date = d, !.status = "reviewed"]]
        BY <4>1 DEF FgTypeOK
      <4> QED BY <4>2, <4>3
    <3> QED BY <1>2, <3>1, <3>2, <3>3 DEF Edit
  <2> QED BY <2>2 DEF FgTypeOK
<1>3. ASSUME NEW t \in Entries, Drop(t) PROVE FgTypeOK'
  BY <1>3 DEF Drop, FgTypeOK
<1>4. CASE UNCHANGED fgVars
  BY <1>4 DEF fgVars, FgTypeOK
<1> QED BY <1>1, <1>2, <1>3, <1>4 DEF FgNext

-----------------------------------------------------------------------------
(* Figures: sums of amounts.                                                *)
LEMMA SumIs == ASSUME NEW S PROVE Sum(S) = Total(AmountOf, S)
BY DEF Sum, Total

LEMMA SumFacts ==
  ASSUME NEW S, S \subseteq Entries
  PROVE  /\ IsFiniteSet(S) /\ Sum(S) \in Nat
         /\ \A T \in SUBSET S : IsFiniteSet(T) /\ Sum(T) \in Nat /\ Sum(T) <= Sum(S)
<1>1. IsFiniteSet(S) /\ \A x \in S : AmountOf[x] \in Nat
  BY FiguresAssumption, FS_Subset
<1>2. Sum(S) \in Nat
  BY <1>1, TotalPart, SumIs
<1>3. ASSUME NEW T, T \subseteq S PROVE IsFiniteSet(T) /\ Sum(T) \in Nat /\ Sum(T) <= Sum(S)
  BY <1>1, <1>3, FS_Subset, TotalPart, SumIs
<1> QED BY <1>1, <1>2, <1>3

LEMMA SumParts ==
  ASSUME NEW S, S \subseteq Entries, NEW T, T \subseteq Entries, S \cap T = {}
  PROVE  Sum(S \cup T) = Sum(S) + Sum(T)
<1>1. IsFiniteSet(S) /\ IsFiniteSet(T) /\ \A x \in S \cup T : AmountOf[x] \in Int
  BY FiguresAssumption, FS_Subset
<1> QED BY <1>1, TotalUnion, SumIs

LEMMA SumByKey ==
  ASSUME NEW S, S \subseteq Entries, NEW K, IsFiniteSet(K), NEW key, \A x \in S : key[x] \in K,
         NEW g, \A k \in K : g[k] = Sum(OfKey(S, key, k))
  PROVE  Total(g, K) = Sum(S)
<1>1. IsFiniteSet(S) /\ \A x \in S : AmountOf[x] \in Int
  BY FiguresAssumption, FS_Subset
<1>2. \A k \in K : g[k] = Total(AmountOf, OfKey(S, key, k))
  BY SumIs
<1>3. Total(g, K) = Total(AmountOf, S)
  BY <1>1, <1>2, TotalGroups
<1> QED BY <1>3, SumIs

(* What is added up of a column.                                            *)
LEMMA ColumnIs ==
  ASSUME NEW rows, IsFiniteSet(DOMAIN rows), NEW name,
         NEW g, \A i \in DOMAIN rows : g[i] = rows[i][name]
  PROVE  Column(rows, name) = Total(g, DOMAIN rows)
<1> DEFINE S == DOMAIN rows
           F(i) == rows[i][name]
<1>1. IsFiniteSet(S) /\ \A i \in S : g[i] = F(i)
  OBVIOUS
<1> HIDE DEF S
<1> DEFINE Eq(it) == it = [s \in SUBSET S |-> IF s = {} THEN 0 ELSE F(OneOf(s)) + it[s \ {OneOf(s)}]]
           h == CHOOSE it : Eq(it)
<1>2. \A s \in SUBSET S : s # {} => g[OneOf(s)] = F(OneOf(s))
  <2> HIDE DEF F
  <2> SUFFICES ASSUME NEW s \in SUBSET S, s # {} PROVE g[OneOf(s)] = F(OneOf(s))
    OBVIOUS
  <2>1. OneOf(s) \in S
    BY <1>1, Rest
  <2> QED BY <1>1, <2>1
<1> HIDE DEF F
<1>3. \A it : Eq(it) <=> Summed(it, g, SUBSET S)
  BY <1>2, Zenon DEF Summed
<1>4. (CHOOSE it : Eq(it)) = (CHOOSE it : Summed(it, g, SUBSET S))
  BY <1>3, Zenon
<1>5. Column(rows, name) = h[S]
  BY DEF Column, MapThenSumSet, MapThenFoldSet, OneOf, S, F
<1>6. Total(g, S) = (CHOOSE it : Summed(it, g, SUBSET S))[S]
  BY DEF Total, MapThenSumSet, MapThenFoldSet, OneOf, Summed
<1> QED BY <1>4, <1>5, <1>6, Zenon DEF S

-----------------------------------------------------------------------------
(* The calendar: months numbered through, and the months from one to        *)
(* another.                                                                 *)
Calendar == Int \X (1 .. 12) \X (1 .. 31)
MonthNo(d) == d[1] * 12 + d[2]

LEMMA ByTwelve ==
  ASSUME NEW x \in Int
  PROVE  x \div 12 \in Int /\ x % 12 \in 0 .. 11 /\ x = 12 * (x \div 12) + (x % 12)
OBVIOUS

LEMMA MonthsApart ==
  ASSUME NEW d \in Calendar, NEW n \in Int
  PROVE  /\ AddMonths(d, n) \in Calendar /\ AddMonths(d, n)[3] = 1
         /\ MonthNo(AddMonths(d, n)) = MonthNo(d) + n
<1> DEFINE m == d[2] - 1 + n
           years == m \div 12
           months == m % 12
<1>1. m \in Int /\ d[1] \in Int
  BY DEF Calendar
<1>3. AddMonths(d, n) = <<d[1] + years, months + 1, 1>>
  BY DEF AddMonths
<1> HIDE DEF m
<1>2. years \in Int /\ months \in 0 .. 11 /\ m = 12 * years + months
  BY <1>1, ByTwelve
<1> HIDE DEF years, months
<1>4. AddMonths(d, n) \in Calendar /\ AddMonths(d, n)[3] = 1
  BY <1>1, <1>2, <1>3 DEF Calendar
<1>5. MonthNo(AddMonths(d, n)) = (d[1] + years) * 12 + months + 1
  BY <1>3, <1>1, <1>2 DEF MonthNo
<1>6. MonthNo(d) + n = d[1] * 12 + m + 1
  BY <1>1 DEF MonthNo, m, Calendar
<1> QED BY <1>1, <1>2, <1>4, <1>5, <1>6

(* A date lies between the first of a month and the last of another when    *)
(* its month does.                                                          *)
LEMMA DaysOfMonths ==
  ASSUME NEW a \in Calendar, a[3] = 1, NEW b \in Calendar, NEW d \in Calendar
  PROVE  /\ DayNumber(a) <= DayNumber(d) <=> MonthNo(a) <= MonthNo(d)
         /\ DayNumber(d) <= DayNumber(EndOf(b)) <=> MonthNo(d) <= MonthNo(b)
         /\ EndOf(b) \in Calendar /\ MonthNo(EndOf(b)) = MonthNo(b)
<1>1. /\ a[1] \in Int /\ a[2] \in 1 .. 12 /\ b[1] \in Int /\ b[2] \in 1 .. 12
      /\ d[1] \in Int /\ d[2] \in 1 .. 12 /\ d[3] \in 1 .. 31
  BY DEF Calendar
<1>2. EndOf(b)[1] = b[1] /\ EndOf(b)[2] = b[2] /\ EndOf(b)[3] = 31 /\ EndOf(b) \in Calendar
  BY <1>1 DEF EndOf, Calendar
<1>3. /\ MonthNo(a) \in Int /\ MonthNo(b) \in Int /\ MonthNo(d) \in Int
      /\ MonthNo(EndOf(b)) = MonthNo(b)
  BY <1>1, <1>2 DEF MonthNo
<1>4. /\ DayNumber(a) = MonthNo(a) * 31 + 1
      /\ DayNumber(EndOf(b)) = MonthNo(b) * 31 + 31
      /\ DayNumber(d) = MonthNo(d) * 31 + d[3]
  BY <1>1, <1>2 DEF DayNumber, MonthNo
<1>5. \A x, y \in Int, z \in 1 .. 31 :
        /\ x * 31 + 1 <= y * 31 + z <=> x <= y
        /\ y * 31 + z <= x * 31 + 31 <=> y <= x
  OBVIOUS
<1> QED BY <1>1, <1>2, <1>3, <1>4, <1>5

LEMMA SameMonthIs ==
  ASSUME NEW d \in Calendar, NEW m \in Calendar
  PROVE  SameMonth(d, m) <=> MonthNo(d) = MonthNo(m)
<1>1. d[1] \in Int /\ d[2] \in 1 .. 12 /\ m[1] \in Int /\ m[2] \in 1 .. 12
  BY DEF Calendar
<1>2. SameMonth(d, m) <=> d[1] = m[1] /\ d[2] = m[2]
  BY DEF SameMonth, FirstOf
<1>3. d[1] * 12 + d[2] = m[1] * 12 + m[2] <=> d[1] = m[1] /\ d[2] = m[2]
  BY <1>1
<1> QED BY <1>2, <1>3 DEF MonthNo

(* A period is of whole months up to this one.                              *)
Start(period) == PeriodStart(period)
End == EndOf(Today)
Nth(period, i) == AddMonths(PeriodStart(period), i - 1)

LEMMA PeriodIs ==
  ASSUME NEW period \in Periods
  PROVE  /\ MonthsIn(period) \in Nat \ {0} /\ Today \in Calendar
         /\ Start(period) \in Calendar /\ Start(period)[3] = 1 /\ End \in Calendar
         /\ MonthNo(Start(period)) = MonthNo(Today) + 1 - MonthsIn(period)
         /\ MonthNo(End) = MonthNo(Today) /\ MonthNo(Today) \in Int
         /\ Start(period) # Null /\ End # Null
<1>1. MonthsIn(period) \in Nat \ {0}
  BY DEF Periods, MonthsIn
<1>2. Today \in Calendar
  BY FiguresAssumption DEF Calendar
<1>3. /\ Start(period) \in Calendar /\ Start(period)[3] = 1
      /\ MonthNo(Start(period)) = MonthNo(Today) + (1 - MonthsIn(period))
  <2> DEFINE k == 1 - MonthsIn(period)
  <2>1. k \in Int
    BY <1>1
  <2> HIDE DEF k
  <2>2. /\ AddMonths(Today, k) \in Calendar /\ AddMonths(Today, k)[3] = 1
        /\ MonthNo(AddMonths(Today, k)) = MonthNo(Today) + k
    BY <1>2, <2>1, MonthsApart
  <2> QED BY <2>2 DEF Start, PeriodStart, k
<1>4. End \in Calendar /\ MonthNo(End) = MonthNo(Today)
  BY <1>2, <1>3, DaysOfMonths DEF End
<1>5. MonthNo(Today) \in Int
  BY <1>2 DEF MonthNo, Calendar
<1> QED BY <1>1, <1>2, <1>3, <1>4, <1>5, FiguresAssumption DEF Calendar

LEMMA MonthsAre ==
  ASSUME NEW period \in Periods, NEW e \in {Today, End}
  PROVE  MonthsFrom(Start(period), e) = [i \in 1 .. MonthsIn(period) |-> Nth(period, i)]
<1> DEFINE s == Start(period)
           n == (e[1] - s[1]) * 12 + e[2] - s[2] + 1
<1>1. /\ MonthsIn(period) \in Nat /\ s \in Calendar /\ e \in Calendar
      /\ MonthNo(s) = MonthNo(Today) + 1 - MonthsIn(period)
      /\ MonthNo(e) = MonthNo(Today) /\ MonthNo(Today) \in Int
  BY PeriodIs
<1>2. s[1] \in Int /\ s[2] \in Int /\ e[1] \in Int /\ e[2] \in Int
  BY <1>1 DEF Calendar
<1>3. n = MonthNo(e) - MonthNo(s) + 1
  <2> HIDE DEF s
  <2> QED BY <1>2 DEF MonthNo
<1>4. n = MonthsIn(period)
  <2> HIDE DEF s, n
  <2> QED BY <1>1, <1>3
<1> QED BY <1>4 DEF MonthsFrom, Nth, Start

LEMMA NthIs ==
  ASSUME NEW period \in Periods, NEW i \in 1 .. MonthsIn(period)
  PROVE  /\ Nth(period, i) \in Calendar /\ Nth(period, i)[3] = 1
         /\ MonthNo(Nth(period, i)) = MonthNo(Today) + i - MonthsIn(period)
<1>1. /\ MonthsIn(period) \in Nat /\ PeriodStart(period) \in Calendar /\ i - 1 \in Int
      /\ MonthNo(PeriodStart(period)) = MonthNo(Today) + 1 - MonthsIn(period)
      /\ MonthNo(Today) \in Int
  BY PeriodIs DEF Start
<1>2. /\ Nth(period, i) \in Calendar /\ Nth(period, i)[3] = 1
      /\ MonthNo(Nth(period, i)) = MonthNo(PeriodStart(period)) + (i - 1)
  BY <1>1, MonthsApart DEF Nth
<1> QED BY <1>1, <1>2

LEMMA Dated ==
  ASSUME FgTypeOK, NEW t \in Live, entry[t].date # Null
  PROVE  entry[t].date \in Calendar /\ MonthNo(entry[t].date) \in Int
<1>1. entry[t] \in Entry
  BY DEF FgTypeOK, Live
<1>2. entry[t].date \in Calendar
  BY <1>1, FiguresAssumption DEF Entry, Calendar
<1> QED BY <1>2 DEF MonthNo, Calendar

(* Transactions of a period are those of its months, and each is of one.    *)
Of(C, start, end) == {t \in C : In(t, start, end)}

LEMMA OfMonth ==
  ASSUME FgTypeOK, NEW C, C \subseteq Live,
         NEW a \in Calendar, a[3] = 1, NEW b \in Calendar
  PROVE  \A t \in C : In(t, a, EndOf(b)) <=>
           /\ entry[t].date # Null
           /\ MonthNo(a) <= MonthNo(entry[t].date) /\ MonthNo(entry[t].date) <= MonthNo(b)
<1> SUFFICES ASSUME NEW t \in C, entry[t].date # Null
             PROVE  /\ DayNumber(a) <= DayNumber(entry[t].date) <=> MonthNo(a) <= MonthNo(entry[t].date)
                    /\ DayNumber(entry[t].date) <= DayNumber(EndOf(b)) <=> MonthNo(entry[t].date) <= MonthNo(b)
  BY DEF In
<1>1. entry[t].date \in Calendar
  BY Dated
<1> QED BY <1>1, DaysOfMonths

LEMMA MonthsAddUp ==
  ASSUME FgTypeOK, NEW C, C \subseteq Live, NEW period \in Periods,
         NEW g, \A i \in 1 .. MonthsIn(period) :
                  g[i] = Sum(Of(C, Nth(period, i), EndOf(Nth(period, i))))
  PROVE  Total(g, 1 .. MonthsIn(period)) = Sum(Of(C, Start(period), End))
<1> DEFINE n == MonthsIn(period)
           K == 1 .. n
           S == Of(C, Start(period), End)
           base == MonthNo(Today) - n
           key == [t \in S |-> MonthNo(entry[t].date) - base]
<1>1. /\ n \in Nat \ {0} /\ Today \in Calendar /\ MonthNo(Today) \in Int
      /\ Start(period) \in Calendar /\ Start(period)[3] = 1
      /\ MonthNo(Start(period)) = MonthNo(Today) + 1 - n
  BY PeriodIs
<1>2. \A t \in C : In(t, Start(period), End) <=>
           /\ entry[t].date # Null
           /\ MonthNo(Start(period)) <= MonthNo(entry[t].date)
           /\ MonthNo(entry[t].date) <= MonthNo(Today)
  BY <1>1, OfMonth DEF End
<1>3. \A t \in C : entry[t].date # Null => MonthNo(entry[t].date) \in Int
  BY Dated
<1>4. ASSUME NEW i \in K PROVE Of(C, Nth(period, i), EndOf(Nth(period, i))) = OfKey(S, key, i)
  <2>1. /\ Nth(period, i) \in Calendar /\ Nth(period, i)[3] = 1
        /\ MonthNo(Nth(period, i)) = base + i
    BY <1>1, NthIs
  <2>2. \A t \in C : In(t, Nth(period, i), EndOf(Nth(period, i))) <=>
           /\ entry[t].date # Null
           /\ MonthNo(Nth(period, i)) <= MonthNo(entry[t].date)
           /\ MonthNo(entry[t].date) <= MonthNo(Nth(period, i))
    BY <2>1, OfMonth
  <2>3. ASSUME NEW t \in C
        PROVE  In(t, Nth(period, i), EndOf(Nth(period, i))) <=> t \in S /\ key[t] = i
    <3>1. CASE entry[t].date = Null
      BY <2>2, <1>2, <3>1 DEF Of
    <3>2. CASE entry[t].date # Null
      <4> DEFINE m == MonthNo(entry[t].date)
      <4>1. m \in Int /\ base \in Int /\ i \in 1 .. n /\ MonthNo(Start(period)) = base + 1
        BY <1>1, <1>3, <3>2
      <4>2. t \in S <=> base + 1 <= m /\ m <= MonthNo(Today)
        BY <1>2, <3>2, <4>1 DEF Of
      <4>3. t \in S => key[t] = m - base
        OBVIOUS
      <4>4. In(t, Nth(period, i), EndOf(Nth(period, i))) <=> m = base + i
        BY <2>1, <2>2, <3>2, <4>1
      <4>5. MonthNo(Today) = base + n
        BY <1>1
      <4> HIDE DEF m, S, key, base, n
      <4> QED BY <1>1, <4>1, <4>2, <4>3, <4>4, <4>5
    <3> QED BY <3>1, <3>2
  <2> QED BY <2>3 DEF Of, OfKey
<1>5. \A t \in S : key[t] \in K
  <2> SUFFICES ASSUME NEW t \in S PROVE MonthNo(entry[t].date) - base \in K
    OBVIOUS
  <2>1. t \in C /\ In(t, Start(period), End)
    BY DEF Of
  <2>2. /\ MonthNo(entry[t].date) \in Int
        /\ MonthNo(Today) + 1 - n <= MonthNo(entry[t].date)
        /\ MonthNo(entry[t].date) <= MonthNo(Today)
    BY <1>1, <1>2, <1>3, <2>1
  <2> QED BY <1>1, <2>2
<1>6. S \subseteq Entries /\ IsFiniteSet(K)
  BY <1>1, FS_Interval DEF Of, Live
<1>7. \A i \in K : g[i] = Sum(OfKey(S, key, i))
  BY <1>4
<1> HIDE DEF S, K, key
<1>8. Total(g, K) = Sum(S)
  BY <1>5, <1>6, <1>7, SumByKey
<1> QED BY <1>8 DEF S, K

-----------------------------------------------------------------------------
(* The tables.  What a figure counts.                                       *)
Spenders == {t \in Live : Expense(t)}
Earners == {t \in Live : Income(t)}
Payers == {t \in Live : CardPayment(t)}
Investors == {t \in Live : Investment(t)}

LEMMA FiguresAre ==
  ASSUME NEW start, NEW end
  PROVE  /\ Figures(start, end, Null).expenses = Sum(Of(Spenders, start, end))
         /\ Figures(start, end, Null).income = Sum(Of(Earners, start, end))
         /\ Figures(start, end, Null).cards = Sum(Of(Payers, start, end))
         /\ Figures(start, end, Null).investments = Sum(Of(Investors, start, end))
         /\ Figures(start, end, Null).saved =
              Sum(Of(Earners, start, end)) - Sum(Of(Spenders, start, end))
                - Sum(Of(Payers, start, end)) - Sum(Of(Investors, start, end))
<1> DEFINE S == {t \in Live : In(t, start, end)}
<1>1. /\ {t \in S : Expense(t) /\ (Null # Null => Filtered(t, Null))} = Of(Spenders, start, end)
      /\ {t \in S : Income(t)} = Of(Earners, start, end)
      /\ {t \in S : CardPayment(t)} = Of(Payers, start, end)
      /\ {t \in S : Investment(t)} = Of(Investors, start, end)
  BY DEF Of, Spenders, Earners, Payers, Investors
<1> QED BY <1>1 DEF Figures

LEMMA SumsTyped ==
  ASSUME NEW C, C \subseteq Live, NEW start, NEW end
  PROVE  Of(C, start, end) \subseteq Entries /\ Sum(Of(C, start, end)) \in Nat
<1>1. Of(C, start, end) \subseteq Entries
  BY DEF Of, Live
<1> QED BY <1>1, SumFacts

LEMMA Summaries ==
  ASSUME NEW period \in Periods
  PROVE  /\ GetSummary(Start(period), End) = Figures(Start(period), End, Null)
         /\ GetTopMerchants(Start(period), End) = TopMerchants(Start(period), End)
         /\ HasRollup(Start(period), End) =>
              FirstOf(Start(period)) = Start(period) /\ EndOf(Start(period)) = End
<1>1. HasRollup(Start(period), End) =>
              FirstOf(Start(period)) = Start(period) /\ EndOf(Start(period)) = End
  <2> SUFFICES ASSUME HasRollup(Start(period), End)
               PROVE  FirstOf(Start(period)) = Start(period) /\ EndOf(Start(period)) = End
    OBVIOUS
  <2>1. Start(period) \in Calendar /\ Start(period)[3] = 1 /\ End \in Calendar
    BY PeriodIs
  <2>2. FirstOf(Start(period)) = Start(period)
    BY <2>1 DEF Calendar, FirstOf
  <2>3. Start(period)[1] = End[1] /\ Start(period)[2] = End[2]
    BY DEF HasRollup, SameMonth, FirstOf
  <2>4. End[1] = Today[1] /\ End[2] = Today[2]
    BY DEF End, EndOf
  <2>5. EndOf(Start(period)) = End
    BY <2>3, <2>4 DEF EndOf, End
  <2> QED BY <2>2, <2>5
<1> QED BY <1>1 DEF GetSummary, GetTopMerchants, RollupSums

LEMMA TableIs ==
  ASSUME NEW period \in Periods
  PROVE  MonthlySummary(MonthsIn(period)) =
           [i \in 1 .. MonthsIn(period) |->
              Figures(Nth(period, i), EndOf(Nth(period, i)), Null)]
<1> DEFINE n == MonthsIn(period)
<1>1. n \in Nat
  BY PeriodIs
<1>2. -(n - 1) = 1 - n
  BY <1>1
<1>3. MonthsFrom(AddMonths(Today, -(n - 1)), Today) = [i \in 1 .. n |-> Nth(period, i)]
  BY <1>2, MonthsAre DEF Start, PeriodStart
<1> HIDE DEF n
<1> QED BY <1>3 DEF MonthlySummary, RollupSums, n

LEMMA TableAddsUp ==
  ASSUME FgTypeOK, NEW period \in Periods
  PROVE  /\ Len(MonthlySummary(MonthsIn(period))) = MonthsIn(period)
         /\ Column(MonthlySummary(MonthsIn(period)), "expenses") = GetSummary(Start(period), End).expenses
         /\ Column(MonthlySummary(MonthsIn(period)), "saved") = GetSummary(Start(period), End).saved
<1> DEFINE table == MonthlySummary(MonthsIn(period))
           K == 1 .. MonthsIn(period)
           Cells(i) == Figures(Nth(period, i), EndOf(Nth(period, i)), Null)
<1>1. table = [i \in K |-> Cells(i)] /\ DOMAIN table = K /\ IsFiniteSet(K) /\ MonthsIn(period) \in Nat
  BY TableIs, PeriodIs, FS_Interval
<1>2. Len(table) = MonthsIn(period)
  BY <1>1
<1> DEFINE month(C) == [i \in K |-> Sum(Of(C, Nth(period, i), EndOf(Nth(period, i))))]
           e == month(Earners)
           s == month(Spenders)
           p == month(Payers)
           v == month(Investors)
           es == [i \in K |-> e[i] - s[i]]
           esp == [i \in K |-> es[i] - p[i]]
           left == [i \in K |-> esp[i] - v[i]]
<1>3. Spenders \subseteq Live /\ Earners \subseteq Live /\ Payers \subseteq Live /\ Investors \subseteq Live
  BY DEF Spenders, Earners, Payers, Investors
<1>4. \A i \in K : e[i] \in Nat /\ s[i] \in Nat /\ p[i] \in Nat /\ v[i] \in Nat
  BY <1>3, SumsTyped
<1>5. /\ Total(e, K) = Sum(Of(Earners, Start(period), End))
      /\ Total(s, K) = Sum(Of(Spenders, Start(period), End))
      /\ Total(p, K) = Sum(Of(Payers, Start(period), End))
      /\ Total(v, K) = Sum(Of(Investors, Start(period), End))
  BY <1>3, MonthsAddUp
<1>6. \A i \in K : table[i]["expenses"] = s[i] /\ table[i]["saved"] = left[i]
  <2> SUFFICES ASSUME NEW i \in K PROVE Cells(i).expenses = s[i] /\ Cells(i).saved = left[i]
    BY <1>1
  <2> QED BY FiguresAre
<1>10. /\ \A i \in K : es[i] = e[i] - s[i] /\ esp[i] = es[i] - p[i] /\ left[i] = esp[i] - v[i]
  OBVIOUS
<1> HIDE DEF table, K, e, s, p, v, es, esp, left
<1>7. Column(table, "expenses") = Total(s, K) /\ Column(table, "saved") = Total(left, K)
  BY <1>1, <1>6, ColumnIs
<1>8. Total(left, K) = Total(e, K) - Total(s, K) - Total(p, K) - Total(v, K)
  <2>1. \A i \in K : e[i] \in Int /\ s[i] \in Int /\ es[i] = e[i] - s[i]
    BY <1>4, <1>10
  <2>2. Total(es, K) = Total(e, K) - Total(s, K)
    BY <1>1, <2>1, TotalLess
  <2>3. \A i \in K : es[i] \in Int /\ p[i] \in Int /\ esp[i] = es[i] - p[i]
    BY <1>4, <1>10
  <2>4. Total(esp, K) = Total(es, K) - Total(p, K)
    BY <1>1, <2>3, TotalLess
  <2>5. \A i \in K : esp[i] \in Int /\ v[i] \in Int /\ left[i] = esp[i] - v[i]
    BY <1>4, <1>10, <2>3
  <2>6. Total(left, K) = Total(esp, K) - Total(v, K)
    BY <1>1, <2>5, TotalLess
  <2> QED BY <2>2, <2>4, <2>6
<1>9. /\ GetSummary(Start(period), End).expenses = Total(s, K)
      /\ GetSummary(Start(period), End).saved = Total(e, K) - Total(s, K) - Total(p, K) - Total(v, K)
  BY <1>5, Summaries, FiguresAre
<1> QED BY <1>2, <1>7, <1>8, <1>9 DEF table

LEMMA TrendAddsUp ==
  ASSUME FgTypeOK, NEW period \in Periods
  PROVE  /\ Len(MonthlyData(Start(period), End)) = MonthsIn(period)
         /\ Column(MonthlyData(Start(period), End), "expenses") = GetSummary(Start(period), End).expenses
         /\ Column(MonthlyData(Start(period), End), "income") = GetSummary(Start(period), End).income
<1> DEFINE trend == MonthlyData(Start(period), End)
           K == 1 .. MonthsIn(period)
           Ours(i) == {t \in Live : In(t, Start(period), End) /\ SameMonth(entry[t].date, Nth(period, i))}
           Cells(i) == [month |-> Nth(period, i), expenses |-> Sum({t \in Ours(i) : TrendExpense(t)}),
                      income |-> Sum({t \in Ours(i) : Income(t)})]
<1>1. /\ MonthsIn(period) \in Nat /\ IsFiniteSet(K) /\ Start(period) \in Calendar /\ Start(period)[3] = 1
      /\ MonthNo(Start(period)) = MonthNo(Today) + 1 - MonthsIn(period)
      /\ Today \in Calendar /\ MonthNo(Today) \in Int
  BY PeriodIs, FS_Interval
<1>2. FirstOf(Start(period)) = Start(period)
  BY <1>1 DEF Calendar, FirstOf
<1>3. MonthsFrom(FirstOf(Start(period)), End) = [i \in K |-> Nth(period, i)]
  BY <1>2, MonthsAre
<1>4. trend = [i \in K |-> Cells(i)]
  BY <1>3 DEF MonthlyData
<1>5. Len(trend) = MonthsIn(period) /\ DOMAIN trend = K
  BY <1>1, <1>4
<1>6. ASSUME NEW i \in K, NEW C, C \subseteq Live
      PROVE  {t \in C : In(t, Start(period), End) /\ SameMonth(entry[t].date, Nth(period, i))}
               = Of(C, Nth(period, i), EndOf(Nth(period, i)))
  <2>1. /\ Nth(period, i) \in Calendar /\ Nth(period, i)[3] = 1
        /\ MonthNo(Nth(period, i)) = MonthNo(Today) + i - MonthsIn(period)
    BY NthIs
  <2>2. \A t \in C : In(t, Nth(period, i), EndOf(Nth(period, i))) <=>
           /\ entry[t].date # Null
           /\ MonthNo(Nth(period, i)) <= MonthNo(entry[t].date)
           /\ MonthNo(entry[t].date) <= MonthNo(Nth(period, i))
    BY <1>6, <2>1, OfMonth
  <2>3. \A t \in C : In(t, Start(period), End) <=>
           /\ entry[t].date # Null
           /\ MonthNo(Start(period)) <= MonthNo(entry[t].date)
           /\ MonthNo(entry[t].date) <= MonthNo(Today)
    BY <1>1, <1>6, OfMonth DEF End
  <2>4. ASSUME NEW t \in C
        PROVE  In(t, Start(period), End) /\ SameMonth(entry[t].date, Nth(period, i))
                 <=> In(t, Nth(period, i), EndOf(Nth(period, i)))
    <3>1. CASE entry[t].date = Null
      BY <2>2, <2>3, <3>1
    <3>2. CASE entry[t].date # Null
      <4>1. entry[t].date \in Calendar /\ MonthNo(entry[t].date) \in Int
        BY <1>6, <3>2, Dated
      <4>2. SameMonth(entry[t].date, Nth(period, i)) <=> MonthNo(entry[t].date) = MonthNo(Nth(period, i))
        BY <2>1, <4>1, SameMonthIs
      <4>3. i \in 1 .. MonthsIn(period)
        OBVIOUS
      <4> DEFINE m == MonthNo(entry[t].date)
                 b == MonthNo(Nth(period, i))
                 a == MonthNo(Start(period))
                 z == MonthNo(Today)
      <4>4. m \in Int /\ b = z + i - MonthsIn(period) /\ a = z + 1 - MonthsIn(period) /\ z \in Int
        BY <1>1, <2>1, <4>1
      <4>5. m = b <=> (b <= m /\ m <= b) /\ a <= m /\ m <= z
        <5> HIDE DEF m, b, a, z, K
        <5> QED BY <1>1, <4>3, <4>4
      <4>6. m = b <=> b <= m /\ m <= b
        <5> HIDE DEF m, b, a, z, K
        <5> QED BY <1>1, <4>3, <4>4
      <4> QED BY <2>2, <2>3, <3>2, <4>2, <4>5, <4>6
    <3> QED BY <3>1, <3>2
  <2> QED BY <2>4 DEF Of
<1> DEFINE s == [i \in K |-> Sum(Of(Spenders, Nth(period, i), EndOf(Nth(period, i))))]
           e == [i \in K |-> Sum(Of(Earners, Nth(period, i), EndOf(Nth(period, i))))]
<1>7. ASSUME NEW i \in K PROVE Cells(i).expenses = s[i] /\ Cells(i).income = e[i]
  <2>1. {t \in Ours(i) : TrendExpense(t)}
          = {t \in Spenders : In(t, Start(period), End) /\ SameMonth(entry[t].date, Nth(period, i))}
    BY DEF Spenders, TrendExpense, Expense
  <2>2. {t \in Ours(i) : Income(t)}
          = {t \in Earners : In(t, Start(period), End) /\ SameMonth(entry[t].date, Nth(period, i))}
    BY DEF Earners
  <2>3. Spenders \subseteq Live /\ Earners \subseteq Live
    BY DEF Spenders, Earners
  <2>4. /\ {t \in Ours(i) : TrendExpense(t)} = Of(Spenders, Nth(period, i), EndOf(Nth(period, i)))
        /\ {t \in Ours(i) : Income(t)} = Of(Earners, Nth(period, i), EndOf(Nth(period, i)))
    BY <1>6, <2>1, <2>2, <2>3
  <2> HIDE DEF Ours
  <2> QED BY <2>4
<1>8. \A i \in K : trend[i]["expenses"] = s[i] /\ trend[i]["income"] = e[i]
  <2> SUFFICES ASSUME NEW i \in K PROVE trend[i].expenses = s[i] /\ trend[i].income = e[i]
    OBVIOUS
  <2>1. trend[i] = Cells(i)
    BY <1>4
  <2> HIDE DEF Cells, s, e, trend
  <2> QED BY <1>7, <2>1
<1>9. Spenders \subseteq Live /\ Earners \subseteq Live
  BY DEF Spenders, Earners
<1>10. /\ \A i \in K : s[i] = Sum(Of(Spenders, Nth(period, i), EndOf(Nth(period, i))))
       /\ \A i \in K : e[i] = Sum(Of(Earners, Nth(period, i), EndOf(Nth(period, i))))
  OBVIOUS
<1>11. /\ Total(s, K) = Sum(Of(Spenders, Start(period), End))
       /\ Total(e, K) = Sum(Of(Earners, Start(period), End))
  BY <1>9, <1>10, MonthsAddUp
<1> HIDE DEF trend, K, s, e
<1>12. Column(trend, "expenses") = Total(s, K) /\ Column(trend, "income") = Total(e, K)
  BY <1>1, <1>5, <1>8, ColumnIs
<1> QED BY <1>5, <1>11, <1>12, Summaries, FiguresAre DEF trend

-----------------------------------------------------------------------------
(* Breakdowns.  The groups under a key can be put in order, and their       *)
(* totals are the sum.                                                      *)
GroupOf(S, f, k) == [by |-> k, total |-> Sum({t \in S : f[t] = k}),
                     count |-> Cardinality({t \in S : f[t] = k})]

LEMMA GroupsIn ==
  ASSUME NEW S, S \subseteq Entries, NEW f
  PROVE  /\ \A g \in Groups(S, f) : g = GroupOf(S, f, g.by) /\ g.total \in Nat
         /\ \A t \in S : GroupOf(S, f, f[t]) \in Groups(S, f)
         /\ IsFiniteSet(Groups(S, f))
<1>1. \A k : Sum({t \in S : f[t] = k}) \in Nat
  BY SumFacts
<1>2. Groups(S, f) = {GroupOf(S, f, k) : k \in {f[t] : t \in S}}
  BY DEF Groups, GroupOf
<1>3. \A k : GroupOf(S, f, k).by = k /\ GroupOf(S, f, k).total = Sum({t \in S : f[t] = k})
  BY DEF GroupOf
<1>4. IsFiniteSet(Groups(S, f))
  <2> DEFINE h == [t \in S |-> GroupOf(S, f, f[t])]
             G == Groups(S, f)
  <2>1. /\ \A g \in G : \E t \in S : h[t] = g
        /\ \A t \in S : h[t] \in G
    BY <1>2
  <2>2. IsFiniteSet(S)
    BY SumFacts
  <2>3. \A g \in G : \E t \in S : h[t] = g
    BY <2>1
  <2>4. \A t \in S : h[t] \in G
    BY <2>1
  <2> HIDE DEF h, G
  <2>5. IsFiniteSet(G)
    BY <2>2, <2>3, <2>4, FiniteImage, Zenon
  <2> QED BY <2>5 DEF G
<1>5. ASSUME NEW g \in Groups(S, f)
      PROVE  g = GroupOf(S, f, g.by) /\ g.total \in Nat
  <2>1. PICK k : g = GroupOf(S, f, k)
    BY <1>2, Zenon
  <2>2. g.by = k /\ g.total = Sum({t \in S : f[t] = k})
    BY <1>3, <2>1, Zenon
  <2> QED BY <1>1, <2>1, <2>2, Zenon
<1>6. \A t \in S : GroupOf(S, f, f[t]) \in Groups(S, f)
  BY <1>2, Zenon
<1> QED BY <1>4, <1>5, <1>6

LEMMA GroupedIs ==
  ASSUME NEW S, S \subseteq Entries, NEW f
  PROVE  Grouped(S, f) \in SetToSeqs(Groups(S, f))
<1> DEFINE G == Groups(S, f)
           R == {p \in G \X G : p[1].total >= p[2].total}
<1>1. IsFiniteSet(G) /\ \A g \in G : g.total \in Nat
  BY GroupsIn
<1> HIDE DEF G
<1>2. \A x, y \in G : <<x, y>> \in R <=> x.total >= y.total
  OBVIOUS
<1>3. R \subseteq G \X G
  OBVIOUS
<1> HIDE DEF R
<1>4. Ranks(R, G)
  BY <1>1, <1>2 DEF Ranks
<1>5. PICK q \in SetToSeqs(G) : InTurn(q, R)
  BY <1>1, <1>4, OrderFound
<1>6. \A i, j \in DOMAIN q : i < j => q[i].total >= q[j].total
  BY <1>2, <1>3, <1>5 DEF InTurn
<1> QED BY <1>5, <1>6 DEF Grouped, G

LEMMA GroupsAddUp ==
  ASSUME NEW S, S \subseteq Entries, NEW f
  PROVE  /\ Grouped(S, f) \in Seq(Groups(S, f))
         /\ TotalOf(Grouped(S, f)) = Sum(S)
<1> DEFINE G == Groups(S, f)
           q == Grouped(S, f)
           K == 1 .. Cardinality(G)
<1>1. /\ IsFiniteSet(G) /\ \A g \in G : g = GroupOf(S, f, g.by) /\ g.total \in Nat
      /\ \A t \in S : GroupOf(S, f, f[t]) \in G
  BY GroupsIn
<1>2. q \in SetToSeqs(G)
  BY GroupedIs
<1> HIDE DEF G, q
<1>3. /\ Cardinality(G) \in Nat /\ DOMAIN q = K /\ q \in Seq(G)
      /\ \A k \in K : q[k] \in G
      /\ \A x \in G : \E k \in K : q[k] = x
      /\ \A k, l \in K : q[k] = q[l] => k = l
  BY <1>1, <1>2, SeqHasAll
<1> DEFINE place == [t \in S |-> CHOOSE k \in K : q[k] = GroupOf(S, f, f[t])]
           w == [k \in K |-> q[k]["total"]]
<1>4. \A t \in S : place[t] \in K /\ q[place[t]] = GroupOf(S, f, f[t])
  BY <1>1, <1>3
<1>5. IsFiniteSet(K)
  BY <1>3, FS_Interval
<1>6. \A k \in K : w[k] = q[k]["total"]
  OBVIOUS
<1> HIDE DEF place, w, K
<1>7. ASSUME NEW k \in K PROVE w[k] = Sum(OfKey(S, place, k))
  <2>1. q[k] = GroupOf(S, f, q[k].by)
    BY <1>1, <1>3
  <2>2. \A t \in S : place[t] = k <=> f[t] = q[k].by
    <3> SUFFICES ASSUME NEW t \in S PROVE place[t] = k <=> f[t] = q[k].by
      OBVIOUS
    <3>1. f[t] = q[k].by => place[t] = k
      BY <1>3, <1>4, <2>1
    <3>2. GroupOf(S, f, f[t]).by = f[t]
      BY DEF GroupOf
    <3>3. place[t] = k => f[t] = q[k].by
      BY <1>4, <3>2
    <3> QED BY <3>1, <3>3
  <2>3. OfKey(S, place, k) = {t \in S : f[t] = q[k].by}
    BY <2>2 DEF OfKey
  <2>4. GroupOf(S, f, q[k].by).total = Sum({t \in S : f[t] = q[k].by})
    BY DEF GroupOf
  <2>5. w[k] = q[k].total
    BY <1>6
  <2>6. q[k].total = GroupOf(S, f, q[k].by).total
    BY <2>1
  <2> QED BY <2>3, <2>4, <2>5, <2>6
<1>8. Total(w, K) = Sum(S)
  BY <1>4, <1>5, <1>7, SumByKey
<1>9. Column(q, "total") = Total(w, K)
  BY <1>3, <1>5, <1>6, ColumnIs
<1> QED BY <1>3, <1>8, <1>9 DEF TotalOf, G, q

(* A part of the rows adds up to no more, and the rest to the difference.   *)
LEMMA ColumnParts ==
  ASSUME NEW G, NEW q \in Seq(G), \A g \in G : g.total \in Nat, NEW k \in 0 .. Len(q)
  PROVE  /\ TotalOf(q) \in Nat /\ TotalOf(SubSeq(q, 1, k)) \in Nat
         /\ TotalOf(SubSeq(q, k + 1, Len(q))) \in Nat
         /\ TotalOf(q) = TotalOf(SubSeq(q, 1, k)) + TotalOf(SubSeq(q, k + 1, Len(q)))
<1> DEFINE n == Len(q)
           D == 1 .. n
           A == 1 .. k
           B == (k + 1) .. n
           E == 1 .. (n - k)
           front == SubSeq(q, 1, k)
           back == SubSeq(q, k + 1, n)
           w == [i \in D |-> q[i]["total"]]
           v == [i \in E |-> back[i]["total"]]
           name == [i \in B |-> i - k]
<1>1. n \in Nat /\ k \in Nat /\ k <= n /\ DOMAIN q = D /\ \A i \in D : q[i] \in G
  OBVIOUS
<1>2. DOMAIN front = A /\ \A i \in A : front[i] = q[i]
  BY <1>1
<1>3. DOMAIN back = E /\ \A i \in E : back[i] = q[k + i]
  BY <1>1
<1>4. D = A \cup B /\ A \cap B = {} /\ A \subseteq D /\ B \subseteq D
  BY <1>1
<1>5. IsFiniteSet(D) /\ IsFiniteSet(A) /\ IsFiniteSet(B) /\ IsFiniteSet(E)
  BY <1>1, FS_Interval
<1>6. \A i \in D : w[i] = q[i]["total"] /\ w[i] \in Nat
  BY <1>1
<1>7. \A i \in E : k + i \in B /\ v[i] = w[k + i] /\ v[i] = back[i]["total"]
  BY <1>1, <1>3, <1>4
<1>8. \A i \in B : i - k \in E /\ name[i] = i - k
  BY <1>1
<1>9. TotalOf(q) = Total(w, D)
  <2> HIDE DEF D, w
  <2> QED BY <1>1, <1>5, <1>6, ColumnIs DEF TotalOf
<1>10. TotalOf(front) = Total(w, A)
  <2>1. \A i \in DOMAIN front : w[i] = front[i]["total"]
    BY <1>2, <1>4, <1>6
  <2> HIDE DEF A, w, front
  <2> QED BY <1>2, <1>5, <2>1, ColumnIs DEF TotalOf
<1>11. TotalOf(back) = Total(v, E)
  <2> HIDE DEF E, v, back
  <2> QED BY <1>3, <1>5, <1>7, ColumnIs DEF TotalOf
<1>12. Total(v, E) = Total(w, B)
  <2>1. \A i \in B : name[i] \in E /\ w[i] \in Int /\ v[name[i]] = w[i]
    <3> SUFFICES ASSUME NEW i \in B PROVE i - k \in E /\ w[i] \in Int /\ v[i - k] = w[i]
      BY <1>8
    <3>1. i - k \in E /\ k + (i - k) = i
      BY <1>1
    <3>2. v[i - k] = w[k + (i - k)]
      <4> HIDE DEF E, v, w
      <4> QED BY <1>7, <3>1
    <3>3. w[i] \in Nat
      <4> HIDE DEF w, B, D
      <4> QED BY <1>4, <1>6
    <3> HIDE DEF w, v, E
    <3> QED BY <3>1, <3>2, <3>3
  <2>2. \A j \in E : \E i \in B : name[i] = j
    <3> SUFFICES ASSUME NEW j \in E PROVE k + j \in B /\ name[k + j] = j
      OBVIOUS
    <3> QED BY <1>1
  <2>3. \A i, j \in B : name[i] = name[j] => i = j
    BY <1>1
  <2> HIDE DEF B, E, name, v, w
  <2>4. \A x \in B : name[x] \in E
    BY <2>1
  <2>5. \A x \in B : w[x] \in Int /\ v[name[x]] = w[x]
    BY <2>1
  <2>6. IsFiniteSet(B) /\ IsFiniteSet(E)
    BY <1>5
  <2>7. \A x, y \in B : name[x] = name[y] => x = y
    BY <2>3
  <2>8. \A j \in E : \E x \in B : name[x] = j
    BY <2>2
  <2> QED BY <2>4, <2>5, <2>6, <2>7, <2>8, TotalRenamed
<1> HIDE DEF D, A, B, E, w, v, front, back, n
<1>13. Total(w, D) = Total(w, A) + Total(w, B)
  <2>1. \A x \in A \cup B : w[x] \in Int
    BY <1>4, <1>6
  <2> QED BY <1>4, <1>5, <2>1, TotalUnion
<1>14. Total(w, D) \in Nat /\ Total(w, A) \in Nat /\ Total(w, B) \in Nat
  BY <1>4, <1>5, <1>6, TotalPart
<1> QED BY <1>9, <1>10, <1>11, <1>12, <1>13, <1>14 DEF front, back, n

LEMMA OneMore ==
  ASSUME NEW q, NEW G, q \in Seq(G), \A g \in G : g.total \in Nat, NEW r, r.total \in Nat
  PROVE  TotalOf(Append(q, r)) = TotalOf(q) + r.total
<1> DEFINE n == Len(q)
           D == 1 .. n
           p == Append(q, r)
           w == [i \in 1 .. (n + 1) |-> p[i]["total"]]
<1>1. /\ n \in Nat /\ DOMAIN q = D /\ \A i \in D : q[i] \in G
      /\ DOMAIN p = 1 .. (n + 1) /\ p[n + 1] = r /\ \A i \in D : p[i] = q[i]
  OBVIOUS
<1> HIDE DEF n
<1>2. 1 .. (n + 1) = D \cup {n + 1} /\ n + 1 \notin D /\ IsFiniteSet(D) /\ IsFiniteSet(1 .. (n + 1))
  <2>1. n + 1 \in Int
    BY <1>1
  <2>2. IsFiniteSet(D) /\ IsFiniteSet(1 .. (n + 1))
    BY <1>1, <2>1, FS_Interval
  <2>3. 1 .. (n + 1) = D \cup {n + 1} /\ n + 1 \notin D
    BY <1>1
  <2> QED BY <2>2, <2>3
<1> HIDE DEF p, n, D
<1>3. /\ w[n + 1] = r.total /\ \A i \in D : w[i] = q[i]["total"] /\ w[i] \in Nat
      /\ \A i \in DOMAIN p : w[i] = p[i]["total"]
  BY <1>1, <1>2
<1> HIDE DEF w
<1>4. TotalOf(q) = Total(w, D)
  BY <1>1, <1>2, <1>3, ColumnIs DEF TotalOf
<1>5. TotalOf(p) = Total(w, D \cup {n + 1})
  BY <1>1, <1>2, <1>3, ColumnIs DEF TotalOf
<1>6. \A y \in D \cup {n + 1} : w[y] \in Int
  BY <1>3
<1>7. Total(w, D \cup {n + 1}) = w[n + 1] + Total(w, D)
  BY <1>2, <1>6, TotalMore
<1>8. Total(w, D) \in Int
  BY <1>2, <1>6, TotalType
<1> QED BY <1>3, <1>4, <1>5, <1>7, <1>8 DEF p

(* The smaller categories that become "Other" are still in the sum.         *)
LEMMA TruncatedTotal ==
  ASSUME NEW G, NEW q \in Seq(G), \A g \in G : g.total \in Nat
  PROVE  TotalOf(Truncated(q)) = TotalOf(q)
<1>1. CASE Len(q) <= BreakdownLimit
  BY <1>1 DEF Truncated
<1>2. CASE ~(Len(q) <= BreakdownLimit)
  <2> DEFINE k == BreakdownLimit
             front == SubSeq(q, 1, k)
             back == SubSeq(q, k + 1, Len(q))
             other == [by |-> "Other", total |-> TotalOf(back), count |-> Column(back, "count")]
  <2>1. k \in 0 .. Len(q)
    BY <1>2, FiguresAssumption
  <2>2. TotalOf(q) = TotalOf(front) + TotalOf(back) /\ TotalOf(back) \in Nat /\ TotalOf(front) \in Nat
    <3> HIDE DEF k
    <3> QED BY <2>1, ColumnParts
  <2>3. front \in Seq(G)
    BY <2>1
  <2>4. Truncated(q) = Append(front, other)
    BY <1>2 DEF Truncated
  <2>5. other.total = TotalOf(back)
    OBVIOUS
  <2> HIDE DEF k, front, back, other
  <2>6. TotalOf(Append(front, other)) = TotalOf(front) + other.total
    BY <2>2, <2>3, <2>5, OneMore
  <2> QED BY <2>2, <2>4, <2>5, <2>6
<1> QED BY <1>1, <1>2

LEMMA SplitAddsUp ==
  ASSUME NEW period \in Periods
  PROVE  /\ GetBreakdown(Start(period), End).total = GetSummary(Start(period), End).expenses
         /\ TotalOf(GetBreakdown(Start(period), End).rows) = GetSummary(Start(period), End).expenses
<1> DEFINE S == Of(Spenders, Start(period), End)
           split == GetBreakdown(Start(period), End)
<1>1. S \subseteq Entries
  BY DEF Of, Spenders, Live
<1>2. GetSummary(Start(period), End).expenses = Sum(S)
  BY Summaries, FiguresAre
<1>3. {t \in Live : In(t, Start(period), End) /\ Expense(t)} = S
  BY DEF Of, Spenders
<1>4. Grouped(S, CategoryOf) \in Seq(Groups(S, CategoryOf)) /\ TotalOf(Grouped(S, CategoryOf)) = Sum(S)
  BY <1>1, GroupsAddUp
<1>5. CASE HasRollup(Start(period), End)
  <2>1. RollupRows(FirstOf(Start(period))) = Grouped(S, CategoryOf)
    BY <1>3, <1>5, Summaries DEF RollupRows
  <2>2. split = [rows |-> Grouped(S, CategoryOf), total |-> TotalOf(Grouped(S, CategoryOf))]
    BY <1>5, <2>1 DEF GetBreakdown
  <2> HIDE DEF S
  <2> QED BY <1>2, <1>4, <2>2
<1>6. CASE ~HasRollup(Start(period), End)
  <2>1. {t \in Live : In(t, Start(period), End) /\ Expense(t) /\ (Null # Null => Filtered(t, Null))} = S
    BY <1>3
  <2>2. Breakdown(Start(period), End, Null) = [rows |-> Truncated(Grouped(S, CategoryOf)), total |-> Sum(S)]
    BY <2>1 DEF Breakdown
  <2>3. split = [rows |-> Truncated(Grouped(S, CategoryOf)), total |-> Sum(S)]
    BY <1>6, <2>2 DEF GetBreakdown
  <2>4. \A g \in Groups(S, CategoryOf) : g.total \in Nat
    BY <1>1, GroupsIn
  <2>5. TotalOf(Truncated(Grouped(S, CategoryOf))) = TotalOf(Grouped(S, CategoryOf))
    <3> HIDE DEF S
    <3> QED BY <1>4, <2>4, TruncatedTotal
  <2> HIDE DEF S
  <2> QED BY <1>2, <1>4, <2>3, <2>5
<1> QED BY <1>5, <1>6

LEMMA TopIsPart ==
  ASSUME NEW period \in Periods
  PROVE  TotalOf(GetTopMerchants(Start(period), End)) <= GetSummary(Start(period), End).expenses
<1> DEFINE S == {t \in Live : In(t, Start(period), End) /\ Expense(t) /\ MerchantOf[t] # Null}
           all == Grouped(S, MerchantOf)
           k == IF Len(all) < MerchantLimit THEN Len(all) ELSE MerchantLimit
<1>1. S \subseteq Of(Spenders, Start(period), End) /\ Of(Spenders, Start(period), End) \subseteq Entries
  BY DEF Of, Spenders, Live
<1>2. GetSummary(Start(period), End).expenses = Sum(Of(Spenders, Start(period), End))
  BY Summaries, FiguresAre
<1>3. GetTopMerchants(Start(period), End) = SubSeq(all, 1, k)
  BY Summaries DEF TopMerchants
<1>4. S \subseteq Entries
  BY <1>1
<1> HIDE DEF S
<1>5. all \in Seq(Groups(S, MerchantOf)) /\ TotalOf(all) = Sum(S)
  BY <1>4, GroupsAddUp
<1>6. \A g \in Groups(S, MerchantOf) : g.total \in Nat
  BY <1>4, GroupsIn
<1>7. k \in 0 .. Len(all)
  <2>1. Len(all) \in Nat
    BY <1>5
  <2> QED BY <2>1, FiguresAssumption
<1> HIDE DEF all, k
<1>8. /\ TotalOf(all) \in Nat /\ TotalOf(SubSeq(all, 1, k)) \in Nat
      /\ TotalOf(SubSeq(all, k + 1, Len(all))) \in Nat
      /\ TotalOf(all) = TotalOf(SubSeq(all, 1, k)) + TotalOf(SubSeq(all, k + 1, Len(all)))
  BY <1>5, <1>6, <1>7, ColumnParts
<1>9. Sum(S) <= Sum(Of(Spenders, Start(period), End)) /\ Sum(Of(Spenders, Start(period), End)) \in Nat
  BY <1>1, SumFacts
<1> QED BY <1>2, <1>3, <1>5, <1>8, <1>9

LEMMA TablesAlwaysAgree == ASSUME FgTypeOK PROVE TablesAgree
<1> SUFFICES ASSUME NEW period \in Periods
    PROVE  LET range == PeriodRange(PeriodStart(period), EndOf(Today), period)
               start == range[1]
               end   == range[2]
               sums  == GetSummary(start, end)
               table == MonthlySummary(MonthsIn(period))
               trend == MonthlyData(start, end)
               split == GetBreakdown(start, end)
               top   == GetTopMerchants(start, end)
           IN /\ Len(table) = MonthsIn(period) /\ Len(trend) = MonthsIn(period)
              /\ Column(table, "expenses") = sums.expenses
              /\ Column(table, "saved") = sums.saved
              /\ Column(trend, "expenses") = sums.expenses
              /\ Column(trend, "income") = sums.income
              /\ split.total = sums.expenses /\ TotalOf(split.rows) = sums.expenses
              /\ TotalOf(top) <= sums.expenses
  BY Zenon DEF TablesAgree
<1>1. PeriodRange(PeriodStart(period), EndOf(Today), period) = <<Start(period), End>>
  BY PeriodIs DEF PeriodRange, Start, End
<1>2. /\ PeriodRange(PeriodStart(period), EndOf(Today), period)[1] = Start(period)
      /\ PeriodRange(PeriodStart(period), EndOf(Today), period)[2] = End
  BY <1>1
<1> QED BY <1>2, TableAddsUp, TrendAddsUp, SplitAddsUp, TopIsPart

-----------------------------------------------------------------------------
(* What is spent is spent once: the filters by category share it out.       *)
LEMMA KeysFinite == IsFiniteSet(Keys)
<1> DEFINE C == DOMAIN Canonical
           T == {Canonical[c] : c \in C}
<1>1. IsFiniteSet(C)
  BY FiguresAssumption, FS_Subset
<1>2. IsFiniteSet(T)
  <2>1. (\A k \in T : \E c \in C : Canonical[c] = k) /\ (\A c \in C : Canonical[c] \in T)
    OBVIOUS
  <2> HIDE DEF C, T
  <2> QED BY <1>1, <2>1, FiniteImage
<1>3. Keys = T \cup {"other"}
  BY DEF Keys
<1> HIDE DEF T
<1> QED BY <1>2, <1>3, FS_AddElement

LEMMA KeysIs ==
  ASSUME NEW g, \A k \in Keys : g[k] = Figures(Always[1], Always[2], k).expenses
  PROVE  MapThenSumSet(LAMBDA k : Figures(Always[1], Always[2], k).expenses, Keys) = Total(g, Keys)
<1> DEFINE F(k) == Figures(Always[1], Always[2], k).expenses
<1>1. IsFiniteSet(Keys) /\ \A k \in Keys : g[k] = F(k)
  BY KeysFinite
<1> DEFINE Eq(it) == it = [s \in SUBSET Keys |-> IF s = {} THEN 0 ELSE F(OneOf(s)) + it[s \ {OneOf(s)}]]
           h == CHOOSE it : Eq(it)
<1>2. \A s \in SUBSET Keys : s # {} => g[OneOf(s)] = F(OneOf(s))
  <2> HIDE DEF F
  <2> SUFFICES ASSUME NEW s \in SUBSET Keys, s # {} PROVE g[OneOf(s)] = F(OneOf(s))
    OBVIOUS
  <2>1. OneOf(s) \in Keys
    BY <1>1, Rest
  <2> QED BY <1>1, <2>1
<1> HIDE DEF F
<1>3. \A it : Eq(it) <=> Summed(it, g, SUBSET Keys)
  BY <1>2, Zenon DEF Summed
<1>4. (CHOOSE it : Eq(it)) = (CHOOSE it : Summed(it, g, SUBSET Keys))
  BY <1>3, Zenon
<1>5. MapThenSumSet(LAMBDA k : Figures(Always[1], Always[2], k).expenses, Keys) = h[Keys]
  BY DEF MapThenSumSet, MapThenFoldSet, OneOf, F
<1>6. Total(g, Keys) = (CHOOSE it : Summed(it, g, SUBSET Keys))[Keys]
  BY DEF Total, MapThenSumSet, MapThenFoldSet, OneOf, Summed
<1> QED BY <1>4, <1>5, <1>6, Zenon

LEMMA KeysShare ==
  ASSUME FgTypeOK
  PROVE  MapThenSumSet(LAMBDA k : Figures(Always[1], Always[2], k).expenses, Keys)
           = Figures(Always[1], Always[2], Null).expenses
<1> DEFINE S == Of(Spenders, Always[1], Always[2])
           key == [t \in S |-> KeyOf(entry[t].cat)]
           g == [k \in Keys |-> Figures(Always[1], Always[2], k).expenses]
<1>1. S \subseteq Entries
  BY DEF Of, Spenders, Live
<1>2. \A t \in S : key[t] \in Keys
  <2> SUFFICES ASSUME NEW t \in S PROVE KeyOf(entry[t].cat) \in Keys
    OBVIOUS
  <2> QED BY DEF KeyOf, Keys
<1>3. ASSUME NEW k \in Keys PROVE Figures(Always[1], Always[2], k).expenses = Sum(OfKey(S, key, k))
  <2>1. k # Null
    BY FiguresAssumption
  <2>2. {t \in {t \in Live : In(t, Always[1], Always[2])} : Expense(t) /\ (k # Null => Filtered(t, k))}
          = OfKey(S, key, k)
    BY <2>1 DEF OfKey, Of, Spenders, Filtered
  <2> HIDE DEF S, key
  <2> QED BY <2>2 DEF Figures
<1>4. /\ \A k \in Keys : g[k] = Figures(Always[1], Always[2], k).expenses
      /\ \A k \in Keys : g[k] = Sum(OfKey(S, key, k))
  BY <1>3
<1> HIDE DEF g, key, S
<1>5. Total(g, Keys) = Sum(S)
  BY <1>1, <1>2, <1>4, KeysFinite, SumByKey
<1>6. Figures(Always[1], Always[2], Null).expenses = Sum(S)
  BY FiguresAre DEF S
<1>7. MapThenSumSet(LAMBDA k : Figures(Always[1], Always[2], k).expenses, Keys) = Total(g, Keys)
  BY <1>4, KeysIs
<1> QED BY <1>5, <1>6, <1>7, Zenon

LEMMA AlwaysSpentOnce == ASSUME FgTypeOK PROVE SpentOnce
<1>1. \A t \in Live : Expense(t) => ~Income(t) /\ ~CardPayment(t) /\ ~Investment(t)
  <2> SUFFICES ASSUME NEW t \in Live, Expense(t)
               PROVE  ~Income(t) /\ ~CardPayment(t) /\ ~Investment(t)
    OBVIOUS
  <2>1. Null # "cc_payment" /\ Null # "investment"
    BY FiguresAssumption
  <2> QED BY <2>1 DEF Expense, Purchase, Income, CardPayment, Investment
<1> QED BY <1>1, KeysShare, Zenon DEF SpentOnce

-----------------------------------------------------------------------------
(* Windows: one ends the day before the next begins.                        *)
LEMMA PeriodsAlwaysFit == ASSUME FgTypeOK PROVE PeriodsFit
<1> DEFINE now == DayNumber(Today)
<1>1. \A d \in Calendar : DayNumber(d) \in Int
  BY DEF Calendar, DayNumber
<1>2. now \in Int
  BY <1>1, FiguresAssumption DEF Calendar
<1>3. ASSUME NEW period \in Periods
      PROVE  LET from == DayNumber(PeriodStart(period))
                 prev == Previous(from, now)
             IN prev[2] = from - 1 /\ prev[2] - prev[1] = now - from
  <2>1. DayNumber(PeriodStart(period)) \in Int
    BY <1>1, PeriodIs DEF Start
  <2> HIDE DEF now
  <2> QED BY <1>2, <2>1 DEF Previous
<1>4. SpentBetween(Before(now)) + SpentBetween(Recent(now)) = SpentBetween(<<now - 60, now>>)
  <2> DEFINE Span(a, b) == {t \in Live : /\ entry[t].label = "expense" /\ entry[t].date # Null
                                       /\ a <= DayNumber(entry[t].date) /\ DayNumber(entry[t].date) <= b}
  <2>1. \A t \in Live : entry[t].date # Null => DayNumber(entry[t].date) \in Int
    BY <1>1, Dated
  <2> HIDE DEF now
  <2>2. /\ SpentBetween(Before(now)) = Sum(Span(now - 60, now - 31))
        /\ SpentBetween(Recent(now)) = Sum(Span(now - 30, now))
        /\ SpentBetween(<<now - 60, now>>) = Sum(Span(now - 60, now))
    BY DEF SpentBetween, Before, Recent
  <2>3. \A a, b : Span(a, b) \subseteq Entries
    BY DEF Live
  <2>4. /\ Span(now - 60, now) = Span(now - 60, now - 31) \cup Span(now - 30, now)
        /\ Span(now - 60, now - 31) \cap Span(now - 30, now) = {}
    BY <1>2, <2>1
  <2> HIDE DEF Span
  <2>5. Sum(Span(now - 60, now - 31) \cup Span(now - 30, now))
          = Sum(Span(now - 60, now - 31)) + Sum(Span(now - 30, now))
    BY <2>3, <2>4, SumParts
  <2> QED BY <2>2, <2>4, <2>5
<1>5. SpentBetween(Before(now)) = 0 => Insight(now) = "none"
  <2> HIDE DEF now
  <2> SUFFICES ASSUME SpentBetween(Before(now)) = 0 PROVE Insight(now) = "none"
    OBVIOUS
  <2>1. ~(SpentBetween(Before(now)) > 0)
    OBVIOUS
  <2> QED BY <2>1 DEF Insight
<1> QED BY <1>3, <1>4, <1>5 DEF PeriodsFit

-----------------------------------------------------------------------------
(* Budgets: what is linked.                                                 *)
LinkPairs(c, links) ==
  {k \in ThisMonth \X links : entry[k[1]].cat = k[2].source /\ Lower[k[2].target] = Lower[c]}
Charged(k) == IF AmountOf[k[1]] < k[2].split THEN AmountOf[k[1]] ELSE k[2].split

LEMMA LinkedIs ==
  ASSUME NEW c, NEW links, NEW P, P = LinkPairs(c, links), IsFiniteSet(P),
         NEW g, \A k \in P : g[k] = Charged(k)
  PROVE  Linked(c, links) = Total(g, P)
<1> DEFINE Eq(it) == it = [s \in SUBSET P |-> IF s = {} THEN 0 ELSE Charged(OneOf(s)) + it[s \ {OneOf(s)}]]
           h == CHOOSE it : Eq(it)
<1>2. \A s \in SUBSET P : s # {} => g[OneOf(s)] = Charged(OneOf(s))
  <2> SUFFICES ASSUME NEW s \in SUBSET P, s # {} PROVE g[OneOf(s)] = Charged(OneOf(s))
    OBVIOUS
  <2>1. OneOf(s) \in P
    BY Rest
  <2> QED BY <2>1
<1>3. \A it : Eq(it) <=> Summed(it, g, SUBSET P)
  BY <1>2, Zenon DEF Summed
<1>4. (CHOOSE it : Eq(it)) = (CHOOSE it : Summed(it, g, SUBSET P))
  BY <1>3, Zenon
<1>5. Linked(c, links) = h[P]
  BY DEF Linked, MapThenSumSet, MapThenFoldSet, OneOf, Charged, LinkPairs
<1>6. Total(g, P) = (CHOOSE it : Summed(it, g, SUBSET P))[P]
  BY DEF Total, MapThenSumSet, MapThenFoldSet, OneOf, Summed
<1> QED BY <1>4, <1>5, <1>6, Zenon

LEMMA LinksAlwaysBounded == ASSUME FgTypeOK PROVE LinksBounded
<1> SUFFICES ASSUME NEW c \in Categories, NEW d \in Categories, NEW u \in Live, Lower[c] # Lower[d]
    PROVE  BudgetSpent(d, {[source |-> c, target |-> d, split |-> AmountOf[u]]}) <= Spent(c) + Spent(d)
  BY DEF LinksBounded
<1> DEFINE link == [source |-> c, target |-> d, split |-> AmountOf[u]]
           M == {t \in ThisMonth : entry[t].cat = c}
           P == LinkPairs(d, {link})
           name == [k \in P |-> k[1]]
           g == [k \in P |-> Charged(k)]
           w == [t \in M |-> Charged(<<t, link>>)]
<1>1. ThisMonth \subseteq Entries /\ M \subseteq ThisMonth /\ M \subseteq Entries
  BY DEF ThisMonth, Live
<1>2. P = {<<t, link>> : t \in M}
  BY DEF LinkPairs
<1>3. IsFiniteSet(M)
  BY <1>1, SumFacts
<1>4. AmountOf[u] \in Nat /\ \A t \in M : AmountOf[t] \in Nat
  BY <1>1, FiguresAssumption DEF Live
<1>5. \A t \in M : w[t] \in Nat /\ w[t] <= AmountOf[t]
  <2> SUFFICES ASSUME NEW t \in M PROVE w[t] \in Nat /\ w[t] <= AmountOf[t]
    OBVIOUS
  <2>1. w[t] = IF AmountOf[t] < AmountOf[u] THEN AmountOf[t] ELSE AmountOf[u]
    BY DEF Charged
  <2> HIDE DEF w
  <2> QED BY <1>4, <2>1
<1>6. IsFiniteSet(P)
  <2> DEFINE h == [t \in M |-> <<t, link>>]
  <2>1. (\A k \in P : \E t \in M : h[t] = k) /\ (\A t \in M : h[t] \in P)
    BY <1>2
  <2> HIDE DEF h, P, M
  <2> QED BY <1>3, <2>1, FiniteImage
<1>7. /\ \A k \in P : name[k] \in M /\ k = <<name[k], link>>
      /\ \A t \in M : <<t, link>> \in P /\ name[<<t, link>>] = t
  <2>1. \A k \in P : name[k] = k[1]
    OBVIOUS
  <2> HIDE DEF P, M, link, name
  <2> QED BY <1>2, <2>1
<1>8. \A k \in P : g[k] = Charged(k) /\ w[name[k]] = g[k]
  BY <1>7
<1> HIDE DEF P, M, name, g, w, link
<1>9. Total(w, M) = Total(g, P)
  <2>1. \A k \in P : name[k] \in M
    BY <1>7
  <2>2. \A t \in M : \E k \in P : name[k] = t
    BY <1>7
  <2>3. \A x, y \in P : name[x] = name[y] => x = y
    BY <1>7
  <2>4. \A x \in P : g[x] \in Int /\ w[name[x]] = g[x]
    BY <1>5, <1>7, <1>8
  <2> QED BY <1>3, <1>6, <2>1, <2>2, <2>3, <2>4, TotalRenamed
<1>10. Linked(d, {link}) = Total(g, P)
  BY <1>6, <1>8, LinkedIs DEF P
<1>11. Total(w, M) <= Sum(M)
  <2>1. \A t \in M : w[t] \in Int /\ AmountOf[t] \in Int /\ w[t] <= AmountOf[t]
    BY <1>4, <1>5
  <2> QED BY <1>3, <2>1, TotalAtMost, SumIs
<1>12. Sum(M) <= Spent(c) /\ Spent(c) \in Nat /\ Sum(M) \in Nat
  <2> DEFINE S == {t \in ThisMonth : entry[t].cat # Null /\ Lower[entry[t].cat] = Lower[c]}
  <2>1. M \subseteq S /\ S \subseteq Entries
    BY <1>1, FiguresAssumption DEF M
  <2> HIDE DEF S
  <2>2. Sum(M) <= Sum(S) /\ Sum(S) \in Nat /\ Sum(M) \in Nat
    BY <2>1, SumFacts
  <2> QED BY <2>2 DEF S, Spent
<1>13. Spent(d) \in Nat
  <2> DEFINE S == {t \in ThisMonth : entry[t].cat # Null /\ Lower[entry[t].cat] = Lower[d]}
  <2>1. S \subseteq Entries
    BY <1>1
  <2> HIDE DEF S
  <2>2. Sum(S) \in Nat
    BY <2>1, SumFacts
  <2> QED BY <2>2 DEF S, Spent
<1>14. Total(w, M) \in Int
  <2>1. \A t \in M : w[t] \in Int
    BY <1>5
  <2> QED BY <1>3, <2>1, TotalType
<1>15. BudgetSpent(d, {link}) = Spent(d) + Linked(d, {link})
  BY DEF BudgetSpent
<1> QED BY <1>9, <1>10, <1>11, <1>12, <1>13, <1>14, <1>15 DEF link

-----------------------------------------------------------------------------
(* Pages that go by types and pages that go by categories.                  *)
AllPlain == \A t \in Live : Plain(t)

LEMMA PlainIs ==
  ASSUME FgTypeOK, AllPlain, NEW t \in Live
  PROVE  /\ Expense(t) <=> Reviewed(t) /\ entry[t].label = "expense"
         /\ Expense(t) <=> Reviewed(t) /\ entry[t].label = "expense" /\ entry[t].type = "purchase"
         /\ Expense(t) <=> Reviewed(t) /\ Purchase(t) /\ ~Alias(entry[t].cat, "investment")
         /\ Income(t) <=> Reviewed(t) /\ entry[t].label = "income"
         /\ CardPayment(t) <=> Reviewed(t) /\ entry[t].type = "cc_payment"
         /\ Investment(t) <=> Reviewed(t) /\ entry[t].type = "investment"
<1> DEFINE l == entry[t].label
           c == entry[t].cat
           y == entry[t].type
<1>1. /\ y = TypeOf(l, c)
      /\ Alias(c, "card") => l = "ignore"
      /\ Alias(c, "investment") => l = "ignore"
  BY DEF AllPlain, Plain
<1>2. ~(Alias(c, "card") /\ Alias(c, "investment"))
  BY DEF Alias
<1>3. /\ l = "expense" => y = "purchase" /\ ~Alias(c, "card") /\ ~Alias(c, "investment")
      /\ Alias(c, "card") => y = "cc_payment"
      /\ Alias(c, "investment") => y = "investment"
  <2> HIDE DEF l, c, y
  <2> QED BY <1>1, <1>2 DEF TypeOf
<1>4. Purchase(t) <=> l = "expense" /\ y \in {"purchase", Null} /\ Reviewed(t)
  BY DEF Purchase
<1>5. /\ Expense(t) <=> Purchase(t) /\ ~Alias(c, "investment") /\ ~Alias(c, "card")
      /\ Income(t) <=> l = "income" /\ Reviewed(t)
      /\ CardPayment(t) <=> (y = "cc_payment" \/ Alias(c, "card")) /\ Reviewed(t)
      /\ Investment(t) <=> (y = "investment" \/ Alias(c, "investment")) /\ Reviewed(t)
  BY DEF Expense, Income, CardPayment, Investment
<1> HIDE DEF l, c, y
<1>6. /\ Expense(t) <=> Reviewed(t) /\ l = "expense"
      /\ Expense(t) <=> Reviewed(t) /\ l = "expense" /\ y = "purchase"
      /\ Expense(t) <=> Reviewed(t) /\ Purchase(t) /\ ~Alias(c, "investment")
      /\ Income(t) <=> Reviewed(t) /\ l = "income"
      /\ CardPayment(t) <=> Reviewed(t) /\ y = "cc_payment"
      /\ Investment(t) <=> Reviewed(t) /\ y = "investment"
  BY <1>3, <1>4, <1>5
<1> QED BY <1>6 DEF l, c, y

(* What reconciliation counts of the transactions of a range.               *)
LEMMA ReconciledIs ==
  ASSUME FgTypeOK, AllPlain, NEW start, NEW end, NEW S, S \subseteq Live,
         \A t \in Live : t \in S <=> In(t, start, end)
  PROVE  /\ Reconciled(S).income = Sum(Of(Earners, start, end))
         /\ Reconciled(S).expenses = Sum(Of(Spenders, start, end))
         /\ Reconciled(S).cards = Sum(Of(Payers, start, end))
         /\ Reconciled(S).investments = Sum(Of(Investors, start, end))
<1> DEFINE R == {t \in S : Reviewed(t)}
<1>1. \A t \in Live : /\ Expense(t) <=> Reviewed(t) /\ entry[t].label = "expense" /\ entry[t].type = "purchase"
                      /\ Income(t) <=> Reviewed(t) /\ entry[t].label = "income"
                      /\ CardPayment(t) <=> Reviewed(t) /\ entry[t].type = "cc_payment"
                      /\ Investment(t) <=> Reviewed(t) /\ entry[t].type = "investment"
  BY PlainIs
<1>2. {t \in R : entry[t].label = "expense" /\ entry[t].type = "purchase"} = Of(Spenders, start, end)
  BY <1>1 DEF Of, Spenders
<1>3. {t \in R : entry[t].label = "income"} = Of(Earners, start, end)
  BY <1>1 DEF Of, Earners
<1>4. {t \in R : entry[t].type = "cc_payment"} = Of(Payers, start, end)
  BY <1>1 DEF Of, Payers
<1>5. {t \in R : entry[t].type = "investment"} = Of(Investors, start, end)
  BY <1>1 DEF Of, Investors
<1> QED BY <1>2, <1>3, <1>4, <1>5, Zenon DEF Reconciled

(* The range "all" takes every dated transaction.                           *)
LEMMA AlwaysAll ==
  ASSUME FgTypeOK
  PROVE  \A t \in Live : In(t, Always[1], Always[2]) <=> entry[t].date # Null
<1> SUFFICES ASSUME NEW t \in Live, entry[t].date # Null
             PROVE  /\ DayNumber(Always[1]) <= DayNumber(entry[t].date)
                    /\ DayNumber(entry[t].date) <= DayNumber(Always[2])
  BY DEF In
<1> DEFINE d == entry[t].date
<1>1. d \in (2000 .. 2099) \X (1 .. 12) \X (1 .. 31)
  BY FiguresAssumption DEF FgTypeOK, Live, Entry
<1> HIDE DEF d
<1>2. d[1] \in 2000 .. 2099 /\ d[2] \in 1 .. 12 /\ d[3] \in 1 .. 31
  BY <1>1
<1>3. Always[1] = <<2000, 1, 1>> /\ Always[2] = <<2099, 12, 31>>
  BY DEF Always
<1>4. DayNumber(<<2000, 1, 1>>) <= DayNumber(d) /\ DayNumber(d) <= DayNumber(<<2099, 12, 31>>)
  <2>1. DayNumber(<<2000, 1, 1>>) = (2000 * 12 + 1) * 31 + 1
    BY DEF DayNumber
  <2>2. DayNumber(<<2099, 12, 31>>) = (2099 * 12 + 12) * 31 + 31
    BY DEF DayNumber
  <2>3. DayNumber(d) = (d[1] * 12 + d[2]) * 31 + d[3]
    BY DEF DayNumber
  <2> DEFINE y == d[1]
             m == d[2]
             n == d[3]
  <2>4. y \in 2000 .. 2099 /\ m \in 1 .. 12 /\ n \in 1 .. 31
    BY <1>2
  <2>5. DayNumber(d) = (y * 12 + m) * 31 + n
    BY <2>3
  <2> HIDE DEF y, m, n
  <2> QED BY <2>1, <2>2, <2>4, <2>5
<1> QED BY <1>3, <1>4 DEF d

LEMMA AllIs ==
  /\ StatsRange(Null, Null, "1m") = Always
  /\ GetSummary(Always[1], Always[2]) = Figures(Always[1], Always[2], Null)
<1>1. StatsRange(Null, Null, "1m") = Always
  BY DEF StatsRange
<1>2. ~HasRollup(Always[1], Always[2])
  BY DEF HasRollup, SameMonth, FirstOf, Always
<1> QED BY <1>1, <1>2 DEF GetSummary

LEMMA HealthIs ==
  ASSUME FgTypeOK, AllPlain
  PROVE  /\ Health(Null, 0).balance = GetSummary(Always[1], Always[2]).saved
         /\ HealthReport(Null, 0).expected = GetSummary(Always[1], Always[2]).saved
<1> DEFINE S == {t \in Live : Since(t, Null) /\ Reviewed(t)}
           D == {t \in Live : Since(t, Null)}
           e == Sum(Of(Earners, Always[1], Always[2]))
           s == Sum(Of(Spenders, Always[1], Always[2]))
           p == Sum(Of(Payers, Always[1], Always[2]))
           v == Sum(Of(Investors, Always[1], Always[2]))
<1>1. GetSummary(Always[1], Always[2]).saved = e - s - p - v
  BY AllIs, FiguresAre
<1>2. e \in Nat /\ s \in Nat /\ p \in Nat /\ v \in Nat
  <2>1. Earners \subseteq Live /\ Spenders \subseteq Live /\ Payers \subseteq Live /\ Investors \subseteq Live
    BY DEF Earners, Spenders, Payers, Investors
  <2> QED BY <2>1, SumsTyped
<1>3. \A t \in Live : Since(t, Null) <=> In(t, Always[1], Always[2])
  BY AlwaysAll DEF Since
<1>4. \A t \in Live : /\ Expense(t) <=> Reviewed(t) /\ Purchase(t) /\ ~Alias(entry[t].cat, "investment")
                      /\ Income(t) <=> Reviewed(t) /\ entry[t].label = "income"
                      /\ CardPayment(t) <=> Reviewed(t) /\ entry[t].type = "cc_payment"
                      /\ Investment(t) => Reviewed(t)
  BY PlainIs
<1>5. /\ {t \in S : Purchase(t) /\ ~Alias(entry[t].cat, "investment")} = Of(Spenders, Always[1], Always[2])
      /\ {t \in S : entry[t].type = "cc_payment"} = Of(Payers, Always[1], Always[2])
      /\ {t \in S : Investment(t)} = Of(Investors, Always[1], Always[2])
      /\ {t \in S : entry[t].label = "income"} = Of(Earners, Always[1], Always[2])
  BY <1>3, <1>4 DEF Of, Spenders, Payers, Investors, Earners
<1>6. Health(Null, 0).balance = 0 + e - s - p - v
  BY <1>5 DEF Health
<1>7. /\ Reconciled(D).income = e /\ Reconciled(D).expenses = s
      /\ Reconciled(D).cards = p /\ Reconciled(D).investments = v
  <2>1. D \subseteq Live /\ \A t \in Live : t \in D <=> In(t, Always[1], Always[2])
    BY <1>3
  <2> HIDE DEF D
  <2> QED BY <2>1, ReconciledIs
<1>8. HealthReport(Null, 0).expected =
        0 + (Reconciled(D).income - Reconciled(D).expenses - Reconciled(D).cards - Reconciled(D).investments)
  BY DEF HealthReport
<1> HIDE DEF e, s, p, v, D
<1> QED BY <1>1, <1>2, <1>6, <1>7, <1>8

(* This month: its report, and its budgets, which share it out.             *)
LEMMA MonthReportIs ==
  ASSUME FgTypeOK, AllPlain
  PROVE  MonthReport(FirstOf(Today)).net =
           GetSummary(FirstOf(Today), Today).income - GetSummary(FirstOf(Today), Today).expenses
<1> DEFINE a == FirstOf(Today)
           S == {t \in Live : In(t, a, EndOf(a))}
<1>1. FirstOf(a) = a /\ SameMonth(a, Today)
  BY DEF FirstOf, SameMonth
<1>2. GetSummary(a, Today) = Figures(a, EndOf(a), Null)
  BY <1>1 DEF GetSummary, HasRollup, RollupSums
<1>3. /\ Reconciled(S).income = Sum(Of(Earners, a, EndOf(a)))
      /\ Reconciled(S).expenses = Sum(Of(Spenders, a, EndOf(a)))
  <2>1. S \subseteq Live /\ \A t \in Live : t \in S <=> In(t, a, EndOf(a))
    OBVIOUS
  <2> HIDE DEF S, a
  <2> QED BY <2>1, ReconciledIs
<1>4. MonthReport(a).net = Reconciled(S).income - Reconciled(S).expenses
  BY DEF MonthReport
<1> HIDE DEF S
<1> QED BY <1>2, <1>3, <1>4, FiguresAre

Names == {Lower[c] : c \in Categories}
LEMMA NamesFinite == IsFiniteSet(Names) /\ \A c \in Names : Lower[c] = c
<1>1. (\A k \in Names : \E c \in Categories : Lower[c] = k) /\ (\A c \in Categories : Lower[c] \in Names)
  BY DEF Names
<1>2. IsFiniteSet(Names)
  BY <1>1, FiguresAssumption, FiniteImage
<1> QED BY <1>1, <1>2, FiguresAssumption

LEMMA NamesIs ==
  ASSUME NEW g, \A c \in Names : g[c] = BudgetSpent(c, {})
  PROVE  MapThenSumSet(LAMBDA c : BudgetSpent(c, {}), Names) = Total(g, Names)
<1> DEFINE F(c) == BudgetSpent(c, {})
<1>1. IsFiniteSet(Names) /\ \A c \in Names : g[c] = F(c)
  BY NamesFinite
<1> DEFINE Eq(it) == it = [s \in SUBSET Names |-> IF s = {} THEN 0 ELSE F(OneOf(s)) + it[s \ {OneOf(s)}]]
           h == CHOOSE it : Eq(it)
<1>2. \A s \in SUBSET Names : s # {} => g[OneOf(s)] = F(OneOf(s))
  <2> HIDE DEF F
  <2> SUFFICES ASSUME NEW s \in SUBSET Names, s # {} PROVE g[OneOf(s)] = F(OneOf(s))
    OBVIOUS
  <2>1. OneOf(s) \in Names
    BY <1>1, Rest
  <2> QED BY <1>1, <2>1
<1> HIDE DEF F
<1>3. \A it : Eq(it) <=> Summed(it, g, SUBSET Names)
  BY <1>2, Zenon DEF Summed
<1>4. (CHOOSE it : Eq(it)) = (CHOOSE it : Summed(it, g, SUBSET Names))
  BY <1>3, Zenon
<1>5. MapThenSumSet(LAMBDA c : BudgetSpent(c, {}), Names) = h[Names]
  BY DEF MapThenSumSet, MapThenFoldSet, OneOf, F
<1>6. Total(g, Names) = (CHOOSE it : Summed(it, g, SUBSET Names))[Names]
  BY DEF Total, MapThenSumSet, MapThenFoldSet, OneOf, Summed
<1> QED BY <1>4, <1>5, <1>6, Zenon

LEMMA BudgetsShare ==
  ASSUME FgTypeOK, AllPlain
  PROVE  MapThenSumSet(LAMBDA c : BudgetSpent(c, {}), Names) + Sum({t \in ThisMonth : entry[t].cat = Null})
           = Figures(FirstOf(Today), Today, Null).expenses
<1> DEFINE S == {t \in ThisMonth : entry[t].cat # Null}
           N == {t \in ThisMonth : entry[t].cat = Null}
           key == [t \in S |-> Lower[entry[t].cat]]
           g == [c \in Names |-> BudgetSpent(c, {})]
<1>1. S \subseteq Entries /\ N \subseteq Entries /\ S \cap N = {} /\ S \cup N = ThisMonth
  BY DEF ThisMonth, Live
<1>2. \A t \in S : entry[t].cat \in Categories /\ key[t] = Lower[entry[t].cat] /\ key[t] \in Names
  <2>1. \A t \in Live : entry[t] \in Entry
    BY DEF FgTypeOK, Live
  <2> QED BY <2>1 DEF Entry, ThisMonth, Names
<1>3. ASSUME NEW c \in Names PROVE BudgetSpent(c, {}) = Sum(OfKey(S, key, c))
  <2>1. {t \in ThisMonth : entry[t].cat # Null /\ Lower[entry[t].cat] = Lower[c]} = OfKey(S, key, c)
    BY NamesFinite DEF OfKey
  <2>2. LinkPairs(c, {}) = {} /\ IsFiniteSet({})
    BY FS_EmptySet DEF LinkPairs
  <2>3. Linked(c, {}) = Total([k \in {} |-> 0], {})
    <3> DEFINE z == [k \in {} |-> 0]
    <3>1. \A k \in {} : z[k] = Charged(k)
      OBVIOUS
    <3> HIDE DEF z
    <3>2. Linked(c, {}) = Total(z, {})
      BY <2>2, <3>1, LinkedIs
    <3> QED BY <3>2 DEF z
  <2>4. Linked(c, {}) = 0
    BY <2>3, TotalEmpty
  <2>5. Spent(c) = Sum(OfKey(S, key, c))
    BY <2>1 DEF Spent
  <2>6. Sum(OfKey(S, key, c)) \in Nat
    <3>1. OfKey(S, key, c) \subseteq S
      BY DEF OfKey
    <3> HIDE DEF S, key
    <3> QED BY <1>1, <3>1, SumFacts
  <2> QED BY <2>4, <2>5, <2>6 DEF BudgetSpent
<1>4. /\ \A c \in Names : g[c] = BudgetSpent(c, {})
      /\ \A c \in Names : g[c] = Sum(OfKey(S, key, c))
  BY <1>3
<1>5. Of(Spenders, FirstOf(Today), Today) = ThisMonth
  <2>1. \A t \in Live : Expense(t) <=> Reviewed(t) /\ entry[t].label = "expense"
    BY PlainIs
  <2> QED BY <2>1 DEF Of, Spenders, ThisMonth
<1> HIDE DEF S, N, key, g
<1>6. Total(g, Names) = Sum(S)
  BY <1>1, <1>2, <1>4, NamesFinite, SumByKey
<1>7. Sum(S \cup N) = Sum(S) + Sum(N)
  BY <1>1, SumParts
<1>8. MapThenSumSet(LAMBDA c : BudgetSpent(c, {}), Names) = Total(g, Names)
  BY <1>4, NamesIs
<1>9. Figures(FirstOf(Today), Today, Null).expenses = Sum(S) + Sum(N)
  BY <1>1, <1>5, <1>7, FiguresAre
<1>10. Sum({t \in ThisMonth : entry[t].cat = Null}) = Sum(N)
  BY DEF N
<1> QED BY <1>6, <1>8, <1>9, <1>10, Zenon

LEMMA PagesAlwaysAgree == ASSUME FgTypeOK PROVE PagesAgree
<1>1. ASSUME AllPlain
      PROVE  /\ Health(Null, 0).balance = GetSummary(Always[1], Always[2]).saved
             /\ Health(Null, 0).balance = HealthReport(Null, 0).expected
             /\ MonthReport(FirstOf(Today)).net =
                  GetSummary(FirstOf(Today), Today).income - GetSummary(FirstOf(Today), Today).expenses
             /\ MapThenSumSet(LAMBDA c : BudgetSpent(c, {}), Names)
                  + Sum({t \in ThisMonth : entry[t].cat = Null})
                  = Figures(FirstOf(Today), Today, Null).expenses
  BY <1>1, HealthIs, MonthReportIs, BudgetsShare, Zenon
<1> QED BY <1>1, AllIs, Zenon DEF PagesAgree, AllPlain, Names

LEMMA FiguresTyped == FgTypeOK => FiguresAgree
BY TablesAlwaysAgree, AlwaysSpentOnce, LinksAlwaysBounded, PeriodsAlwaysFit, PagesAlwaysAgree DEF FiguresAgree

LEMMA FgInitType == FgInit => FgTypeOK
BY DEF FgInit, FgTypeOK

(* Every page counts the same money of the same rows: the tables of the     *)
(* months, the budgets, the periods and links, the health and the month's   *)
(* report, for any entries, dates, amounts, categories and aliases          *)
(* (api/insights.py, api/budgets.py, api/statistics and their helpers).     *)
THEOREM FiguresAlwaysAgree == FgSpec => []FiguresAgree
BY FgInitType, FgStepType, FiguresTyped, PTL DEF FgSpec

-----------------------------------------------------------------------------
(* The run's specification: a behaviour is one of a single part, which the  *)
(* others leave alone.                                                      *)
ImportsInv == PgInv /\ DdInv /\ ScanInv /\ FgTypeOK

LEMMA ImportsInitInv == ImportsInit => ImportsInv
BY FgInitType, PgInitInv, DdInitInv, ScanInitInv DEF ImportsInit, ImportsInv

LEMMA ImportsStepInv ==
  ImportsInv /\ [ImportsNext]_<<pgVars, ddVars, fgVars, part>> => ImportsInv'
<1> SUFFICES ASSUME ImportsInv, [ImportsNext]_<<pgVars, ddVars, fgVars, part>>
             PROVE  ImportsInv'
  OBVIOUS
<1>1. [PgNext]_pgVars /\ [DdNext]_ddVars /\ [FgNext]_fgVars
  BY DEF ImportsNext
<1> QED BY <1>1, PgStepInv, DdStepInv, ScanStepInv, FgStepType DEF ImportsInv

LEMMA ImportsInvTyped == ImportsInv => ImportsTypeOK
BY ScanInvTyped DEF ImportsInv, ImportsTypeOK, PgInv

(* Everything the imports keep has the form its code gives it, in every     *)
(* behaviour of progress, duplicates and figures.                           *)
THEOREM ImportsTypeCorrect == ImportsSpec => []ImportsTypeOK
BY ImportsInitInv, ImportsStepInv, ImportsInvTyped, PTL DEF ImportsSpec

(* Together: the progress is truthful, a rule that resolves by itself is    *)
(* earned, an undisturbed scan finds every documented duplicate, and the    *)
(* pages' figures agree, in every behaviour of the imports.                 *)
THEOREM ImportsCorrect ==
  ImportsSpec => [](ProgressTruthful /\ AutoIsEarned /\ ScanFindsAll /\ FiguresAgree)
<1>1. ImportsInv => ProgressTruthful /\ AutoIsEarned /\ ScanFindsAll /\ FiguresAgree
  BY PgInvTruthful, FiguresTyped DEF ImportsInv, DdInv, ScanInv
<1> QED BY <1>1, ImportsInitInv, ImportsStepInv, PTL DEF ImportsSpec
=============================================================================
