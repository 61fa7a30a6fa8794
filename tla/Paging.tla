------------------------------- MODULE Paging -------------------------------
(***************************************************************************)
(* Reading transactions in pages while they change (api/transactions.py,   *)
(* api/review.py, api/admin.py): the list by cursor and by offset, the CSV *)
(* stream, the audit log, and the answers that count one selection several *)
(* ways (list, search, review queue).  Every page is a statement of its    *)
(* own: syncs and edits commit between two of them.  Ids are random        *)
(* (uuid4), numbers stand for their order; created_at is the place in rows.*)
(***************************************************************************)
EXTENDS Integers, FiniteSets, FiniteSetsExt, Sequences, SequencesExt

CONSTANTS
  Ids,            \* transactions; numbers above 0, in the order of their ids
  Mail,           \* of each: its sender's domain, merchant and amount
  Says,           \* what a row may say: [label, status, date, category]
  Filters,        \* query parameters of the list: [label, from, to, category]
  Terms,          \* the search terms of two letters and more
  Hits,           \* of each: the transactions one of whose texts has it
  Numbers,        \* of each: the amount it reads as, or Null
  FirstCursors,   \* cursors a client makes: <<date, id>>
  AliasesOf,      \* of each category key: the names filter_aliases() gives it
  PageLimit, BatchSize, MaxRows, MaxLog, MaxChanges,
  Null

(* Names of a category are names of no other: filter_aliases() turns round  *)
(* a table that gives each name its category.                               *)
ASSUME PagingAssumption ==
  /\ MaxLog \in Nat /\ MaxChanges \in Nat /\ PageLimit \in Nat \ {0} /\ BatchSize \in Nat \ {0}
  /\ Ids \subseteq Nat \ {0} /\ FirstCursors \subseteq Int \X Int /\ Null \notin Int \cup (Int \X Int)
  /\ \A s \in Says : "date" \in DOMAIN s /\ s.date \in Int \cup {Null}
  /\ \A f \in Filters : DOMAIN f = {"label", "from", "to", "category"}
  /\ IsFiniteSet(DOMAIN AliasesOf) /\ "other" \in DOMAIN AliasesOf /\ Null \notin DOMAIN AliasesOf
  /\ \A j, k \in DOMAIN AliasesOf : j # k => AliasesOf[j] \cap AliasesOf[k] = {}

VARIABLES
  rows,           \* the transactions, oldest first: [id, label, status, ...]
  log,            \* the methods of the audit log's entries, oldest first
  pass,           \* one client that reads page after page
  changes         \* commits of others since it began (bounded by MaxChanges)

pgVars == <<rows, log, pass, changes>>

NoPass == [kind |-> "none", filter |-> Null, at |-> 0, cursor |-> Null, got |-> <<>>, stayed |-> {},
           total |-> 0, left |-> FALSE, open |-> FALSE]
PgInit == rows = <<>> /\ log = <<>> /\ pass = NoPass /\ changes = 0

Row(i, s) == [c \in {"id"} \cup DOMAIN s |-> IF c = "id" THEN i ELSE s[c]]
All == ToSet(rows)
Count(S) == Cardinality(S)
Amount(r) == Mail[r.id].amount
SumOf(S) == LET known == {r \in S : Amount(r) # Null}                 \* SUM: NULL of nothing
            IN IF known = {} THEN Null ELSE MapThenSumSet(Amount, known)

(* ORDER BY: each before those it comes before.                             *)
InOrder(S, Before(_, _)) ==
  CHOOSE q \in SetToSeqs(S) : \A m, n \in DOMAIN q : m < n => Before(q[m], q[n])

-----------------------------------------------------------------------------
(* list_transactions(): one page by cursor or by offset, with the total.    *)
Known == UNION {AliasesOf[k] : k \in DOMAIN AliasesOf}
InCategory(r, key) ==
  IF key = "other" THEN r.category \in AliasesOf["other"] \/ r.category \notin Known
                   ELSE r.category \in AliasesOf[key]

Ranged(r, f) ==
  /\ f.label # Null => r.label = f.label
  /\ f.from # Null => r.date # Null /\ r.date >= f.from
  /\ f.to # Null => r.date # Null /\ r.date <= f.to
Listed(f) == {r \in All : /\ r.label # "ignore" /\ Ranged(r, f)
                          /\ f.category # Null => InCategory(r, f.category)}

Later(r, s) == r.date > s.date \/ (r.date = s.date /\ r.id > s.id)
Below(c) == {r \in All : r.date # Null /\ Later([date |-> c[1], id |-> c[2]], r)}
FirstOf(s, n) == SubSeq(s, 1, IF Len(s) < n THEN Len(s) ELSE n)
Page(s, skip) == FirstOf(SubSeq(s, skip + 1, Len(s)), PageLimit)       \* OFFSET, LIMIT
KeyOf(r) == <<r.date, r.id>>
ExtraKey(page) == KeyOf(page[PageLimit + 1])          \* mutant of NextCursor
NextCursor(page) == KeyOf(page[PageLimit])            \* the last row it shows

CursorPage(f, c) ==
  LET page == FirstOf(InOrder(Listed(f) \cap Below(c), Later), PageLimit + 1)
  IN [items |-> FirstOf(page, PageLimit),
      next  |-> IF Len(page) > PageLimit THEN NextCursor(page) ELSE Null]

Newest(S) == LET at == InOrder({n \in DOMAIN rows : rows[n] \in S}, LAMBDA m, n : m > n)
             IN [k \in DOMAIN at |-> rows[at[k]]]
OffsetPage(f, o) == Page(Newest(Listed(f)), o)

(* export_transactions() counts and refuses; _stream_export_csv() goes by   *)
(* id.  Neither leaves out the ignored ones.                                *)
Exported(f) == {r \in All : Ranged(r, f)}
Refused(f) == Count(Exported(f)) > MaxRows /\ f.from = Null /\ f.to = Null
CsvBatch(f, last) ==
  FirstOf(InOrder({r \in Exported(f) : r.id > last}, LAMBDA r, s : r.id < s.id), BatchSize)

(* list_audit_logs(): the page is filtered, the total is not.               *)
Entries(m) == {n \in 1..Len(log) : m # Null => log[n] = m}
AuditPage(m, skip) == Page(InOrder(Entries(m), LAMBDA a, b : a > b), skip)

-----------------------------------------------------------------------------
(* A client starts: with a cursor of its own making (the first page of the  *)
(* list gives none), at offset 0, with a download, or in the audit log.     *)
Ask(kind, f, cursor, stayed, total) ==
  pass' = [kind |-> kind, filter |-> f, at |-> 0, cursor |-> cursor, got |-> <<>>, stayed |-> stayed,
           total |-> total, left |-> FALSE, open |-> TRUE]
IdsOf(S) == {r.id : r \in S}

StartCursor ==
  \E f \in Filters, c \in FirstCursors :
    Ask("cursor", f, c, IdsOf(Listed(f) \cap Below(c)), Count(Listed(f)))
StartOffset == \E f \in Filters : Ask("offset", f, Null, IdsOf(Listed(f)), Count(Listed(f)))
StartExport == \E f \in Filters :
  /\ f.category = Null /\ ~Refused(f)
  /\ Ask("csv", f, Null, IdsOf(Exported(f)), Count(Exported(f)))
StartAudit == \E m \in {"PUT", Null} : Ask("audit", m, Null, Entries(m), Len(log))
Start ==
  /\ pass = NoPass
  /\ StartCursor \/ StartOffset \/ StartExport \/ StartAudit
  /\ changes' = 0
  /\ UNCHANGED <<rows, log>>

(* The next page; a client by offset goes on until a page is not full.      *)
Turn(ids, at, more) == pass' = [pass EXCEPT !.got = @ \o ids, !.at = at, !.open = more]
IdSeq(items) == [n \in DOMAIN items |-> items[n].id]
NextPage ==
  /\ pass.open
  /\ \/ /\ pass.kind = "cursor"
        /\ LET p == CursorPage(pass.filter, pass.cursor)
           IN pass' = [pass EXCEPT !.got = @ \o IdSeq(p.items), !.cursor = p.next, !.open = p.next # Null]
     \/ /\ pass.kind = "offset"
        /\ LET p == OffsetPage(pass.filter, pass.at)
           IN Turn(IdSeq(p), pass.at + Len(p), Len(p) = PageLimit)
     \/ /\ pass.kind = "csv"
        /\ LET p == CsvBatch(pass.filter, pass.at)
           IN Turn(IdSeq(p), IF p = <<>> THEN pass.at ELSE Last(p).id, p # <<>>)
     \/ /\ pass.kind = "audit"
        /\ LET p == AuditPage(pass.filter, pass.at)
           IN Turn(p, pass.at + Len(p), Len(p) = PageLimit)
  /\ UNCHANGED <<rows, log, changes>>

(* A sync stores a row, the user edits one or deletes one.                  *)
Touched(i) == pass' = [pass EXCEPT !.stayed = @ \ {i}, !.left = @ \/ pass.open]
Commit == changes < MaxChanges /\ changes' = changes + 1 /\ pass.kind # "audit" /\ UNCHANGED log
AddRow == \E i \in Ids \ IdsOf(All), s \in Says :
  /\ Commit /\ rows' = Append(rows, Row(i, s)) /\ UNCHANGED pass
EditRow == \E n \in DOMAIN rows, s \in Says :
  /\ Commit /\ rows' = [rows EXCEPT ![n] = Row(@.id, s)] /\ rows' # rows /\ Touched(rows[n].id)
DeleteRow == \E n \in DOMAIN rows :
  /\ Commit /\ rows' = RemoveAt(rows, n) /\ Touched(rows[n].id)
(* Every request of anybody that changes something adds an audit entry.     *)
Audit == /\ pass.kind = "audit" /\ Len(log) < MaxLog
         /\ \E m \in {"PUT", "POST"} : log' = Append(log, m)
         /\ UNCHANGED <<rows, pass, changes>>
(* Before the client asks, the tables hold what they hold.                  *)
Fill == /\ pass = NoPass
        /\ \/ \E i \in Ids \ IdsOf(All), s \in Says :
                log = <<>> /\ rows' = Append(rows, Row(i, s)) /\ UNCHANGED log
           \/ \E m \in {"PUT", "POST"} :
                rows = <<>> /\ Len(log) < MaxLog - 1 /\ log' = Append(log, m) /\ UNCHANGED rows
        /\ UNCHANGED <<pass, changes>>

PgNext == \/ Fill \/ Start \/ NextPage \/ Audit
          \/ (pass.open /\ (AddRow \/ EditRow \/ DeleteRow))
PgSpec == PgInit /\ [][PgNext]_pgVars

-----------------------------------------------------------------------------
(* search_transactions(): the newest matches, and figures of all of them,   *)
(* whose conditions are written a second time.  Fewer rows are modelled than*)
(* its limits of five merchants and twelve months.                          *)
Asked(q, lo) == q # Null \/ lo # Null                  \* else nothing is answered
Near(a, b) == a - b <= 10 /\ b - a <= 10
Matches(q, r) ==
  q # Null => \/ r.id \in Hits[q]
              \/ Numbers[q] # Null /\ Amount(r) # Null /\ Near(Amount(r), Numbers[q])
Within(lo, r) == lo # Null => Amount(r) # Null /\ Amount(r) >= lo
Found(q, lo) == {r \in All : r.label # "ignore" /\ Within(lo, r) /\ Matches(q, r)}
AnyLabel(q, lo) == {r \in All : Within(lo, r) /\ Matches(q, r)}       \* mutant of Aggregated
Aggregated(q, lo) == {r \in All : r.label # "ignore" /\ Matches(q, r) /\ Within(lo, r)}
Month(r) == r.date \div 10
Months(S) == {Month(r) : r \in {r \in S : r.date # Null}}
InMonth(S, m) == {r \in S : r.date # Null /\ Month(r) = m}
Merchants(S) == {Mail[r.id].merchant : r \in S} \ {Null}
AtMerchant(S, m) == {r \in S : Mail[r.id].merchant = m}
(* A merchant or month none of whose rows has an amount sums to NULL, and   *)
(* float(None) fails the request.                                           *)
SearchFails(q, lo) ==
  LET S == Aggregated(q, lo)
  IN \/ \E m \in Merchants(S) : SumOf(AtMerchant(S, m)) = Null
     \/ \E m \in Months(S) : SumOf(InMonth(S, m)) = Null
Search(q, lo) ==
  LET S == Aggregated(q, lo)
  IN [items    |-> FirstOf(Newest(Found(q, lo)), PageLimit),
      count    |-> Count(S),
      expenses |-> SumOf({r \in S : r.label = "expense"}),
      income   |-> SumOf({r \in S : r.label = "income"}),
      months   |-> [m \in Months(S) |-> Count(InMonth(S, m))],
      tops     |-> [m \in Merchants(S) |-> Count(AtMerchant(S, m))]]

(* get_review_queue(): the rows, and by row how many others of its domain.  *)
InReview == {r \in All : r.status = "needs_review"}
DomainOf(r) == Mail[r.id].domain
DomainCounts == [d \in {DomainOf(r) : r \in InReview} \ {Null} |->
                  Count({r \in InReview : DomainOf(r) = d})]
DomainCount(r) == IF DomainOf(r) \in DOMAIN DomainCounts THEN DomainCounts[DomainOf(r)] - 1 ELSE 0

-----------------------------------------------------------------------------
PgTypeOK ==
  /\ \A r \in All : r.id \in Ids /\ \E s \in Says : r = Row(r.id, s)
  /\ Cardinality(IdsOf(All)) = Len(rows)
  /\ pass.kind \in {"none", "cursor", "offset", "csv", "audit"}
  /\ pass.left \in BOOLEAN /\ pass.open \in BOOLEAN
  /\ changes \in 0..MaxChanges /\ Len(log) <= MaxLog

(* A client that pages to the end by key (cursor, CSV) gets every row that  *)
(* was there and unchanged all the while exactly once, whatever is added,   *)
(* edited or deleted between its pages; one that pages by offset (the list, *)
(* the audit log) misses none as long as rows only arrive.  When nothing    *)
(* changed a download has the announced number of rows.                     *)
PassesExact ==
  (pass.kind # "none" /\ ~pass.open) =>
    /\ pass.kind \in {"cursor", "csv"} =>
         \A i \in pass.stayed : Count({n \in DOMAIN pass.got : pass.got[n] = i}) = 1
    /\ ~pass.left => pass.stayed \subseteq ToSet(pass.got)
    /\ (pass.kind = "csv" /\ changes = 0) => Len(pass.got) = pass.total

(* The answers of one moment agree: the categories split the list, a search *)
(* counts what it lists and its months and merchants add up to no more, the *)
(* review queue's domain numbers are the other rows of the same domain.     *)
SameAnswers ==
  /\ \A f \in Filters : f.category = Null =>
       Count(Listed(f)) =
         MapThenSumSet(LAMBDA k : Count(Listed([f EXCEPT !.category = k])), DOMAIN AliasesOf)
  /\ \A q \in Terms \cup {Null}, lo \in {Null, 20} : (Asked(q, lo) /\ ~SearchFails(q, lo)) =>
       LET s == Search(q, lo)
       IN /\ s.count >= Len(s.items)
          /\ Len(s.items) < PageLimit => s.count = Len(s.items)
          /\ MapThenSumSet(LAMBDA m : s.months[m], DOMAIN s.months)
               = Count({r \in Found(q, lo) : r.date # Null})
          /\ MapThenSumSet(LAMBDA m : s.tops[m], DOMAIN s.tops) <= s.count
  /\ \A r \in InReview : DomainOf(r) # Null =>
       DomainCount(r) = Count({s \in InReview \ {r} : DomainOf(s) = DomainOf(r)})

(* The answers of one moment agree, looked at before a client pages: the    *)
(* rows hold by then all they can hold.                                     *)
AnswersAgree == pass.kind = "none" => SameAnswers
=============================================================================
