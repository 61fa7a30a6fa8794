------------------------------ MODULE Figures ------------------------------
(***************************************************************************)
(* What the dashboard shows of the transactions of one user: summaries,    *)
(* breakdowns, monthly tables and trends, the health page, budgets,        *)
(* reconciliation and insights.  Each is a query of its own, with its own  *)
(* conditions; here they are operators on one ledger, which               *)
(* classifications fill and the user corrects.                             *)
(*                                                                         *)
(* A rollup is read as current: how it gets so is the subject of Ledger.   *)
(* Left out: rounding, percentages, wording, colours, currencies.          *)
(***************************************************************************)
EXTENDS Integers, Sequences, FiniteSets, FiniteSetsExt, SequencesExt

CONSTANTS
  Entries,         \* transactions
  AmountOf,        \* the amount of each, 0 where it is unknown
  MerchantOf,      \* its merchant, or Null
  Categories,      \* category strings, as stored
  Canonical,       \* lower-case category -> canonical key, where there is one
  Lower,           \* each category string in lower case
  Dates,           \* dates e-mails carry: <<year, month, day>>
  Today,
  BreakdownLimit,  \* CATEGORY_BREAKDOWN_LIMIT
  MerchantLimit,   \* the 8 of "Top 8 merchants"
  Null, NoTx

Keys == {Canonical[c] : c \in DOMAIN Canonical} \cup {"other"}

(* Lower case of lower case is the same; dates lie in the years the range   *)
(* "all" of the statistics spans.                                           *)
ASSUME FiguresAssumption ==
  /\ IsFiniteSet(Entries) /\ AmountOf \in [Entries -> Nat]
  /\ IsFiniteSet(Categories) /\ Lower \in [Categories -> Categories]
  /\ \A c \in Categories : Lower[Lower[c]] = Lower[c]
  /\ DOMAIN Canonical \subseteq Categories
  /\ Dates \cup {Today} \subseteq (2000 .. 2099) \X (1 .. 12) \X (1 .. 31)
  /\ BreakdownLimit \in Nat \ {0} /\ MerchantLimit \in Nat \ {0}
  /\ Null \notin Categories \cup Keys \cup {"purchase", "income", "cc_payment", "investment"}
  /\ Null \notin Int \X (1 .. 12) \X (1 .. 31)

VARIABLE entry   \* the row of each transaction, NoTx if there is none
fgVars == entry

Labels == {"expense", "income", "ignore"}
Types  == {"purchase", "income", "cc_payment", "investment", Null}
Entry == [label : Labels, type : Types, cat : Categories \cup {Null},
        status : {"needs_review", "reviewed"},   \* auto, confirmed or corrected
        date : Dates \cup {Null}]

FgTypeOK == entry \in [Entries -> Entry \cup {NoTx}]
FgInit   == entry = [t \in Entries |-> NoTx]

-----------------------------------------------------------------------------
(* The canonical key of a stored category.                                  *)
KeyOf(c) ==
  IF c = Null \/ Lower[c] \notin DOMAIN Canonical THEN "other" ELSE Canonical[Lower[c]]

(* The category is stored under one of the aliases of a key.                *)
Alias(c, key) == c # Null /\ Lower[c] \in DOMAIN Canonical /\ Canonical[Lower[c]] = key

(* The type a batch's classification derives from label and category, once  *)
(* and for all: no later correction of either touches it.                   *)
TypeOf(label, c) ==
  IF label = "ignore" /\ Alias(c, "card") THEN "cc_payment"
  ELSE IF Alias(c, "investment") THEN "investment"
  ELSE IF label = "income" THEN "income"
  ELSE IF label = "expense" THEN "purchase"
  ELSE Null

Classify(t) ==
  /\ entry[t] = NoTx
  /\ \E l \in Labels, c \in Categories \cup {Null}, d \in Dates \cup {Null},
        s \in {"reviewed", "needs_review"} :
       entry' = [entry EXCEPT ![t] =
                [label |-> l, type |-> TypeOf(l, c), cat |-> c, status |-> s, date |-> d]]

(* An edit sets one of these (a PATCH may set several, as several edits do).*)
Edit(t) ==
  /\ entry[t] # NoTx
  /\ \/ \E l \in Labels :
          entry' = [entry EXCEPT ![t].label = l, ![t].status = "reviewed"]
     \/ \E c \in Categories :
          entry' = [entry EXCEPT ![t].cat = c, ![t].status = "reviewed"]
     \/ \E d \in Dates :
          entry' = [entry EXCEPT ![t].date = d, ![t].status = "reviewed"]

Drop(t) == entry[t] # NoTx /\ entry' = [entry EXCEPT ![t] = NoTx]

FgNext == \E t \in Entries : Classify(t) \/ Edit(t) \/ Drop(t)
FgSpec == FgInit /\ [][FgNext]_fgVars

-----------------------------------------------------------------------------
(* Dates, in a calendar whose months all have 31 days.                      *)

DayNumber(d) == (d[1] * 12 + d[2]) * 31 + d[3]
FirstOf(d) == <<d[1], d[2], 1>>
EndOf(d)   == <<d[1], d[2], 31>>
SameMonth(d, e) == FirstOf(d) = FirstOf(e)

AddMonths(d, n) ==
  LET month == d[2] - 1 + n
  IN <<d[1] + (month \div 12), (month % 12) + 1, 1>>

Periods == {"1m", "3m", "6m", "1y"}
MonthsIn(period) == CASE period = "1m" -> 1 [] period = "3m" -> 3
                      [] period = "6m" -> 6 [] period = "1y" -> 12
PeriodStart(period) == AddMonths(Today, 1 - MonthsIn(period))

(* The first days of the months from start to end.                          *)
MonthsFrom(start, end) ==
  LET n == (end[1] - start[1]) * 12 + end[2] - start[2] + 1
  IN [i \in 1 .. n |-> AddMonths(start, i - 1)]

-----------------------------------------------------------------------------
(* The conditions of the queries.                                           *)

Live == {t \in Entries : entry[t] # NoTx}
Sum(S) == MapThenSumSet(LAMBDA t : AmountOf[t], S)
Reviewed(t) == entry[t].status # "needs_review"
In(t, start, end) ==
  /\ entry[t].date # Null
  /\ DayNumber(start) <= DayNumber(entry[t].date) /\ DayNumber(entry[t].date) <= DayNumber(end)

Purchase(t) == entry[t].label = "expense" /\ entry[t].type \in {"purchase", Null} /\ Reviewed(t)
Expense(t) ==
  Purchase(t) /\ ~Alias(entry[t].cat, "investment") /\ ~Alias(entry[t].cat, "card")
ExpenseWithCards(t) == Purchase(t) /\ ~Alias(entry[t].cat, "investment")  \* mutant of TrendExpense
TrendExpense(t) ==
  Purchase(t) /\ ~Alias(entry[t].cat, "investment") /\ ~Alias(entry[t].cat, "card")
Income(t) == entry[t].label = "income" /\ Reviewed(t)
UnreviewedCards(t) == entry[t].type = "cc_payment" \/ Alias(entry[t].cat, "card")  \* mutant of CardPayment
CardPayment(t) == (entry[t].type = "cc_payment" \/ Alias(entry[t].cat, "card")) /\ Reviewed(t)
Investment(t) == (entry[t].type = "investment" \/ Alias(entry[t].cat, "investment")) /\ Reviewed(t)

(* What a filter by category lets through; "other" takes what no alias      *)
(* knows.                                                                   *)
Filtered(t, key) == KeyOf(entry[t].cat) = key

-----------------------------------------------------------------------------
(* The queries.                                                             *)

Figures(start, end, key) ==
  LET S == {t \in Live : In(t, start, end)}
      spent    == Sum({t \in S : Expense(t) /\ (key # Null => Filtered(t, key))})
      earned   == Sum({t \in S : Income(t)})
      cards    == Sum({t \in S : CardPayment(t)})
      invested == Sum({t \in S : Investment(t)})
  IN [expenses |-> spent, income |-> earned, cards |-> cards, investments |-> invested,
      saved |-> earned - spent - cards - invested]

CategoryOf == [t \in Live |-> entry[t].cat]

(* The groups of a set of transactions under f, largest total first.        *)
Groups(S, f) ==
  {[by |-> k, total |-> Sum({t \in S : f[t] = k}),
    count |-> Cardinality({t \in S : f[t] = k})] : k \in {f[t] : t \in S}}
Grouped(S, f) ==
  CHOOSE q \in SetToSeqs(Groups(S, f)) :
    \A i, j \in DOMAIN q : i < j => q[i].total >= q[j].total

(* A column of a table, added up.                                           *)
Column(rows, name) == MapThenSumSet(LAMBDA i : rows[i][name], DOMAIN rows)
TotalOf(groups) == Column(groups, "total")

(* Beyond the limit, the smaller categories become one, "Other".            *)
Truncated(groups) ==
  IF Len(groups) <= BreakdownLimit THEN groups
  ELSE LET rest == SubSeq(groups, BreakdownLimit + 1, Len(groups))
       IN Append(SubSeq(groups, 1, BreakdownLimit),
                 [by |-> "Other", total |-> TotalOf(rest), count |-> Column(rest, "count")])

Breakdown(start, end, key) ==
  LET S == {t \in Live : In(t, start, end) /\ Expense(t) /\ (key # Null => Filtered(t, key))}
  IN [rows |-> Truncated(Grouped(S, CategoryOf)), total |-> Sum(S)]

TopMerchants(start, end) ==
  LET S == {t \in Live : In(t, start, end) /\ Expense(t) /\ MerchantOf[t] # Null}
      all == Grouped(S, MerchantOf)
  IN SubSeq(all, 1, IF Len(all) < MerchantLimit THEN Len(all) ELSE MerchantLimit)

(* The rollup of a month: the same figures, the breakdown in full.          *)
RollupSums(month) == Figures(month, EndOf(month), Null)
RollupRows(month) ==
  Grouped({t \in Live : In(t, month, EndOf(month)) /\ Expense(t)}, CategoryOf)

(* A range within one month is answered with the rollup of the month.       *)
HasRollup(start, end) == SameMonth(start, end)
GetSummary(start, end) ==
  IF HasRollup(start, end) THEN RollupSums(FirstOf(start)) ELSE Figures(start, end, Null)
GetBreakdown(start, end) ==
  IF HasRollup(start, end)
  THEN LET rows == RollupRows(FirstOf(start)) IN [rows |-> rows, total |-> TotalOf(rows)]
  ELSE Breakdown(start, end, Null)
GetTopMerchants(start, end) ==
  IF HasRollup(start, end) THEN TopMerchants(FirstOf(start), EndOf(start)) ELSE TopMerchants(start, end)

(* The table of the last n months, oldest first.                            *)
MonthlySummary(n) ==
  LET months == MonthsFrom(AddMonths(Today, -(n - 1)), Today)
  IN [i \in DOMAIN months |-> RollupSums(months[i])]

(* The trend: expenses and income of each month of the range, from two      *)
(* queries grouped by month.                                                *)
MonthlyData(start, end) ==
  LET months == MonthsFrom(FirstOf(start), end)
      of(m) == {t \in Live : In(t, start, end) /\ SameMonth(entry[t].date, m)}
  IN [i \in DOMAIN months |->
        [month |-> months[i], expenses |-> Sum({t \in of(months[i]) : TrendExpense(t)}),
         income |-> Sum({t \in of(months[i]) : Income(t)})]]

(* The answer to GET /api/stats; without a range it takes all there is.     *)
Always == <<<<2000, 1, 1>>, <<2099, 12, 31>>>>
StatsRange(from, to, period) ==
  CASE from # Null /\ to # Null -> <<from, to>>
    [] (from = Null) # (to = Null) -> <<PeriodStart(period), Today>>
    [] OTHER -> Always
PeriodRange(from, to, period) ==
  IF from # Null /\ to # Null THEN <<from, to>> ELSE <<PeriodStart(period), Today>>

(* The period before a range of days, for the comparison.                   *)
Previous(from, to) ==
  LET days == to - from IN <<from - (days + 1), from - 1>>

-----------------------------------------------------------------------------
(* The health page, reconciliation, budgets and insights.                   *)

Since(t, from) == entry[t].date # Null /\ (from # Null => DayNumber(from) <= DayNumber(entry[t].date))

(* The health page knows no card categories; its starting balance counts    *)
(* as none when it is zero.                                                 *)
Health(from, balance) ==
  LET S == {t \in Live : Since(t, from) /\ Reviewed(t)}
      spent == Sum({t \in S : Purchase(t) /\ ~Alias(entry[t].cat, "investment")})
      cards == Sum({t \in S : entry[t].type = "cc_payment"})
      invested == Sum({t \in S : Investment(t)})
      earned == Sum({t \in S : entry[t].label = "income"})
  IN [cards |-> cards, investments |-> invested,
      balance |-> balance + earned - spent - cards - invested,
      mode |-> IF balance = 0 THEN "computed" ELSE "anchored"]

(* Reconciliation goes by the type alone.                                   *)
Reconciled(S) ==
  LET R == {t \in S : Reviewed(t)}
      of(type) == Sum({t \in R : entry[t].type = type})
      spent == Sum({t \in R : entry[t].label = "expense" /\ entry[t].type = "purchase"})
      earned == Sum({t \in R : entry[t].label = "income"})
  IN [income |-> earned, expenses |-> spent, cards |-> of("cc_payment"),
      investments |-> of("investment")]
HealthReport(from, balance) ==
  LET r == Reconciled({t \in Live : Since(t, from)})
      flow == r.income - r.expenses - r.cards - r.investments
  IN [expected |-> balance + flow, outflow |-> r.expenses + r.cards + r.investments,
      anomalies |-> {a \in {"discrepancy", "expenses", "cards"} :
        CASE a = "discrepancy" -> balance # 0 /\ (flow > 100 \/ flow < -100)
          [] a = "expenses" -> r.income > 0 /\ 20 * r.expenses > 19 * r.income
          [] a = "cards" -> r.cards > 0 /\ r.expenses > 0 /\ 2 * r.cards > r.expenses}]
MonthReport(month) ==
  LET r == Reconciled({t \in Live : In(t, month, EndOf(month))})
  IN [net |-> r.income - r.expenses, outflow |-> r.expenses + r.cards]

(* Of a budget: what its category and the linked ones spent this month.     *)
ThisMonth == {t \in Live : entry[t].label = "expense" /\ Reviewed(t) /\ In(t, FirstOf(Today), Today)}
Spent(c) == Sum({t \in ThisMonth : entry[t].cat # Null /\ Lower[entry[t].cat] = Lower[c]})
Linked(c, links) ==
  MapThenSumSet(LAMBDA k : IF AmountOf[k[1]] < k[2].split THEN AmountOf[k[1]] ELSE k[2].split,
    {k \in ThisMonth \X links : entry[k[1]].cat = k[2].source /\ Lower[k[2].target] = Lower[c]})
BudgetSpent(c, links) == Spent(c) + Linked(c, links)

(* Expenses of the last days against those of the days before: the insight. *)
SpentBetween(window) ==
  Sum({t \in Live : /\ entry[t].label = "expense" /\ entry[t].date # Null
                    /\ window[1] <= DayNumber(entry[t].date) /\ DayNumber(entry[t].date) <= window[2]})
Recent(now) == <<now - 30, now>>
Before(now) == <<now - 60, now - 31>>
Insight(now) ==
  LET current == SpentBetween(Recent(now))
      before  == SpentBetween(Before(now))
  IN CASE before > 0 /\ 5 * current > 6 * before  -> "spending_spike"
       [] before > 0 /\ 10 * current < 9 * before -> "saving_win"
       [] OTHER -> "none"

-----------------------------------------------------------------------------
(* Properties.                                                              *)

(* The screens agree on every period of whole months: the monthly table and *)
(* the trend have a row for each month and add up to the summary, and so do *)
(* the rows of the breakdown.                                               *)
TablesAgree ==
  \A period \in Periods :
    LET range == PeriodRange(PeriodStart(period), EndOf(Today), period)
        start == range[1]
        end   == range[2]
        sums  == GetSummary(start, end)
        table == MonthlySummary(MonthsIn(period))
        trend == MonthlyData(start, end)
        split == GetBreakdown(start, end)
        top   == GetTopMerchants(start, end)
    IN /\ Len(table) = MonthsIn(period) /\ Len(trend) = MonthsIn(period)
       /\ Column(table, "expenses") = sums.expenses
       /\ Column(table, "saved") = sums.saved
       /\ Column(trend, "expenses") = sums.expenses
       /\ Column(trend, "income") = sums.income
       /\ split.total = sums.expenses /\ TotalOf(split.rows) = sums.expenses
       /\ TotalOf(top) <= sums.expenses

(* An amount spent is spent once: no transaction counts as an expense and   *)
(* as something else, and filtering by each category in turn misses none.   *)
SpentOnce ==
  /\ \A t \in Live : Expense(t) => ~Income(t) /\ ~CardPayment(t) /\ ~Investment(t)
  /\ MapThenSumSet(LAMBDA k : Figures(Always[1], Always[2], k).expenses, Keys)
       = Figures(Always[1], Always[2], Null).expenses

(* As long as the stored types are what the corrected labels and categories *)
(* would give, the pages that go by types and those that go by categories   *)
(* tell the same: health, reconciliation, the summary and the budgets.      *)
Plain(t) ==
  /\ entry[t].type = TypeOf(entry[t].label, entry[t].cat)
  /\ Alias(entry[t].cat, "card") => entry[t].label = "ignore"
  /\ Alias(entry[t].cat, "investment") => entry[t].label = "ignore"
PagesAgree ==
  (Live # {} /\ \A t \in Live : Plain(t)) =>
    LET all   == StatsRange(Null, Null, "1m")
        sums  == GetSummary(all[1], all[2])
        month == Figures(FirstOf(Today), Today, Null)
        report == MonthReport(FirstOf(Today))
        names == {Lower[c] : c \in Categories}
    IN /\ Health(Null, 0).balance = sums.saved
       /\ Health(Null, 0).balance = HealthReport(Null, 0).expected
       /\ report.net = GetSummary(FirstOf(Today), Today).income - GetSummary(FirstOf(Today), Today).expenses
       /\ MapThenSumSet(LAMBDA c : BudgetSpent(c, {}), names)
            + Sum({t \in ThisMonth : entry[t].cat = Null}) = month.expenses

(* A link charges to a budget no more than its source category spent.       *)
LinksBounded ==
  \A c, d \in Categories, t \in Live :
    Lower[c] # Lower[d] =>
      BudgetSpent(d, {[source |-> c, target |-> d, split |-> AmountOf[t]]}) <= Spent(c) + Spent(d)

(* A comparison sets a period against one as long that ends the day before; *)
(* the insight misses no expense between its two windows, and counts none   *)
(* in both.                                                                 *)
PeriodsFit ==
  LET now == DayNumber(Today)
  IN /\ \A period \in Periods :
          LET from == DayNumber(PeriodStart(period))
              prev == Previous(from, now)
          IN prev[2] = from - 1 /\ prev[2] - prev[1] = now - from
     /\ SpentBetween(Before(now)) + SpentBetween(Recent(now)) = SpentBetween(<<now - 60, now>>)
     /\ SpentBetween(Before(now)) = 0 => Insight(now) = "none"

(* The dashboard's figures agree with each other.                           *)
FiguresAgree ==
  Live # {} => (TablesAgree /\ SpentOnce /\ LinksBounded /\ PeriodsFit /\ PagesAgree)
=============================================================================
