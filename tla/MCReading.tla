----------------------------- MODULE MCReading -----------------------------
(***************************************************************************)
(* What users teach the import, plan and read of its results: rules for a  *)
(* sender domain, the filter in front of the import, aliases of merchants, *)
(* lists of categories, goals and debts, and a client that reads pages     *)
(* while transactions change.  The five share no state, so a behaviour is  *)
(* one of a single part.                                                   *)
(***************************************************************************)
EXTENDS Paging, Merchants, Rules, Filters, Plans, TLC

(* Three transactions, one without a merchant and one without an amount,   *)
(* three things a row may say: one has no date and a category nobody lists. *)
ThreeSays == {
  [label |-> "expense", status |-> "auto", date |-> 11, category |-> "food"],
  [label |-> "ignore", status |-> "needs_review", date |-> 12, category |-> "snacks"],
  [label |-> "income", status |-> "needs_review", date |-> Null, category |-> "odd"]}
ThreeMails == [i \in 1..3 |->
  [domain   |-> IF i = 3 THEN "b" ELSE "a",
   merchant |-> IF i = 2 THEN Null ELSE "m",
   amount   |-> IF i = 3 THEN Null ELSE 10 * i]]
NoFilter == [label |-> Null, from |-> Null, to |-> Null, category |-> Null]
TwoFilters == {NoFilter, [NoFilter EXCEPT !.label = "expense", !.from = 11]}
OneHit == "shop" :> {1, 3}
OneNumber == "shop" :> Null
TwoCategories == ("food" :> {"food", "snacks"}) @@ ("other" :> {"other"})
AboveAll == {<<22, 9>>}

CONSTANTS u1, u2, x1, x2
(* Aliases of two users, one longer than clean_merchant() leaves it, one a  *)
(* name the seeds know.                                                     *)
Nicknames == {[user |-> u1, name |-> "Foo", canonical |-> "A"],
              [user |-> u2, name |-> "foo", canonical |-> "B"],
              [user |-> u2, name |-> "Foo Ltd", canonical |-> "A"],
              [user |-> u1, name |-> "Swiggy Mart", canonical |-> "C"]}
LowerCase == ("Foo" :> "foo") @@ ("foo" :> "foo") @@ ("Foo Ltd" :> "foo ltd")
             @@ ("Swiggy Mart" :> "swiggy mart")
Cleaned == [LowerCase EXCEPT !["Foo Ltd"] = "foo"]
Seeds == ("foo" :> Nothing) @@ ("swiggy mart" :> "Swiggy")
NoneKnown == [n \in DOMAIN Seeds |-> Nothing]

(* A mail for each branch of the engine.                                    *)
Blank == [delivery |-> FALSE, order |-> FALSE, card |-> FALSE, amount |-> FALSE,
          verb |-> FALSE, income |-> 0, expense |-> 0, promotion |-> FALSE]
NineLetters == {
  Blank, [Blank EXCEPT !.delivery = TRUE], [Blank EXCEPT !.card = TRUE],
  [Blank EXCEPT !.amount = TRUE], [Blank EXCEPT !.amount = TRUE, !.income = 2],
  [Blank EXCEPT !.verb = TRUE, !.expense = 1, !.income = 1],
  [Blank EXCEPT !.promotion = TRUE], [Blank EXCEPT !.income = 2, !.expense = 1],
  [Blank EXCEPT !.expense = 2]}
FourBodies == {
  [label |-> "expense", category |-> "food", enabled |-> TRUE],
  [label |-> "income", category |-> NoTopic, enabled |-> FALSE],
  [label |-> "ignore", category |-> NoTopic], [label |-> "expense"]}
ThreePatches == {[label |-> "income"], [category |-> "food"], [label |-> "expense", enabled |-> FALSE]}
NoEvidence == [k \in Kinds |-> 0]
TwoTallies == {
  [NoEvidence EXCEPT ![<<"expense", "food">>] = 2, ![<<"income", "Income">>] = 1],
  [NoEvidence EXCEPT ![<<"expense", "food">>] = 3]}
NoRow == [k \in Keys |-> NoRule]
AnExpense == [label |-> "expense", category |-> NoTopic, enabled |-> TRUE]
TwoStores == {NoRow, [NoRow EXCEPT ![u1] = AnExpense, ![x1] = AnExpense]}
TwoBuiltins == {NoRule, [label |-> "expense", category |-> "food"]}

NoWords == [amount |-> FALSE, verb |-> FALSE, network |-> FALSE, keyword |-> FALSE]
TwoWords == {[NoWords EXCEPT !.amount = TRUE], [NoWords EXCEPT !.network = TRUE]}

(* A user who has a goal with a contribution, a debt half paid, a category  *)
(* and a recurring expense.                                                 *)
CONSTANTS goal1, goal2, gift1, gift2, debt1, debt2, sub1, sub2, cat1, cat2, cat3
TwoSpellings == ("food" :> "food") @@ ("Food" :> "food") @@ ("Rent" :> "rent")
TwoTitles == ("food" :> "Food") @@ ("Food" :> "Food") @@ ("Rent" :> "Rent")
OneShopTwice == ("gym" :> <<1, 2>>) @@ ("bar" :> <<0, 0>>)
FourExpenses == {
  [name |-> "gym", amount |-> 1, frequency |-> "yearly", active |-> TRUE],
  [name |-> "bar", amount |-> Unborn, frequency |-> "weekly", active |-> TRUE],
  [name |-> "bar", amount |-> 2, frequency |-> "monthly", active |-> FALSE],
  [name |-> "gym", amount |-> 2, frequency |-> "bi-weekly", active |-> TRUE]}
HalfPaid == [
  goal |-> (goal1 :> 2) @@ (goal2 :> Unborn),
  gift |-> (gift1 :> [goal |-> goal1, amount |-> 1]) @@ (gift2 :> Unborn),
  debt |-> (debt1 :> [total |-> 2, paid |-> 1]) @@ (debt2 :> Unborn),
  sub |-> (sub1 :> [name |-> "gym", amount |-> 1, frequency |-> "weekly", active |-> TRUE])
          @@ (sub2 :> Unborn),
  cat |-> (cat1 :> "food") @@ (cat2 :> Unborn) @@ (cat3 :> Unborn)]

(* Requests, mails and reviewers are told apart by nothing but their names. *)
Interchangeable == Permutations(Planners) \cup Permutations(Inbox) \cup Permutations(Reviewers)

VARIABLE part
readingVars == <<pgVars, mrVars, ruVars, flVars, plVars, part>>
(* The other parts stay in one of their initial states.                     *)
Still(name) ==
  /\ name # "names" => alias = {} /\ unloaded
  /\ name # "rules" => builtin = NoRule /\ rules = NoRow /\ tally[<<"expense", "food">>] = 3
  /\ name # "pages" => \A r \in All : r.label = "expense" /\ r.status = "auto"
  /\ name # "plans" => sqlite
ReadingInit ==
  /\ PgInit /\ MrInit /\ RuInit /\ FlInit /\ PlInit
  /\ part \in {"pages", "names", "rules", "filter", "plans"} /\ Still(part)
ReadingNext ==
  \/ part = "pages" /\ PgNext /\ UNCHANGED <<mrVars, ruVars, flVars, plVars, part>>
  \/ part = "names" /\ MrNext /\ UNCHANGED <<pgVars, ruVars, flVars, plVars, part>>
  \/ part = "rules" /\ RuNext /\ UNCHANGED <<pgVars, mrVars, flVars, plVars, part>>
  \/ part = "filter" /\ FlNext /\ UNCHANGED <<pgVars, mrVars, ruVars, plVars, part>>
  \/ part = "plans" /\ PlNext /\ UNCHANGED <<pgVars, mrVars, ruVars, flVars, part>>
ReadingSpec == ReadingInit /\ [][ReadingNext]_readingVars

ReadingTypeOK == PgTypeOK /\ MrTypeOK /\ RuTypeOK /\ FlTypeOK /\ PlTypeOK
(* What users have taught holds: aliases resolve, the rules agree, the      *)
(* lists follow reviews.                                                    *)
TeachingsHold == AliasesResolve /\ RulesAgree /\ FiltersFollow
=============================================================================
