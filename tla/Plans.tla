------------------------------- MODULE Plans -------------------------------
(***************************************************************************)
(* What a user keeps lists of: categories, budgets and their links, goals  *)
(* and contributions, debts, recurring expenses (api/settings.py,          *)
(* api/budgets.py, api/goals.py, api/debt.py, api/recurring.py), and what  *)
(* the budget advisor computes of them (api/budget_llm.py).  A request     *)
(* that checks what it has read commits in another step, and its UPDATE    *)
(* names the columns that differ from what it read.  One user: each query  *)
(* is limited to the user's rows.                                          *)
(***************************************************************************)
EXTENDS Integers, Sequences, FiniteSets, SequencesExt, FiniteSetsExt, Functions

CONSTANTS
  Planners,                  \* requests, each used again
  Goals, Gifts, Debts, Subs, Cats,     \* ids of rows, each used once
  Names,                     \* names of categories, as they are spelt
  Folded,                    \* lower() of each
  Titled,                    \* strip().title() of each
  Sums,                      \* amounts, among them refused ones
  Expenses,                  \* recurring ones a user may enter: [name, amount, frequency, active]
  Spending,                  \* the amounts of each merchant's expenses (0: none is known)
  Begun,                     \* rows there are at first: [goal, gift, debt, sub, cat]
  AdviceRows,                \* transactions the advisor looks at
  MaxAsked,                  \* bound on requests
  Unborn, Gone               \* no row yet, and no more

VARIABLES
  sqlite,    \* the database: SQLite does not enforce the foreign keys
  goal,      \* target_amount of each goal
  gift,      \* contributions: [goal, amount]
  debt,      \* [total, paid]
  sub,       \* recurring expenses: [name, amount, frequency, active]
  cat,       \* the name of each category
  budget,    \* monthly_limit by category name
  links,     \* budget links: <<source, target>>
  order,     \* of each request: what it is to do and what it has read
  stale,     \* rows written by a request whose reading had become old (history)
  advice,    \* what the request before was told, if it asked for advice
  asked      \* requests that have started (bound)

plVars == <<sqlite, goal, gift, debt, sub, cat, budget, links, order, stale, advice, asked>>
rowsKept == <<goal, gift, debt, sub, cat, budget, links>>

(* Rows of goals (a target), of contributions, of debts.                    *)
Targets == {a \in Int : a > 0}
Donations == [goal : Goals, amount : Targets]
Owings == [total : Targets, paid : Nat]
NoRows == {Unborn, Gone}

Alike(n, m) == Folded[n] = Folded[m]
Kept(f) == {i \in DOMAIN f : f[i] \notin {Unborn, Gone}}

(* Ids of different tables are different; a name is titled in one way; the  *)
(* rows there are have passed the checks.                                   *)
ASSUME PlansAssumption ==
  /\ MaxAsked \in Nat /\ AdviceRows \in Nat /\ Sums \subseteq Int /\ Unborn # Gone
  /\ IsFiniteSet(Subs) /\ DOMAIN Begun.sub = Subs
  /\ \A r \in Expenses \cup {Begun.sub[s] : s \in Kept(Begun.sub)} : r.amount \in Int \cup {Unborn}
  /\ \A x \in NoRows : x \notin Int /\ x \notin Names /\ x \notin Donations /\ x \notin Owings
  /\ Debts \cap Cats = {} /\ Debts \cap Gifts = {} /\ Cats \cap Gifts = {} /\ Unborn \notin Cats
  /\ Titled \in [Names -> Names]
  /\ \A n, m \in Names : Alike(Titled[n], Titled[m]) => Titled[n] = Titled[m]
  /\ Begun.goal \in [Goals -> Targets \cup NoRows] /\ Begun.gift \in [Gifts -> Donations \cup NoRows]
  /\ Begun.debt \in [Debts -> Owings \cup NoRows] /\ Begun.cat \in [Cats -> Names \cup NoRows]
  /\ \A i \in Kept(Begun.gift) : Begun.goal[Begun.gift[i].goal] # Gone
  /\ \A d \in Kept(Begun.debt) : Begun.debt[d].paid <= Begun.debt[d].total
  /\ \A c, d \in Kept(Begun.cat) : c # d => ~Alike(Begun.cat[c], Begun.cat[d])

NoOrder == [op |-> "none"]
PlInit ==
  /\ sqlite \in BOOLEAN
  /\ goal = Begun.goal /\ gift = Begun.gift /\ debt = Begun.debt /\ sub = Begun.sub
  /\ cat = Begun.cat /\ budget = [n \in Names |-> Unborn] /\ links = {}
  /\ order = [p \in Planners |-> NoOrder] /\ stale = {}
  /\ advice = Unborn /\ asked = 0

Positive == {a \in Sums : a > 0}
Starts == asked < MaxAsked /\ asked' = asked + 1
Opened(p, o) ==
  /\ Starts /\ order[p] = NoOrder
  /\ order' = [order EXCEPT ![p] = o]
  /\ advice' = Unborn /\ UNCHANGED <<rowsKept, sqlite, stale>>
Closed(p) == order' = [order EXCEPT ![p] = NoOrder]
\* A handler whose checks nobody can come between.
AtOnce == Starts /\ advice' = Unborn /\ UNCHANGED <<order, sqlite>>

-----------------------------------------------------------------------------
(* Debts.                                                                   *)
Bodies == [total : Sums, paid : Sums]
Accepted(b) == b.total > 0 /\ b.paid >= 0 /\ b.paid <= b.total
AddDebt == \E d \in Debts, b \in Bodies :
  /\ debt[d] = Unborn /\ Accepted(b) /\ AtOnce
  /\ debt' = [debt EXCEPT ![d] = b]
  /\ UNCHANGED <<goal, gift, sub, cat, budget, links, stale>>
OpenDebt(p) == \E d \in Kept(debt), b \in Bodies :
  Accepted(b) /\ Opened(p, [op |-> "debt", id |-> d, seen |-> debt[d], body |-> b])
\* Without its row the UPDATE, or the refresh after it, fails.
SaveDebt(p) ==
  /\ order[p].op = "debt" /\ Closed(p)
  /\ LET o == order[p]  now == debt[o.id] IN
     IF now = Gone THEN UNCHANGED <<debt, stale>>
     ELSE /\ debt' = [debt EXCEPT ![o.id] =
                [k \in {"total", "paid"} |-> IF o.body[k] # o.seen[k] THEN o.body[k] ELSE now[k]]]
          /\ stale' = IF now # o.seen THEN stale \cup {o.id} ELSE stale \ {o.id}
  /\ UNCHANGED <<sqlite, goal, gift, sub, cat, budget, links, advice, asked>>
DropDebt == \E d \in Kept(debt) :
  /\ AtOnce /\ debt' = [debt EXCEPT ![d] = Gone]
  /\ UNCHANGED <<goal, gift, sub, cat, budget, links, stale>>

-----------------------------------------------------------------------------
(* Goals.  A contribution is a row of its own; a goal has the sum of them.  *)
AddGoal == \E g \in Goals, a \in Positive :
  /\ goal[g] = Unborn /\ AtOnce /\ goal' = [goal EXCEPT ![g] = a]
  /\ UNCHANGED <<gift, debt, sub, cat, budget, links, stale>>
SetTarget == \E g \in Kept(goal), a \in Positive :
  /\ AtOnce /\ goal' = [goal EXCEPT ![g] = a]
  /\ UNCHANGED <<gift, debt, sub, cat, budget, links, stale>>
OpenGift(p) == \E g \in Kept(goal), a \in Positive :
  Opened(p, [op |-> "gift", id |-> g, seen |-> goal[g], amount |-> a])
\* PostgreSQL refuses a contribution to a goal that has gone, SQLite takes it.
SaveGift(p) ==
  /\ order[p].op = "gift" /\ Closed(p)
  /\ LET o == order[p] IN
     \/ /\ goal[o.id] # Gone \/ sqlite
        /\ \E i \in Gifts :
             /\ gift[i] = Unborn /\ gift' = [gift EXCEPT ![i] = [goal |-> o.id, amount |-> o.amount]]
             /\ stale' = IF goal[o.id] = Gone THEN stale \cup {i} ELSE stale
     \/ goal[o.id] = Gone /\ ~sqlite /\ UNCHANGED <<gift, stale>>
  /\ UNCHANGED <<sqlite, goal, debt, sub, cat, budget, links, advice, asked>>
GiftsOf(g) == {i \in Kept(gift) : gift[i].goal = g}
\* MUTANT: the contributions are left to the cascade of the foreign key.
LeftToCascade(i, g) == IF i \in GiftsOf(g) /\ ~sqlite THEN Gone ELSE gift[i]
\* The handler deletes the contributions itself: SQLite does not cascade.
Outlived(i, g) == IF i \in GiftsOf(g) THEN Gone ELSE gift[i]
DropGoal == \E g \in Kept(goal) :
  /\ AtOnce /\ goal' = [goal EXCEPT ![g] = Gone]
  /\ gift' = [i \in Gifts |-> Outlived(i, g)]
  /\ UNCHANGED <<debt, sub, cat, budget, links, stale>>

-----------------------------------------------------------------------------
(* Categories.  The check ignores case, the constraint of the table does    *)
(* not; a rename leaves out its own row.                                    *)
Clashes(n, c) == \E d \in Kept(cat) \ {c} : Alike(cat[d], n)
OpenCategory(p) == \E n \in Names :
  ~Clashes(n, Unborn) /\ Opened(p, [op |-> "cats", names |-> {n}, seen |-> cat])
\* The categories of the transactions that no row has, all in one commit.
OpenGenerate(p) == \E used \in SUBSET Names :
  LET new == {n \in {Titled[m] : m \in used} : ~Clashes(n, Unborn)}
  IN new # {} /\ Opened(p, [op |-> "cats", names |-> new, seen |-> cat])
OpenRename(p) == \E c \in Kept(cat), n \in Names :
  ~Clashes(n, c) /\ Opened(p, [op |-> "rename", id |-> c, name |-> n, seen |-> cat])
NameTaken(ns, c) == \E d \in Kept(cat) \ {c} : cat[d] \in ns
OthersChanged(seen, c) == \E d \in Cats \ {c} : cat[d] # seen[d]
SaveCategories(p) ==
  /\ order[p].op = "cats" /\ Closed(p)
  /\ LET o == order[p] IN
     IF NameTaken(o.names, Unborn) THEN UNCHANGED <<cat, stale>>
     ELSE \E at \in Injection(o.names, {c \in Cats : cat[c] = Unborn}) :
            /\ cat' = [c \in Cats |-> IF c \in Range(at) THEN Inverse(at, o.names, Cats)[c] ELSE cat[c]]
            /\ stale' = IF cat # o.seen THEN stale \cup Range(at) ELSE stale
  /\ UNCHANGED <<sqlite, goal, gift, debt, sub, budget, links, advice, asked>>
SaveName(p) ==
  /\ order[p].op = "rename" /\ Closed(p)
  /\ LET o == order[p] IN
     IF cat[o.id] = Gone \/ o.name = o.seen[o.id] \/ NameTaken({o.name}, o.id)
     THEN UNCHANGED <<cat, stale>>
     ELSE /\ cat' = [cat EXCEPT ![o.id] = o.name]
          /\ stale' = IF OthersChanged(o.seen, o.id) THEN stale \cup {o.id} ELSE stale \ {o.id}
  /\ UNCHANGED <<sqlite, goal, gift, debt, sub, budget, links, advice, asked>>
DropCategory == \E c \in Kept(cat) :
  /\ AtOnce /\ cat' = [cat EXCEPT ![c] = Gone]
  /\ UNCHANGED <<goal, gift, debt, sub, budget, links, stale>>

-----------------------------------------------------------------------------
(* Budgets have one row for each spelling, links one for each pair of       *)
(* spellings that differ in more than case.                                 *)
PutBudget == \E n \in Names, a \in Positive :
  /\ AtOnce /\ budget' = [budget EXCEPT ![n] = a]
  /\ UNCHANGED <<goal, gift, debt, sub, cat, links, stale>>
DropBudget == \E n \in Kept(budget) :
  /\ AtOnce /\ budget' = [budget EXCEPT ![n] = Unborn]
  /\ UNCHANGED <<goal, gift, debt, sub, cat, links, stale>>
AddLink == \E s, t \in Names :
  /\ ~Alike(s, t) /\ <<s, t>> \notin links /\ AtOnce
  /\ links' = links \cup {<<s, t>>}
  /\ UNCHANGED <<goal, gift, debt, sub, cat, budget, stale>>
DropLink == \E l \in links :
  /\ AtOnce /\ links' = links \ {l}
  /\ UNCHANGED <<goal, gift, debt, sub, cat, budget, stale>>

-----------------------------------------------------------------------------
(* Recurring expenses.  A new one is checked for its frequency, a changed   *)
(* one is not.  The columns are independent, so a row is written at once.   *)
Checked == {"monthly", "weekly", "yearly"}
AddSub == \E s \in Subs, r \in Expenses :
  /\ sub[s] = Unborn /\ r.frequency \in Checked /\ AtOnce /\ sub' = [sub EXCEPT ![s] = r]
  /\ UNCHANGED <<goal, gift, debt, cat, budget, links, stale>>
ChangeSub == \E s \in Kept(sub), r \in Expenses :
  /\ AtOnce /\ sub' = [sub EXCEPT ![s] = r]
  /\ UNCHANGED <<goal, gift, debt, cat, budget, links, stale>>
DropSub == \E s \in Kept(sub) :
  /\ AtOnce /\ sub' = [sub EXCEPT ![s] = Gone]
  /\ UNCHANGED <<goal, gift, debt, cat, budget, links, stale>>

(* What they come to in a month, in 1200ths: on the page (4.33 weeks), and  *)
(* in the prompts of the budget advisor.                                    *)
InMonth12(f) == CASE f = "monthly" -> 1200 [] f = "weekly" -> 5196 [] f = "yearly" -> 100 [] OTHER -> 0
Share(f) == CASE f = "bi-weekly" -> 2604 [] f \in Checked -> InMonth12(f) [] OTHER -> 1200
Active == {s \in Kept(sub) : sub[s].active}
MonthlyTotal ==
  MapThenSumSet(LAMBDA s : InMonth12(sub[s].frequency) * sub[s].amount, {s \in Active : sub[s].amount # Unborn})
PlannedTotal ==
  MapThenSumSet(LAMBDA s : IF sub[s].amount = Unborn THEN 0 ELSE Share(sub[s].frequency) * sub[s].amount, Active)

-----------------------------------------------------------------------------
(* The search for recurring expenses asks the LLM of merchants with two     *)
(* expenses that are not tracked.  It reads the tuple it gets as a text and *)
(* fails, unless the call has failed or there was no merchant to ask about. *)
Tracked == {sub[s].name : s \in Kept(sub)}
Candidates == {m \in DOMAIN Spending \ Tracked :
  Len(Spending[m]) >= 2 /\ \E i \in DOMAIN Spending[m] : Spending[m][i] # 0}
Find ==
  /\ Starts /\ UNCHANGED <<rowsKept, sqlite, order, stale>>
  /\ advice' = [of |-> "recurring", answer |-> IF Candidates = {} THEN "none" ELSE "failed"]

(* The baseline of a category: the mean of the largest amounts without      *)
(* those the LLM calls exceptional, or else the upper median of all.        *)
Mean(S, of) == LET sum == MapThenSumSet(LAMBDA i : of[i], S)  n == Cardinality(S)  down == sum \div n
               IN IF 2 * (sum % n) > n \/ (2 * (sum % n) = n /\ down % 2 = 1) THEN down + 1 ELSE down
Ranked == UNION {[1..n -> Sums] : n \in 0..AdviceRows}
Descending(f) == \A i, j \in DOMAIN f : i < j => f[i] >= f[j]
Above(f) == {i \in DOMAIN f : f[i] > 0}
Upper(f) == f[Cardinality(Above(f)) - Cardinality(Above(f)) \div 2]
Baseline(f, excluded) ==
  IF Above(f) \ excluded # {} THEN Mean(Above(f) \ excluded, f)
  ELSE IF Above(f) # {} THEN Upper(f) ELSE 0
Advise == \E f \in {g \in Ranked : Descending(g)} : \E excluded \in SUBSET DOMAIN f :
  /\ Starts /\ UNCHANGED <<rowsKept, sqlite, order, stale>>
  /\ advice' = [of |-> "baseline", rows |-> f, answer |-> Baseline(f, excluded)]

PlNext ==
  \/ AddDebt \/ DropDebt \/ AddGoal \/ SetTarget \/ DropGoal \/ DropCategory
  \/ PutBudget \/ DropBudget \/ AddLink \/ DropLink \/ AddSub \/ ChangeSub \/ DropSub
  \/ Find \/ Advise
  \/ \E p \in Planners :
       \/ OpenDebt(p) \/ OpenGift(p) \/ OpenCategory(p) \/ OpenGenerate(p) \/ OpenRename(p)
       \/ SaveDebt(p) \/ SaveGift(p) \/ SaveCategories(p) \/ SaveName(p)
PlSpec == PlInit /\ [][PlNext]_plVars

-----------------------------------------------------------------------------
PlTypeOK ==
  /\ \A d \in Kept(debt) : debt[d].total > 0 /\ debt[d].paid >= 0
  /\ \A g \in Kept(goal) : goal[g] > 0
  /\ \A i \in Kept(gift) : gift[i].goal \in Goals
  /\ \A c \in Kept(cat) : cat[c] \in Names
  /\ links \subseteq Names \X Names /\ asked \in 0..MaxAsked

(* What a handler checks of the rows it has read holds of the rows there    *)
(* are, except of one written by a request whose reading was old: a debt is *)
(* paid at most, categories differ in more than case, a contribution has    *)
(* its goal (debt.py:92-102, settings.py:232-239, goals.py:213, 236).       *)
ChecksHold ==
  /\ \A d \in Kept(debt) \ stale : debt[d].paid <= debt[d].total
  /\ \A c, d \in Kept(cat) \ stale : c # d => ~Alike(cat[c], cat[d])
  /\ \A i \in Kept(gift) \ stale : goal[gift[i].goal] # Gone

(* The page and the advisor count the same for a month, as long as no       *)
(* recurring expense has a frequency that only a change lets in             *)
(* (recurring.py:56-67, budget_llm.py:150-156).                             *)
TotalsAgree == (\A s \in Active : sub[s].frequency \in Checked) => MonthlyTotal = PlannedTotal

(* Whatever the LLM excludes, the baseline lies between the least and the   *)
(* largest amount spent, and is 0 only if there is none                     *)
(* (budget_llm.py:242-253).                                                 *)
BaselineWithin == advice # Unborn /\ advice.of = "baseline" =>
  IF Above(advice.rows) = {} THEN advice.answer = 0
  ELSE /\ advice.answer <= advice.rows[1]
       /\ advice.answer >= advice.rows[Cardinality(Above(advice.rows))]

(* What is promised of a user's lists: the three above (api/settings.py,    *)
(* api/budgets.py, api/goals.py, api/debt.py, api/recurring.py).            *)
PlansHold == ChecksHold /\ TotalsAgree /\ BaselineWithin
=============================================================================
