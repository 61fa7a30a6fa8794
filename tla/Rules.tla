------------------------------- MODULE Rules -------------------------------
(***************************************************************************)
(* The rules for one sender domain (api/rules.py, classifier/rules.py): the *)
(* rows users write, directly or by correcting transactions, the pattern   *)
(* rows all users share, what is learned from confident transactions, and  *)
(* the engine that judges a mail.  A request reads its row and writes it   *)
(* back in another step; requests of one row overlap.  Confidences are     *)
(* percentages.                                                            *)
(***************************************************************************)
EXTENDS Integers, FiniteSets, Functions

CONSTANTS
  Teachers,        \* users; each has one sender rule of the domain at most
  Regexes,         \* of pattern rules
  Writers,         \* requests
  Labels, Topics,  \* expense, income, ignore; categories
  Builtins,        \* what BUILTIN_DOMAIN_RULES may say of the domain: [label, category], or NoRule
  Letters,         \* mails: what the engine looks at in them
  Teachings, Changes,         \* columns a "put" or a "patch" gives, some or all
  Stored,          \* rows there are at first: [Keys -> rows]
  Tallies,         \* transactions there are at first: [Kinds -> Nat]
  MaxEvidence, MaxWrites,     \* bounds
  NoRule, NoTopic

VARIABLES
  builtin,   \* what it says (never changes)
  rules,     \* sender rules by user, pattern rules by regex: a row, or NoRule
  asks,      \* of each request: what it is to do, and the row it read
  tally,     \* transactions with a confidence of 75 or more, by label and category
  writes     \* requests that have started (bound)

ruVars == <<builtin, rules, asks, tally, writes>>

Keys == Teachers \cup Regexes
Kinds == Labels \X (Topics \cup {"Income", "CC Payment", NoTopic})
NoAsk == [op |-> "none"]
Fresh == [category |-> NoTopic, enabled |-> TRUE]          \* defaults of the columns

RuleRows == [label : Labels, category : Topics \cup {NoTopic}, enabled : BOOLEAN]
\* Some columns of a row.
Columns(g) ==
  /\ DOMAIN g \subseteq {"label", "category", "enabled"}
  /\ "label" \in DOMAIN g => g["label"] \in Labels
  /\ "category" \in DOMAIN g => g["category"] \in Topics \cup {NoTopic}
  /\ "enabled" \in DOMAIN g => g["enabled"] \in BOOLEAN

ASSUME RulesAssumption ==
  /\ IsFiniteSet(Labels) /\ IsFiniteSet(Topics) /\ {"expense", "income", "ignore"} \subseteq Labels
  /\ Teachers \cap Regexes = {} /\ NoRule \notin RuleRows
  /\ MaxEvidence \in Nat /\ MaxWrites \in Nat
  /\ \A b \in Builtins : b # NoRule => b.label \in Labels /\ b.category \in Topics \cup {NoTopic}
  /\ \A m \in Letters : m.income \in Nat /\ m.expense \in Nat
  /\ \A g \in Teachings : Columns(g) /\ "label" \in DOMAIN g
  /\ \A g \in Changes : Columns(g)
  /\ Stored \subseteq [Keys -> RuleRows \cup {NoRule}]
  /\ \A s \in Stored, x \in Regexes : s[x] # NoRule => s[x].label # "ignore"
  /\ Tallies \subseteq [Kinds -> 0..MaxEvidence]

RuInit ==
  /\ builtin \in Builtins /\ rules \in Stored
  /\ asks = [w \in Writers |-> NoAsk]
  /\ tally \in Tallies /\ writes = 0

-----------------------------------------------------------------------------
(* Requests.  "put" writes the given columns and inserts a missing row:     *)
(* POST /rules all three; a corrected or reclassified transaction its label *)
(* and category; a batch action and a retraining the label and, if there is *)
(* one, the category.  "patch" needs a row.                                 *)
Only(row, cs) == Restrict(row, cs)

Asks(w, a) == /\ asks' = [asks EXCEPT ![w] = a]
             /\ writes < MaxWrites /\ writes' = writes + 1
             /\ UNCHANGED <<builtin, rules, tally>>
Begins(op, k, given, to) ==
  [op |-> op, key |-> k, given |-> given, to |-> to, read |-> rules[k], gone |-> FALSE]

PutRule(w) == \E u \in Teachers, g \in Teachings :
  asks[w] = NoAsk /\ Asks(w, Begins("put", u, g, u))
PatchRule(w) == \E u \in Teachers, g \in Changes :
  asks[w] = NoAsk /\ rules[u] # NoRule /\ Asks(w, Begins("patch", u, g, u))
(* POST /rules/patterns: 409 if the regex has a row.                        *)
PutAnyPattern(w) == \E x \in Regexes, l \in Labels :        \* mutant of PutPattern
  asks[w] = NoAsk /\ rules[x] = NoRule
  /\ Asks(w, Begins("put", x, [label |-> l, category |-> NoTopic, enabled |-> TRUE], x))
PutPattern(w) == \E x \in Regexes, l \in Labels \ {"ignore"} :
  asks[w] = NoAsk /\ rules[x] = NoRule
  /\ Asks(w, Begins("put", x, [label |-> l, category |-> NoTopic, enabled |-> TRUE], x))
(* PATCH /rules/patterns/{id} may give it another regex.                    *)
PatchPattern(w) == \E x, to \in Regexes, g \in Changes :
  /\ asks[w] = NoAsk /\ rules[x] # NoRule
  /\ "label" \in DOMAIN g => g.label # "ignore"
  /\ Asks(w, Begins("patch", x, g, to))
RemoveRule(w) == \E k \in Keys :
  asks[w] = NoAsk /\ rules[k] # NoRule /\ Asks(w, Begins("delete", k, Only(Fresh, {}), k))

(* The commit.  An UPDATE carries the columns that differ from what was     *)
(* read and finds its row by id, under another regex too; it fails if the   *)
(* row is gone or the regex taken, an INSERT if there is a row by now.      *)
Differing(a) == Only(a.given, {c \in DOMAIN a.given : a.given[c] # a.read[c]})
Overlaid(row, new) == [c \in DOMAIN row \cup DOMAIN new |-> IF c \in DOMAIN new THEN new[c] ELSE row[c]]
OfRow(v, k) == asks[v] # NoAsk /\ asks[v].key = k
Ends(w, others) == asks' = [v \in Writers |-> IF v = w THEN NoAsk ELSE others[v]]

Inserts(a) == a.op = "put" /\ a.read = NoRule /\ rules[a.key] = NoRule
Updates(a) == /\ a.op # "delete" /\ a.read # NoRule /\ ~a.gone
              /\ a.to # a.key => rules[a.to] = NoRule
Drops(a) == a.op = "delete" /\ (a.gone => a.key \in Teachers)
InsertRow(w) == LET a == asks[w] IN
  /\ Inserts(a) /\ rules' = [rules EXCEPT ![a.key] = Overlaid(Fresh, a.given)]
  /\ Ends(w, asks)
UpdateRow(w) == LET a == asks[w] IN
  /\ Updates(a)
  /\ rules' = [k \in Keys |-> IF k = a.to THEN Overlaid(rules[a.key], Differing(a))
                              ELSE IF k = a.key THEN NoRule ELSE rules[k]]
  /\ Ends(w, [v \in Writers |->
       IF ~OfRow(v, a.key) THEN asks[v]
       ELSE [asks[v] EXCEPT !.key = a.to, !.to = IF @ = a.key THEN a.to ELSE @]])
DropRow(w) == LET a == asks[w] IN
  /\ Drops(a) /\ rules' = [rules EXCEPT ![a.key] = NoRule]
  /\ Ends(w, [v \in Writers |-> IF OfRow(v, a.key) THEN [asks[v] EXCEPT !.gone = TRUE] ELSE asks[v]])
WriteFails(w) ==
  /\ ~Inserts(asks[w]) /\ ~Updates(asks[w]) /\ ~Drops(asks[w])
  /\ Ends(w, asks) /\ UNCHANGED rules
CommitRule(w) ==
  /\ asks[w] # NoAsk
  /\ InsertRow(w) \/ UpdateRow(w) \/ DropRow(w) \/ WriteFails(w)
  /\ UNCHANGED <<builtin, tally, writes>>

-----------------------------------------------------------------------------
(* build_domain_rules(): the label and category with at least three and     *)
(* four fifths of the transactions, whoever's; any user's rule of the       *)
(* domain before that, enabled or not, the last of them that is read.       *)
Evidence(t) == Cardinality(UNION {{k} \X (1..t[k]) : k \in DOMAIN t})
Majority(t) == {k \in DOMAIN t : t[k] >= 3 /\ 5 * t[k] >= 4 * Evidence(t)}
Verdict(l, c) == [label |-> l, category |-> c]
Written == {Verdict(rules[u].label, rules[u].category) : u \in {u \in Teachers : rules[u] # NoRule}}
Learned == {Verdict(k[1], k[2]) : k \in Majority(tally)}
DbRules == IF Written # {} THEN Written ELSE IF Learned # {} THEN Learned ELSE {NoRule}

(* apply_rules().                                                           *)
Result(l, c, conf) == [label |-> l, category |-> c, confidence |-> conf]
Unsure == Result("none", NoTopic, 0)
AtMost(n, bound) == IF n < bound THEN n ELSE bound
Financial(m) == m.amount \/ (m.verb /\ m.income + m.expense > 0)
Anyway(rule, l, trust, low) == trust                          \* mutant of Trust
Trust(rule, l, trust, low) == IF rule # NoRule /\ rule.label = l THEN trust ELSE low
Earnings(m) == AtMost(62 + 12 * m.income, 90)
RuleOf(db) == IF db # NoRule THEN db ELSE builtin
TrustOf(db) == IF db # NoRule THEN 98 ELSE 92
TopicOf(rule) == IF rule # NoRule THEN rule.category ELSE NoTopic
\* What the words of the mail say, with no rule of its domain to say more.
ByWords(m) ==
  IF m.promotion THEN Result("ignore", NoTopic, 82)
  ELSE IF m.income > m.expense THEN Result("income", "Income", Earnings(m))
  ELSE IF m.expense > 0 THEN Result("expense", NoTopic, AtMost(62 + 10 * m.expense, 88))
  ELSE Unsure
ByMoney(m, rule, trust) ==
  IF m.income > m.expense
    THEN Result("income", IF TopicOf(rule) = NoTopic THEN "Income" ELSE TopicOf(rule),
                Trust(rule, "income", trust, Earnings(m)))
  ELSE IF m.expense > 0 THEN Result("expense", TopicOf(rule), Trust(rule, "expense", trust, 88))
  ELSE Unsure
ApplyRules(m, db) ==
  IF m.delivery /\ ~m.order THEN Result("ignore", NoTopic, 85)
  ELSE IF m.card THEN Result("ignore", "CC Payment", 95)
  ELSE IF Financial(m) THEN ByMoney(m, RuleOf(db), TrustOf(db))
  ELSE IF RuleOf(db) # NoRule THEN Result(RuleOf(db).label, TopicOf(RuleOf(db)), TrustOf(db))
  ELSE ByWords(m)

(* A mail that is classified by rules becomes evidence itself.              *)
Import(m) == \E db \in DbRules :
  LET r == ApplyRules(m, db)
      k == <<r.label, r.category>>
  IN /\ Evidence(tally) < MaxEvidence /\ r.confidence >= 75
     /\ tally' = [tally EXCEPT ![k] = @ + 1]
     /\ UNCHANGED <<builtin, rules, asks, writes>>

(* POST /rules/test: the user's own rule of the domain and the built-in     *)
(* one, the patterns (taken to match), and what the engine says.            *)
Match(type, l, on) == [type |-> type, label |-> l, enabled |-> on]
Shown(u) ==
  {Match("builtin_domain", builtin.label, TRUE) : n \in {builtin} \ {NoRule}}
  \cup {Match("sender_domain", rules[v].label, rules[v].enabled) : v \in {u} \ {v \in Teachers : rules[v] = NoRule}}
  \cup {Match("pattern", rules[x].label, TRUE) : x \in {x \in Regexes : rules[x] # NoRule /\ rules[x].enabled}}
TestRules(u, m) == {[matches |-> Shown(u), classification |-> ApplyRules(m, db)] : db \in DbRules}

RuNext ==
  \/ \E w \in Writers : PutRule(w) \/ PatchRule(w) \/ PutPattern(w) \/ PatchPattern(w)
                        \/ RemoveRule(w) \/ CommitRule(w)
  \/ \E m \in Letters : Import(m)
RuSpec == RuInit /\ [][RuNext]_ruVars

-----------------------------------------------------------------------------
RuTypeOK ==
  /\ \A k \in Keys : rules[k] # NoRule =>
       /\ rules[k].label \in Labels /\ rules[k].category \in Topics \cup {NoTopic}
       /\ rules[k].enabled \in BOOLEAN /\ (k \in Regexes => rules[k].label # "ignore")
  /\ \A w \in Writers : asks[w] # NoAsk => asks[w].key \in Keys /\ asks[w].to \in Keys
  /\ tally \in [Kinds -> 0..MaxEvidence] /\ writes \in 0..MaxWrites

(* The rules agree, however they have come about:                           *)
(* what is learned is one verdict, and no mail that bears it out unlearns   *)
(* it;                                                                      *)
LearnedOnce ==
  /\ Cardinality(Majority(tally)) <= 1
  /\ \A k \in Majority(tally) : Majority([tally EXCEPT ![k] = @ + 1]) = {k}
(* the certainty of a rule goes with the rule's own label, never with what  *)
(* the words of the mail say against it;                                    *)
CertaintyOfRule ==
  \A db \in DbRules, m \in Letters :
    LET r == ApplyRules(m, db)
    IN /\ r.confidence = 98 => db # NoRule /\ r.label = db.label
       /\ r.confidence = 92 => db = NoRule /\ r.label = builtin.label
(* and where nobody else has taught the domain, the tester names a rule for *)
(* every verdict it gives with a rule's certainty.                          *)
TesterExplains ==
  \A u \in Teachers, m \in Letters :
    (Learned = {} /\ \A v \in Teachers \ {u} : rules[v] = NoRule) =>
      \A t \in TestRules(u, m) : t.classification.confidence \in {92, 98} =>
        \E n \in t.matches : n.type # "pattern" /\ n.label = t.classification.label
RulesAgree == LearnedOnce /\ CertaintyOfRule /\ TesterExplains
=============================================================================
