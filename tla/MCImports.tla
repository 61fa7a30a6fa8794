----------------------------- MODULE MCImports -----------------------------
(***************************************************************************)
(* What an import shows and what it leads to: the progress of the jobs,    *)
(* the duplicates among what they stored, and the figures of the ledger.   *)
(* The three share no state, so a behaviour is one of a single part.       *)
(***************************************************************************)
EXTENDS SyncProgress, MCDedup, Figures

CONSTANTS j1, j2, u1, food, Food, card, sip, shop
Owners == [j \in {j1, j2} |-> u1]
Kinds2 == (j1 :> "sync") @@ (j2 :> "fetch")
Symmetry == Permutations(Dicts) \cup Permutations({c1, c2})

\* Two transactions, of this month and of the year before, thirty days ago.
ThreeAndFive == <<3, 5>>
OneShop == <<shop, Null>>
NewYear == <<2026, 1, 15>>
TwoDates == {<<2026, 1, 5>>, <<2025, 12, 16>>}
Keys3 == (food :> "food") @@ (card :> "card") @@ (sip :> "investment")
LowerCase == (food :> food) @@ (Food :> food) @@ (card :> card) @@ (sip :> sip)

VARIABLE part
\* What a dict that nothing refers to holds can make no difference.
View == <<[d \in Held \ {NoDict} |-> heap[d]], mem, queue, writer, row, old, startup, stops,
          jobVars, ddVars, fgVars, part>>

NothingStored == mail = CHOOSE m \in Inboxes : TRUE
ImportsInit ==
  /\ PgInit /\ DdInit /\ FgInit
  /\ \/ part \in {"progress", "figures"} /\ NothingStored /\ ~rule.known
     \/ part = "duplicates"
ImportsNext ==
  \/ part = "progress" /\ PgNext /\ UNCHANGED <<ddVars, fgVars, part>>
  \/ part = "duplicates" /\ DdNext /\ UNCHANGED <<pgVars, fgVars, part>>
  \/ part = "figures" /\ FgNext /\ UNCHANGED <<pgVars, ddVars, part>>
ImportsSpec == ImportsInit /\ [][ImportsNext]_<<pgVars, ddVars, fgVars, part>>

ImportsTypeOK == PgTypeOK /\ DdTypeOK /\ FgTypeOK
=============================================================================
