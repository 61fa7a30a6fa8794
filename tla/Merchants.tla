----------------------------- MODULE Merchants -----------------------------
(***************************************************************************)
(* Merchant names (classifier/merchant_entity.py, api/merchants.py): the   *)
(* aliases of all users, the one cache of the process that is cleared and  *)
(* filled again around a query, and the lookup of a name from a mail.      *)
(* A load clears the cache, awaits its query and then fills: requests of   *)
(* other users and the load at startup run in between.                     *)
(***************************************************************************)
EXTENDS Integers, FiniteSets

CONSTANTS
  Aliases,       \* what users may ask for: [user, name, canonical]
  Lower,         \* lower() of each name
  Clean,         \* clean_merchant() of each: also without prefixes, suffixes, UPI handle
  SeedOf, MapOf, FuzzyOf,    \* what the built-in tables say of a cleaned name, or Nothing
  Creators,     \* requests that create an alias, one after the other
  Startup,       \* the task of lifespan() that fills the cache
  MaxAliases,    \* bound
  Nothing

VARIABLES
  alias,     \* rows of merchant_entity_aliases: [user, name, canonical]
  cache,     \* _db_alias_cache: from a lower-case name to its canonical one
  job,       \* each request and the startup task: where it is, and what it asks or read
  unloaded   \* the cache missed a load: it failed, or LOCAL_MODE leaves it out

mrVars == <<alias, cache, job, unloaded>>

Loaders == Creators \cup {Startup}
NoJob == [pc |-> "idle", ask |-> Nothing, read |-> {}]
Goes(j, pc) == job' = [job EXCEPT ![j].pc = pc]
Empty == [n \in {} |-> Nothing]

(* A start of the process, with the aliases earlier ones have left.         *)
Distinct(as) == \A a, b \in as : (a.user = b.user /\ a.name = b.name) => a = b
MrInit ==
  /\ alias \in {as \in SUBSET Aliases : Cardinality(as) <= MaxAliases /\ Distinct(as)}
  /\ cache = Empty
  /\ unloaded \in BOOLEAN                      \* LOCAL_MODE: no load
  /\ job = [j \in Loaders |-> IF j = Startup /\ ~unloaded
                                THEN [NoJob EXCEPT !.pc = "clear"] ELSE NoJob]

(* create_merchant_alias(): 409 if the user has the alias.                  *)
Taken(a) == \E b \in alias : b.user = a.user /\ b.name = a.name
CreateAlias(r) == \E a \in Aliases :
  /\ job[r].pc = "idle" /\ Cardinality(alias) < MaxAliases
  /\ ~Taken(a)
  /\ job' = [job EXCEPT ![r] = [NoJob EXCEPT !.pc = "insert", !.ask = a]]
  /\ UNCHANGED <<alias, cache, unloaded>>

(* The commit; of two requests for one name the second violates the unique  *)
(* key and fails.                                                           *)
InsertAlias(r) ==
  /\ job[r].pc = "insert"
  /\ \/ Taken(job[r].ask) /\ Goes(r, "idle") /\ UNCHANGED alias
     \/ ~Taken(job[r].ask) /\ Goes(r, "clear") /\ alias' = alias \cup {job[r].ask}
  /\ UNCHANGED <<cache, unloaded>>

(* load_db_aliases(): clear, query, fill.                                   *)
Clear(j) ==
  /\ job[j].pc = "clear"
  /\ cache' = Empty /\ Goes(j, "select")
  /\ UNCHANGED <<alias, unloaded>>
Select(j) ==
  /\ job[j].pc = "select"
  /\ job' = [job EXCEPT ![j].pc = "fill", ![j].read = alias]
  /\ UNCHANGED <<alias, cache, unloaded>>

(* The rows come in no order: of two users' aliases one stays.              *)
Replaced(new) == new                                   \* mutant of Added
Added(new) == [n \in DOMAIN cache \cup DOMAIN new |-> IF n \in DOMAIN new THEN new[n] ELSE cache[n]]
FillCache(j) ==
  /\ job[j].pc = "fill"
  /\ LET keys == {Lower[a.name] : a \in job[j].read}
     IN \E new \in [keys -> {a.canonical : a \in job[j].read}] :
          /\ \A n \in keys : \E a \in job[j].read : Lower[a.name] = n /\ a.canonical = new[n]
          /\ cache' = Added(new)
  /\ job' = [job EXCEPT ![j] = NoJob]
  /\ UNCHANGED <<alias, unloaded>>

(* The query fails, or at startup one before it: nobody hears of it, the    *)
(* cache stays as it is.                                                    *)
LoadFails(j) ==
  /\ job[j].pc = "select" \/ (j = Startup /\ job[j].pc = "clear")
  /\ job' = [job EXCEPT ![j] = NoJob] /\ unloaded' = TRUE
  /\ UNCHANGED <<alias, cache>>

LoadStep(j) == Clear(j) \/ Select(j) \/ FillCache(j) \/ LoadFails(j)
MrNext ==
  \/ \E r \in Creators : CreateAlias(r) \/ InsertAlias(r)
  \/ \E j \in Loaders : LoadStep(j)
MrSpec == MrInit /\ [][MrNext]_mrVars

-----------------------------------------------------------------------------
(* resolve_merchant(): the built-in seeds, the users' aliases, the known    *)
(* merchants, the nearest of them, or the cleaned name itself.              *)
Resolve(n) ==
  LET c == Clean[n]
  IN IF SeedOf[c] # Nothing THEN [canonical |-> SeedOf[c], method |-> "exact_seed"]
     ELSE IF c \in DOMAIN cache THEN [canonical |-> cache[c], method |-> "exact_db"]
     ELSE IF MapOf[c] # Nothing THEN [canonical |-> MapOf[c], method |-> "exact_map"]
     ELSE IF FuzzyOf[c] # Nothing THEN [canonical |-> FuzzyOf[c], method |-> "fuzzy"]
     ELSE [canonical |-> c, method |-> "cleaned"]

MrTypeOK ==
  /\ alias \subseteq Aliases
  /\ Distinct(alias)
  /\ \A n \in DOMAIN cache : \E a \in Aliases : Lower[a.name] = n /\ a.canonical = cache[n]
  /\ \A j \in Loaders : job[j].pc \in {"idle", "insert", "clear", "select", "fill"}
  /\ unloaded \in BOOLEAN

(* When no load is under way, none has failed and none was left out, every  *)
(* alias is found: a name that is the alias resolves by a seed or by the    *)
(* aliases, however creations and loads overlap.  (An alias that clean_     *)
(* merchant() would shorten is never found: the cache has it unshortened.)  *)
Loading == \E j \in Loaders : job[j].pc \in {"clear", "select", "fill"}
AliasesResolve == (~Loading /\ ~unloaded) =>
  \A a \in alias : Clean[a.name] = Lower[a.name] =>
    Resolve(a.name).method \in {"exact_seed", "exact_db"}
=============================================================================
