SPECIFICATION ReadingSpec
SYMMETRY Interchangeable
CONSTANTS
  Null = Null
  Ids = {1, 2, 3}
  Mail <- ThreeMails
  Says <- ThreeSays
  Filters <- TwoFilters
  Terms = {"shop"}
  Hits <- OneHit
  Numbers <- OneNumber
  FirstCursors <- AboveAll
  AliasesOf <- TwoCategories
  PageLimit = 1
  BatchSize = 1
  MaxRows = 2
  MaxLog = 3
  MaxChanges = 1
  u1 = u1
  u2 = u2
  x1 = x1
  x2 = x2
  Aliases <- Nicknames
  Lower <- LowerCase
  Clean <- Cleaned
  SeedOf <- Seeds
  MapOf <- NoneKnown
  FuzzyOf <- NoneKnown
  Creators = {r1, r2}
  Startup = startup
  MaxAliases = 3
  Nothing = Nothing
  Teachers = {u1, u2}
  Regexes = {x1, x2}
  Writers = {r1, r2}
  Labels = {"expense", "income", "ignore"}
  Topics = {"food"}
  Builtins <- TwoBuiltins
  Letters <- NineLetters
  Teachings <- FourBodies
  Changes <- ThreePatches
  Stored <- TwoStores
  Tallies <- TwoTallies
  MaxEvidence = 4
  MaxWrites = 2
  NoRule = NoRule
  NoTopic = NoTopic
  Inbox = {e1, e2}
  Reviewers = {r1, r2}
  Words <- TwoWords
  MaxReviews = 3
  goal1 = goal1
  goal2 = goal2
  gift1 = gift1
  gift2 = gift2
  debt1 = debt1
  debt2 = debt2
  sub1 = sub1
  sub2 = sub2
  cat1 = cat1
  cat2 = cat2
  cat3 = cat3
  Planners = {p1, p2}
  Goals = {goal1, goal2}
  Gifts = {gift1, gift2}
  Debts = {debt1, debt2}
  Subs = {sub1, sub2}
  Cats = {cat1, cat2, cat3}
  Names = {"food", "Food", "Rent"}
  Folded <- TwoSpellings
  Titled <- TwoTitles
  Sums = {0, 1, 2}
  Expenses <- FourExpenses
  Spending <- OneShopTwice
  Begun <- HalfPaid
  AdviceRows = 2
  MaxAsked = 3
  Unborn = Unborn
  Gone = Gone
INVARIANTS
  ReadingTypeOK
  PassesExact
  
  TeachingsHold
  
CHECK_DEADLOCK FALSE
