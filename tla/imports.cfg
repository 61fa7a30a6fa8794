SPECIFICATION ImportsSpec
CONSTANTS
  j1 = j1
  j2 = j2
  u1 = u1
  c1 = c1
  c2 = c2
  Users = {u1}
  Jobs = {j1, j2}
  OwnerOf <- Owners
  KindOf <- Kinds2
  Dicts = {d1, d2}
  QueueSize = 2
  MaxStops = 1
  NoDict = NoDict
  Txs = {1, 2, 3}
  Inboxes <- ThreeInboxes
  Orders <- OneOrder
  Callers = {c1, c2}
  MaxVerdicts = 2
  Entries = {1, 2}
  AmountOf <- ThreeAndFive
  MerchantOf <- OneShop
  food = food
  Food = Food
  card = card
  sip = sip
  shop = shop
  Categories = {food, Food, card, sip}
  Canonical <- Keys3
  Lower <- LowerCase
  Dates <- TwoDates
  Today <- NewYear
  BreakdownLimit = 1
  MerchantLimit = 8
  Null = Null
  NoTx = NoTx
INVARIANTS
  ImportsTypeOK
  ProgressTruthful
  AutoIsEarned
  
  
CHECK_DEADLOCK FALSE
SYMMETRY Symmetry
VIEW View
