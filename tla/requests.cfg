SPECIFICATION RequestsSpec
CONSTANTS
  c1 = c1
  c2 = c2
  p1 = p1
  p2 = p2
  i1 = i1
  i2 = i2
  Requests = {c1, c2}
  MaxTokens = 3
  MaxSignIns = 2
  None = None
  Limit = 2
  Window = 3
  MaxBurst = 3
  Horizon = 7
  People = {p1, p2}
  Invites = {i1, i2}
  Calls = {c1, c2}
  MaxGmail = 2
  Nobody = Nobody
  NoInvite = NoInvite
  Secrets = {p1, p2}
  Keys = {i1, i2}
  Handlers = {c1, c2}
  NoSecret = NoSecret
SYMMETRY Symmetry
INVARIANTS
  RequestsTypeOK
  FactorFollowsSession
  WindowBound
  InvitationsSpent
  SecretConfirmed
CHECK_DEADLOCK FALSE
