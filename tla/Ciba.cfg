CONSTANTS
  NoId = NoId
  NoToken = NoToken
  Ids = {i1}
  Client <- MCClient
  Account <- MCAccount
  KnownScopes = {"openid", "a", "b"}
  KnownResources = {"r"}
  Demands <- MCDemands
  BindingLimit = 2
  Ttl = 1
  MinTtl = 1
  Polls = {p1, p2}
  Approvals = {k1, k2}
  TokenIds = {t1, t2}
  Interval = 1
  MaxTime = 2
SYMMETRY Symmetry
SPECIFICATION Spec
INVARIANTS TokensFollowApproval NotifiedOnceUnlessRaced
PROPERTIES RequestSingleUse
CHECK_DEADLOCK FALSE
