SPECIFICATION FairSpec
CONSTANTS
  plain = plain  asks = asks
  s1 = s1  s2 = s2  r1 = r1  k1 = k1
  Browsers = {b1}
  Users = {u1, u2}
  NoUser = NoUser
  Clients = {plain, asks}
  Scopes = {s1, s2}
  Resources = {r1}
  Keys = {k1}
  NoKey = NoKey
  Direct <- MCDirect
  Pushed <- MCPushed
  NoDemand = NoDemand
  Refs = {q1}
  NoRef = NoRef
  Calls = {1, 2}
  RequireConsent = {asks}
  Fapi = {}
  ParRequired = {plain}
  RequireLogin = TRUE
  PushTtl = 1
  MaxTime = 2
  MaxVisits = 2
INVARIANTS CodesApproved FreshLogin CodeMatchesRequest PushedOnceUnlessRaced
PROPERTIES ConsentKeptUnlessOverlapped NoLoginLoop
CHECK_DEADLOCK FALSE
