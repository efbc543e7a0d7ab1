CONSTANTS
  spa = spa
  fapi = fapi
  offline = offline
  profile = profile
  api = api
  k1 = k1
  NoClient = NoClient
  NoKey = NoKey
  NoCert = NoCert
  NoToken = NoToken
  OfflineAccess = offline
  Codes = {c1}
  Clients = {spa}
  PublicClients = {spa}
  Fapi2Clients = {}
  DpopClients = {}
  MtlsClients = {}
  Scopes = {offline}
  Resources = {}
  Keys = {}
  Certs = {}
  Grants <- RaceGrants
  RefreshIds = {t1, t2, t3}
  AccessIds = {a1, a2, a3}
  Requests = {r1, r2}
  CodeTtl = 1
  AccessTtl = 1
  RefreshTtl = 1
  MaxTime = 1
SYMMETRY Symmetry
SPECIFICATION Spec
INVARIANTS TypeOK SingleUseUnlessRaced ReplayRevokes
PROPERTIES ConsumedForever ImplementsSingleUse
CHECK_DEADLOCK FALSE
