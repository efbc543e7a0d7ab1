CONSTANTS
  spa = spa
  fapi = fapi
  offline = offline
  profile = profile
  api = api
  k1 = k1
  NoClient = NoClient
  NoKey = NoKey
  NoCert = NoCert
  NoToken = NoToken
  OfflineAccess = offline
  Codes = {c1}
  Clients = {spa, fapi}
  PublicClients = {spa}
  Fapi2Clients = {fapi}
  DpopClients = {}
  MtlsClients = {fapi}
  Scopes = {offline, profile}
  Resources = {api, api2}
  Keys = {k1, k2}
  Certs = {x1, x2}
  Grants <- LineageGrants
  RefreshIds = {t1, t2, t3}
  AccessIds = {a1, a2, a3}
  Requests = {r1}
  CodeTtl = 1
  AccessTtl = 1
  RefreshTtl = 1
  MaxTime = 2
SYMMETRY Symmetry
SPECIFICATION Spec
INVARIANTS GrantLineage BindingInherited
CHECK_DEADLOCK FALSE
