SPECIFICATION Spec
CONSTANTS
  Jwks <- MCJwks
  AllowFullGrants = TRUE
  CipherAvailable = TRUE
  SubjectSeed = TRUE
  SectorFetcher = TRUE
  Ids = {c1}
  Secrets = {x1, x2}
  NoSecret = NoSecret
  Bodies <- MCBodies
  NoBody = NoBody
  RemoteKeys <- MCRemoteKeys
  Calls = {1, 2}
  InitialMode = "static"
  MaxKeys = 2
  MaxCalls = 4
SYMMETRY Symmetries
INVARIANTS StoredUsable SecretInForce
PROPERTIES DeletedForGood
CHECK_DEADLOCK FALSE
