CONSTANTS
  NoClient = NoClient
  KnownScopes = {"openid", "openid2"}
  KnownResources = {"api"}
  BadUris = {"#"}
  RealmUris <- MCRealmUris
  ServerAlg = "RS256"
  Visits = {1, 2}
  Sessions = {"s1", "s2"}
  ClientIds <- MCClientIds
  Entities <- MCEntities
  Registered <- MCRegistered
  TrustChain <- MCTrustChain
  Changes <- MCChanges
  Cases <- MCCases
  MaxTime = 3
SPECIFICATION Spec
INVARIANTS AnswersAddressed AnswerSound ObjectsHonoured
PROPERTIES VisitAnswered
CHECK_DEADLOCK FALSE
