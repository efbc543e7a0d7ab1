SPECIFICATION Spec
SYMMETRY Symmetry
CONSTANTS
  s1 = s1
  s2 = s2
  Servers = {s1, s2}
  Subjects = {"alice", "bob"}
  Tokens <- MCTokens
  Proofs <- MCProofs
  Clients <- MCClients
  KnownScopes = {"openid4vci", "other"}
  TokenRequests <- MCTokenRequests
  OfferTtl = 1
  NonceTtl = 1
  TokenTtl = 2
  Hour = 2
  MsoLifetime = 2
  SignerLifetime = 3
  NoPki = NoPki
  Torn = Torn
  MaxTime = 4
  MaxTokens = 1
  MaxOffers = 2
  MaxNonces = 1
  MaxCredentials = 1
  MaxPresentations = 2
  MaxLoad = 5
INVARIANTS OfferedSubject MdocVerifiable PresentationOnce
CHECK_DEADLOCK FALSE
