CONSTANTS
  NoKid = NoKid
  Algorithms = {"RS256"}
  RotatedAlgorithms = {"RS256"}
  Kids = {k1, k2, k3}
  Providers = {op}
  Admins = {admin}
  Signers = {g1}
  Rotation = 2
  Grace = 1
  TokenTtl = 1
  Proactive = 1
  MaxTime = 4
SYMMETRY Symmetry
SPECIFICATION Spec
INVARIANTS ActiveUnlessAged VerifiableUntilExpiry PublicationComplete
CHECK_DEADLOCK FALSE
