CONSTANTS
  bound = bound
  plain = plain
  good = good
  alien = alien
  k1 = k1
  k2 = k2
  NoKey = NoKey
  NoProof = NoProof
  NoToken = NoToken
  Tokens = {bound, plain}
  Keys = {k1, k2}
  Proofs = {good, alien}
  Exp <- MCExp
  BoundKey <- MCBoundKey
  Ath <- MCAth
  Jkt <- MCJkt
  Iat <- MCIat
  Calls = {c1, c2}
  Revocations = {v1}
  Skew = 1
  MaxTime = 3
SYMMETRY Symmetry
SPECIFICATION Spec
INVARIANTS RevokedNotServed ProofSingleUse
CHECK_DEADLOCK FALSE
