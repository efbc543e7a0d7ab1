CONSTANTS
  NoDevice = NoDevice
  NoUser = NoUser
  Devices = {d1}
  Users = {u1}
  Polls = {p1, p2}
  Pages = {k1, k2}
  TokenIds = {t1, t2}
  Ttl = 1
  Interval = 3
  MaxTime = 2
SPECIFICATION Spec
INVARIANTS TokensFollowDecision
PROPERTIES SessionSingleUse SessionsSettled
CHECK_DEADLOCK FALSE
