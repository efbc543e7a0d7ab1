SPECIFICATION Spec
SYMMETRY Symmetry
CONSTANTS
  Emails = {"alice"}
  Passwords <- MCPasswords
  Browsers = {b1, b2}
  Clients = {"c1", "c2"}
  Policy <- MCPolicy
  Patch <- MCPatch
  SessionLifetime <- MCSessionLifetime
  CookieLifetime = 2
  TokenLifetime = 1
  PostLogout <- MCPostLogout
  Backchannel = {"c1", "c2"}
  Frontchannel = {"c2"}
  SidRequired = {"c2"}
  RotationAge = 2
  GraceAge = 2
  NoUser = NoUser
  NoToken = NoToken
  MaxTime = 4
  MaxLogins = 3
  MaxLoad = 7
INVARIANTS
  SessionsSurvive
  ResetsSoundUnlessRaced
  LogoutReaches
CHECK_DEADLOCK FALSE
