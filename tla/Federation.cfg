CONSTANTS
  Entities <- MCEntities
  Subject = "rp"
  Asked = {"ta", "tb"}
  Provider = "op"
  Keys = {1, 2}
  Setups <- MCSetups
  Presented <- MCPresented
  NoDocument = NoDocument
  Absent = Absent
  Ttl = 1
  MaxTime = 2
  MaxChanges = 2
SPECIFICATION Spec
INVARIANTS ChainVouched PolicyWins
PROPERTIES ResolutionEnds
CHECK_DEADLOCK FALSE
