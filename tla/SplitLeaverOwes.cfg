SPECIFICATION AllJoinedSpec
CONSTANTS
  p1 = p1
  p2 = p2
  p3 = p3
  e1 = e1
  e2 = e2
  r1 = r1
  r2 = r2
  r3 = r3
  s1 = s1
  s2 = s2
  Members <- ThreeMembers
  Founder = 1
  Profiles = {p1, p2, p3}
  FounderProfile = p1
  NoProfile = NoProfile
  Expenses = {e1, e2}
  RevIds = {r1, r2}
  NoRevision = NoRevision
  SettlementIds = {}
  Bills <- AllBills
  Amounts = {1}
  GrossCap = 3
SYMMETRY ClientIds
CHECK_DEADLOCK FALSE
PROPERTY LeaversOweNobody
