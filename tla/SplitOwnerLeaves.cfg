SPECIFICATION Spec
CONSTANTS
  m1 = m1
  m2 = m2
  m3 = m3
  p1 = p1
  p2 = p2
  p3 = p3
  i1 = i1
  i2 = i2
  c1 = c1
  c2 = c2
  Members = {m1, m2, m3}
  Founder = m1
  Profiles = {p1, p2, p3}
  FounderProfile = p1
  NoProfile = NoProfile
  Invitations = {i1}
  NoInvitation = NoInvitation
  Connections = {c1, c2}
  Idle = Idle
SYMMETRY Races
CHECK_DEADLOCK FALSE
INVARIANTS OwnersStay
