SPECIFICATION Spec
CONSTANTS
  d1 = d1
  d2 = d2
  t1 = t1
  t2 = t2
  t3 = t3
  h1 = h1
  h2 = h2
  r1 = r1
  r2 = r2
  Devices = {d1, d2}
  Consoles = {d2}
  Tokens = {t1, t2, t3}
  Requests = {r1, r2}
  Handlers = {h1, h2}
  None = None
SYMMETRY Rows
INVARIANTS TypeOK OneSuccessor AnswersAreOwn SessionsSurvive
PROPERTY LateAnswersAreDropped
