SPECIFICATION Spec
CONSTANTS
  c1 = c1
  c2 = c2
  c3 = c3
  q1 = q1
  q2 = q2
  v1 = v1
  v2 = v2
  Codes = {c1, c2}
  Requesters = {q1, q2}
  Verifiers = {v1, v2}
  MaxAttempts = 2
  None = None
SYMMETRY Names
CHECK_DEADLOCK FALSE
INVARIANTS TypeOK OneWinner MarkerGuardsOpenCode WrongCodesBounded
