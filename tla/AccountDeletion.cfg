SPECIFICATION Spec
CONSTANTS
  a1 = a1
  a2 = a2
  w1 = w1
  w2 = w2
  Accounts = {a1, a2}
  Workers = {w1, w2}
  Tool = Tool
  MaxRequests = 2
  MaxAttempts = 2
  JournalCap = 2
  None = None
SYMMETRY Anyone
CHECK_DEADLOCK FALSE
INVARIANTS TypeOK NobodyCommitsDenied DenialsAreJournaled OneIntentPerAccount AdmissionMeansEnforced CompletedIsDenied
PROPERTIES AdmittedBeforeIntent
