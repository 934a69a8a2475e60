SPECIFICATION FairSpec
CONSTANTS
    w1 = w1
    w2 = w2
    r1 = r1
    r2 = r2
    p1 = p1
    Workers = {w1, w2}
    NoWorker = NoWorker
    Revisions = {r1}
    Profiles = {p1}
    Recipient <- OneRecipient
    MaxAttempts = 2
    ProfileCap = 1
    GlobalCap = 1
    RetainedCap = 1
    NoRow = NoRow
    NoJob = NoJob
PROPERTIES EveryPushEnds
\* Everything may stop once all accounts are deleted.
CHECK_DEADLOCK FALSE
