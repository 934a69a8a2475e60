------------------------- MODULE MCNotificationOutbox -------------------------
\* Two API processes and up to two pushes to one account.
EXTENDS NotificationOutbox, TLC

CONSTANTS w1, w2, r1, r2, p1

OneRecipient == [r \in Revisions |-> p1]

Twins == Permutations({w1, w2}) \cup Permutations({r1, r2})
==============================================================================
