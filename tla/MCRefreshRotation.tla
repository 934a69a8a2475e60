------------------------- MODULE MCRefreshRotation --------------------------
(* Small instances of RefreshRotation for TLC. *)
EXTENDS RefreshRotation, TLC

CONSTANTS d1, d2, t1, t2, t3, h1, h2, r1, r2

Rows == Permutations(Tokens) \cup Permutations(Handlers) \cup Permutations(Requests)
==============================================================================
