--------------------------- MODULE MCOtpChallenge ----------------------------
(* Small instances of OtpChallenge for TLC. *)
EXTENDS OtpChallenge, TLC

CONSTANTS c1, c2, c3, q1, q2, v1, v2

Names == Permutations(Codes) \cup Permutations(Requesters) \cup Permutations(Verifiers)
==============================================================================
