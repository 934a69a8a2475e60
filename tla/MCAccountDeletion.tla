--------------------------- MODULE MCAccountDeletion ---------------------------
(* A small instance of AccountDeletion for TLC. *)
EXTENDS AccountDeletion, TLC

CONSTANTS a1, a2, w1, w2

Anyone == Permutations(Accounts) \cup Permutations(Workers)
===============================================================================
