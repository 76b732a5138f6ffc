---------------------------- MODULE MCAdminAccess ----------------------------
(* Instances of AdminAccess for TLC. *)
EXTENDS AdminAccess, TLC

Symmetric == Permutations(Threads) \cup Permutations(Tokens) \cup Permutations(Otps)
=============================================================================
