---------------------------- MODULE MCPublicCache ----------------------------
(* Instances of PublicCache for TLC. *)
EXTENDS PublicCache, TLC

\* Ingesters and clients are interchangeable: sound for the safety runs.
Symmetric == Permutations(Ingesters) \cup Permutations(Clients)
=============================================================================
