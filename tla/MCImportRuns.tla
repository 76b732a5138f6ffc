----------------------------- MODULE MCImportRuns -----------------------------
(* Instances of ImportRuns for TLC. *)
EXTENDS ImportRuns, TLC

CONSTANTS harvest, nightly, manual

Symmetric == Permutations(Schedulers) \cup Permutations(Callers)
Periods == [s \in Sources |-> CASE s = harvest -> 1 [] s = nightly -> 2 [] OTHER -> 0]
=============================================================================
