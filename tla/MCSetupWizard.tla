---------------------------- MODULE MCSetupWizard ----------------------------
(* Two administrators, one public field besides id and type, and the hosts on both *)
(* sides of the gates for versions.                                               *)
EXTENDS SetupWizard, TLC

Json(product, major) == [answer |-> "json", product |-> product, major |-> major]

MCHosts == {[answer |-> "none", product |-> "other", major |-> 0],
            [answer |-> "refused", product |-> "other", major |-> 0],
            [answer |-> "odd", product |-> "other", major |-> 0],
            Json("elasticsearch", -1), Json("elasticsearch", 6), Json("elasticsearch", 7),
            Json("opensearch", 1)}

Symmetry == Permutations(Admins)
=============================================================================
