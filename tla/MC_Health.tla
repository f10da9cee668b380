----------------------------- MODULE MC_Health ------------------------------
(* Instantiation of Health for TLC.  The gates cover an admitted gate in    *)
(* two letter cases, a known gate ranked below the reconciler's and an      *)
(* unknown word; the feature lists hold the reconciler's group or not.     *)
EXTENDS Health

MC_FeatureSlices == {{"core"}, {"iam"}}
MC_FeatureGates == {"Alpha", "alpha", "beta", "stable"}
MC_LowerCase == [g \in MC_FeatureGates |->
                    CASE g = "Alpha" -> "alpha" [] OTHER -> g]
=============================================================================
