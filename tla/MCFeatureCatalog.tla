-------------------------- MODULE MCFeatureCatalog --------------------------
(* FeatureCatalog for TLC: three revisions, the last two of one generation. *)
EXTENDS FeatureCatalog

CONSTANTS e1, e2, e3

MCEtags == {e1, e2, e3}
MCGenerationOf == [e \in MCEtags |-> IF e = e1 THEN "g1" ELSE "g2"]
Symmetry == Permutations(Snapshots) \cup Permutations(Requests)
=============================================================================
