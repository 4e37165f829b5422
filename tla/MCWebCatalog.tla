---------------------------- MODULE MCWebCatalog ----------------------------
(* WebCatalog for TLC: three revisions. *)
EXTENDS WebCatalog

MCRevisions == 1..3
Symmetry == Permutations(Repos) \cup Permutations(Requests)
=============================================================================
