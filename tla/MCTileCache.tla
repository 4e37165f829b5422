---------------------------- MODULE MCTileCache ----------------------------
(* TileCache for TLC: small sets, and symmetry for the runs without liveness. *)
EXTENDS TileCache

Symmetry == Permutations(Callers) \cup Permutations(Keys) \cup Permutations(Flights)
=============================================================================
