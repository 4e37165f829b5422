--------------------------- MODULE MCQueryClient ---------------------------
(***************************************************************************)
(* QueryClient for TLC: two callers, queries on two replicas.  CallsEnd is *)
(* checked in the same run, so that there is no symmetry.                  *)
(***************************************************************************)
EXTENDS QueryClient

MCReplicas == {"north", "south"}
=============================================================================
