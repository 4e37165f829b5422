-------------------------- MODULE MCMapWorkspace --------------------------
(* MapWorkspace for TLC: two archives and one query layer.                 *)
EXTENDS MapWorkspace

CONSTANTS a, b

MCRouteLists == {<<>>, <<Entry(a)>>}
=============================================================================
