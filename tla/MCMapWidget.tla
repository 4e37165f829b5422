---------------------------- MODULE MCMapWidget ----------------------------
(* MapWidget for TLC: a map of an external and a query layer, a map with the *)
(* same title and camera whose one layer is another external source with    *)
(* the same id, and a map of another title.                                 *)
EXTENDS MapWidget

CONSTANTS mixed, roads, rails

MCKindOf == [m \in Maps |-> IF m = mixed THEN <<"tiles", "query">> ELSE <<"tiles">>]
MCKeyOf == [m \in Maps |-> IF m = rails THEN "rails" ELSE "roads"]
=============================================================================
