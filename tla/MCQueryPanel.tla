--------------------------- MODULE MCQueryPanel ---------------------------
(* QueryPanel for TLC: an ordered result of three rows and one of two      *)
(* without an order, features of a catalog layer and of a query layer.     *)
EXTENDS QueryPanel

CONSTANTS a, q1, q2, f1, f2, g

MCTotal == [q \in Queries |-> IF q = q1 THEN 3 ELSE 2]
MCLayerOf == [f \in Features |-> IF f = g THEN q1 ELSE a]
=============================================================================
