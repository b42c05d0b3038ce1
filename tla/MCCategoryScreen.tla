--------------------------- MODULE MCCategoryScreen ---------------------------
(* Small instances of CategoryScreen for TLC.                              *)
EXTENDS CategoryScreen

(* The items differ in price; one manufacturer makes them all.             *)
Prices  == [g \in Goods |-> g]
Sources == [g \in Goods |-> 1]
=============================================================================
