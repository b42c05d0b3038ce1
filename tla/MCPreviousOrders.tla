--------------------------- MODULE MCPreviousOrders ---------------------------
(* Small instances of PreviousOrders for TLC.                              *)
EXTENDS PreviousOrders

(* Every order has one item, of its own.                                   *)
Singles == [o \in Orders |-> <<o>>]
=============================================================================
