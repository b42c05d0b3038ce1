---------------------------- MODULE MCBasketScreen ----------------------------
(* Small instances of BasketScreen for TLC.                                *)
EXTENDS BasketScreen

(* Every line has a price of its own.                                      *)
Prices == [l \in Lines |-> l]
=============================================================================
