-------------------------- MODULE MCBasketFunctions --------------------------
(* Small instances of BasketFunctions for TLC.                             *)
EXTENDS BasketFunctions, TLC

CONSTANTS u1, i1, i2

(* Two items, say of two categories, that carry the same name.             *)
OneName == [i \in Items |-> "name"]

(* Two items with names of their own.                                      *)
OwnName == [i \in Items |-> i]

TwoEach == [i \in Items |-> 2]

(* Invocations and generated ids are interchangeable.                      *)
Symmetric == Permutations(Calls) \cup Permutations(Lines)
=============================================================================
