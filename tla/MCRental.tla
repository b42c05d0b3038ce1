------------------------------- MODULE MCRental -------------------------------
(* Small instances of Rental for TLC.                                      *)
EXTENDS Rental, TLC

CONSTANTS u1, u2, i1, i2

OwnName == [i \in Items |-> i]

OneName == [i \in Items |-> "name"]

TwoEach == [i \in Items |-> 2]

OneEach == [i \in Items |-> 1]

(* Invocations, generated ids, users and items (which all start alike) are *)
(* interchangeable.                                                        *)
Symmetric ==
    Permutations(Calls) \cup Permutations(Lines)
        \cup Permutations(Users) \cup Permutations(Items)
=============================================================================
