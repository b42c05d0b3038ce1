-------------------------------- MODULE Ledger --------------------------------
(***************************************************************************)
(* What the stock of the rental service should obey: double-entry          *)
(* book-keeping.  Every unit of an item is at any time on exactly one      *)
(* account, and a step moves some units of one item from one account to    *)
(* another.  The only other thing that may happen is that the books of     *)
(* some items are spoiled; from then on nothing is promised about those    *)
(* items, and still everything about the others.                           *)
(***************************************************************************)
EXTENDS Integers

CONSTANTS Items, Accounts, Opening   \* Opening[i][a]: the units at the start

VARIABLES units,     \* units[i][a]: the units of item i on account a
          spoiled    \* the items whose books no longer balance

ledgerVars == <<units, spoiled>>

Init ==
    /\ units = Opening
    /\ spoiled = {}

(* Account b of item i gains some units, and account a loses as many.      *)
Transfer(i, a, b) ==
    /\ a # b
    /\ LET n == units'[i][b] - units[i][b]
       IN  units' = [units EXCEPT ![i] = [units[i] EXCEPT ![a] = @ - n, ![b] = @ + n]]
    /\ UNCHANGED spoiled

(* The books of the items in S are spoiled (or were already).              *)
Spoil(S) ==
    /\ S # {}
    /\ spoiled' = spoiled \cup S
    /\ units' \in [Items -> [Accounts -> Int]]
    /\ \A i \in Items \ spoiled' : units'[i] = units[i]

Next ==
    \/ \E i \in Items, a, b \in Accounts : Transfer(i, a, b)
    \/ \E S \in SUBSET Items : Spoil(S)

Spec == Init /\ [][Next]_ledgerVars
=============================================================================
