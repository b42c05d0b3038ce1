------------------------------ MODULE Documents ------------------------------
(***************************************************************************)
(* The part of the Cloud Firestore database that the basket functions and  *)
(* the app share: the rental stock of every catalogue item                 *)
(* (categories/<category>/items/<item>, field "count") and the basket of   *)
(* every user (users/<uid>/basket/<line>).                                 *)
(*                                                                         *)
(* An item stands for the pair (category, item document).  A basket        *)
(* document ("line") is reduced to its owner, the item it was copied from  *)
(* (fields itemID and categoryID, written once) and its count.             *)
(***************************************************************************)
EXTENDS Integers, FiniteSets

CONSTANTS Users,    \* signed-in users
          NoUser,   \* a call that carries no sign-in (context.auth missing)
          Items,    \* catalogue items
          Names,    \* the values of the items' "name" field
          NameOf,   \* the name of each item; two items may share one
          Shelf,    \* the stock of each item before anybody rents anything
          Lines,    \* the ids Firestore may generate for basket documents
          NoLine

ASSUME DocumentsAssumption ==
    /\ NoUser \notin Users
    /\ NoLine \notin Lines
    /\ NameOf \in [Items -> Names]
    /\ Shelf \in [Items -> Nat]

VARIABLES stock,    \* field "count" of every item document
          line,     \* the last contents of every basket document ever written
          live      \* the basket documents that exist now

docs == <<stock, line, live>>

LineDoc == [owner : Users, item : Items, count : Int]

(* Every generated id is new: a document once deleted is never written     *)
(* again by set(), and born only grows.                                    *)
born == DOMAIN line

DocumentsType ==
    /\ stock \in [Items -> Int]
    /\ born \subseteq Lines
    /\ line \in [born -> LineDoc]
    /\ live \subseteq born

DocumentsInit ==
    /\ stock = Shelf
    /\ line = [l \in {} |-> {}]
    /\ live = {}

(* The documents of one user's basket collection.                          *)
Basket(u) == {l \in live : line[l].owner = u}

(* f, with x mapped to v.                                                  *)
Put(f, x, v) == [y \in DOMAIN f \cup {x} |-> IF y = x THEN v ELSE f[y]]
=============================================================================
