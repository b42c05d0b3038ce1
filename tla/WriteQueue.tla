------------------------------ MODULE WriteQueue ------------------------------
(***************************************************************************)
(* What the app relies on when it makes a write: the writes of a user are  *)
(* a queue.  The server applies them in order, perhaps more than once, and *)
(* may refuse one; each is answered in its turn, and as the server did.    *)
(* Only a refused write may be forgotten without an answer, if the process *)
(* of the app ends.  Writes are numbered in the order they are made.       *)
(***************************************************************************)
EXTENDS Integers

CONSTANTS Users, Writes   \* writes are numbers

VARIABLES pending,   \* the writes of each user that wait for their answer
          applied,   \* the writes the server has applied
          refused,   \* the writes it has refused
          told       \* the answers given

queueVars == <<pending, applied, refused, told>>

Init ==
    /\ pending = [u \in Users |-> {}]
    /\ applied = {}
    /\ refused = {}
    /\ told = {}

Put(u, n) ==
    /\ n \notin applied
    /\ \A m \in pending[u] : m < n
    /\ pending' = [pending EXCEPT ![u] = @ \cup {n}]
    /\ UNCHANGED <<applied, refused, told>>

(* The turn of the server to take a write.                                 *)
InOrder(u, n) ==
    /\ n \in pending[u]
    /\ \A m \in pending[u] : m < n => m \in applied

Apply(u, n) ==
    /\ InOrder(u, n)
    /\ applied' = applied \cup {n}
    /\ UNCHANGED <<pending, refused, told>>

Refuse(u, n) ==
    /\ InOrder(u, n)
    /\ refused' = refused \cup {n}
    /\ UNCHANGED <<pending, applied, told>>

Oldest(u, n) ==
    /\ n \in pending[u]
    /\ \A m \in pending[u] : n <= m

Leaves(u, n) == pending' = [pending EXCEPT ![u] = @ \ {n}]

(* If the process of the app ends, the write may stay after this answer.   *)
Confirm(u, n) ==
    /\ Oldest(u, n) /\ n \in applied
    /\ told' = told \cup {[nr |-> n, ok |-> TRUE]}
    /\ Leaves(u, n) \/ UNCHANGED pending
    /\ UNCHANGED <<applied, refused>>

Report(u, n) ==
    /\ Oldest(u, n) /\ n \in refused
    /\ told' = told \cup {[nr |-> n, ok |-> FALSE]}
    /\ Leaves(u, n)
    /\ UNCHANGED <<applied, refused>>

(* The process ends between the two halves of Report.                      *)
Forget(u, n) ==
    /\ Oldest(u, n) /\ n \in refused
    /\ Leaves(u, n)
    /\ UNCHANGED <<applied, refused, told>>

Next ==
    \E u \in Users, n \in Writes :
        \/ Put(u, n) \/ Apply(u, n) \/ Refuse(u, n)
        \/ Confirm(u, n) \/ Report(u, n) \/ Forget(u, n)

Spec == Init /\ [][Next]_queueVars
=============================================================================
