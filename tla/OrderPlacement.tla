---------------------------- MODULE OrderPlacement ----------------------------
(***************************************************************************)
(* Placing an order from the basket screen: NetWorkService.getOrder and    *)
(* putOrder with the part of BasketPresenter that reacts to them, one      *)
(* device per user, and the Firestore client under it.                     *)
(*                                                                         *)
(* putOrder is not a batch: it sends addDocument for the order and then    *)
(* one delete per basket line.  The Firestore client keeps these writes in *)
(* a queue on disk (offline persistence is on by default), sends them in   *)
(* order, lets the server accept or reject each one by itself, and shows   *)
(* listeners the server's documents with the queued writes applied.        *)
(***************************************************************************)
EXTENDS Documents, Sequences

CONSTANT MaxOrders    \* bound: orders put in a behaviour

ASSUME MaxOrdersAssumption == MaxOrders \in Nat

VARIABLES orders,     \* every order put, oldest first, with what is left to send
          view,       \* currentOrder.items of each user's basket screen
          delivered,  \* the listener's last snapshot
          alert,      \* the alert "Отправка заказа..." blocks the user's screen
          inbox,      \* calls of putOrder's completion still to run on the main queue
          start       \* how many orders were put when the app was started

deviceVars == <<orders, view, delivered, alert, inbox, start>>

Entry == [line : Lines, item : Items, count : Int]

OrderDoc == [user    : Users,
             entries : SUBSET Entry,
             stage   : {"queued", "placed", "refused"},
             deletes : SUBSET Lines]      \* deletes still in the queue

DeviceType ==
    /\ orders \in Seq(OrderDoc)
    /\ view \in [Users -> SUBSET Entry]
    /\ delivered \in [Users -> SUBSET Entry]
    /\ alert \in [Users -> BOOLEAN]
    /\ inbox \in [Users -> Seq({"placed", "refused"})]
    /\ start \in [Users -> 0 .. Len(orders)]

DeviceInit ==
    /\ orders = <<>>
    /\ view = [u \in Users |-> {}]
    /\ delivered = [u \in Users |-> {}]
    /\ alert = [u \in Users |-> FALSE]
    /\ inbox = [u \in Users |-> <<>>]
    /\ start = [u \in Users |-> 0]

LinesOf(es) == {e.line : e \in es}

OrdersOf(u) == {o \in DOMAIN orders : orders[o].user = u}

(* The lines whose deletes the device has queued.                          *)
Hidden(u) == UNION {orders[o].deletes : o \in OrdersOf(u)}

(* The basket collection as the user's device shows it.                    *)
LocalBasket(u) ==
    {[line |-> l, item |-> line[l].item, count |-> line[l].count] :
        l \in Basket(u) \ Hidden(u)}

(* All that the device queued before order o has been answered.            *)
Turn(o) ==
    \A p \in OrdersOf(orders[o].user) :
        p < o => orders[p].stage # "queued" /\ orders[p].deletes = {}

(* Nothing is queued any more for any order.                               *)
AllSent ==
    \A o \in DOMAIN orders : orders[o].stage # "queued" /\ orders[o].deletes = {}

-----------------------------------------------------------------------------
(* Mutant: the items delivered are added to those already shown.           *)
SnapshotAppends(u) ==
    /\ delivered[u] # LocalBasket(u)
    /\ delivered' = [delivered EXCEPT ![u] = LocalBasket(u)]
    /\ view' = [view EXCEPT ![u] = @ \cup LocalBasket(u)]
    /\ UNCHANGED <<stock, line, live, orders, alert, inbox, start>>

(* Mutant: getDocuments, which answers once, in place of a listener.       *)
SnapshotOnce(u) ==
    /\ delivered[u] = {}
    /\ LocalBasket(u) # {}
    /\ delivered' = [delivered EXCEPT ![u] = LocalBasket(u)]
    /\ view' = [view EXCEPT ![u] = LocalBasket(u)]
    /\ UNCHANGED <<stock, line, live, orders, alert, inbox, start>>

(* The basket listener fires, and setOrder(items:) stores what it carries. *)
(* (It also closes alerts, but not while an order is being put.)           *)
Snapshot(u) ==
    /\ delivered[u] # LocalBasket(u)
    /\ delivered' = [delivered EXCEPT ![u] = LocalBasket(u)]
    /\ view' = [view EXCEPT ![u] = LocalBasket(u)]
    /\ UNCHANGED <<stock, line, live, orders, alert, inbox, start>>

NewOrder(u, S) == [user |-> u, entries |-> view[u], stage |-> "queued", deletes |-> S]

(* Mutant: the loop that deletes the ordered lines is missing.             *)
PutOrderKeepsLines(u) ==
    /\ ~alert[u]
    /\ view[u] # {}
    /\ Len(orders) < MaxOrders
    /\ orders' = Append(orders, NewOrder(u, {}))
    /\ alert' = [alert EXCEPT ![u] = TRUE]
    /\ UNCHANGED <<stock, line, live, view, delivered, inbox, start>>

(* "Оформить заказ" with a basket that is not empty: the order and the     *)
(* deletes of its lines are queued, and the listener is at once shown the  *)
(* basket without them (from its cache: what else it knew stays as it was).*)
PutOrder(u) ==
    /\ ~alert[u]
    /\ view[u] # {}
    /\ Len(orders) < MaxOrders
    /\ LET rest == {e \in delivered[u] : e.line \notin LinesOf(view[u])}
       IN  /\ delivered' = [delivered EXCEPT ![u] = rest]
           /\ view' = [view EXCEPT ![u] = rest]
    /\ orders' = Append(orders, NewOrder(u, LinesOf(view[u])))
    /\ alert' = [alert EXCEPT ![u] = TRUE]
    /\ UNCHANGED <<stock, line, live, inbox, start>>

(* What is left of the screen after the app is killed and opened again: no *)
(* completion of the n orders put so far will be called any more.          *)
Restarted(u, n) ==
    /\ view' = [view EXCEPT ![u] = {}]
    /\ delivered' = [delivered EXCEPT ![u] = {}]
    /\ alert' = [alert EXCEPT ![u] = FALSE]
    /\ inbox' = [inbox EXCEPT ![u] = <<>>]
    /\ start' = [start EXCEPT ![u] = n]

(* The app is killed inside putOrder's loop: the order is in the queue on  *)
(* disk with the deletes of only some of its lines.                        *)
PutOrderKilled(u, S) ==
    /\ ~alert[u]
    /\ view[u] # {}
    /\ Len(orders) < MaxOrders
    /\ S \subseteq LinesOf(view[u])
    /\ S # LinesOf(view[u])
    /\ orders' = Append(orders, NewOrder(u, S))
    /\ Restarted(u, Len(orders) + 1)
    /\ UNCHANGED <<stock, line, live>>

(* The app is killed at any other moment: the queue survives.              *)
Kill(u) ==
    /\ alert[u] \/ inbox[u] # <<>> \/ delivered[u] # {}
    /\ Restarted(u, Len(orders))
    /\ UNCHANGED <<stock, line, live, orders>>

-----------------------------------------------------------------------------
(* The server answers the queued writes of a device, in their order.  If   *)
(* the process that put the order still runs, its completion is called:    *)
(* once for the order, and once more for every delete that is rejected.    *)
Tell(o, answer) ==
    LET u == orders[o].user
    IN  inbox' = IF o > start[u]
                   THEN [inbox EXCEPT ![u] = Append(@, answer)]
                   ELSE inbox

AnswerOrder(o, answer) ==
    /\ orders[o].stage = "queued"
    /\ Turn(o)
    /\ orders' = [orders EXCEPT ![o].stage = answer]
    /\ Tell(o, answer)
    /\ UNCHANGED <<stock, line, live, view, delivered, alert, start>>

CommitOrder(o) == AnswerOrder(o, "placed")
RejectOrder(o) == AnswerOrder(o, "refused")

AnswerDelete(o, l) ==
    /\ l \in orders[o].deletes
    /\ orders[o].stage # "queued"
    /\ Turn(o)
    /\ orders' = [orders EXCEPT ![o].deletes = @ \ {l}]
    /\ UNCHANGED <<stock, line, view, delivered, alert, start>>

CommitDelete(o, l) ==
    /\ AnswerDelete(o, l)
    /\ live' = live \ {l}
    /\ UNCHANGED inbox

RejectDelete(o, l) ==
    /\ AnswerDelete(o, l)
    /\ Tell(o, "refused")
    /\ UNCHANGED live

(* putOrder's completion: putOrderDone drops currentOrder, stores an empty *)
(* one whatever the listener has delivered in the meantime, and closes the *)
(* alert, even if it is that of a later order.                             *)
PutOrderDone(u) ==
    /\ inbox[u] # <<>> /\ Head(inbox[u]) = "placed"
    /\ inbox' = [inbox EXCEPT ![u] = Tail(@)]
    /\ alert' = [alert EXCEPT ![u] = FALSE]
    /\ view' = [view EXCEPT ![u] = {}]
    /\ UNCHANGED <<stock, line, live, orders, delivered, start>>

(* Mutant: the failure branch leaves the alert on the screen.              *)
PutOrderFailedSilently(u) ==
    /\ inbox[u] # <<>> /\ Head(inbox[u]) = "refused"
    /\ inbox' = [inbox EXCEPT ![u] = Tail(@)]
    /\ UNCHANGED <<stock, line, live, orders, view, delivered, alert, start>>

(* Mutant: the failure branch empties the screen too.                      *)
PutOrderFailedEmptily(u) ==
    /\ inbox[u] # <<>> /\ Head(inbox[u]) = "refused"
    /\ inbox' = [inbox EXCEPT ![u] = Tail(@)]
    /\ alert' = [alert EXCEPT ![u] = FALSE]
    /\ view' = [view EXCEPT ![u] = {}]
    /\ UNCHANGED <<stock, line, live, orders, delivered, start>>

(* The failure branch, for the order or for one of its deletes, only       *)
(* closes the alert that is up and shows another one.                      *)
PutOrderFailed(u) ==
    /\ inbox[u] # <<>> /\ Head(inbox[u]) = "refused"
    /\ inbox' = [inbox EXCEPT ![u] = Tail(@)]
    /\ alert' = [alert EXCEPT ![u] = FALSE]
    /\ UNCHANGED <<stock, line, live, orders, view, delivered, start>>

(* The call of an earlier removal reports its error only now: removeItemDone *)
(* closes the alert that is up, and it is that of an order being sent.     *)
RemovalFailed(u) ==
    /\ alert[u]
    /\ alert' = [alert EXCEPT ![u] = FALSE]
    /\ UNCHANGED <<stock, line, live, orders, view, delivered, inbox, start>>
=============================================================================
