-------------------------------- MODULE Rental --------------------------------
(***************************************************************************)
(* The rental service as a whole: the users' devices (OrderPlacement), the *)
(* cloud functions they call (BasketFunctions) and the documents both work *)
(* on.  The variables of this module are history: they record what the     *)
(* code's steps mean for the stock and restrict no step.                   *)
(*                                                                         *)
(* The history follows the units of every item.  A step that overwrites a  *)
(* count it did not just read, drops units it holds, or orders a line that *)
(* has changed or gone since the order was composed, puts that item into   *)
(* "spoiled": its books no longer balance.                                 *)
(***************************************************************************)
EXTENDS BasketFunctions, OrderPlacement, FiniteSetsExt

VARIABLES spoiled,    \* items whose units were lost or duplicated
          sold,       \* sold[l]: the count with which line l was first ordered
          torn,       \* lines ordered, whose delete was never sent or was refused
          careless    \* a user did not wait for quiet, or a call or write was lost

history == <<spoiled, sold, torn, careless>>
vars == <<stock, line, live, pc, req, got, next, todo, reply,
          orders, view, delivered, alert, inbox, start, spoiled, sold, torn, careless>>

HistoryType ==
    /\ spoiled \subseteq Items
    /\ DOMAIN sold \subseteq born
    /\ sold \in [DOMAIN sold -> Int]
    /\ torn \subseteq Lines
    /\ careless \in BOOLEAN

HistoryInit ==
    /\ spoiled = {}
    /\ sold = [l \in {} |-> 0]
    /\ torn = {}
    /\ careless = FALSE

RentalInit == DocumentsInit /\ CallsInit /\ DeviceInit /\ HistoryInit

(* The whole system is at rest and every screen is up to date.             *)
Quiet ==
    /\ \A c \in Calls : ~InFlight(c)
    /\ AllSent
    /\ \A u \in Users : ~alert[u] /\ inbox[u] = <<>> /\ view[u] = LocalBasket(u)

(* The items of the set S are spoiled unless the step was exact.           *)
Books(exact, S) == spoiled' = IF exact THEN spoiled ELSE spoiled \cup S

(* A line whose count is known for sure: it exists, has that count, and no *)
(* order has taken it.                                                     *)
Intact(l, n) == l \in live /\ line[l].count = n /\ l \notin DOMAIN sold

(* The units that invocation c has taken from somewhere and not put down.  *)
Held(c) ==
    CASE pc[c] \in {"queryBasket", "setLine", "updateLines"} -> req[c].count
      [] pc[c] \in {"regetItem", "restoreItem"}              -> got[c]
      [] OTHER                                               -> 0

-----------------------------------------------------------------------------
(* What a user does.  While the order alert is up the screen is blocked.   *)

(* A category row's button; a is the sign-in the call carries.             *)
AddItem(c, u, a, i, n) ==
    /\ ~alert[u]
    /\ CallAdd(c, a, i, n)
    /\ careless' = (careless \/ ~Quiet \/ a = NoUser)
    /\ UNCHANGED <<spoiled, sold, torn, deviceVars>>

(* A confirmed "Удалить товар из корзины?": the row leaves the screen      *)
(* before the call is answered.                                            *)
RemoveItem(c, u, a, e) ==
    /\ ~alert[u]
    /\ e \in view[u]
    /\ CallDelete(c, a, e.line)
    /\ view' = [view EXCEPT ![u] = @ \ {e}]
    /\ careless' = (careless \/ ~Quiet \/ a = NoUser)
    /\ UNCHANGED <<spoiled, sold, torn, orders, delivered, alert, inbox, start>>

UserPutsOrder(u) ==
    /\ PutOrder(u)
    /\ careless' = (careless \/ ~Quiet)
    /\ UNCHANGED <<spoiled, sold, torn, locals>>

UserKilledInPutOrder(u, S) ==
    /\ PutOrderKilled(u, S)
    /\ torn' = torn \cup (LinesOf(view[u]) \ S)
    /\ careless' = TRUE
    /\ UNCHANGED <<spoiled, sold, locals>>

-----------------------------------------------------------------------------
(* The steps of the cloud functions that move units.                       *)

RentalUpdateItem(c) ==
    /\ UpdateItem(c)
    /\ Books(stock[req[c].item] = next[c] + req[c].count /\ req[c].user # NoUser,
             {req[c].item})
    /\ UNCHANGED <<sold, torn, careless, deviceVars>>

RentalQueryBasket(c) ==
    /\ QueryBasket(c)
    /\ Books(/\ \A l \in Matching(c) : line[l].item = req[c].item
             /\ \A k, l \in Matching(c) : k = l,
             {req[c].item} \cup {line[l].item : l \in Matching(c)})
    /\ UNCHANGED <<sold, torn, careless, deviceVars>>

RentalUpdateLine(c, t) ==
    /\ UpdateLine(c, t)
    /\ Books(Intact(t.line, t.count - req[c].count),
             {req[c].item, line[t.line].item})
    /\ UNCHANGED <<sold, torn, careless, deviceVars>>

RentalDeleteLine(c) ==
    /\ DeleteLine(c)
    /\ Books(Intact(req[c].line, got[c]), {req[c].item})
    /\ UNCHANGED <<sold, torn, careless, deviceVars>>

RentalRestoreItem(c) ==
    /\ RestoreItem(c)
    /\ Books(stock[req[c].item] + got[c] = next[c], {req[c].item})
    /\ UNCHANGED <<sold, torn, careless, deviceVars>>

RentalAbandon(c) ==
    /\ Abandon(c)
    /\ Books(Held(c) = 0, {req[c].item})
    /\ careless' = TRUE
    /\ UNCHANGED <<sold, torn, deviceVars>>

(* The steps that only read, refuse, or move units from call to new line.  *)
PlainStep(c) ==
    /\ \/ GetItem(c) \/ Refuse(c) \/ GetLine(c) \/ RegetItem(c)
       \/ \E l \in Lines : SetLine(c, l)
    /\ UNCHANGED <<history, deviceVars>>

-----------------------------------------------------------------------------
(* The server's answers to what the devices queued.                        *)

(* The units of every line ordered leave the basket for good.              *)
RentalCommitOrder(o) ==
    /\ CommitOrder(o)
    /\ LET es    == orders[o].entries
           wrong == {e \in es : ~Intact(e.line, e.count)}
       IN  /\ Books(wrong = {}, {e.item : e \in wrong})
           /\ sold' = [l \in DOMAIN sold \cup LinesOf(es) |->
                         IF l \in DOMAIN sold THEN sold[l]
                         ELSE (CHOOSE e \in es : e.line = l).count]
    /\ UNCHANGED <<torn, careless, locals>>

RentalRejectOrder(o) ==
    /\ RejectOrder(o)
    /\ careless' = TRUE
    /\ UNCHANGED <<spoiled, sold, torn, locals>>

(* Deleting a line that no order took loses its units.                     *)
RentalCommitDelete(o, l) ==
    /\ CommitDelete(o, l)
    /\ Books(l \in DOMAIN sold \/ l \notin live, {line[l].item})
    /\ UNCHANGED <<sold, torn, careless, locals>>

RentalRejectDelete(o, l) ==
    /\ RejectDelete(o, l)
    /\ torn' = torn \cup {l}
    /\ careless' = TRUE
    /\ UNCHANGED <<spoiled, sold, locals>>

(* What a device does by itself: listener and completion callbacks.        *)
Refresh(u) == Snapshot(u) /\ UNCHANGED <<history, locals>>

Callback(u) ==
    /\ PutOrderDone(u) \/ PutOrderFailed(u)
    /\ UNCHANGED <<history, locals>>

(* (Which removals have reported is not recorded: any one may do so again.) *)
LateError(u) ==
    /\ \E c \in Calls : pc[c] # "idle" /\ req[c].line # NoLine
    /\ RemovalFailed(u)
    /\ UNCHANGED <<history, locals>>

AppKilled(u) == Kill(u) /\ UNCHANGED <<history, locals>>

-----------------------------------------------------------------------------
CallStep(c) ==
    \/ PlainStep(c) \/ RentalUpdateItem(c) \/ RentalQueryBasket(c)
    \/ \E t \in todo[c] : RentalUpdateLine(c, t)
    \/ RentalDeleteLine(c) \/ RentalRestoreItem(c)

ServerStep(o) ==
    \/ RentalCommitOrder(o) \/ RentalRejectOrder(o)
    \/ \E l \in orders[o].deletes : RentalCommitDelete(o, l) \/ RentalRejectDelete(o, l)

UserStep(u) ==
    \/ \E c \in Calls, a \in {u, NoUser} :
         \/ \E i \in Items, n \in 1 .. MaxCount : AddItem(c, u, a, i, n)
         \/ \E e \in view[u] : RemoveItem(c, u, a, e)
    \/ UserPutsOrder(u)
    \/ \E S \in SUBSET LinesOf(view[u]) : UserKilledInPutOrder(u, S)

RentalNext ==
    \/ \E u \in Users : UserStep(u) \/ Refresh(u) \/ Callback(u) \/ LateError(u) \/ AppKilled(u)
    \/ \E c \in Calls : CallStep(c) \/ RentalAbandon(c)
    \/ \E o \in DOMAIN orders : ServerStep(o)

RentalSpec == RentalInit /\ [][RentalNext]_vars

(* The database answers, the device is eventually online, the main queue   *)
(* runs its blocks.  Nobody has to press a button, and nothing has to fail.*)
RentalFairness ==
    /\ \A c \in Calls : WF_vars(CallStep(c))
    /\ \A u \in Users : WF_vars(Refresh(u)) /\ WF_vars(Callback(u))
    /\ \A o \in 1 .. MaxOrders : WF_vars(o \in DOMAIN orders /\ ServerStep(o))

FairRentalSpec == RentalSpec /\ RentalFairness

-----------------------------------------------------------------------------
(* The accounts of the ledger: the shelf, every basket line (which keeps   *)
(* the count it was ordered with), and every invocation under way.         *)
Accounts ==
    {<<"shelf">>} \cup ({"line"} \X Lines) \cup ({"call"} \X Calls)

OnLine(i, l) ==
    IF l \notin born THEN 0
    ELSE IF line[l].item # i THEN 0
    ELSE IF l \in DOMAIN sold THEN sold[l]
    ELSE IF l \in live THEN line[l].count ELSE 0

OnCall(i, c) ==
    IF c \notin DOMAIN req THEN 0
    ELSE IF req[c].item # i THEN 0 ELSE Held(c)

UnitsAt(i, a) ==
    CASE a[1] = "shelf" -> stock[i]
      [] a[1] = "line"  -> OnLine(i, a[2])
      [] a[1] = "call"  -> OnCall(i, a[2])

units == [i \in Items |-> [a \in Accounts |-> UnitsAt(i, a)]]

opening ==
    [i \in Items |-> [a \in Accounts |-> IF a[1] = "shelf" THEN Shelf[i] ELSE 0]]

L == INSTANCE Ledger WITH Opening <- opening

LedgerSpec == L!Spec

-----------------------------------------------------------------------------
(* Properties *)

(* The variables of all the parts have the values the code can give them.  *)
RentalTypeOK == TypeOK /\ DeviceType /\ HistoryType

(* There are finitely many ids of basket documents, and of calls.          *)
ASSUME FiniteAssumption == IsFiniteSet(Lines) /\ IsFiniteSet(Calls)

AddedUp(f) == MapThenSumSet(LAMBDA a : f[a], Accounts)
Total(i)   == AddedUp(units[i])

(* The units of an item are all accounted for: what is on the shelf, in    *)
(* the baskets, ordered, and in the hands of the functions still running   *)
(* adds up to the opening stock, however the calls, the devices' queues,   *)
(* crashes and refusals interleave, unless one of the steps that the       *)
(* history singles out (a stale blind write, a lost chain, an order        *)
(* composed from an outdated screen...) has touched that item.  So those   *)
(* are all the ways in which index.js and putOrder can lose stock.         *)
LedgerBalanced == \A i \in Items \ spoiled : Total(i) = Shelf[i]

(* If users wait until the system is at rest before they act, and no call  *)
(* or write is lost, the code of addItemInBasket, deleteItemFromBasket and *)
(* putOrder keeps the books of every item exactly.  (Items of one name     *)
(* share a basket line: the instance and the theorem exclude them.)        *)
CarefulUseIsExact == ~careless => spoiled = {}

(* The orders that the server accepted.                                    *)
Placed == {o \in DOMAIN orders : orders[o].stage = "placed"}

(* The same basket line is not rented out by two orders, although putOrder *)
(* deletes the lines after sending the order and not together with it, and *)
(* although the app may be killed and started again before the server has  *)
(* seen anything.  A line that was rented out leaves the basket: its       *)
(* delete is queued until it is gone.  The exception are the lines whose   *)
(* own delete was lost.                                                    *)
NoLineOrderedTwice ==
    /\ \A o, p \in Placed :
          o # p => LinesOf(orders[o].entries) \cap LinesOf(orders[p].entries)
                      \subseteq torn
    /\ \A o \in Placed :
          LinesOf(orders[o].entries) \cap live \subseteq orders[o].deletes \cup torn

(* putOrderDone has emptied the screen, after an order of this process was *)
(* accepted.                                                               *)
Blanked(u) ==
    view[u] = {} /\ \E o \in OrdersOf(u) : o > start[u] /\ orders[o].stage = "placed"

(* The calls that remove line l.                                           *)
RemovalsOf(l) == {c \in DOMAIN req : req[c].line = l}

(* A screen never offers a line that an order of this device has taken and *)
(* still has to delete, shows nothing that was not delivered to it, and    *)
(* leaves out only what its user asked to remove, or all of it, once an    *)
(* order was accepted.  While the alert "Отправка заказа..." blocks it a   *)
(* completion that closes the alert is to come: it waits to run, or for    *)
(* the server's answer to an order of the process that runs now.           *)
ScreenFollowsOrders ==
    \A u \in Users :
        /\ view[u] \subseteq delivered[u]
        /\ LinesOf(delivered[u]) \cap Hidden(u) = {}
        /\ \A e \in delivered[u] \ view[u] : Blanked(u) \/ RemovalsOf(e.line) # {}
        /\ alert[u] => \/ inbox[u] # <<>>
                       \/ \E o \in OrdersOf(u) : o > start[u] /\ orders[o].stage = "queued"

(* The alert "Отправка заказа..." (sending the order) that blocks the      *)
(* basket screen is closed in the end, whether the order is accepted,      *)
(* refused, or queued behind the deletes of an earlier one, whose late     *)
(* failures close it too early.                                            *)
OrderAlertCloses == \A u \in Users : alert[u] ~> ~alert[u]

(* A line that the server knows as ordered leaves the basket, unless its   *)
(* delete was lost: the order and its deletes are separate writes, but the *)
(* queue brings them all to the server, also across restarts of the app.   *)
OrderedLinesLeave ==
    \A l \in Lines : l \in DOMAIN sold ~> l \notin live \/ l \in torn

(* The screen shows the basket as the device knows it.  What may be missing*)
(* is a line whose removal failed, for nothing puts the row back, and all  *)
(* that putOrderDone wiped off.                                            *)
CaughtUp(u) ==
    /\ view[u] \subseteq LocalBasket(u)
    /\ \A e \in LocalBasket(u) \ view[u] :
           Blanked(u) \/ \E c \in RemovalsOf(e.line) : ~InFlight(c)

(* Whatever orders, removals and restarts leave on a screen, and however   *)
(* the basket is changed by other calls, the screen catches up again and   *)
(* again: only removals that failed and accepted orders hide lines from    *)
(* the user who would rent them.                                           *)
ScreensCatchUp == \A u \in Users : []<>CaughtUp(u)
=============================================================================
