---------------------------- MODULE PreviousOrders ----------------------------
(***************************************************************************)
(* The screen of previous orders: OrdersPresenter and OrdersViewController.*)
(* A list of orders names its items only by id, so every list starts a     *)
(* round of lookups.  Their answers fill the items by index, in whatever   *)
(* list the presenter holds by then, and the answer that brings the        *)
(* round's countdown to zero has the table drawn.                          *)
(***************************************************************************)
EXTENDS MainQueue

CONSTANTS Orders,       \* ids of orders: lists are sorted by them
          ItemsOf,      \* ItemsOf[o]: the ids of its items, in order
          NoName,       \* the empty name of an item that is not filled yet
          MaxChanges,   \* bound: changes of the orders
          MaxAppear     \* bound: appearances of the screen

ASSUME PreviousOrdersAssumption ==
    /\ Orders \subseteq Int /\ IsFiniteSet(Orders)
    /\ DOMAIN ItemsOf = Orders
    /\ NoName \in Nat
    /\ \A o \in Orders : ItemsOf[o] \in Seq(Nat \ {NoName}) \ {<<>>}
    /\ {MaxChanges, MaxAppear} \subseteq Nat

VARIABLES placed,      \* the status of every order in the database
          changes,     \* how often they have changed
          listeners,   \* the listeners of all appearances: on?, and the last list
          lookups,     \* lookups that are not answered
          left,        \* left[r]: what round r still counts
          orders,      \* presenter.orders
          rows,        \* the table, as drawn
          alert,       \* what is presented above the screen
          replaced,    \* did other orders come while lookups ran?  (history)
          shrunk,      \* did an order ever disappear?  (history)
          failed       \* did a lookup or a listener ever fail?  (history)

outside == <<placed, changes, listeners>>
history == <<replaced, shrunk, failed>>
vars    == <<placed, changes, listeners, lookups, left, orders, rows, alert,
             replaced, shrunk, failed, blocks, due>>

Rounds == DOMAIN left
Lookup == [round : Nat, order : Nat, item : Nat, id : Nat]
Order  == [id : Orders, status : Nat, names : Seq(Nat)]
Block  == [what : {"orders"}, orders : Seq(Order)] \cup [what : {"found"}, of : Lookup]
          \cup [what : {"table", "error"}]
(* After a trap, or when the user has gone back, nothing happens any more. *)
Gone   == {"lookupTrap", "headerTrap", "popped"}
Alerts == {"none", "loading", "message", "noInternet"} \cup Gone

TypeOK ==
    /\ placed \in UNION {[S -> 0 .. MaxChanges] : S \in SUBSET Orders} /\ changes \in 0 .. MaxChanges
    /\ listeners \in Seq([on : {"new", "on", "off"}, heard : Seq(Order)])
    /\ lookups \subseteq Lookup /\ left \in Seq(Nat)
    /\ orders \in Seq(Order) /\ rows \in Seq(Order)
    /\ alert \in Alerts
    /\ replaced \in BOOLEAN /\ shrunk \in BOOLEAN /\ failed \in BOOLEAN
    /\ blocks \in Seq(Block) /\ due \in 0 .. Len(blocks)

Init ==
    /\ placed \in UNION {[S -> {0}] : S \in SUBSET Orders} /\ changes = 0
    /\ listeners = <<>> /\ lookups = {} /\ left = <<>>
    /\ orders = <<>> /\ rows = <<>> /\ alert = "none"
    /\ replaced = FALSE /\ shrunk = FALSE /\ failed = FALSE
    /\ blocks = <<>> /\ due = 0

(* The orders of a snapshot; their items have no names yet.                *)
Documents ==
    {[id |-> o, status |-> placed[o], names |-> [j \in DOMAIN ItemsOf[o] |-> NoName]] :
        o \in DOMAIN placed}
Listing ==
    CHOOSE list \in [1 .. Cardinality(Documents) -> Documents] :
        \A i, j \in DOMAIN list : i < j => list[i].id < list[j].id

-----------------------------------------------------------------------------
(* Outside the main thread.                                                *)

(* An order is put from another tab, taken back or worked on.              *)
Change(o) ==
    /\ changes < MaxChanges /\ changes' = changes + 1
    /\ \/ placed' = [p \in DOMAIN placed \cup {o} |->
                        IF p \notin DOMAIN placed THEN 0
                        ELSE IF p = o THEN placed[p] + 1 ELSE placed[p]]
       \/ /\ o \in DOMAIN placed
          /\ placed' = [p \in DOMAIN placed \ {o} |-> placed[p]]
    /\ shrunk' = (shrunk \/ o \notin DOMAIN placed')
    /\ UNCHANGED <<listeners, lookups, left, orders, rows, alert, replaced, failed, queue>>

(* Listeners are never removed: those of earlier appearances go on.        *)
Listen(k) ==
    /\ listeners[k].on = "new" \/ (listeners[k].on = "on" /\ listeners[k].heard # Listing)
    /\ listeners' = [listeners EXCEPT ![k] = [on |-> "on", heard |-> Listing]]
    /\ Send([what |-> "orders", orders |-> Listing])
    /\ UNCHANGED <<placed, changes, lookups, left, orders, rows, alert, history>>

ListenFails(k) ==
    /\ listeners[k].on # "off"
    /\ listeners' = [listeners EXCEPT ![k].on = "off"]
    /\ failed' = TRUE
    /\ Send([what |-> "error"])
    /\ UNCHANGED <<placed, changes, lookups, left, orders, rows, alert, replaced, shrunk>>

(* fillPreviousItem is answered, with the item or an error.  Lookups are   *)
(* independent: any may be the next.  (An error passes through two blocks, *)
(* of which the first only sends the second: here it is one.)              *)
Answer(l) ==
    /\ lookups' = lookups \ {l}
    /\ \/ Send([what |-> "found", of |-> l]) /\ UNCHANGED failed
       \/ Send([what |-> "error"]) /\ failed' = TRUE
    /\ UNCHANGED <<outside, left, orders, rows, alert, replaced, shrunk>>

-----------------------------------------------------------------------------
(* Blocks on the main queue.                                               *)

Run(what) ==
    /\ alert \notin Gone
    /\ Dequeue(what)
    /\ UNCHANGED outside

(* closeAlert: dismiss.                                                    *)
Dismissed == "none"

IdsOf(list) == [i \in DOMAIN list |-> list[i].id]

(* Lookups whose answers still have to be put into the list.               *)
Running == lookups # {} \/ \E i \in DOMAIN blocks : blocks[i].what = "found"

(* A round: every item of the list is looked up at its place; n answers    *)
(* are awaited.                                                            *)
FillFrom(list, places, n) ==
    LET r == Len(left) + 1 IN
    /\ lookups' = lookups \cup
          {[round |-> r, order |-> p[1], item |-> p[2], id |-> ItemsOf[list[p[1]].id][p[3]]] :
             p \in places}
    /\ left' = Append(left, n)

(* Mutant: item indices count from the second place.                       *)
FillItemsShifted(list) ==
    LET places == UNION {{<<i, j + 1, j>> : j \in DOMAIN list[i].names} : i \in DOMAIN list}
    IN  FillFrom(list, places, Cardinality(places))

(* Mutant: the countdown starts one too low.                               *)
FillItemsShort(list) ==
    LET places == UNION {{<<i, j, j>> : j \in DOMAIN list[i].names} : i \in DOMAIN list}
    IN  FillFrom(list, places, Cardinality(places) - 1)

(* Mutant: all orders are filled with the items of the first.              *)
FillItemsOfFirst(list) ==
    LET places == UNION {{<<i, j>> : j \in DOMAIN list[i].names} : i \in DOMAIN list}
    IN  /\ lookups' = lookups \cup
              {[round |-> Len(left) + 1, order |-> p[1], item |-> p[2],
                id |-> ItemsOf[list[1].id][p[2]]] : p \in places}
        /\ left' = Append(left, Cardinality(places))

(* fillItems.                                                              *)
FillItems(list) ==
    LET places == UNION {{<<i, j, j>> : j \in DOMAIN list[i].names} : i \in DOMAIN list}
    IN  FillFrom(list, places, Cardinality(places))

(* A list arrives and replaces the presenter's; it is drawn only when its  *)
(* items are filled, or at once if it is empty.                            *)
ShowOrders ==
    /\ Run("orders")
    /\ orders' = Head(blocks).orders
    /\ FillItems(orders')
    /\ IF orders' = <<>>
         THEN rows' = orders' /\ alert' = Dismissed
         ELSE UNCHANGED <<rows, alert>>
    /\ replaced' = (replaced \/ (Running /\ IdsOf(orders') # IdsOf(orders)))
    /\ UNCHANGED <<shrunk, failed>>

(* An answer is put where its item was, in the list there is now: indexing *)
(* traps if there is no such place.  Its round goes on counting, from n,   *)
(* and asks for the table when it has done.                                *)
Fill(n, done) ==
    LET l == Head(blocks).of IN
    /\ alert \notin Gone
    /\ blocks # <<>> /\ Head(blocks).what = "found"
    /\ IF l.order \in DOMAIN orders /\ l.item \in DOMAIN orders[l.order].names
         THEN /\ orders' = [orders EXCEPT ![l.order].names[l.item] = l.id]
              /\ left' = [left EXCEPT ![l.round] = n]
              /\ blocks' = Tail(blocks) \o IF done THEN <<[what |-> "table"]>> ELSE <<>>
              /\ UNCHANGED alert
         ELSE alert' = "lookupTrap" /\ blocks' = Tail(blocks) /\ UNCHANGED <<orders, left>>
    /\ due' = IF due > 0 THEN due - 1 ELSE 0
    /\ UNCHANGED <<outside, lookups, rows, history>>

Counted == left[Head(blocks).of.round]

(* Mutant: the table is drawn with a round's first answer, then no more.   *)
FillItemAtOnce == Fill(0, Counted # 0)

(* A lookup's answer.  The last one of a round asks for the table.         *)
FillItem == Fill(Counted - 1, Counted = 1)

(* Mutant: setTable without closeAlert.                                    *)
SetTableOnly ==
    /\ Run("table")
    /\ rows' = orders
    /\ UNCHANGED <<alert, lookups, left, orders, history>>

(* setTable and closeAlert.                                                *)
SetTable ==
    /\ Run("table")
    /\ rows' = orders
    /\ alert' = Dismissed
    /\ UNCHANGED <<lookups, left, orders, history>>

(* failure: a message in place of whatever is up.  Whether a message comes *)
(* up when nothing was there to be dismissed is up to UIKit.               *)
Failure ==
    /\ Run("error")
    /\ alert' \in {"message"} \cup (IF alert = "none" THEN {"none"} ELSE {})
    /\ UNCHANGED <<lookups, left, orders, rows, history>>

-----------------------------------------------------------------------------
(* Events of the run loop.                                                 *)

(* viewDidAppear: also when the user comes back to this tab.               *)
PrepareData ==
    /\ Between(blocks)
    /\ alert = "none" /\ Len(listeners) < MaxAppear
    /\ \/ /\ listeners' = Append(listeners, [on |-> "new", heard |-> <<>>])
          /\ alert' = "loading"
       \/ alert' = "noInternet" /\ UNCHANGED listeners
    /\ UNCHANGED <<placed, changes, lookups, left, orders, rows, history>>

(* "OK", and "Попробовать позже", which goes back.                         *)
Press ==
    /\ Between(blocks)
    /\ alert \in {"message", "noInternet"}
    /\ alert' = IF alert = "message" THEN "none" ELSE "popped"
    /\ UNCHANGED <<outside, lookups, left, orders, rows, history>>

(* The table asks for the i-th section again when it scrolls into view:    *)
(* the header indexes the orders unguarded, the rows do not.               *)
Scroll(i) ==
    /\ Between(blocks)
    /\ alert = "none"
    /\ IF i \notin DOMAIN orders
         THEN alert' = "headerTrap" /\ UNCHANGED rows
         ELSE /\ rows' = [rows EXCEPT ![i] =
                    [orders[i] EXCEPT !.names =
                        [j \in DOMAIN rows[i].names |->
                            IF j \in DOMAIN orders[i].names THEN orders[i].names[j] ELSE NoName]]]
              /\ UNCHANGED alert
    /\ UNCHANGED <<outside, lookups, left, orders, history>>

-----------------------------------------------------------------------------
MainBlocks == ShowOrders \/ FillItem \/ SetTable \/ Failure

Network ==
    \/ \E o \in Orders : Change(o)
    \/ \E k \in DOMAIN listeners : Listen(k) \/ ListenFails(k)
    \/ \E l \in lookups : Answer(l)

User == PrepareData \/ Press \/ \E i \in DOMAIN rows : Scroll(i)

Next == Network \/ MainBlocks \/ User

Spec == Init /\ [][Next]_vars

-----------------------------------------------------------------------------
(* Properties *)

AtRest ==
    /\ ~Running /\ blocks = <<>> /\ listeners # <<>> /\ alert \notin Gone
    /\ \A k \in DOMAIN listeners : listeners[k].on = "on" /\ listeners[k].heard = Listing

(* However rounds of lookups overlap, once all lists and answers are in    *)
(* the table shows the orders there are, and no item is left without a     *)
(* name: the answer that comes last is the last of its own round, and the  *)
(* last round has filled every place.  (Not if something failed.)          *)
TableIsComplete ==
    AtRest /\ ~failed =>
        /\ rows = orders
        /\ IdsOf(rows) = IdsOf(Listing)
        /\ \A i \in DOMAIN rows : \A j \in DOMAIN rows[i].names : rows[i].names[j] # NoName

(* Items carry their own names, unless other orders (not only other        *)
(* statuses) came while lookups ran.                                       *)
NamesAreRight ==
    ~replaced =>
        \A i \in DOMAIN orders : \A j \in DOMAIN orders[i].names :
            orders[i].names[j] \in {NoName, ItemsOf[orders[i].id][j]}

(* The app stops only where the code relies on the list it started from.   *)
TrapsOnlyWhenReplaced ==
    /\ alert = "lookupTrap" => replaced
    /\ alert = "headerTrap" => shrunk

(* Whatever is looked up by index finds its place in the list of its round,*)
(* or in one of the same orders.                                           *)
AnswersFindTheirItems == NamesAreRight /\ TrapsOnlyWhenReplaced

(* "Загрузка..." does not stay for ever: while it is up a list or an       *)
(* answer is still to come, or a block to run.  Also if a lookup fails, so *)
(* that its round is never done.                                           *)
LoadingCloses ==
    alert = "loading" =>
        \/ \E k \in DOMAIN listeners : listeners[k].on = "new"
        \/ lookups # {} \/ blocks # <<>>
=============================================================================
