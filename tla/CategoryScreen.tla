---------------------------- MODULE CategoryScreen ----------------------------
(***************************************************************************)
(* The items of one category on one device: CategoryPresenter,             *)
(* CategoryViewController and the filter popover, between the listener,    *)
(* the calls that add an item to the basket and the user.                  *)
(*                                                                         *)
(* A row of the table is known by its index; the index of a row of the     *)
(* shown list is used on the list of all items (see Added).                *)
(***************************************************************************)
EXTENDS MainQueue

CONSTANTS Goods,        \* ids of the items: equal counts are sorted by them
          Cost,         \* Cost[g]: the price per day
          Maker,        \* Maker[g]: the manufacturer
          MaxCount,     \* bound: the largest count of an item
          MaxChanges,   \* bound: changes of the stock from elsewhere
          MaxAdds       \* bound: adds of this device

ASSUME CategoryAssumption ==
    /\ Goods \subseteq Int /\ IsFiniteSet(Goods)
    /\ Cost \in [Goods -> Nat]
    /\ DOMAIN Maker = Goods
    /\ {MaxCount, MaxChanges, MaxAdds} \subseteq Nat

VARIABLES stock,      \* the count of every item in the database
          changes,    \* how often others have changed it
          raised,     \* did a count ever rise?  (history)
          failed,     \* was an add ever lost or refused?  (history)
          listening,  \* the listener is "new", "on" or "off" after an error
          heard,      \* the list it was last called with
          adds,       \* how many adds there were
          calls,      \* calls of addItemInBasket that the server has not handled
          items,      \* presenter.items
          makers,     \* presenter.manufacturers
          checked,    \* presenter.checkManufacturers
          range,      \* presenter.costRange
          rows,       \* shownItems and the rows of the table
          updated,    \* were the filters initialised?
          available,  \* filtersAreAvialable
          label,      \* what covers the table: "none", "noItems" or "offline"
          alert       \* what is presented above the screen

outside == <<stock, changes, raised, failed, listening, heard, calls>>
filters == <<makers, checked, range, updated>>
screen  == <<rows, available, label>>
vars    == <<stock, changes, raised, failed, listening, heard, adds, calls, blocks,
             due, items, makers, checked, range, rows, updated, available, label, alert>>

Costs  == {Cost[g] : g \in Goods}
Makers == {Maker[g] : g \in Goods}
Item   == [item : Goods, count : Int]
Ranges == [lo : Costs \cup {0}, hi : Costs \cup {0}]
Call   == [item : Goods, n : Nat]

(* "filtersTrap" and "addTrap": the app has stopped.                       *)
Trapped == {"filtersTrap", "addTrap"}
Plain(k) == [kind |-> k]
Alerts  == {Plain(k) : k \in {"none", "loading", "message"} \cup Trapped}
           \cup [kind : {"filters"}, min : Costs, max : Costs]
Block   == [what : {"items"}, items : Seq(Item)]
           \cup [what : {"added"}, index : Nat, n : Nat]
           \cup [what : {"notAdded", "error"}]

TypeOK ==
    /\ stock \in [Goods -> 0 .. MaxCount] /\ changes \in 0 .. MaxChanges
    /\ raised \in BOOLEAN /\ failed \in BOOLEAN
    /\ listening \in {"new", "on", "off"} /\ heard \in Seq(Item)
    /\ adds \in 0 .. MaxAdds /\ calls \in Seq(Call)
    /\ blocks \in Seq(Block) /\ due \in 0 .. Len(blocks)
    /\ items \in Seq(Item) /\ rows \in Seq(Item)
    /\ checked \subseteq makers /\ makers \subseteq Makers /\ range \in Ranges
    /\ updated \in BOOLEAN /\ available \in BOOLEAN
    /\ label \in {"none", "noItems", "offline"}
    /\ alert \in Alerts

(* viewDidLoad: the presenter has no items yet, and starts the listener.   *)
Init ==
    /\ stock \in [Goods -> 0 .. MaxCount] /\ changes = 0
    /\ raised = FALSE /\ failed = FALSE
    /\ listening = "new" /\ heard = <<>>
    /\ adds = 0 /\ calls = <<>>
    /\ blocks = <<>> /\ due = 0
    /\ items = <<>> /\ rows = <<>>
    /\ makers = {} /\ checked = {} /\ range = [lo |-> 0, hi |-> 0]
    /\ updated = FALSE /\ available = FALSE /\ label = "none"
    /\ alert = Plain("none")

(* The documents of the query.  An inequality orders by its field, so that *)
(* an item moves up when its count falls.                                  *)
Documents == {[item |-> g, count |-> stock[g]] : g \in {h \in Goods : stock[h] > 0}}
Listing   ==
    CHOOSE list \in [1 .. Cardinality(Documents) -> Documents] :
        \A i, j \in DOMAIN list :
            i < j => \/ list[i].count < list[j].count
                     \/ list[i].count = list[j].count /\ list[i].item < list[j].item

MadeBy(list)   == {Maker[list[i].item] : i \in DOMAIN list}
CostsOf(list)  == {Cost[list[i].item] : i \in DOMAIN list}
RangeOf(list)  == [lo |-> Min(CostsOf(list)), hi |-> Max(CostsOf(list))]

(* The members of S, in the order of the list.                             *)
Sublist(list, S) ==
    LET upTo[i \in 0 .. Len(list)] ==
            IF i = 0 THEN <<>>
            ELSE IF list[i] \in S THEN Append(upTo[i - 1], list[i]) ELSE upTo[i - 1]
    IN  upTo[Len(list)]

InStock(list) == Sublist(list, {i \in Item : i.count > 0})

(* filterItems; used-up items are not left out.                            *)
Filtered(list, ms, r) ==
    Sublist(list, {i \in Item : Maker[i.item] \in ms /\ Cost[i.item] \in r.lo .. r.hi})

-----------------------------------------------------------------------------
(* Outside the main thread.                                                *)

(* Others take and return the item.                                        *)
Change(g, n) ==
    /\ changes < MaxChanges /\ n # stock[g]
    /\ changes' = changes + 1
    /\ stock' = [stock EXCEPT ![g] = n]
    /\ raised' = (raised \/ n > stock[g])
    /\ UNCHANGED <<failed, listening, heard, adds, calls, queue, items, filters, screen, alert>>

(* getItems' listener is called, the first time with what there is.        *)
Listen ==
    /\ listening = "new" \/ (listening = "on" /\ heard # Listing)
    /\ listening' = "on"
    /\ heard' = Listing
    /\ Send([what |-> "items", items |-> Listing])
    /\ UNCHANGED <<stock, changes, raised, failed, adds, calls, items, filters, screen, alert>>

(* It is called with an error, and never again.                            *)
ListenFails ==
    /\ listening # "off"
    /\ listening' = "off"
    /\ Send([what |-> "error"])
    /\ UNCHANGED <<stock, changes, raised, failed, heard, adds, calls, items, filters,
                   screen, alert>>

(* A call takes the item off the stock, is lost without a word (refused for*)
(* lack of stock, or an error that is not of FunctionsErrorDomain), or is  *)
(* reported as failed.                                                     *)
Handle(k) ==
    LET c == calls[k] IN
    /\ calls' = RemoveAt(calls, k)
    /\ \/ /\ stock[c.item] >= c.n
          /\ stock' = [stock EXCEPT ![c.item] = stock[c.item] - c.n]
          /\ UNCHANGED <<failed, queue>>
       \/ /\ failed' = TRUE
          /\ UNCHANGED <<stock, queue>>
       \/ /\ failed' = TRUE
          /\ Send([what |-> "notAdded"])
          /\ UNCHANGED stock
    /\ UNCHANGED <<changes, raised, listening, heard, adds, items, filters, screen, alert>>

-----------------------------------------------------------------------------
(* The view.                                                               *)

(* setItems and success: the table is reloaded; the first list that is not *)
(* empty also sets the filters.                                            *)
Success(list) ==
    /\ rows' = list
    /\ label' = IF list = <<>> THEN "noItems" ELSE "none"
    /\ available' = (available \/ list # <<>>)
    /\ updated' = (updated \/ list # <<>>)

(* Mutant: the popover's manufacturers follow the lists, its checks do not.*)
SetFiltersAgain(all, list) ==
    /\ makers' = MadeBy(all)
    /\ IF ~updated /\ list # <<>>
         THEN checked' = makers' /\ range' = RangeOf(all)
         ELSE UNCHANGED <<checked, range>>

(* getManufacturers and getCostRange, from all items.                      *)
SetFilters(all, list) ==
    IF ~updated /\ list # <<>>
      THEN makers' = MadeBy(all) /\ checked' = makers' /\ range' = RangeOf(all)
      ELSE UNCHANGED <<makers, checked, range>>

(* Mutant: closeFilters before setCostRange.                               *)
CloseFiltersFirst(r) ==
    /\ range' = r
    /\ Success(Filtered(items, checked, range))
    /\ UNCHANGED <<makers, checked>>

(* viewWillDisappear of the popover, with the range r of the slider:       *)
(* setCostRange and closeFilters.                                          *)
CloseFilters(r) ==
    /\ range' = r
    /\ Success(Filtered(items, checked, r))
    /\ UNCHANGED <<makers, checked>>

(* What the slider may show when it is left: between the costs of the list *)
(* that was there when it was opened.                                      *)
Selectable == {r \in Ranges : r.lo >= alert.min /\ r.hi <= alert.max}

(* closeAlert: what is presented makes room for a message, if anything is. *)
Replaced == IF alert.kind = "none" THEN alert ELSE Plain("message")

-----------------------------------------------------------------------------
(* Blocks on the main queue.                                               *)

Run(what) ==
    /\ alert.kind \notin Trapped
    /\ Dequeue(what)
    /\ UNCHANGED <<outside, adds>>

(* Mutant: a list that comes while something is presented is only shown.   *)
ShowItemsOnly ==
    /\ Run("items")
    /\ items' = IF alert.kind = "none" THEN Head(blocks).items ELSE items
    /\ Success(Head(blocks).items)
    /\ SetFilters(Head(blocks).items, Head(blocks).items)
    /\ UNCHANGED alert

(* A list arrives: all of it is shown, whatever the filters are.           *)
ShowItems ==
    /\ Run("items")
    /\ items' = Head(blocks).items
    /\ Success(items')
    /\ SetFilters(items', items')
    /\ UNCHANGED alert

(* failure: the label over the table.                                      *)
Failure ==
    /\ available' = FALSE
    /\ label' = "offline"
    /\ UNCHANGED <<rows, items, filters, alert>>

ListFailed == Run("error") /\ Failure

(* Mutant: the alert is left to the late report.                           *)
AddedSilently ==
    /\ Run("added")
    /\ IF Head(blocks).index \notin DOMAIN items
         THEN alert' = Plain("addTrap") /\ UNCHANGED <<items, filters, screen>>
         ELSE /\ items' = [items EXCEPT ![Head(blocks).index].count =
                                items[Head(blocks).index].count - Head(blocks).n]
              /\ Success(InStock(items'))
              /\ SetFilters(items', InStock(items'))
              /\ UNCHANGED alert

(* addItemInBasket's completion has reported success, before the call was  *)
(* answered.  The row's index is used on all items as they are now, and    *)
(* all of them that are left are shown, whatever the filters are.          *)
Added ==
    /\ Run("added")
    /\ IF Head(blocks).index \notin DOMAIN items
         THEN alert' = Plain("addTrap") /\ UNCHANGED <<items, filters, screen>>
         ELSE /\ items' = [items EXCEPT ![Head(blocks).index].count =
                                items[Head(blocks).index].count - Head(blocks).n]
              /\ Success(InStock(items'))
              /\ SetFilters(items', InStock(items'))
              /\ alert' = Replaced

(* Its second report: the call did not get through.                        *)
NotAdded ==
    /\ Run("notAdded")
    /\ alert' = Replaced
    /\ UNCHANGED items
    /\ IF alert.kind = "filters"
         THEN \E r \in Selectable : CloseFilters(r)
         ELSE UNCHANGED <<filters, screen>>

-----------------------------------------------------------------------------
(* Events of the run loop.                                                 *)

(* The filter button.  The costs of the list are taken to exist.           *)
ShowFilters ==
    /\ Between(blocks)
    /\ alert.kind = "none" /\ available
    /\ alert' = IF items = <<>> THEN Plain("filtersTrap")
                ELSE [kind |-> "filters", min |-> RangeOf(items).lo, max |-> RangeOf(items).hi]
    /\ UNCHANGED <<outside, adds, items, filters, screen>>

(* A row of the popover: appendManufacturer or reduseManufacturer.         *)
Tapped(m) ==
    /\ Between(blocks)
    /\ alert.kind = "filters"
    /\ checked' = IF m \in checked THEN checked \ {m} ELSE checked \cup {m}
    /\ UNCHANGED <<outside, adds, items, makers, range, updated, screen, alert>>

(* The user leaves the popover.                                            *)
LeaveFilters ==
    /\ Between(blocks)
    /\ alert.kind = "filters"
    /\ \E r \in Selectable : CloseFilters(r)
    /\ alert' = Plain("none")
    /\ UNCHANGED <<outside, adds, items>>

PressOK ==
    /\ Between(blocks)
    /\ alert.kind = "message"
    /\ alert' = Plain("none")
    /\ UNCHANGED <<outside, adds, items, filters, screen>>

(* "Добавить" of row i, with n on its stepper: the call is made, its       *)
(* success is announced at once, and the screen waits for that.            *)
AddItemInBasket(i, n) ==
    /\ alert.kind = "none" /\ label = "none"
    /\ adds < MaxAdds /\ adds' = adds + 1
    /\ calls' = Append(calls, [item |-> rows[i].item, n |-> n])
    /\ Between(Append(blocks, [what |-> "added", index |-> i, n |-> n]))
    /\ alert' = Plain("loading")
    /\ UNCHANGED <<stock, changes, raised, failed, listening, heard, items, filters, screen>>

(* The same button without a network.                                      *)
AddOffline ==
    /\ Between(blocks)
    /\ alert.kind = "none" /\ label = "none" /\ rows # <<>>
    /\ Failure
    /\ UNCHANGED <<outside, adds>>

(* The stepper goes from 1 to the count of the row; a used-up row that     *)
(* CloseFilters shows stands at 1 as well.                                 *)
Steps(i) == 1 .. Max({1, rows[i].count})

-----------------------------------------------------------------------------
MainBlocks == ShowItems \/ ListFailed \/ Added \/ NotAdded

Network ==
    \/ \E g \in Goods, n \in 0 .. MaxCount : Change(g, n)
    \/ Listen \/ ListenFails
    \/ \E k \in DOMAIN calls : Handle(k)

User ==
    \/ ShowFilters \/ LeaveFilters \/ PressOK \/ AddOffline
    \/ \E m \in makers : Tapped(m)
    \/ \E i \in DOMAIN rows : \E n \in Steps(i) : AddItemInBasket(i, n)

Next == Network \/ MainBlocks \/ User

Spec == Init /\ [][Next]_vars

-----------------------------------------------------------------------------
(* Properties *)

(* The filters that the popover shows as chosen are those of the table,    *)
(* or the table shows all items (or all that are left): a list or an add   *)
(* lifts the filters, but earlier filters never stay in force.             *)
TableFollowsFilters ==
    alert.kind # "filters" =>
        rows \in {items, InStock(items), Filtered(items, checked, range)}

(* An add through a filtered or replaced list lowers the count of another  *)
(* item.  If every call got through and no item was returned, the lists    *)
(* that follow put this right: at rest the presenter holds the catalogue.  *)
(* (A count that fell and rose again is not listed anew, nor is a refusal.)*)
AtRest == calls = <<>> /\ blocks = <<>> /\ listening = "on" /\ heard = Listing
ScreenCatchesUp == AtRest /\ ~raised /\ ~failed => items = Listing

(* The alert without a button, "Загрузка...", does not stay for ever: the  *)
(* first report, which closes it, still waits, whatever comes before it.   *)
LoadingCloses ==
    alert.kind = "loading" => \E i \in DOMAIN blocks : blocks[i].what = "added"

(* The popover's force unwraps of getMinCost() and getMaxCost(): the       *)
(* filters are only available when there are items.                        *)
FiltersHaveCosts == alert.kind # "filtersTrap"
=============================================================================
