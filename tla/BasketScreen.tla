----------------------------- MODULE BasketScreen -----------------------------
(***************************************************************************)
(* One device's basket screen: BasketPresenter and BasketViewController    *)
(* between the user's taps, the basket listener, the calls that remove a   *)
(* line and the writes that put an order.                                  *)
(*                                                                         *)
(* Everything here runs on the main thread (MainQueue).  UIKit shows one   *)
(* alert at a time, above the whole screen.                                *)
(***************************************************************************)
EXTENDS MainQueue

CONSTANTS Lines,        \* ids of basket documents: lists are sorted by them
          NoLine,       \* what a row shows that has no item
          Cost,         \* Cost[l]: the price per day of line l
          MaxCount,     \* bound: the largest count of a line
          MaxDays,      \* dayStepper.maximumValue
          MaxChanges,   \* bound: changes of the basket from elsewhere
          MaxRemovals,  \* bound: calls that may still report an error
          MaxWrites     \* bound: writes of orders under way

ASSUME ScreenAssumption ==
    /\ Lines \subseteq Int /\ IsFiniteSet(Lines) /\ NoLine \in Int \ Lines
    /\ Cost \in [Lines -> Nat]
    /\ {MaxCount, MaxDays} \subseteq Nat \ {0}
    /\ {MaxChanges, MaxRemovals, MaxWrites} \subseteq Nat

VARIABLES basket,    \* counts of the lines in the device's copy of the basket
          changes,   \* how often others have changed it
          listening, \* the basket listener is "new", "on" or "off" after an error
          heard,     \* the list it was last called with
          answers,   \* the writes of orders that are not answered, oldest first
          removals,  \* removal calls whose error may still come
          items,     \* currentOrder.items (empty without an order)
          days,      \* currentOrder.countOfDay, 0 if currentOrder is nil
          busy,      \* isPutOrderProcess
          rows,      \* the rows of the table, as drawn
          total,     \* the sum that totalLabel shows
          dayLabel,  \* the number that countDayLabel shows
          alert      \* what is presented above the screen

outside == <<basket, changes, listening, heard, answers, removals>>
order   == <<items, days, busy>>
shown   == <<rows, total, dayLabel>>
vars    == <<basket, changes, listening, heard, answers, removals, blocks, due,
             items, days, busy, rows, total, dayLabel, alert>>

Item  == [line : Lines, count : 1 .. MaxCount]
Error == [line |-> NoLine, count |-> 0]     \* getItem's ("error", "error", 0, "")

(* Alerts: a dialog that asks about a row has captured its index, and the  *)
(* model remembers the line that was shown there.  After a "trap" the app  *)
(* is gone.                                                                *)
Blocking == {"loading", "wait", "sending"}
Plain(k) == [kind |-> k, index |-> 0, line |-> NoLine]
Alerts   ==
    {Plain(k) : k \in Blocking \cup {"none", "message", "trap"}}
    \cup [kind : {"confirm", "closing"}, index : Nat, line : Lines \cup {NoLine}]
Answers  == {"placed", "refused", "removed", "notRemoved", "error"}
Block    == [what : {"items"}, items : Seq(Item)] \cup [what : Answers]

TypeOK ==
    /\ basket \in UNION {[S -> 1 .. MaxCount] : S \in SUBSET Lines}
    /\ changes \in 0 .. MaxChanges
    /\ listening \in {"new", "on", "off"}
    /\ heard \in Seq(Item)
    /\ answers \in Seq({"order", "delete"})
    /\ removals \in 0 .. MaxRemovals
    /\ blocks \in Seq(Block) /\ due \in 0 .. Len(blocks)
    /\ items \in Seq(Item) /\ days \in 0 .. MaxDays /\ busy \in BOOLEAN
    /\ rows \in Seq(Item \cup {Error}) /\ total \in Nat /\ dayLabel \in 1 .. MaxDays
    /\ alert \in Alerts

(* viewDidLoad: prepareData shows an alert and starts the listener.        *)
Init ==
    /\ basket \in UNION {[S -> 1 .. MaxCount] : S \in SUBSET Lines}
    /\ changes = 0 /\ listening = "new" /\ heard = <<>>
    /\ answers = <<>> /\ removals = 0
    /\ blocks = <<>> /\ due = 0
    /\ items = <<>> /\ days = 0 /\ busy = FALSE
    /\ rows = <<>> /\ total = 0 /\ dayLabel = 1
    /\ alert = Plain("loading")

LinesOf(list) == {list[i].line : i \in DOMAIN list}

(* The documents of the listener's snapshot.                               *)
Documents == {[line |-> l, count |-> basket[l]] : l \in DOMAIN basket}
Listing   ==
    CHOOSE list \in [1 .. Cardinality(Documents) -> Documents] :
        \A i, j \in DOMAIN list : i < j => list[i].line < list[j].line

CountTotal(list, n) ==
    LET sum[i \in 0 .. Len(list)] ==
            IF i = 0 THEN 0 ELSE sum[i - 1] + Cost[list[i].line] * list[i].count
    IN  sum[Len(list)] * n

-----------------------------------------------------------------------------
(* What UIKit makes of dismiss and present.  An alert that is on its way   *)
(* out ("closing": its handler is still to run) is left alone.             *)

(* dismiss(animated:)                                                      *)
Dismissed == IF alert.kind = "closing" THEN alert ELSE Plain("none")

(* dismiss, and then a message, if an alert is there to be dismissed.      *)
Replaced ==
    IF alert.kind \in {"none", "closing"} THEN alert ELSE Plain("message")

(* The same without looking first: whether the message comes up when there *)
(* was no alert, or before the old one is gone, is up to UIKit.            *)
Messages ==
    IF alert.kind = "closing" THEN {alert} ELSE {Plain("none"), Plain("message")}

-----------------------------------------------------------------------------
(* Outside the main thread.                                                *)

(* The basket changes: functions run, other devices act, refused deletes   *)
(* come back.                                                              *)
Change(l, n) ==
    /\ changes < MaxChanges
    /\ changes' = changes + 1
    /\ basket' = [k \in (DOMAIN basket \cup {l}) \ (IF n = 0 THEN {l} ELSE {}) |->
                    IF k = l THEN n ELSE basket[k]]
    /\ basket' # basket
    /\ UNCHANGED <<listening, heard, answers, removals, queue, order, shown, alert>>

(* getOrder's listener is called, the first time with what there is.       *)
Listen ==
    /\ listening = "new" \/ (listening = "on" /\ heard # Listing)
    /\ listening' = "on"
    /\ heard' = Listing
    /\ Send([what |-> "items", items |-> Listing])
    /\ UNCHANGED <<basket, changes, answers, removals, order, shown, alert>>

(* It is called with an error, and never again.                            *)
ListenFails ==
    /\ listening # "off"
    /\ listening' = "off"
    /\ Send([what |-> "error"])
    /\ UNCHANGED <<basket, changes, heard, answers, removals, order, shown, alert>>

(* The server accepts or refuses the oldest write; a delete that it        *)
(* accepts calls nobody back.                                              *)
Answer ==
    /\ answers # <<>>
    /\ answers' = Tail(answers)
    /\ \/ Head(answers) = "order" /\ Send([what |-> "placed"])
       \/ Head(answers) = "delete" /\ UNCHANGED queue
       \/ Send([what |-> "refused"])
    /\ UNCHANGED <<basket, changes, listening, heard, removals, order, shown, alert>>

(* The call of deleteItemFromBasket fails in the end.                      *)
RemovalFails ==
    /\ removals > 0
    /\ removals' = removals - 1
    /\ Send([what |-> "notRemoved"])
    /\ UNCHANGED <<basket, changes, listening, heard, answers, order, shown, alert>>

-----------------------------------------------------------------------------
(* Blocks on the main queue.                                               *)

Run(what) ==
    /\ alert.kind # "trap"
    /\ Dequeue(what)
    /\ UNCHANGED outside

Draw(list, n) ==
    /\ rows' = list
    /\ total' = CountTotal(list, n)

(* Mutant: setOrder leaves the alert alone.                                *)
SetOrderKeepsAlert ==
    /\ Run("items")
    /\ items' = Head(blocks).items
    /\ days' = IF days = 0 THEN 1 ELSE days
    /\ IF busy THEN UNCHANGED <<rows, total>> ELSE Draw(items', days')
    /\ UNCHANGED <<busy, dayLabel, alert>>

(* Mutant: only the first list closes the alert that is up.                *)
SetOrderClosesOnce ==
    /\ Run("items")
    /\ items' = Head(blocks).items
    /\ days' = IF days = 0 THEN 1 ELSE days
    /\ IF busy THEN UNCHANGED <<rows, total, alert>>
       ELSE Draw(items', days') /\ alert' = IF days = 0 THEN Dismissed ELSE alert
    /\ UNCHANGED <<busy, dayLabel>>

(* A list arrives.  While an order is being put it is only stored.         *)
SetOrder ==
    /\ Run("items")
    /\ items' = Head(blocks).items
    /\ days' = IF days = 0 THEN 1 ELSE days
    /\ IF busy THEN UNCHANGED <<rows, total, alert>>
       ELSE Draw(items', days') /\ alert' = Dismissed
    /\ UNCHANGED <<busy, dayLabel>>

(* Mutant: the label is not set back to one day.                           *)
PutOrderDoneKeepsLabel ==
    /\ Run("placed")
    /\ busy' = FALSE
    /\ items' = <<>> /\ days' = 1
    /\ Draw(items', days')
    /\ alert' \in Messages
    /\ UNCHANGED dayLabel

(* The order is in the database: a new, empty one is shown, for one day.   *)
PutOrderDone ==
    /\ Run("placed")
    /\ busy' = FALSE
    /\ items' = <<>> /\ days' = 1
    /\ Draw(items', days')
    /\ dayLabel' = 1
    /\ alert' \in Messages

(* The listener, an order or the delete of an ordered line failed; busy is *)
(* not reset.                                                              *)
Failure ==
    /\ Run("refused") \/ Run("error")
    /\ alert' \in IF Replaced = alert THEN Messages ELSE {Replaced}
    /\ UNCHANGED <<order, shown>>

(* Mutant: the table is not reloaded.                                      *)
RemovedKeepsTable ==
    /\ Run("removed")
    /\ total' = CountTotal(items, days)
    /\ alert' = Replaced
    /\ UNCHANGED <<order, rows, dayLabel>>

(* removeFromBasket's completion reports success, before anything happened.*)
Removed ==
    /\ Run("removed")
    /\ Draw(items, days)
    /\ alert' = Replaced
    /\ UNCHANGED <<order, dayLabel>>

(* Its second report: the call has failed.                                 *)
NotRemoved ==
    /\ Run("notRemoved")
    /\ alert' = Replaced
    /\ UNCHANGED <<order, shown>>

-----------------------------------------------------------------------------
(* Events of the run loop.                                                 *)

(* The trash button of the i-th row.                                       *)
DeleteRow(i) ==
    /\ Between(blocks)
    /\ alert = Plain("none")
    /\ alert' = [kind |-> "confirm", index |-> i, line |-> rows[i].line]
    /\ UNCHANGED <<outside, order, shown>>

(* "Да" starts to dismiss the dialog; "Нет" and "OK" only dismiss.         *)
Press(button) ==
    /\ Between(blocks)
    /\ <<alert.kind, button>> \in
          {<<"confirm", "yes">>, <<"confirm", "no">>, <<"message", "ok">>}
    /\ alert' = IF button = "yes" THEN [alert EXCEPT !.kind = "closing"] ELSE Plain("none")
    /\ UNCHANGED <<outside, order, shown>>

(* The dialog is gone and its handler runs: removeFromBasket(index:).      *)
(* Array indexing traps if the list has become too short in the meantime.  *)
RemoveFromBasket ==
    /\ alert.kind = "closing"
    /\ IF alert.index \notin DOMAIN items
         THEN alert' = Plain("trap") /\ Between(blocks) /\ UNCHANGED <<removals, items>>
         ELSE /\ removals < MaxRemovals /\ removals' = removals + 1
              /\ items' = RemoveAt(items, alert.index)
              /\ Between(Append(blocks, [what |-> "removed"]))
              /\ alert' = Plain("wait")
    /\ UNCHANGED <<basket, changes, listening, heard, answers, days, busy, shown>>

(* Mutant: without minimumValue = 1 the stepper goes down to 0.            *)
StepperChangedFromZero(n) ==
    /\ Between(blocks)
    /\ alert = Plain("none")
    /\ dayLabel' = n - 1
    /\ days' = IF days = 0 THEN 0 ELSE n - 1
    /\ total' = CountTotal(items, n - 1)
    /\ UNCHANGED <<outside, items, busy, rows, alert>>

(* The stepper, which keeps a value of its own, is changed to n.           *)
StepperChanged(n) ==
    /\ Between(blocks)
    /\ alert = Plain("none")
    /\ n # dayLabel
    /\ dayLabel' = n
    /\ days' = IF days = 0 THEN 0 ELSE n
    /\ total' = CountTotal(items, n)
    /\ UNCHANGED <<outside, items, busy, rows, alert>>

(* "Оформить заказ": the writes go into the queue, and the ordered lines   *)
(* leave the device's copy of the basket.                                  *)
PutOrder ==
    /\ Between(blocks)
    /\ alert = Plain("none") /\ items # <<>>
    /\ Len(answers) + Len(items) < MaxWrites
    /\ answers' = answers \o <<"order">> \o [i \in DOMAIN items |-> "delete"]
    /\ basket' = [l \in DOMAIN basket \ LinesOf(items) |-> basket[l]]
    /\ busy' = TRUE
    /\ alert' = Plain("sending")
    /\ UNCHANGED <<changes, listening, heard, removals, items, days, shown>>

(* The same button with an empty basket or without a network: a message.   *)
PutNothing ==
    /\ Between(blocks)
    /\ alert = Plain("none")
    /\ alert' = Plain("message")
    /\ UNCHANGED <<outside, order, shown>>

(* The table asks for a row again, when it scrolls into view.              *)
GetItem(i) ==
    /\ alert.kind # "trap"
    /\ rows' = [rows EXCEPT ![i] = IF i \in DOMAIN items THEN items[i] ELSE Error]
    /\ rows' # rows
    /\ UNCHANGED <<outside, queue, order, total, dayLabel, alert>>

-----------------------------------------------------------------------------
MainQueue == SetOrder \/ PutOrderDone \/ Failure \/ Removed \/ NotRemoved

Network ==
    \/ \E l \in Lines, n \in 0 .. MaxCount : Change(l, n)
    \/ Listen \/ ListenFails \/ Answer \/ RemovalFails

User ==
    \/ \E i \in DOMAIN rows : DeleteRow(i)
    \/ \E b \in {"yes", "no", "ok"} : Press(b)
    \/ \E n \in 1 .. MaxDays : StepperChanged(n)
    \/ PutOrder \/ PutNothing

Next ==
    \/ Network \/ MainQueue \/ User \/ RemoveFromBasket
    \/ \E i \in DOMAIN rows : GetItem(i)

Spec == Init /\ [][Next]_vars

-----------------------------------------------------------------------------
(* Properties *)

(* A removal whose first report has not run yet.                           *)
Removing == \E i \in DOMAIN blocks : blocks[i].what = "removed"

(* What the user sees is what "Оформить заказ" would order: rows and sum   *)
(* are those of currentOrder, except between a confirmed removal and the   *)
(* block that redraws, and except while an order is (believed to be) put.  *)
TableIsTheOrder ==
    ~busy /\ ~Removing => rows = items /\ total = CountTotal(items, days)

(* The number of days beside the stepper is the one that will be ordered.  *)
DaysAreShown == days # 0 => dayLabel = days

(* The screen shows the order that would be put.                           *)
OrderIsShown == TableIsTheOrder /\ DaysAreShown

(* As long as "Удалить товар из корзины?" is on the screen, the captured   *)
(* index still belongs to the line whose button was tapped, though lists   *)
(* replace each other underneath: whatever replaces the list closes the    *)
(* dialog.  (Once "Да" is pressed, and while busy, this is no longer so.)  *)
ConfirmedIndexStands ==
    alert.kind = "confirm" /\ ~busy =>
        alert.index \in DOMAIN items /\ items[alert.index].line = alert.line

(* An alert without a button does not stay for ever: what will close it is *)
(* always under way, though lists, reports and answers close alerts for    *)
(* each other and others take their place.                                 *)
Awaited(kinds) == \E i \in DOMAIN blocks : blocks[i].what \in kinds
BlockingAlertsClose ==
    /\ alert.kind = "loading" => listening = "new" \/ Awaited({"items", "error"})
    /\ alert.kind = "wait" => Awaited({"removed"})
    /\ alert.kind = "sending" =>
          \/ \E i \in DOMAIN answers : answers[i] = "order"
          \/ Awaited({"placed", "refused"})
=============================================================================
