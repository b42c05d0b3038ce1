-------------------------- MODULE BasketScreenProofs --------------------------
(***************************************************************************)
(* Theorems of BasketScreen, for any lines, prices, counts and days, any   *)
(* number of changes, removals and writes, and any length of the main      *)
(* queue.                                                                  *)
(***************************************************************************)
EXTENDS BasketScreen, ListLemmas

Baskets == UNION {[S -> 1 .. MaxCount] : S \in SUBSET Lines}

-----------------------------------------------------------------------------
(* The operators of the model.                                             *)

(* The listener is called with a list of lines.                            *)
LEMMA ListingFacts ==
    ASSUME basket \in Baskets
    PROVE  Listing \in Seq(Item)
<1> DEFINE R == {p \in Item \X Item : p[1].line < p[2].line}
<1>1. PICK S \in SUBSET Lines : basket \in [S -> 1 .. MaxCount]
  BY DEF Baskets
<1>2. DOMAIN basket = S
  BY <1>1
<1>3. Documents \subseteq Item
  BY <1>1, <1>2 DEF Documents, Item
<1>4. IsFiniteSet(Documents)
  <2> DEFINE doc == [l \in S |-> [line |-> l, count |-> basket[l]]]
  <2>1. doc \in Surjection(S, Documents)
    BY <1>1, <1>2 DEF Documents, Surjection
  <2>2. IsFiniteSet(S)
    BY ScreenAssumption, FS_Subset
  <2> QED
    BY <2>1, <2>2, FS_Surjection
<1>5. \A x, y \in Documents : <<x, y>> \in R <=> x.line < y.line
  BY <1>3
<1>6. \A x, y \in Documents : x.line = y.line => x = y
  BY <1>2 DEF Documents
<1>7. \A x \in Documents : x.line \in Int
  BY <1>3, ScreenAssumption DEF Item
<1> HIDE DEF R
<1>8. StrictOrder(R, Documents)
  BY <1>5, <1>6, <1>7 DEF StrictOrder
<1>9. Cardinality(Documents) \in Nat
  BY <1>4, FS_CardinalityType
<1>10. \E list \in [1 .. Cardinality(Documents) -> Documents] :
          \A i, j \in DOMAIN list : i < j => list[i].line < list[j].line
  <2>1. PICK list : Ascends(list, Documents, R)
    BY <1>4, <1>8, SortedExists
  <2>2. list \in [1 .. Cardinality(Documents) -> Documents]
    BY <2>1 DEF Ascends
  <2>3. \A i, j \in DOMAIN list : i < j => list[i].line < list[j].line
    BY <2>1, <2>2, <1>5 DEF Ascends
  <2> QED
    BY <2>2, <2>3
<1>11. Listing \in [1 .. Cardinality(Documents) -> Documents]
  BY <1>10 DEF Listing
<1> QED
  BY <1>3, <1>9, <1>11

(* A sum of prices is a number; nothing costs nothing.                     *)
LEMMA TotalFacts ==
    ASSUME NEW list \in Seq(Item), NEW n \in Nat
    PROVE  CountTotal(list, n) \in Nat /\ (list = <<>> => CountTotal(list, n) = 0)
<1> DEFINE price(i) == Cost[list[i].line] * list[i].count
           body(s) == [i \in 0 .. Len(list) |-> IF i = 0 THEN 0 ELSE s[i - 1] + price(i)]
           F == [p \in Nat \X (1 .. Len(list)) |-> p[1] + price(p[2])]
<1>1. Len(list) \in Nat /\ \A i \in 1 .. Len(list) : list[i] \in Item
  OBVIOUS
<1>2. \A i \in 1 .. Len(list) : price(i) \in Nat
  <2> TAKE i \in 1 .. Len(list)
  <2>1. list[i].line \in Lines /\ list[i].count \in Nat
    BY <1>1 DEF Item
  <2>2. Cost[list[i].line] \in Nat
    BY <2>1, ScreenAssumption
  <2> QED
    BY <2>1, <2>2
<1> HIDE DEF price
<1>3. F \in [Nat \X (1 .. Len(list)) -> Nat]
  BY <1>2
<1>4. \A a \in Nat, i \in 1 .. Len(list) : F[<<a, i>>] = a + price(i)
  OBVIOUS
<1>5. PICK g \in [0 .. Len(list) -> Nat] :
         g[0] = 0 /\ \A i \in 1 .. Len(list) : g[i] = F[<<g[i - 1], i>>]
  <2> HIDE DEF F
  <2>1. \E g : Follows(g, Len(list), Nat, 0, F)
    BY <1>1, <1>3, RecursionExists
  <2> QED
    BY <2>1 DEF Follows
<1>6. g = body(g)
  <2>1. \A i \in 0 .. Len(list) : g[i] = IF i = 0 THEN 0 ELSE g[i - 1] + price(i)
    <3> TAKE i \in 0 .. Len(list)
    <3>1. CASE i = 0
      BY <1>5, <3>1
    <3>2. CASE i # 0
      <4>1. i \in 1 .. Len(list) /\ i - 1 \in 0 .. Len(list)
        BY <1>1, <3>2
      <4>2. g[i - 1] \in Nat
        BY <4>1
      <4> HIDE DEF F
      <4> QED
        BY <1>4, <1>5, <3>2, <4>1, <4>2
    <3> QED
      BY <3>1, <3>2
  <2> QED
    BY <2>1
<1> DEFINE sum == CHOOSE s : s = body(s)
<1>7. sum = body(sum)
  <2> HIDE DEF body
  <2> QED
    BY <1>6
<1>8. CountTotal(list, n) = sum[Len(list)] * n
  BY Zenon DEF CountTotal, price
<1> HIDE DEF sum
<1>9. sum[0] = 0
  BY <1>1, <1>7
<1>10. \A i \in 1 .. Len(list) : sum[i] = sum[i - 1] + price(i)
  BY <1>1, <1>7
<1>11. \A i \in 0 .. Len(list) : sum[i] \in Nat
  <2> DEFINE Numbers == {i \in 0 .. Len(list) : sum[i] \in Nat}
  <2>1. 0 \in Numbers
    BY <1>1, <1>9
  <2>2. \A i \in 1 .. Len(list) : i - 1 \in Numbers => i \in Numbers
    BY <1>1, <1>2, <1>10
  <2>3. 0 .. Len(list) \subseteq Numbers
    <3> HIDE DEF Numbers
    <3> QED
      BY <1>1, <2>1, <2>2, UpToN
  <2> QED
    BY <2>3
<1> QED
  BY <1>1, <1>8, <1>9, <1>11

-----------------------------------------------------------------------------
(* The main queue.                                                         *)

Places == 1 .. Len(blocks)

LEMMA BlockFacts ==
    ASSUME NEW b \in Block
    PROVE  /\ b.what \in Answers \cup {"items"}
           /\ b.what = "items" => b.items \in Seq(Item)
BY DEF Block, Answers

LEMMA AwaitedHas ==
    ASSUME blocks \in Seq(Block), NEW kinds
    PROVE  Awaited(kinds) <=> Has(blocks, kinds)
BY DEF Awaited, Has

LEMMA AwaitedHasNext ==
    ASSUME blocks' \in Seq(Block), NEW kinds
    PROVE  Awaited(kinds)' <=> Has(blocks', kinds)
BY DEF Awaited, Has

(* What an operation of the queue does to it: the first block is taken,    *)
(* one is put behind the others, or the run loop handles an event.         *)
Takes(what) ==
    /\ blocks # <<>> /\ Head(blocks) \in Block /\ Head(blocks).what = what
    /\ blocks' \in Seq(Block) /\ due' \in 0 .. Len(blocks')
    /\ 1 \in Places /\ blocks[1] = Head(blocks)
    /\ \A i \in Places' : i + 1 \in Places /\ blocks'[i] = blocks[i + 1] /\ (i + 1 <= due => i <= due')
    /\ \A kinds : Awaited(kinds) <=> what \in kinds \/ Awaited(kinds)'

Puts(b) ==
    /\ blocks' \in Seq(Block) /\ due \in 0 .. Len(blocks')
    /\ \A i \in Places : i \in Places' /\ blocks'[i] = blocks[i]
    /\ \A i \in Places' : i \in Places \/ (i = Len(blocks) + 1 /\ blocks'[i] = b)
    /\ \A kinds : Awaited(kinds)' <=> Awaited(kinds) \/ b.what \in kinds

LEMMA DequeueTakes ==
    ASSUME blocks \in Seq(Block), due \in 0 .. Len(blocks), NEW what, Dequeue(what)
    PROVE  Takes(what)
<1>1. /\ blocks # <<>> /\ Head(blocks).what = what
      /\ blocks' = Tail(blocks)
      /\ due' = IF due > 0 THEN due - 1 ELSE 0
  BY DEF Dequeue
<1>2. /\ Head(blocks) = blocks[1] /\ blocks[1] \in Block /\ 1 \in Places
      /\ blocks' \in Seq(Block) /\ Len(blocks') = Len(blocks) - 1
      /\ \A i \in Places' : i + 1 \in Places /\ blocks'[i] = blocks[i + 1]
  BY <1>1, TailFacts DEF Places
<1>3. Len(blocks) \in Nat /\ Len(blocks') \in Nat
  BY <1>2
<1>4. due' \in 0 .. Len(blocks') /\ \A i \in Places' : i + 1 <= due => i <= due'
  BY <1>1, <1>2, <1>3 DEF Places
<1>5. ASSUME NEW kinds PROVE Awaited(kinds) <=> what \in kinds \/ Awaited(kinds)'
  BY <1>1, <1>2, HasTail, AwaitedHas, AwaitedHasNext
<1> QED
  BY <1>1, <1>2, <1>4, <1>5 DEF Takes

LEMMA AppendPuts ==
    ASSUME blocks \in Seq(Block), due \in 0 .. Len(blocks), NEW b \in Block,
           blocks' = Append(blocks, b)
    PROVE  Puts(b) /\ Len(blocks') = Len(blocks) + 1 /\ Len(blocks) \in Nat
<1>1. /\ blocks' \in Seq(Block) /\ Len(blocks') = Len(blocks) + 1
      /\ \A i \in Places : i \in Places' /\ blocks'[i] = blocks[i]
      /\ \A i \in Places' : i \in Places \/ (i = Len(blocks) + 1 /\ blocks'[i] = b)
  BY AppendFacts DEF Places
<1>2. Len(blocks) \in Nat /\ due \in 0 .. Len(blocks')
  BY <1>1
<1>3. ASSUME NEW kinds PROVE Awaited(kinds)' <=> Awaited(kinds) \/ b.what \in kinds
  BY <1>1, HasAppend, AwaitedHas, AwaitedHasNext
<1> QED
  BY <1>1, <1>2, <1>3 DEF Puts

(* An event finds no removal waiting; it does not touch the queue.         *)
LEMMA BetweenFacts ==
    ASSUME blocks \in Seq(Block), due \in 0 .. Len(blocks), Between(blocks)
    PROVE  /\ due = 0 /\ blocks' = blocks /\ due' = Len(blocks) /\ due' \in 0 .. Len(blocks')
           /\ Places' = Places /\ \A i \in Places : i <= due'
           /\ \A kinds : Awaited(kinds)' <=> Awaited(kinds)
<1>1. due = 0 /\ blocks' = blocks /\ due' = Len(blocks) /\ Len(blocks) \in Nat
  BY DEF Between
<1> QED
  BY <1>1 DEF Places, Awaited

-----------------------------------------------------------------------------
(* Types.                                                                  *)

LEMMA AlertFacts ==
    ASSUME alert \in Alerts
    PROVE  /\ alert.kind = "closing" => alert.index \in Nat
           /\ alert.kind \notin {"confirm", "closing"} => alert = Plain(alert.kind)
           /\ Dismissed \in Alerts /\ Replaced \in Alerts /\ Messages \subseteq Alerts
           /\ alert.kind = "confirm" => [alert EXCEPT !.kind = "closing"] \in Alerts
<1>1. /\ \A k \in Blocking \cup {"none", "message", "trap"} : Plain(k) \in Alerts /\ Plain(k).kind = k
  BY DEF Alerts, Plain
<1>2. Plain("none") \in Alerts /\ Plain("message") \in Alerts
  BY <1>1
<1>3. CASE alert \in [kind : {"confirm", "closing"}, index : Nat, line : Lines \cup {NoLine}]
  <2>1. [alert EXCEPT !.kind = "closing"] \in Alerts
    BY <1>3 DEF Alerts
  <2> QED
    BY <1>2, <1>3, <2>1 DEF Dismissed, Replaced, Messages
<1>4. CASE \E k \in Blocking \cup {"none", "message", "trap"} : alert = Plain(k)
  BY <1>1, <1>2, <1>4 DEF Dismissed, Replaced, Messages, Blocking
<1> QED
  BY <1>3, <1>4 DEF Alerts

(* The type invariant in parts, as the steps leave them alone.             *)
OutsideOK ==
    /\ basket \in Baskets /\ changes \in 0 .. MaxChanges
    /\ listening \in {"new", "on", "off"} /\ heard \in Seq(Item)
    /\ answers \in Seq({"order", "delete"}) /\ removals \in 0 .. MaxRemovals
QueueOK == blocks \in Seq(Block) /\ due \in 0 .. Len(blocks)
OrderOK == items \in Seq(Item) /\ days \in 0 .. MaxDays /\ busy \in BOOLEAN
ShownOK == rows \in Seq(Item \cup {Error}) /\ total \in Nat /\ dayLabel \in 1 .. MaxDays
AlertOK == alert \in Alerts

LEMMA TypeParts == TypeOK <=> OutsideOK /\ QueueOK /\ OrderOK /\ ShownOK /\ AlertOK
BY DEF TypeOK, OutsideOK, QueueOK, OrderOK, ShownOK, AlertOK, Baskets

LEMMA PartsNext == OutsideOK' /\ QueueOK' /\ OrderOK' /\ ShownOK' /\ AlertOK' => TypeOK'
BY DEF TypeOK, OutsideOK, QueueOK, OrderOK, ShownOK, AlertOK, Baskets

LEMMA PartsKept ==
    ASSUME TypeOK
    PROVE  /\ UNCHANGED outside => OutsideOK'
           /\ UNCHANGED queue => QueueOK'
           /\ UNCHANGED order => OrderOK'
           /\ UNCHANGED shown => ShownOK'
           /\ UNCHANGED alert => AlertOK'
<1>1. OutsideOK /\ QueueOK /\ OrderOK /\ ShownOK /\ AlertOK
  BY TypeParts
<1>2. UNCHANGED outside => OutsideOK'
  BY <1>1 DEF outside, OutsideOK
<1>3. UNCHANGED queue => QueueOK'
  BY <1>1 DEF queue, QueueOK
<1>4. UNCHANGED order => OrderOK'
  BY <1>1 DEF order, OrderOK
<1>5. UNCHANGED shown => ShownOK'
  BY <1>1 DEF shown, ShownOK
<1>6. UNCHANGED alert => AlertOK'
  BY <1>1 DEF AlertOK
<1> QED
  BY <1>2, <1>3, <1>4, <1>5, <1>6

LEMMA SendPuts ==
    ASSUME QueueOK, NEW b \in Block, Send(b)
    PROVE  QueueOK' /\ Puts(b) /\ due' = due
<1>1. blocks' = Append(blocks, b) /\ due' = due
  BY DEF Send
<1> QED
  BY <1>1, AppendPuts DEF QueueOK, Puts

LEMMA TypesNetwork ==
    ASSUME TypeOK, Network
    PROVE  TypeOK'
<1> USE TypeOK
<1>1. OutsideOK /\ QueueOK
  BY TypeParts
<1>2. \A k \in Answers : [what |-> k] \in Block
  BY DEF Block
<1>3. ASSUME NEW l \in Lines, NEW n \in 0 .. MaxCount, Change(l, n) PROVE TypeOK'
  <2>1. PICK S \in SUBSET Lines : basket \in [S -> 1 .. MaxCount]
    BY <1>1 DEF OutsideOK, Baskets
  <2> DEFINE T == (S \cup {l}) \ (IF n = 0 THEN {l} ELSE {})
  <2>2. DOMAIN basket = S
    BY <2>1
  <2>3. basket' = [k \in T |-> IF k = l THEN n ELSE basket[k]]
    BY <1>3, <2>2 DEF Change
  <2>4. T \in SUBSET Lines /\ \A k \in T : (k = l => n # 0) /\ (k # l => k \in S)
    BY <2>1
  <2>5. \A k \in T : (IF k = l THEN n ELSE basket[k]) \in 1 .. MaxCount
    <3> HIDE DEF T
    <3> QED
      BY <2>1, <2>4, ScreenAssumption
  <2>6. basket' \in [T -> 1 .. MaxCount]
    <3> HIDE DEF T
    <3> QED
      BY <2>3, <2>5
  <2>7. basket' \in Baskets
    <3> HIDE DEF T
    <3> QED
      BY <2>4, <2>6 DEF Baskets
  <2>8. changes' \in 0 .. MaxChanges
    <3>1. changes < MaxChanges /\ changes' = changes + 1
      BY <1>3 DEF Change
    <3>2. changes \in 0 .. MaxChanges /\ MaxChanges \in Nat
      BY <1>1, ScreenAssumption DEF OutsideOK
    <3> QED
      BY <3>1, <3>2
  <2>9. OutsideOK'
    BY <1>1, <1>3, <2>7, <2>8 DEF Change, OutsideOK
  <2> QED
    BY <1>3, <2>9, PartsKept, PartsNext DEF Change
<1>4. ASSUME Listen PROVE TypeOK'
  <2>1. Listing \in Seq(Item)
    BY <1>1, ListingFacts DEF OutsideOK
  <2>2. [what |-> "items", items |-> Listing] \in Block
    BY <2>1 DEF Block
  <2>3. QueueOK'
    BY <1>1, <1>4, <2>2, SendPuts DEF Listen
  <2>4. OutsideOK'
    BY <1>1, <1>4, <2>1 DEF Listen, OutsideOK
  <2> QED
    BY <1>4, <2>3, <2>4, PartsKept, PartsNext DEF Listen
<1>5. ASSUME ListenFails PROVE TypeOK'
  <2>1. QueueOK'
    BY <1>1, <1>2, <1>5, SendPuts DEF ListenFails, Answers
  <2>2. OutsideOK'
    BY <1>1, <1>5 DEF ListenFails, OutsideOK
  <2> QED
    BY <1>5, <2>1, <2>2, PartsKept, PartsNext DEF ListenFails
<1>6. ASSUME Answer PROVE TypeOK'
  <2>1. QueueOK'
    <3>1. CASE Send([what |-> "placed"])
      BY <1>1, <1>2, <3>1, SendPuts DEF Answers
    <3>2. CASE Send([what |-> "refused"])
      BY <1>1, <1>2, <3>2, SendPuts DEF Answers
    <3>3. CASE UNCHANGED queue
      BY <3>3, PartsKept
    <3> QED
      BY <1>6, <3>1, <3>2, <3>3 DEF Answer
  <2>2. answers' \in Seq({"order", "delete"})
    BY <1>1, <1>6 DEF Answer, OutsideOK
  <2>3. OutsideOK'
    BY <1>1, <1>6, <2>2 DEF Answer, OutsideOK
  <2> QED
    BY <1>6, <2>1, <2>3, PartsKept, PartsNext DEF Answer
<1>7. ASSUME RemovalFails PROVE TypeOK'
  <2>1. QueueOK'
    BY <1>1, <1>2, <1>7, SendPuts DEF RemovalFails, Answers
  <2>2. removals' \in 0 .. MaxRemovals
    BY <1>1, <1>7, ScreenAssumption DEF RemovalFails, OutsideOK
  <2>3. OutsideOK'
    BY <1>1, <1>7, <2>2 DEF RemovalFails, OutsideOK
  <2> QED
    BY <1>7, <2>1, <2>3, PartsKept, PartsNext DEF RemovalFails
<1> QED
  BY <1>3, <1>4, <1>5, <1>6, <1>7 DEF Network

LEMMA RunTakes ==
    ASSUME TypeOK, NEW what, Run(what)
    PROVE  Takes(what) /\ QueueOK' /\ OutsideOK' /\ UNCHANGED outside
<1>1. Dequeue(what) /\ UNCHANGED outside
  BY DEF Run
<1>2. Takes(what)
  BY <1>1, DequeueTakes, TypeParts DEF QueueOK
<1> QED
  BY <1>1, <1>2, PartsKept DEF Takes, QueueOK

LEMMA DrawTypes ==
    ASSUME NEW list \in Seq(Item), NEW n \in Nat, Draw(list, n)
    PROVE  rows' = list /\ rows' \in Seq(Item \cup {Error}) /\ total' \in Nat
BY TotalFacts DEF Draw

LEMMA TypesMainQueue ==
    ASSUME TypeOK, MainQueue
    PROVE  TypeOK'
<1> USE TypeOK
<1>1. /\ OrderOK /\ ShownOK /\ AlertOK
      /\ Dismissed \in Alerts /\ Replaced \in Alerts /\ Messages \subseteq Alerts
  BY TypeParts, AlertFacts DEF AlertOK
<1>2. MaxDays \in Nat /\ 1 \in 0 .. MaxDays /\ 1 \in 1 .. MaxDays
  BY ScreenAssumption
<1>3. ASSUME SetOrder PROVE TypeOK'
  <2>1. Takes("items") /\ QueueOK' /\ OutsideOK'
    BY <1>3, RunTakes DEF SetOrder
  <2>2. Head(blocks).items \in Seq(Item)
    BY <2>1, BlockFacts DEF Takes
  <2>3. items' \in Seq(Item) /\ days' \in 0 .. MaxDays /\ days' \in Nat
    BY <1>1, <1>2, <1>3, <2>2 DEF SetOrder, OrderOK
  <2>4. OrderOK'
    BY <1>1, <1>3, <2>3 DEF SetOrder, OrderOK
  <2>5. ShownOK' /\ AlertOK'
    BY <1>1, <1>3, <2>3, DrawTypes DEF SetOrder, ShownOK, AlertOK
  <2> QED
    BY <2>1, <2>4, <2>5, PartsNext
<1>4. ASSUME PutOrderDone PROVE TypeOK'
  <2>1. QueueOK' /\ OutsideOK'
    BY <1>4, RunTakes DEF PutOrderDone
  <2>2. items' \in Seq(Item) /\ days' \in 0 .. MaxDays /\ days' \in Nat /\ busy' \in BOOLEAN
    <3>1. items' = <<>> /\ days' = 1 /\ busy' = FALSE
      BY <1>4 DEF PutOrderDone
    <3>2. <<>> \in Seq(Item)
      OBVIOUS
    <3> QED
      BY <1>2, <3>1, <3>2
  <2>3. ShownOK' /\ AlertOK'
    BY <1>1, <1>2, <1>4, <2>2, DrawTypes DEF PutOrderDone, ShownOK, AlertOK
  <2>4. OrderOK'
    BY <2>2 DEF OrderOK
  <2> QED
    BY <2>1, <2>3, <2>4, PartsNext
<1>5. ASSUME Failure PROVE TypeOK'
  <2>1. QueueOK' /\ OutsideOK'
    BY <1>5, RunTakes DEF Failure
  <2>2. AlertOK'
    BY <1>1, <1>5 DEF Failure, AlertOK
  <2> QED
    BY <1>5, <2>1, <2>2, PartsKept, PartsNext DEF Failure
<1>6. ASSUME Removed PROVE TypeOK'
  <2>1. QueueOK' /\ OutsideOK'
    BY <1>6, RunTakes DEF Removed
  <2>2. OrderOK'
    BY <1>6, PartsKept DEF Removed
  <2>3. days \in Nat
    BY <1>1, <1>2 DEF OrderOK
  <2>4. ShownOK' /\ AlertOK'
    BY <1>1, <1>6, <2>3, DrawTypes DEF Removed, ShownOK, AlertOK, OrderOK
  <2> QED
    BY <2>1, <2>2, <2>4, PartsNext
<1>7. ASSUME NotRemoved PROVE TypeOK'
  <2>1. QueueOK' /\ OutsideOK'
    BY <1>7, RunTakes DEF NotRemoved
  <2>2. AlertOK'
    BY <1>1, <1>7 DEF NotRemoved, AlertOK
  <2> QED
    BY <1>7, <2>1, <2>2, PartsKept, PartsNext DEF NotRemoved
<1> QED
  BY <1>3, <1>4, <1>5, <1>6, <1>7 DEF MainQueue

LEMMA TypesUser ==
    ASSUME TypeOK, User
    PROVE  TypeOK'
<1> USE TypeOK
<1>1. OutsideOK /\ QueueOK /\ OrderOK /\ ShownOK /\ AlertOK
  BY TypeParts
<1>2. /\ Plain("none") \in Alerts /\ Plain("message") \in Alerts /\ Plain("sending") \in Alerts
      /\ alert.kind = "confirm" => [alert EXCEPT !.kind = "closing"] \in Alerts
  BY <1>1, AlertFacts DEF AlertOK, Alerts, Blocking
<1>3. Between(blocks) => QueueOK'
  BY <1>1, BetweenFacts DEF QueueOK
<1>4. ASSUME NEW i \in DOMAIN rows, DeleteRow(i) PROVE TypeOK'
  <2>1. rows[i] \in Item \cup {Error} /\ i \in Nat
    BY <1>1 DEF ShownOK
  <2>2. rows[i].line \in Lines \cup {NoLine}
    BY <2>1 DEF Item, Error
  <2>3. AlertOK'
    BY <1>4, <2>1, <2>2 DEF DeleteRow, AlertOK, Alerts
  <2> QED
    BY <1>3, <1>4, <2>3, PartsKept, PartsNext DEF DeleteRow
<1>5. ASSUME NEW b \in {"yes", "no", "ok"}, Press(b) PROVE TypeOK'
  <2>1. AlertOK'
    BY <1>2, <1>5 DEF Press, AlertOK
  <2> QED
    BY <1>3, <1>5, <2>1, PartsKept, PartsNext DEF Press
<1>6. ASSUME NEW n \in 1 .. MaxDays, StepperChanged(n) PROVE TypeOK'
  <2>1. MaxDays \in Nat /\ n \in Nat /\ n \in 0 .. MaxDays /\ 0 \in 0 .. MaxDays
    BY ScreenAssumption
  <2>2. /\ items' = items /\ busy' = busy /\ rows' = rows /\ UNCHANGED alert /\ UNCHANGED outside
        /\ days' \in 0 .. MaxDays /\ dayLabel' \in 1 .. MaxDays /\ total' = CountTotal(items, n)
    BY <1>6, <2>1 DEF StepperChanged
  <2>3. total' \in Nat
    BY <1>1, <2>1, <2>2, TotalFacts DEF OrderOK
  <2>4. OrderOK' /\ ShownOK'
    BY <1>1, <2>2, <2>3 DEF OrderOK, ShownOK
  <2>5. Between(blocks)
    BY <1>6 DEF StepperChanged
  <2> QED
    BY <1>3, <2>2, <2>4, <2>5, PartsKept, PartsNext
<1>7. ASSUME PutOrder PROVE TypeOK'
  <2> DEFINE Left == DOMAIN basket \ LinesOf(items)
             deletes == [i \in DOMAIN items |-> "delete"]
  <2>1. answers' \in Seq({"order", "delete"})
    <3>1. deletes \in Seq({"order", "delete"}) /\ <<"order">> \in Seq({"order", "delete"})
      BY <1>1 DEF OrderOK
    <3>2. answers' = answers \o <<"order">> \o deletes
      BY <1>7 DEF PutOrder
    <3> HIDE DEF deletes
    <3> QED
      BY <1>1, <3>1, <3>2 DEF OutsideOK
  <2>2. basket' \in Baskets
    <3>1. PICK S \in SUBSET Lines : basket \in [S -> 1 .. MaxCount]
      BY <1>1 DEF OutsideOK, Baskets
    <3>2. Left \in SUBSET S /\ Left \in SUBSET Lines
      BY <3>1
    <3>3. basket' = [l \in Left |-> basket[l]]
      BY <1>7 DEF PutOrder
    <3> HIDE DEF Left
    <3>4. basket' \in [Left -> 1 .. MaxCount]
      BY <3>1, <3>2, <3>3
    <3> QED
      BY <3>2, <3>4 DEF Baskets
  <2>3. OutsideOK'
    BY <1>1, <1>7, <2>1, <2>2 DEF PutOrder, OutsideOK
  <2>4. OrderOK' /\ AlertOK'
    BY <1>1, <1>2, <1>7 DEF PutOrder, OrderOK, AlertOK
  <2> QED
    BY <1>3, <1>7, <2>3, <2>4, PartsKept, PartsNext DEF PutOrder
<1>8. ASSUME PutNothing PROVE TypeOK'
  <2>1. AlertOK'
    BY <1>2, <1>8 DEF PutNothing, AlertOK
  <2> QED
    BY <1>3, <1>8, <2>1, PartsKept, PartsNext DEF PutNothing
<1> QED
  BY <1>4, <1>5, <1>6, <1>7, <1>8 DEF User

(* A confirmed removal appends its first report, or the app is gone.       *)
LEMMA RemoveCases ==
    ASSUME TypeOK, RemoveFromBasket
    PROVE  /\ UNCHANGED <<basket, changes, listening, heard, answers, days, busy>>
           /\ UNCHANGED shown /\ due = 0
           /\ \/ alert' = Plain("trap") /\ UNCHANGED <<removals, items>> /\ Between(blocks)
              \/ /\ alert' = Plain("wait") /\ removals' \in 0 .. MaxRemovals
                 /\ items' \in Seq(Item) /\ QueueOK' /\ due' = Len(blocks')
                 /\ items # <<>>
                 /\ Puts([what |-> "removed"])
<1>1. OutsideOK /\ QueueOK /\ OrderOK
  BY TypeParts
<1>2. /\ UNCHANGED <<basket, changes, listening, heard, answers, days, busy, shown>>
      /\ alert.kind = "closing"
  BY DEF RemoveFromBasket
<1>3. CASE alert.index \notin DOMAIN items
  <2>1. alert' = Plain("trap") /\ Between(blocks) /\ UNCHANGED <<removals, items>>
    BY <1>3 DEF RemoveFromBasket
  <2> QED
    BY <1>2, <2>1 DEF Between
<1>4. CASE alert.index \in DOMAIN items
  <2>1. /\ removals < MaxRemovals /\ removals' = removals + 1
        /\ items' = RemoveAt(items, alert.index)
        /\ Between(Append(blocks, [what |-> "removed"]))
        /\ alert' = Plain("wait")
    BY <1>4 DEF RemoveFromBasket
  <2>2. removals' \in 0 .. MaxRemovals
    BY <1>1, <2>1, ScreenAssumption DEF OutsideOK
  <2>3. items' \in Seq(Item)
    <3>1. items \in Seq(Item) /\ alert.index \in 1 .. Len(items) /\ Len(items) \in Nat
      BY <1>1, <1>4 DEF OrderOK
    <3>2. SubSeq(items, 1, alert.index - 1) \in Seq(Item)
      BY <3>1
    <3>3. SubSeq(items, alert.index + 1, Len(items)) \in Seq(Item)
      BY <3>1
    <3> QED
      BY <2>1, <3>2, <3>3 DEF RemoveAt
  <2>4. blocks' = Append(blocks, [what |-> "removed"]) /\ due = 0 /\ due' = Len(blocks')
    BY <2>1 DEF Between
  <2>5. [what |-> "removed"] \in Block
    BY DEF Block, Answers
  <2>6. Puts([what |-> "removed"]) /\ blocks' \in Seq(Block) /\ Len(blocks') \in Nat
    <3> DEFINE b == [what |-> "removed"]
    <3>1. b \in Block /\ blocks' = Append(blocks, b)
      BY <2>4, <2>5
    <3> HIDE DEF b
    <3>2. Puts(b)
      BY <1>1, <3>1, AppendPuts DEF QueueOK
    <3>3. blocks' \in Seq(Block)
      BY <3>2 DEF Puts
    <3> QED
      BY <3>2, <3>3 DEF b
  <2>7. QueueOK'
    BY <2>4, <2>6 DEF QueueOK
  <2>8. items # <<>>
    BY <1>4
  <2> QED
    BY <1>2, <2>1, <2>2, <2>3, <2>4, <2>6, <2>7, <2>8
<1> QED
  BY <1>3, <1>4

LEMMA TypesRemove ==
    ASSUME TypeOK, RemoveFromBasket
    PROVE  TypeOK'
<1>1. OutsideOK /\ QueueOK /\ OrderOK
  BY TypeParts
<1>2. Plain("trap") \in Alerts /\ Plain("wait") \in Alerts
  BY DEF Alerts, Blocking
<1>3. AlertOK' /\ ShownOK'
  BY <1>2, RemoveCases, PartsKept DEF AlertOK
<1>4. QueueOK'
  BY <1>1, RemoveCases, BetweenFacts DEF QueueOK
<1>5. OutsideOK' /\ OrderOK'
  BY <1>1, RemoveCases DEF OutsideOK, OrderOK
<1> QED
  BY <1>3, <1>4, <1>5, PartsNext

LEMMA TypesGetItem ==
    ASSUME TypeOK, NEW i \in DOMAIN rows, GetItem(i)
    PROVE  TypeOK'
<1>1. OrderOK /\ ShownOK
  BY TypeParts
<1> DEFINE cell == IF i \in DOMAIN items THEN items[i] ELSE Error
<1>2. cell \in Item \cup {Error}
  BY <1>1 DEF OrderOK
<1>3. rows' = [rows EXCEPT ![i] = cell] /\ UNCHANGED <<outside, queue, order, total, dayLabel, alert>>
  BY DEF GetItem
<1> HIDE DEF cell
<1>4. rows' \in Seq(Item \cup {Error})
  BY <1>1, <1>2, <1>3 DEF ShownOK
<1>5. ShownOK'
  BY <1>1, <1>3, <1>4 DEF ShownOK
<1> QED
  BY <1>3, <1>5, PartsKept, PartsNext

LEMMA StepTypes ==
    ASSUME TypeOK, [Next]_vars
    PROVE  TypeOK'
<1>1. CASE UNCHANGED vars
  <2>1. UNCHANGED outside /\ UNCHANGED queue /\ UNCHANGED order /\ UNCHANGED shown /\ UNCHANGED alert
    BY <1>1 DEF vars, outside, queue, order, shown
  <2> QED
    BY <2>1, PartsKept, PartsNext
<1> QED
  BY <1>1, TypesNetwork, TypesMainQueue, TypesUser, TypesRemove, TypesGetItem DEF Next

LEMMA InitTypes == Init => TypeOK
<1> SUFFICES ASSUME Init PROVE TypeOK
  OBVIOUS
<1>1. MaxDays \in Nat \ {0} /\ MaxChanges \in Nat /\ MaxRemovals \in Nat
  BY ScreenAssumption
<1>2. OutsideOK
  <2>1. basket \in Baskets
    BY DEF Init, Baskets
  <2>2. heard = <<>> /\ answers = <<>> /\ changes = 0 /\ removals = 0 /\ listening = "new"
    BY DEF Init
  <2>3. <<>> \in Seq(Item) /\ <<>> \in Seq({"order", "delete"})
    OBVIOUS
  <2> QED
    BY <1>1, <2>1, <2>2, <2>3 DEF OutsideOK
<1>3. QueueOK
  BY DEF Init, QueueOK
<1>4. OrderOK
  <2>1. items = <<>> /\ days = 0 /\ busy = FALSE
    BY DEF Init
  <2>2. <<>> \in Seq(Item)
    OBVIOUS
  <2> QED
    <3>1. 0 \in 0 .. MaxDays /\ FALSE \in BOOLEAN
      BY <1>1
    <3> QED
      BY Zenon, <2>1, <2>2, <3>1 DEF OrderOK
<1>5. ShownOK
  <2>1. rows = <<>> /\ total = 0 /\ dayLabel = 1
    BY DEF Init
  <2>2. <<>> \in Seq(Item \cup {Error})
    OBVIOUS
  <2> QED
    BY <1>1, <2>1, <2>2 DEF ShownOK
<1>6. AlertOK
  BY DEF Init, AlertOK, Alerts, Blocking
<1> QED
  BY <1>2, <1>3, <1>4, <1>5, <1>6, TypeParts

(* The types hold in every behaviour.                                      *)
THEOREM ScreenTypes == Spec => []TypeOK
<1>1. TypeOK /\ [Next]_vars => TypeOK'
  BY StepTypes
<1> QED
  BY <1>1, InitTypes, PTL DEF Spec

-----------------------------------------------------------------------------
(* What the properties rest on.                                            *)

(* The reports of removals are among the blocks that run before the next   *)
(* event: a tap never meets a removal that is half done.                   *)
ReportsRunFirst == \A i \in Places : blocks[i].what = "removed" => i <= due

(* Behind an error of the listener comes no list any more.                 *)
ErrorIsLast ==
    \A i \in Places : blocks[i].what = "error" =>
        listening = "off" /\ \A j \in Places : j > i => blocks[j].what # "items"

(* Until the first list has arrived nothing is there, and nothing was done;*)
(* either the first alert is still up, or no list will ever come.          *)
NothingYet ==
    days = 0 =>
        /\ items = <<>> /\ rows = <<>> /\ answers = <<>> /\ removals = 0 /\ ~busy
        /\ \A i \in Places : blocks[i].what \in {"items", "error"}
        /\ \/ alert.kind = "loading" /\ dayLabel = 1
           \/ listening = "off" /\ ~Awaited({"items"})

(* While the first alert is up no order is being put.                      *)
LoadingFirst == alert.kind = "loading" => ~busy

LEMMA QueueMoves ==
    ASSUME TypeOK, [Next]_vars
    PROVE  \/ UNCHANGED queue
           \/ due = 0 /\ due' = Len(blocks')
           \/ \E what \in {"items", "placed", "refused", "error", "removed", "notRemoved"} :
                  Takes(what)
           \/ \E b \in Block : b.what # "removed" /\ Puts(b) /\ due' = due
<1>1. QueueOK
  BY TypeParts
<1>2. ASSUME Network
      PROVE  UNCHANGED queue \/ \E b \in Block : b.what # "removed" /\ Puts(b) /\ due' = due
  <2>1. CASE \E l \in Lines, n \in 0 .. MaxCount : Change(l, n)
    BY <2>1 DEF Change
  <2>2. CASE Listen
    <3>1. Listing \in Seq(Item)
      BY TypeParts, ListingFacts DEF OutsideOK
    <3> DEFINE b == [what |-> "items", items |-> Listing]
    <3>2. b \in Block /\ b.what # "removed"
      BY <3>1 DEF Block
    <3>3. Puts(b) /\ due' = due
      BY <1>1, <2>2, <3>2, SendPuts DEF Listen
    <3> QED
      BY <3>2, <3>3
  <2>3. ASSUME NEW k \in {"error", "placed", "refused", "notRemoved"}, Send([what |-> k])
        PROVE  \E b \in Block : b.what # "removed" /\ Puts(b) /\ due' = due
    <3> DEFINE b == [what |-> k]
    <3>1. b \in Block /\ b.what # "removed" /\ Send(b)
      BY <2>3 DEF Block, Answers
    <3> HIDE DEF b
    <3>2. Puts(b) /\ due' = due
      BY <1>1, <3>1, SendPuts
    <3> QED
      BY <3>1, <3>2
  <2>4. CASE ListenFails \/ RemovalFails
    BY <2>3, <2>4 DEF ListenFails, RemovalFails
  <2>5. CASE Answer
    BY <2>3, <2>5 DEF Answer
  <2> QED
    BY <1>2, <2>1, <2>2, <2>4, <2>5 DEF Network
<1>3. ASSUME MainQueue
      PROVE  \E what \in {"items", "placed", "refused", "error", "removed", "notRemoved"} :
                 Takes(what)
  BY <1>3, RunTakes DEF MainQueue, SetOrder, PutOrderDone, Failure, Removed, NotRemoved
<1>4. ASSUME Between(blocks) PROVE due = 0 /\ due' = Len(blocks')
  BY <1>4 DEF Between
<1>5. User => Between(blocks)
  BY DEF User, DeleteRow, Press, StepperChanged, PutOrder, PutNothing
<1>6. ASSUME RemoveFromBasket PROVE due = 0 /\ due' = Len(blocks')
  BY <1>4, <1>6, RemoveCases
<1>7. ASSUME NEW i \in DOMAIN rows, GetItem(i) PROVE UNCHANGED queue
  BY <1>7 DEF GetItem
<1>8. UNCHANGED vars => UNCHANGED queue
  BY DEF vars, queue
<1> QED
  BY <1>2, <1>3, <1>4, <1>5, <1>6, <1>7, <1>8 DEF Next

LEMMA ReportsStep ==
    ASSUME TypeOK, ReportsRunFirst, [Next]_vars
    PROVE  ReportsRunFirst'
<1>1. CASE UNCHANGED queue
  BY <1>1 DEF queue, ReportsRunFirst, Places
<1>2. CASE due = 0 /\ due' = Len(blocks')
  BY <1>2 DEF ReportsRunFirst, Places
<1>3. ASSUME NEW what, Takes(what) PROVE ReportsRunFirst'
  BY <1>3 DEF Takes, ReportsRunFirst
<1>4. ASSUME NEW b \in Block, b.what # "removed", Puts(b), due' = due PROVE ReportsRunFirst'
  <2>1. due \in Nat
    BY TypeParts DEF QueueOK
  <2> QED
    BY <1>4, <2>1 DEF Puts, ReportsRunFirst
<1> QED
  BY <1>1, <1>2, <1>3, <1>4, QueueMoves

(* A completion puts a block of some kind behind the others.               *)
PutsA(k) ==
    /\ \A i \in Places : i \in Places' /\ blocks'[i] = blocks[i]
    /\ \A i \in Places' : i \in Places \/ ((\A j \in Places : j < i) /\ blocks'[i].what = k)
    /\ \A kinds : Awaited(kinds)' <=> Awaited(kinds) \/ k \in kinds

LEMMA PutsKind ==
    ASSUME QueueOK, NEW b, Puts(b)
    PROVE  PutsA(b.what)
<1>1. Len(blocks) \in Nat
  BY DEF QueueOK
<1>2. \A j \in Places : j < Len(blocks) + 1
  BY <1>1 DEF Places
<1>3. \A i \in Places' : i \in Places \/ ((\A j \in Places : j < i) /\ blocks'[i].what = b.what)
  <2>1. \A i \in Places' : i \in Places \/ (i = Len(blocks) + 1 /\ blocks'[i] = b)
    BY DEF Puts
  <2> QED
    BY <1>2, <2>1
<1> QED
  BY <1>3 DEF Puts, PutsA

LEMMA SendKind ==
    ASSUME QueueOK, NEW k \in Answers, Send([what |-> k])
    PROVE  PutsA(k)
<1> DEFINE b == [what |-> k]
<1>1. b \in Block /\ b.what = k /\ Send(b)
  BY DEF Block
<1> HIDE DEF b
<1>2. Puts(b)
  BY <1>1, SendPuts
<1> QED
  BY <1>1, <1>2, PutsKind

(* What the network does to the app: it puts blocks.                       *)
LEMMA NetworkMoves ==
    ASSUME TypeOK, Network
    PROVE  /\ UNCHANGED order /\ UNCHANGED shown /\ UNCHANGED alert
           /\ \/ UNCHANGED queue /\ UNCHANGED <<listening, answers, removals>>
              \/ listening # "off" /\ listening' = "on" /\ PutsA("items") /\ UNCHANGED <<answers, removals>>
              \/ listening # "off" /\ listening' = "off" /\ PutsA("error") /\ UNCHANGED <<answers, removals>>
              \/ /\ answers # <<>> /\ answers' = Tail(answers) /\ UNCHANGED <<listening, removals>>
                 /\ \/ UNCHANGED queue /\ Head(answers) = "delete"
                    \/ PutsA("placed") \/ PutsA("refused")
              \/ removals > 0 /\ PutsA("notRemoved") /\ UNCHANGED <<listening, answers>>
<1>1. QueueOK
  BY TypeParts
<1>2. CASE \E l \in Lines, n \in 0 .. MaxCount : Change(l, n)
  BY <1>2 DEF Change
<1>3. CASE Listen
  <2>1. Listing \in Seq(Item)
    BY TypeParts, ListingFacts DEF OutsideOK
  <2> DEFINE b == [what |-> "items", items |-> Listing]
  <2>2. b \in Block /\ b.what = "items" /\ Send(b)
    BY <1>3, <2>1 DEF Block, Listen
  <2> HIDE DEF b
  <2>3. PutsA("items")
    BY <1>1, <2>2, SendPuts, PutsKind
  <2>4. listening # "off" /\ listening' = "on"
    BY <1>3 DEF Listen
  <2> QED
    BY <1>3, <2>3, <2>4 DEF Listen
<1>4. CASE ListenFails
  <2>1. PutsA("error")
    BY <1>1, <1>4, SendKind DEF ListenFails, Answers
  <2> QED
    BY <1>4, <2>1 DEF ListenFails
<1>5. CASE Answer
  <2>1. \A k \in {"placed", "refused"} : Send([what |-> k]) => PutsA(k)
    BY <1>1, SendKind DEF Answers
  <2> QED
    BY <1>5, <2>1 DEF Answer
<1>6. CASE RemovalFails
  <2>1. PutsA("notRemoved")
    BY <1>1, <1>6, SendKind DEF RemovalFails, Answers
  <2> QED
    BY <1>6, <2>1 DEF RemovalFails
<1> QED
  BY <1>2, <1>3, <1>4, <1>5, <1>6 DEF Network

(* An event leaves the queue as it is.                                     *)
LEMMA UserMoves ==
    ASSUME TypeOK, User
    PROVE  /\ due = 0 /\ blocks' = blocks /\ Places' = Places
           /\ \A kinds : Awaited(kinds)' <=> Awaited(kinds)
           /\ UNCHANGED <<listening, removals>>
<1>1. Between(blocks) /\ UNCHANGED <<listening, removals>>
  BY DEF User, DeleteRow, Press, StepperChanged, PutOrder, PutNothing, outside
<1> QED
  BY <1>1, TypeParts, BetweenFacts DEF QueueOK

LEMMA RemoveMoves ==
    ASSUME TypeOK, RemoveFromBasket
    PROVE  /\ UNCHANGED <<listening, answers, days, busy>> /\ UNCHANGED shown /\ due = 0
           /\ \/ /\ alert' = Plain("trap") /\ UNCHANGED <<removals, items>>
                 /\ blocks' = blocks /\ Places' = Places
                 /\ \A kinds : Awaited(kinds)' <=> Awaited(kinds)
              \/ alert' = Plain("wait") /\ items # <<>> /\ PutsA("removed")
<1>1. QueueOK
  BY TypeParts
<1>2. CASE alert' = Plain("trap") /\ UNCHANGED <<removals, items>> /\ Between(blocks)
  BY <1>1, <1>2, RemoveCases, BetweenFacts DEF QueueOK
<1>3. CASE alert' = Plain("wait") /\ items # <<>> /\ Puts([what |-> "removed"])
  <2>1. PutsA("removed")
    <3> DEFINE b == [what |-> "removed"]
    <3>1. PutsA(b.what)
      BY <1>1, <1>3, PutsKind
    <3> QED
      BY <3>1
  <2> QED
    BY <1>3, <2>1, RemoveCases
<1> QED
  BY <1>2, <1>3, RemoveCases

LEMMA ErrorStep ==
    ASSUME TypeOK, ErrorIsLast, [Next]_vars
    PROVE  ErrorIsLast'
<1>1. ASSUME blocks' = blocks, listening' = listening PROVE ErrorIsLast'
  BY <1>1 DEF ErrorIsLast, Places
<1>2. ASSUME NEW what, Takes(what), listening' = listening PROVE ErrorIsLast'
  <2>1. \A i \in Places' : i + 1 \in Places /\ blocks'[i] = blocks[i + 1] /\ i \in Nat
    BY <1>2 DEF Takes, Places
  <2>2. \A i, j \in Places' : j > i => j + 1 > i + 1
    BY <2>1
  <2> QED
    BY <1>2, <2>1, <2>2 DEF ErrorIsLast
<1>3. ASSUME NEW k \in {"placed", "refused", "notRemoved", "removed"}, PutsA(k), listening' = listening
      PROVE  ErrorIsLast'
  <2>1. \A i \in Places' : (i \in Places /\ blocks'[i] = blocks[i]) \/ blocks'[i].what = k
    BY <1>3 DEF PutsA
  <2> QED
    BY <1>3, <2>1 DEF ErrorIsLast
<1>4. ASSUME listening # "off", NEW k \in {"items", "error"}, PutsA(k),
             k = "error" => listening' = "off"
      PROVE  ErrorIsLast'
  <2>1. \A i \in Places : blocks[i].what # "error" /\ i \in Nat
    BY <1>4 DEF ErrorIsLast, Places
  <2>2. \A i \in Places' : \/ i \in Places /\ blocks'[i] = blocks[i]
                           \/ (\A j \in Places : j < i) /\ blocks'[i].what = k
    BY <1>4 DEF PutsA
  <2>3. \A i \in Places' : i \in Nat
    BY DEF Places
  <2> QED
    BY <1>4, <2>1, <2>2, <2>3 DEF ErrorIsLast
<1>5. CASE Network
  BY <1>1, <1>3, <1>4, <1>5, NetworkMoves DEF queue
<1>6. CASE MainQueue
  <2>1. \E what : Takes(what) /\ UNCHANGED outside
    BY <1>6, RunTakes DEF MainQueue, SetOrder, PutOrderDone, Failure, Removed, NotRemoved
  <2> QED
    BY <1>2, <2>1 DEF outside
<1>7. CASE User
  BY <1>1, <1>7, UserMoves
<1>8. CASE RemoveFromBasket
  BY <1>1, <1>3, <1>8, RemoveMoves
<1>9. ASSUME NEW i \in DOMAIN rows, GetItem(i) PROVE ErrorIsLast'
  BY <1>1, <1>9 DEF GetItem, outside, queue
<1>10. CASE UNCHANGED vars
  BY <1>1, <1>10 DEF vars
<1> QED
  BY <1>5, <1>6, <1>7, <1>8, <1>9, <1>10 DEF Next

LEMMA FailureMoves ==
    ASSUME TypeOK, Failure
    PROVE  /\ Takes("refused") \/ Takes("error")
           /\ UNCHANGED outside /\ UNCHANGED order /\ UNCHANGED shown
           /\ alert' \in Alerts /\ alert'.kind \in {"none", "message", "closing"}
<1>1. \A k \in {"none", "message"} : Plain(k) \in Alerts /\ Plain(k).kind = k
  BY DEF Plain, Alerts
<1>2. alert \in Alerts
  BY TypeParts DEF AlertOK
<1>3. Replaced = alert => alert.kind \in {"none", "message", "closing"}
  BY <1>1 DEF Replaced
<1>4. Replaced # alert => Replaced = Plain("message")
  BY DEF Replaced
<1>5. alert' \in IF Replaced = alert THEN Messages ELSE {Replaced}
  BY DEF Failure
<1>6. alert' \in Alerts /\ alert'.kind \in {"none", "message", "closing"}
  BY <1>1, <1>2, <1>3, <1>4, <1>5 DEF Messages
<1> QED
  BY <1>6, RunTakes DEF Failure

(* The first block of the queue is one of those in it.                     *)
LEMMA TakenFirst ==
    ASSUME NEW what, Takes(what)
    PROVE  /\ 1 \in Places /\ blocks[1].what = what
           /\ \A i \in Places' : i + 1 \in Places /\ blocks'[i] = blocks[i + 1] /\ i + 1 > 1
<1>1. 1 \in Places /\ blocks[1].what = what
  BY DEF Takes
<1>2. \A i \in Places' : i + 1 > 1
  BY DEF Places
<1>3. \A i \in Places' : i + 1 \in Places /\ blocks'[i] = blocks[i + 1]
  BY DEF Takes
<1> QED
  BY <1>1, <1>2, <1>3

LEMMA NothingStep ==
    ASSUME TypeOK, ErrorIsLast, NothingYet, [Next]_vars
    PROVE  NothingYet'
<1> SUFFICES ASSUME days' = 0 PROVE NothingYet'
  BY DEF NothingYet
<1>1. CASE days # 0
  <2>1. CASE MainQueue
    BY <1>1, <2>1 DEF MainQueue, SetOrder, PutOrderDone, Failure, Removed, NotRemoved, order
  <2>2. CASE User
    <3>1. \A n \in 1 .. MaxDays : n # 0
      OBVIOUS
    <3> QED
      BY <1>1, <2>2, <3>1 DEF User, DeleteRow, Press, StepperChanged, PutOrder, PutNothing, order
  <2>3. CASE Network
    BY <1>1, <2>3, NetworkMoves DEF order
  <2>4. CASE RemoveFromBasket
    BY <1>1, <2>4 DEF RemoveFromBasket
  <2>5. CASE \E i \in DOMAIN rows : GetItem(i)
    BY <1>1, <2>5 DEF GetItem, order
  <2>6. CASE UNCHANGED vars
    BY <1>1, <2>6 DEF vars
  <2> QED
    BY <2>1, <2>2, <2>3, <2>4, <2>5, <2>6 DEF Next
<1>2. CASE days = 0
  <2>1. /\ items = <<>> /\ rows = <<>> /\ answers = <<>> /\ removals = 0 /\ ~busy
        /\ \A i \in Places : blocks[i].what \in {"items", "error"}
        /\ (alert.kind = "loading" /\ dayLabel = 1) \/ (listening = "off" /\ ~Awaited({"items"}))
    BY <1>2 DEF NothingYet
  <2> DEFINE Empty == items' = <<>> /\ rows' = <<>> /\ answers' = <<>> /\ removals' = 0 /\ ~busy'
             Early == \A i \in Places' : blocks'[i].what \in {"items", "error"}
             Wait == (alert'.kind = "loading" /\ dayLabel' = 1) \/ (listening' = "off" /\ ~Awaited({"items"})')
  <2>2. SUFFICES Empty /\ Early /\ Wait
    BY DEF NothingYet
  <2>3. CASE UNCHANGED vars
    <3>1. Empty
      BY <2>1, <2>3 DEF vars
    <3>2. Early
      BY <2>1, <2>3 DEF vars, Places
    <3>3. Wait
      BY <2>1, <2>3 DEF vars, Awaited
    <3> QED
      BY <3>1, <3>2, <3>3
  <2>4. CASE Network
    <3>1. UNCHANGED <<answers, removals>>
      BY <2>1, <2>4, NetworkMoves
    <3>2. UNCHANGED order /\ UNCHANGED shown /\ UNCHANGED alert
      BY <2>4, NetworkMoves
    <3>3. Empty
      BY <2>1, <3>1, <3>2 DEF order, shown
    <3>4. \/ UNCHANGED queue /\ listening' = listening
          \/ listening # "off" /\ (PutsA("items") \/ PutsA("error"))
      BY <2>1, <2>4, NetworkMoves
    <3>5. CASE UNCHANGED queue /\ listening' = listening
      <4>1. Early
        BY <2>1, <3>5 DEF queue, Places
      <4>2. Wait
        BY <2>1, <3>2, <3>5 DEF queue, Awaited, shown
      <4> QED
        BY <3>3, <4>1, <4>2
    <3>6. ASSUME listening # "off", NEW k \in {"items", "error"}, PutsA(k) PROVE Early /\ Wait
      <4>1. Early
        BY <2>1, <3>6 DEF PutsA
      <4>2. Wait
        BY <2>1, <3>2, <3>6 DEF shown
      <4> QED
        BY <4>1, <4>2
    <3> QED
      BY <3>3, <3>4, <3>5, <3>6
  <2>5. CASE MainQueue
    <3>1. CASE SetOrder
      BY <3>1 DEF SetOrder
    <3>2. CASE PutOrderDone
      BY <3>2 DEF PutOrderDone
    <3>3. CASE Failure
      <4>1. /\ Takes("refused") \/ Takes("error")
            /\ UNCHANGED outside /\ UNCHANGED order /\ UNCHANGED shown
        BY <3>3, FailureMoves
      <4>2. Takes("error")
        BY <2>1, <4>1, TakenFirst
      <4>3. Empty
        BY <2>1, <4>1 DEF outside, order, shown
      <4>4. Early
        BY <2>1, <4>2, TakenFirst
      <4>5. listening = "off" /\ \A i \in Places : i > 1 => blocks[i].what # "items"
        BY <4>2, TakenFirst DEF ErrorIsLast
      <4>6. \A i \in Places' : blocks'[i].what # "items"
        BY <4>2, <4>5, TakenFirst
      <4>7. DOMAIN blocks' = Places'
        BY <4>2 DEF Takes, Places
      <4>8. Wait
        BY <4>1, <4>5, <4>6, <4>7 DEF outside, Awaited
      <4> QED
        BY <4>3, <4>4, <4>8
    <3>4. ASSUME NEW k \in {"removed", "notRemoved"}, Run(k) PROVE FALSE
      BY <2>1, <3>4, RunTakes, TakenFirst
    <3> QED
      BY <2>5, <3>1, <3>2, <3>3, <3>4 DEF MainQueue, Removed, NotRemoved
  <2>6. CASE User
    <3>1. alert.kind # "loading" /\ UNCHANGED <<items, rows, answers, removals, busy>>
      <4>1. DOMAIN rows = {} /\ Plain("none").kind # "loading"
        BY <2>1 DEF Plain
      <4>2. ~PutOrder
        BY <2>1 DEF PutOrder
      <4> QED
        BY <2>6, <4>1, <4>2 DEF User, DeleteRow, Press, StepperChanged, PutNothing, outside, order, shown
    <3>2. Empty
      BY <2>1, <3>1
    <3>3. Early
      BY <2>1, <2>6, UserMoves
    <3>4. Wait
      BY <2>1, <2>6, <3>1, UserMoves
    <3> QED
      BY <3>2, <3>3, <3>4
  <2>7. CASE RemoveFromBasket
    <3>1. /\ UNCHANGED <<listening, answers, busy>> /\ UNCHANGED shown
          /\ UNCHANGED <<removals, items>> /\ blocks' = blocks /\ Places' = Places
          /\ \A kinds : Awaited(kinds)' <=> Awaited(kinds)
      BY <2>1, <2>7, RemoveMoves
    <3>2. alert.kind # "loading"
      BY <2>7 DEF RemoveFromBasket
    <3>3. Empty
      BY <2>1, <3>1 DEF shown
    <3>4. Early
      BY <2>1, <3>1
    <3>5. Wait
      BY <2>1, <3>1, <3>2
    <3> QED
      BY <3>3, <3>4, <3>5
  <2>8. CASE \E i \in DOMAIN rows : GetItem(i)
    BY <2>1, <2>8
  <2> QED
    BY <2>3, <2>4, <2>5, <2>6, <2>7, <2>8 DEF Next
<1> QED
  BY <1>1, <1>2

-----------------------------------------------------------------------------
(* The properties, step by step.                                           *)

LEMMA RemovingAwaited == (Removing <=> Awaited({"removed"})) /\ (Removing' <=> Awaited({"removed"})')
BY DEF Removing, Awaited

LEMMA TableStep ==
    ASSUME TypeOK, NothingYet, TableIsTheOrder, [Next]_vars
    PROVE  TableIsTheOrder'
<1> SUFFICES ASSUME ~busy', ~Removing'
             PROVE  rows' = items' /\ total' = CountTotal(items', days')
  BY DEF TableIsTheOrder
<1>1. ~busy /\ ~Removing => rows = items /\ total = CountTotal(items, days)
  BY DEF TableIsTheOrder
<1>2. CASE Network
  <2>1. UNCHANGED order /\ UNCHANGED shown
    BY <1>2, NetworkMoves
  <2>2. UNCHANGED queue \/ \E k : PutsA(k)
    BY <1>2, NetworkMoves
  <2>3. ~Removing
    BY <2>2, RemovingAwaited DEF PutsA, queue, Awaited
  <2> QED
    BY <1>1, <2>1, <2>3 DEF order, shown
<1>3. CASE MainQueue
  <2>1. CASE SetOrder
    <3>1. Draw(items', days')
      BY <2>1 DEF SetOrder
    <3> QED
      BY <3>1 DEF Draw
  <2>2. CASE PutOrderDone
    <3>1. Draw(items', days')
      BY <2>2 DEF PutOrderDone
    <3> QED
      BY <3>1 DEF Draw
  <2>3. CASE Removed
    <3>1. Draw(items, days) /\ items' = items /\ days' = days
      BY <2>3 DEF Removed, order
    <3> QED
      BY <3>1 DEF Draw
  <2>4. ASSUME NEW what \in {"refused", "error", "notRemoved"}, Run(what), UNCHANGED order, UNCHANGED shown
        PROVE  rows' = items' /\ total' = CountTotal(items', days')
    <3>1. Takes(what)
      BY <2>4, RunTakes
    <3>2. ~Removing
      BY <3>1, RemovingAwaited DEF Takes
    <3> QED
      BY <1>1, <2>4, <3>2 DEF order, shown
  <2> QED
    BY <1>3, <2>1, <2>2, <2>3, <2>4 DEF MainQueue, Failure, NotRemoved
<1>4. CASE User
  <2>1. ~Removing
    BY <1>4, UserMoves, RemovingAwaited
  <2>2. CASE \E n \in 1 .. MaxDays : StepperChanged(n)
    <3>1. PICK n \in 1 .. MaxDays : StepperChanged(n)
      BY <2>2
    <3>2. /\ items' = items /\ busy' = busy /\ rows' = rows /\ total' = CountTotal(items, n)
          /\ days' = IF days = 0 THEN 0 ELSE n
      BY <3>1 DEF StepperChanged
    <3>3. CASE days = 0
      <4>1. items = <<>> /\ n \in Nat /\ 0 \in Nat /\ items \in Seq(Item)
        BY <3>3, TypeParts DEF NothingYet, OrderOK
      <4>2. CountTotal(items, n) = 0 /\ CountTotal(items, 0) = 0
        BY <4>1, TotalFacts
      <4> QED
        BY <1>1, <2>1, <3>2, <3>3, <4>2
    <3> QED
      BY <1>1, <2>1, <3>2, <3>3
  <2>3. CASE PutOrder
    BY <2>3 DEF PutOrder
  <2> QED
    BY <1>1, <1>4, <2>1, <2>2, <2>3 DEF User, DeleteRow, Press, PutNothing, order, shown
<1>5. CASE RemoveFromBasket
  <2>1. ~PutsA("removed")
    BY RemovingAwaited DEF PutsA
  <2>2. ~Removing /\ items' = items
    BY <1>5, <2>1, RemoveMoves, RemovingAwaited
  <2> QED
    BY <1>1, <1>5, <2>2, RemoveMoves DEF shown
<1>6. ASSUME NEW i \in DOMAIN rows, GetItem(i)
      PROVE  rows' = items' /\ total' = CountTotal(items', days')
  <2>1. ~busy /\ ~Removing
    BY <1>6 DEF GetItem, queue, order, Removing
  <2>2. rows = items /\ items \in Seq(Item) /\ i \in DOMAIN items
    BY <1>1, <1>6, <2>1, TypeParts DEF OrderOK
  <2>3. rows' = [rows EXCEPT ![i] = rows[i]] /\ rows' # rows
    BY <1>6, <2>2 DEF GetItem
  <2> QED
    BY <2>2, <2>3
<1>7. CASE UNCHANGED vars
  <2>1. ~busy /\ ~Removing
    BY <1>7 DEF vars, Removing
  <2> QED
    BY <1>1, <1>7, <2>1 DEF vars
<1> QED
  BY <1>2, <1>3, <1>4, <1>5, <1>6, <1>7 DEF Next

LEMMA DaysStep ==
    ASSUME TypeOK, NothingYet, DaysAreShown, [Next]_vars
    PROVE  DaysAreShown'
<1>1. CASE Network
  BY <1>1, NetworkMoves DEF order, shown, DaysAreShown
<1>2. CASE SetOrder
  <2>1. Awaited({"items"})
    BY <1>2, RunTakes DEF SetOrder, Takes
  <2>2. days = 0 => dayLabel = 1
    BY <2>1 DEF NothingYet
  <2> QED
    BY <1>2, <2>2 DEF SetOrder, DaysAreShown
<1>3. CASE PutOrderDone
  BY <1>3 DEF PutOrderDone, DaysAreShown
<1>4. CASE Failure \/ Removed \/ NotRemoved
  BY <1>4 DEF Failure, Removed, NotRemoved, order, shown, DaysAreShown
<1>5. CASE User
  BY <1>5 DEF User, DeleteRow, Press, StepperChanged, PutOrder, PutNothing, order, shown, DaysAreShown
<1>6. CASE RemoveFromBasket
  BY <1>6, RemoveMoves DEF shown, DaysAreShown
<1>7. CASE \E i \in DOMAIN rows : GetItem(i)
  BY <1>7 DEF GetItem, order, DaysAreShown
<1>8. CASE UNCHANGED vars
  BY <1>8 DEF vars, DaysAreShown
<1> QED
  BY <1>1, <1>2, <1>3, <1>4, <1>5, <1>6, <1>7, <1>8 DEF Next, MainQueue

LEMMA LoadingStep ==
    ASSUME TypeOK, LoadingFirst, [Next]_vars
    PROVE  LoadingFirst'
<1>1. CASE Network
  BY <1>1, NetworkMoves DEF order, LoadingFirst
<1>2. CASE SetOrder
  <2>1. Dismissed.kind = "loading" => alert.kind = "loading"
    BY DEF Dismissed, Plain
  <2> QED
    BY <1>2, <2>1 DEF SetOrder, LoadingFirst
<1>3. CASE PutOrderDone
  BY <1>3 DEF PutOrderDone, LoadingFirst
<1>4. CASE Failure
  BY <1>4, FailureMoves DEF LoadingFirst
<1>5. CASE Removed \/ NotRemoved
  <2>1. Replaced.kind # "loading"
    BY DEF Replaced, Plain
  <2> QED
    BY <1>5, <2>1 DEF Removed, NotRemoved, LoadingFirst
<1>6. CASE User
  <2>1. \A k : Plain(k).kind = k
    BY DEF Plain
  <2>2. alert \in Alerts
    BY TypeParts DEF AlertOK
  <2>3. [alert EXCEPT !.kind = "closing"].kind = "closing"
    BY <2>2 DEF Alerts, Plain
  <2>4. alert'.kind # "loading"
    <3>1. CASE \E b \in {"yes", "no", "ok"} : Press(b)
      BY <2>1, <2>3, <3>1 DEF Press
    <3>2. CASE \E i \in DOMAIN rows : DeleteRow(i)
      BY <3>2 DEF DeleteRow
    <3>3. CASE PutOrder \/ PutNothing
      BY <2>1, <3>3 DEF PutOrder, PutNothing
    <3>4. CASE \E n \in 1 .. MaxDays : StepperChanged(n)
      BY <2>1, <3>4 DEF StepperChanged
    <3> QED
      BY <1>6, <3>1, <3>2, <3>3, <3>4 DEF User
  <2> QED
    BY <2>4 DEF LoadingFirst
<1>7. CASE RemoveFromBasket
  BY <1>7, RemoveMoves DEF Plain, LoadingFirst
<1>8. CASE \E i \in DOMAIN rows : GetItem(i)
  BY <1>8 DEF GetItem, order, LoadingFirst
<1>9. CASE UNCHANGED vars
  BY <1>9 DEF vars, LoadingFirst
<1> QED
  BY <1>1, <1>2, <1>3, <1>4, <1>5, <1>6, <1>7, <1>8, <1>9 DEF Next, MainQueue

(* Only a tap brings the dialog up; it is gone when the order changes.     *)
LEMMA ConfirmStep ==
    ASSUME TypeOK, ReportsRunFirst, TableIsTheOrder, ConfirmedIndexStands, [Next]_vars
    PROVE  ConfirmedIndexStands'
<1> SUFFICES ASSUME alert'.kind = "confirm", ~busy'
             PROVE  alert'.index \in DOMAIN items' /\ items'[alert'.index].line = alert'.line
  BY DEF ConfirmedIndexStands
<1>1. alert.kind = "confirm" /\ ~busy =>
          alert.index \in DOMAIN items /\ items[alert.index].line = alert.line
  BY DEF ConfirmedIndexStands
<1>2. \A k : Plain(k).kind = k
  BY DEF Plain
<1>3. CASE UNCHANGED <<alert, items, busy>>
  BY <1>1, <1>3
<1>4. CASE Network
  BY <1>3, <1>4, NetworkMoves DEF order
<1>5. CASE SetOrder
  <2>1. ~busy /\ alert' = Dismissed
    BY <1>5 DEF SetOrder
  <2> QED
    BY <1>2, <2>1 DEF Dismissed
<1>6. CASE PutOrderDone
  BY <1>2, <1>6 DEF PutOrderDone, Messages
<1>7. CASE Failure
  BY <1>7, FailureMoves
<1>8. CASE Removed \/ NotRemoved
  <2>1. alert' = Replaced
    BY <1>8 DEF Removed, NotRemoved
  <2> QED
    BY <1>2, <2>1 DEF Replaced
<1>9. ASSUME NEW i \in DOMAIN rows, DeleteRow(i)
      PROVE  alert'.index \in DOMAIN items' /\ items'[alert'.index].line = alert'.line
  <2>1. User
    BY <1>9 DEF User
  <2>2. ~Removing
    BY <2>1, UserMoves DEF Removing, ReportsRunFirst, Places, QueueOK, TypeOK
  <2>3. ~busy /\ items' = items
    BY <1>9 DEF DeleteRow, order
  <2>4. rows = items
    BY <2>2, <2>3 DEF TableIsTheOrder
  <2>5. alert'.index = i /\ alert'.line = rows[i].line
    BY <1>9 DEF DeleteRow
  <2> QED
    BY <2>3, <2>4, <2>5
<1>10. ASSUME NEW b \in {"yes", "no", "ok"}, Press(b) PROVE FALSE
  <2>1. [alert EXCEPT !.kind = "closing"].kind = "closing"
    BY TypeParts DEF AlertOK, Alerts, Plain
  <2> QED
    BY <1>2, <1>10, <2>1 DEF Press
<1>11. CASE PutOrder \/ PutNothing
  BY <1>2, <1>11 DEF PutOrder, PutNothing
<1>12. ASSUME NEW n \in 1 .. MaxDays, StepperChanged(n) PROVE UNCHANGED <<alert, items, busy>>
  BY <1>12 DEF StepperChanged
<1>13. CASE RemoveFromBasket
  BY <1>2, <1>13, RemoveMoves
<1>14. CASE \E i \in DOMAIN rows : GetItem(i)
  BY <1>3, <1>14 DEF GetItem, order
<1>15. CASE UNCHANGED vars
  BY <1>3, <1>15 DEF vars
<1> QED
  BY <1>3, <1>4, <1>5, <1>6, <1>7, <1>8, <1>9, <1>10, <1>11, <1>12, <1>13, <1>14, <1>15
     DEF Next, MainQueue, User

(* Something that closes an alert is taken from the queue only when it     *)
(* closes it.                                                              *)
LEMMA AlertsStep ==
    ASSUME TypeOK, LoadingFirst, BlockingAlertsClose, [Next]_vars
    PROVE  BlockingAlertsClose'
<1> DEFINE Loads == alert.kind = "loading" => listening = "new" \/ Awaited({"items", "error"})
           Waits == alert.kind = "wait" => Awaited({"removed"})
           Sends == alert.kind = "sending" => \/ \E i \in DOMAIN answers : answers[i] = "order"
                                              \/ Awaited({"placed", "refused"})
<1>1. Loads /\ Waits /\ Sends
  BY DEF BlockingAlertsClose
<1>2. \A k : Plain(k).kind = k
  BY DEF Plain
<1>3. CASE UNCHANGED <<alert, listening, answers>> /\ \A kinds : Awaited(kinds) => Awaited(kinds)'
  BY <1>1, <1>3 DEF BlockingAlertsClose
<1>4. ASSUME alert'.kind \notin Blocking PROVE BlockingAlertsClose'
  BY <1>4 DEF BlockingAlertsClose, Blocking
<1>5. CASE Network
  <2>1. UNCHANGED alert
    BY <1>5, NetworkMoves
  <2>2. CASE UNCHANGED queue /\ UNCHANGED <<listening, answers, removals>>
    BY <1>3, <2>1, <2>2 DEF queue, Awaited
  <2>3. ASSUME NEW k \in {"items", "error", "notRemoved"}, PutsA(k), UNCHANGED answers,
               k = "notRemoved" => listening' = listening
        PROVE  BlockingAlertsClose'
    <3>1. \A kinds : Awaited(kinds)' <=> Awaited(kinds) \/ k \in kinds
      BY <2>3 DEF PutsA
    <3> QED
      BY <1>1, <2>1, <2>3, <3>1 DEF BlockingAlertsClose
  <2>4. CASE /\ answers # <<>> /\ answers' = Tail(answers) /\ UNCHANGED <<listening, removals>>
             /\ \/ UNCHANGED queue /\ Head(answers) = "delete"
                \/ PutsA("placed") \/ PutsA("refused")
    <3>1. \A kinds : Awaited(kinds) => Awaited(kinds)'
      BY <2>4 DEF PutsA, queue, Awaited
    <3>2. (Loads /\ Waits)'
      BY <1>1, <2>1, <2>4, <3>1
    <3>3. Sends'
      <4>1. CASE PutsA("placed") \/ PutsA("refused")
        BY <4>1 DEF PutsA
      <4>2. CASE Head(answers) = "delete"
        <5>1. answers \in Seq({"order", "delete"})
          BY TypeParts DEF OutsideOK
        <5>2. \A i \in DOMAIN answers : answers[i] = "order" => \E j \in DOMAIN answers' : answers'[j] = "order"
          <6> TAKE i \in DOMAIN answers
          <6>1. DOMAIN answers = 1 .. Len(answers) /\ DOMAIN answers' = 1 .. Len(Tail(answers))
            BY <2>4, <5>1
          <6>2. i # 1 => i - 1 \in DOMAIN answers' /\ answers'[i - 1] = answers[i]
            BY <2>4, <5>1, <6>1, TailFacts
          <6>3. answers[1] = "delete"
            BY <2>4, <4>2, <5>1, TailFacts
          <6> QED
            BY <6>2, <6>3
        <5> QED
          BY <1>1, <2>1, <3>1, <5>2
      <4> QED
        BY <2>4, <4>1, <4>2
    <3> QED
      BY <3>2, <3>3 DEF BlockingAlertsClose
  <2> QED
    BY <1>5, <2>2, <2>3, <2>4, NetworkMoves
<1>6. CASE MainQueue
  <2>1. CASE SetOrder
    <3>1. Takes("items") /\ UNCHANGED outside
      BY <2>1, RunTakes DEF SetOrder
    <3>2. CASE busy
      <4>1. UNCHANGED alert /\ alert.kind # "loading"
        BY <2>1, <3>2 DEF SetOrder, LoadingFirst
      <4>2. Awaited({"removed"}) => Awaited({"removed"})'
        BY <3>1 DEF Takes
      <4>3. Awaited({"placed", "refused"}) => Awaited({"placed", "refused"})'
        BY <3>1 DEF Takes
      <4> QED
        BY <1>1, <3>1, <4>1, <4>2, <4>3 DEF BlockingAlertsClose, outside
    <3>3. CASE ~busy
      <4>1. alert' = Dismissed
        BY <2>1, <3>3 DEF SetOrder
      <4> QED
        BY <1>2, <1>4, <4>1 DEF Dismissed, Blocking
    <3> QED
      BY <3>2, <3>3
  <2>2. CASE PutOrderDone
    BY <1>2, <1>4, <2>2 DEF PutOrderDone, Messages, Blocking
  <2>3. CASE Failure
    BY <1>4, <2>3, FailureMoves DEF Blocking
  <2>4. CASE Removed \/ NotRemoved
    <3>1. alert' = Replaced
      BY <2>4 DEF Removed, NotRemoved
    <3> QED
      BY <1>2, <1>4, <3>1 DEF Replaced, Blocking
  <2> QED
    BY <1>6, <2>1, <2>2, <2>3, <2>4 DEF MainQueue
<1>7. ASSUME NEW i \in DOMAIN rows, DeleteRow(i) PROVE alert'.kind \notin Blocking
  BY <1>7 DEF DeleteRow, Blocking
<1>8. ASSUME NEW b \in {"yes", "no", "ok"}, Press(b) PROVE alert'.kind \notin Blocking
  <2>1. [alert EXCEPT !.kind = "closing"].kind = "closing"
    BY TypeParts DEF AlertOK, Alerts, Plain
  <2> QED
    BY <1>2, <1>8, <2>1 DEF Press, Blocking
<1>9. CASE PutOrder
  <2>1. alert'.kind = "sending"
    BY <1>2, <1>9 DEF PutOrder
  <2>2. \E i \in DOMAIN answers' : answers'[i] = "order"
    <3> DEFINE deletes == [i \in DOMAIN items |-> "delete"]
    <3>1. answers \in Seq({"order", "delete"}) /\ deletes \in Seq({"order", "delete"})
      BY TypeParts DEF OutsideOK, OrderOK
    <3>2. answers' = answers \o <<"order">> \o deletes
      BY <1>9 DEF PutOrder
    <3> HIDE DEF deletes
    <3>3. answers'[Len(answers) + 1] = "order" /\ Len(answers) + 1 \in DOMAIN answers'
      BY <3>1, <3>2
    <3> QED
      BY <3>3
  <2> QED
    BY <2>1, <2>2 DEF BlockingAlertsClose
<1>10. CASE PutNothing
  BY <1>2, <1>4, <1>10 DEF PutNothing, Blocking
<1>11. ASSUME NEW n \in 1 .. MaxDays, StepperChanged(n) PROVE alert'.kind \notin Blocking
  BY <1>2, <1>11 DEF StepperChanged, Blocking
<1>12. CASE RemoveFromBasket
  <2>1. CASE alert' = Plain("trap")
    BY <1>2, <1>4, <2>1 DEF Blocking
  <2>2. CASE alert' = Plain("wait") /\ PutsA("removed")
    BY <1>2, <2>2 DEF PutsA, BlockingAlertsClose
  <2> QED
    BY <1>12, <2>1, <2>2, RemoveMoves
<1>13. CASE \E i \in DOMAIN rows : GetItem(i)
  BY <1>3, <1>13 DEF GetItem, outside, queue, Awaited
<1>14. CASE UNCHANGED vars
  BY <1>3, <1>14 DEF vars, Awaited
<1> QED
  BY <1>4, <1>5, <1>6, <1>7, <1>8, <1>9, <1>10, <1>11, <1>12, <1>13, <1>14 DEF Next, User

-----------------------------------------------------------------------------
(* The inductive invariant.                                                *)
ScreenInv ==
    /\ TypeOK
    /\ ReportsRunFirst /\ ErrorIsLast /\ NothingYet /\ LoadingFirst
    /\ TableIsTheOrder /\ DaysAreShown
    /\ ConfirmedIndexStands /\ BlockingAlertsClose

LEMMA ScreenInit == Init => ScreenInv
<1> SUFFICES ASSUME Init PROVE ScreenInv
  OBVIOUS
<1>1. TypeOK
  BY InitTypes
<1>2. /\ blocks = <<>> /\ items = <<>> /\ rows = <<>> /\ answers = <<>> /\ removals = 0
      /\ days = 0 /\ total = 0 /\ dayLabel = 1 /\ busy = FALSE /\ listening = "new"
      /\ alert.kind = "loading"
  BY DEF Init, Plain
<1>3. Places = {} /\ DOMAIN blocks = {}
  BY <1>2 DEF Places
<1>4. ReportsRunFirst /\ ErrorIsLast
  BY <1>3 DEF ReportsRunFirst, ErrorIsLast
<1>5. NothingYet /\ LoadingFirst
  BY <1>2, <1>3 DEF NothingYet, LoadingFirst
<1>6. TableIsTheOrder
  <2>1. CountTotal(items, days) = 0
    BY <1>1, <1>2, TypeParts, TotalFacts DEF OrderOK
  <2> QED
    BY <1>2, <2>1 DEF TableIsTheOrder
<1>7. DaysAreShown /\ ConfirmedIndexStands /\ BlockingAlertsClose
  BY <1>2 DEF DaysAreShown, ConfirmedIndexStands, BlockingAlertsClose
<1> QED
  BY <1>1, <1>4, <1>5, <1>6, <1>7 DEF ScreenInv

LEMMA ScreenStep ==
    ASSUME ScreenInv, [Next]_vars
    PROVE  ScreenInv'
<1>1. /\ TypeOK /\ ReportsRunFirst /\ ErrorIsLast /\ NothingYet /\ LoadingFirst
      /\ TableIsTheOrder /\ DaysAreShown /\ ConfirmedIndexStands /\ BlockingAlertsClose
  BY DEF ScreenInv
<1>2. TypeOK' /\ ReportsRunFirst' /\ ErrorIsLast' /\ NothingYet' /\ LoadingFirst'
  BY <1>1, StepTypes, ReportsStep, ErrorStep, NothingStep, LoadingStep
<1>3. TableIsTheOrder' /\ DaysAreShown' /\ ConfirmedIndexStands' /\ BlockingAlertsClose'
  BY <1>1, TableStep, DaysStep, ConfirmStep, AlertsStep
<1> QED
  BY <1>2, <1>3 DEF ScreenInv

(* Taps, lists, reports and answers in any order keep what follows.        *)
THEOREM ScreenInvariant == Spec => []ScreenInv
<1>1. ScreenInv /\ [Next]_vars => ScreenInv'
  BY ScreenStep
<1> QED
  BY <1>1, ScreenInit, PTL DEF Spec

(* The table, the sum and the days are those of the order that             *)
(* "Оформить заказ" would put, unless a removal or an order is under way.  *)
THEOREM OrderShownTheorem == Spec => []OrderIsShown
<1>1. ScreenInv => OrderIsShown
  BY DEF ScreenInv, OrderIsShown
<1> QED
  BY <1>1, ScreenInvariant, PTL

(* The index in an open removal dialog belongs to the line that was tapped.*)
THEOREM ConfirmedTheorem == Spec => []ConfirmedIndexStands
<1>1. ScreenInv => ConfirmedIndexStands
  BY DEF ScreenInv
<1> QED
  BY <1>1, ScreenInvariant, PTL

(* What closes an alert without a button is always under way.              *)
THEOREM AlertsTheorem == Spec => []BlockingAlertsClose
<1>1. ScreenInv => BlockingAlertsClose
  BY DEF ScreenInv
<1> QED
  BY <1>1, ScreenInvariant, PTL
=============================================================================
