------------------------- MODULE CategoryScreenProofs -------------------------
(***************************************************************************)
(* Theorems of CategoryScreen, for any goods, prices, manufacturers and    *)
(* counts, any number of changes and adds, and any length of the main      *)
(* queue.                                                                  *)
(***************************************************************************)
EXTENDS CategoryScreen, ListLemmas

-----------------------------------------------------------------------------
(* The operators of the model.                                             *)

(* The list has every item that is there, with its count, and no other.    *)
LEMMA ListingFacts ==
    ASSUME stock \in [Goods -> 0 .. MaxCount]
    PROVE  /\ Listing \in Seq(Item)
           /\ \A i \in 1 .. Len(Listing) :
                  /\ Listing[i].item \in Goods
                  /\ Listing[i].count = stock[Listing[i].item]
           /\ \A g \in Goods : stock[g] > 0 => \E i \in 1 .. Len(Listing) : Listing[i].item = g
<1> DEFINE There == {h \in Goods : stock[h] > 0}
           Above(x, y) == x.count < y.count \/ (x.count = y.count /\ x.item < y.item)
           R == {p \in Item \X Item : Above(p[1], p[2])}
<1>1. Documents = {[item |-> g, count |-> stock[g]] : g \in There}
  BY DEF Documents
<1>2. Documents \subseteq Item
  BY <1>1 DEF Item
<1>3. \A x \in Documents : x.item \in There /\ x.count = stock[x.item]
  BY <1>1
<1>4. IsFiniteSet(Documents)
  <2> DEFINE doc == [g \in There |-> [item |-> g, count |-> stock[g]]]
  <2>1. doc \in Surjection(There, Documents)
    BY <1>1 DEF Surjection
  <2>2. IsFiniteSet(There)
    BY CategoryAssumption, FS_Subset
  <2> HIDE DEF There, doc
  <2> QED
    BY <2>1, <2>2, FS_Surjection
<1>5. \A x, y \in Documents : <<x, y>> \in R <=> Above(x, y)
  BY <1>2
<1>6. \A x, y \in Documents : x.item = y.item => x = y
  <2> TAKE x, y \in Documents
  <2>1. x \in Item /\ y \in Item /\ x.count = stock[x.item] /\ y.count = stock[y.item]
    BY <1>2, <1>3
  <2> QED
    BY <2>1 DEF Item
<1>7. \A x \in Documents : x.item \in Int /\ x.count \in Int
  BY <1>2, CategoryAssumption DEF Item
<1>8. StrictOrder(R, Documents)
  <2>1. \A x, y, z \in Documents : Above(x, y) /\ Above(y, z) => Above(x, z)
    BY <1>7
  <2>2. \A x \in Documents : ~Above(x, x)
    BY <1>7
  <2>3. \A x, y \in Documents : x = y \/ Above(x, y) \/ Above(y, x)
    BY <1>6, <1>7
  <2> HIDE DEF R, Above
  <2> QED
    BY <1>5, <2>1, <2>2, <2>3 DEF StrictOrder
<1>9. Cardinality(Documents) \in Nat
  BY <1>4, FS_CardinalityType
<1> DEFINE Is(list) == /\ list \in [1 .. Cardinality(Documents) -> Documents]
                       /\ \A i, j \in DOMAIN list : i < j => Above(list[i], list[j])
<1> HIDE DEF R, Above
<1>10. \A list : Is(list) <=> Ascends(list, Documents, R)
  BY <1>5, <1>9 DEF Ascends
<1>11. \E list : Is(list)
  BY <1>4, <1>8, <1>10, SortedExists
<1>12. Is(Listing)
  <2>1. \E list \in [1 .. Cardinality(Documents) -> Documents] :
            \A i, j \in DOMAIN list : i < j => Above(list[i], list[j])
    BY <1>11
  <2>2. Listing = CHOOSE list \in [1 .. Cardinality(Documents) -> Documents] :
                      \A i, j \in DOMAIN list : i < j => Above(list[i], list[j])
    BY DEF Listing, Above
  <2> QED
    BY <2>1, <2>2
<1>13. /\ Listing \in Seq(Documents)
       /\ \A x \in Documents : \E i \in 1 .. Len(Listing) : Listing[i] = x
  <2>1. Ascends(Listing, Documents, R)
    BY <1>10, <1>12
  <2>2. /\ Listing \in Seq(Documents)
        /\ \A x \in Documents : \E i \in 1 .. Len(Listing) : Listing[i] = x
    BY <1>4, <1>8, <2>1, SortedCovers
  <2> QED
    BY <2>2
<1>14. Listing \in Seq(Item) /\ \A i \in 1 .. Len(Listing) : Listing[i] \in Documents
  BY <1>2, <1>13
<1>15. ASSUME NEW g \in Goods, stock[g] > 0 PROVE \E i \in 1 .. Len(Listing) : Listing[i].item = g
  <2>1. [item |-> g, count |-> stock[g]] \in Documents
    BY <1>1, <1>15
  <2>2. PICK i \in 1 .. Len(Listing) : Listing[i] = [item |-> g, count |-> stock[g]]
    BY <1>13, <2>1
  <2> QED
    BY <2>2
<1> QED
  BY <1>3, <1>14, <1>15

(* Leaving members out of a list leaves a list.                            *)
LEMMA SublistFacts ==
    ASSUME NEW list \in Seq(Item), NEW S
    PROVE  Sublist(list, S) \in Seq(Item) /\ (list = <<>> => Sublist(list, S) = <<>>)
<1> DEFINE next(a, i) == IF list[i] \in S THEN Append(a, list[i]) ELSE a
           body(s) == [i \in 0 .. Len(list) |-> IF i = 0 THEN <<>> ELSE next(s[i - 1], i)]
           F == [p \in Seq(Item) \X (1 .. Len(list)) |-> next(p[1], p[2])]
<1>1. Len(list) \in Nat /\ \A i \in 1 .. Len(list) : list[i] \in Item
  OBVIOUS
<1>2. \A a \in Seq(Item), i \in 1 .. Len(list) : next(a, i) \in Seq(Item)
  BY <1>1
<1> HIDE DEF next
<1>3. F \in [Seq(Item) \X (1 .. Len(list)) -> Seq(Item)]
  BY <1>2
<1>4. \A a \in Seq(Item), i \in 1 .. Len(list) : F[<<a, i>>] = next(a, i)
  OBVIOUS
<1> HIDE DEF F
<1>5. \E g : Follows(g, Len(list), Seq(Item), <<>>, F)
  <2>1. <<>> \in Seq(Item)
    OBVIOUS
  <2> QED
    BY <1>1, <1>3, <2>1, RecursionExists
<1>6. PICK g : Follows(g, Len(list), Seq(Item), <<>>, F)
  BY <1>5
<1>7. /\ g \in [0 .. Len(list) -> Seq(Item)] /\ g[0] = <<>>
      /\ \A i \in 1 .. Len(list) : g[i] = F[<<g[i - 1], i>>]
  BY <1>6 DEF Follows
<1>8. \A i \in 1 .. Len(list) : g[i] = next(g[i - 1], i)
  <2> TAKE i \in 1 .. Len(list)
  <2>1. i - 1 \in 0 .. Len(list)
    BY <1>1
  <2>2. g[i - 1] \in Seq(Item)
    BY <1>7, <2>1
  <2> QED
    BY <1>4, <1>7, <2>2
<1>9. g = body(g)
  <2>1. \A i \in 0 .. Len(list) : g[i] = IF i = 0 THEN <<>> ELSE next(g[i - 1], i)
    BY <1>1, <1>7, <1>8
  <2> QED
    BY <1>7, <2>1
<1> DEFINE upTo == CHOOSE s : s = body(s)
<1>10. upTo = body(upTo)
  <2> HIDE DEF body
  <2> QED
    BY <1>9
<1>11. Sublist(list, S) = upTo[Len(list)]
  BY Zenon DEF Sublist, next
<1> HIDE DEF upTo
<1>12. upTo[0] = <<>>
  BY <1>1, <1>10
<1>13. \A i \in 1 .. Len(list) :
          upTo[i] = next(upTo[i - 1], i)
  BY <1>1, <1>10
<1>14. \A i \in 0 .. Len(list) : upTo[i] \in Seq(Item)
  <2> DEFINE Lists == {i \in 0 .. Len(list) : upTo[i] \in Seq(Item)}
  <2>1. 0 \in Lists
    <3>1. <<>> \in Seq(Item) /\ 0 \in 0 .. Len(list)
      BY <1>1
    <3> QED
      BY <1>12, <3>1
  <2>2. \A i \in 1 .. Len(list) : i - 1 \in Lists => i \in Lists
    BY <1>1, <1>2, <1>13
  <2>3. 0 .. Len(list) \subseteq Lists
    <3> HIDE DEF Lists
    <3> QED
      BY <1>1, <2>1, <2>2, UpToN
  <2> QED
    BY <2>3
<1> QED
  BY <1>1, <1>11, <1>12, <1>14

LEMMA InStockFacts ==
    ASSUME NEW list \in Seq(Item)
    PROVE  InStock(list) \in Seq(Item) /\ (InStock(list) # <<>> => list # <<>>)
BY SublistFacts DEF InStock

LEMMA FilteredFacts ==
    ASSUME NEW list \in Seq(Item), NEW ms, NEW r
    PROVE  Filtered(list, ms, r) \in Seq(Item)
BY SublistFacts DEF Filtered

(* The slider's range is between costs of the list.                        *)
LEMMA RangeFacts ==
    ASSUME NEW list \in Seq(Item), list # <<>>
    PROVE  RangeOf(list).lo \in Costs /\ RangeOf(list).hi \in Costs /\ RangeOf(list) \in Ranges
<1>1. Len(list) \in Nat /\ 1 \in 1 .. Len(list) /\ \A i \in 1 .. Len(list) : list[i].item \in Goods
  <2>1. Len(list) \in Nat /\ 1 \in 1 .. Len(list) /\ \A i \in 1 .. Len(list) : list[i] \in Item
    OBVIOUS
  <2> QED
    BY <2>1 DEF Item
<1>2. CostsOf(list) \subseteq Costs /\ CostsOf(list) # {}
  BY <1>1 DEF CostsOf, Costs
<1>3. Costs \subseteq Int
  BY CategoryAssumption DEF Costs
<1>4. IsFiniteSet(CostsOf(list))
  <2> DEFINE cost == [i \in 1 .. Len(list) |-> Cost[list[i].item]]
  <2>1. cost \in Surjection(1 .. Len(list), CostsOf(list))
    BY <1>1 DEF CostsOf, Surjection
  <2>2. IsFiniteSet(1 .. Len(list))
    BY <1>1, FS_Interval
  <2> HIDE DEF cost
  <2> QED
    BY <2>1, <2>2, FS_Surjection
<1>5. Min(CostsOf(list)) \in CostsOf(list) /\ Max(CostsOf(list)) \in CostsOf(list)
  <2>1. CostsOf(list) \in SUBSET Int
    BY <1>2, <1>3
  <2>2. /\ \E x \in CostsOf(list) : \A y \in CostsOf(list) : x <= y
        /\ \E x \in CostsOf(list) : \A y \in CostsOf(list) : x >= y
    BY <1>2, <1>4, <2>1, Extremes
  <2> QED
    BY <2>2 DEF Min, Max
<1> QED
  BY <1>2, <1>5 DEF RangeOf, Ranges

LEMMA StepsFacts ==
    ASSUME NEW i, rows[i] \in Item
    PROVE  \A n \in Steps(i) : n \in Nat /\ n >= 1
<1>1. rows[i].count \in Int
  BY DEF Item
<1>2. \E x \in {1, rows[i].count} : \A y \in {1, rows[i].count} : x >= y
  BY <1>1
<1>3. Max({1, rows[i].count}) \in {1, rows[i].count}
  BY <1>2 DEF Max
<1> QED
  BY <1>1, <1>3 DEF Steps

-----------------------------------------------------------------------------
(* The main queue.                                                         *)

Places == 1 .. Len(blocks)

LEMMA BlockFacts ==
    ASSUME NEW b \in Block
    PROVE  /\ b.what \in {"items", "added", "notAdded", "error"}
           /\ b.what = "items" => b.items \in Seq(Item)
           /\ b.what = "added" => b.index \in Nat /\ b.n \in Nat
BY DEF Block

(* The type invariant in parts, as the steps leave them alone.             *)
StockOK ==
    /\ stock \in [Goods -> 0 .. MaxCount] /\ changes \in 0 .. MaxChanges
    /\ raised \in BOOLEAN /\ failed \in BOOLEAN
    /\ listening \in {"new", "on", "off"} /\ heard \in Seq(Item)
    /\ calls \in Seq(Call)
AddsOK   == adds \in 0 .. MaxAdds
QueueOK  == blocks \in Seq(Block) /\ due \in 0 .. Len(blocks)
ItemsOK  == items \in Seq(Item)
FilterOK == /\ checked \subseteq makers /\ makers \subseteq Makers /\ range \in Ranges
            /\ updated \in BOOLEAN
ScreenOK == rows \in Seq(Item) /\ available \in BOOLEAN /\ label \in {"none", "noItems", "offline"}
AlertOK  == alert \in Alerts

LEMMA TypeParts ==
    TypeOK <=> StockOK /\ AddsOK /\ QueueOK /\ ItemsOK /\ FilterOK /\ ScreenOK /\ AlertOK
BY DEF TypeOK, StockOK, AddsOK, QueueOK, ItemsOK, FilterOK, ScreenOK, AlertOK

LEMMA PartsNext ==
    StockOK' /\ AddsOK' /\ QueueOK' /\ ItemsOK' /\ FilterOK' /\ ScreenOK' /\ AlertOK' => TypeOK'
BY DEF TypeOK, StockOK, AddsOK, QueueOK, ItemsOK, FilterOK, ScreenOK, AlertOK

LEMMA PartsKept ==
    ASSUME TypeOK
    PROVE  /\ UNCHANGED outside => StockOK'
           /\ UNCHANGED adds => AddsOK'
           /\ UNCHANGED queue => QueueOK'
           /\ UNCHANGED items => ItemsOK'
           /\ UNCHANGED filters => FilterOK'
           /\ UNCHANGED screen => ScreenOK'
           /\ UNCHANGED alert => AlertOK'
<1>1. StockOK /\ AddsOK /\ QueueOK /\ ItemsOK /\ FilterOK /\ ScreenOK /\ AlertOK
  BY TypeParts
<1>2. UNCHANGED outside => StockOK'
  BY <1>1 DEF outside, StockOK
<1>3. UNCHANGED adds => AddsOK'
  BY <1>1 DEF AddsOK
<1>4. UNCHANGED queue => QueueOK'
  BY <1>1 DEF queue, QueueOK
<1>5. UNCHANGED items => ItemsOK'
  BY <1>1 DEF ItemsOK
<1>6. UNCHANGED filters => FilterOK'
  BY <1>1 DEF filters, FilterOK
<1>7. UNCHANGED screen => ScreenOK'
  BY <1>1 DEF screen, ScreenOK
<1>8. UNCHANGED alert => AlertOK'
  BY <1>1 DEF AlertOK
<1> QED
  BY <1>2, <1>3, <1>4, <1>5, <1>6, <1>7, <1>8

(* The first block is taken: the others move up.                           *)
Takes(what) ==
    /\ Head(blocks) \in Block /\ Head(blocks).what = what
    /\ 1 \in Places /\ blocks[1] = Head(blocks)
    /\ \A i \in Places' : i + 1 \in Places /\ blocks'[i] = blocks[i + 1] /\ (i + 1 <= due => i <= due')
    /\ \A i \in Places : i = 1 \/ (i > 1 /\ i - 1 \in Places' /\ blocks'[i - 1] = blocks[i])

(* A block is put behind the others.                                       *)
Puts(b) ==
    /\ Len(blocks) + 1 \in Places' /\ blocks'[Len(blocks) + 1] = b
    /\ \A i \in Places : i \in Places' /\ blocks'[i] = blocks[i] /\ i < Len(blocks) + 1
    /\ \A i \in Places' : i \in Places \/ i = Len(blocks) + 1

LEMMA DequeueTakes ==
    ASSUME QueueOK, NEW what, Dequeue(what)
    PROVE  Takes(what) /\ QueueOK'
<1>1. /\ blocks # <<>> /\ Head(blocks).what = what
      /\ blocks' = Tail(blocks)
      /\ due' = IF due > 0 THEN due - 1 ELSE 0
      /\ blocks \in Seq(Block) /\ due \in 0 .. Len(blocks)
  BY DEF Dequeue, QueueOK
<1>2. /\ Head(blocks) = blocks[1] /\ blocks[1] \in Block /\ 1 \in Places
      /\ blocks' \in Seq(Block) /\ Len(blocks') = Len(blocks) - 1
      /\ \A i \in Places' : i + 1 \in Places /\ blocks'[i] = blocks[i + 1]
      /\ \A i \in Places : i = 1 \/ (i > 1 /\ i - 1 \in Places' /\ blocks'[i - 1] = blocks[i])
  BY <1>1, TailFacts DEF Places
<1>3. Len(blocks) \in Nat /\ Len(blocks') \in Nat
  BY <1>2
<1>4. due' \in 0 .. Len(blocks') /\ \A i \in Places' : i + 1 <= due => i <= due'
  BY <1>1, <1>2, <1>3 DEF Places
<1> QED
  BY <1>1, <1>2, <1>4 DEF Takes, QueueOK

LEMMA AppendPuts ==
    ASSUME QueueOK, NEW b \in Block, blocks' = Append(blocks, b)
    PROVE  /\ Puts(b) /\ blocks' \in Seq(Block) /\ Len(blocks') = Len(blocks) + 1
           /\ Len(blocks) \in Nat
<1>1. blocks \in Seq(Block) /\ Len(blocks) \in Nat
  BY DEF QueueOK
<1>2. /\ blocks' \in Seq(Block) /\ Len(blocks') = Len(blocks) + 1
      /\ \A i \in Places : i \in Places' /\ blocks'[i] = blocks[i]
      /\ blocks'[Len(blocks) + 1] = b /\ Len(blocks) + 1 \in Places'
      /\ \A i \in Places' : i \in Places \/ i = Len(blocks) + 1
  BY <1>1, AppendFacts DEF Places
<1>3. \A i \in Places : i < Len(blocks) + 1
  BY <1>1 DEF Places
<1> QED
  BY <1>1, <1>2, <1>3 DEF Puts

LEMMA SendPuts ==
    ASSUME QueueOK, NEW b \in Block, Send(b)
    PROVE  Puts(b) /\ QueueOK' /\ due' = due
<1>1. blocks' = Append(blocks, b) /\ due' = due
  BY DEF Send
<1> QED
  BY <1>1, AppendPuts DEF QueueOK

LEMMA BetweenFacts ==
    ASSUME QueueOK, Between(blocks)
    PROVE  due = 0 /\ blocks' = blocks /\ QueueOK' /\ Places' = Places
<1>1. due = 0 /\ blocks' = blocks /\ due' = Len(blocks) /\ Len(blocks) \in Nat
  BY DEF Between, QueueOK
<1> QED
  BY <1>1 DEF Places, QueueOK

-----------------------------------------------------------------------------
(* Types.                                                                  *)

LEMMA TypesNetwork ==
    ASSUME TypeOK, Network
    PROVE  TypeOK'
<1> USE TypeOK
<1>1. StockOK /\ AddsOK /\ QueueOK
  BY TypeParts
<1>2. [what |-> "error"] \in Block /\ [what |-> "notAdded"] \in Block
  BY DEF Block
<1>3. ASSUME NEW g \in Goods, NEW n \in 0 .. MaxCount, Change(g, n) PROVE TypeOK'
  <2>1. changes' \in 0 .. MaxChanges
    <3>1. changes < MaxChanges /\ changes' = changes + 1
      BY <1>3 DEF Change
    <3>2. changes \in 0 .. MaxChanges /\ MaxChanges \in Nat
      BY <1>1, CategoryAssumption DEF StockOK
    <3> QED
      BY <3>1, <3>2
  <2>2. stock' \in [Goods -> 0 .. MaxCount] /\ raised' \in BOOLEAN
    BY <1>1, <1>3 DEF Change, StockOK
  <2>3. StockOK'
    BY <1>1, <1>3, <2>1, <2>2 DEF Change, StockOK
  <2> QED
    BY <1>3, <2>3, PartsKept, PartsNext DEF Change
<1>4. ASSUME Listen PROVE TypeOK'
  <2>1. Listing \in Seq(Item)
    BY <1>1, ListingFacts DEF StockOK
  <2>2. [what |-> "items", items |-> Listing] \in Block
    BY <2>1 DEF Block
  <2>3. QueueOK'
    BY <1>1, <1>4, <2>2, SendPuts DEF Listen
  <2>4. StockOK'
    BY <1>1, <1>4, <2>1 DEF Listen, StockOK
  <2> QED
    BY <1>4, <2>3, <2>4, PartsKept, PartsNext DEF Listen
<1>5. ASSUME ListenFails PROVE TypeOK'
  <2>1. QueueOK'
    BY <1>1, <1>2, <1>5, SendPuts DEF ListenFails
  <2>2. StockOK'
    BY <1>1, <1>5 DEF ListenFails, StockOK
  <2> QED
    BY <1>5, <2>1, <2>2, PartsKept, PartsNext DEF ListenFails
<1>6. ASSUME NEW k \in DOMAIN calls, Handle(k) PROVE TypeOK'
  <2>1. calls \in Seq(Call) /\ k \in 1 .. Len(calls) /\ Len(calls) \in Nat /\ calls[k] \in Call
    BY <1>1 DEF StockOK
  <2>2. calls' \in Seq(Call)
    <3>1. SubSeq(calls, 1, k - 1) \in Seq(Call)
      BY <2>1
    <3>2. SubSeq(calls, k + 1, Len(calls)) \in Seq(Call)
      BY <2>1
    <3>3. calls' = SubSeq(calls, 1, k - 1) \o SubSeq(calls, k + 1, Len(calls))
      BY <1>6 DEF Handle, RemoveAt
    <3> QED
      BY <3>1, <3>2, <3>3
  <2>3. calls[k].item \in Goods /\ calls[k].n \in Nat
    BY <2>1 DEF Call
  <2>4. UNCHANGED <<changes, raised, listening, heard, adds, items, filters, screen, alert>>
    BY <1>6 DEF Handle
  <2>5. stock' \in [Goods -> 0 .. MaxCount] /\ failed' \in BOOLEAN /\ QueueOK'
    <3>1. CASE /\ stock[calls[k].item] >= calls[k].n
               /\ stock' = [stock EXCEPT ![calls[k].item] = stock[calls[k].item] - calls[k].n]
               /\ UNCHANGED <<failed, queue>>
      <4>1. stock[calls[k].item] - calls[k].n \in 0 .. MaxCount
        <5>1. stock[calls[k].item] \in 0 .. MaxCount /\ MaxCount \in Nat
          BY <1>1, <2>3, CategoryAssumption DEF StockOK
        <5> QED
          BY <2>3, <3>1, <5>1
      <4>2. stock' \in [Goods -> 0 .. MaxCount]
        BY <1>1, <3>1, <4>1 DEF StockOK
      <4> QED
        BY <1>1, <3>1, <4>2, PartsKept DEF StockOK
    <3>2. CASE failed' = TRUE /\ UNCHANGED <<stock, queue>>
      BY <1>1, <3>2, PartsKept DEF StockOK
    <3>3. CASE failed' = TRUE /\ Send([what |-> "notAdded"]) /\ UNCHANGED stock
      BY <1>1, <1>2, <3>3, SendPuts DEF StockOK
    <3> QED
      BY <1>6, <3>1, <3>2, <3>3 DEF Handle
  <2>6. StockOK'
    BY <1>1, <2>2, <2>4, <2>5 DEF StockOK
  <2> QED
    BY <2>4, <2>5, <2>6, PartsKept, PartsNext
<1> QED
  BY <1>3, <1>4, <1>5, <1>6 DEF Network

LEMMA RunTakes ==
    ASSUME TypeOK, NEW what, Run(what)
    PROVE  /\ Takes(what) /\ QueueOK' /\ StockOK' /\ AddsOK'
           /\ UNCHANGED outside /\ UNCHANGED adds
<1>1. Dequeue(what) /\ UNCHANGED outside /\ UNCHANGED adds
  BY DEF Run
<1> QED
  BY <1>1, DequeueTakes, PartsKept, TypeParts

LEMMA SuccessTypes ==
    ASSUME ScreenOK, NEW list \in Seq(Item), Success(list), updated \in BOOLEAN
    PROVE  rows' = list /\ ScreenOK' /\ updated' \in BOOLEAN
BY DEF Success, ScreenOK

LEMMA SetFiltersTypes ==
    ASSUME FilterOK, NEW all \in Seq(Item), NEW list \in Seq(Item),
           list # <<>> => all # <<>>, SetFilters(all, list), updated' \in BOOLEAN
    PROVE  FilterOK'
<1>1. CASE ~updated /\ list # <<>>
  <2>1. makers' = MadeBy(all) /\ checked' = makers' /\ range' = RangeOf(all)
    BY <1>1 DEF SetFilters
  <2>2. RangeOf(all) \in Ranges
    BY <1>1, RangeFacts
  <2>3. MadeBy(all) \subseteq Makers
    <3>1. \A i \in DOMAIN all : all[i] \in Item
      OBVIOUS
    <3> QED
      BY <3>1 DEF MadeBy, Makers, Item
  <2> QED
    BY <2>1, <2>2, <2>3 DEF FilterOK
<1>2. CASE updated \/ list = <<>>
  BY <1>2 DEF SetFilters, FilterOK
<1> QED
  BY <1>1, <1>2

LEMMA CloseTypes ==
    ASSUME TypeOK, NEW r \in Ranges, CloseFilters(r)
    PROVE  ScreenOK' /\ FilterOK'
<1>1. ItemsOK /\ FilterOK /\ ScreenOK
  BY TypeParts
<1>2. Filtered(items, checked, r) \in Seq(Item) /\ updated \in BOOLEAN
  BY <1>1, FilteredFacts DEF ItemsOK, FilterOK
<1>3. ScreenOK' /\ updated' \in BOOLEAN
  BY <1>1, <1>2, SuccessTypes DEF CloseFilters
<1> QED
  BY <1>1, <1>3 DEF CloseFilters, FilterOK

LEMMA ReplacedType ==
    ASSUME AlertOK
    PROVE  /\ Replaced \in Alerts
           /\ Plain("none") \in Alerts /\ Plain("message") \in Alerts /\ Plain("loading") \in Alerts
           /\ Plain("addTrap") \in Alerts /\ Plain("filtersTrap") \in Alerts
BY DEF AlertOK, Replaced, Alerts, Trapped

LEMMA TypesMainBlocks ==
    ASSUME TypeOK, MainBlocks
    PROVE  TypeOK'
<1> USE TypeOK
<1>1. ItemsOK /\ FilterOK /\ ScreenOK /\ AlertOK /\ updated \in BOOLEAN
  BY TypeParts DEF FilterOK
<1>2. ASSUME ShowItems PROVE TypeOK'
  <2>1. Takes("items") /\ QueueOK' /\ StockOK' /\ AddsOK'
    BY <1>2, RunTakes DEF ShowItems
  <2>2. items' = Head(blocks).items /\ Success(items') /\ SetFilters(items', items') /\ UNCHANGED alert
    BY <1>2 DEF ShowItems
  <2>3. items' \in Seq(Item)
    BY <2>1, <2>2, BlockFacts DEF Takes
  <2>4. ScreenOK' /\ updated' \in BOOLEAN
    BY <1>1, <2>2, <2>3, SuccessTypes
  <2>5. FilterOK'
    BY <1>1, <2>2, <2>3, <2>4, SetFiltersTypes
  <2>6. ItemsOK' /\ AlertOK'
    BY <1>1, <2>2, <2>3 DEF ItemsOK, AlertOK
  <2> QED
    BY <2>1, <2>4, <2>5, <2>6, PartsNext
<1>3. ASSUME ListFailed PROVE TypeOK'
  <2>1. QueueOK' /\ StockOK' /\ AddsOK'
    BY <1>3, RunTakes DEF ListFailed
  <2>2. Failure
    BY <1>3 DEF ListFailed
  <2>3. ScreenOK'
    BY <1>1, <2>2 DEF Failure, ScreenOK
  <2> QED
    BY <2>1, <2>2, <2>3, PartsKept, PartsNext DEF Failure
<1>4. ASSUME Added PROVE TypeOK'
  <2>1. Takes("added") /\ QueueOK' /\ StockOK' /\ AddsOK'
    BY <1>4, RunTakes DEF Added
  <2>2. CASE Head(blocks).index \notin DOMAIN items
    <3>1. alert' = Plain("addTrap") /\ UNCHANGED items /\ UNCHANGED filters /\ UNCHANGED screen
      BY <1>4, <2>2 DEF Added
    <3>2. AlertOK'
      BY <1>1, <3>1, ReplacedType DEF AlertOK
    <3> QED
      BY <2>1, <3>1, <3>2, PartsKept, PartsNext
  <2>3. CASE Head(blocks).index \in DOMAIN items
    <3> DEFINE i == Head(blocks).index
               n == Head(blocks).n
    <3>1. /\ items' = [items EXCEPT ![i].count = items[i].count - n]
          /\ Success(InStock(items')) /\ SetFilters(items', InStock(items')) /\ alert' = Replaced
      BY <1>4, <2>3 DEF Added
    <3>2. n \in Nat /\ i \in DOMAIN items
      BY <2>1, <2>3, BlockFacts DEF Takes
    <3> HIDE DEF i, n
    <3>3. items' \in Seq(Item)
      <4>1. items \in Seq(Item) /\ items[i] \in Item
        BY <1>1, <3>2 DEF ItemsOK
      <4>2. items[i].count - n \in Int
        BY <3>2, <4>1 DEF Item
      <4>3. [items[i] EXCEPT !.count = items[i].count - n] \in Item
        BY <4>1, <4>2 DEF Item
      <4>4. items' = [items EXCEPT ![i] = [items[i] EXCEPT !.count = items[i].count - n]]
        BY <3>1
      <4> QED
        BY <3>2, <4>1, <4>3, <4>4
    <3>4. InStock(items') \in Seq(Item) /\ (InStock(items') # <<>> => items' # <<>>)
      BY <3>3, InStockFacts
    <3>5. ScreenOK' /\ updated' \in BOOLEAN
      BY <1>1, <3>1, <3>4, SuccessTypes
    <3>6. FilterOK'
      BY <1>1, <3>1, <3>3, <3>4, <3>5, SetFiltersTypes
    <3>7. ItemsOK' /\ AlertOK'
      BY <1>1, <3>1, <3>3, ReplacedType DEF ItemsOK, AlertOK
    <3> QED
      BY <2>1, <3>5, <3>6, <3>7, PartsNext
  <2> QED
    BY <2>2, <2>3
<1>5. ASSUME NotAdded PROVE TypeOK'
  <2>1. QueueOK' /\ StockOK' /\ AddsOK'
    BY <1>5, RunTakes DEF NotAdded
  <2>2. ScreenOK' /\ FilterOK'
    <3>1. CASE \E r \in Selectable : CloseFilters(r)
      BY <3>1, CloseTypes DEF Selectable
    <3>2. CASE UNCHANGED filters /\ UNCHANGED screen
      BY <3>2, PartsKept
    <3> QED
      BY <1>5, <3>1, <3>2 DEF NotAdded
  <2>3. AlertOK' /\ UNCHANGED items
    BY <1>1, <1>5, ReplacedType DEF NotAdded, AlertOK
  <2> QED
    BY <2>1, <2>2, <2>3, PartsKept, PartsNext
<1> QED
  BY <1>2, <1>3, <1>4, <1>5 DEF MainBlocks

LEMMA TypesUser ==
    ASSUME TypeOK, User
    PROVE  TypeOK'
<1> USE TypeOK
<1>1. QueueOK /\ StockOK /\ AddsOK /\ ItemsOK /\ FilterOK /\ ScreenOK /\ AlertOK
  BY TypeParts
<1>2. Between(blocks) => QueueOK'
  BY <1>1, BetweenFacts
<1>3. ASSUME ShowFilters PROVE TypeOK'
  <2>1. AlertOK'
    <3>1. CASE items = <<>>
      BY <1>1, <1>3, <3>1, ReplacedType DEF ShowFilters, AlertOK
    <3>2. CASE items # <<>>
      <4>1. RangeOf(items).lo \in Costs /\ RangeOf(items).hi \in Costs
        BY <1>1, <3>2, RangeFacts DEF ItemsOK
      <4>2. alert' = [kind |-> "filters", min |-> RangeOf(items).lo, max |-> RangeOf(items).hi]
        BY <1>3, <3>2 DEF ShowFilters
      <4> QED
        BY <4>1, <4>2 DEF AlertOK, Alerts
    <3> QED
      BY <3>1, <3>2
  <2> QED
    BY <1>2, <1>3, <2>1, PartsKept, PartsNext DEF ShowFilters
<1>4. ASSUME NEW m \in makers, Tapped(m) PROVE TypeOK'
  <2>1. FilterOK'
    BY <1>1, <1>4 DEF Tapped, FilterOK
  <2> QED
    BY <1>2, <1>4, <2>1, PartsKept, PartsNext DEF Tapped
<1>5. ASSUME LeaveFilters PROVE TypeOK'
  <2>1. PICK r \in Selectable : CloseFilters(r)
    BY <1>5 DEF LeaveFilters
  <2>2. ScreenOK' /\ FilterOK'
    BY <2>1, CloseTypes DEF Selectable
  <2>3. AlertOK'
    BY <1>1, <1>5, ReplacedType DEF LeaveFilters, AlertOK
  <2> QED
    BY <1>2, <1>5, <2>2, <2>3, PartsKept, PartsNext DEF LeaveFilters
<1>6. ASSUME PressOK PROVE TypeOK'
  <2>1. AlertOK'
    BY <1>1, <1>6, ReplacedType DEF PressOK, AlertOK
  <2> QED
    BY <1>2, <1>6, <2>1, PartsKept, PartsNext DEF PressOK
<1>7. ASSUME AddOffline PROVE TypeOK'
  <2>1. ScreenOK'
    BY <1>1, <1>7 DEF AddOffline, Failure, ScreenOK
  <2> QED
    BY <1>2, <1>7, <2>1, PartsKept, PartsNext DEF AddOffline, Failure
<1>8. ASSUME NEW i \in DOMAIN rows, NEW n \in Steps(i), AddItemInBasket(i, n) PROVE TypeOK'
  <2>1. rows[i] \in Item /\ i \in Nat
    BY <1>1 DEF ScreenOK
  <2>2. n \in Nat /\ rows[i].item \in Goods
    BY <2>1, StepsFacts DEF Item
  <2> DEFINE b == [what |-> "added", index |-> i, n |-> n]
  <2>3. b \in Block
    BY <2>1, <2>2 DEF Block
  <2>4. /\ adds < MaxAdds /\ adds' = adds + 1
        /\ calls' = Append(calls, [item |-> rows[i].item, n |-> n])
        /\ due = 0 /\ blocks' = Append(blocks, b) /\ due' = Len(blocks')
        /\ alert' = Plain("loading")
        /\ UNCHANGED <<stock, changes, raised, failed, listening, heard, items, filters, screen>>
    BY <1>8 DEF AddItemInBasket, Between
  <2> HIDE DEF b
  <2>5. QueueOK'
    <3>1. blocks' \in Seq(Block)
      BY <1>1, <2>3, <2>4, AppendPuts
    <3> QED
      BY <2>4, <3>1 DEF QueueOK
  <2>6. calls' \in Seq(Call)
    BY <1>1, <2>2, <2>4 DEF StockOK, Call
  <2>7. StockOK'
    BY <1>1, <2>4, <2>6 DEF StockOK
  <2>8. AddsOK'
    BY <1>1, <2>4, CategoryAssumption DEF AddsOK
  <2>9. AlertOK'
    BY <1>1, <2>4, ReplacedType DEF AlertOK
  <2> QED
    BY <2>4, <2>5, <2>7, <2>8, <2>9, PartsKept, PartsNext
<1> QED
  BY <1>3, <1>4, <1>5, <1>6, <1>7, <1>8 DEF User

LEMMA StepTypes ==
    ASSUME TypeOK, [Next]_vars
    PROVE  TypeOK'
<1>1. CASE UNCHANGED vars
  <2>1. /\ UNCHANGED outside /\ UNCHANGED adds /\ UNCHANGED queue /\ UNCHANGED items
        /\ UNCHANGED filters /\ UNCHANGED screen /\ UNCHANGED alert
    BY <1>1 DEF vars, outside, queue, filters, screen
  <2> QED
    BY <2>1, PartsKept, PartsNext
<1> QED
  BY <1>1, TypesNetwork, TypesMainBlocks, TypesUser DEF Next

LEMMA InitTypes == Init => TypeOK
<1> SUFFICES ASSUME Init PROVE TypeOK
  OBVIOUS
<1>1. MaxCount \in Nat /\ MaxChanges \in Nat /\ MaxAdds \in Nat
  BY CategoryAssumption
<1>2. StockOK
  <2>1. /\ stock \in [Goods -> 0 .. MaxCount] /\ changes = 0 /\ raised = FALSE /\ failed = FALSE
        /\ listening = "new" /\ heard = <<>> /\ calls = <<>>
    BY DEF Init
  <2>2. <<>> \in Seq(Item) /\ <<>> \in Seq(Call) /\ 0 \in 0 .. MaxChanges
    BY <1>1
  <2> QED
    BY <2>1, <2>2 DEF StockOK
<1>3. AddsOK
  BY <1>1 DEF Init, AddsOK
<1>4. QueueOK
  BY DEF Init, QueueOK
<1>5. ItemsOK
  BY DEF Init, ItemsOK
<1>6. FilterOK
  <2>1. checked = {} /\ makers = {} /\ range = [lo |-> 0, hi |-> 0] /\ updated = FALSE
    BY DEF Init
  <2>2. [lo |-> 0, hi |-> 0] \in Ranges
    BY DEF Ranges
  <2> QED
    BY <2>1, <2>2 DEF FilterOK
<1>7. ScreenOK
  <2>1. rows = <<>> /\ available = FALSE /\ label = "none"
    BY DEF Init
  <2>2. <<>> \in Seq(Item)
    OBVIOUS
  <2> QED
    BY <2>1, <2>2 DEF ScreenOK
<1>8. AlertOK
  BY DEF Init, AlertOK, Alerts
<1> QED
  BY <1>2, <1>3, <1>4, <1>5, <1>6, <1>7, <1>8, TypeParts

(* The types hold in every behaviour.                                      *)
THEOREM CategoryTypes == Spec => []TypeOK
<1>1. TypeOK /\ [Next]_vars => TypeOK'
  BY StepTypes
<1> QED
  BY <1>1, InitTypes, PTL DEF Spec

-----------------------------------------------------------------------------
(* What the properties of the view rest on.                                *)

(* An add announces its success once, before the next event, and the alert *)
(* that the add put up (or a message in its place) is there until then.    *)
OneReport ==
    \A i \in Places : blocks[i].what = "added" =>
        /\ i <= due
        /\ alert.kind \in {"loading", "message"}
        /\ \A j \in Places : blocks[j].what = "added" => j = i

(* What the network does to the screen: it puts blocks.                    *)
LEMMA NetworkMoves ==
    ASSUME TypeOK, Network
    PROVE  /\ UNCHANGED items /\ UNCHANGED filters /\ UNCHANGED screen /\ UNCHANGED alert
           /\ due' = due
           /\ \/ UNCHANGED queue
              \/ \E b \in Block : b.what # "added" /\ Puts(b)
<1>1. QueueOK /\ StockOK
  BY TypeParts
<1>2. CASE \E g \in Goods, n \in 0 .. MaxCount : Change(g, n)
  BY <1>2 DEF Change, queue
<1>3. ASSUME NEW b \in Block, b.what # "added", Send(b)
      PROVE  due' = due /\ \E c \in Block : c.what # "added" /\ Puts(c)
  BY <1>1, <1>3, SendPuts
<1>4. [what |-> "error"] \in Block /\ [what |-> "notAdded"] \in Block
  BY DEF Block
<1>5. CASE Listen
  <2>1. Listing \in Seq(Item)
    BY <1>1, ListingFacts DEF StockOK
  <2> DEFINE b == [what |-> "items", items |-> Listing]
  <2>2. b \in Block /\ b.what # "added" /\ Send(b)
    BY <1>5, <2>1 DEF Block, Listen
  <2> HIDE DEF b
  <2> QED
    BY <1>3, <1>5, <2>2 DEF Listen
<1>6. CASE ListenFails
  BY <1>3, <1>4, <1>6 DEF ListenFails
<1>7. ASSUME NEW k \in DOMAIN calls, Handle(k)
      PROVE  /\ due' = due
             /\ UNCHANGED queue \/ \E b \in Block : b.what # "added" /\ Puts(b)
  BY <1>3, <1>4, <1>7 DEF Handle, queue
<1>8. CASE \E k \in DOMAIN calls : Handle(k)
  <2>1. UNCHANGED items /\ UNCHANGED filters /\ UNCHANGED screen /\ UNCHANGED alert
    BY <1>8 DEF Handle
  <2> QED
    BY <1>7, <1>8, <2>1
<1> QED
  BY <1>2, <1>5, <1>6, <1>8 DEF Network

LEMMA ReplacedKind ==
    /\ \A k : Plain(k).kind = k
    /\ Replaced.kind \in {"none", "message"}
    /\ alert.kind # "none" => Replaced.kind = "message"
BY DEF Replaced, Plain

LEMMA ReportStep ==
    ASSUME TypeOK, OneReport, [Next]_vars
    PROVE  OneReport'
<1>1. QueueOK /\ blocks \in Seq(Block) /\ due \in Nat
  BY TypeParts DEF QueueOK
<1>2. CASE Network
  <2>1. UNCHANGED alert /\ due' = due
    BY <1>2, NetworkMoves
  <2>2. CASE UNCHANGED queue
    BY <2>1, <2>2 DEF OneReport, Places, queue
  <2>3. ASSUME NEW b \in Block, b.what # "added", Puts(b) PROVE OneReport'
    <3>1. \A i \in Places' : blocks'[i].what = "added" => i \in Places /\ blocks[i].what = "added"
      BY <2>3 DEF Puts
    <3> QED
      BY <2>1, <3>1 DEF OneReport
  <2> QED
    BY <1>2, <2>2, <2>3, NetworkMoves
<1>3. ASSUME NEW what, Takes(what), what # "added",
             alert.kind \in {"loading", "message"} => alert'.kind \in {"loading", "message"}
      PROVE  OneReport'
  <2>1. \A i \in Places' : i + 1 \in Places /\ blocks'[i] = blocks[i + 1] /\ (i + 1 <= due => i <= due')
    BY <1>3 DEF Takes
  <2>2. \A i, j \in Places' : i + 1 = j + 1 => i = j
    BY DEF Places
  <2> QED
    BY <1>3, <2>1, <2>2 DEF OneReport
<1>4. CASE ShowItems \/ ListFailed
  <2>1. Takes("items") \/ Takes("error")
    BY <1>4, RunTakes DEF ShowItems, ListFailed
  <2>2. UNCHANGED alert
    BY <1>4 DEF ShowItems, ListFailed, Failure
  <2> QED
    BY <1>3, <2>1, <2>2
<1>5. CASE NotAdded
  <2>1. Takes("notAdded") /\ alert' = Replaced
    BY <1>5, RunTakes DEF NotAdded
  <2> QED
    BY <1>3, <2>1, ReplacedKind
<1>6. CASE Added
  <2>1. Takes("added")
    BY <1>6, RunTakes DEF Added
  <2>2. \A i \in Places' : i + 1 \in Places /\ blocks'[i] = blocks[i + 1] /\ i + 1 # 1
    BY <2>1 DEF Takes, Places
  <2>3. 1 \in Places /\ blocks[1].what = "added"
    BY <2>1 DEF Takes
  <2>4. \A i \in Places' : blocks'[i].what # "added"
    BY <2>2, <2>3 DEF OneReport
  <2> QED
    BY <2>4 DEF OneReport
<1>7. ASSUME due = 0 PROVE \A i \in Places : blocks[i].what # "added"
  BY <1>7 DEF OneReport, Places
<1>8. ASSUME Between(blocks) PROVE OneReport'
  <2>1. blocks' = blocks /\ Places' = Places /\ \A i \in Places : blocks[i].what # "added"
    BY <1>1, <1>7, <1>8, BetweenFacts
  <2> QED
    BY <2>1 DEF OneReport
<1>9. CASE ShowFilters \/ LeaveFilters \/ PressOK \/ AddOffline \/ \E m \in makers : Tapped(m)
  BY <1>8, <1>9 DEF ShowFilters, LeaveFilters, PressOK, AddOffline, Tapped
<1>10. ASSUME NEW i \in DOMAIN rows, NEW n \in Steps(i), AddItemInBasket(i, n) PROVE OneReport'
  <2> DEFINE b == [what |-> "added", index |-> i, n |-> n]
  <2>1. rows[i] \in Item /\ i \in Nat
    BY TypeParts DEF ScreenOK
  <2>2. b \in Block /\ b.what = "added"
    BY <2>1, StepsFacts DEF Block
  <2>3. blocks' = Append(blocks, b) /\ due = 0 /\ due' = Len(blocks') /\ alert' = Plain("loading")
    BY <1>10 DEF AddItemInBasket, Between
  <2> HIDE DEF b
  <2>4. Puts(b) /\ Len(blocks') = Len(blocks) + 1 /\ Len(blocks) \in Nat
    BY <1>1, <2>2, <2>3, AppendPuts
  <2>5. \A j \in Places' : blocks'[j].what = "added" => j = Len(blocks) + 1
    BY <1>7, <2>3, <2>4 DEF Puts
  <2>6. Len(blocks) + 1 <= due'
    BY <2>3, <2>4
  <2> QED
    BY <2>3, <2>5, <2>6, ReplacedKind DEF OneReport
<1>11. CASE UNCHANGED vars
  BY <1>11 DEF vars, OneReport, Places
<1> QED
  BY <1>2, <1>4, <1>5, <1>6, <1>9, <1>10, <1>11 DEF Next, MainBlocks, User

(* Whatever replaces the rows or the filters replaces the other with it.   *)
LEMMA FollowStep ==
    ASSUME TypeOK, OneReport, TableFollowsFilters, [Next]_vars
    PROVE  TableFollowsFilters'
<1> DEFINE Shown == rows \in {items, InStock(items), Filtered(items, checked, range)}
<1>1. alert.kind # "filters" => Shown
  BY DEF TableFollowsFilters
<1>2. ASSUME alert.kind # "filters", UNCHANGED items, UNCHANGED filters, UNCHANGED rows
      PROVE  TableFollowsFilters'
  BY <1>1, <1>2 DEF TableFollowsFilters, filters
<1>3. ASSUME alert' = alert, UNCHANGED items, UNCHANGED filters, UNCHANGED rows
      PROVE  TableFollowsFilters'
  BY <1>1, <1>3 DEF TableFollowsFilters, filters
<1>4. ASSUME NEW r, CloseFilters(r), UNCHANGED items PROVE TableFollowsFilters'
  <2>1. rows' = Filtered(items', checked', range')
    BY <1>4 DEF CloseFilters, Success
  <2> QED
    BY <2>1 DEF TableFollowsFilters
<1>5. CASE Network
  BY <1>3, <1>5, NetworkMoves DEF screen
<1>6. CASE ShowItems
  BY <1>6 DEF ShowItems, Success, TableFollowsFilters
<1>7. CASE ListFailed
  BY <1>3, <1>7 DEF ListFailed, Failure
<1>8. CASE Added
  <2>1. alert.kind # "filters"
    <3>1. Takes("added")
      BY <1>8, RunTakes DEF Added
    <3> QED
      BY <3>1 DEF Takes, OneReport
  <2>2. CASE UNCHANGED <<items, filters, screen>>
    BY <1>2, <2>1, <2>2 DEF screen
  <2>3. CASE Success(InStock(items'))
    BY <2>3 DEF Success, TableFollowsFilters
  <2> QED
    BY <1>8, <2>2, <2>3 DEF Added
<1>9. CASE NotAdded
  <2>1. CASE alert.kind = "filters"
    BY <1>4, <1>9, <2>1 DEF NotAdded
  <2>2. CASE alert.kind # "filters"
    BY <1>2, <1>9, <2>2 DEF NotAdded, screen
  <2> QED
    BY <2>1, <2>2
<1>10. CASE ShowFilters
  BY <1>2, <1>10 DEF ShowFilters, screen
<1>11. CASE \E m \in makers : Tapped(m)
  BY <1>11 DEF Tapped, TableFollowsFilters
<1>12. CASE LeaveFilters
  BY <1>4, <1>12 DEF LeaveFilters
<1>13. CASE PressOK
  BY <1>2, <1>13 DEF PressOK, screen
<1>14. CASE AddOffline
  BY <1>2, <1>14 DEF AddOffline, Failure
<1>15. CASE \E i \in DOMAIN rows : \E n \in Steps(i) : AddItemInBasket(i, n)
  BY <1>2, <1>15 DEF AddItemInBasket, screen
<1>16. CASE UNCHANGED vars
  BY <1>3, <1>16 DEF vars, filters
<1> QED
  BY <1>5, <1>6, <1>7, <1>8, <1>9, <1>10, <1>11, <1>12, <1>13, <1>14, <1>15, <1>16
     DEF Next, MainBlocks, User

(* The report that closes "Загрузка..." is taken only to close it.         *)
LEMMA LoadingStep ==
    ASSUME TypeOK, LoadingCloses, [Next]_vars
    PROVE  LoadingCloses'
<1> DEFINE Waits == \E i \in Places : blocks[i].what = "added"
<1>1. blocks \in Seq(Block) /\ blocks' \in Seq(Block) /\ QueueOK
  BY StepTypes DEF TypeOK, QueueOK
<1>2. (LoadingCloses <=> (alert.kind = "loading" => Waits)) /\ (LoadingCloses' <=> (alert'.kind = "loading" => Waits'))
  BY <1>1 DEF LoadingCloses, Places
<1> HIDE DEF LoadingCloses
<1>3. CASE Network
  <2>1. Waits => Waits'
    <3>1. CASE UNCHANGED queue
      BY <3>1 DEF queue, Places
    <3>2. ASSUME NEW b, Puts(b) PROVE Waits => Waits'
      BY <3>2 DEF Puts
    <3> QED
      BY <1>3, <3>1, <3>2, NetworkMoves
  <2> QED
    BY <1>2, <1>3, <2>1, NetworkMoves
<1>4. CASE ShowItems \/ ListFailed
  <2>1. Takes("items") \/ Takes("error")
    BY <1>4, RunTakes DEF ShowItems, ListFailed
  <2>2. UNCHANGED alert
    BY <1>4 DEF ShowItems, ListFailed, Failure
  <2>3. Waits => Waits'
    BY <2>1 DEF Takes
  <2> QED
    BY <1>2, <2>2, <2>3
<1>5. CASE Added \/ NotAdded
  BY <1>2, <1>5, ReplacedKind DEF Added, NotAdded
<1>6. CASE ShowFilters \/ LeaveFilters \/ PressOK
  BY <1>2, <1>6, ReplacedKind DEF ShowFilters, LeaveFilters, PressOK
<1>7. CASE AddOffline \/ \E m \in makers : Tapped(m)
  <2>1. UNCHANGED alert /\ alert.kind # "loading"
    BY <1>7 DEF AddOffline, Failure, Tapped
  <2> QED
    BY <1>2, <2>1
<1>8. ASSUME NEW i \in DOMAIN rows, NEW n \in Steps(i), AddItemInBasket(i, n) PROVE Waits'
  <2> DEFINE b == [what |-> "added", index |-> i, n |-> n]
  <2>1. rows[i] \in Item /\ i \in Nat
    BY TypeParts DEF ScreenOK
  <2>2. b \in Block /\ b.what = "added"
    BY <2>1, StepsFacts DEF Block
  <2>3. blocks' = Append(blocks, b)
    BY <1>8 DEF AddItemInBasket, Between
  <2> HIDE DEF b
  <2>4. Puts(b)
    BY <1>1, <2>2, <2>3, AppendPuts
  <2> QED
    BY <2>2, <2>4 DEF Puts
<1>9. CASE UNCHANGED vars
  BY <1>2, <1>9 DEF vars, Places
<1> QED
  BY <1>2, <1>3, <1>4, <1>5, <1>6, <1>7, <1>8, <1>9 DEF Next, MainBlocks, User

-----------------------------------------------------------------------------
(* How the presenter's list catches up with the catalogue.                 *)

(* Every call takes something.                                             *)
CallsTake == \A k \in 1 .. Len(calls) : calls[k].n >= 1

(* What is in stock was heard of, with at least its present count.         *)
StockFalls ==
    ~raised /\ listening = "on" =>
        \A g \in Goods : stock[g] > 0 =>
            \E i \in 1 .. Len(heard) : heard[i].item = g /\ heard[i].count >= stock[g]

(* The last block that changes the presenter's list brings the list that   *)
(* was heard last, ...                                                     *)
ListComes ==
    \E i \in Places : /\ blocks[i].what = "items" /\ blocks[i].items = heard
                      /\ \A j \in Places : j > i => blocks[j].what \notin {"items", "added"}
(* ... or there is no such block, and the presenter has that list.         *)
ListIsThere == items = heard /\ \A j \in Places : blocks[j].what \notin {"items", "added"}

(* The catalogue has moved on: a newer list will be heard.                 *)
IsBehind == \E i \in 1 .. Len(heard) : heard[i].count > stock[heard[i].item]

CatchesUp ==
    ~raised /\ ~failed /\ listening = "on" =>
        ListComes \/ ListIsThere \/ calls # <<>> \/ IsBehind

LEMMA RemoveCall ==
    ASSUME calls \in Seq(Call), NEW k \in DOMAIN calls, calls' = RemoveAt(calls, k)
    PROVE  \A j \in 1 .. Len(calls') : \E i \in 1 .. Len(calls) : calls'[j] = calls[i]
<1>1. Len(calls) \in Nat /\ k \in 1 .. Len(calls)
  OBVIOUS
<1> DEFINE front == SubSeq(calls, 1, k - 1)
           rest  == SubSeq(calls, k + 1, Len(calls))
<1>2. front \in Seq(Call) /\ Len(front) = k - 1 /\ \A j \in 1 .. k - 1 : front[j] = calls[j]
  BY <1>1
<1>3. /\ rest \in Seq(Call) /\ Len(rest) = Len(calls) - k
      /\ \A j \in 1 .. Len(calls) - k : rest[j] = calls[k + j]
  BY <1>1
<1>4. calls' = front \o rest
  BY DEF RemoveAt
<1> HIDE DEF front, rest
<1>5. /\ Len(calls') = Len(calls) - 1
      /\ \A j \in 1 .. Len(calls') : calls'[j] = IF j <= k - 1 THEN front[j] ELSE rest[j - (k - 1)]
  <2>1. front \in Seq(Call) /\ rest \in Seq(Call)
    BY <1>2, <1>3
  <2>2. Len(front \o rest) = Len(front) + Len(rest)
    BY <2>1
  <2>3. Len(calls') = Len(calls) - 1
    BY <1>1, <1>2, <1>3, <1>4, <2>2
  <2>4. \A j \in 1 .. Len(front) + Len(rest) :
          (front \o rest)[j] = IF j <= Len(front) THEN front[j] ELSE rest[j - Len(front)]
    BY <2>1
  <2>5. Len(front) = k - 1 /\ Len(front) + Len(rest) = Len(calls')
    BY <1>1, <1>2, <1>3, <2>3
  <2> QED
    BY <1>4, <2>3, <2>4, <2>5
<1>6. ASSUME NEW j \in 1 .. Len(calls') PROVE \E i \in 1 .. Len(calls) : calls'[j] = calls[i]
  <2>1. j \in Nat /\ 1 <= j /\ j <= Len(calls) - 1 /\ j + 1 \in 1 .. Len(calls)
    BY <1>1, <1>5
  <2>2. CASE j <= k - 1
    <3>1. j \in 1 .. k - 1 /\ j \in 1 .. Len(calls)
      BY <1>1, <2>1, <2>2
    <3>2. calls'[j] = front[j] /\ front[j] = calls[j]
      BY <1>2, <1>5, <2>2, <3>1
    <3> QED
      BY <3>1, <3>2
  <2>3. CASE ~(j <= k - 1)
    <3> DEFINE i == j - (k - 1)
    <3>1. i \in 1 .. Len(calls) - k /\ k + i = j + 1
      BY <1>1, <2>1, <2>3
    <3>2. calls'[j] = rest[i]
      BY <1>5, <2>3
    <3> HIDE DEF i
    <3>3. rest[i] = calls[k + i]
      BY <1>3, <3>1
    <3> QED
      BY <2>1, <3>1, <3>2, <3>3
  <2> QED
    BY <2>2, <2>3
<1> QED
  BY <1>6

LEMMA CallsStep ==
    ASSUME TypeOK, CallsTake, [Next]_vars
    PROVE  CallsTake'
<1>1. calls \in Seq(Call)
  BY TypeParts DEF StockOK
<1>2. CASE UNCHANGED calls
  BY <1>2 DEF CallsTake
<1>3. ASSUME NEW k \in DOMAIN calls, Handle(k) PROVE CallsTake'
  <2>1. calls' = RemoveAt(calls, k)
    BY <1>3 DEF Handle
  <2> QED
    BY <1>1, <2>1, RemoveCall DEF CallsTake
<1>4. ASSUME NEW i \in DOMAIN rows, NEW n \in Steps(i), AddItemInBasket(i, n) PROVE CallsTake'
  <2> DEFINE c == [item |-> rows[i].item, n |-> n]
  <2>1. rows[i] \in Item
    BY TypeParts DEF ScreenOK
  <2>2. c \in Call /\ c.n >= 1
    BY <2>1, StepsFacts DEF Call, Item
  <2>3. calls' = Append(calls, c)
    BY <1>4 DEF AddItemInBasket
  <2> HIDE DEF c
  <2> QED
    BY <1>1, <2>2, <2>3, AppendFacts DEF CallsTake
<1>5. CASE Network
  BY <1>2, <1>3, <1>5 DEF Network, Change, Listen, ListenFails
<1>6. CASE MainBlocks
  BY <1>2, <1>6 DEF MainBlocks, ShowItems, ListFailed, Added, NotAdded, Run, outside
<1>7. CASE User
  BY <1>2, <1>4, <1>7 DEF User, ShowFilters, LeaveFilters, PressOK, AddOffline, Tapped, outside
<1>8. CASE UNCHANGED vars
  BY <1>2, <1>8 DEF vars
<1> QED
  BY <1>5, <1>6, <1>7, <1>8 DEF Next

(* A call that is handled takes from the stock, is lost or is refused.     *)
LEMMA HandleCases ==
    ASSUME TypeOK, CallsTake, NEW k \in DOMAIN calls, Handle(k)
    PROVE  /\ UNCHANGED <<raised, listening, heard, items>>
           /\ \A h \in Goods : stock'[h] <= stock[h]
           /\ \/ failed'
              \/ /\ UNCHANGED <<failed, queue>>
                 /\ \E g \in Goods : /\ stock[g] > 0 /\ stock'[g] < stock[g]
                                     /\ \A h \in Goods : h # g => stock'[h] = stock[h]
<1>1. calls \in Seq(Call) /\ stock \in [Goods -> 0 .. MaxCount]
  BY TypeParts DEF StockOK
<1>2. calls[k].item \in Goods /\ calls[k].n \in Nat /\ calls[k].n >= 1
  <2>1. calls[k] \in Call /\ k \in 1 .. Len(calls)
    BY <1>1
  <2> QED
    BY <2>1 DEF Call, CallsTake
<1>3. CASE UNCHANGED stock /\ failed'
  <2>1. \A h \in Goods : stock'[h] <= stock[h]
    BY <1>1, <1>3
  <2> QED
    BY <1>3, <2>1 DEF Handle
<1>4. CASE /\ stock[calls[k].item] >= calls[k].n
           /\ stock' = [stock EXCEPT ![calls[k].item] = stock[calls[k].item] - calls[k].n]
           /\ UNCHANGED <<failed, queue>>
  <2> DEFINE g == calls[k].item
             n == calls[k].n
  <2>1. stock[g] >= n /\ stock' = [stock EXCEPT ![g] = stock[g] - n] /\ UNCHANGED <<failed, queue>>
    BY <1>4
  <2>2. g \in Goods /\ n \in Nat /\ n >= 1 /\ stock[g] \in Int
    BY <1>1, <1>2
  <2> HIDE DEF g, n
  <2>3. stock[g] > 0 /\ stock'[g] < stock[g] /\ \A h \in Goods : h # g => stock'[h] = stock[h]
    BY <1>1, <2>1, <2>2
  <2>4. \A h \in Goods : stock'[h] <= stock[h]
    <3>1. \A h \in Goods : stock[h] \in Int /\ stock'[h] \in Int
      BY <1>1, <2>1, <2>2
    <3> QED
      BY <2>3, <3>1
  <2>5. UNCHANGED <<raised, listening, heard, items>>
    BY DEF Handle
  <2> QED
    BY <2>1, <2>2, <2>3, <2>4, <2>5
<1> QED
  BY <1>3, <1>4 DEF Handle

LEMMA StockStep ==
    ASSUME TypeOK, CallsTake, StockFalls, [Next]_vars
    PROVE  StockFalls'
<1>1. stock \in [Goods -> 0 .. MaxCount] /\ stock' \in [Goods -> 0 .. MaxCount] /\ heard \in Seq(Item)
  BY StepTypes DEF TypeOK
<1>2. ASSUME UNCHANGED <<heard, listening>>, raised => raised',
             ~raised' => \A g \in Goods : stock'[g] <= stock[g]
      PROVE  StockFalls'
  <2> SUFFICES ASSUME ~raised', listening' = "on", NEW g \in Goods, stock'[g] > 0
               PROVE  \E i \in 1 .. Len(heard') : heard'[i].item = g /\ heard'[i].count >= stock'[g]
    BY DEF StockFalls
  <2>1. stock[g] \in Int /\ stock'[g] \in Int /\ stock'[g] <= stock[g]
    BY <1>1, <1>2
  <2>2. PICK i \in 1 .. Len(heard) : heard[i].item = g /\ heard[i].count >= stock[g]
    BY <1>2, <2>1 DEF StockFalls
  <2>3. heard[i].count \in Int
    <3>1. heard[i] \in Item
      BY <1>1
    <3> QED
      BY <3>1 DEF Item
  <2> QED
    BY <1>2, <2>1, <2>2, <2>3
<1>3. CASE UNCHANGED <<stock, raised, listening, heard>>
  BY <1>3 DEF StockFalls
<1>4. ASSUME NEW g \in Goods, NEW n \in 0 .. MaxCount, Change(g, n) PROVE StockFalls'
  <2>1. /\ n # stock[g] /\ stock' = [stock EXCEPT ![g] = n] /\ raised' = (raised \/ n > stock[g])
        /\ UNCHANGED <<heard, listening>>
    BY <1>4 DEF Change
  <2>2. ASSUME ~raised', NEW h \in Goods PROVE stock'[h] <= stock[h]
    <3>1. n \in Int /\ stock[g] \in Int /\ stock[h] \in Int
      BY <1>1
    <3>2. ~(n > stock[g]) /\ stock'[h] = IF h = g THEN n ELSE stock[h]
      BY <1>1, <2>1, <2>2
    <3> QED
      BY <3>1, <3>2
  <2> QED
    BY <1>2, <2>1, <2>2
<1>5. CASE Listen
  <2>1. heard' = Listing /\ stock' = stock
    BY <1>5 DEF Listen
  <2>2. \A g \in Goods : stock[g] > 0 =>
           \E i \in 1 .. Len(Listing) : Listing[i].item = g /\ Listing[i].count >= stock[g]
    <3> TAKE g \in Goods
    <3> HAVE stock[g] > 0
    <3>1. PICK i \in 1 .. Len(Listing) : Listing[i].item = g
      BY <1>1, ListingFacts
    <3>2. Listing[i].count = stock[g] /\ stock[g] \in Int
      BY <1>1, <3>1, ListingFacts
    <3> QED
      BY <3>1, <3>2
  <2> QED
    BY <2>1, <2>2 DEF StockFalls
<1>6. CASE ListenFails
  BY <1>6 DEF ListenFails, StockFalls
<1>7. ASSUME NEW k \in DOMAIN calls, Handle(k) PROVE StockFalls'
  BY <1>2, <1>7, HandleCases
<1>8. CASE MainBlocks
  BY <1>3, <1>8 DEF MainBlocks, ShowItems, ListFailed, Added, NotAdded, Run, outside
<1>9. CASE User
  BY <1>3, <1>9 DEF User, ShowFilters, LeaveFilters, PressOK, AddOffline, Tapped, AddItemInBasket, outside
<1>10. CASE UNCHANGED vars
  BY <1>3, <1>10 DEF vars
<1> QED
  BY <1>4, <1>5, <1>6, <1>7, <1>8, <1>9, <1>10 DEF Next, Network

LEMMA CatchStep ==
    ASSUME TypeOK, CallsTake, StockFalls, CatchesUp, [Next]_vars
    PROVE  CatchesUp'
<1> SUFFICES ASSUME ~raised', ~failed', listening' = "on"
             PROVE  (ListComes \/ ListIsThere \/ calls # <<>> \/ IsBehind)'
  BY DEF CatchesUp
<1>1. /\ stock \in [Goods -> 0 .. MaxCount] /\ heard \in Seq(Item) /\ QueueOK
      /\ calls \in Seq(Call) /\ raised \in BOOLEAN /\ failed \in BOOLEAN
  BY TypeParts DEF StockOK
<1>2. ~raised /\ ~failed /\ listening = "on" => ListComes \/ ListIsThere \/ calls # <<>> \/ IsBehind
  BY DEF CatchesUp
<1>3. UNCHANGED <<heard, stock>> => (IsBehind' <=> IsBehind)
  BY DEF IsBehind
<1>4. CASE UNCHANGED <<raised, failed, listening, heard, stock, calls, blocks, items>>
  BY <1>2, <1>4 DEF ListComes, ListIsThere, IsBehind, Places
<1>5. ASSUME NEW g \in Goods, NEW n \in 0 .. MaxCount, Change(g, n)
      PROVE  (ListComes \/ ListIsThere \/ calls # <<>> \/ IsBehind)'
  <2>1. /\ n # stock[g] /\ stock' = [stock EXCEPT ![g] = n] /\ raised' = (raised \/ n > stock[g])
        /\ UNCHANGED <<failed, listening, heard, calls, blocks, items>>
    BY <1>5 DEF Change, queue
  <2>2. ListComes' = ListComes /\ ListIsThere' = ListIsThere
    BY <2>1 DEF ListComes, ListIsThere, Places
  <2>3. IsBehind => IsBehind'
    <3> SUFFICES ASSUME IsBehind PROVE IsBehind'
      OBVIOUS
    <3>0. PICK i \in 1 .. Len(heard) : heard[i].count > stock[heard[i].item]
      BY DEF IsBehind
    <3>1. heard[i] \in Item
      BY <1>1
    <3>2. heard[i].item \in Goods /\ heard[i].count \in Int
      BY <3>1 DEF Item
    <3>3. stock[g] \in Int /\ n \in Int /\ ~(n > stock[g])
      <4>1. stock[g] \in Int /\ n \in Int
        BY <1>1
      <4>2. ~(n > stock[g])
        BY <2>1
      <4> QED
        BY <4>1, <4>2
    <3>4. stock'[heard[i].item] = IF heard[i].item = g THEN n ELSE stock[heard[i].item]
      BY <1>1, <2>1, <3>2
    <3>5. stock[heard[i].item] \in Int
      BY <1>1, <3>2
    <3>6. heard[i].count > stock'[heard[i].item]
      BY <3>0, <3>2, <3>3, <3>4, <3>5
    <3> QED
      BY <2>1, <3>6 DEF IsBehind
  <2>4. ~raised /\ ~failed /\ listening = "on"
    BY <1>1, <2>1
  <2> QED
    BY <1>2, <2>1, <2>2, <2>3, <2>4
<1>6. CASE Listen
  <2> DEFINE b == [what |-> "items", items |-> Listing]
  <2>1. Listing \in Seq(Item)
    BY <1>1, ListingFacts
  <2>2. b \in Block /\ b.what = "items" /\ b.items = heard' /\ Send(b)
    BY <1>6, <2>1 DEF Block, Listen
  <2> HIDE DEF b
  <2>3. Puts(b) /\ Len(blocks) \in Nat
    BY <1>1, <2>2, SendPuts DEF QueueOK
  <2>4. \A j \in Places' : ~(j > Len(blocks) + 1)
    <3>1. \A j \in Places' : j \in Places \/ j = Len(blocks) + 1
      BY <2>3 DEF Puts
    <3> QED
      BY <2>3, <3>1 DEF Places
  <2>5. Len(blocks) + 1 \in Places' /\ blocks'[Len(blocks) + 1] = b
    BY <2>3 DEF Puts
  <2> QED
    BY <2>2, <2>4, <2>5 DEF ListComes
<1>7. ASSUME NEW k \in DOMAIN calls, Handle(k) PROVE IsBehind'
  <2>1. UNCHANGED <<raised, listening, heard>> /\ \A h \in Goods : stock'[h] <= stock[h]
    BY <1>7, HandleCases
  <2>2. PICK g \in Goods : stock[g] > 0 /\ stock'[g] < stock[g]
    BY <1>7, HandleCases
  <2>3. PICK i \in 1 .. Len(heard) : heard[i].item = g /\ heard[i].count >= stock[g]
    BY <2>1, <2>2 DEF StockFalls
  <2>4. heard[i] \in Item /\ stock[g] \in Int
    BY <1>1
  <2>5. heard[i].count \in Int /\ stock'[g] \in Int
    <3>1. stock' \in [Goods -> 0 .. MaxCount]
      BY StepTypes DEF TypeOK
    <3> QED
      BY <2>4, <3>1 DEF Item
  <2>6. heard[i].count > stock'[heard[i].item]
    BY <2>2, <2>3, <2>4, <2>5
  <2> QED
    BY <2>1, <2>6 DEF IsBehind
<1>8. ASSUME NEW what, Takes(what), UNCHANGED outside,
             what = "items" => items' = Head(blocks).items,
             what \notin {"items", "added"} => items' = items
      PROVE  (ListComes \/ ListIsThere \/ calls # <<>> \/ IsBehind)'
  <2>1. UNCHANGED <<stock, raised, failed, listening, heard, calls>>
    BY <1>8 DEF outside
  <2>2. \A i \in Places' : i + 1 \in Places /\ blocks'[i] = blocks[i + 1] /\ i \in Nat
    BY <1>8 DEF Takes, Places
  <2>3. 1 \in Places /\ blocks[1] = Head(blocks) /\ blocks[1].what = what
    BY <1>8 DEF Takes
  <2>4. \A i \in Places : i = 1 \/ (i > 1 /\ i - 1 \in Places' /\ blocks'[i - 1] = blocks[i] /\ i \in Nat)
    BY <1>8 DEF Takes, Places
  <2>5. CASE ListComes
    <3>1. PICK i \in Places : /\ blocks[i].what = "items" /\ blocks[i].items = heard
                              /\ \A j \in Places : j > i => blocks[j].what \notin {"items", "added"}
      BY <2>5 DEF ListComes
    <3>2. CASE i = 1
      <4>0. \A j \in Places' : j + 1 > 1
        BY DEF Places
      <4>1. items' = heard' /\ \A j \in Places' : j + 1 > 1
        BY <1>8, <2>1, <2>3, <3>1, <3>2, <4>0
      <4>2. \A j \in Places' : blocks'[j].what \notin {"items", "added"}
        BY <2>2, <3>1, <3>2, <4>1
      <4> QED
        BY <4>1, <4>2 DEF ListIsThere
    <3>3. CASE i # 1
      <4>1. i - 1 \in Places' /\ blocks'[i - 1] = blocks[i] /\ i \in Nat
        BY <2>4, <3>3
      <4>2. \A j \in Places' : j > i - 1 => j + 1 > i
        BY <2>2, <4>1, <1>1
      <4>3. \A j \in Places' : j > i - 1 => blocks'[j].what \notin {"items", "added"}
        BY <2>2, <3>1, <4>2
      <4> QED
        BY <2>1, <3>1, <4>1, <4>3 DEF ListComes
    <3> QED
      BY <3>2, <3>3
  <2>6. CASE ListIsThere
    <3>1. items' = items
      BY <1>8, <2>3, <2>6 DEF ListIsThere
    <3>2. \A j \in Places' : blocks'[j].what \notin {"items", "added"}
      BY <2>2, <2>6 DEF ListIsThere
    <3> QED
      BY <2>1, <2>6, <3>1, <3>2 DEF ListIsThere
  <2> QED
    BY <1>2, <1>3, <2>1, <2>5, <2>6
<1>9. CASE MainBlocks
  <2>1. CASE ShowItems
    BY <1>8, <2>1, RunTakes DEF ShowItems
  <2>2. CASE ListFailed
    BY <1>8, <2>2, RunTakes DEF ListFailed, Failure
  <2>3. CASE Added
    <3>1. Takes("added") /\ UNCHANGED outside
      BY <2>3, RunTakes DEF Added
    <3> QED
      BY <1>8, <3>1
  <2>4. CASE NotAdded
    BY <1>8, <2>4, RunTakes DEF NotAdded
  <2> QED
    BY <1>9, <2>1, <2>2, <2>3, <2>4 DEF MainBlocks
<1>10. CASE ShowFilters \/ LeaveFilters \/ PressOK \/ AddOffline \/ \E m \in makers : Tapped(m)
  <2>1. Between(blocks) /\ UNCHANGED outside /\ UNCHANGED items
    BY <1>10 DEF ShowFilters, LeaveFilters, PressOK, AddOffline, Failure, Tapped
  <2>2. blocks' = blocks
    BY <2>1 DEF Between
  <2> QED
    BY <1>4, <2>1, <2>2 DEF outside
<1>11. ASSUME NEW i \in DOMAIN rows, NEW n \in Steps(i), AddItemInBasket(i, n) PROVE calls' # <<>>
  <2> DEFINE c == [item |-> rows[i].item, n |-> n]
  <2>1. calls' = Append(calls, c)
    BY <1>11 DEF AddItemInBasket
  <2> HIDE DEF c
  <2> QED
    BY <1>1, <2>1
<1>12. CASE UNCHANGED vars
  BY <1>4, <1>12 DEF vars
<1>13. ~ListenFails
  BY DEF ListenFails
<1> QED
  BY <1>5, <1>6, <1>7, <1>9, <1>10, <1>11, <1>12, <1>13 DEF Next, Network, User

-----------------------------------------------------------------------------
(* The inductive invariant.                                                *)
CategoryInv ==
    /\ TypeOK
    /\ OneReport /\ TableFollowsFilters /\ LoadingCloses
    /\ CallsTake /\ StockFalls /\ CatchesUp

LEMMA CategoryInit == Init => CategoryInv
<1> SUFFICES ASSUME Init PROVE CategoryInv
  OBVIOUS
<1>1. TypeOK
  BY InitTypes
<1>2. /\ blocks = <<>> /\ items = <<>> /\ rows = <<>> /\ calls = <<>>
      /\ listening = "new" /\ alert.kind = "none"
  BY DEF Init, Plain
<1>3. OneReport /\ CallsTake
  BY <1>2 DEF OneReport, Places, CallsTake
<1>4. TableFollowsFilters /\ LoadingCloses /\ StockFalls /\ CatchesUp
  BY <1>2 DEF TableFollowsFilters, LoadingCloses, StockFalls, CatchesUp
<1> QED
  BY <1>1, <1>3, <1>4 DEF CategoryInv

LEMMA CategoryStep ==
    ASSUME CategoryInv, [Next]_vars
    PROVE  CategoryInv'
<1>1. /\ TypeOK /\ OneReport /\ TableFollowsFilters /\ LoadingCloses
      /\ CallsTake /\ StockFalls /\ CatchesUp
  BY DEF CategoryInv
<1>2. TypeOK' /\ OneReport' /\ TableFollowsFilters' /\ LoadingCloses'
  BY <1>1, StepTypes, ReportStep, FollowStep, LoadingStep
<1>3. CallsTake' /\ StockFalls' /\ CatchesUp'
  BY <1>1, CallsStep, StockStep, CatchStep
<1> QED
  BY <1>2, <1>3 DEF CategoryInv

(* Lists, reports, calls and taps in any order keep what follows.          *)
THEOREM CategoryInvariant == Spec => []CategoryInv
<1>1. CategoryInv /\ [Next]_vars => CategoryInv'
  BY CategoryStep
<1> QED
  BY <1>1, CategoryInit, PTL DEF Spec

(* The rows are all items, those that are left, or those that the filters  *)
(* let through; filters that were given up never stay in force.            *)
THEOREM FiltersTheorem == Spec => []TableFollowsFilters
<1>1. CategoryInv => TableFollowsFilters
  BY DEF CategoryInv
<1> QED
  BY <1>1, CategoryInvariant, PTL

(* "Загрузка..." is always followed by the report that closes it.          *)
THEOREM LoadingTheorem == Spec => []LoadingCloses
<1>1. CategoryInv => LoadingCloses
  BY DEF CategoryInv
<1> QED
  BY <1>1, CategoryInvariant, PTL

(* Adds through stale indices lower the wrong counts, but at rest the      *)
(* presenter's list is the catalogue again, if no call failed and nothing  *)
(* came back into the stock.                                               *)
THEOREM CatchesUpTheorem == Spec => []ScreenCatchesUp
<1>1. CategoryInv => ScreenCatchesUp
  <2> SUFFICES ASSUME CategoryInv, AtRest, ~raised, ~failed PROVE items = Listing
    BY DEF ScreenCatchesUp
  <2>1. calls = <<>> /\ blocks = <<>> /\ listening = "on" /\ heard = Listing
    BY DEF AtRest
  <2>2. CatchesUp /\ stock \in [Goods -> 0 .. MaxCount]
    BY TypeParts DEF CategoryInv, StockOK
  <2>3. ~ListComes
    BY <2>1 DEF ListComes, Places
  <2>4. ~IsBehind
    <3>1. ASSUME NEW i \in 1 .. Len(Listing) PROVE ~(Listing[i].count > stock[Listing[i].item])
      <4>1. Listing[i].item \in Goods /\ Listing[i].count = stock[Listing[i].item]
        BY <2>2, ListingFacts
      <4>2. stock[Listing[i].item] \in Int
        BY <2>2, <4>1
      <4> QED
        BY <4>1, <4>2
    <3> QED
      BY <2>1, <3>1 DEF IsBehind
  <2>5. ListIsThere
    BY <2>1, <2>2, <2>3, <2>4 DEF CatchesUp
  <2> QED
    BY <2>1, <2>5 DEF ListIsThere
<1> QED
  BY <1>1, CategoryInvariant, PTL
=============================================================================
