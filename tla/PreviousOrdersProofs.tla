------------------------- MODULE PreviousOrdersProofs -------------------------
(***************************************************************************)
(* Theorems of PreviousOrders, for any orders with any items, any number   *)
(* of changes and appearances, and any length of the main queue.           *)
(***************************************************************************)
EXTENDS PreviousOrders, ListLemmas

Databases == UNION {[S -> 0 .. MaxChanges] : S \in SUBSET Orders}
Listener  == [on : {"new", "on", "off"}, heard : Seq(Order)]
Places    == 1 .. Len(blocks)

(* The answers that wait on the main queue, and all lookups that were not  *)
(* put into the list yet.                                                  *)
Found   == {i \in Places : blocks[i].what = "found"}
Answers == {blocks[i].of : i \in Found}
Pending == lookups \cup Answers
Out(r)  == {l \in Pending : l.round = r}

(* A list as it comes from the database, and one that may be filled.       *)
Unfilled(list) ==
    \A i \in 1 .. Len(list) :
        list[i].names = [j \in DOMAIN ItemsOf[list[i].id] |-> NoName]
Whole(list) == \A i \in 1 .. Len(list) : DOMAIN list[i].names = DOMAIN ItemsOf[list[i].id]

-----------------------------------------------------------------------------
(* The operators of the model.                                             *)

LEMMA OrderFacts ==
    ASSUME NEW o \in Orders
    PROVE  /\ ItemsOf[o] \in Seq(Nat) /\ Len(ItemsOf[o]) \in Nat /\ 1 \in 1 .. Len(ItemsOf[o])
           /\ DOMAIN ItemsOf[o] = 1 .. Len(ItemsOf[o]) /\ IsFiniteSet(DOMAIN ItemsOf[o])
           /\ \A j \in DOMAIN ItemsOf[o] : ItemsOf[o][j] \in Nat /\ ItemsOf[o][j] # NoName
<1>1. ItemsOf[o] \in Seq(Nat \ {NoName}) /\ ItemsOf[o] # <<>>
  BY PreviousOrdersAssumption
<1> DEFINE s == ItemsOf[o]
<1> HIDE DEF s
<1>2. s \in Seq(Nat \ {NoName}) /\ s # <<>>
  BY <1>1 DEF s
<1>3. /\ s \in Seq(Nat) /\ Len(s) \in Nat /\ 1 \in 1 .. Len(s) /\ DOMAIN s = 1 .. Len(s)
      /\ \A j \in DOMAIN s : s[j] \in Nat /\ s[j] # NoName
  BY <1>2
<1>4. IsFiniteSet(DOMAIN s)
  BY <1>3, FS_Interval
<1> QED
  BY <1>3, <1>4 DEF s

(* The listener is called with a list of all orders, none of them filled.  *)
LEMMA ListingFacts ==
    ASSUME placed \in Databases
    PROVE  /\ Listing \in Seq(Order) /\ Unfilled(Listing)
           /\ IsFiniteSet(DOMAIN placed) /\ Len(Listing) = Cardinality(DOMAIN placed)
<1> DEFINE R == {p \in Order \X Order : p[1].id < p[2].id}
<1>1. PICK S \in SUBSET Orders : placed \in [S -> 0 .. MaxChanges]
  BY DEF Databases
<1>2. DOMAIN placed = S
  BY <1>1
<1>3. \A x \in Documents : x \in Order /\ x.names = [j \in DOMAIN ItemsOf[x.id] |-> NoName]
  <2> TAKE x \in Documents
  <2>1. PICK o \in S : x = [id |-> o, status |-> placed[o],
                            names |-> [j \in DOMAIN ItemsOf[o] |-> NoName]]
    BY <1>2 DEF Documents
  <2>2. [j \in DOMAIN ItemsOf[o] |-> NoName] \in Seq(Nat)
    BY OrderFacts, PreviousOrdersAssumption
  <2>3. placed[o] \in Nat
    BY <1>1
  <2> QED
    BY <2>1, <2>2, <2>3 DEF Order
<1>4. Documents \subseteq Order
  BY <1>3
<1>5. IsFiniteSet(S) /\ IsFiniteSet(Documents) /\ Cardinality(Documents) = Cardinality(S)
  <2> DEFINE doc == [o \in S |-> [id |-> o, status |-> placed[o],
                                  names |-> [j \in DOMAIN ItemsOf[o] |-> NoName]]]
  <2>1. doc \in Surjection(S, Documents)
    BY <1>2 DEF Documents, Surjection
  <2>2. doc \in Injection(S, Documents)
    <3>1. \A o \in S : doc[o].id = o
      OBVIOUS
    <3>2. doc \in [S -> Documents]
      BY <2>1 DEF Surjection
    <3> HIDE DEF doc
    <3> QED
      BY <3>1, <3>2 DEF Injection, IsInjective
  <2>3. IsFiniteSet(S)
    BY PreviousOrdersAssumption, FS_Subset
  <2> HIDE DEF doc
  <2> QED
    BY <2>1, <2>2, <2>3, FS_Surjection
<1>6. \A x, y \in Documents : <<x, y>> \in R <=> x.id < y.id
  BY <1>4
<1>7. \A x, y \in Documents : x.id = y.id => x = y
  BY <1>2 DEF Documents
<1>8. \A x \in Documents : x.id \in Int
  BY <1>4, PreviousOrdersAssumption DEF Order
<1> HIDE DEF R
<1>9. StrictOrder(R, Documents)
  BY <1>6, <1>7, <1>8 DEF StrictOrder
<1>10. Cardinality(Documents) \in Nat
  BY <1>5, FS_CardinalityType
<1>11. \E list \in [1 .. Cardinality(Documents) -> Documents] :
          \A i, j \in DOMAIN list : i < j => list[i].id < list[j].id
  <2>1. PICK list : Ascends(list, Documents, R)
    BY <1>5, <1>9, SortedExists
  <2>2. list \in [1 .. Cardinality(Documents) -> Documents]
    BY <2>1 DEF Ascends
  <2>3. \A i, j \in DOMAIN list : i < j => list[i].id < list[j].id
    BY <2>1, <2>2, <1>6 DEF Ascends
  <2> QED
    BY <2>2, <2>3
<1>12. Listing \in [1 .. Cardinality(Documents) -> Documents]
  BY <1>11 DEF Listing
<1>13. Len(Listing) = Cardinality(Documents) /\ Listing \in Seq(Order)
  BY <1>4, <1>10, <1>12
<1>14. \A i \in 1 .. Len(Listing) : Listing[i] \in Documents
  BY <1>12, <1>13
<1> QED
  BY <1>2, <1>3, <1>5, <1>13, <1>14 DEF Unfilled

(* The lookups of round r.                                                 *)
PlacesOf(list) == UNION {{<<i, j, j>> : j \in DOMAIN list[i].names} : i \in DOMAIN list}
Asked(list, r) ==
    {[round |-> r, order |-> p[1], item |-> p[2], id |-> ItemsOf[list[p[1]].id][p[3]]] :
        p \in PlacesOf(list)}

LEMMA UnfilledIsWhole ==
    ASSUME NEW list, Unfilled(list)
    PROVE  Whole(list)
BY DEF Unfilled, Whole

LEMMA PlacesOfFacts ==
    ASSUME NEW list \in Seq(Order), Whole(list)
    PROVE  /\ IsFiniteSet(PlacesOf(list)) /\ Cardinality(PlacesOf(list)) \in Nat
           /\ \A i \in 1 .. Len(list) :
                  list[i].id \in Orders /\ DOMAIN list[i].names = DOMAIN ItemsOf[list[i].id]
<1>1. Len(list) \in Nat /\ DOMAIN list = 1 .. Len(list) /\ \A i \in 1 .. Len(list) : list[i] \in Order
  OBVIOUS
<1>2. \A i \in 1 .. Len(list) :
         list[i].id \in Orders /\ DOMAIN list[i].names = DOMAIN ItemsOf[list[i].id]
  BY <1>1 DEF Order, Whole
<1> DEFINE at == [i \in 1 .. Len(list) |-> {<<i, j, j>> : j \in DOMAIN list[i].names}]
           Rows == {{<<i, j, j>> : j \in DOMAIN list[i].names} : i \in DOMAIN list}
<1>3. ASSUME NEW i \in 1 .. Len(list) PROVE IsFiniteSet(at[i])
  <2> DEFINE D == DOMAIN list[i].names
             to == [j \in D |-> <<i, j, j>>]
  <2>1. IsFiniteSet(D)
    <3>1. list[i].id \in Orders /\ D = DOMAIN ItemsOf[list[i].id]
      BY <1>2
    <3>2. IsFiniteSet(DOMAIN ItemsOf[list[i].id])
      BY <3>1, OrderFacts
    <3> HIDE DEF D
    <3> QED
      BY <3>1, <3>2
  <2>2. at[i] = {<<i, j, j>> : j \in D}
    OBVIOUS
  <2>3. to \in Surjection(D, {<<i, j, j>> : j \in D})
    BY DEF Surjection
  <2> HIDE DEF D, to, at
  <2> QED
    BY <2>1, <2>2, <2>3, FS_Surjection
<1>4. IsFiniteSet(Rows)
  <2>1. at \in Surjection(1 .. Len(list), Rows)
    BY <1>1 DEF Surjection
  <2>2. IsFiniteSet(1 .. Len(list))
    BY <1>1, FS_Interval
  <2> HIDE DEF at, Rows
  <2> QED
    BY <2>1, <2>2, FS_Surjection
<1>5. \A T \in Rows : IsFiniteSet(T)
  BY <1>1, <1>3
<1>6. PlacesOf(list) = UNION Rows
  BY DEF PlacesOf
<1> HIDE DEF Rows
<1>7. IsFiniteSet(PlacesOf(list))
  BY <1>4, <1>5, <1>6, FS_UNION
<1> QED
  BY <1>2, <1>7, FS_CardinalityType

LEMMA AskedFacts ==
    ASSUME NEW list \in Seq(Order), Whole(list), NEW r \in Nat
    PROVE  /\ IsFiniteSet(Asked(list, r))
           /\ Cardinality(Asked(list, r)) = Cardinality(PlacesOf(list))
           /\ \A l \in Asked(list, r) :
                  /\ l \in Lookup /\ l.round = r /\ l.id # NoName
                  /\ l.order \in 1 .. Len(list) /\ l.item \in DOMAIN list[l.order].names
                  /\ l.id = ItemsOf[list[l.order].id][l.item]
           /\ \A i \in 1 .. Len(list) : \A j \in DOMAIN list[i].names :
                  \E l \in Asked(list, r) : l.order = i /\ l.item = j
           /\ list # <<>> => Asked(list, r) # {}
<1> DEFINE ask(p) == [round |-> r, order |-> p[1], item |-> p[2],
                      id |-> ItemsOf[list[p[1]].id][p[3]]]
<1>1. DOMAIN list = 1 .. Len(list) /\ Len(list) \in Nat
  OBVIOUS
<1>2. /\ IsFiniteSet(PlacesOf(list))
      /\ \A i \in 1 .. Len(list) :
             list[i].id \in Orders /\ DOMAIN list[i].names = DOMAIN ItemsOf[list[i].id]
  BY PlacesOfFacts
<1>3. \A p \in PlacesOf(list) :
         p[1] \in 1 .. Len(list) /\ p[2] \in DOMAIN list[p[1]].names /\ p = <<p[1], p[2], p[2]>>
  BY <1>1 DEF PlacesOf
<1>4. \A i \in 1 .. Len(list) : \A j \in DOMAIN list[i].names : <<i, j, j>> \in PlacesOf(list)
  BY <1>1 DEF PlacesOf
<1>5. Asked(list, r) = {ask(p) : p \in PlacesOf(list)}
  BY DEF Asked
<1>6. ASSUME NEW l \in Asked(list, r)
      PROVE  /\ l \in Lookup /\ l.round = r /\ l.id # NoName
             /\ l.order \in 1 .. Len(list) /\ l.item \in DOMAIN list[l.order].names
             /\ l.id = ItemsOf[list[l.order].id][l.item]
  <2>1. PICK p \in PlacesOf(list) : l = ask(p)
    BY <1>5
  <2>2. p[1] \in 1 .. Len(list) /\ p[2] \in DOMAIN list[p[1]].names /\ p[3] = p[2]
    BY <1>3
  <2>3. list[p[1]].id \in Orders /\ p[2] \in DOMAIN ItemsOf[list[p[1]].id]
    BY <1>2, <2>2
  <2>4. /\ ItemsOf[list[p[1]].id][p[2]] \in Nat /\ ItemsOf[list[p[1]].id][p[2]] # NoName
        /\ p[2] \in Nat /\ p[1] \in Nat
    <3> DEFINE o == list[p[1]].id
               k == p[2]
    <3>1. o \in Orders /\ k \in DOMAIN ItemsOf[o]
      BY <2>3
    <3>2. p[1] \in Nat
      BY <1>1, <2>2
    <3> HIDE DEF o, k
    <3>3. ItemsOf[o][k] \in Nat /\ ItemsOf[o][k] # NoName /\ k \in Nat
      BY <3>1, OrderFacts
    <3> QED
      BY <3>2, <3>3 DEF o, k
  <2>5. /\ l.round = r /\ l.order = p[1] /\ l.item = p[2] /\ l.id = ItemsOf[list[p[1]].id][p[2]]
        /\ l = [round |-> r, order |-> p[1], item |-> p[2], id |-> ItemsOf[list[p[1]].id][p[2]]]
    BY <2>1, <2>2
  <2> QED
    BY <2>2, <2>4, <2>5 DEF Lookup
<1>7. ASSUME NEW i \in 1 .. Len(list), NEW j \in DOMAIN list[i].names
      PROVE  \E l \in Asked(list, r) : l.order = i /\ l.item = j
  <2>1. <<i, j, j>> \in PlacesOf(list)
    BY <1>4
  <2>2. ask(<<i, j, j>>) \in Asked(list, r)
    BY <1>5, <2>1
  <2>3. ask(<<i, j, j>>).order = i /\ ask(<<i, j, j>>).item = j
    OBVIOUS
  <2> QED
    BY <2>2, <2>3
<1>8. ASSUME list # <<>> PROVE Asked(list, r) # {}
  <2>1. 1 \in 1 .. Len(list)
    BY <1>8
  <2>2. 1 \in DOMAIN list[1].names
    BY <1>2, <2>1, OrderFacts
  <2> QED
    BY <1>7, <2>1, <2>2
<1>9. /\ IsFiniteSet(Asked(list, r))
      /\ Cardinality(Asked(list, r)) = Cardinality(PlacesOf(list))
  <2> DEFINE f == [p \in PlacesOf(list) |-> ask(p)]
  <2>1. f \in Surjection(PlacesOf(list), Asked(list, r))
    BY <1>5 DEF Surjection
  <2>2. f \in Injection(PlacesOf(list), Asked(list, r))
    <3>1. \A p \in PlacesOf(list) : f[p].order = p[1] /\ f[p].item = p[2]
      OBVIOUS
    <3>2. f \in [PlacesOf(list) -> Asked(list, r)]
      BY <2>1 DEF Surjection
    <3> HIDE DEF f
    <3>3. \A p, q \in PlacesOf(list) : f[p] = f[q] => p = q
      BY <1>3, <3>1
    <3> QED
      BY <3>2, <3>3 DEF Injection, IsInjective
  <2> HIDE DEF f
  <2> QED
    BY <1>2, <2>1, <2>2, FS_Surjection
<1> QED
  BY <1>6, <1>7, <1>8, <1>9

-----------------------------------------------------------------------------
(* The main queue.                                                         *)

LEMMA BlockFacts ==
    ASSUME NEW b \in Block
    PROVE  /\ b.what \in {"orders", "found", "table", "error"}
           /\ b.what = "orders" => b.orders \in Seq(Order)
           /\ b.what = "found" => b.of \in Lookup
BY DEF Block

LEMMA BlocksOfAllKinds ==
    /\ \A list \in Seq(Order) : [what |-> "orders", orders |-> list] \in Block
    /\ \A l \in Lookup : [what |-> "found", of |-> l] \in Block
    /\ [what |-> "table"] \in Block /\ [what |-> "error"] \in Block
BY DEF Block

(* The type invariant in parts, as the steps leave them alone.             *)
DataOK    == placed \in Databases /\ changes \in 0 .. MaxChanges
ListensOK == listeners \in Seq(Listener)
LookupsOK == lookups \subseteq Lookup
LeftOK    == left \in Seq(Nat)
OrdersOK  == orders \in Seq(Order)
RowsOK    == rows \in Seq(Order)
AlertOK   == alert \in Alerts
HistoryOK == replaced \in BOOLEAN /\ shrunk \in BOOLEAN /\ failed \in BOOLEAN
QueueOK   == blocks \in Seq(Block) /\ due \in 0 .. Len(blocks)

LEMMA TypeParts ==
    TypeOK <=> /\ DataOK /\ ListensOK /\ LookupsOK /\ LeftOK /\ OrdersOK /\ RowsOK
               /\ AlertOK /\ HistoryOK /\ QueueOK
BY DEF TypeOK, DataOK, ListensOK, LookupsOK, LeftOK, OrdersOK, RowsOK, AlertOK, HistoryOK,
       QueueOK, Databases, Listener

LEMMA PartsNext ==
    ASSUME DataOK', ListensOK', LookupsOK', LeftOK', OrdersOK', RowsOK', AlertOK', HistoryOK',
           QueueOK'
    PROVE  TypeOK'
BY DEF TypeOK, DataOK, ListensOK, LookupsOK, LeftOK, OrdersOK, RowsOK, AlertOK, HistoryOK,
       QueueOK, Databases, Listener

LEMMA PartsKept ==
    ASSUME TypeOK
    PROVE  /\ UNCHANGED <<placed, changes>> => DataOK'
           /\ UNCHANGED listeners => ListensOK'
           /\ UNCHANGED lookups => LookupsOK'
           /\ UNCHANGED left => LeftOK'
           /\ UNCHANGED orders => OrdersOK'
           /\ UNCHANGED rows => RowsOK'
           /\ UNCHANGED alert => AlertOK'
           /\ UNCHANGED history => HistoryOK'
           /\ UNCHANGED queue => QueueOK'
<1>1. /\ DataOK /\ ListensOK /\ LookupsOK /\ LeftOK /\ OrdersOK /\ RowsOK
      /\ AlertOK /\ HistoryOK /\ QueueOK
  BY TypeParts
<1>2. UNCHANGED <<placed, changes>> => DataOK'
  BY <1>1 DEF DataOK, Databases
<1>3. UNCHANGED listeners => ListensOK'
  BY <1>1 DEF ListensOK
<1>4. UNCHANGED lookups => LookupsOK'
  BY <1>1 DEF LookupsOK
<1>5. UNCHANGED left => LeftOK'
  BY <1>1 DEF LeftOK
<1>6. UNCHANGED orders => OrdersOK'
  BY <1>1 DEF OrdersOK
<1>7. UNCHANGED rows => RowsOK'
  BY <1>1 DEF RowsOK
<1>8. UNCHANGED alert => AlertOK'
  BY <1>1 DEF AlertOK
<1>9. UNCHANGED history => HistoryOK'
  BY <1>1 DEF history, HistoryOK
<1>10. UNCHANGED queue => QueueOK'
  BY <1>1 DEF queue, QueueOK
<1> QED
  BY <1>2, <1>3, <1>4, <1>5, <1>6, <1>7, <1>8, <1>9, <1>10

(* The first block is taken: the others move up, and perhaps the table is  *)
(* asked for behind them.                                                  *)
Takes(what) ==
    /\ Head(blocks) \in Block /\ Head(blocks).what = what
    /\ 1 \in Places /\ blocks[1] = Head(blocks)
    /\ \A i \in Places' : \/ i + 1 \in Places /\ blocks'[i] = blocks[i + 1]
                          \/ i + 1 \notin Places /\ blocks'[i].what = "table"
    /\ \A i \in Places : i = 1 \/ (i > 1 /\ i - 1 \in Places' /\ blocks'[i - 1] = blocks[i])

(* A block is put behind the others.                                       *)
Puts(b) ==
    /\ Len(blocks) + 1 \in Places' /\ blocks'[Len(blocks) + 1] = b
    /\ \A i \in Places : i \in Places' /\ blocks'[i] = blocks[i] /\ i < Len(blocks) + 1
    /\ \A i \in Places' : i \in Places \/ i = Len(blocks) + 1

LEMMA TailTakes ==
    ASSUME QueueOK, NEW what, blocks # <<>>, Head(blocks).what = what, blocks' = Tail(blocks),
           due' = IF due > 0 THEN due - 1 ELSE 0
    PROVE  Takes(what) /\ QueueOK'
<1>1. blocks \in Seq(Block) /\ due \in 0 .. Len(blocks)
  BY DEF QueueOK
<1>2. /\ Head(blocks) = blocks[1] /\ blocks[1] \in Block /\ 1 \in Places
      /\ blocks' \in Seq(Block) /\ Len(blocks') = Len(blocks) - 1
      /\ \A i \in Places' : i + 1 \in Places /\ blocks'[i] = blocks[i + 1]
      /\ \A i \in Places : i = 1 \/ (i > 1 /\ i - 1 \in Places' /\ blocks'[i - 1] = blocks[i])
  BY <1>1, TailFacts DEF Places
<1>3. Len(blocks) \in Nat /\ Len(blocks') \in Nat
  BY <1>2
<1>4. due' \in 0 .. Len(blocks')
  BY <1>1, <1>2, <1>3
<1> QED
  BY <1>1, <1>2, <1>4 DEF Takes, QueueOK

LEMMA AppendTakes ==
    ASSUME QueueOK, NEW what, blocks # <<>>, Head(blocks).what = what,
           blocks' = Tail(blocks) \o <<[what |-> "table"]>>,
           due' = IF due > 0 THEN due - 1 ELSE 0
    PROVE  Takes(what) /\ QueueOK' /\ \E i \in Places' : blocks'[i].what = "table"
<1> DEFINE t == [what |-> "table"]
           rest == Tail(blocks)
<1>1. blocks \in Seq(Block) /\ due \in 0 .. Len(blocks) /\ t \in Block
  BY BlocksOfAllKinds DEF QueueOK
<1>2. /\ Head(blocks) = blocks[1] /\ blocks[1] \in Block /\ 1 \in Places
      /\ rest \in Seq(Block) /\ Len(rest) = Len(blocks) - 1
      /\ \A i \in 1 .. Len(rest) : i + 1 \in Places /\ rest[i] = blocks[i + 1]
      /\ \A i \in Places : i = 1 \/ (i > 1 /\ i - 1 \in 1 .. Len(rest) /\ rest[i - 1] = blocks[i])
  BY <1>1, TailFacts DEF Places
<1> HIDE DEF rest, t
<1>3. blocks' = Append(rest, t)
  <2>1. rest \o <<t>> = Append(rest, t)
    BY <1>1, <1>2
  <2> QED
    BY <2>1 DEF rest, t
<1>4. /\ blocks' \in Seq(Block) /\ Len(blocks') = Len(rest) + 1
      /\ \A i \in 1 .. Len(rest) : i \in 1 .. Len(blocks') /\ blocks'[i] = rest[i]
      /\ blocks'[Len(rest) + 1] = t /\ Len(rest) + 1 \in 1 .. Len(blocks')
      /\ \A i \in 1 .. Len(blocks') : i \in 1 .. Len(rest) \/ i = Len(rest) + 1
  BY <1>1, <1>2, <1>3, AppendFacts
<1>5. Len(blocks) \in Nat /\ Len(rest) \in Nat /\ Len(rest) + 2 \notin Places
  BY <1>2 DEF Places
<1>6. due' \in 0 .. Len(blocks')
  BY <1>1, <1>2, <1>4, <1>5
<1>7. t.what = "table"
  BY DEF t
<1>8. ASSUME NEW i \in Places'
      PROVE  \/ i + 1 \in Places /\ blocks'[i] = blocks[i + 1]
             \/ i + 1 \notin Places /\ blocks'[i].what = "table"
  <2>1. CASE i \in 1 .. Len(rest)
    BY <1>2, <1>4, <2>1
  <2>2. CASE i = Len(rest) + 1
    BY <1>4, <1>5, <1>7, <2>2
  <2> QED
    BY <1>4, <2>1, <2>2 DEF Places
<1>9. \A i \in Places : i = 1 \/ (i > 1 /\ i - 1 \in Places' /\ blocks'[i - 1] = blocks[i])
  BY <1>2, <1>4 DEF Places
<1>10. Takes(what)
  BY <1>2, <1>8, <1>9 DEF Takes
<1> QED
  BY <1>4, <1>6, <1>7, <1>10 DEF QueueOK, Places

LEMMA SendPuts ==
    ASSUME QueueOK, NEW b \in Block, Send(b)
    PROVE  Puts(b) /\ QueueOK'
<1>1. /\ blocks' = Append(blocks, b) /\ due' = due
      /\ blocks \in Seq(Block) /\ Len(blocks) \in Nat /\ due \in 0 .. Len(blocks)
  BY DEF QueueOK, Send
<1>2. /\ blocks' \in Seq(Block) /\ Len(blocks') = Len(blocks) + 1
      /\ \A i \in Places : i \in Places' /\ blocks'[i] = blocks[i]
      /\ blocks'[Len(blocks) + 1] = b /\ Len(blocks) + 1 \in Places'
      /\ \A i \in Places' : i \in Places \/ i = Len(blocks) + 1
  BY <1>1, AppendFacts DEF Places
<1>3. \A i \in Places : i < Len(blocks) + 1
  BY <1>1 DEF Places
<1>4. due' \in 0 .. Len(blocks')
  BY <1>1, <1>2
<1> QED
  BY <1>2, <1>3, <1>4 DEF Puts, QueueOK

LEMMA BetweenFacts ==
    ASSUME QueueOK, Between(blocks)
    PROVE  blocks' = blocks /\ QueueOK' /\ Places' = Places
<1>1. blocks' = blocks /\ due' = Len(blocks) /\ Len(blocks) \in Nat
  BY DEF Between, QueueOK
<1> QED
  BY <1>1 DEF Places, QueueOK

LEMMA RunTakes ==
    ASSUME TypeOK, NEW what, Run(what)
    PROVE  /\ Takes(what) /\ QueueOK' /\ DataOK' /\ ListensOK'
           /\ alert \notin Gone /\ UNCHANGED outside
<1>1. Dequeue(what) /\ alert \notin Gone /\ UNCHANGED outside
  BY DEF Run
<1>2. UNCHANGED <<placed, changes>> /\ UNCHANGED listeners
  BY <1>1 DEF outside
<1> QED
  BY <1>1, <1>2, TailTakes, PartsKept, TypeParts DEF Dequeue

-----------------------------------------------------------------------------
(* Where the lookups are.                                                  *)

(* A lookup is answered once.                                              *)
AnswersDiffer == \A i, j \in Found : blocks[i].of = blocks[j].of => i = j
AnsweredOnce  == AnswersDiffer /\ \A l \in lookups : l \notin Answers

PendingIsOpen == \A l \in Pending : l.round \in 1 .. Len(left) /\ l.id # NoName

ListsAreWhole ==
    /\ Whole(orders)
    /\ \A i \in Places : blocks[i].what = "orders" => Unfilled(blocks[i].orders)

(* Steps that leave the presenter's list and its rounds alone.             *)
Others ==
    \/ \E o \in Orders : Change(o)
    \/ \E k \in DOMAIN listeners : Listen(k) \/ ListenFails(k)
    \/ SetTable \/ Failure \/ User
    \/ UNCHANGED vars

LEMMA NextCases ==
    ASSUME [Next]_vars
    PROVE  Others \/ (\E l \in lookups : Answer(l)) \/ ShowOrders \/ FillItem
BY DEF Next, Network, MainBlocks, Others

LEMMA TakesAnswers ==
    ASSUME AnswersDiffer, NEW what, Takes(what)
    PROVE  /\ AnswersDiffer'
           /\ what # "found" => Answers' = Answers
           /\ what = "found" => /\ Head(blocks).of \in Answers
                                /\ Answers' = Answers \ {Head(blocks).of}
<1>1. /\ Head(blocks).what = what /\ 1 \in Places /\ blocks[1] = Head(blocks)
      /\ \A i \in Places' : \/ i + 1 \in Places /\ blocks'[i] = blocks[i + 1]
                            \/ i + 1 \notin Places /\ blocks'[i].what = "table"
      /\ \A i \in Places : i = 1 \/ (i > 1 /\ i - 1 \in Places' /\ blocks'[i - 1] = blocks[i])
  BY DEF Takes
<1>2. ASSUME NEW i \in Found' PROVE i + 1 \in Found /\ i + 1 # 1 /\ blocks'[i] = blocks[i + 1] /\ i \in Int
  BY <1>1, <1>2 DEF Found, Places
<1>3. ASSUME NEW i \in Found, i # 1 PROVE i - 1 \in Found' /\ blocks'[i - 1] = blocks[i]
  BY <1>1, <1>3 DEF Found
<1>4. AnswersDiffer'
  BY <1>2 DEF AnswersDiffer
<1>5. what # "found" => 1 \notin Found
  BY <1>1 DEF Found
<1>6. what = "found" => 1 \in Found
  BY <1>1 DEF Found
<1>7. Answers' = {blocks[i].of : i \in Found \ {1}}
  <2>1. ASSUME NEW l \in Answers' PROVE \E i \in Found \ {1} : l = blocks[i].of
    BY <1>2 DEF Answers
  <2>2. ASSUME NEW i \in Found \ {1} PROVE blocks[i].of \in Answers'
    BY <1>3 DEF Answers
  <2> QED
    BY <2>1, <2>2
<1>8. CASE what # "found"
  BY <1>4, <1>5, <1>7, <1>8 DEF Answers
<1>9. CASE what = "found"
  BY <1>1, <1>4, <1>6, <1>7, <1>9 DEF Answers, AnswersDiffer
<1> QED
  BY <1>8, <1>9

LEMMA PutsAnswers ==
    ASSUME AnswersDiffer, NEW b, Puts(b)
    PROVE  /\ b.what # "found" => AnswersDiffer' /\ Answers' = Answers
           /\ b.what = "found" => /\ b.of \notin Answers => AnswersDiffer'
                                  /\ Answers' = Answers \cup {b.of}
<1> DEFINE last == Len(blocks) + 1
<1>1. /\ last \in Places' /\ blocks'[last] = b
      /\ \A i \in Places : i \in Places' /\ blocks'[i] = blocks[i] /\ i # last
      /\ \A i \in Places' : i \in Places \/ i = last
  BY DEF Puts, Places
<1> HIDE DEF last
<1>2. CASE b.what # "found"
  <2>1. Found' = Found /\ \A i \in Found : blocks'[i] = blocks[i]
    BY <1>1, <1>2 DEF Found
  <2> QED
    BY <1>2, <2>1 DEF AnswersDiffer, Answers
<1>3. CASE b.what = "found"
  <2>1. Found' = Found \cup {last} /\ \A i \in Found : blocks'[i] = blocks[i]
    BY <1>1, <1>3 DEF Found
  <2>2. Answers' = Answers \cup {b.of}
    BY <1>1, <2>1 DEF Answers
  <2>3. b.of \notin Answers => AnswersDiffer'
    BY <1>1, <2>1 DEF AnswersDiffer, Answers
  <2> QED
    BY <1>3, <2>2, <2>3
<1> QED
  BY <1>2, <1>3

LEMMA EventsKeepAnswers ==
    ASSUME UNCHANGED blocks
    PROVE  Answers' = Answers /\ (AnswersDiffer => AnswersDiffer')
BY DEF Answers, AnswersDiffer, Found, Places

Quiet ==
    /\ UNCHANGED <<lookups, left, orders, replaced>>
    /\ failed => failed'
    /\ shrunk => shrunk'
    /\ alert \in Gone => alert' = alert
    /\ alert' = "lookupTrap" => alert' = alert

LEMMA EveryItemIsAsked ==
    ASSUME NEW list \in Seq(Order), Whole(list), NEW r \in Nat
    PROVE  \A i \in 1 .. Len(list) : \A j \in DOMAIN list[i].names :
               \E l \in Asked(list, r) : l.order = i /\ l.item = j
BY AskedFacts

LEMMA OthersKeep ==
    ASSUME TypeOK, AnsweredOnce, Others
    PROVE  AnsweredOnce' /\ Pending' = Pending /\ Quiet
<1>1. QueueOK /\ AnswersDiffer /\ AlertOK /\ HistoryOK /\ ListensOK /\ DataOK
  BY TypeParts DEF AnsweredOnce
<1>2. SUFFICES AnswersDiffer' /\ Answers' = Answers /\ Quiet
  BY DEF AnsweredOnce, Pending, Quiet
<1>3. ASSUME NEW o \in Orders, Change(o) PROVE AnswersDiffer' /\ Answers' = Answers /\ Quiet
  BY <1>1, <1>3, EventsKeepAnswers DEF Quiet, Change, queue
<1>4. ASSUME NEW k \in DOMAIN listeners, Listen(k) PROVE AnswersDiffer' /\ Answers' = Answers /\ Quiet
  <2> DEFINE b == [what |-> "orders", orders |-> Listing]
  <2>1. b \in Block /\ b.what = "orders"
    BY <1>1, ListingFacts, BlocksOfAllKinds DEF DataOK
  <2>2. Send(b)
    BY <1>4 DEF Listen
  <2> HIDE DEF b
  <2>3. AnswersDiffer' /\ Answers' = Answers
    BY <1>1, <2>1, <2>2, SendPuts, PutsAnswers
  <2> QED
    BY <1>4, <2>3 DEF Quiet, Listen, history
<1>5. ASSUME NEW k \in DOMAIN listeners, ListenFails(k) PROVE AnswersDiffer' /\ Answers' = Answers /\ Quiet
  <2>1. AnswersDiffer' /\ Answers' = Answers
    BY <1>1, <1>5, SendPuts, PutsAnswers, BlocksOfAllKinds DEF ListenFails
  <2> QED
    BY <1>5, <2>1 DEF Quiet, ListenFails
<1>6. ASSUME SetTable PROVE AnswersDiffer' /\ Answers' = Answers /\ Quiet
  <2>1. Takes("table") /\ alert \notin Gone
    BY <1>6, RunTakes DEF SetTable
  <2>2. AnswersDiffer' /\ Answers' = Answers
    BY <1>1, <2>1, TakesAnswers
  <2> QED
    BY <1>6, <2>1, <2>2 DEF Quiet, SetTable, history, Dismissed
<1>7. ASSUME Failure PROVE AnswersDiffer' /\ Answers' = Answers /\ Quiet
  <2>1. Takes("error") /\ alert \notin Gone
    BY <1>7, RunTakes DEF Failure
  <2>2. AnswersDiffer' /\ Answers' = Answers
    BY <1>1, <2>1, TakesAnswers
  <2>3. alert' \in {"message", "none"}
    BY <1>7 DEF Failure
  <2> QED
    BY <1>7, <2>1, <2>2, <2>3 DEF Quiet, Failure, history
<1>8. ASSUME User PROVE AnswersDiffer' /\ Answers' = Answers /\ Quiet
  <2>1. Between(blocks) /\ UNCHANGED <<lookups, left, orders, history>>
    BY <1>8 DEF User, PrepareData, Press, Scroll
  <2>2. alert \notin Gone /\ (alert' = alert \/ alert' \in {"loading", "noInternet", "none", "popped", "headerTrap"})
    BY <1>8 DEF User, PrepareData, Press, Scroll, Gone
  <2> QED
    BY <1>1, <2>1, <2>2, BetweenFacts, EventsKeepAnswers DEF Quiet, history
<1>9. ASSUME UNCHANGED vars PROVE AnswersDiffer' /\ Answers' = Answers /\ Quiet
  BY <1>1, <1>9, EventsKeepAnswers DEF Quiet, vars
<1> QED
  BY <1>3, <1>4, <1>5, <1>6, <1>7, <1>8, <1>9 DEF Others

LEMMA AnswerKeeps ==
    ASSUME TypeOK, AnsweredOnce, NEW l \in lookups, Answer(l)
    PROVE  /\ AnsweredOnce' /\ l \in Pending
           /\ UNCHANGED <<outside, left, orders, rows, alert, replaced, shrunk>> /\ QueueOK'
           /\ \/ /\ Pending' = Pending /\ UNCHANGED failed
                 /\ Puts([what |-> "found", of |-> l])
              \/ /\ Pending' = Pending \ {l} /\ failed' = TRUE
                 /\ Puts([what |-> "error"])
<1>1. QueueOK /\ AnswersDiffer /\ (\A m \in lookups : m \notin Answers) /\ l \in Lookup
  BY TypeParts DEF AnsweredOnce, LookupsOK
<1>2. lookups' = lookups \ {l} /\ UNCHANGED <<outside, left, orders, rows, alert, replaced, shrunk>>
  BY DEF Answer
<1>3. CASE Send([what |-> "found", of |-> l]) /\ UNCHANGED failed
  <2> DEFINE b == [what |-> "found", of |-> l]
  <2>1. b \in Block /\ b.what = "found" /\ b.of = l
    BY <1>1, BlocksOfAllKinds
  <2>2. Send(b)
    BY <1>3
  <2>3. Puts(b) /\ QueueOK' /\ AnswersDiffer' /\ Answers' = Answers \cup {l}
    <3> HIDE DEF b
    <3> QED
      BY <1>1, <2>1, <2>2, SendPuts, PutsAnswers
  <2> QED
    BY <1>1, <1>2, <1>3, <2>3 DEF AnsweredOnce, Pending
<1>4. CASE Send([what |-> "error"]) /\ failed' = TRUE
  <2>1. Puts([what |-> "error"]) /\ QueueOK' /\ AnswersDiffer' /\ Answers' = Answers
    BY <1>1, <1>4, SendPuts, PutsAnswers, BlocksOfAllKinds
  <2> QED
    BY <1>1, <1>2, <1>4, <2>1 DEF AnsweredOnce, Pending
<1> QED
  BY <1>3, <1>4 DEF Answer

LEMMA ShowKeeps ==
    ASSUME TypeOK, AnsweredOnce, PendingIsOpen, ListsAreWhole, ShowOrders
    PROVE  /\ Takes("orders") /\ QueueOK' /\ DataOK' /\ ListensOK'
           /\ alert \notin Gone /\ UNCHANGED outside
           /\ orders' = blocks[1].orders /\ orders' \in Seq(Order)
           /\ Unfilled(orders') /\ Whole(orders')
           /\ AnsweredOnce' /\ Pending' = Pending \cup Asked(orders', Len(left) + 1)
           /\ lookups' = lookups \cup Asked(orders', Len(left) + 1)
           /\ left' = Append(left, Cardinality(PlacesOf(orders')))
           /\ Len(left) \in Nat /\ UNCHANGED <<shrunk, failed>>
<1>1. /\ Takes("orders") /\ QueueOK' /\ DataOK' /\ ListensOK'
      /\ alert \notin Gone /\ UNCHANGED outside
  BY RunTakes DEF ShowOrders
<1>2. blocks[1] \in Block /\ blocks[1] = Head(blocks) /\ blocks[1].what = "orders" /\ 1 \in Places
  BY <1>1 DEF Takes
<1>3. orders' = blocks[1].orders /\ orders' \in Seq(Order) /\ Unfilled(orders') /\ Whole(orders')
  BY <1>2, BlockFacts, UnfilledIsWhole DEF ShowOrders, ListsAreWhole
<1>4. Len(left) \in Nat
  BY TypeParts DEF LeftOK
<1>5. /\ lookups' = lookups \cup Asked(orders', Len(left) + 1)
      /\ left' = Append(left, Cardinality(PlacesOf(orders')))
  <2>1. FillItems(orders')
    BY DEF ShowOrders
  <2> QED
    BY <2>1 DEF FillItems, FillFrom, Asked, PlacesOf
<1>6. Answers' = Answers /\ AnswersDiffer'
  BY <1>1, TakesAnswers DEF AnsweredOnce
<1>7. \A l \in Asked(orders', Len(left) + 1) : l.round = Len(left) + 1
  BY DEF Asked
<1>8. \A l \in Answers : l.round \in 1 .. Len(left)
  BY DEF PendingIsOpen, Pending
<1>9. AnsweredOnce'
  <2>1. \A l \in Asked(orders', Len(left) + 1) : l \notin Answers
    BY <1>4, <1>7, <1>8
  <2> QED
    BY <1>5, <1>6, <2>1 DEF AnsweredOnce
<1> QED
  BY <1>1, <1>3, <1>4, <1>5, <1>6, <1>9 DEF Pending, ShowOrders

(* An answer finds its place, or it does not.                              *)
Fills(l) ==
    /\ l.order \in DOMAIN orders /\ l.item \in DOMAIN orders[l.order].names
    /\ orders' = [orders EXCEPT ![l.order].names[l.item] = l.id]
    /\ left' = [left EXCEPT ![l.round] = left[l.round] - 1]
    /\ left[l.round] = 1 => \E i \in Places' : blocks'[i].what = "table"
    /\ UNCHANGED alert
Misses(l) ==
    /\ ~(l.order \in DOMAIN orders /\ l.item \in DOMAIN orders[l.order].names)
    /\ alert' = "lookupTrap" /\ UNCHANGED <<orders, left>>

LEMMA FillsFacts ==
    ASSUME OrdersOK, NEW l \in Lookup, Fills(l)
    PROVE  /\ orders' \in Seq(Order) /\ Len(orders') = Len(orders)
           /\ l.order \in 1 .. Len(orders) /\ l.item \in DOMAIN orders[l.order].names
           /\ \A i \in 1 .. Len(orders) :
                  /\ orders'[i].id = orders[i].id
                  /\ DOMAIN orders'[i].names = DOMAIN orders[i].names
                  /\ \A j \in DOMAIN orders[i].names :
                        orders'[i].names[j] = IF i = l.order /\ j = l.item THEN l.id
                                              ELSE orders[i].names[j]
<1> DEFINE old == orders[l.order]
           new == [old EXCEPT !.names = [old.names EXCEPT ![l.item] = l.id]]
<1>1. /\ l.order \in 1 .. Len(orders) /\ l.item \in DOMAIN old.names
      /\ orders' = [orders EXCEPT ![l.order] = new]
      /\ orders \in Seq(Order) /\ old \in Order
  BY DEF OrdersOK, Fills
<1>2. l.id \in Nat /\ old.names \in Seq(Nat)
  BY <1>1 DEF Lookup, Order
<1>3. /\ [old.names EXCEPT ![l.item] = l.id] \in Seq(Nat)
      /\ DOMAIN [old.names EXCEPT ![l.item] = l.id] = DOMAIN old.names
      /\ \A j \in DOMAIN old.names :
            [old.names EXCEPT ![l.item] = l.id][j] = IF j = l.item THEN l.id ELSE old.names[j]
  BY <1>1, <1>2
<1>4. /\ new \in Order /\ new.id = old.id /\ DOMAIN new.names = DOMAIN old.names
      /\ \A j \in DOMAIN old.names : new.names[j] = IF j = l.item THEN l.id ELSE old.names[j]
  <2> DEFINE names == [old.names EXCEPT ![l.item] = l.id]
  <2>1. names \in Seq(Nat) /\ new = [old EXCEPT !.names = names]
    BY <1>3
  <2> HIDE DEF names, old
  <2>2. new \in Order /\ new.id = old.id /\ new.names = names
    BY <1>1, <2>1 DEF Order
  <2> QED
    BY <1>3, <2>2 DEF names
<1> HIDE DEF new
<1>5. /\ orders' \in Seq(Order) /\ Len(orders') = Len(orders)
      /\ \A i \in 1 .. Len(orders) : orders'[i] = IF i = l.order THEN new ELSE orders[i]
  BY <1>1, <1>4
<1> HIDE DEF old
<1>6. ASSUME NEW i \in 1 .. Len(orders)
      PROVE  /\ orders'[i].id = orders[i].id
             /\ DOMAIN orders'[i].names = DOMAIN orders[i].names
             /\ \A j \in DOMAIN orders[i].names :
                   orders'[i].names[j] = IF i = l.order /\ j = l.item THEN l.id
                                         ELSE orders[i].names[j]
  <2>1. CASE i = l.order
    BY <1>4, <1>5, <2>1 DEF old
  <2>2. CASE i # l.order
    BY <1>5, <2>2
  <2> QED
    BY <2>1, <2>2
<1> QED
  BY <1>1, <1>5, <1>6 DEF old

LEMMA FillKeeps ==
    ASSUME TypeOK, AnsweredOnce, FillItem
    PROVE  /\ Takes("found") /\ QueueOK' /\ alert \notin Gone
           /\ UNCHANGED <<outside, lookups, rows, history>>
           /\ AnsweredOnce' /\ Pending' = Pending \ {Head(blocks).of}
           /\ Head(blocks).of \in Pending /\ Head(blocks).of \in Lookup
           /\ Fills(Head(blocks).of) \/ Misses(Head(blocks).of)
<1> DEFINE l == Head(blocks).of
<1>1. QueueOK /\ AnswersDiffer /\ (\A m \in lookups : m \notin Answers)
  BY TypeParts DEF AnsweredOnce
<1>2. /\ alert \notin Gone /\ blocks # <<>> /\ Head(blocks).what = "found"
      /\ due' = IF due > 0 THEN due - 1 ELSE 0
      /\ UNCHANGED <<outside, lookups, rows, history>>
  BY DEF FillItem, Fill
<1>3. Takes("found") /\ QueueOK' /\ (Fills(l) \/ Misses(l))
  <2>1. CASE l.order \in DOMAIN orders /\ l.item \in DOMAIN orders[l.order].names
    <3>1. /\ orders' = [orders EXCEPT ![l.order].names[l.item] = l.id]
          /\ left' = [left EXCEPT ![l.round] = left[l.round] - 1]
          /\ blocks' = Tail(blocks) \o IF left[l.round] = 1 THEN <<[what |-> "table"]>> ELSE <<>>
          /\ UNCHANGED alert
      BY <2>1 DEF FillItem, Fill, Counted
    <3>2. CASE left[l.round] = 1
      <4>1. blocks' = Tail(blocks) \o <<[what |-> "table"]>>
        BY <3>1, <3>2
      <4>2. Takes("found") /\ QueueOK' /\ \E i \in Places' : blocks'[i].what = "table"
        BY <1>1, <1>2, <4>1, AppendTakes
      <4> HIDE DEF l
      <4> QED
        BY <2>1, <3>1, <4>2 DEF Fills
    <3>3. CASE left[l.round] # 1
      <4>1. blocks' = Tail(blocks)
        <5>1. Tail(blocks) \in Seq(Block)
          BY <1>1, <1>2, TailFacts DEF QueueOK
        <5>2. blocks' = Tail(blocks) \o <<>>
          BY <3>1, <3>3
        <5> QED
          BY <5>1, <5>2
      <4>2. Takes("found") /\ QueueOK'
        BY <1>1, <1>2, <4>1, TailTakes
      <4> HIDE DEF l
      <4> QED
        BY <2>1, <3>1, <3>3, <4>2 DEF Fills
    <3> QED
      BY <3>2, <3>3
  <2>2. CASE ~(l.order \in DOMAIN orders /\ l.item \in DOMAIN orders[l.order].names)
    <3>1. alert' = "lookupTrap" /\ blocks' = Tail(blocks) /\ UNCHANGED <<orders, left>>
      BY <2>2 DEF FillItem, Fill
    <3>2. Takes("found") /\ QueueOK'
      BY <1>1, <1>2, <3>1, TailTakes
    <3> QED
      BY <2>2, <3>1, <3>2 DEF Misses
  <2> QED
    BY <2>1, <2>2
<1>4. l \in Answers /\ Answers' = Answers \ {l} /\ AnswersDiffer'
  BY <1>1, <1>3, TakesAnswers
<1>5. l \in Lookup
  BY <1>3, BlockFacts DEF Takes
<1>6. AnsweredOnce' /\ Pending' = Pending \ {l} /\ l \in Pending
  BY <1>1, <1>2, <1>4 DEF AnsweredOnce, Pending
<1> QED
  BY <1>2, <1>3, <1>5, <1>6

(* The presenter's list and its rounds.                                    *)
LEMMA OpenStep ==
    ASSUME TypeOK, AnsweredOnce, PendingIsOpen, ListsAreWhole, [Next]_vars
    PROVE  PendingIsOpen'
<1>1. Len(left) \in Nat
  BY TypeParts DEF LeftOK
<1>2. CASE Others
  BY <1>2, OthersKeep DEF Quiet, PendingIsOpen
<1>3. ASSUME NEW l \in lookups, Answer(l) PROVE PendingIsOpen'
  BY <1>3, AnswerKeeps DEF PendingIsOpen
<1>4. CASE ShowOrders
  <2>1. /\ Pending' = Pending \cup Asked(orders', Len(left) + 1)
        /\ left' = Append(left, Cardinality(PlacesOf(orders')))
        /\ orders' \in Seq(Order) /\ Whole(orders')
    BY <1>4, ShowKeeps
  <2>2. Len(left') = Len(left) + 1
    BY <2>1, TypeParts DEF LeftOK
  <2>3. \A l \in Asked(orders', Len(left) + 1) : l.round = Len(left) + 1 /\ l.id # NoName
    BY <1>1, <2>1, AskedFacts
  <2> QED
    BY <1>1, <2>1, <2>2, <2>3 DEF PendingIsOpen
<1>5. CASE FillItem
  <2> DEFINE l == Head(blocks).of
  <2>1. Pending' = Pending \ {l} /\ (Fills(l) \/ Misses(l))
    BY <1>5, FillKeeps
  <2>2. Len(left') = Len(left)
    <3> HIDE DEF l
    <3>1. left \in Seq(Nat)
      BY TypeParts DEF LeftOK
    <3> QED
      BY <2>1, <3>1 DEF Fills, Misses
  <2> QED
    BY <2>1, <2>2 DEF PendingIsOpen
<1> QED
  BY <1>2, <1>3, <1>4, <1>5, NextCases

LEMMA WholeStep ==
    ASSUME TypeOK, AnsweredOnce, PendingIsOpen, ListsAreWhole, [Next]_vars
    PROVE  ListsAreWhole'
<1> DEFINE OthersUnfilled == \A i \in Places' : blocks'[i].what = "orders" => Unfilled(blocks'[i].orders)
<1>1. ASSUME NEW what, Takes(what) PROVE OthersUnfilled
  BY <1>1 DEF Takes, ListsAreWhole
<1>2. ASSUME NEW b, Puts(b), b.what = "orders" => Unfilled(b.orders) PROVE OthersUnfilled
  BY <1>2 DEF Puts, ListsAreWhole
<1>3. ASSUME UNCHANGED blocks PROVE OthersUnfilled
  BY <1>3 DEF ListsAreWhole, Places
<1>4. QueueOK /\ DataOK /\ OrdersOK
  BY TypeParts
<1> HIDE DEF OthersUnfilled
<1>5. Others => OthersUnfilled
  <2>1. ASSUME NEW o \in Orders, Change(o) PROVE OthersUnfilled
    BY <1>3, <2>1 DEF Change, queue
  <2>2. ASSUME NEW k \in DOMAIN listeners, Listen(k) PROVE OthersUnfilled
    <3> DEFINE b == [what |-> "orders", orders |-> Listing]
    <3>1. b \in Block /\ Unfilled(b.orders)
      BY <1>4, ListingFacts, BlocksOfAllKinds DEF DataOK
    <3>2. Send(b)
      BY <2>2 DEF Listen
    <3> HIDE DEF b
    <3> QED
      BY <1>2, <1>4, <3>1, <3>2, SendPuts
  <2>3. ASSUME NEW k \in DOMAIN listeners, ListenFails(k) PROVE OthersUnfilled
    <3>1. Puts([what |-> "error"])
      BY <1>4, <2>3, SendPuts, BlocksOfAllKinds DEF ListenFails
    <3> QED
      BY <1>2, <3>1
  <2>4. ASSUME SetTable PROVE OthersUnfilled
    BY <1>1, <2>4, RunTakes DEF SetTable
  <2>5. ASSUME Failure PROVE OthersUnfilled
    BY <1>1, <2>5, RunTakes DEF Failure
  <2>6. ASSUME User PROVE OthersUnfilled
    BY <1>3, <1>4, <2>6, BetweenFacts DEF User, PrepareData, Press, Scroll
  <2>7. ASSUME UNCHANGED vars PROVE OthersUnfilled
    BY <1>3, <2>7 DEF vars
  <2> QED
    BY <2>1, <2>2, <2>3, <2>4, <2>5, <2>6, <2>7 DEF Others
<1>6. CASE Others
  <2>1. Whole(orders')
    BY <1>6, OthersKeep DEF Quiet, ListsAreWhole
  <2> QED
    BY <1>5, <1>6, <2>1 DEF OthersUnfilled, ListsAreWhole
<1>7. ASSUME NEW l \in lookups, Answer(l) PROVE ListsAreWhole'
  <2>1. orders' = orders /\ (Puts([what |-> "found", of |-> l]) \/ Puts([what |-> "error"]))
    BY <1>7, AnswerKeeps
  <2>2. OthersUnfilled
    BY <1>2, <2>1
  <2> QED
    BY <2>1, <2>2 DEF OthersUnfilled, ListsAreWhole
<1>8. CASE ShowOrders
  <2>1. Takes("orders") /\ Whole(orders')
    BY <1>8, ShowKeeps
  <2> QED
    BY <1>1, <2>1 DEF OthersUnfilled, ListsAreWhole
<1>9. CASE FillItem
  <2> DEFINE l == Head(blocks).of
  <2>1. Takes("found") /\ l \in Lookup /\ (Fills(l) \/ Misses(l))
    BY <1>9, FillKeeps
  <2>2. Whole(orders')
    <3> HIDE DEF l
    <3>1. CASE Misses(l)
      BY <3>1 DEF Misses, ListsAreWhole
    <3>2. CASE Fills(l)
      <4>1. Len(orders') = Len(orders) /\ \A i \in 1 .. Len(orders) :
               orders'[i].id = orders[i].id /\ DOMAIN orders'[i].names = DOMAIN orders[i].names
        BY <1>4, <2>1, <3>2, FillsFacts
      <4>2. \A i \in 1 .. Len(orders) : DOMAIN orders[i].names = DOMAIN ItemsOf[orders[i].id]
        BY DEF Whole, ListsAreWhole
      <4> QED
        BY <4>1, <4>2 DEF Whole
    <3> QED
      BY <2>1, <3>1, <3>2
  <2> QED
    BY <1>1, <2>1, <2>2 DEF OthersUnfilled, ListsAreWhole
<1> QED
  BY <1>6, <1>7, <1>8, <1>9, NextCases

-----------------------------------------------------------------------------
(* What a round counts: the lookups that were not put into the list yet,   *)
(* and those that failed.                                                  *)

RoundCounts(r) ==
    /\ IsFiniteSet(Out(r)) /\ left[r] >= Cardinality(Out(r))
    /\ ~failed /\ alert # "lookupTrap" => left[r] = Cardinality(Out(r))
RoundsCount == \A r \in 1 .. Len(left) : RoundCounts(r)

LEMMA CountLess ==
    ASSUME TypeOK, RoundsCount, NEW r \in 1 .. Len(left), NEW l \in Out(r)
    PROVE  /\ left[r] \in Nat /\ left[r] >= 1 /\ Cardinality(Out(r)) \in Nat
           /\ IsFiniteSet(Out(r) \ {l}) /\ Cardinality(Out(r) \ {l}) = Cardinality(Out(r)) - 1
           /\ left[r] >= Cardinality(Out(r))
<1>1. IsFiniteSet(Out(r)) /\ left[r] >= Cardinality(Out(r))
  BY DEF RoundsCount, RoundCounts
<1>2. left[r] \in Nat
  BY TypeParts DEF LeftOK
<1>3. Cardinality(Out(r)) \in Nat
  BY <1>1, FS_CardinalityType
<1>4. IsFiniteSet(Out(r) \ {l}) /\ Cardinality(Out(r) \ {l}) = Cardinality(Out(r)) - 1
  BY <1>1, FS_RemoveElement
<1>5. Cardinality(Out(r) \ {l}) \in Nat
  BY <1>4, FS_CardinalityType
<1> QED
  BY <1>1, <1>2, <1>3, <1>4, <1>5

LEMMA RoundsStep ==
    ASSUME TypeOK, AnsweredOnce, PendingIsOpen, ListsAreWhole, RoundsCount, [Next]_vars
    PROVE  RoundsCount'
<1>1. left \in Seq(Nat) /\ Len(left) \in Nat
  BY TypeParts DEF LeftOK
<1>2. \A r \in 1 .. Len(left) :
         /\ IsFiniteSet(Out(r)) /\ left[r] >= Cardinality(Out(r))
         /\ ~failed /\ alert # "lookupTrap" => left[r] = Cardinality(Out(r))
  BY DEF RoundsCount, RoundCounts
<1>3. \A r : Out(r)' = {l \in Pending' : l.round = r}
  BY DEF Out
<1>4. SUFFICES ASSUME NEW r \in 1 .. Len(left')
               PROVE  /\ IsFiniteSet(Out(r)') /\ left'[r] >= Cardinality(Out(r)')
                      /\ ~failed' /\ alert' # "lookupTrap" => left'[r] = Cardinality(Out(r)')
  BY DEF RoundsCount, RoundCounts
<1>5. CASE Others
  <2>1. Pending' = Pending /\ left' = left /\ Quiet
    BY <1>5, OthersKeep DEF Quiet
  <2>2. Out(r)' = Out(r)
    BY <1>3, <2>1 DEF Out
  <2>3. ~failed' /\ alert' # "lookupTrap" => ~failed /\ alert # "lookupTrap"
    BY <2>1 DEF Quiet, Gone
  <2> QED
    BY <1>2, <2>1, <2>2, <2>3
<1>6. ASSUME NEW l \in lookups, Answer(l)
      PROVE  /\ IsFiniteSet(Out(r)') /\ left'[r] >= Cardinality(Out(r)')
             /\ ~failed' /\ alert' # "lookupTrap" => left'[r] = Cardinality(Out(r)')
  <2>1. left' = left /\ alert' = alert /\ r \in 1 .. Len(left)
    BY <1>6, AnswerKeeps
  <2>2. CASE Pending' = Pending /\ failed' = failed
    <3>1. Out(r)' = Out(r)
      BY <1>3, <2>2 DEF Out
    <3> QED
      BY <1>2, <2>1, <2>2, <3>1
  <2>3. CASE Pending' = Pending \ {l} /\ failed' = TRUE
    <3>1. CASE l \in Out(r)
      <4>1. Out(r)' = Out(r) \ {l}
        BY <1>3, <2>3 DEF Out
      <4>2. /\ left[r] \in Nat /\ Cardinality(Out(r)) \in Nat /\ left[r] >= Cardinality(Out(r))
            /\ IsFiniteSet(Out(r) \ {l}) /\ Cardinality(Out(r) \ {l}) = Cardinality(Out(r)) - 1
        BY <2>1, <3>1, CountLess
      <4> QED
        BY <2>1, <2>3, <4>1, <4>2
    <3>2. CASE l \notin Out(r)
      <4>1. Out(r)' = Out(r)
        BY <1>3, <2>3, <3>2 DEF Out
      <4> QED
        BY <1>2, <2>1, <2>3, <4>1
    <3> QED
      BY <3>1, <3>2
  <2> QED
    BY <1>6, <2>2, <2>3, AnswerKeeps
<1>7. CASE ShowOrders
  <2> DEFINE new == Asked(orders', Len(left) + 1)
             n   == Cardinality(PlacesOf(orders'))
  <2>1. /\ Pending' = Pending \cup new /\ left' = Append(left, n)
        /\ orders' \in Seq(Order) /\ Whole(orders')
        /\ alert \notin Gone /\ failed' = failed
    BY <1>7, ShowKeeps
  <2>2. /\ IsFiniteSet(new) /\ Cardinality(new) = n /\ n \in Nat
        /\ \A l \in new : l.round = Len(left) + 1
    BY <1>1, <2>1, AskedFacts, PlacesOfFacts
  <2> HIDE DEF new, n
  <2>3. /\ Len(left') = Len(left) + 1 /\ left'[Len(left) + 1] = n
        /\ \A s \in 1 .. Len(left) : left'[s] = left[s]
    BY <1>1, <2>1, <2>2
  <2>4. alert # "lookupTrap"
    BY <2>1 DEF Gone
  <2>5. CASE r \in 1 .. Len(left)
    <3>1. Out(r)' = Out(r)
      BY <1>1, <1>3, <2>1, <2>2, <2>5 DEF Out
    <3> QED
      BY <1>2, <2>1, <2>3, <2>4, <2>5, <3>1
  <2>6. CASE r = Len(left) + 1
    <3>1. \A l \in Pending : l.round # r
      BY <1>1, <2>6 DEF PendingIsOpen
    <3>2. Out(r)' = new
      BY <1>3, <2>1, <2>2, <2>6, <3>1
    <3> QED
      BY <2>2, <2>3, <2>6, <3>2
  <2> QED
    BY <1>1, <2>3, <2>5, <2>6
<1>8. CASE FillItem
  <2> DEFINE l == Head(blocks).of
  <2>1. /\ Pending' = Pending \ {l} /\ l \in Pending /\ (Fills(l) \/ Misses(l))
        /\ alert \notin Gone /\ failed' = failed
    BY <1>8, FillKeeps DEF history
  <2>2. l.round \in 1 .. Len(left) /\ l \in Out(l.round) /\ alert # "lookupTrap"
    BY <2>1 DEF PendingIsOpen, Out, Gone
  <2> HIDE DEF l
  <2>3. CASE Misses(l)
    <3>1. left' = left /\ alert' = "lookupTrap" /\ r \in 1 .. Len(left)
      BY <2>3 DEF Misses
    <3>2. CASE r = l.round
      <4>1. Out(r)' = Out(r) \ {l}
        BY <1>3, <2>1 DEF Out
      <4>2. /\ left[r] \in Nat /\ Cardinality(Out(r)) \in Nat /\ left[r] >= Cardinality(Out(r))
            /\ IsFiniteSet(Out(r) \ {l}) /\ Cardinality(Out(r) \ {l}) = Cardinality(Out(r)) - 1
        BY <2>2, <3>1, <3>2, CountLess
      <4> QED
        BY <3>1, <4>1, <4>2
    <3>3. CASE r # l.round
      <4>1. Out(r)' = Out(r)
        BY <1>3, <2>1, <3>3 DEF Out
      <4> QED
        BY <1>2, <3>1, <4>1
    <3> QED
      BY <3>2, <3>3
  <2>4. CASE Fills(l)
    <3>1. left' = [left EXCEPT ![l.round] = left[l.round] - 1] /\ alert' = alert
      BY <2>4 DEF Fills
    <3>2. Len(left') = Len(left) /\ r \in 1 .. Len(left)
      BY <1>1, <3>1
    <3>3. CASE r = l.round
      <4>1. Out(r)' = Out(r) \ {l}
        BY <1>3, <2>1 DEF Out
      <4>2. /\ left[r] \in Nat /\ Cardinality(Out(r)) \in Nat /\ left[r] >= Cardinality(Out(r))
            /\ IsFiniteSet(Out(r) \ {l}) /\ Cardinality(Out(r) \ {l}) = Cardinality(Out(r)) - 1
        BY <2>2, <3>2, <3>3, CountLess
      <4>3. left'[r] = left[r] - 1
        BY <1>1, <3>1, <3>2, <3>3
      <4>4. ~failed => left[r] = Cardinality(Out(r))
        BY <1>2, <2>2, <3>2
      <4> QED
        BY <2>1, <4>1, <4>2, <4>3, <4>4
    <3>4. CASE r # l.round
      <4>1. Out(r)' = Out(r)
        BY <1>3, <2>1, <3>4 DEF Out
      <4>2. left'[r] = left[r]
        BY <1>1, <3>1, <3>2, <3>4
      <4> QED
        BY <1>2, <2>1, <3>1, <3>2, <4>1, <4>2
    <3> QED
      BY <3>3, <3>4
  <2> QED
    BY <2>1, <2>3, <2>4
<1> QED
  BY <1>5, <1>6, <1>7, <1>8, NextCases

-----------------------------------------------------------------------------
(* Types.                                                                  *)

(* No order has changed more often than all of them.                       *)
StatusCounts == \A o \in DOMAIN placed : placed[o] <= changes

LEMMA ChangeTypes ==
    ASSUME DataOK, StatusCounts, NEW o \in Orders, Change(o)
    PROVE  DataOK' /\ StatusCounts'
<1>1. PICK S \in SUBSET Orders : placed \in [S -> 0 .. MaxChanges]
  BY DEF DataOK, Databases
<1>2. DOMAIN placed = S /\ MaxChanges \in Nat /\ changes \in 0 .. MaxChanges
  BY <1>1, PreviousOrdersAssumption DEF DataOK
<1>3. changes' = changes + 1 /\ changes' \in 0 .. MaxChanges /\ changes' \in Nat
  BY <1>2 DEF Change
<1>4. \A p \in S : placed[p] \in Nat /\ placed[p] <= changes
  BY <1>1, <1>2 DEF StatusCounts
<1>5. CASE placed' = [p \in DOMAIN placed \cup {o} |->
                        IF p \notin DOMAIN placed THEN 0
                        ELSE IF p = o THEN placed[p] + 1 ELSE placed[p]]
  <2>1. DOMAIN placed' = S \cup {o} /\ \A p \in S \cup {o} : placed'[p] \in 0 .. changes'
    BY <1>2, <1>3, <1>4, <1>5
  <2>2. \A p \in S \cup {o} : placed'[p] \in 0 .. MaxChanges /\ placed'[p] <= changes'
    BY <1>2, <1>3, <2>1
  <2>3. placed' \in [S \cup {o} -> 0 .. MaxChanges] /\ S \cup {o} \in SUBSET Orders
    BY <1>2, <1>5, <2>2
  <2> QED
    BY <1>3, <2>1, <2>2, <2>3 DEF DataOK, StatusCounts, Databases
<1>6. CASE o \in DOMAIN placed /\ placed' = [p \in DOMAIN placed \ {o} |-> placed[p]]
  <2>1. \A p \in S \ {o} : placed'[p] \in 0 .. MaxChanges /\ placed'[p] <= changes'
    BY <1>1, <1>2, <1>3, <1>4, <1>6
  <2>2. placed' \in [S \ {o} -> 0 .. MaxChanges] /\ S \ {o} \in SUBSET Orders
    BY <1>2, <1>6, <2>1
  <2> QED
    BY <1>2, <1>3, <1>6, <2>1, <2>2 DEF DataOK, StatusCounts, Databases
<1> QED
  BY <1>5, <1>6 DEF Change

LEMMA StatusStep ==
    ASSUME TypeOK, StatusCounts, [Next]_vars
    PROVE  StatusCounts'
<1>1. DataOK
  BY TypeParts
<1>2. CASE \E o \in Orders : Change(o)
  BY <1>1, <1>2, ChangeTypes
<1>3. CASE UNCHANGED <<placed, changes>>
  BY <1>3 DEF StatusCounts
<1>4. CASE Network
  BY <1>2, <1>3, <1>4 DEF Network, Listen, ListenFails, Answer, outside
<1>5. CASE MainBlocks
  <2>1. UNCHANGED outside
    BY <1>5 DEF MainBlocks, ShowOrders, FillItem, Fill, SetTable, Failure, Run
  <2> QED
    BY <1>3, <2>1 DEF outside
<1>6. CASE User
  <2>1. UNCHANGED <<placed, changes>>
    BY <1>6 DEF User, PrepareData, Press, Scroll, outside
  <2> QED
    BY <1>3, <2>1
<1>7. CASE UNCHANGED vars
  BY <1>3, <1>7 DEF vars
<1> QED
  BY <1>4, <1>5, <1>6, <1>7 DEF Next

LEMMA TypesNetwork ==
    ASSUME TypeOK, StatusCounts, AnsweredOnce, Network
    PROVE  TypeOK'
<1>1. DataOK /\ ListensOK /\ LookupsOK /\ HistoryOK /\ QueueOK
  BY TypeParts
<1>2. ASSUME NEW o \in Orders, Change(o) PROVE TypeOK'
  <2>1. DataOK'
    BY <1>1, <1>2, ChangeTypes
  <2>2. HistoryOK'
    BY <1>1, <1>2 DEF Change, HistoryOK
  <2> QED
    BY <1>2, <2>1, <2>2, PartsKept, PartsNext DEF Change
<1>3. ASSUME NEW k \in DOMAIN listeners, NEW new \in Listener,
             listeners' = [listeners EXCEPT ![k] = new]
      PROVE  ListensOK'
  BY <1>1, <1>3 DEF ListensOK
<1>4. ASSUME NEW k \in DOMAIN listeners, Listen(k) PROVE TypeOK'
  <2> DEFINE b == [what |-> "orders", orders |-> Listing]
             new == [on |-> "on", heard |-> Listing]
  <2>1. Listing \in Seq(Order) /\ b \in Block
    BY <1>1, ListingFacts, BlocksOfAllKinds DEF DataOK
  <2>2. new \in Listener
    BY <2>1 DEF Listener
  <2>3. Send(b) /\ listeners' = [listeners EXCEPT ![k] = new]
    BY <1>4 DEF Listen
  <2> HIDE DEF b, new
  <2>4. ListensOK' /\ QueueOK'
    BY <1>1, <1>3, <2>1, <2>2, <2>3, SendPuts
  <2> QED
    BY <1>4, <2>4, PartsKept, PartsNext DEF Listen
<1>5. ASSUME NEW k \in DOMAIN listeners, ListenFails(k) PROVE TypeOK'
  <2> DEFINE new == [listeners[k] EXCEPT !.on = "off"]
  <2>1. listeners[k] \in Listener
    BY <1>1 DEF ListensOK
  <2>2. new \in Listener
    BY <2>1 DEF Listener
  <2>3. listeners' = [listeners EXCEPT ![k] = new]
    BY <1>5 DEF ListenFails
  <2> HIDE DEF new
  <2>4. ListensOK' /\ QueueOK' /\ HistoryOK'
    <3>1. ListensOK'
      BY <1>3, <2>2, <2>3
    <3>2. QueueOK'
      BY <1>1, <1>5, SendPuts, BlocksOfAllKinds DEF ListenFails
    <3>3. HistoryOK'
      BY <1>1, <1>5 DEF ListenFails, HistoryOK
    <3> QED
      BY <3>1, <3>2, <3>3
  <2> QED
    BY <1>5, <2>4, PartsKept, PartsNext DEF ListenFails
<1>6. ASSUME NEW l \in lookups, Answer(l) PROVE TypeOK'
  <2>1. QueueOK' /\ UNCHANGED <<outside, left, orders, rows, alert, replaced, shrunk>>
    BY <1>6, AnswerKeeps
  <2>2. LookupsOK' /\ HistoryOK'
    BY <1>1, <1>6 DEF Answer, LookupsOK, HistoryOK
  <2> QED
    BY <2>1, <2>2, PartsKept, PartsNext DEF outside
<1> QED
  BY <1>2, <1>4, <1>5, <1>6 DEF Network

LEMMA TypesMainBlocks ==
    ASSUME TypeOK, AnsweredOnce, PendingIsOpen, ListsAreWhole, RoundsCount, MainBlocks
    PROVE  TypeOK'
<1>1. /\ DataOK /\ ListensOK /\ LookupsOK /\ LeftOK /\ OrdersOK /\ RowsOK
      /\ AlertOK /\ HistoryOK /\ QueueOK
  BY TypeParts
<1>2. {"none", "message", "lookupTrap"} \subseteq Alerts
  BY DEF Alerts, Gone
<1>3. CASE ShowOrders
  <2> DEFINE new == Asked(orders', Len(left) + 1)
             n   == Cardinality(PlacesOf(orders'))
  <2>1. /\ QueueOK' /\ DataOK' /\ ListensOK' /\ orders' \in Seq(Order) /\ Whole(orders')
        /\ lookups' = lookups \cup new /\ left' = Append(left, n) /\ Len(left) \in Nat
        /\ UNCHANGED <<shrunk, failed>>
    BY <1>3, ShowKeeps
  <2>2. n \in Nat /\ \A l \in new : l \in Lookup
    BY <2>1, AskedFacts, PlacesOfFacts
  <2> HIDE DEF new, n
  <2>3. LookupsOK' /\ LeftOK' /\ OrdersOK'
    BY <1>1, <2>1, <2>2 DEF LookupsOK, LeftOK, OrdersOK
  <2>4. RowsOK' /\ AlertOK'
    BY <1>1, <1>2, <1>3, <2>1 DEF ShowOrders, RowsOK, AlertOK, Dismissed
  <2>5. replaced' \in BOOLEAN
    BY <1>1, <1>3 DEF ShowOrders, HistoryOK, Running
  <2>6. HistoryOK'
    BY <1>1, <2>1, <2>5 DEF HistoryOK
  <2> QED
    BY <2>1, <2>3, <2>4, <2>6, PartsNext
<1>4. CASE FillItem
  <2> DEFINE l == Head(blocks).of
  <2>1. /\ QueueOK' /\ UNCHANGED <<outside, lookups, rows, history>>
        /\ l \in Pending /\ l \in Lookup /\ (Fills(l) \/ Misses(l))
    BY <1>4, FillKeeps
  <2> HIDE DEF l
  <2>2. DataOK' /\ ListensOK' /\ LookupsOK' /\ RowsOK' /\ HistoryOK'
    BY <2>1, PartsKept DEF outside
  <2>3. CASE Misses(l)
    <3>1. LeftOK' /\ OrdersOK' /\ AlertOK'
      BY <1>1, <1>2, <2>3 DEF Misses, LeftOK, OrdersOK, AlertOK
    <3> QED
      BY <2>1, <2>2, <3>1, PartsNext
  <2>4. CASE Fills(l)
    <3>1. OrdersOK'
      BY <1>1, <2>1, <2>4, FillsFacts DEF OrdersOK
    <3>2. l.round \in 1 .. Len(left) /\ l \in Out(l.round)
      BY <2>1 DEF PendingIsOpen, Out
    <3>3. left[l.round] \in Nat /\ left[l.round] >= 1
      BY <3>2, CountLess
    <3>4. left' = [left EXCEPT ![l.round] = left[l.round] - 1] /\ alert' = alert
      BY <2>4 DEF Fills
    <3>5. LeftOK' /\ AlertOK'
      BY <1>1, <3>2, <3>3, <3>4 DEF LeftOK, AlertOK
    <3> QED
      BY <2>1, <2>2, <3>1, <3>5, PartsNext
  <2> QED
    BY <2>1, <2>3, <2>4
<1>5. CASE SetTable
  <2>1. QueueOK' /\ DataOK' /\ ListensOK'
    BY <1>5, RunTakes DEF SetTable
  <2>2. RowsOK' /\ AlertOK' /\ UNCHANGED <<lookups, left, orders, history>>
    BY <1>1, <1>2, <1>5 DEF SetTable, RowsOK, OrdersOK, AlertOK, Dismissed
  <2> QED
    BY <2>1, <2>2, PartsKept, PartsNext
<1>6. CASE Failure
  <2>1. QueueOK' /\ DataOK' /\ ListensOK'
    BY <1>6, RunTakes DEF Failure
  <2>2. AlertOK' /\ UNCHANGED <<lookups, left, orders, rows, history>>
    BY <1>1, <1>2, <1>6 DEF Failure, AlertOK
  <2> QED
    BY <2>1, <2>2, PartsKept, PartsNext
<1> QED
  BY <1>3, <1>4, <1>5, <1>6 DEF MainBlocks

(* A section is drawn again from the presenter's list.                     *)
LEMMA RedrawnType ==
    ASSUME NEW o \in Order, NEW row \in Order
    PROVE  [o EXCEPT !.names = [j \in DOMAIN row.names |->
               IF j \in DOMAIN o.names THEN o.names[j] ELSE NoName]] \in Order
<1> DEFINE names == [j \in DOMAIN row.names |-> IF j \in DOMAIN o.names THEN o.names[j] ELSE NoName]
<1>1. row.names \in Seq(Nat) /\ o.names \in Seq(Nat) /\ NoName \in Nat
  BY PreviousOrdersAssumption DEF Order
<1>2. names \in Seq(Nat)
  <2>1. DOMAIN row.names = 1 .. Len(row.names) /\ Len(row.names) \in Nat
    BY <1>1
  <2>2. \A j \in DOMAIN row.names : names[j] \in Nat
    BY <1>1
  <2>3. names \in [1 .. Len(row.names) -> Nat]
    BY <2>1, <2>2
  <2> HIDE DEF names
  <2> QED
    BY <2>1, <2>3
<1> HIDE DEF names
<1>3. [o EXCEPT !.names = names] \in Order
  BY <1>2 DEF Order
<1> QED
  BY <1>3 DEF names

LEMMA TypesUser ==
    ASSUME TypeOK, User
    PROVE  TypeOK'
<1>1. ListensOK /\ OrdersOK /\ RowsOK /\ QueueOK
  BY TypeParts
<1>2. {"none", "loading", "noInternet", "popped", "headerTrap"} \subseteq Alerts
  BY DEF Alerts, Gone
<1>3. CASE PrepareData
  <2>1. /\ QueueOK' /\ UNCHANGED <<placed, changes, lookups, left, orders, rows, history>>
        /\ alert' \in {"loading", "noInternet"}
    BY <1>1, <1>3, BetweenFacts DEF PrepareData
  <2>2. ListensOK'
    <3>1. <<>> \in Seq(Order)
      OBVIOUS
    <3>2. [on |-> "new", heard |-> <<>>] \in Listener
      BY <3>1 DEF Listener
    <3> QED
      BY <1>1, <1>3, <3>2 DEF PrepareData, ListensOK
  <2>3. AlertOK'
    BY <1>2, <2>1 DEF AlertOK
  <2> QED
    BY <2>1, <2>2, <2>3, PartsKept, PartsNext
<1>4. CASE Press
  <2>1. /\ QueueOK' /\ UNCHANGED <<outside, lookups, left, orders, rows, history>>
        /\ alert' \in {"none", "popped"}
    BY <1>1, <1>4, BetweenFacts DEF Press
  <2>2. AlertOK'
    BY <1>2, <2>1 DEF AlertOK
  <2> QED
    BY <2>1, <2>2, PartsKept, PartsNext DEF outside
<1>5. ASSUME NEW i \in DOMAIN rows, Scroll(i) PROVE TypeOK'
  <2>1. /\ QueueOK' /\ UNCHANGED <<outside, lookups, left, orders, history>>
    BY <1>1, <1>5, BetweenFacts DEF Scroll
  <2>2. AlertOK' /\ RowsOK'
    <3>1. CASE i \notin DOMAIN orders
      <4>1. alert' = "headerTrap" /\ rows' = rows
        BY <1>5, <3>1 DEF Scroll
      <4> QED
        BY <1>1, <1>2, <4>1 DEF AlertOK, RowsOK
    <3>2. CASE i \in DOMAIN orders
      <4> DEFINE new == [orders[i] EXCEPT !.names = [j \in DOMAIN rows[i].names |->
                            IF j \in DOMAIN orders[i].names THEN orders[i].names[j] ELSE NoName]]
      <4>1. rows' = [rows EXCEPT ![i] = new] /\ alert' = alert
        BY <1>5, <3>2 DEF Scroll
      <4>2. orders[i] \in Order /\ rows[i] \in Order
        BY <1>1, <3>2 DEF OrdersOK, RowsOK
      <4>3. new \in Order
        BY <4>2, RedrawnType
      <4> HIDE DEF new
      <4> QED
        BY <1>1, <4>1, <4>3, PartsKept DEF RowsOK
    <3> QED
      BY <3>1, <3>2
  <2> QED
    BY <2>1, <2>2, PartsKept, PartsNext DEF outside
<1> QED
  BY <1>3, <1>4, <1>5 DEF User

(* What the types need.                                                    *)
RoundsInv ==
    /\ TypeOK /\ StatusCounts
    /\ AnsweredOnce /\ PendingIsOpen /\ ListsAreWhole /\ RoundsCount

LEMMA RoundsInit ==
    ASSUME Init
    PROVE  RoundsInv
<1>1. /\ changes = 0 /\ listeners = <<>> /\ lookups = {} /\ left = <<>>
      /\ orders = <<>> /\ rows = <<>> /\ alert = "none" /\ blocks = <<>> /\ due = 0
      /\ replaced = FALSE /\ shrunk = FALSE /\ failed = FALSE
  BY DEF Init
<1>2. PICK S \in SUBSET Orders : placed \in [S -> {0}]
  BY DEF Init
<1>3. DataOK /\ StatusCounts
  <2>1. 0 \in 0 .. MaxChanges
    BY PreviousOrdersAssumption
  <2>2. placed \in [S -> 0 .. MaxChanges]
    BY <1>2, <2>1
  <2>3. placed \in Databases
    BY <2>2 DEF Databases
  <2> QED
    BY <1>1, <1>2, <2>1, <2>3 DEF DataOK, StatusCounts
<1>4. ListensOK /\ LeftOK /\ OrdersOK /\ RowsOK /\ QueueOK
  <2>1. <<>> \in Seq(Listener) /\ <<>> \in Seq(Nat) /\ <<>> \in Seq(Order) /\ <<>> \in Seq(Block)
    OBVIOUS
  <2>2. 0 \in 0 .. Len(<<>>)
    OBVIOUS
  <2> QED
    BY <1>1, <2>1, <2>2 DEF ListensOK, LeftOK, OrdersOK, RowsOK, QueueOK
<1>5. LookupsOK /\ AlertOK /\ HistoryOK
  BY <1>1 DEF LookupsOK, AlertOK, HistoryOK, Alerts
<1>6. Places = {} /\ Found = {} /\ Answers = {} /\ Pending = {}
  BY <1>1 DEF Places, Found, Answers, Pending
<1>7. AnsweredOnce /\ PendingIsOpen
  BY <1>6 DEF AnsweredOnce, AnswersDiffer, PendingIsOpen
<1>8. ListsAreWhole /\ RoundsCount
  BY <1>1, <1>6 DEF ListsAreWhole, Whole, RoundsCount
<1> QED
  BY <1>3, <1>4, <1>5, <1>7, <1>8, TypeParts DEF RoundsInv

LEMMA OnceStep ==
    ASSUME TypeOK, AnsweredOnce, PendingIsOpen, ListsAreWhole, [Next]_vars
    PROVE  AnsweredOnce'
<1>1. Others => AnsweredOnce'
  BY OthersKeep
<1>2. (\E l \in lookups : Answer(l)) => AnsweredOnce'
  BY AnswerKeeps
<1>3. ShowOrders => AnsweredOnce'
  BY ShowKeeps
<1>4. FillItem => AnsweredOnce'
  BY FillKeeps
<1> QED
  BY <1>1, <1>2, <1>3, <1>4, NextCases

LEMMA RoundsInvStep ==
    ASSUME RoundsInv, [Next]_vars
    PROVE  RoundsInv'
<1>1. /\ TypeOK /\ StatusCounts
      /\ AnsweredOnce /\ PendingIsOpen /\ ListsAreWhole /\ RoundsCount
  BY DEF RoundsInv
<1>2. TypeOK'
  <2>1. CASE UNCHANGED vars
    <3>1. /\ UNCHANGED <<placed, changes>> /\ UNCHANGED listeners /\ UNCHANGED lookups
          /\ UNCHANGED left /\ UNCHANGED orders /\ UNCHANGED rows /\ UNCHANGED alert
          /\ UNCHANGED history /\ UNCHANGED queue
      BY <2>1 DEF vars, history, queue
    <3> QED
      BY <1>1, <3>1, PartsKept, PartsNext
  <2> QED
    BY <1>1, <2>1, TypesNetwork, TypesMainBlocks, TypesUser DEF Next
<1>3. StatusCounts' /\ AnsweredOnce' /\ PendingIsOpen' /\ ListsAreWhole' /\ RoundsCount'
  BY <1>1, StatusStep, OnceStep, OpenStep, WholeStep, RoundsStep
<1> QED
  BY <1>2, <1>3 DEF RoundsInv

-----------------------------------------------------------------------------
(* How the table comes to show the orders there are.                       *)

TableAsked == \E i \in Places : blocks[i].what = "table"
RowsFollow ==
    ~failed /\ alert \notin Gone => rows = orders \/ Pending # {} \/ TableAsked

(* A place without a name waits for a lookup of the last round.            *)
NamesCome ==
    ~failed /\ alert \notin Gone =>
        \A i \in 1 .. Len(orders) : \A j \in DOMAIN orders[i].names :
            orders[i].names[j] = NoName => \E l \in Out(Len(left)) : l.order = i /\ l.item = j

LEMMA TableKept ==
    ASSUME TableAsked
    PROVE  /\ \A what : Takes(what) /\ what # "table" => TableAsked'
           /\ \A b : Puts(b) => TableAsked'
           /\ UNCHANGED blocks => TableAsked'
<1>1. PICK i \in Places : blocks[i].what = "table"
  BY DEF TableAsked
<1>2. ASSUME NEW what, Takes(what), what # "table" PROVE TableAsked'
  BY <1>1, <1>2 DEF Takes, TableAsked
<1>3. ASSUME NEW b, Puts(b) PROVE TableAsked'
  BY <1>1, <1>3 DEF Puts, TableAsked
<1>4. UNCHANGED blocks => TableAsked'
  BY <1>1 DEF TableAsked, Places
<1> QED
  BY <1>2, <1>3, <1>4

LEMMA RowsStep ==
    ASSUME RoundsInv, RowsFollow, [Next]_vars
    PROVE  RowsFollow'
<1>1. /\ TypeOK /\ AnsweredOnce /\ PendingIsOpen /\ ListsAreWhole /\ RoundsCount
      /\ OrdersOK /\ RowsOK /\ QueueOK /\ DataOK /\ HistoryOK
  BY TypeParts DEF RoundsInv
<1>2. SUFFICES ASSUME ~failed', alert' \notin Gone
               PROVE  rows' = orders' \/ Pending' # {} \/ TableAsked'
  BY DEF RowsFollow
<1>3. CASE Others
  <2>1. Pending' = Pending /\ Quiet
    BY <1>1, <1>3, OthersKeep
  <2>2. rows = orders \/ Pending # {} \/ TableAsked
    BY <1>2, <2>1 DEF Quiet, RowsFollow
  <2>3. orders' = orders
    BY <2>1 DEF Quiet
  <2>4. ASSUME NEW o \in Orders, Change(o) PROVE rows' = rows /\ blocks' = blocks
    BY <2>4 DEF Change, queue
  <2>5. ASSUME NEW k \in DOMAIN listeners, Listen(k) PROVE rows' = rows /\ \E b : Puts(b)
    <3>1. [what |-> "orders", orders |-> Listing] \in Block
      BY <1>1, ListingFacts, BlocksOfAllKinds DEF DataOK
    <3> QED
      BY <1>1, <2>5, <3>1, SendPuts DEF Listen
  <2>6. ASSUME NEW k \in DOMAIN listeners, ListenFails(k) PROVE FALSE
    BY <1>2, <2>6 DEF ListenFails
  <2>7. ASSUME SetTable PROVE rows' = orders'
    BY <2>7 DEF SetTable
  <2>8. ASSUME Failure PROVE rows' = rows /\ Takes("error")
    BY <1>1, <2>8, RunTakes DEF Failure
  <2>9. ASSUME PrepareData \/ Press PROVE rows' = rows /\ blocks' = blocks
    BY <1>1, <2>9, BetweenFacts DEF PrepareData, Press
  <2>10. ASSUME NEW i \in DOMAIN rows, Scroll(i)
         PROVE  blocks' = blocks /\ (rows = orders => rows' = rows)
    <3>1. blocks' = blocks
      BY <1>1, <2>10, BetweenFacts DEF Scroll
    <3>2. CASE i \in DOMAIN orders /\ rows = orders
      <4> DEFINE old == orders[i]
                 names == [j \in DOMAIN rows[i].names |->
                             IF j \in DOMAIN old.names THEN old.names[j] ELSE NoName]
      <4>1. rows' = [rows EXCEPT ![i] = [old EXCEPT !.names = names]]
        BY <2>10, <3>2 DEF Scroll
      <4>2. old \in Order /\ old.names \in Seq(Nat)
        <5>1. orders \in Seq(Order) /\ i \in DOMAIN orders
          BY <1>1, <3>2 DEF OrdersOK
        <5>2. old \in Order
          BY <5>1
        <5> HIDE DEF old
        <5> QED
          BY <5>2 DEF Order
      <4>3. names = old.names
        <5>1. names = [j \in DOMAIN old.names |-> old.names[j]]
          BY <3>2
        <5> HIDE DEF names
        <5> QED
          BY <4>2, <5>1
      <4> HIDE DEF names
      <4>4. [old EXCEPT !.names = names] = old
        BY <4>2, <4>3 DEF Order
      <4> QED
        BY <1>1, <3>1, <3>2, <4>1, <4>4 DEF RowsOK
    <3>3. CASE i \notin DOMAIN orders
      BY <2>10, <3>1, <3>3 DEF Scroll
    <3> QED
      BY <3>1, <3>2, <3>3
  <2>11. ASSUME UNCHANGED vars PROVE rows' = rows /\ blocks' = blocks
    BY <2>11 DEF vars
  <2>12. \/ rows' = orders'
         \/ (rows = orders => rows' = rows) /\ (TableAsked => TableAsked')
    BY <1>3, <2>4, <2>5, <2>6, <2>7, <2>8, <2>9, <2>10, <2>11, TableKept DEF Others, User
  <2> QED
    BY <2>1, <2>2, <2>3, <2>12
<1>4. ASSUME NEW l \in lookups, Answer(l) PROVE rows' = orders' \/ Pending' # {} \/ TableAsked'
  <2>1. UNCHANGED <<orders, rows, alert>> /\ \E b : Puts(b)
    BY <1>1, <1>4, AnswerKeeps
  <2>2. Pending' = Pending /\ ~failed
    BY <1>1, <1>2, <1>4, AnswerKeeps
  <2> QED
    BY <1>2, <2>1, <2>2, TableKept DEF RowsFollow
<1>5. CASE ShowOrders
  <2> DEFINE new == Asked(orders', Len(left) + 1)
  <2>1. /\ Pending' = Pending \cup new /\ orders' \in Seq(Order) /\ Whole(orders')
        /\ Len(left) + 1 \in Nat
    BY <1>1, <1>5, ShowKeeps
  <2>2. orders' = <<>> => rows' = orders'
    BY <1>5 DEF ShowOrders
  <2>3. orders' # <<>> => new # {}
    BY <2>1, AskedFacts
  <2> HIDE DEF new
  <2> QED
    BY <2>1, <2>2, <2>3
<1>6. CASE FillItem
  <2> DEFINE l == Head(blocks).of
  <2>1. /\ Pending' = Pending \ {l} /\ l \in Pending /\ l \in Lookup
        /\ alert \notin Gone /\ failed' = failed /\ (Fills(l) \/ Misses(l))
    BY <1>1, <1>6, FillKeeps DEF history
  <2> HIDE DEF l
  <2>2. ~Misses(l)
    BY <1>2 DEF Misses, Gone
  <2> DEFINE r == l.round
  <2>3. r \in 1 .. Len(left) /\ l \in Out(r) /\ alert # "lookupTrap" /\ ~failed
    BY <1>1, <1>2, <2>1 DEF PendingIsOpen, Out, Gone
  <2>4. left[r] = Cardinality(Out(r))
    BY <1>1, <2>3 DEF RoundsCount, RoundCounts
  <2> HIDE DEF r
  <2>5. /\ left[r] \in Nat /\ left[r] >= 1 /\ IsFiniteSet(Out(r) \ {l})
        /\ Cardinality(Out(r) \ {l}) = Cardinality(Out(r)) - 1
    BY <1>1, <2>3, CountLess
  <2>6. CASE left[r] = 1
    BY <2>1, <2>2, <2>6 DEF Fills, TableAsked, r
  <2>7. CASE left[r] # 1
    <3>1. Cardinality(Out(r) \ {l}) # 0
      BY <2>4, <2>5, <2>7
    <3>2. Out(r) \ {l} # {}
      BY <2>5, <3>1, FS_EmptySet
    <3> QED
      BY <2>1, <3>2 DEF Out
  <2> QED
    BY <2>6, <2>7
<1> QED
  BY <1>3, <1>4, <1>5, <1>6, NextCases

LEMMA NamesComeStep ==
    ASSUME RoundsInv, NamesCome, [Next]_vars
    PROVE  NamesCome'
<1>1. /\ TypeOK /\ AnsweredOnce /\ PendingIsOpen /\ ListsAreWhole /\ RoundsCount
      /\ OrdersOK /\ left \in Seq(Nat) /\ Len(left) \in Nat
  BY TypeParts DEF RoundsInv, LeftOK
<1>2. \A r : Out(r)' = {l \in Pending' : l.round = r}
  BY DEF Out
<1>3. SUFFICES ASSUME ~failed', alert' \notin Gone,
                      NEW i \in 1 .. Len(orders'), NEW j \in DOMAIN orders'[i].names,
                      orders'[i].names[j] = NoName
               PROVE  \E l \in Pending' : l.round = Len(left') /\ l.order = i /\ l.item = j
  BY <1>2 DEF NamesCome, Out
<1>4. ASSUME ~failed, alert \notin Gone, i \in 1 .. Len(orders), j \in DOMAIN orders[i].names,
             orders[i].names[j] = NoName
      PROVE  \E l \in Pending : l.round = Len(left) /\ l.order = i /\ l.item = j
  BY <1>4 DEF NamesCome, Out
<1>5. CASE Others
  <2>1. Pending' = Pending /\ Quiet
    BY <1>1, <1>5, OthersKeep
  <2>2. orders' = orders /\ left' = left /\ ~failed /\ alert \notin Gone
    BY <1>3, <2>1 DEF Quiet
  <2> QED
    BY <1>3, <1>4, <2>1, <2>2
<1>6. ASSUME NEW m \in lookups, Answer(m)
      PROVE  \E l \in Pending' : l.round = Len(left') /\ l.order = i /\ l.item = j
  <2>1. UNCHANGED <<orders, left, alert>>
    BY <1>1, <1>6, AnswerKeeps
  <2>2. Pending' = Pending /\ ~failed
    BY <1>1, <1>3, <1>6, AnswerKeeps
  <2> QED
    BY <1>3, <1>4, <2>1, <2>2
<1>7. CASE ShowOrders
  <2> DEFINE new == Asked(orders', Len(left) + 1)
             n   == Cardinality(PlacesOf(orders'))
  <2>1. /\ Pending' = Pending \cup new /\ orders' \in Seq(Order) /\ Whole(orders')
        /\ Len(left) + 1 \in Nat /\ left' = Append(left, n)
    BY <1>1, <1>7, ShowKeeps
  <2>2. \A l \in new : l.round = Len(left) + 1
    BY <2>1, AskedFacts
  <2>3. \E l \in new : l.order = i /\ l.item = j
    <3> DEFINE r == Len(left) + 1
    <3>1. r \in Nat
      BY <2>1
    <3> HIDE DEF r
    <3>2. \A a \in 1 .. Len(orders') : \A b \in DOMAIN orders'[a].names :
             \E l \in Asked(orders', r) : l.order = a /\ l.item = b
      BY <2>1, <3>1, EveryItemIsAsked
    <3>3. \A a \in 1 .. Len(orders') : \A b \in DOMAIN orders'[a].names :
             \E l \in new : l.order = a /\ l.item = b
      BY <3>2 DEF r
    <3> HIDE DEF new
    <3> QED
      BY <1>3, <3>3
  <2>4. Len(left') = Len(left) + 1
    <3>1. n \in Nat
      BY <2>1, PlacesOfFacts
    <3> HIDE DEF n
    <3> QED
      BY <1>1, <2>1, <3>1
  <2> HIDE DEF new
  <2> QED
    BY <2>1, <2>2, <2>3, <2>4
<1>8. CASE FillItem
  <2> DEFINE m == Head(blocks).of
  <2>1. /\ Pending' = Pending \ {m} /\ m \in Pending /\ m \in Lookup
        /\ alert \notin Gone /\ failed' = failed /\ (Fills(m) \/ Misses(m))
    BY <1>1, <1>8, FillKeeps DEF history
  <2> HIDE DEF m
  <2>2. Fills(m)
    BY <1>3, <2>1 DEF Misses, Gone
  <2>3. Len(left') = Len(left)
    BY <1>1, <2>2 DEF Fills
  <2>4. /\ i \in 1 .. Len(orders) /\ j \in DOMAIN orders[i].names
        /\ orders'[i].names[j] = IF i = m.order /\ j = m.item THEN m.id ELSE orders[i].names[j]
    BY <1>1, <1>3, <2>1, <2>2, FillsFacts
  <2>5. m.id # NoName
    BY <1>1, <2>1 DEF PendingIsOpen
  <2>6. orders[i].names[j] = NoName /\ ~(i = m.order /\ j = m.item)
    BY <1>3, <2>4, <2>5
  <2> QED
    BY <1>3, <1>4, <2>1, <2>3, <2>4, <2>6
<1> QED
  BY <1>5, <1>6, <1>7, <1>8, NextCases

(* A list is the last that the presenter will have, ...                    *)
Comes(list) ==
    \E i \in Places : /\ blocks[i].what = "orders" /\ blocks[i].orders = list
                      /\ \A j \in Places : j > i => blocks[j].what # "orders"
(* ... or its orders are those that the presenter has for good.            *)
IsThere(list) ==
    IdsOf(orders) = IdsOf(list) /\ \A j \in Places : blocks[j].what # "orders"

(* Whoever sent the last list has not heard a later one.                   *)
LastIsHeard ==
    ~failed =>
        \/ \A k \in 1 .. Len(listeners) : listeners[k].on = "new"
        \/ \E k \in 1 .. Len(listeners) :
              listeners[k].on # "new" /\ (Comes(listeners[k].heard) \/ IsThere(listeners[k].heard))

(* Blocks other than lists change nothing.                                 *)
OtherBlock ==
    \/ \E what : Takes(what) /\ what # "orders"
    \/ \E b : Puts(b) /\ b.what # "orders"
    \/ UNCHANGED blocks

LEMMA IdsKept ==
    ASSUME NEW list \in Seq(Order), NEW other \in Seq(Order), Len(other) = Len(list),
           \A i \in 1 .. Len(list) : other[i].id = list[i].id
    PROVE  IdsOf(other) = IdsOf(list)
BY DEF IdsOf

LEMMA FillsIds ==
    ASSUME OrdersOK, NEW l \in Lookup, Fills(l) \/ Misses(l)
    PROVE  IdsOf(orders') = IdsOf(orders) /\ Len(orders') = Len(orders)
<1>1. CASE Fills(l)
  BY <1>1, FillsFacts, IdsKept DEF OrdersOK
<1>2. CASE Misses(l)
  BY <1>2 DEF Misses
<1> QED
  BY <1>1, <1>2

LEMMA OthersSend ==
    ASSUME RoundsInv, [Next]_vars
    PROVE  \/ OtherBlock /\ IdsOf(orders') = IdsOf(orders) /\ Len(orders') = Len(orders)
           \/ ShowOrders
           \/ \E k \in DOMAIN listeners : Listen(k)
<1>1. TypeOK /\ AnsweredOnce /\ QueueOK /\ DataOK /\ OrdersOK
  BY TypeParts DEF RoundsInv
<1>2. CASE Others
  <2>1. IdsOf(orders') = IdsOf(orders) /\ Len(orders') = Len(orders)
    BY <1>1, <1>2, OthersKeep DEF Quiet
  <2>2. ASSUME NEW o \in Orders, Change(o) PROVE OtherBlock
    BY <2>2 DEF Change, queue, OtherBlock
  <2>3. ASSUME NEW k \in DOMAIN listeners, ListenFails(k) PROVE OtherBlock
    <3>1. Puts([what |-> "error"])
      BY <1>1, <2>3, SendPuts, BlocksOfAllKinds DEF ListenFails
    <3>2. [what |-> "error"].what # "orders"
      OBVIOUS
    <3> QED
      BY <3>1, <3>2 DEF OtherBlock
  <2>4. ASSUME SetTable \/ Failure PROVE OtherBlock
    <3>1. Takes("table") \/ Takes("error")
      BY <1>1, <2>4, RunTakes DEF SetTable, Failure
    <3> QED
      BY <3>1 DEF OtherBlock
  <2>5. ASSUME User PROVE OtherBlock
    BY <1>1, <2>5, BetweenFacts DEF User, PrepareData, Press, Scroll, OtherBlock
  <2>6. ASSUME UNCHANGED vars PROVE OtherBlock
    BY <2>6 DEF vars, OtherBlock
  <2> QED
    BY <1>2, <2>1, <2>2, <2>3, <2>4, <2>5, <2>6 DEF Others
<1>3. ASSUME NEW l \in lookups, Answer(l)
      PROVE  OtherBlock /\ IdsOf(orders') = IdsOf(orders) /\ Len(orders') = Len(orders)
  <2>1. orders' = orders /\ (Puts([what |-> "found", of |-> l]) \/ Puts([what |-> "error"]))
    BY <1>1, <1>3, AnswerKeeps
  <2>2. [what |-> "found", of |-> l].what # "orders" /\ [what |-> "error"].what # "orders"
    OBVIOUS
  <2> QED
    BY <2>1, <2>2 DEF OtherBlock
<1>4. CASE FillItem
  <2>1. Takes("found") /\ IdsOf(orders') = IdsOf(orders) /\ Len(orders') = Len(orders)
    BY <1>1, <1>4, FillKeeps, FillsIds
  <2> QED
    BY <2>1 DEF OtherBlock
<1> QED
  BY <1>2, <1>3, <1>4, NextCases

LEMMA HeardKept ==
    ASSUME QueueOK, OtherBlock, IdsOf(orders') = IdsOf(orders), NEW list,
           Comes(list) \/ IsThere(list)
    PROVE  Comes(list)' \/ IsThere(list)'
<1>1. Places \subseteq Nat
  BY DEF Places
<1>2. ASSUME NEW what, Takes(what), what # "orders" PROVE Comes(list)' \/ IsThere(list)'
  <2>1. /\ blocks[1].what # "orders" /\ Places' \subseteq Nat
        /\ \A i \in Places' : \/ i + 1 \in Places /\ blocks'[i] = blocks[i + 1]
                              \/ i + 1 \notin Places /\ blocks'[i].what = "table"
        /\ \A i \in Places : i = 1 \/ (i > 1 /\ i - 1 \in Places' /\ blocks'[i - 1] = blocks[i])
    BY <1>2 DEF Takes, Places
  <2>2. CASE Comes(list)
    <3>1. PICK i \in Places : /\ blocks[i].what = "orders" /\ blocks[i].orders = list
                              /\ \A j \in Places : j > i => blocks[j].what # "orders"
      BY <2>2 DEF Comes
    <3>2. i - 1 \in Places' /\ blocks'[i - 1] = blocks[i] /\ i \in Nat
      BY <1>1, <2>1, <3>1
    <3>3. ASSUME NEW j \in Places', j > i - 1 PROVE blocks'[j].what # "orders"
      <4>1. j + 1 > i
        BY <2>1, <3>2, <3>3
      <4> QED
        BY <2>1, <3>1, <4>1
    <3> QED
      BY <3>1, <3>2, <3>3 DEF Comes
  <2>3. CASE IsThere(list)
    BY <2>1, <2>3 DEF IsThere
  <2> QED
    BY <2>2, <2>3
<1>3. ASSUME NEW b, Puts(b), b.what # "orders" PROVE Comes(list)' \/ IsThere(list)'
  <2>1. /\ \A i \in Places : i \in Places' /\ blocks'[i] = blocks[i]
        /\ \A i \in Places' : i \in Places \/ blocks'[i].what # "orders"
    BY <1>3 DEF Puts
  <2>2. Comes(list) => Comes(list)'
    BY <2>1 DEF Comes
  <2>3. IsThere(list) => IsThere(list)'
    BY <2>1 DEF IsThere
  <2> QED
    BY <2>2, <2>3
<1>4. CASE UNCHANGED blocks
  BY <1>4 DEF Comes, IsThere, Places
<1> QED
  BY <1>2, <1>3, <1>4 DEF OtherBlock

LEMMA HeardStep ==
    ASSUME RoundsInv, LastIsHeard, [Next]_vars
    PROVE  LastIsHeard'
<1>1. /\ TypeOK /\ AnsweredOnce /\ PendingIsOpen /\ ListsAreWhole
      /\ QueueOK /\ DataOK /\ listeners \in Seq(Listener) /\ Len(listeners) \in Nat
  BY TypeParts DEF RoundsInv, ListensOK
<1>2. SUFFICES ASSUME ~failed'
               PROVE  \/ \A k \in 1 .. Len(listeners') : listeners'[k].on = "new"
                      \/ \E k \in 1 .. Len(listeners') : \E list :
                            /\ listeners'[k].on # "new" /\ list = listeners'[k].heard
                            /\ Comes(list)' \/ IsThere(list)'
  BY DEF LastIsHeard, Comes, IsThere
<1>3. ASSUME ~failed
      PROVE  \/ \A k \in 1 .. Len(listeners) : listeners[k].on = "new"
             \/ \E k \in 1 .. Len(listeners) : \E list :
                   /\ listeners[k].on # "new" /\ list = listeners[k].heard
                   /\ Comes(list) \/ IsThere(list)
  BY <1>3 DEF LastIsHeard
<1>4. CASE \E k \in DOMAIN listeners : Listen(k)
  <2>1. PICK k \in DOMAIN listeners : Listen(k)
    BY <1>4
  <2> DEFINE b == [what |-> "orders", orders |-> Listing]
  <2>2. listeners' = [listeners EXCEPT ![k] = [on |-> "on", heard |-> Listing]] /\ Send(b)
    BY <2>1 DEF Listen
  <2>3. PICK list : list = Listing
    OBVIOUS
  <2>4. b \in Block /\ b.what = "orders" /\ b.orders = list
    BY <1>1, <2>3, ListingFacts, BlocksOfAllKinds DEF DataOK
  <2> HIDE DEF b
  <2>5. Puts(b)
    BY <1>1, <2>2, <2>4, SendPuts
  <2>6. k \in 1 .. Len(listeners') /\ listeners'[k].on # "new" /\ listeners'[k].heard = list
    BY <1>1, <2>2, <2>3
  <2>7. Comes(list)'
    <3> DEFINE last == Len(blocks) + 1
    <3>1. /\ last \in Places' /\ blocks'[last].what = "orders" /\ blocks'[last].orders = list
          /\ \A i \in Places' : ~(i > last)
      BY <2>4, <2>5 DEF Puts, Places
    <3> HIDE DEF last
    <3> QED
      BY <3>1 DEF Comes
  <2> QED
    BY <2>6, <2>7
<1>5. CASE ShowOrders
  <2>1. /\ Takes("orders") /\ orders' = blocks[1].orders
        /\ listeners' = listeners /\ failed' = failed
    BY <1>1, <1>5, ShowKeeps DEF outside
  <2>2. /\ blocks[1].what = "orders" /\ 1 \in Places /\ Places \subseteq Nat /\ Places' \subseteq Nat
        /\ \A i \in Places' : \/ i + 1 \in Places /\ blocks'[i] = blocks[i + 1]
                              \/ i + 1 \notin Places /\ blocks'[i].what = "table"
        /\ \A i \in Places : i = 1 \/ (i > 1 /\ i - 1 \in Places' /\ blocks'[i - 1] = blocks[i])
    BY <2>1 DEF Takes, Places
  <2>3. ASSUME NEW list, Comes(list) \/ IsThere(list) PROVE Comes(list)' \/ IsThere(list)'
    <3>1. PICK i \in Places : /\ blocks[i].what = "orders" /\ blocks[i].orders = list
                              /\ \A j \in Places : j > i => blocks[j].what # "orders"
      BY <2>2, <2>3 DEF Comes, IsThere
    <3>2. ASSUME NEW j \in Places', j + 1 > i PROVE blocks'[j].what # "orders"
      BY <2>2, <3>1, <3>2
    <3>3. CASE i = 1
      <4>1. \A j \in Places' : blocks'[j].what # "orders"
        <5> TAKE j \in Places'
        <5>1. j + 1 > 1
          BY DEF Places
        <5> QED
          BY <3>2, <3>3, <5>1
      <4>2. orders' = list
        BY <2>1, <3>1, <3>3
      <4> QED
        BY <4>1, <4>2 DEF IsThere
    <3>4. CASE i # 1
      <4>1. i - 1 \in Places' /\ blocks'[i - 1] = blocks[i]
        BY <2>2, <3>4
      <4>2. \A j \in Places' : j > i - 1 => blocks'[j].what # "orders"
        <5> TAKE j \in Places'
        <5>1. j \in Nat /\ i \in Nat
          BY <2>2
        <5> QED
          BY <3>2, <5>1
      <4> QED
        BY <3>1, <4>1, <4>2 DEF Comes
    <3> QED
      BY <3>3, <3>4
  <2> QED
    BY <1>2, <1>3, <2>1, <2>3
<1>6. CASE OtherBlock /\ IdsOf(orders') = IdsOf(orders) /\ ~\E k \in DOMAIN listeners : Listen(k)
  <2>1. ~failed
    BY <1>1, <1>2, OthersKeep, AnswerKeeps, ShowKeeps, FillKeeps, NextCases DEF Quiet, history
  <2>2. \A list : Comes(list) \/ IsThere(list) => Comes(list)' \/ IsThere(list)'
    BY <1>1, <1>6, HeardKept
  <2>3. \/ listeners' = listeners
        \/ listeners' = Append(listeners, [on |-> "new", heard |-> <<>>])
    <3>1. Network => listeners' = listeners
      BY <1>2, <1>6 DEF Network, Change, ListenFails, Answer, outside
    <3>2. MainBlocks => listeners' = listeners
      BY DEF MainBlocks, ShowOrders, FillItem, Fill, SetTable, Failure, Run, outside
    <3>3. User => \/ listeners' = listeners
                  \/ listeners' = Append(listeners, [on |-> "new", heard |-> <<>>])
      BY DEF User, PrepareData, Press, Scroll, outside
    <3>4. UNCHANGED vars => listeners' = listeners
      BY DEF vars
    <3> QED
      BY <3>1, <3>2, <3>3, <3>4 DEF Next
  <2>4. /\ \A k \in 1 .. Len(listeners) : k \in 1 .. Len(listeners') /\ listeners'[k] = listeners[k]
        /\ \A k \in 1 .. Len(listeners') : k \in 1 .. Len(listeners) \/ listeners'[k].on = "new"
    <3>1. CASE listeners' = listeners
      BY <3>1
    <3>2. CASE listeners' = Append(listeners, [on |-> "new", heard |-> <<>>])
      <4> DEFINE new == [on |-> "new", heard |-> <<>>]
      <4>1. <<>> \in Seq(Order)
        OBVIOUS
      <4>2. new \in Listener /\ new.on = "new"
        BY <4>1 DEF Listener
      <4> HIDE DEF new
      <4>3. listeners' = Append(listeners, new)
        BY <3>2 DEF new
      <4> QED
        BY <1>1, <4>2, <4>3, AppendFacts
    <3> QED
      BY <2>3, <3>1, <3>2
  <2> QED
    BY <1>3, <2>1, <2>2, <2>4
<1> QED
  BY <1>4, <1>5, <1>6, OthersSend

-----------------------------------------------------------------------------
(* Why lookups find their places.                                          *)

HasPlace(l) ==
    /\ l.order \in 1 .. Len(orders) /\ l.item \in DOMAIN orders[l.order].names
    /\ l.id = ItemsOf[orders[l.order].id][l.item]
PlacesStay == ~replaced => \A l \in Pending : HasPlace(l)

LEMMA RunningIsPending ==
    ASSUME TypeOK
    PROVE  Running <=> Pending # {}
<1>1. DOMAIN blocks = Places
  BY TypeParts DEF QueueOK, Places
<1>2. Running <=> lookups # {} \/ Found # {}
  BY <1>1 DEF Running, Found
<1>3. Found # {} <=> Answers # {}
  BY DEF Answers
<1> QED
  BY <1>2, <1>3 DEF Pending

LEMMA PlacesStep ==
    ASSUME RoundsInv, PlacesStay, [Next]_vars
    PROVE  PlacesStay'
<1>1. TypeOK /\ AnsweredOnce /\ PendingIsOpen /\ ListsAreWhole /\ OrdersOK
  BY TypeParts DEF RoundsInv
<1>2. CASE Others
  <2>1. Pending' = Pending /\ orders' = orders /\ replaced' = replaced
    BY <1>1, <1>2, OthersKeep DEF Quiet
  <2> QED
    BY <2>1 DEF PlacesStay, HasPlace
<1>3. ASSUME NEW l \in lookups, Answer(l) PROVE PlacesStay'
  <2>1. Pending' \subseteq Pending /\ orders' = orders /\ replaced' = replaced
    BY <1>1, <1>3, AnswerKeeps
  <2> QED
    BY <2>1 DEF PlacesStay, HasPlace
<1>4. CASE ShowOrders
  <2> DEFINE new == Asked(orders', Len(left) + 1)
  <2>1. /\ Pending' = Pending \cup new /\ orders' \in Seq(Order) /\ Whole(orders')
        /\ Len(left) + 1 \in Nat
    BY <1>1, <1>4, ShowKeeps
  <2>2. \A l \in new : /\ l.order \in 1 .. Len(orders') /\ l.item \in DOMAIN orders'[l.order].names
                       /\ l.id = ItemsOf[orders'[l.order].id][l.item]
    BY <2>1, AskedFacts
  <2> HIDE DEF new
  <2>3. replaced' = (replaced \/ (Running /\ IdsOf(orders') # IdsOf(orders)))
    BY <1>4 DEF ShowOrders
  <2>4. Running <=> Pending # {}
    BY <1>1, RunningIsPending
  <2>5. ASSUME ~replaced', NEW l \in Pending PROVE HasPlace(l)'
    <3>1. HasPlace(l) /\ IdsOf(orders') = IdsOf(orders)
      BY <2>3, <2>4, <2>5 DEF PlacesStay
    <3>2. /\ DOMAIN orders = 1 .. Len(orders) /\ DOMAIN orders' = 1 .. Len(orders')
          /\ Len(orders) \in Nat /\ Len(orders') \in Nat
      BY <1>1, <2>1 DEF OrdersOK
    <3>3. DOMAIN orders' = DOMAIN orders /\ \A i \in DOMAIN orders : orders'[i].id = orders[i].id
      <4>1. DOMAIN IdsOf(orders') = DOMAIN orders' /\ DOMAIN IdsOf(orders) = DOMAIN orders
        BY DEF IdsOf
      <4>2. \A i \in DOMAIN orders' : IdsOf(orders')[i] = orders'[i].id
        BY DEF IdsOf
      <4>3. \A i \in DOMAIN orders : IdsOf(orders)[i] = orders[i].id
        BY DEF IdsOf
      <4> QED
        BY <3>1, <4>1, <4>2, <4>3
    <3>4. l.order \in 1 .. Len(orders') /\ orders'[l.order].id = orders[l.order].id
      BY <3>1, <3>2, <3>3 DEF HasPlace
    <3>5. DOMAIN orders'[l.order].names = DOMAIN orders[l.order].names
      BY <1>1, <2>1, <3>1, <3>4 DEF Whole, ListsAreWhole, HasPlace
    <3> QED
      BY <3>1, <3>4, <3>5 DEF HasPlace
  <2>6. \A l \in new : HasPlace(l)'
    BY <2>2 DEF HasPlace
  <2> QED
    BY <2>1, <2>5, <2>6 DEF PlacesStay
<1>5. CASE FillItem
  <2> DEFINE m == Head(blocks).of
  <2>1. /\ Pending' = Pending \ {m} /\ m \in Lookup
        /\ replaced' = replaced /\ (Fills(m) \/ Misses(m))
    BY <1>1, <1>5, FillKeeps DEF history
  <2> HIDE DEF m
  <2>2. CASE Misses(m)
    BY <2>1, <2>2 DEF Misses, PlacesStay, HasPlace
  <2>3. CASE Fills(m)
    <3>1. /\ Len(orders') = Len(orders)
          /\ \A i \in 1 .. Len(orders) :
                orders'[i].id = orders[i].id /\ DOMAIN orders'[i].names = DOMAIN orders[i].names
      BY <1>1, <2>1, <2>3, FillsFacts
    <3> QED
      BY <2>1, <3>1 DEF PlacesStay, HasPlace
  <2> QED
    BY <2>1, <2>2, <2>3
<1> QED
  BY <1>2, <1>3, <1>4, <1>5, NextCases

LEMMA NamesStep ==
    ASSUME RoundsInv, PlacesStay, NamesAreRight, [Next]_vars
    PROVE  NamesAreRight'
<1>1. TypeOK /\ AnsweredOnce /\ PendingIsOpen /\ ListsAreWhole /\ OrdersOK
  BY TypeParts DEF RoundsInv
<1>2. CASE Others
  <2>1. orders' = orders /\ replaced' = replaced
    BY <1>1, <1>2, OthersKeep DEF Quiet
  <2> QED
    BY <2>1 DEF NamesAreRight
<1>3. ASSUME NEW l \in lookups, Answer(l) PROVE NamesAreRight'
  <2>1. orders' = orders /\ replaced' = replaced
    BY <1>1, <1>3, AnswerKeeps
  <2> QED
    BY <2>1 DEF NamesAreRight
<1>4. CASE ShowOrders
  <2>1. orders' \in Seq(Order) /\ Unfilled(orders')
    BY <1>1, <1>4, ShowKeeps
  <2>2. \A i \in DOMAIN orders' : \A j \in DOMAIN orders'[i].names : orders'[i].names[j] = NoName
    <3>1. \A i \in DOMAIN orders' : i \in 1 .. Len(orders')
      BY <2>1
    <3>2. \A i \in DOMAIN orders' :
             orders'[i].names = [j \in DOMAIN ItemsOf[orders'[i].id] |-> NoName]
      BY <2>1, <3>1 DEF Unfilled
    <3> QED
      BY <3>2
  <2> QED
    BY <2>2 DEF NamesAreRight
<1>5. CASE FillItem
  <2> DEFINE m == Head(blocks).of
  <2>1. /\ m \in Pending /\ m \in Lookup /\ replaced' = replaced /\ (Fills(m) \/ Misses(m))
    BY <1>1, <1>5, FillKeeps DEF history
  <2> HIDE DEF m
  <2>2. CASE Misses(m)
    BY <2>1, <2>2 DEF Misses, NamesAreRight
  <2>3. CASE Fills(m)
    <3>1. SUFFICES ASSUME ~replaced, NEW i \in DOMAIN orders', NEW j \in DOMAIN orders'[i].names
                   PROVE  orders'[i].names[j] \in {NoName, ItemsOf[orders'[i].id][j]}
      BY <2>1 DEF NamesAreRight
    <3>2. /\ orders' \in Seq(Order) /\ Len(orders') = Len(orders)
          /\ \A k \in 1 .. Len(orders) :
                /\ orders'[k].id = orders[k].id
                /\ DOMAIN orders'[k].names = DOMAIN orders[k].names
                /\ \A p \in DOMAIN orders[k].names :
                      orders'[k].names[p] = IF k = m.order /\ p = m.item THEN m.id
                                            ELSE orders[k].names[p]
      BY <1>1, <2>1, <2>3, FillsFacts
    <3>3. i \in 1 .. Len(orders) /\ i \in DOMAIN orders
      BY <1>1, <3>2 DEF OrdersOK
    <3>4. /\ orders'[i].id = orders[i].id /\ j \in DOMAIN orders[i].names
          /\ orders'[i].names[j] = IF i = m.order /\ j = m.item THEN m.id ELSE orders[i].names[j]
      BY <3>2, <3>3
    <3>5. m.id = ItemsOf[orders[m.order].id][m.item]
      BY <2>1, <3>1 DEF PlacesStay, HasPlace
    <3>6. orders[i].names[j] \in {NoName, ItemsOf[orders[i].id][j]}
      BY <3>1, <3>3, <3>4 DEF NamesAreRight
    <3> QED
      BY <3>4, <3>5, <3>6
  <2> QED
    BY <2>1, <2>2, <2>3
<1> QED
  BY <1>2, <1>3, <1>4, <1>5, NextCases

(* Unless orders disappear, lists only become longer.                      *)
RowsFit == ~shrunk => Len(rows) <= Len(orders)
QueueGrows ==
    ~shrunk =>
        /\ Len(orders) <= Cardinality(DOMAIN placed)
        /\ \A i \in Places : blocks[i].what = "orders" =>
              /\ Len(orders) <= Len(blocks[i].orders)
              /\ Len(blocks[i].orders) <= Cardinality(DOMAIN placed)
              /\ \A j \in Places : j > i /\ blocks[j].what = "orders" =>
                    Len(blocks[i].orders) <= Len(blocks[j].orders)

LEMMA PlacedGrows ==
    ASSUME TypeOK, [Next]_vars, ~shrunk'
    PROVE  /\ ~shrunk /\ Cardinality(DOMAIN placed) \in Nat /\ Cardinality(DOMAIN placed') \in Nat
           /\ Cardinality(DOMAIN placed) <= Cardinality(DOMAIN placed')
<1>1. IsFiniteSet(DOMAIN placed) /\ Cardinality(DOMAIN placed) \in Nat
  BY TypeParts, ListingFacts, FS_CardinalityType DEF DataOK
<1>2. CASE UNCHANGED <<placed, shrunk>>
  BY <1>1, <1>2
<1>3. ASSUME NEW o \in Orders, Change(o)
      PROVE  /\ ~shrunk /\ Cardinality(DOMAIN placed') \in Nat
             /\ Cardinality(DOMAIN placed) <= Cardinality(DOMAIN placed')
  <2>1. shrunk' = (shrunk \/ o \notin DOMAIN placed')
    BY <1>3 DEF Change
  <2>2. o \in DOMAIN placed' /\ ~shrunk
    BY <2>1
  <2>3. DOMAIN placed' = DOMAIN placed \cup {o}
    BY <1>3, <2>2 DEF Change
  <2>4. IsFiniteSet(DOMAIN placed') /\ DOMAIN placed \in SUBSET DOMAIN placed'
    BY <1>1, <2>3, FS_AddElement
  <2> QED
    BY <2>2, <2>4, FS_Subset, FS_CardinalityType
<1>4. CASE Network
  BY <1>1, <1>2, <1>3, <1>4 DEF Network, Listen, ListenFails, Answer, outside, history
<1>5. CASE MainBlocks
  <2>1. UNCHANGED outside /\ UNCHANGED shrunk
    BY <1>5 DEF MainBlocks, ShowOrders, FillItem, Fill, SetTable, Failure, Run, history
  <2> QED
    BY <1>2, <2>1 DEF outside
<1>6. CASE User
  <2>1. UNCHANGED <<placed, shrunk>>
    BY <1>6 DEF User, PrepareData, Press, Scroll, outside, history
  <2> QED
    BY <1>2, <2>1
<1>7. CASE UNCHANGED vars
  BY <1>2, <1>7 DEF vars
<1> QED
  BY <1>1, <1>4, <1>5, <1>6, <1>7 DEF Next

LEMMA ListSizes ==
    ASSUME TypeOK
    PROVE  /\ Len(orders) \in Nat /\ Len(rows) \in Nat /\ Places \subseteq Nat
           /\ \A i \in Places : blocks[i].what = "orders" => Len(blocks[i].orders) \in Nat
<1>1. /\ blocks \in Seq(Block) /\ orders \in Seq(Order) /\ rows \in Seq(Order)
  BY TypeParts DEF QueueOK, OrdersOK, RowsOK
<1>2. \A i \in Places : blocks[i] \in Block
  BY <1>1 DEF Places
<1>3. \A i \in Places : blocks[i].what = "orders" => blocks[i].orders \in Seq(Order)
  BY <1>2, BlockFacts
<1> QED
  BY <1>1, <1>3 DEF Places

LEMMA GrowsStep ==
    ASSUME RoundsInv, QueueGrows, [Next]_vars
    PROVE  QueueGrows'
<1>1. /\ TypeOK /\ AnsweredOnce /\ PendingIsOpen /\ ListsAreWhole /\ QueueOK /\ DataOK
      /\ TypeOK'
  BY TypeParts, RoundsInvStep DEF RoundsInv
<1> DEFINE have == Cardinality(DOMAIN placed)
           will == Cardinality(DOMAIN placed')
<1>2. SUFFICES ASSUME ~shrunk'
               PROVE  /\ Len(orders') <= will
                      /\ \A i \in Places' : blocks'[i].what = "orders" =>
                            /\ Len(orders') <= Len(blocks'[i].orders)
                            /\ Len(blocks'[i].orders) <= will
                            /\ \A j \in Places' : j > i /\ blocks'[j].what = "orders" =>
                                  Len(blocks'[i].orders) <= Len(blocks'[j].orders)
  BY DEF QueueGrows
<1>3. ~shrunk /\ have \in Nat /\ will \in Nat /\ have <= will
  BY <1>1, <1>2, PlacedGrows
<1>4. /\ Len(orders) <= have
      /\ \A i \in Places : blocks[i].what = "orders" =>
            /\ Len(orders) <= Len(blocks[i].orders)
            /\ Len(blocks[i].orders) <= have
            /\ \A j \in Places : j > i /\ blocks[j].what = "orders" =>
                  Len(blocks[i].orders) <= Len(blocks[j].orders)
  BY <1>3 DEF QueueGrows
<1> HIDE DEF have, will
<1>5. /\ Len(orders) \in Nat /\ Places \subseteq Nat /\ Places' \subseteq Nat
      /\ \A i \in Places : blocks[i].what = "orders" => Len(blocks[i].orders) \in Nat
  BY <1>1, ListSizes DEF Places
<1>6. \A i \in Places : blocks[i].what = "orders" => Len(blocks[i].orders) <= will
  BY <1>3, <1>4, <1>5
<1>7. ASSUME NEW what, Takes(what)
      PROVE  \A i \in Places' : blocks'[i].what = "orders" =>
                /\ i + 1 \in Places /\ blocks[i + 1].what = "orders" /\ blocks'[i] = blocks[i + 1]
                /\ Len(blocks'[i].orders) <= will
                /\ \A j \in Places' : j > i /\ blocks'[j].what = "orders" =>
                      Len(blocks'[i].orders) <= Len(blocks'[j].orders)
  <2>1. \A i \in Places' : blocks'[i].what = "orders" =>
           i + 1 \in Places /\ blocks[i + 1].what = "orders" /\ blocks'[i] = blocks[i + 1]
    BY <1>7 DEF Takes
  <2>2. ASSUME NEW i \in Places', NEW j \in Places', j > i,
               blocks'[i].what = "orders", blocks'[j].what = "orders"
        PROVE  Len(blocks'[i].orders) <= Len(blocks'[j].orders)
    <3>1. j + 1 > i + 1
      BY <1>5, <2>2
    <3> QED
      BY <1>4, <2>1, <2>2, <3>1
  <2> QED
    BY <1>6, <2>1, <2>2
<1>8. CASE ShowOrders
  <2>1. Takes("orders") /\ orders' = blocks[1].orders
    BY <1>1, <1>8, ShowKeeps
  <2>2. 1 \in Places /\ blocks[1].what = "orders"
    BY <2>1 DEF Takes
  <2>3. Len(orders') <= will
    BY <1>6, <2>1, <2>2
  <2>4. ASSUME NEW i \in Places', blocks'[i].what = "orders" PROVE Len(orders') <= Len(blocks'[i].orders)
    <3>1. i + 1 \in Places /\ blocks[i + 1].what = "orders" /\ blocks'[i] = blocks[i + 1]
      BY <1>7, <2>1, <2>4
    <3>2. i + 1 > 1
      BY DEF Places
    <3> QED
      BY <1>4, <2>1, <2>2, <3>1, <3>2
  <2> QED
    BY <1>7, <2>1, <2>3, <2>4
<1>9. CASE \E k \in DOMAIN listeners : Listen(k)
  <2>1. PICK k \in DOMAIN listeners : Listen(k)
    BY <1>9
  <2> DEFINE b == [what |-> "orders", orders |-> Listing]
             last == Len(blocks) + 1
  <2>2. Send(b) /\ orders' = orders /\ placed' = placed
    BY <2>1 DEF Listen
  <2>3. b \in Block /\ b.what = "orders" /\ Len(b.orders) = have
    BY <1>1, ListingFacts, BlocksOfAllKinds DEF DataOK, have
  <2> HIDE DEF b
  <2>4. Puts(b)
    BY <1>1, <2>2, <2>3, SendPuts
  <2>5. /\ blocks'[last] = b /\ \A i \in Places : blocks'[i] = blocks[i]
        /\ \A i \in Places' : (i \in Places /\ i < last) \/ i = last
    BY <2>4 DEF Puts
  <2>6. have = will /\ last \in Nat
    BY <1>1, <2>2 DEF have, will, QueueOK
  <2> HIDE DEF last
  <2>7. Len(orders') <= will
    BY <1>4, <2>2, <2>6
  <2>8. ASSUME NEW i \in Places', blocks'[i].what = "orders"
        PROVE  /\ Len(orders') <= Len(blocks'[i].orders)
               /\ Len(blocks'[i].orders) <= will
               /\ \A j \in Places' : j > i /\ blocks'[j].what = "orders" =>
                     Len(blocks'[i].orders) <= Len(blocks'[j].orders)
    <3>1. CASE i = last
      <4>1. \A j \in Places' : ~(j > i)
        BY <1>5, <2>5, <2>6, <3>1
      <4>2. Len(blocks'[i].orders) = will /\ will <= will
        BY <1>3, <2>3, <2>5, <2>6, <3>1
      <4> QED
        BY <2>7, <4>1, <4>2
    <3>2. CASE i \in Places /\ i < last
      <4>1. /\ blocks'[i] = blocks[i] /\ Len(orders') <= Len(blocks'[i].orders)
            /\ Len(blocks'[i].orders) <= will
        BY <1>4, <1>6, <2>2, <2>5, <2>8, <3>2
      <4>2. ASSUME NEW j \in Places', j > i, blocks'[j].what = "orders"
            PROVE  Len(blocks'[i].orders) <= Len(blocks'[j].orders)
        <5>1. CASE j = last
          BY <2>3, <2>5, <2>6, <4>1, <5>1
        <5>2. CASE j \in Places
          BY <1>4, <2>5, <2>8, <3>2, <4>1, <4>2, <5>2
        <5> QED
          BY <2>5, <5>1, <5>2
      <4> QED
        BY <4>1, <4>2
    <3> QED
      BY <2>5, <3>1, <3>2
  <2> QED
    BY <2>7, <2>8
<1>10. CASE OtherBlock /\ Len(orders') = Len(orders)
  <2>1. Len(orders') <= will
    BY <1>3, <1>4, <1>5, <1>10
  <2>2. ASSUME NEW what, Takes(what)
        PROVE  \A i \in Places' : blocks'[i].what = "orders" =>
                  /\ Len(orders') <= Len(blocks'[i].orders)
                  /\ Len(blocks'[i].orders) <= will
                  /\ \A j \in Places' : j > i /\ blocks'[j].what = "orders" =>
                        Len(blocks'[i].orders) <= Len(blocks'[j].orders)
    BY <1>4, <1>7, <1>10, <2>2
  <2>3. ASSUME \A i \in Places' : blocks'[i].what = "orders" => i \in Places /\ blocks'[i] = blocks[i]
        PROVE  \A i \in Places' : blocks'[i].what = "orders" =>
                  /\ Len(orders') <= Len(blocks'[i].orders)
                  /\ Len(blocks'[i].orders) <= will
                  /\ \A j \in Places' : j > i /\ blocks'[j].what = "orders" =>
                        Len(blocks'[i].orders) <= Len(blocks'[j].orders)
    BY <1>4, <1>6, <1>10, <2>3
  <2>4. ASSUME NEW b, Puts(b), b.what # "orders"
        PROVE  \A i \in Places' : blocks'[i].what = "orders" => i \in Places /\ blocks'[i] = blocks[i]
    BY <2>4 DEF Puts
  <2>5. UNCHANGED blocks =>
           \A i \in Places' : blocks'[i].what = "orders" => i \in Places /\ blocks'[i] = blocks[i]
    BY DEF Places
  <2> QED
    BY <1>10, <2>1, <2>2, <2>3, <2>4, <2>5 DEF OtherBlock
<1> QED
  BY <1>8, <1>9, <1>10, OthersSend

LEMMA FitStep ==
    ASSUME RoundsInv, QueueGrows, RowsFit, [Next]_vars
    PROVE  RowsFit'
<1>1. /\ TypeOK /\ AnsweredOnce /\ PendingIsOpen /\ ListsAreWhole /\ OrdersOK /\ RowsOK
  BY TypeParts DEF RoundsInv
<1>2. SUFFICES ASSUME ~shrunk' PROVE Len(rows') <= Len(orders')
  BY DEF RowsFit
<1>3. ~shrunk
  BY <1>1, <1>2, PlacedGrows
<1>4. /\ Len(rows) <= Len(orders) /\ Len(rows) \in Nat /\ Len(orders) \in Nat
      /\ \A i \in Places : blocks[i].what = "orders" =>
            Len(orders) <= Len(blocks[i].orders) /\ Len(blocks[i].orders) \in Nat
  BY <1>1, <1>3, ListSizes DEF RowsFit, QueueGrows
<1>5. CASE ShowOrders
  <2>1. Takes("orders") /\ orders' = blocks[1].orders
    BY <1>1, <1>5, ShowKeeps
  <2>2. 1 \in Places /\ blocks[1].what = "orders"
    BY <2>1 DEF Takes
  <2>3. Len(orders) <= Len(orders') /\ Len(orders') \in Nat
    BY <1>4, <2>1, <2>2
  <2>4. rows' = rows \/ rows' = orders'
    BY <1>5 DEF ShowOrders
  <2> QED
    BY <1>4, <2>3, <2>4
<1>6. ASSUME Len(orders') = Len(orders), rows' = orders' \/ Len(rows') = Len(rows)
      PROVE  Len(rows') <= Len(orders')
  BY <1>4, <1>6
<1>7. CASE FillItem
  <2>1. rows' = rows /\ Len(orders') = Len(orders)
    BY <1>1, <1>7, FillKeeps, FillsIds
  <2> QED
    BY <1>6, <2>1
<1>8. ASSUME NEW l \in lookups, Answer(l) PROVE Len(rows') <= Len(orders')
  BY <1>6, <1>8 DEF Answer
<1>9. CASE Others
  <2>1. orders' = orders
    BY <1>1, <1>9, OthersKeep DEF Quiet
  <2>2. ASSUME NEW i \in DOMAIN rows, Scroll(i) PROVE Len(rows') = Len(rows)
    BY <1>1, <2>2 DEF Scroll, RowsOK
  <2>3. rows' = orders' \/ Len(rows') = Len(rows)
    BY <1>9, <2>2 DEF Others, Change, Listen, ListenFails, SetTable, Failure, User, PrepareData,
                      Press, vars
  <2> QED
    BY <1>6, <2>1, <2>3
<1> QED
  BY <1>5, <1>7, <1>8, <1>9, NextCases

LEMMA TrapsStep ==
    ASSUME RoundsInv, PlacesStay, RowsFit, TrapsOnlyWhenReplaced, [Next]_vars
    PROVE  TrapsOnlyWhenReplaced'
<1>1. TypeOK /\ AnsweredOnce /\ PendingIsOpen /\ ListsAreWhole /\ OrdersOK /\ RowsOK
  BY TypeParts DEF RoundsInv
<1>2. /\ alert = "lookupTrap" => replaced
      /\ alert = "headerTrap" => shrunk
  BY DEF TrapsOnlyWhenReplaced
<1>3. CASE Others
  <2>1. Quiet
    BY <1>1, <1>3, OthersKeep
  <2>2. alert' = "lookupTrap" => replaced'
    BY <1>2, <2>1 DEF Quiet
  <2>3. ASSUME NEW i \in DOMAIN rows, Scroll(i), alert' = "headerTrap" PROVE shrunk
    <3>1. i \notin DOMAIN orders
      BY <2>3 DEF Scroll
    <3>2. Len(rows) \in Nat /\ Len(orders) \in Nat /\ i \in 1 .. Len(rows) /\ i \notin 1 .. Len(orders)
      BY <1>1, <3>1 DEF RowsOK, OrdersOK
    <3> QED
      BY <3>2 DEF RowsFit
  <2>4. ASSUME alert' = "headerTrap" PROVE alert = "headerTrap" \/ shrunk
    BY <1>3, <2>3, <2>4 DEF Others, Change, Listen, ListenFails, SetTable, Failure, User,
                            PrepareData, Press, Dismissed, vars
  <2> QED
    BY <1>2, <2>1, <2>2, <2>4 DEF Quiet, TrapsOnlyWhenReplaced
<1>4. ASSUME NEW l \in lookups, Answer(l) PROVE TrapsOnlyWhenReplaced'
  BY <1>2, <1>4 DEF Answer, TrapsOnlyWhenReplaced
<1>5. CASE ShowOrders
  <2>1. alert \notin Gone /\ alert' \in {alert, "none"}
    BY <1>1, <1>5, ShowKeeps DEF ShowOrders, Dismissed
  <2> QED
    BY <2>1 DEF Gone, TrapsOnlyWhenReplaced
<1>6. CASE FillItem
  <2> DEFINE m == Head(blocks).of
  <2>1. /\ m \in Pending /\ alert \notin Gone /\ UNCHANGED history /\ (Fills(m) \/ Misses(m))
    BY <1>1, <1>6, FillKeeps
  <2> HIDE DEF m
  <2>2. CASE Fills(m)
    BY <2>1, <2>2 DEF Fills, Gone, TrapsOnlyWhenReplaced
  <2>3. CASE Misses(m)
    <3>1. ~HasPlace(m)
      BY <1>1, <2>3 DEF Misses, HasPlace, OrdersOK
    <3>2. replaced /\ alert' = "lookupTrap"
      BY <2>1, <2>3, <3>1 DEF PlacesStay, Misses
    <3> QED
      BY <2>1, <3>2 DEF TrapsOnlyWhenReplaced, history
  <2> QED
    BY <2>1, <2>2, <2>3
<1> QED
  BY <1>3, <1>4, <1>5, <1>6, NextCases

-----------------------------------------------------------------------------
(* How "Загрузка..." closes.                                               *)

(* A round that has lost no lookup will ask for the table.                 *)
WillEnd(r) == Out(r) # {} /\ left[r] = Cardinality(Out(r))
Starting   == \E k \in 1 .. Len(listeners) : listeners[k].on = "new"
ToRun      == \E i \in Places : blocks[i].what # "found"

RoundCloses ==
    alert = "loading" => Starting \/ ToRun \/ \E r \in 1 .. Len(left) : WillEnd(r)

LEMMA ToRunKept ==
    ASSUME ToRun
    PROVE  /\ Takes("found") => ToRun'
           /\ \A b : Puts(b) => ToRun'
           /\ UNCHANGED blocks => ToRun'
<1>1. PICK i \in Places : blocks[i].what # "found"
  BY DEF ToRun
<1>2. ASSUME Takes("found") PROVE ToRun'
  <2>1. i # 1
    BY <1>1, <1>2 DEF Takes
  <2>2. i - 1 \in Places' /\ blocks'[i - 1] = blocks[i]
    BY <1>2, <2>1 DEF Takes
  <2> QED
    BY <1>1, <2>2 DEF ToRun
<1>3. ASSUME NEW b, Puts(b) PROVE ToRun'
  BY <1>1, <1>3 DEF Puts, ToRun
<1>4. UNCHANGED blocks => ToRun'
  BY <1>1 DEF ToRun, Places
<1> QED
  BY <1>2, <1>3, <1>4

LEMMA CloseStep ==
    ASSUME RoundsInv, RoundCloses, [Next]_vars
    PROVE  RoundCloses'
<1>1. /\ TypeOK /\ AnsweredOnce /\ PendingIsOpen /\ ListsAreWhole /\ RoundsCount
      /\ OrdersOK /\ QueueOK /\ DataOK
      /\ left \in Seq(Nat) /\ Len(left) \in Nat /\ listeners \in Seq(Listener)
  BY TypeParts DEF RoundsInv, LeftOK, ListensOK
<1>2. SUFFICES ASSUME alert' = "loading"
               PROVE  Starting' \/ ToRun' \/ \E r \in 1 .. Len(left') : WillEnd(r)'
  BY DEF RoundCloses
<1>3. ASSUME Pending' = Pending, left' = left
      PROVE  (\E r \in 1 .. Len(left) : WillEnd(r)) => \E r \in 1 .. Len(left') : WillEnd(r)'
  BY <1>3 DEF WillEnd, Out
<1>4. ASSUME NEW b, Puts(b), b.what # "found" PROVE ToRun'
  BY <1>4 DEF Puts, ToRun
<1>5. listeners' = listeners /\ Starting => Starting'
  BY DEF Starting
<1>6. CASE Others
  <2>1. Pending' = Pending /\ left' = left
    BY <1>1, <1>6, OthersKeep DEF Quiet
  <2>2. ASSUME alert' = alert, listeners' = listeners, UNCHANGED blocks
        PROVE  Starting' \/ ToRun' \/ \E r \in 1 .. Len(left') : WillEnd(r)'
    BY <1>2, <1>3, <1>5, <2>1, <2>2, ToRunKept DEF RoundCloses
  <2>3. ASSUME NEW o \in Orders, Change(o)
        PROVE  alert' = alert /\ listeners' = listeners /\ UNCHANGED blocks
    BY <2>3 DEF Change, queue
  <2>4. ASSUME NEW k \in DOMAIN listeners, Listen(k) PROVE ToRun'
    <3> DEFINE b == [what |-> "orders", orders |-> Listing]
    <3>1. b \in Block /\ b.what # "found"
      BY <1>1, ListingFacts, BlocksOfAllKinds DEF DataOK
    <3>2. Send(b)
      BY <2>4 DEF Listen
    <3> HIDE DEF b
    <3> QED
      BY <1>1, <1>4, <3>1, <3>2, SendPuts
  <2>5. ASSUME NEW k \in DOMAIN listeners, ListenFails(k) PROVE ToRun'
    <3>1. Puts([what |-> "error"]) /\ [what |-> "error"].what # "found"
      BY <1>1, <2>5, SendPuts, BlocksOfAllKinds DEF ListenFails
    <3> QED
      BY <1>4, <3>1
  <2>6. ASSUME SetTable \/ Failure PROVE FALSE
    BY <1>2, <2>6 DEF SetTable, Failure, Dismissed
  <2>7. ASSUME PrepareData PROVE Starting'
    <3> DEFINE new == [on |-> "new", heard |-> <<>>]
    <3>1. <<>> \in Seq(Order)
      OBVIOUS
    <3>2. new \in Listener /\ new.on = "new"
      BY <3>1 DEF Listener
    <3>3. listeners' = Append(listeners, new)
      BY <1>2, <2>7 DEF PrepareData
    <3> HIDE DEF new
    <3> QED
      BY <1>1, <3>2, <3>3, AppendFacts DEF Starting
  <2>8. ASSUME Press \/ \E i \in DOMAIN rows : Scroll(i) PROVE FALSE
    BY <1>2, <2>8 DEF Press, Scroll
  <2>9. ASSUME UNCHANGED vars PROVE alert' = alert /\ listeners' = listeners /\ UNCHANGED blocks
    BY <2>9 DEF vars
  <2> QED
    BY <1>6, <2>2, <2>3, <2>4, <2>5, <2>6, <2>7, <2>8, <2>9 DEF Others, User
<1>7. ASSUME NEW l \in lookups, Answer(l)
      PROVE  Starting' \/ ToRun' \/ \E r \in 1 .. Len(left') : WillEnd(r)'
  <2>1. alert' = alert /\ listeners' = listeners /\ left' = left
    BY <1>1, <1>7, AnswerKeeps DEF outside
  <2>2. CASE Pending' = Pending /\ Puts([what |-> "found", of |-> l])
    BY <1>2, <1>3, <1>5, <2>1, <2>2, ToRunKept DEF RoundCloses
  <2>3. CASE Puts([what |-> "error"])
    <3>1. [what |-> "error"].what # "found"
      OBVIOUS
    <3> QED
      BY <1>4, <2>3, <3>1
  <2> QED
    BY <1>1, <1>7, <2>2, <2>3, AnswerKeeps
<1>8. CASE ShowOrders
  <2> DEFINE r   == Len(left) + 1
             new == Asked(orders', r)
             n   == Cardinality(PlacesOf(orders'))
  <2>1. /\ Pending' = Pending \cup new /\ left' = Append(left, n)
        /\ orders' \in Seq(Order) /\ Whole(orders')
    BY <1>1, <1>8, ShowKeeps
  <2>2. orders' # <<>>
    BY <1>2, <1>8 DEF ShowOrders, Dismissed
  <2>3. /\ Cardinality(new) = n /\ new # {} /\ n \in Nat
        /\ \A l \in new : l.round = r
    <3>1. r \in Nat
      BY <1>1
    <3> HIDE DEF r
    <3>2. n \in Nat
      BY <2>1, PlacesOfFacts
    <3> QED
      BY <2>1, <2>2, <3>1, <3>2, AskedFacts
  <2>4. \A l \in Pending : l.round # r
    BY <1>1 DEF PendingIsOpen
  <2> HIDE DEF n
  <2>5. r \in 1 .. Len(left') /\ left'[r] = n
    BY <1>1, <2>1, <2>3
  <2> HIDE DEF new
  <2>6. {l \in Pending' : l.round = r} = new
    BY <2>1, <2>3, <2>4
  <2> DEFINE Ends(s) == /\ {l \in Pending' : l.round = s} # {}
                        /\ left'[s] = Cardinality({l \in Pending' : l.round = s})
  <2>7. Ends(r)
    BY <2>3, <2>5, <2>6
  <2>8. \A s : WillEnd(s)' <=> Ends(s)
    BY DEF WillEnd, Out
  <2> HIDE DEF Ends, r
  <2>9. \E s \in 1 .. Len(left') : Ends(s)
    BY <2>5, <2>7
  <2> QED
    BY <2>8, <2>9
<1>9. CASE FillItem
  <2> DEFINE l == Head(blocks).of
  <2>1. /\ Pending' = Pending \ {l} /\ l \in Pending /\ Takes("found")
        /\ listeners' = listeners /\ (Fills(l) \/ Misses(l))
    BY <1>1, <1>9, FillKeeps DEF outside
  <2> HIDE DEF l
  <2>2. Fills(l)
    BY <1>2, <2>1 DEF Misses
  <2>3. alert = "loading" /\ left' = [left EXCEPT ![l.round] = left[l.round] - 1]
    BY <1>2, <2>2 DEF Fills
  <2>4. l.round \in 1 .. Len(left) /\ l \in Out(l.round)
    BY <1>1, <2>1 DEF PendingIsOpen, Out
  <2>5. CASE Starting \/ ToRun
    BY <1>5, <2>1, <2>5, ToRunKept
  <2>6. ASSUME NEW r \in 1 .. Len(left), WillEnd(r)
        PROVE  ToRun' \/ \E s \in 1 .. Len(left') : WillEnd(s)'
    <3>1. Out(r)' = {m \in Pending' : m.round = r} /\ r \in 1 .. Len(left')
      BY <1>1, <2>3 DEF Out
    <3>2. CASE r # l.round
      <4>1. left'[r] = left[r] /\ Out(r)' = Out(r)
        BY <1>1, <2>1, <2>3, <3>1, <3>2 DEF Out
      <4> QED
        BY <2>6, <3>1, <4>1 DEF WillEnd
    <3>3. CASE r = l.round
      <4>1. left'[r] = left[r] - 1 /\ Out(r)' = Out(r) \ {l}
        BY <1>1, <2>1, <2>3, <2>4, <3>1, <3>3 DEF Out
      <4>2. /\ left[r] \in Nat /\ left[r] >= 1 /\ left[r] = Cardinality(Out(r))
            /\ IsFiniteSet(Out(r) \ {l}) /\ Cardinality(Out(r) \ {l}) = Cardinality(Out(r)) - 1
        BY <1>1, <2>4, <2>6, <3>3, CountLess DEF WillEnd
      <4>3. CASE left[r] = 1
        <5>1. \E i \in Places' : blocks'[i].what = "table"
          BY <2>2, <3>3, <4>3 DEF Fills
        <5> QED
          BY <5>1 DEF ToRun
      <4>4. CASE left[r] # 1
        <5>1. Out(r) \ {l} # {}
          BY <4>2, <4>4, FS_EmptySet
        <5>2. left'[r] = Cardinality(Out(r)')
          BY <4>1, <4>2
        <5> QED
          BY <3>1, <4>1, <5>1, <5>2 DEF WillEnd
      <4> QED
        BY <4>3, <4>4
    <3> QED
      BY <3>2, <3>3
  <2> QED
    BY <2>3, <2>5, <2>6 DEF RoundCloses
<1> QED
  BY <1>6, <1>7, <1>8, <1>9, NextCases

-----------------------------------------------------------------------------
(* The theorems.                                                           *)

(* What holds together: rounds count what is still to come, so the table   *)
(* follows; the last list that is under way is the last that was heard;    *)
(* and lookups keep their places while no other orders come.               *)
OrdersInv ==
    /\ RoundsInv
    /\ RowsFollow /\ NamesCome /\ LastIsHeard
    /\ PlacesStay /\ NamesAreRight /\ RowsFit /\ QueueGrows /\ TrapsOnlyWhenReplaced
    /\ RoundCloses

LEMMA OrdersInit ==
    ASSUME Init
    PROVE  OrdersInv
<1>1. RoundsInv /\ TypeOK
  BY RoundsInit DEF RoundsInv
<1>2. /\ listeners = <<>> /\ lookups = {} /\ left = <<>> /\ orders = <<>> /\ rows = <<>>
      /\ alert = "none" /\ blocks = <<>> /\ Places = {}
  BY DEF Init, Places
<1>3. Pending = {}
  BY <1>2 DEF Pending, Answers, Found
<1>4. RowsFollow /\ NamesCome /\ LastIsHeard
  BY <1>2 DEF RowsFollow, NamesCome, LastIsHeard
<1>5. PlacesStay /\ NamesAreRight
  BY <1>2, <1>3 DEF PlacesStay, NamesAreRight
<1>6. RowsFit /\ QueueGrows
  <2>1. Cardinality(DOMAIN placed) \in Nat
    BY <1>1, TypeParts, ListingFacts, FS_CardinalityType DEF DataOK
  <2> QED
    BY <1>2, <2>1 DEF RowsFit, QueueGrows
<1>7. TrapsOnlyWhenReplaced /\ RoundCloses
  BY <1>2 DEF TrapsOnlyWhenReplaced, RoundCloses
<1> QED
  BY <1>1, <1>4, <1>5, <1>6, <1>7 DEF OrdersInv

LEMMA OrdersStep ==
    ASSUME OrdersInv, [Next]_vars
    PROVE  OrdersInv'
<1>1. /\ RoundsInv /\ RowsFollow /\ NamesCome /\ LastIsHeard
      /\ PlacesStay /\ NamesAreRight /\ RowsFit /\ QueueGrows /\ TrapsOnlyWhenReplaced
      /\ RoundCloses
  BY DEF OrdersInv
<1>2. RoundsInv' /\ RowsFollow' /\ NamesCome' /\ LastIsHeard'
  BY <1>1, RoundsInvStep, RowsStep, NamesComeStep, HeardStep
<1>3. PlacesStay' /\ NamesAreRight' /\ RowsFit' /\ QueueGrows' /\ TrapsOnlyWhenReplaced'
  BY <1>1, PlacesStep, NamesStep, FitStep, GrowsStep, TrapsStep
<1>4. RoundCloses'
  BY <1>1, CloseStep
<1> QED
  BY <1>2, <1>3, <1>4 DEF OrdersInv

(* Lists and answers in any order keep what follows.                       *)
THEOREM OrdersInvariant == Spec => []OrdersInv
<1>1. OrdersInv /\ [Next]_vars => OrdersInv'
  BY OrdersStep
<1> QED
  BY <1>1, OrdersInit, PTL DEF Spec

(* Every variable keeps its type; in particular no round counts below      *)
(* nothing, since it has as many lookups to come as it counts.             *)
THEOREM OrdersTypes == Spec => []TypeOK
<1>1. OrdersInv => TypeOK
  BY DEF OrdersInv, RoundsInv
<1> QED
  BY <1>1, OrdersInvariant, PTL

(* Once all lists and answers are in, the table shows the orders there     *)
(* are, and every item has a name.                                         *)
THEOREM TableTheorem == Spec => []TableIsComplete
<1>1. OrdersInv => TableIsComplete
  <2>1. SUFFICES ASSUME OrdersInv, AtRest, ~failed
                 PROVE  /\ rows = orders /\ IdsOf(rows) = IdsOf(Listing)
                        /\ \A i \in DOMAIN rows : \A j \in DOMAIN rows[i].names :
                              rows[i].names[j] # NoName
    BY DEF TableIsComplete
  <2>2. TypeOK /\ RowsFollow /\ NamesCome /\ LastIsHeard
    BY <2>1 DEF OrdersInv, RoundsInv
  <2>3. /\ ~Running /\ blocks = <<>> /\ listeners # <<>> /\ alert \notin Gone
        /\ \A k \in DOMAIN listeners : listeners[k].on = "on" /\ listeners[k].heard = Listing
    BY <2>1 DEF AtRest
  <2>4. Places = {} /\ Pending = {}
    BY <2>2, <2>3, RunningIsPending DEF Places
  <2>5. rows = orders
    BY <2>1, <2>2, <2>3, <2>4 DEF RowsFollow, TableAsked
  <2>6. DOMAIN listeners = 1 .. Len(listeners) /\ 1 \in 1 .. Len(listeners)
    BY <2>2, <2>3, TypeParts DEF ListensOK
  <2>7. IdsOf(orders) = IdsOf(Listing)
    BY <2>1, <2>2, <2>3, <2>4, <2>6 DEF LastIsHeard, Comes, IsThere
  <2>8. DOMAIN orders = 1 .. Len(orders)
    BY <2>2, TypeParts DEF OrdersOK
  <2>9. \A i \in 1 .. Len(orders) : \A j \in DOMAIN orders[i].names : orders[i].names[j] # NoName
    BY <2>1, <2>2, <2>3, <2>4 DEF NamesCome, Out
  <2> QED
    BY <2>5, <2>7, <2>8, <2>9
<1> QED
  BY <1>1, OrdersInvariant, PTL

(* Items carry their own names, and lookups by index find their places,    *)
(* unless other orders came meanwhile.                                     *)
THEOREM AnswersTheorem == Spec => []AnswersFindTheirItems
<1>1. OrdersInv => AnswersFindTheirItems
  BY DEF OrdersInv, AnswersFindTheirItems
<1> QED
  BY <1>1, OrdersInvariant, PTL

(* While "Загрузка..." is up, something that closes it is still to come.   *)
THEOREM LoadingEndsTheorem == Spec => []LoadingCloses
<1>1. OrdersInv => LoadingCloses
  <2>1. SUFFICES ASSUME OrdersInv, alert = "loading", lookups = {}, blocks = <<>>
                 PROVE  \E k \in DOMAIN listeners : listeners[k].on = "new"
    BY DEF LoadingCloses
  <2>2. TypeOK /\ RoundCloses
    BY <2>1 DEF OrdersInv, RoundsInv
  <2>3. Places = {} /\ Pending = {}
    BY <2>1 DEF Places, Pending, Answers, Found
  <2>4. Starting
    BY <2>1, <2>2, <2>3 DEF RoundCloses, ToRun, WillEnd, Out
  <2> QED
    BY <2>2, <2>4, TypeParts DEF Starting, ListensOK
<1> QED
  BY <1>1, OrdersInvariant, PTL
=============================================================================
