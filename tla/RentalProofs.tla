----------------------------- MODULE RentalProofs -----------------------------
(***************************************************************************)
(* Theorems of the cloud functions and of the composed system, for any     *)
(* number of users, items, lines, calls and orders, and any bound on the   *)
(* counts.  Those of the system rest on RInv: types, and what entries on   *)
(* screens and in orders have to do with the documents.                    *)
(***************************************************************************)
EXTENDS Rental, ListLemmas, SequenceTheorems

-----------------------------------------------------------------------------
(* The cloud functions alone.                                              *)

(* What Put returns: the domain grows by x, the range stays where it was.  *)
LEMMA PutType ==
    ASSUME NEW R, NEW f, f \in [DOMAIN f -> R], NEW x, NEW v \in R
    PROVE  /\ DOMAIN Put(f, x, v) = DOMAIN f \cup {x}
           /\ Put(f, x, v) \in [DOMAIN f \cup {x} -> R]
           /\ Put(f, x, v)[x] = v
           /\ \A y \in DOMAIN f \ {x} : Put(f, x, v)[y] = f[y]
  BY DEF Put

(* An update of one line's count changes nothing else of the basket.       *)
LEMMA UpdateLineDocs ==
    ASSUME TypeOK, NEW c \in Calls, NEW t \in todo[c], UpdateLine(c, t)
    PROVE  /\ born' = born
           /\ line' \in [born -> LineDoc]
           /\ \A l \in born : line'[l].count \in {line[l].count, t.count}
           /\ \A l \in born : /\ line'[l].owner = line[l].owner
                              /\ line'[l].item = line[l].item
<1> USE DEF TypeOK, DocumentsType, UpdateLine, born
<1>1. t.line \in born /\ t.count \in Int
  BY DEF Update
<1>2. CASE t.line \in live
  <2> DEFINE doc == [line[t.line] EXCEPT !.count = t.count]
  <2>1. /\ doc \in LineDoc /\ doc.count = t.count
        /\ doc.owner = line[t.line].owner /\ doc.item = line[t.line].item
    <3>1. line[t.line] \in LineDoc
      BY <1>1
    <3> QED
      BY <3>1, <1>1 DEF LineDoc
  <2>2. line' = [line EXCEPT ![t.line] = doc]
    BY <1>2
  <2> HIDE DEF doc
  <2> QED
    BY <1>1, <2>1, <2>2
<1>3. CASE t.line \notin live
  BY <1>3
<1> QED
  BY <1>2, <1>3

(* What queryBasket sends out are updates of lines that were created.      *)
LEMMA QueryBasketTodo ==
    ASSUME TypeOK, NEW c \in Calls, QueryBasket(c)
    PROVE  /\ todo' \in [Calls -> SUBSET Update]
           /\ \A d \in Calls \ {c} : todo'[d] = todo[d]
           /\ \A t \in todo'[c] : /\ t.line \in born
                                  /\ t.count = line[t.line].count + req[c].count
           /\ pc'[c] # "updateLines" => todo'[c] = {}
<1> USE DEF TypeOK, DocumentsType, born, QueryBasket
<1>1. Matching(c) \subseteq born
  BY DEF Matching, Basket
<1>2. req[c].count \in Int
  BY MaxCountAssumption DEF Request
<1>3. \A l \in born : line[l].count + req[c].count \in Int
  BY <1>2 DEF LineDoc
<1>4. {[line |-> l, count |-> line[l].count + req[c].count] : l \in Matching(c)}
        \subseteq Update
  BY <1>1, <1>3 DEF Update
<1>5. CASE Matching(c) = {}
  BY <1>5
<1>6. CASE Matching(c) # {}
  BY <1>1, <1>4, <1>6
<1> QED
  BY <1>5, <1>6

(* The initial documents and the initial calls are well typed.             *)
LEMMA InitType == Init => TypeOK
  BY DocumentsAssumption
  DEF Init, DocumentsInit, CallsInit, TypeOK, DocumentsType, born, PCs, DeleteSteps

(* Every step of every call keeps the types.                               *)
LEMMA NextType == TypeOK /\ [Next]_callVars => TypeOK'
<1> SUFFICES ASSUME TypeOK, [Next]_callVars PROVE TypeOK'
  OBVIOUS
<1> USE DEF TypeOK, DocumentsType, born, PCs, AddSteps, DeleteSteps, Ends
<1>1. ASSUME NEW c \in Calls, NEW u \in Users \cup {NoUser}, NEW i \in Items,
             NEW n \in 1 .. MaxCount, CallAdd(c, u, i, n)
      PROVE  TypeOK'
  BY <1>1, MaxCountAssumption DEF CallAdd, Put, Request
<1>2. ASSUME NEW c \in Calls, NEW l \in born, NEW u \in {line[l].owner, NoUser},
             CallDelete(c, u, l)
      PROVE  TypeOK'
  BY <1>2, MaxCountAssumption DEF CallDelete, Put, Request, LineDoc
<1>3. ASSUME NEW c \in Calls, GetItem(c) PROVE TypeOK'
  BY <1>3, MaxCountAssumption DEF GetItem, Request
<1>4. ASSUME NEW c \in Calls, Refuse(c) PROVE TypeOK'
  BY <1>4 DEF Refuse, End
<1>5. ASSUME NEW c \in Calls, UpdateItem(c) PROVE TypeOK'
  <2>1. DocumentsType'
    BY <1>5 DEF UpdateItem
  <2>2. CASE req[c].user = NoUser
    BY <1>5, <2>1, <2>2 DEF UpdateItem, End, Request
  <2>3. CASE req[c].user # NoUser
    BY <1>5, <2>1, <2>3 DEF UpdateItem, Request
  <2> QED
    BY <2>2, <2>3
<1>6. ASSUME NEW c \in Calls, QueryBasket(c) PROVE TypeOK'
  BY <1>6, QueryBasketTodo DEF QueryBasket
<1>7. ASSUME NEW c \in Calls, NEW l \in Lines, SetLine(c, l) PROVE TypeOK'
  BY <1>7, MaxCountAssumption DEF SetLine, End, Put, Request, LineDoc
<1>8. ASSUME NEW c \in Calls, NEW t \in todo[c], UpdateLine(c, t) PROVE TypeOK'
  <2>1. /\ born' = born
        /\ line' \in [born -> LineDoc]
    BY <1>8, UpdateLineDocs
  <2>2. UNCHANGED <<stock, live, req, reply>>
    BY <1>8 DEF UpdateLine
  <2>3. DocumentsType'
    BY <2>1, <2>2
  <2>4. CASE todo[c] = {t}
    <3>1. End(c, "done")
      BY <1>8, <2>4 DEF UpdateLine
    <3> QED
      BY <2>1, <2>2, <2>3, <3>1 DEF End
  <2>5. CASE todo[c] # {t}
    <3>1. /\ todo' = [todo EXCEPT ![c] = @ \ {t}]
          /\ pc[c] = "updateLines"
          /\ UNCHANGED <<pc, got, next>>
      BY <1>8, <2>5 DEF UpdateLine
    <3> QED
      BY <2>1, <2>2, <2>3, <3>1
  <2> QED
    BY <2>4, <2>5
<1>9. ASSUME NEW c \in Calls, GetLine(c) PROVE TypeOK'
  BY <1>9 DEF GetLine, End, LineDoc
<1>10. ASSUME NEW c \in Calls, DeleteLine(c) PROVE TypeOK'
  BY <1>10 DEF DeleteLine
<1>11. ASSUME NEW c \in Calls, RegetItem(c) PROVE TypeOK'
  BY <1>11 DEF RegetItem, Request
<1>12. ASSUME NEW c \in Calls, RestoreItem(c) PROVE TypeOK'
  BY <1>12 DEF RestoreItem, End, Request
<1>13. ASSUME NEW c \in Calls, Abandon(c) PROVE TypeOK'
  BY <1>13 DEF Abandon, InFlight, End
<1>14. CASE UNCHANGED callVars
  BY <1>14 DEF callVars
<1> HIDE DEF TypeOK, DocumentsType, born, PCs, AddSteps, DeleteSteps, Ends
<1> QED
  BY <1>1, <1>2, <1>3, <1>4, <1>5, <1>6, <1>7, <1>8, <1>9, <1>10, <1>11,
     <1>12, <1>13, <1>14
  DEF Next, Adding, Removing, Step

(* TypeOK holds in every reachable state.                                  *)
THEOREM TypeCorrect == Spec => []TypeOK
<1>1. Init => TypeOK
  BY InitType
<1>2. TypeOK /\ [Next]_callVars => TypeOK'
  BY NextType
<1> QED
  BY <1>1, <1>2, PTL DEF Spec

-----------------------------------------------------------------------------
(* StockNeverNegative is not inductive by itself: a blind write brings in  *)
(* whatever the chain's locals hold.  No local is ever negative either.    *)
LocalsNeverNegative ==
    \A c \in Calls :
        /\ next[c] >= 0
        /\ got[c] >= 0
        /\ \A t \in todo[c] : t.count >= 0

IInv == TypeOK /\ StockNeverNegative /\ LocalsNeverNegative

(* Ending a chain leaves only locals that are not negative.                *)
LEMMA EndLocals ==
    ASSUME IInv, NEW c \in Calls, NEW how, End(c, how)
    PROVE  LocalsNeverNegative'
  BY DEF IInv, TypeOK, LocalsNeverNegative, End

(* Every step of every call keeps them all from going negative.            *)
LEMMA NextNeverNegative == IInv /\ [Next]_callVars => IInv'
<1> SUFFICES ASSUME IInv, [Next]_callVars
             PROVE  StockNeverNegative' /\ LocalsNeverNegative'
  BY NextType DEF IInv
<1> USE DEF IInv, StockNeverNegative
<1>1. ASSUME NEW c \in Calls, NEW u \in Users \cup {NoUser}, NEW i \in Items,
             NEW n \in 1 .. MaxCount, CallAdd(c, u, i, n)
      PROVE  StockNeverNegative' /\ LocalsNeverNegative'
  BY <1>1 DEF CallAdd, LocalsNeverNegative, born
<1>2. ASSUME NEW c \in Calls, NEW l \in born, NEW u \in {line[l].owner, NoUser},
             CallDelete(c, u, l)
      PROVE  StockNeverNegative' /\ LocalsNeverNegative'
  BY <1>2 DEF CallDelete, LocalsNeverNegative, born
<1>3. ASSUME NEW c \in Calls, GetItem(c)
      PROVE  StockNeverNegative' /\ LocalsNeverNegative'
  <2>1. c \in DOMAIN req /\ req[c] \in Request
    BY <1>3 DEF TypeOK, GetItem
  <2>2. /\ stock[req[c].item] \in Int
        /\ req[c].count \in Int
        /\ stock[req[c].item] - req[c].count >= 0
    BY <1>3, <2>1, MaxCountAssumption DEF TypeOK, DocumentsType, GetItem, Request
  <2> QED
    BY <1>3, <2>2 DEF GetItem, LocalsNeverNegative, TypeOK, born
<1>4. ASSUME NEW c \in Calls, Refuse(c)
      PROVE  StockNeverNegative' /\ LocalsNeverNegative'
  BY <1>4, EndLocals DEF Refuse, born
<1>5. ASSUME NEW c \in Calls, UpdateItem(c)
      PROVE  StockNeverNegative' /\ LocalsNeverNegative'
  <2>1. StockNeverNegative'
    BY <1>5 DEF UpdateItem, TypeOK, DocumentsType, LocalsNeverNegative, born
  <2>2. CASE req[c].user = NoUser
    BY <1>5, <2>1, <2>2, EndLocals DEF UpdateItem
  <2>3. CASE req[c].user # NoUser
    BY <1>5, <2>1, <2>3 DEF UpdateItem, TypeOK, LocalsNeverNegative
  <2> QED
    BY <2>2, <2>3
<1>6. ASSUME NEW c \in Calls, QueryBasket(c)
      PROVE  StockNeverNegative' /\ LocalsNeverNegative'
  <2>1. c \in DOMAIN req /\ req[c] \in Request
    BY <1>6 DEF TypeOK, QueryBasket
  <2>2. req[c].count \in Nat
    BY <2>1, MaxCountAssumption DEF Request
  <2>3. \A t \in todo'[c] : t.count >= 0
    BY <1>6, <2>2, QueryBasketTodo DEF TypeOK, DocumentsType, LineDoc, born
  <2> QED
    BY <1>6, <2>3, QueryBasketTodo DEF QueryBasket, LocalsNeverNegative, born
<1>7. ASSUME NEW c \in Calls, NEW l \in Lines, SetLine(c, l)
      PROVE  StockNeverNegative' /\ LocalsNeverNegative'
  <2>1. c \in DOMAIN req /\ req[c] \in Request
    BY <1>7 DEF TypeOK, SetLine
  <2>2. req[c].count >= 0
    BY <2>1, MaxCountAssumption DEF Request
  <2> QED
    BY <1>7, <2>2, EndLocals DEF SetLine, Put, born
<1>8. ASSUME NEW c \in Calls, NEW t \in todo[c], UpdateLine(c, t)
      PROVE  StockNeverNegative' /\ LocalsNeverNegative'
  <2>1. t.count >= 0
    BY DEF LocalsNeverNegative
  <2>2. StockNeverNegative'
    BY <1>8, <2>1, UpdateLineDocs DEF UpdateLine
  <2>3. CASE todo[c] = {t}
    BY <1>8, <2>2, <2>3, EndLocals DEF UpdateLine
  <2>4. CASE todo[c] # {t}
    <3>1. /\ todo' = [todo EXCEPT ![c] = @ \ {t}]
          /\ UNCHANGED <<got, next>>
      BY <1>8, <2>4 DEF UpdateLine
    <3> QED
      BY <2>2, <3>1 DEF TypeOK, LocalsNeverNegative
  <2> QED
    BY <2>3, <2>4
<1>9. ASSUME NEW c \in Calls, GetLine(c)
      PROVE  StockNeverNegative' /\ LocalsNeverNegative'
  <2>1. CASE req[c].line \in live
    <3>1. line[req[c].line].count >= 0
      BY <2>1 DEF TypeOK, DocumentsType
    <3> QED
      BY <1>9, <2>1, <3>1 DEF GetLine, TypeOK, LocalsNeverNegative, born
  <2>2. CASE req[c].line \notin live
    BY <1>9, <2>2, EndLocals DEF GetLine, born
  <2> QED
    BY <2>1, <2>2
<1>10. ASSUME NEW c \in Calls, DeleteLine(c)
       PROVE  StockNeverNegative' /\ LocalsNeverNegative'
  BY <1>10 DEF DeleteLine, LocalsNeverNegative, born
<1>11. ASSUME NEW c \in Calls, RegetItem(c)
       PROVE  StockNeverNegative' /\ LocalsNeverNegative'
  <2>1. c \in DOMAIN req /\ req[c] \in Request
    BY <1>11 DEF TypeOK, RegetItem
  <2>2. /\ stock[req[c].item] \in Int /\ got[c] \in Int
        /\ stock[req[c].item] + got[c] >= 0
    BY <2>1 DEF TypeOK, DocumentsType, Request, LocalsNeverNegative
  <2> QED
    BY <1>11, <2>2 DEF RegetItem, LocalsNeverNegative, TypeOK, born
<1>12. ASSUME NEW c \in Calls, RestoreItem(c)
       PROVE  StockNeverNegative' /\ LocalsNeverNegative'
  <2>1. StockNeverNegative'
    BY <1>12 DEF RestoreItem, TypeOK, DocumentsType, LocalsNeverNegative, born
  <2> QED
    BY <1>12, <2>1, EndLocals DEF RestoreItem
<1>13. ASSUME NEW c \in Calls, Abandon(c)
       PROVE  StockNeverNegative' /\ LocalsNeverNegative'
  BY <1>13, EndLocals DEF Abandon, born
<1>14. CASE UNCHANGED callVars
  BY <1>14 DEF callVars, LocalsNeverNegative, born
<1> HIDE DEF IInv, StockNeverNegative
<1> QED
  BY <1>1, <1>2, <1>3, <1>4, <1>5, <1>6, <1>7, <1>8, <1>9, <1>10, <1>11,
     <1>12, <1>13, <1>14
  DEF Next, Adding, Removing, Step

(* No count in the database ever goes negative, although every count is    *)
(* written blindly from an earlier read.                                   *)
THEOREM NeverNegative == Spec => []StockNeverNegative
<1>1. Init => IInv
  BY InitType, DocumentsAssumption
  DEF Init, DocumentsInit, CallsInit, IInv, StockNeverNegative,
      LocalsNeverNegative, born
<1>2. IInv /\ [Next]_callVars => IInv'
  BY NextNeverNegative
<1>3. IInv => StockNeverNegative
  BY DEF IInv
<1> QED
  BY <1>1, <1>2, <1>3, PTL DEF Spec

-----------------------------------------------------------------------------
(* One step does not bring a deleted basket document back.                 *)
LEMMA StepNoResurrection ==
    TypeOK /\ [Next]_callVars => born \ live \subseteq born' \ live'
<1> SUFFICES ASSUME TypeOK, [Next]_callVars
             PROVE  born \ live \subseteq born' \ live'
  OBVIOUS
<1>1. ASSUME NEW c \in Calls, NEW l \in Lines, SetLine(c, l)
      PROVE  born \ live \subseteq born' \ live'
  BY <1>1 DEF SetLine, Put, born
<1>2. ASSUME NEW c \in Calls, NEW t \in todo[c], UpdateLine(c, t)
      PROVE  born \ live \subseteq born' \ live'
  BY <1>2, UpdateLineDocs DEF UpdateLine
<1>3. ASSUME NEW c \in Calls, DeleteLine(c)
      PROVE  born \ live \subseteq born' \ live'
  BY <1>3 DEF DeleteLine, born
<1>4. ASSUME UNCHANGED <<line, live>>
      PROVE  born \ live \subseteq born' \ live'
  BY <1>4 DEF born
<1>5. ASSUME NEW c \in Calls,
             \/ Adding(c) \/ Removing(c) \/ GetItem(c) \/ Refuse(c)
             \/ UpdateItem(c) \/ QueryBasket(c) \/ GetLine(c) \/ RegetItem(c)
             \/ RestoreItem(c) \/ Abandon(c)
      PROVE  UNCHANGED <<line, live>>
  BY <1>5 DEF Adding, Removing, CallAdd, CallDelete, GetItem, Refuse, UpdateItem,
     QueryBasket, GetLine, RegetItem, RestoreItem, Abandon
<1>6. CASE UNCHANGED callVars
  BY <1>4, <1>6 DEF callVars
<1> QED
  BY <1>1, <1>2, <1>3, <1>4, <1>5, <1>6 DEF Next, Step

(* A deleted basket document never comes back.                             *)
THEOREM DeletedStaysDeleted == Spec => NoResurrection
<1>1. TypeOK /\ [Next]_callVars => [born \ live \subseteq born' \ live']_callVars
  BY StepNoResurrection
<1> QED
  BY <1>1, TypeCorrect, PTL DEF Spec, NoResurrection

-----------------------------------------------------------------------------
(* How far a chain has come: how many kinds of operation are left to it.   *)
StepsLeft == [getItem |-> 5, updateItem |-> 4, queryBasket |-> 3, setLine |-> 2,
              updateLines |-> 2, getLine |-> 4, deleteLine |-> 3, regetItem |-> 2,
              restoreItem |-> 1]

(* There are finitely many documents, whatever ids Firestore can generate; *)
(* a chain that sends updates has some left, and finitely many.            *)
UpdatesWait ==
    /\ IsFiniteSet(live)
    /\ \A c \in Calls : /\ IsFiniteSet(todo[c])
                        /\ pc[c] = "updateLines" => todo[c] # {}

(* A step ends the chain, takes it to a later operation, or takes one of   *)
(* its updates away.                                                       *)
NearerTheEnd(c) ==
    \/ pc'[c] \in Ends
    \/ /\ pc'[c] \in AddSteps \cup DeleteSteps
       /\ StepsLeft[pc'[c]] < StepsLeft[pc[c]]
    \/ pc'[c] = pc[c] /\ todo'[c] \subseteq todo[c] /\ todo'[c] # todo[c]

OthersWait(c) ==
    \A d \in Calls \ {c} : pc'[d] = pc[d] /\ todo'[d] = todo[d]

(* A step takes up a new call, or brings one chain that runs nearer its    *)
(* end; it leaves the others alone.                                        *)
Nearer ==
    \E c \in Calls : /\ pc[c] = "idle" \/ (InFlight(c) /\ NearerTheEnd(c))
                     /\ pc'[c] # "idle"
                     /\ OthersWait(c)

LEMMA EndFacts ==
    ASSUME TypeOK, NEW c \in Calls, NEW how \in Ends, End(c, how)
    PROVE  /\ pc'[c] = how /\ todo'[c] = {}
           /\ OthersWait(c)
  BY DEF End, TypeOK, OthersWait

(* What a step of call c has to show.                                      *)
Comes(c) ==
    /\ InFlight(c) /\ NearerTheEnd(c) /\ pc'[c] # "idle" /\ OthersWait(c)
    /\ IsFiniteSet(todo'[c]) /\ (pc'[c] = "updateLines" => todo'[c] # {})

LEMMA StepNearer ==
    ASSUME TypeOK, UpdatesWait, NEW c \in Calls, Step(c) \/ Abandon(c)
    PROVE  Comes(c)
<1> USE DEF TypeOK, InFlight, AddSteps, DeleteSteps, NearerTheEnd, Comes
<1>1. ASSUME NEW how \in Ends, End(c, how), InFlight(c)
      PROVE  Comes(c)
  <2>1. pc'[c] = how /\ todo'[c] = {} /\ how # "updateLines" /\ how # "idle" /\ OthersWait(c)
    BY <1>1, EndFacts DEF Ends
  <2> QED
    BY <1>1, <2>1, FS_EmptySet
<1>2. ASSUME NEW p \in AddSteps \cup DeleteSteps, pc' = [pc EXCEPT ![c] = p], todo' = todo,
             p # "updateLines", InFlight(c), StepsLeft[p] < StepsLeft[pc[c]]
      PROVE  Comes(c)
  BY <1>2 DEF UpdatesWait, OthersWait
<1>3. CASE GetItem(c)
  <2>1. pc' = [pc EXCEPT ![c] = "updateItem"] /\ todo' = todo /\ pc[c] = "getItem"
    BY <1>3 DEF GetItem
  <2> QED
    BY <1>2, <2>1 DEF StepsLeft
<1>4. CASE Refuse(c)
  BY <1>1, <1>4 DEF Refuse, Ends
<1>5. CASE UpdateItem(c)
  <2>1. CASE req[c].user = NoUser
    BY <1>1, <1>5, <2>1 DEF UpdateItem, Ends
  <2>2. CASE req[c].user # NoUser
    <3>1. pc' = [pc EXCEPT ![c] = "queryBasket"] /\ todo' = todo /\ pc[c] = "updateItem"
      BY <1>5, <2>2 DEF UpdateItem
    <3> QED
      BY <1>2, <3>1 DEF StepsLeft
  <2> QED
    BY <2>1, <2>2
<1>6. CASE QueryBasket(c)
  <2>1. CASE Matching(c) = {}
    <3>1. pc' = [pc EXCEPT ![c] = "setLine"] /\ todo' = todo /\ pc[c] = "queryBasket"
      BY <1>6, <2>1 DEF QueryBasket
    <3> QED
      BY <1>2, <3>1 DEF StepsLeft
  <2>2. CASE Matching(c) # {}
    <3> DEFINE update == [l \in Matching(c) |-> [line |-> l, count |-> line[l].count + req[c].count]]
               new    == {update[l] : l \in Matching(c)}
    <3>1. /\ pc[c] = "queryBasket" /\ pc' = [pc EXCEPT ![c] = "updateLines"]
          /\ todo' = [todo EXCEPT ![c] = new]
      <4>1. new = {[line |-> l, count |-> line[l].count + req[c].count] : l \in Matching(c)}
        OBVIOUS
      <4> HIDE DEF new
      <4> QED
        BY <1>6, <2>2, <4>1 DEF QueryBasket
    <3>2. Matching(c) \subseteq live
      BY DEF Matching, Basket
    <3>3. IsFiniteSet(new)
      <4>1. IsFiniteSet(Matching(c))
        BY <3>2, FS_Subset DEF UpdatesWait
      <4>2. update \in Surjection(Matching(c), new)
        BY DEF Surjection
      <4> QED
        BY <4>1, <4>2, FS_Surjection
    <3>4. new # {}
      <4> PICK l \in Matching(c) : TRUE
        BY <2>2
      <4>1. update[l] \in new
        OBVIOUS
      <4> QED
        BY <4>1
    <3> HIDE DEF new
    <3> QED
      BY <3>1, <3>3, <3>4 DEF StepsLeft, OthersWait
  <2> QED
    BY <2>1, <2>2
<1>7. ASSUME NEW l \in Lines, SetLine(c, l)
      PROVE  Comes(c)
  BY <1>1, <1>7 DEF SetLine, Ends
<1>8. ASSUME NEW t \in todo[c], UpdateLine(c, t)
      PROVE  Comes(c)
  <2>1. pc[c] = "updateLines"
    BY <1>8 DEF UpdateLine
  <2>2. CASE todo[c] = {t}
    BY <1>1, <1>8, <2>1, <2>2 DEF UpdateLine, Ends
  <2>3. CASE todo[c] # {t}
    <3>1. todo' = [todo EXCEPT ![c] = @ \ {t}] /\ pc' = pc
      BY <1>8, <2>3 DEF UpdateLine
    <3>2. todo'[c] = todo[c] \ {t} /\ OthersWait(c)
      BY <3>1 DEF OthersWait
    <3>3. todo'[c] # {} /\ todo'[c] # todo[c] /\ todo'[c] \subseteq todo[c]
      BY <1>8, <2>3, <3>2
    <3>4. IsFiniteSet(todo'[c])
      BY <3>3, FS_Subset DEF UpdatesWait
    <3> QED
      BY <2>1, <3>1, <3>2, <3>3, <3>4
  <2> QED
    BY <2>2, <2>3
<1>9. CASE GetLine(c)
  <2>1. CASE req[c].line \in live
    <3>1. pc' = [pc EXCEPT ![c] = "deleteLine"] /\ todo' = todo /\ pc[c] = "getLine"
      BY <1>9, <2>1 DEF GetLine
    <3> QED
      BY <1>2, <3>1 DEF StepsLeft
  <2>2. CASE req[c].line \notin live
    BY <1>1, <1>9, <2>2 DEF GetLine, Ends
  <2> QED
    BY <2>1, <2>2
<1>10. CASE DeleteLine(c)
  <2>1. pc' = [pc EXCEPT ![c] = "regetItem"] /\ todo' = todo /\ pc[c] = "deleteLine"
    BY <1>10 DEF DeleteLine
  <2> QED
    BY <1>2, <2>1 DEF StepsLeft
<1>11. CASE RegetItem(c)
  <2>1. pc' = [pc EXCEPT ![c] = "restoreItem"] /\ todo' = todo /\ pc[c] = "regetItem"
    BY <1>11 DEF RegetItem
  <2> QED
    BY <1>2, <2>1 DEF StepsLeft
<1>12. CASE RestoreItem(c)
  BY <1>1, <1>12 DEF RestoreItem, Ends
<1>13. CASE Abandon(c)
  BY <1>1, <1>13 DEF Abandon, Ends
<1> QED
  BY <1>3, <1>4, <1>5, <1>6, <1>7, <1>8, <1>9, <1>10, <1>11, <1>12, <1>13 DEF Step

LEMMA LiveStaysFinite ==
    ASSUME IsFiniteSet(live), NEW c \in Calls, Step(c) \/ Abandon(c)
    PROVE  IsFiniteSet(live')
<1>1. (\E l : live' = live \cup {l}) \/ (\E l : live' = live \ {l}) \/ live' = live
  BY DEF Step, Abandon, GetItem, Refuse, UpdateItem, QueryBasket, SetLine, UpdateLine,
         GetLine, DeleteLine, RegetItem, RestoreItem
<1> QED
  BY <1>1, FS_AddElement, FS_RemoveElement

LEMMA NextNearer ==
    ASSUME TypeOK, UpdatesWait, Next
    PROVE  Nearer /\ UpdatesWait'
<1>1. ASSUME NEW c \in Calls, Step(c) \/ Abandon(c)
      PROVE  Nearer /\ UpdatesWait'
  <2>1. Comes(c)
    BY <1>1, StepNearer
  <2>2. IsFiniteSet(live')
    BY <1>1, LiveStaysFinite DEF UpdatesWait
  <2>3. UpdatesWait'
    BY <2>1, <2>2 DEF UpdatesWait, Comes, OthersWait
  <2> QED
    BY <2>1, <2>3 DEF Nearer, Comes
<1>2. ASSUME NEW c \in Calls, Adding(c) \/ Removing(c)
      PROVE  Nearer /\ UpdatesWait'
  <2>1. /\ pc[c] = "idle" /\ todo' = todo /\ live' = live
        /\ \E p \in {"getItem", "getLine", "failed"} : pc' = [pc EXCEPT ![c] = p]
    BY <1>2 DEF Adding, Removing, CallAdd, CallDelete
  <2>2. /\ pc'[c] \notin {"updateLines", "idle"}
        /\ \A d \in Calls \ {c} : pc'[d] = pc[d]
    BY <2>1 DEF TypeOK
  <2>3. UpdatesWait'
    BY <2>1, <2>2 DEF UpdatesWait
  <2>4. pc[c] = "idle" /\ pc'[c] # "idle" /\ OthersWait(c)
    BY <2>1, <2>2 DEF OthersWait
  <2> QED
    BY <1>2, <2>3, <2>4 DEF Nearer
<1> QED
  BY <1>1, <1>2 DEF Next

(* What does not depend on fairness in EveryCallSettles.  Every step of    *)
(* the functions either takes up a call never made before or brings one    *)
(* chain, and that one alone, nearer its end, whatever the others did to   *)
(* the documents in between: no chain is set back, none comes back to life *)
(* after its end, and none waits for updates of which none is left.        *)
THEOREM ChainsEnd == Spec => []UpdatesWait /\ [][Nearer]_callVars
<1>1. Init => UpdatesWait
  BY FS_EmptySet DEF Init, CallsInit, DocumentsInit, UpdatesWait
<1>2. TypeOK /\ UpdatesWait /\ [Next]_callVars => UpdatesWait' /\ [Nearer]_callVars
  <2>1. ASSUME UpdatesWait, UNCHANGED callVars
        PROVE  UpdatesWait'
    BY <2>1 DEF UpdatesWait, callVars
  <2> QED
    BY <2>1, NextNearer
<1> QED
  BY <1>1, <1>2, TypeCorrect, PTL DEF Spec

-----------------------------------------------------------------------------
(* Entries of screens and orders.                                          *)

(* An entry that user u may see: a document once created in u's basket,    *)
(* for the item the entry names.  Its count may be out of date.            *)
OwnEntry(u, e) ==
    e.line \in born /\ line[e.line].owner = u /\ line[e.line].item = e.item

ScreenInv ==
    \A u \in Users :
        /\ view[u] \subseteq delivered[u]
        /\ \A e \in delivered[u] : OwnEntry(u, e)

OrdersInv ==
    \A o \in DOMAIN orders :
        /\ orders[o].deletes \subseteq LinesOf(orders[o].entries)
        /\ \A e \in orders[o].entries : OwnEntry(orders[o].user, e)

RInv == RentalTypeOK /\ ScreenInv /\ OrdersInv

-----------------------------------------------------------------------------
(* No call ever changes the owner or the item of a basket document.        *)
LEMMA DocsGrow ==
    ASSUME TypeOK, [Next]_callVars
    PROVE  \A l \in born : /\ l \in born'
                           /\ line'[l].owner = line[l].owner
                           /\ line'[l].item = line[l].item
<1>1. ASSUME NEW c \in Calls, NEW k \in Lines, SetLine(c, k)
      PROVE  \A l \in born : l \in born' /\ line'[l] = line[l]
  BY <1>1 DEF SetLine, Put, born
<1>2. ASSUME NEW c \in Calls, NEW t \in todo[c], UpdateLine(c, t)
      PROVE  \A l \in born : /\ l \in born'
                             /\ line'[l].owner = line[l].owner
                             /\ line'[l].item = line[l].item
  BY <1>2, UpdateLineDocs
<1>3. ASSUME NEW c \in Calls,
             \/ Adding(c) \/ Removing(c) \/ GetItem(c) \/ Refuse(c)
             \/ UpdateItem(c) \/ QueryBasket(c) \/ GetLine(c) \/ DeleteLine(c)
             \/ RegetItem(c) \/ RestoreItem(c) \/ Abandon(c)
      PROVE  line' = line
  BY <1>3 DEF Adding, Removing, CallAdd, CallDelete, GetItem, Refuse, UpdateItem,
     QueryBasket, GetLine, DeleteLine, RegetItem, RestoreItem, Abandon
<1>4. CASE UNCHANGED callVars
  BY <1>4 DEF callVars, born
<1> QED
  BY <1>1, <1>2, <1>3, <1>4 DEF Next, Step, born

(* Every step of a running call is a step of BasketFunctions.              *)
LEMMA CallStepNext ==
    ASSUME NEW c \in Calls, CallStep(c) \/ RentalAbandon(c)
    PROVE  /\ Next
           /\ UNCHANGED deviceVars
  BY DEF CallStep, RentalAbandon, PlainStep, RentalUpdateItem, RentalQueryBasket,
     RentalUpdateLine, RentalDeleteLine, RentalRestoreItem, Next, Step, deviceVars

(* So are the calls that users make.                                       *)
LEMMA AddItemNext ==
    ASSUME NEW c \in Calls, NEW u \in Users, NEW a \in {u, NoUser},
           NEW i \in Items, NEW n \in 1 .. MaxCount, AddItem(c, u, a, i, n)
    PROVE  Next
  BY DEF AddItem, Next, Adding

(* A removal names a line of the caller's own basket.                      *)
LEMMA RemoveItemNext ==
    ASSUME RInv, NEW c \in Calls, NEW u \in Users, NEW a \in {u, NoUser},
           NEW e \in view[u], RemoveItem(c, u, a, e)
    PROVE  Next
<1>1. e.line \in born /\ line[e.line].owner = u
  BY DEF RInv, ScreenInv, OwnEntry
<1> QED
  BY <1>1 DEF RemoveItem, Next, Removing

(* A call's step, whatever it does to the documents, leaves all entries    *)
(* meaning what they meant.                                                *)
LEMMA FunctionStepInv ==
    ASSUME RInv, [Next]_callVars, UNCHANGED <<orders, delivered, alert, inbox, start>>,
           view' \in [Users -> SUBSET Entry],
           \A u \in Users : view'[u] \subseteq view[u],
           spoiled' \subseteq Items, UNCHANGED <<sold, torn>>, careless' \in BOOLEAN
    PROVE  RInv'
<1>1. TypeOK'
  BY NextType DEF RInv, RentalTypeOK
<1>2. \A l \in born : /\ l \in born'
                      /\ line'[l].owner = line[l].owner
                      /\ line'[l].item = line[l].item
  BY DocsGrow DEF RInv, RentalTypeOK
<1>3. DeviceType'
  BY DEF RInv, RentalTypeOK, DeviceType
<1>4. HistoryType'
  <2>1. born \subseteq born'
    BY <1>2
  <2> QED
    BY <2>1 DEF RInv, RentalTypeOK, HistoryType
<1>5. \A u, e : OwnEntry(u, e) => OwnEntry(u, e)'
  BY <1>2 DEF OwnEntry
<1>6. ScreenInv'
  BY <1>5 DEF RInv, ScreenInv
<1>7. OrdersInv'
  BY <1>5 DEF RInv, OrdersInv
<1> QED
  BY <1>1, <1>3, <1>4, <1>6, <1>7 DEF RInv, RentalTypeOK

-----------------------------------------------------------------------------
(* What the device's basket shows are entries of its user's lines, none of *)
(* which has its delete queued.                                            *)
LEMMA LocalBasketEntries ==
    ASSUME RInv, NEW u \in Users
    PROVE  /\ LocalBasket(u) \subseteq Entry
           /\ \A e \in LocalBasket(u) :
                 OwnEntry(u, e) /\ e.line \in live /\ e.line \notin Hidden(u)
<1>1. \A l \in live : /\ l \in Lines /\ l \in born
                      /\ line[l].item \in Items /\ line[l].count \in Int
  BY DEF RInv, RentalTypeOK, TypeOK, DocumentsType, LineDoc
<1> QED
  BY <1>1 DEF LocalBasket, Basket, Entry, OwnEntry

(* Answering one write changes one order document.                         *)
LEMMA AnswerDoc ==
    ASSUME RInv, NEW o \in DOMAIN orders
    PROVE  /\ \A answer \in {"placed", "refused"} :
                AnswerOrder(o, answer) =>
                  /\ orders' \in Seq(OrderDoc)
                  /\ Len(orders') = Len(orders) /\ DOMAIN orders' = DOMAIN orders
                  /\ \A p \in DOMAIN orders :
                        /\ orders'[p].user = orders[p].user
                        /\ orders'[p].entries = orders[p].entries
                        /\ orders'[p].deletes = orders[p].deletes
                        /\ p # o => orders'[p].stage = orders[p].stage
                  /\ orders'[o].stage = answer
           /\ \A l \in orders[o].deletes :
                AnswerDelete(o, l) =>
                  /\ orders' \in Seq(OrderDoc)
                  /\ Len(orders') = Len(orders) /\ DOMAIN orders' = DOMAIN orders
                  /\ \A p \in DOMAIN orders :
                        /\ orders'[p].user = orders[p].user
                        /\ orders'[p].entries = orders[p].entries
                        /\ orders'[p].stage = orders[p].stage
                        /\ p # o => orders'[p].deletes = orders[p].deletes
                  /\ orders'[o].deletes = orders[o].deletes \ {l}
<1>1. /\ orders \in Seq(OrderDoc) /\ o \in 1 .. Len(orders)
      /\ orders[o] \in OrderDoc
      /\ \A p \in DOMAIN orders : orders[p] \in OrderDoc
  BY DEF RInv, RentalTypeOK, DeviceType
<1>2. ASSUME NEW answer \in {"placed", "refused"}, AnswerOrder(o, answer)
      PROVE  /\ orders' \in Seq(OrderDoc)
             /\ Len(orders') = Len(orders) /\ DOMAIN orders' = DOMAIN orders
             /\ \A p \in DOMAIN orders :
                   /\ orders'[p].user = orders[p].user
                   /\ orders'[p].entries = orders[p].entries
                   /\ orders'[p].deletes = orders[p].deletes
                   /\ p # o => orders'[p].stage = orders[p].stage
             /\ orders'[o].stage = answer
  <2> DEFINE d == [orders[o] EXCEPT !.stage = answer]
  <2>1. /\ d \in OrderDoc /\ d.stage = answer /\ d.user = orders[o].user
        /\ d.entries = orders[o].entries /\ d.deletes = orders[o].deletes
    BY <1>1 DEF OrderDoc
  <2>2. orders' = [orders EXCEPT ![o] = d]
    BY <1>2 DEF AnswerOrder
  <2> HIDE DEF d
  <2> QED
    BY <1>1, <2>1, <2>2
<1>3. ASSUME NEW l \in orders[o].deletes, AnswerDelete(o, l)
      PROVE  /\ orders' \in Seq(OrderDoc)
             /\ Len(orders') = Len(orders) /\ DOMAIN orders' = DOMAIN orders
             /\ \A p \in DOMAIN orders :
                   /\ orders'[p].user = orders[p].user
                   /\ orders'[p].entries = orders[p].entries
                   /\ orders'[p].stage = orders[p].stage
                   /\ p # o => orders'[p].deletes = orders[p].deletes
             /\ orders'[o].deletes = orders[o].deletes \ {l}
  <2> DEFINE d == [orders[o] EXCEPT !.deletes = @ \ {l}]
  <2>1. /\ d \in OrderDoc /\ d.stage = orders[o].stage /\ d.user = orders[o].user
        /\ d.entries = orders[o].entries /\ d.deletes = orders[o].deletes \ {l}
    BY <1>1 DEF OrderDoc
  <2>2. orders' = [orders EXCEPT ![o] = d]
    BY <1>3 DEF AnswerDelete
  <2> HIDE DEF d
  <2> QED
    BY <1>1, <2>1, <2>2
<1> QED
  BY <1>2, <1>3

(* Putting an order appends its document and leaves the others alone.      *)
LEMMA NewOrderDoc ==
    ASSUME RInv, NEW u \in Users, NEW S, S \subseteq LinesOf(view[u]),
           orders' = Append(orders, NewOrder(u, S))
    PROVE  LET m == Len(orders) + 1
           IN  /\ orders' \in Seq(OrderDoc)
               /\ Len(orders') = m
               /\ DOMAIN orders' = DOMAIN orders \cup {m}
               /\ m \notin DOMAIN orders
               /\ \A p \in DOMAIN orders : orders'[p] = orders[p]
               /\ orders'[m] = NewOrder(u, S)
<1>1. orders \in Seq(OrderDoc)
  BY DEF RInv, RentalTypeOK, DeviceType
<1>2. LinesOf(view[u]) \subseteq Lines /\ view[u] \subseteq Entry
  BY DEF RInv, RentalTypeOK, DeviceType, LinesOf, Entry
<1>3. NewOrder(u, S) \in OrderDoc
  BY <1>2 DEF NewOrder, OrderDoc
<1> HIDE DEF NewOrder
<1> QED
  BY <1>1, <1>3

(* While no document is created or changed, entries mean what they meant.  *)
LEMMA SameLinesSameEntries ==
    ASSUME UNCHANGED line, NEW u, NEW e
    PROVE  OwnEntry(u, e)' <=> OwnEntry(u, e)
  BY DEF OwnEntry, born

(* Queueing a call of the completion keeps every inbox a sequence of calls. *)
LEMMA TellInbox ==
    ASSUME RInv, NEW o \in DOMAIN orders, NEW answer \in {"placed", "refused"},
           Tell(o, answer)
    PROVE  inbox' \in [Users -> Seq({"placed", "refused"})]
<1>1. /\ orders \in Seq(OrderDoc) /\ o \in 1 .. Len(orders)
      /\ inbox \in [Users -> Seq({"placed", "refused"})]
  BY DEF RInv, RentalTypeOK, DeviceType
<1>2. orders[o] \in OrderDoc
  BY <1>1
<1>3. PICK u \in Users : u = orders[o].user
  BY <1>2 DEF OrderDoc
<1>4. Append(inbox[u], answer) \in Seq({"placed", "refused"})
  BY <1>1
<1>5. inbox' \in {inbox, [inbox EXCEPT ![u] = Append(inbox[u], answer)]}
  BY <1>3 DEF Tell
<1> QED
  BY <1>1, <1>4, <1>5

(* The steps of one device preserve the invariant.                         *)
LEMMA DeviceStepInv ==
    ASSUME RInv, NEW u \in Users,
           \/ Refresh(u) \/ Callback(u) \/ LateError(u) \/ AppKilled(u)
           \/ UserPutsOrder(u)
           \/ \E S \in SUBSET LinesOf(view[u]) : UserKilledInPutOrder(u, S)
    PROVE  RInv'
<1> USE DEF RInv, RentalTypeOK, DeviceType, HistoryType, ScreenInv, OrdersInv
<1>1. UNCHANGED <<stock, line, live, pc, req, got, next, todo, reply>>
  BY DEF Refresh, Callback, LateError, AppKilled, UserPutsOrder,
     UserKilledInPutOrder, Snapshot, PutOrderDone, PutOrderFailed, RemovalFailed, Kill,
     PutOrder, PutOrderKilled, locals
<1>2. TypeOK' /\ born' = born
  BY <1>1, NextType DEF callVars, born
<1>3. \A v, e : OwnEntry(v, e)' <=> OwnEntry(v, e)
  BY <1>1, SameLinesSameEntries
<1>4. CASE Refresh(u)
  <2>1. /\ delivered' = [delivered EXCEPT ![u] = LocalBasket(u)]
        /\ view' = [view EXCEPT ![u] = LocalBasket(u)]
        /\ UNCHANGED <<orders, alert, inbox, start, history>>
    BY <1>4 DEF Refresh, Snapshot
  <2>2. DeviceType' /\ HistoryType'
    BY <2>1, <1>2, LocalBasketEntries DEF history
  <2>3. ScreenInv'
    BY <2>1, <1>3, LocalBasketEntries
  <2>4. OrdersInv'
    BY <2>1, <1>3
  <2> QED
    BY <1>2, <2>2, <2>3, <2>4
<1>5. CASE Callback(u)
  <2>1. /\ UNCHANGED <<orders, delivered, start, history>>
        /\ alert' = [alert EXCEPT ![u] = FALSE]
        /\ inbox[u] # <<>> /\ inbox' = [inbox EXCEPT ![u] = Tail(@)]
        /\ view' = [view EXCEPT ![u] = {}] \/ view' = view
    BY <1>5 DEF Callback, PutOrderDone, PutOrderFailed
  <2>2. inbox' \in [Users -> Seq({"placed", "refused"})]
    <3>1. Tail(inbox[u]) \in Seq({"placed", "refused"})
      BY <2>1
    <3> QED
      BY <2>1, <3>1
  <2>3. DeviceType' /\ HistoryType'
    BY <2>1, <2>2, <1>2 DEF history
  <2>4. ScreenInv' /\ OrdersInv'
    BY <2>1, <1>3
  <2> QED
    BY <1>2, <2>3, <2>4
<1>6. CASE AppKilled(u)
  <2>1. /\ UNCHANGED <<orders, history>>
        /\ delivered' = [delivered EXCEPT ![u] = {}]
        /\ alert' = [alert EXCEPT ![u] = FALSE]
        /\ inbox' = [inbox EXCEPT ![u] = <<>>]
        /\ start' = [start EXCEPT ![u] = Len(orders)]
        /\ view' = [view EXCEPT ![u] = {}]
    BY <1>6 DEF AppKilled, Kill, Restarted
  <2>2. DeviceType' /\ HistoryType'
    BY <2>1, <1>2 DEF history
  <2>3. ScreenInv' /\ OrdersInv'
    BY <2>1, <1>3
  <2> QED
    BY <1>2, <2>2, <2>3
<1>7. CASE UserPutsOrder(u)
  <2> DEFINE rest == {e \in delivered[u] : e.line \notin LinesOf(view[u])}
  <2>1. /\ orders' = Append(orders, NewOrder(u, LinesOf(view[u])))
        /\ delivered' = [delivered EXCEPT ![u] = rest]
        /\ view' = [view EXCEPT ![u] = rest]
        /\ alert' = [alert EXCEPT ![u] = TRUE]
        /\ UNCHANGED <<inbox, start>>
        /\ UNCHANGED <<spoiled, sold, torn>>
        /\ careless' \in BOOLEAN
    BY <1>7 DEF UserPutsOrder, PutOrder
  <2>2. rest \subseteq delivered[u]
    OBVIOUS
  <2> HIDE DEF rest
  <2>3. /\ orders' \in Seq(OrderDoc) /\ Len(orders') = Len(orders) + 1
        /\ DOMAIN orders' = DOMAIN orders \cup {Len(orders) + 1}
        /\ \A p \in DOMAIN orders : orders'[p] = orders[p]
        /\ orders'[Len(orders) + 1] = NewOrder(u, LinesOf(view[u]))
    BY <2>1, NewOrderDoc
  <2>4. DeviceType' /\ HistoryType'
    BY <2>1, <2>2, <2>3, <1>2
  <2>5. ScreenInv'
    BY <2>1, <2>2, <1>3
  <2>6. OrdersInv'
    BY <2>3, <1>3 DEF NewOrder
  <2> QED
    BY <1>2, <2>4, <2>5, <2>6
<1>8. ASSUME NEW S \in SUBSET LinesOf(view[u]), UserKilledInPutOrder(u, S)
      PROVE  RInv'
  <2>1. /\ orders' = Append(orders, NewOrder(u, S))
        /\ delivered' = [delivered EXCEPT ![u] = {}]
        /\ view' = [view EXCEPT ![u] = {}]
        /\ alert' = [alert EXCEPT ![u] = FALSE]
        /\ inbox' = [inbox EXCEPT ![u] = <<>>]
        /\ start' = [start EXCEPT ![u] = Len(orders) + 1]
        /\ torn' = torn \cup (LinesOf(view[u]) \ S)
        /\ UNCHANGED <<spoiled, sold>>
        /\ careless' \in BOOLEAN
    BY <1>8 DEF UserKilledInPutOrder, PutOrderKilled, Restarted
  <2>2. LinesOf(view[u]) \subseteq Lines
    BY DEF LinesOf, Entry
  <2>3. /\ orders' \in Seq(OrderDoc) /\ Len(orders') = Len(orders) + 1
        /\ DOMAIN orders' = DOMAIN orders \cup {Len(orders) + 1}
        /\ \A p \in DOMAIN orders : orders'[p] = orders[p]
        /\ orders'[Len(orders) + 1] = NewOrder(u, S)
    BY <2>1, NewOrderDoc
  <2>4. DeviceType' /\ HistoryType'
    BY <2>1, <2>2, <2>3, <1>2
  <2>5. ScreenInv'
    BY <2>1, <1>3
  <2>6. OrdersInv'
    BY <2>3, <1>3 DEF NewOrder
  <2> QED
    BY <1>2, <2>4, <2>5, <2>6
<1>9. CASE LateError(u)
  <2>1. /\ UNCHANGED <<orders, view, delivered, inbox, start, history>>
        /\ alert' = [alert EXCEPT ![u] = FALSE]
    BY <1>9 DEF LateError, RemovalFailed
  <2>2. DeviceType' /\ HistoryType'
    BY <2>1, <1>2 DEF history
  <2>3. ScreenInv' /\ OrdersInv'
    BY <2>1, <1>3
  <2> QED
    BY <1>2, <2>2, <2>3
<1> QED
  BY <1>4, <1>5, <1>6, <1>7, <1>8, <1>9

(* The server's answers preserve the invariant.                            *)
LEMMA ServerStepInv ==
    ASSUME RInv, NEW o \in DOMAIN orders, ServerStep(o)
    PROVE  RInv'
<1> USE DEF RInv, RentalTypeOK, DeviceType, HistoryType, ScreenInv, OrdersInv
<1>1. /\ UNCHANGED <<stock, line, pc, req, got, next, todo, reply>>
      /\ live' \subseteq live
      /\ UNCHANGED <<view, delivered, alert, start>>
  BY DEF ServerStep, RentalCommitOrder, RentalRejectOrder, RentalCommitDelete,
     RentalRejectDelete, CommitOrder, RejectOrder, CommitDelete, RejectDelete,
     AnswerOrder, AnswerDelete, locals
<1>2. TypeOK' /\ born' = born
  BY <1>1 DEF TypeOK, DocumentsType, born
<1>3. \A v, e : OwnEntry(v, e)' <=> OwnEntry(v, e)
  BY <1>1, SameLinesSameEntries
<1>4. CASE RentalCommitOrder(o) \/ RentalRejectOrder(o)
  <2>1. /\ orders' \in Seq(OrderDoc) /\ Len(orders') = Len(orders)
        /\ DOMAIN orders' = DOMAIN orders
        /\ \A p \in DOMAIN orders : /\ orders'[p].user = orders[p].user
                                    /\ orders'[p].entries = orders[p].entries
                                    /\ orders'[p].deletes = orders[p].deletes
    BY <1>4, AnswerDoc DEF RentalCommitOrder, RentalRejectOrder, CommitOrder, RejectOrder
  <2>a. inbox' \in [Users -> Seq({"placed", "refused"})]
    BY <1>4, TellInbox DEF RentalCommitOrder, RentalRejectOrder, CommitOrder,
       RejectOrder, AnswerOrder
  <2>2. DeviceType' /\ ScreenInv' /\ OrdersInv'
    BY <1>1, <1>3, <2>1, <2>a
  <2>3. HistoryType'
    <3>1. CASE RentalRejectOrder(o)
      BY <1>2, <3>1 DEF RentalRejectOrder
    <3>2. CASE RentalCommitOrder(o)
      <4> DEFINE es == orders[o].entries
                 wrong == {e \in es : ~Intact(e.line, e.count)}
                 cnt(l) == IF l \in DOMAIN sold THEN sold[l]
                           ELSE (CHOOSE e \in es : e.line = l).count
      <4>1. /\ spoiled' = IF wrong = {} THEN spoiled ELSE spoiled \cup {e.item : e \in wrong}
            /\ sold' = [l \in DOMAIN sold \cup LinesOf(es) |-> cnt(l)]
            /\ UNCHANGED <<torn, careless>>
        BY <3>2 DEF RentalCommitOrder, Books
      <4>2. \A e \in es : /\ e.line \in born /\ e.item \in Items /\ e.count \in Int
        <5>1. orders[o] \in OrderDoc
          OBVIOUS
        <5>2. es \in SUBSET Entry
          BY <5>1 DEF OrderDoc
        <5>3. \A e \in es : e.line \in born
          BY DEF OwnEntry
        <5> QED
          BY <5>2, <5>3 DEF Entry
      <4>3. LinesOf(es) \subseteq born
        BY <4>2 DEF LinesOf
      <4>4. \A l \in LinesOf(es) : (CHOOSE e \in es : e.line = l).count \in Int
        <5>1. SUFFICES ASSUME NEW l \in LinesOf(es)
                       PROVE  (CHOOSE e \in es : e.line = l).count \in Int
          OBVIOUS
        <5>2. \E e \in es : e.line = l
          BY <5>1 DEF LinesOf
        <5> QED
          BY <5>2, <4>2
      <4>5. \A l \in DOMAIN sold \cup LinesOf(es) : cnt(l) \in Int
        BY <4>4
      <4>6. wrong \subseteq es
        OBVIOUS
      <4> HIDE DEF es, wrong, cnt
      <4>7. spoiled' \subseteq Items
        BY <4>1, <4>2, <4>6
      <4>8. DOMAIN sold' \subseteq born' /\ sold' \in [DOMAIN sold' -> Int]
        BY <4>1, <4>3, <4>5, <1>2
      <4> QED
        BY <4>1, <4>7, <4>8
    <3> QED
      BY <1>4, <3>1, <3>2
  <2> QED
    BY <1>2, <2>2, <2>3
<1>5. ASSUME NEW l \in orders[o].deletes,
             RentalCommitDelete(o, l) \/ RentalRejectDelete(o, l)
      PROVE  RInv'
  <2>1. /\ orders' \in Seq(OrderDoc) /\ Len(orders') = Len(orders)
        /\ DOMAIN orders' = DOMAIN orders
        /\ \A p \in DOMAIN orders : /\ orders'[p].user = orders[p].user
                                    /\ orders'[p].entries = orders[p].entries
                                    /\ orders'[p].deletes \subseteq orders[p].deletes
    BY <1>5, AnswerDoc
    DEF RentalCommitDelete, RentalRejectDelete, CommitDelete, RejectDelete
  <2>a. inbox' \in [Users -> Seq({"placed", "refused"})]
    BY <1>5, TellInbox DEF RentalCommitDelete, RentalRejectDelete, CommitDelete,
       RejectDelete
  <2>2. DeviceType' /\ ScreenInv' /\ OrdersInv'
    BY <1>1, <1>3, <2>1, <2>a
  <2>3. l \in born /\ l \in Lines /\ line[l].item \in Items
    <3>1. l \in LinesOf(orders[o].entries)
      BY <1>5
    <3>2. l \in born
      BY <3>1 DEF OwnEntry, LinesOf
    <3> QED
      BY <3>2 DEF TypeOK, DocumentsType, LineDoc
  <2>4. HistoryType'
    <3>1. /\ spoiled' \in {spoiled, spoiled \cup {line[l].item}}
          /\ torn' \in {torn, torn \cup {l}}
          /\ careless' \in {careless, TRUE}
          /\ sold' = sold
      <4>1. CASE RentalCommitDelete(o, l)
        <5>1. Books(l \in DOMAIN sold \/ l \notin live, {line[l].item})
          BY <4>1 DEF RentalCommitDelete
        <5>2. spoiled' \in {spoiled, spoiled \cup {line[l].item}}
          BY <5>1 DEF Books
        <5> QED
          BY <4>1, <5>2 DEF RentalCommitDelete
      <4>2. CASE RentalRejectDelete(o, l)
        BY <4>2 DEF RentalRejectDelete
      <4> QED
        BY <1>5, <4>1, <4>2
    <3> QED
      BY <1>2, <2>3, <3>1
  <2> QED
    BY <1>2, <2>2, <2>4
<1> QED
  BY <1>4, <1>5 DEF ServerStep

-----------------------------------------------------------------------------
(* The history that the calls' steps write is well typed.                  *)
LEMMA CallStepHistory ==
    ASSUME RInv, NEW c \in Calls, CallStep(c) \/ RentalAbandon(c)
    PROVE  /\ spoiled' \subseteq Items
           /\ UNCHANGED <<sold, torn>>
           /\ careless' \in BOOLEAN
<1> USE DEF RInv, RentalTypeOK, HistoryType
<1>1. pc[c] # "idle" => req[c].item \in Items
  BY DEF TypeOK, Request
<1>2. ASSUME NEW exact, NEW S \in SUBSET Items, Books(exact, S)
      PROVE  spoiled' \subseteq Items
  BY <1>2 DEF Books
<1>3. CASE PlainStep(c)
  BY <1>3 DEF PlainStep, history
<1>4. CASE RentalUpdateItem(c)
  BY <1>1, <1>2, <1>4 DEF RentalUpdateItem, UpdateItem
<1>5. CASE RentalQueryBasket(c)
  <2>1. {req[c].item} \cup {line[l].item : l \in Matching(c)} \subseteq Items
    BY <1>1, <1>5 DEF RentalQueryBasket, QueryBasket, Matching, Basket, TypeOK,
       DocumentsType, LineDoc
  <2> QED
    BY <1>2, <1>5, <2>1 DEF RentalQueryBasket
<1>6. ASSUME NEW t \in todo[c], RentalUpdateLine(c, t)
      PROVE  spoiled' \subseteq Items /\ UNCHANGED <<sold, torn, careless>>
  <2>1. {req[c].item, line[t.line].item} \subseteq Items
    BY <1>1, <1>6 DEF RentalUpdateLine, UpdateLine, TypeOK, DocumentsType, LineDoc
  <2> QED
    BY <1>2, <1>6, <2>1 DEF RentalUpdateLine
<1>7. CASE RentalDeleteLine(c)
  BY <1>1, <1>2, <1>7 DEF RentalDeleteLine, DeleteLine
<1>8. CASE RentalRestoreItem(c)
  BY <1>1, <1>2, <1>8 DEF RentalRestoreItem, RestoreItem
<1>9. CASE RentalAbandon(c)
  BY <1>1, <1>2, <1>9 DEF RentalAbandon, Abandon, InFlight, AddSteps, DeleteSteps
<1> QED
  BY <1>3, <1>4, <1>5, <1>6, <1>7, <1>8, <1>9 DEF CallStep

(* Every step of the composed system preserves the invariant.              *)
LEMMA NextRInv == RInv /\ [RentalNext]_vars => RInv'
<1> SUFFICES ASSUME RInv, [RentalNext]_vars PROVE RInv'
  OBVIOUS
<1>1. view \in [Users -> SUBSET Entry] /\ HistoryType
  BY DEF RInv, RentalTypeOK, DeviceType
<1>2. ASSUME NEW c \in Calls, CallStep(c) \/ RentalAbandon(c) PROVE RInv'
  BY <1>1, <1>2, CallStepNext, CallStepHistory, FunctionStepInv DEF deviceVars
<1>3. ASSUME NEW u \in Users, NEW c \in Calls, NEW a \in {u, NoUser},
             NEW i \in Items, NEW n \in 1 .. MaxCount, AddItem(c, u, a, i, n)
      PROVE  RInv'
  <2>1. /\ UNCHANGED <<orders, view, delivered, alert, inbox, start, spoiled, sold, torn>>
        /\ careless' \in BOOLEAN
    BY <1>1, <1>3 DEF AddItem, deviceVars, HistoryType
  <2> QED
    BY <1>1, <1>3, <2>1, AddItemNext, FunctionStepInv DEF HistoryType
<1>4. ASSUME NEW u \in Users, NEW c \in Calls, NEW a \in {u, NoUser},
             NEW e \in view[u], RemoveItem(c, u, a, e)
      PROVE  RInv'
  <2>1. /\ UNCHANGED <<orders, delivered, alert, inbox, start, spoiled, sold, torn>>
        /\ view' = [view EXCEPT ![u] = @ \ {e}]
        /\ careless' \in BOOLEAN
    BY <1>1, <1>4 DEF RemoveItem, HistoryType
  <2>2. /\ view' \in [Users -> SUBSET Entry]
        /\ \A v \in Users : view'[v] \subseteq view[v]
    BY <1>1, <2>1
  <2> QED
    BY <1>1, <1>4, <2>1, <2>2, RemoveItemNext, FunctionStepInv DEF HistoryType
<1>5. ASSUME NEW u \in Users,
             \/ Refresh(u) \/ Callback(u) \/ LateError(u) \/ AppKilled(u)
             \/ UserPutsOrder(u)
             \/ \E S \in SUBSET LinesOf(view[u]) : UserKilledInPutOrder(u, S)
      PROVE  RInv'
  BY <1>5, DeviceStepInv
<1>6. ASSUME NEW o \in DOMAIN orders, ServerStep(o) PROVE RInv'
  BY <1>6, ServerStepInv
<1>7. CASE UNCHANGED vars
  BY <1>1, <1>7, FunctionStepInv DEF vars, callVars, HistoryType
<1> QED
  BY <1>2, <1>3, <1>4, <1>5, <1>6, <1>7 DEF RentalNext, UserStep

(* The invariant holds at the start.                                       *)
LEMMA InitRInv == RentalInit => RInv
<1> SUFFICES ASSUME RentalInit PROVE RInv
  OBVIOUS
<1>1. TypeOK
  BY InitType DEF RentalInit, Init
<1>2. DeviceType /\ ScreenInv /\ OrdersInv
  BY DEF RentalInit, DeviceInit, DeviceType, ScreenInv, OrdersInv
<1>3. HistoryType
  BY DEF RentalInit, HistoryInit, DocumentsInit, HistoryType, born
<1> QED
  BY <1>1, <1>2, <1>3 DEF RInv, RentalTypeOK

(* RInv holds in every reachable state of the composed system.             *)
THEOREM RentalInvariant == RentalSpec => []RInv
  BY InitRInv, NextRInv, PTL DEF RentalSpec

(* All variables of the composed system are well typed.                    *)
THEOREM RentalTypeCorrect == RentalSpec => []RentalTypeOK
<1>1. RInv => RentalTypeOK
  BY DEF RInv
<1> QED
  BY <1>1, RentalInvariant, PTL

-----------------------------------------------------------------------------
(* Why no line is ordered twice: an ordered line is marked torn, or its    *)
(* delete is still queued (and hides it), or it is gone for good; so a     *)
(* screen never gets to show an ordered line that is not torn.             *)
TakenInv ==
    \A o \in DOMAIN orders : \A l \in LinesOf(orders[o].entries) :
        l \in torn \/ l \in orders[o].deletes \/ l \notin live

UnseenInv ==
    \A u \in Users : \A o \in OrdersOf(u) :
        LinesOf(delivered[u]) \cap LinesOf(orders[o].entries) \subseteq torn

ApartInv ==
    \A o, p \in DOMAIN orders :
        o # p => LinesOf(orders[o].entries) \cap LinesOf(orders[p].entries)
                    \subseteq torn

HiddenInv == \A u \in Users : LinesOf(delivered[u]) \cap Hidden(u) = {}

OrderedInv == RInv /\ TakenInv /\ UnseenInv /\ ApartInv /\ HiddenInv

(* Lines that two users' orders or screens hold are different lines.       *)
LEMMA EntriesBorn ==
    ASSUME RInv
    PROVE  /\ \A o \in DOMAIN orders : \A l \in LinesOf(orders[o].entries) :
                l \in born /\ line[l].owner = orders[o].user
           /\ \A u \in Users : \A l \in LinesOf(delivered[u]) :
                l \in born /\ line[l].owner = u
           /\ \A u \in Users : view[u] \subseteq delivered[u]
  BY DEF RInv, ScreenInv, OrdersInv, OwnEntry, LinesOf

(* A step that creates no line that anybody knows of, orders nothing and   *)
(* shows nothing new keeps ordered lines where they are.                   *)
LEMMA OrderedStays ==
    ASSUME OrderedInv, RInv', torn \subseteq torn',
           \A l \in born : l \in live' => l \in live,
           DOMAIN orders' = DOMAIN orders,
           \A o \in DOMAIN orders :
              /\ orders'[o].user = orders[o].user
              /\ orders'[o].entries = orders[o].entries
              /\ orders'[o].deletes \subseteq orders[o].deletes
              /\ \A l \in orders[o].deletes \ orders'[o].deletes :
                    l \in torn' \/ l \notin live',
           \A u \in Users : delivered'[u] \subseteq delivered[u]
    PROVE  OrderedInv'
<1> USE DEF OrderedInv
<1>1. \A o \in DOMAIN orders : \A l \in LinesOf(orders[o].entries) : l \in born
  BY EntriesBorn
<1>2. TakenInv'
  BY <1>1 DEF TakenInv
<1>3. \A u \in Users : /\ OrdersOf(u)' = OrdersOf(u)
                       /\ Hidden(u)' \subseteq Hidden(u)
                       /\ LinesOf(delivered[u])' \subseteq LinesOf(delivered[u])
  BY DEF OrdersOf, Hidden, LinesOf
<1>4. UnseenInv'
  BY <1>3 DEF UnseenInv, OrdersOf
<1>5. ApartInv'
  BY DEF ApartInv
<1>6. HiddenInv'
  BY <1>3 DEF HiddenInv
<1> QED
  BY <1>2, <1>4, <1>5, <1>6

(* A new order takes lines off one screen, with the deletes S and the rest *)
(* of its lines torn.                                                      *)
LEMMA OrderedAnew ==
    ASSUME OrderedInv, RInv', NEW u \in Users, NEW S, S \subseteq LinesOf(view[u]),
           orders' = Append(orders, NewOrder(u, S)),
           torn' = torn \cup (LinesOf(view[u]) \ S),
           live' = live,
           \A v \in Users : delivered'[v] \subseteq delivered[v],
           LinesOf(delivered'[u]) \cap LinesOf(view[u]) = {},
           UNCHANGED line
    PROVE  OrderedInv'
<1> USE DEF OrderedInv
<1> DEFINE m == Len(orders) + 1
<1>1. /\ DOMAIN orders' = DOMAIN orders \cup {m} /\ m \notin DOMAIN orders
      /\ \A p \in DOMAIN orders : orders'[p] = orders[p]
      /\ orders'[m].user = u /\ orders'[m].entries = view[u] /\ orders'[m].deletes = S
  BY NewOrderDoc DEF NewOrder
<1> HIDE DEF m
<1>2. TakenInv'
  BY <1>1 DEF TakenInv
<1>3. \A v \in Users : LinesOf(delivered'[v]) \subseteq LinesOf(delivered[v])
  BY DEF LinesOf
<1>4. \A l \in LinesOf(view[u]) : l \in born /\ line[l].owner = u /\ l \in LinesOf(delivered[u])
  BY EntriesBorn DEF LinesOf
<1>5. UnseenInv'
  <2> SUFFICES ASSUME NEW v \in Users, NEW o \in OrdersOf(v)'
               PROVE  LinesOf(delivered'[v]) \cap LinesOf(orders'[o].entries) \subseteq torn'
    BY DEF UnseenInv
  <2>1. CASE o = m
    <3>1. v = u /\ orders'[o].entries = view[u]
      BY <1>1, <2>1 DEF OrdersOf
    <3> QED
      BY <3>1
  <2>2. CASE o \in DOMAIN orders
    <3>1. o \in OrdersOf(v) /\ orders'[o].entries = orders[o].entries
      BY <1>1, <2>2 DEF OrdersOf
    <3>2. LinesOf(delivered[v]) \cap LinesOf(orders[o].entries) \subseteq torn
      BY <3>1 DEF UnseenInv
    <3>3. torn \subseteq torn'
      OBVIOUS
    <3> QED
      BY <1>3, <3>1, <3>2, <3>3
  <2> QED
    BY <1>1, <2>1, <2>2 DEF OrdersOf
<1>6. \A p \in DOMAIN orders :
        LinesOf(orders[p].entries) \cap LinesOf(view[u]) \subseteq torn
  <2> SUFFICES ASSUME NEW p \in DOMAIN orders, NEW l \in LinesOf(orders[p].entries),
                      l \in LinesOf(view[u])
               PROVE  l \in torn
    OBVIOUS
  <2>1. orders[p].user = u
    BY <1>4, EntriesBorn
  <2> QED
    BY <1>4, <2>1 DEF UnseenInv, OrdersOf
<1>7. ApartInv'
  <2> SUFFICES ASSUME NEW o \in DOMAIN orders', NEW p \in DOMAIN orders', o # p
               PROVE  LinesOf(orders'[o].entries) \cap LinesOf(orders'[p].entries)
                        \subseteq torn'
    BY DEF ApartInv
  <2>1. CASE o = m
    BY <1>1, <1>6, <2>1
  <2>2. CASE p = m
    BY <1>1, <1>6, <2>2
  <2>3. CASE o # m /\ p # m
    BY <1>1, <2>3 DEF ApartInv
  <2> QED
    BY <2>1, <2>2, <2>3
<1>8. HiddenInv'
  <2> SUFFICES ASSUME NEW v \in Users, NEW l \in LinesOf(delivered'[v]),
                      l \in Hidden(v)'
               PROVE  FALSE
    BY DEF HiddenInv
  <2>0. PICK o \in OrdersOf(v)' : l \in orders'[o].deletes
    BY DEF Hidden
  <2>1. CASE o = m
    <3>1. v = u /\ l \in S
      BY <1>1, <2>0, <2>1 DEF OrdersOf
    <3> QED
      BY <3>1
  <2>2. CASE o \in DOMAIN orders
    <3>1. o \in OrdersOf(v) /\ l \in orders[o].deletes
      BY <1>1, <2>0, <2>2 DEF OrdersOf
    <3>2. l \in Hidden(v)
      BY <3>1 DEF Hidden
    <3>3. l \in LinesOf(delivered[v])
      BY <1>3
    <3> QED
      BY <3>2, <3>3 DEF HiddenInv
  <2> QED
    BY <1>1, <2>1, <2>2 DEF OrdersOf
<1> QED
  BY <1>2, <1>5, <1>7, <1>8

(* Every step preserves what is known of ordered lines.                    *)
LEMMA NextOrderedInv == OrderedInv /\ [RentalNext]_vars => OrderedInv'
<1> SUFFICES ASSUME OrderedInv, [RentalNext]_vars PROVE OrderedInv'
  OBVIOUS
<1>1. RInv /\ RInv' /\ TypeOK
  BY NextRInv DEF OrderedInv, RInv, RentalTypeOK
<1>2. ASSUME [Next]_callVars, UNCHANGED <<orders, delivered, torn>>
      PROVE  OrderedInv'
  <2>1. \A l \in born : l \in live' => l \in live
    BY <1>1, <1>2, StepNoResurrection
  <2> QED
    BY <1>1, <1>2, <2>1, OrderedStays
<1>3. ASSUME NEW c \in Calls, CallStep(c) \/ RentalAbandon(c) PROVE OrderedInv'
  BY <1>1, <1>2, <1>3, CallStepNext, CallStepHistory DEF deviceVars
<1>4. ASSUME NEW u \in Users, NEW c \in Calls, NEW a \in {u, NoUser},
             NEW i \in Items, NEW n \in 1 .. MaxCount, AddItem(c, u, a, i, n)
      PROVE  OrderedInv'
  <2>1. UNCHANGED <<orders, delivered, torn>>
    BY <1>4 DEF AddItem, deviceVars
  <2> QED
    BY <1>2, <1>4, <2>1, AddItemNext
<1>5. ASSUME NEW u \in Users, NEW c \in Calls, NEW a \in {u, NoUser},
             NEW e \in view[u], RemoveItem(c, u, a, e)
      PROVE  OrderedInv'
  <2>1. UNCHANGED <<orders, delivered, torn>>
    BY <1>5 DEF RemoveItem
  <2> QED
    BY <1>1, <1>2, <1>5, <2>1, RemoveItemNext
<1>6. ASSUME NEW u \in Users, Refresh(u) PROVE OrderedInv'
  <2>1. /\ delivered' = [delivered EXCEPT ![u] = LocalBasket(u)]
        /\ UNCHANGED <<line, live, orders, torn>>
    BY <1>6 DEF Refresh, Snapshot, history
  <2>2. delivered \in [Users -> SUBSET Entry]
    BY <1>1 DEF RInv, RentalTypeOK, DeviceType
  <2>3. \A l \in LinesOf(LocalBasket(u)) : l \in live /\ l \notin Hidden(u)
    BY <1>1, LocalBasketEntries DEF LinesOf
  <2>4. \A v \in Users : /\ OrdersOf(v)' = OrdersOf(v)
                         /\ Hidden(v)' = Hidden(v)
    BY <2>1 DEF OrdersOf, Hidden
  <2>5. \A o \in OrdersOf(u) : LinesOf(LocalBasket(u)) \cap LinesOf(orders[o].entries)
                                  \subseteq torn
    BY <2>3 DEF OrderedInv, TakenInv, OrdersOf, Hidden
  <2>6. \A v \in Users : delivered'[v] = IF v = u THEN LocalBasket(u) ELSE delivered[v]
    BY <2>1, <2>2
  <2>7. UnseenInv'
    BY <2>1, <2>4, <2>5, <2>6 DEF OrderedInv, UnseenInv
  <2>8. HiddenInv'
    BY <2>3, <2>4, <2>6 DEF OrderedInv, HiddenInv
  <2>9. TakenInv' /\ ApartInv'
    BY <2>1 DEF OrderedInv, TakenInv, ApartInv
  <2> QED
    BY <1>1, <2>7, <2>8, <2>9 DEF OrderedInv
<1>7. ASSUME NEW u \in Users, Callback(u) \/ LateError(u) \/ AppKilled(u)
      PROVE  OrderedInv'
  <2>1. /\ UNCHANGED <<line, live, orders, torn>>
        /\ delivered' \in {delivered, [delivered EXCEPT ![u] = {}]}
    BY <1>7 DEF Callback, PutOrderDone, PutOrderFailed, LateError, RemovalFailed,
       AppKilled, Kill, Restarted, history
  <2>2. \A v \in Users : delivered'[v] \subseteq delivered[v]
    BY <1>1, <2>1 DEF RInv, RentalTypeOK, DeviceType
  <2> QED
    BY <1>1, <2>1, <2>2, OrderedStays
<1>8. ASSUME NEW u \in Users, UserPutsOrder(u) PROVE OrderedInv'
  <2> DEFINE rest == {e \in delivered[u] : e.line \notin LinesOf(view[u])}
  <2>1. /\ orders' = Append(orders, NewOrder(u, LinesOf(view[u])))
        /\ delivered' = [delivered EXCEPT ![u] = rest]
        /\ UNCHANGED <<line, live, torn>>
    BY <1>8 DEF UserPutsOrder, PutOrder
  <2>2. LinesOf(rest) \cap LinesOf(view[u]) = {} /\ rest \subseteq delivered[u]
    BY DEF LinesOf
  <2> HIDE DEF rest
  <2>3. /\ \A v \in Users : delivered'[v] \subseteq delivered[v]
        /\ LinesOf(delivered'[u]) \cap LinesOf(view[u]) = {}
    BY <1>1, <2>1, <2>2 DEF RInv, RentalTypeOK, DeviceType
  <2>4. torn' = torn \cup (LinesOf(view[u]) \ LinesOf(view[u]))
    BY <2>1
  <2> QED
    BY <1>1, <2>1, <2>3, <2>4, OrderedAnew
<1>9. ASSUME NEW u \in Users, NEW S \in SUBSET LinesOf(view[u]),
             UserKilledInPutOrder(u, S)
      PROVE  OrderedInv'
  <2>1. /\ orders' = Append(orders, NewOrder(u, S))
        /\ delivered' = [delivered EXCEPT ![u] = {}]
        /\ torn' = torn \cup (LinesOf(view[u]) \ S)
        /\ UNCHANGED <<line, live>>
    BY <1>9 DEF UserKilledInPutOrder, PutOrderKilled, Restarted
  <2>2. /\ \A v \in Users : delivered'[v] \subseteq delivered[v]
        /\ LinesOf(delivered'[u]) \cap LinesOf(view[u]) = {}
    BY <1>1, <2>1 DEF RInv, RentalTypeOK, DeviceType, LinesOf
  <2> QED
    BY <1>1, <2>1, <2>2, OrderedAnew
<1>10. ASSUME NEW o \in DOMAIN orders, RentalCommitOrder(o) \/ RentalRejectOrder(o)
       PROVE  OrderedInv'
  <2>1. /\ UNCHANGED <<line, live, delivered, torn>>
        /\ AnswerOrder(o, "placed") \/ AnswerOrder(o, "refused")
    BY <1>10 DEF RentalCommitOrder, RentalRejectOrder, CommitOrder, RejectOrder,
       AnswerOrder
  <2>2. /\ DOMAIN orders' = DOMAIN orders
        /\ \A p \in DOMAIN orders : /\ orders'[p].user = orders[p].user
                                    /\ orders'[p].entries = orders[p].entries
                                    /\ orders'[p].deletes = orders[p].deletes
    BY <1>1, <2>1, AnswerDoc
  <2> QED
    BY <1>1, <2>1, <2>2, OrderedStays
<1>11. ASSUME NEW o \in DOMAIN orders, NEW l \in orders[o].deletes,
              RentalCommitDelete(o, l) \/ RentalRejectDelete(o, l)
       PROVE  OrderedInv'
  <2>1. /\ UNCHANGED <<line, delivered>>
        /\ live' \subseteq live /\ torn \subseteq torn'
        /\ l \notin live' \/ l \in torn'
        /\ AnswerDelete(o, l)
    BY <1>11 DEF RentalCommitDelete, RentalRejectDelete, CommitDelete, RejectDelete,
       AnswerDelete
  <2>2. /\ DOMAIN orders' = DOMAIN orders
        /\ \A p \in DOMAIN orders :
              /\ orders'[p].user = orders[p].user
              /\ orders'[p].entries = orders[p].entries
              /\ p # o => orders'[p].deletes = orders[p].deletes
        /\ orders'[o].deletes = orders[o].deletes \ {l}
    BY <1>1, <2>1, AnswerDoc
  <2>3. \A p \in DOMAIN orders :
          /\ orders'[p].deletes \subseteq orders[p].deletes
          /\ \A k \in orders[p].deletes \ orders'[p].deletes :
                k \in torn' \/ k \notin live'
    BY <2>1, <2>2
  <2> QED
    BY <1>1, <2>1, <2>2, <2>3, OrderedStays
<1>12. CASE UNCHANGED vars
  <2>1. UNCHANGED callVars /\ UNCHANGED <<orders, delivered, torn>>
    BY <1>12 DEF vars, callVars
  <2> QED
    BY <1>2, <2>1
<1> QED
  BY <1>3, <1>4, <1>5, <1>6, <1>7, <1>8, <1>9, <1>10, <1>11, <1>12
  DEF RentalNext, UserStep, ServerStep

(* OrderedInv holds in every reachable state.                              *)
THEOREM OrderedInvariant == RentalSpec => []OrderedInv
<1>1. RentalInit => OrderedInv
  BY InitRInv DEF RentalInit, DeviceInit, OrderedInv, TakenInv, UnseenInv, ApartInv,
     HiddenInv, OrdersOf, LinesOf
<1> QED
  BY <1>1, NextOrderedInv, PTL DEF RentalSpec

(* No line is rented out by two accepted orders, and each leaves its       *)
(* basket, unless its own delete was lost, for any number of devices,      *)
(* orders, restarts and refusals.                                          *)
THEOREM NoLineTwice == RentalSpec => []NoLineOrderedTwice
<1>1. OrderedInv => NoLineOrderedTwice
  BY DEF OrderedInv, ApartInv, TakenInv, NoLineOrderedTwice, Placed
<1> QED
  BY <1>1, OrderedInvariant, PTL

(* While the alert is up the order it is about, or one of this process, is *)
(* still queued, or its completion is to run.                              *)
Awaited(u) ==
    \/ inbox[u] # <<>>
    \/ \E o \in DOMAIN orders :
          orders[o].user = u /\ o > start[u] /\ orders[o].stage = "queued"

AlertInv == \A u \in Users : alert[u] => Awaited(u)

(* A step in which no alert comes up, no completion runs and no order is   *)
(* answered.                                                               *)
LEMMA AlertStays ==
    ASSUME AlertInv, \A u \in Users : alert'[u] => alert[u] /\ inbox'[u] = inbox[u] /\ start'[u] = start[u],
           DOMAIN orders \subseteq DOMAIN orders', \A o \in DOMAIN orders : orders'[o] = orders[o]
    PROVE  AlertInv'
  BY DEF AlertInv, Awaited

LEMMA AppendIsLonger ==
    ASSUME NEW S, NEW s \in Seq(S), NEW x \in S
    PROVE  Append(s, x) # <<>>
<1>1. Len(Append(s, x)) = Len(s) + 1 /\ Len(s) \in Nat
  OBVIOUS
<1> QED
  BY <1>1

(* The server answers an order, or one of its deletes.                     *)
LEMMA AlertAnswered ==
    ASSUME DeviceType, AlertInv, NEW o \in DOMAIN orders, NEW answer \in {"placed", "refused"},
           UNCHANGED <<alert, start>>, Tell(o, answer) \/ inbox' = inbox,
           DOMAIN orders' = DOMAIN orders,
           \A p \in DOMAIN orders : /\ orders'[p].user = orders[p].user
                                    /\ p # o => orders'[p].stage = orders[p].stage,
           orders'[o].stage = orders[o].stage \/ Tell(o, answer)
    PROVE  AlertInv'
<1> SUFFICES ASSUME NEW u \in Users, alert[u] PROVE Awaited(u)'
  BY DEF AlertInv
<1>1. Awaited(u) /\ inbox \in [Users -> Seq({"placed", "refused"})]
  BY DEF AlertInv, DeviceType
<1>2. CASE inbox[u] # <<>>
  <2>1. inbox'[u] # <<>>
    <3>1. CASE inbox' = [inbox EXCEPT ![orders[o].user] = Append(@, answer)]
      <4>1. inbox'[u] \in {inbox[u], Append(inbox[u], answer)}
        BY <1>1, <3>1
      <4>2. Append(inbox[u], answer) # <<>>
        BY <1>1, AppendIsLonger
      <4> QED
        BY <1>2, <4>1, <4>2
    <3> QED
      BY <1>2, <3>1 DEF Tell
  <2> QED
    BY <2>1 DEF Awaited
<1>3. ASSUME NEW p \in DOMAIN orders, orders[p].user = u, p > start[u], orders[p].stage = "queued"
      PROVE  Awaited(u)'
  <2>1. CASE orders'[p].stage = orders[p].stage
    BY <1>3, <2>1 DEF Awaited
  <2>2. CASE p = o /\ Tell(o, answer)
    <3>1. inbox' = [inbox EXCEPT ![u] = Append(@, answer)]
      BY <1>3, <2>2 DEF Tell
    <3>2. inbox'[u] = Append(inbox[u], answer) /\ inbox[u] \in Seq({"placed", "refused"})
      BY <1>1, <3>1
    <3>3. inbox'[u] # <<>>
      BY <3>2, AppendIsLonger
    <3> QED
      BY <3>3 DEF Awaited
  <2> QED
    BY <2>1, <2>2
<1> QED
  BY <1>1, <1>2, <1>3 DEF Awaited

LEMMA NextAlertInv == RInv /\ AlertInv /\ [RentalNext]_vars => AlertInv'
<1> SUFFICES ASSUME RInv, AlertInv, [RentalNext]_vars PROVE AlertInv'
  OBVIOUS
<1>0. TypeOK /\ DeviceType
  BY DEF RInv, RentalTypeOK
<1>1. CASE UNCHANGED <<orders, alert, inbox, start>>
  BY <1>1, AlertStays
<1>2. ASSUME NEW c \in Calls, CallStep(c) \/ RentalAbandon(c) PROVE AlertInv'
  BY <1>1, <1>2, CallStepNext DEF deviceVars
<1>3. ASSUME NEW u \in Users, NEW c \in Calls, NEW a \in {u, NoUser},
             \/ \E i \in Items, n \in 1 .. MaxCount : AddItem(c, u, a, i, n)
             \/ \E e \in view[u] : RemoveItem(c, u, a, e)
      PROVE  AlertInv'
  BY <1>1, <1>3 DEF AddItem, RemoveItem, deviceVars
<1>4. ASSUME NEW u \in Users, Refresh(u) PROVE AlertInv'
  BY <1>1, <1>4 DEF Refresh, Snapshot
<1>5. ASSUME NEW u \in Users, Callback(u) \/ LateError(u) \/ AppKilled(u) PROVE AlertInv'
  <2>1. /\ orders' = orders /\ alert' = [alert EXCEPT ![u] = FALSE]
        /\ \A v \in Users : v # u => inbox'[v] = inbox[v] /\ start'[v] = start[v]
    BY <1>0, <1>5 DEF Callback, PutOrderDone, PutOrderFailed, LateError, RemovalFailed,
       AppKilled, Kill, Restarted, DeviceType
  <2>2. \A v \in Users : alert'[v] => v # u /\ alert[v]
    BY <1>0, <2>1 DEF DeviceType
  <2> QED
    BY <2>1, <2>2, AlertStays
<1>6. ASSUME NEW u \in Users, UserPutsOrder(u) PROVE AlertInv'
  <2> DEFINE m == Len(orders) + 1
  <2>1. /\ orders' = Append(orders, NewOrder(u, LinesOf(view[u])))
        /\ alert' = [alert EXCEPT ![u] = TRUE] /\ UNCHANGED <<inbox, start>>
    BY <1>6 DEF UserPutsOrder, PutOrder
  <2>2. /\ m \in DOMAIN orders' /\ orders'[m] = NewOrder(u, LinesOf(view[u]))
        /\ \A o \in DOMAIN orders : o \in DOMAIN orders' /\ orders'[o] = orders[o]
    BY <1>0, <2>1 DEF DeviceType
  <2>3. start[u] \in 0 .. Len(orders) /\ Len(orders) \in Nat
    BY <1>0 DEF DeviceType
  <2>4. m > start[u]
    BY <2>3
  <2> HIDE DEF m
  <2>5. Awaited(u)'
    BY <2>1, <2>2, <2>4 DEF NewOrder, Awaited
  <2>6. ASSUME NEW v \in Users, v # u, alert'[v] PROVE Awaited(v)'
    <3>1. Awaited(v)
      BY <1>0, <2>1, <2>6 DEF AlertInv, DeviceType
    <3> QED
      BY <2>1, <2>2, <3>1 DEF Awaited
  <2> QED
    BY <2>5, <2>6 DEF AlertInv
<1>7. ASSUME NEW u \in Users, NEW S \in SUBSET LinesOf(view[u]), UserKilledInPutOrder(u, S)
      PROVE  AlertInv'
  <2>1. /\ orders' = Append(orders, NewOrder(u, S)) /\ alert' = [alert EXCEPT ![u] = FALSE]
        /\ inbox' = [inbox EXCEPT ![u] = <<>>] /\ start' = [start EXCEPT ![u] = Len(orders) + 1]
    BY <1>7 DEF UserKilledInPutOrder, PutOrderKilled, Restarted
  <2>2. /\ DOMAIN orders \subseteq DOMAIN orders'
        /\ \A o \in DOMAIN orders : orders'[o] = orders[o]
    BY <1>0, <2>1 DEF DeviceType
  <2>3. \A v \in Users : alert'[v] => v # u /\ alert[v]
    BY <1>0, <2>1 DEF DeviceType
  <2>4. \A v \in Users : v # u => inbox'[v] = inbox[v] /\ start'[v] = start[v]
    BY <1>0, <2>1 DEF DeviceType
  <2> QED
    BY <2>2, <2>3, <2>4, AlertStays
<1>8. ASSUME NEW o \in DOMAIN orders, RentalCommitOrder(o) \/ RentalRejectOrder(o)
      PROVE  AlertInv'
  <2>1. PICK answer \in {"placed", "refused"} : AnswerOrder(o, answer)
    BY <1>8 DEF RentalCommitOrder, RentalRejectOrder, CommitOrder, RejectOrder
  <2>2. Tell(o, answer) /\ UNCHANGED <<alert, start>> /\ orders' = [orders EXCEPT ![o].stage = answer]
    BY <2>1 DEF AnswerOrder
  <2>3. /\ DOMAIN orders' = DOMAIN orders
        /\ \A p \in DOMAIN orders : /\ orders'[p].user = orders[p].user
                                    /\ p # o => orders'[p].stage = orders[p].stage
    BY <1>0, <2>2 DEF DeviceType, OrderDoc
  <2> QED
    BY <1>0, <2>2, <2>3, AlertAnswered
<1>9. ASSUME NEW o \in DOMAIN orders, NEW l \in orders[o].deletes,
             RentalCommitDelete(o, l) \/ RentalRejectDelete(o, l)
      PROVE  AlertInv'
  <2>1. /\ AnswerDelete(o, l) /\ (Tell(o, "refused") \/ inbox' = inbox)
    BY <1>9 DEF RentalCommitDelete, RentalRejectDelete, CommitDelete, RejectDelete
  <2>2. UNCHANGED <<alert, start>> /\ orders' = [orders EXCEPT ![o].deletes = @ \ {l}]
    BY <2>1 DEF AnswerDelete
  <2>3. /\ DOMAIN orders' = DOMAIN orders
        /\ \A p \in DOMAIN orders : /\ orders'[p].user = orders[p].user
                                    /\ orders'[p].stage = orders[p].stage
    BY <1>0, <2>2 DEF DeviceType, OrderDoc
  <2> QED
    BY <1>0, <2>1, <2>2, <2>3, AlertAnswered
<1>10. CASE UNCHANGED vars
  BY <1>1, <1>10 DEF vars, deviceVars
<1> QED
  BY <1>2, <1>3, <1>4, <1>5, <1>6, <1>7, <1>8, <1>9, <1>10
  DEF RentalNext, UserStep, ServerStep

(* An order of the process that runs now was accepted.                     *)
Accepted(u) ==
    \E o \in DOMAIN orders :
        orders[o].user = u /\ o > start[u] /\ orders[o].stage = "placed"

(* What was delivered and is not on screen was removed by its user, or     *)
(* wiped off after an order was accepted.                                  *)
Explained(u) ==
    \A e \in delivered[u] \ view[u] :
        (view[u] = {} /\ Accepted(u)) \/ RemovalsOf(e.line) # {}

(* Every completion to run with success is that of an accepted order.      *)
Reported(u) == \A i \in DOMAIN inbox[u] : inbox[u][i] = "placed" => Accepted(u)

ShownInv == \A u \in Users : Explained(u) /\ Reported(u)

(* No call forgets the line it was made for.                               *)
LEMMA RemovalsStay ==
    ASSUME TypeOK, [Next]_callVars
    PROVE  \A l \in Lines : RemovalsOf(l) # {} => RemovalsOf(l)' # {}
<1> SUFFICES ASSUME NEW c \in DOMAIN req PROVE c \in DOMAIN req' /\ req'[c] = req[c]
  BY DEF RemovalsOf
<1>1. c \in Calls /\ pc[c] # "idle"
  BY DEF TypeOK
<1>2. ASSUME NEW d \in Calls, Step(d) \/ Abandon(d) PROVE req' = req
  BY <1>2 DEF Step, GetItem, Refuse, UpdateItem, QueryBasket, SetLine, UpdateLine,
     GetLine, DeleteLine, RegetItem, RestoreItem, Abandon
<1>3. ASSUME NEW d \in Calls, Adding(d) \/ Removing(d)
      PROVE  c \in DOMAIN req' /\ req'[c] = req[c]
  <2>1. pc[d] = "idle" /\ \E r : req' = Put(req, d, r)
    BY <1>3 DEF Adding, Removing, CallAdd, CallDelete
  <2> QED
    BY <1>1, <2>1 DEF Put
<1> QED
  BY <1>2, <1>3 DEF Next, callVars

(* A step after which device u's screen, deliveries and completions are    *)
(* what they were, or less, keeps what explains them.                      *)
LEMMA ShownStays ==
    ASSUME NEW u \in Users, RentalTypeOK, Explained(u), Reported(u),
           \A l \in Lines : RemovalsOf(l) # {} => RemovalsOf(l)' # {},
           Accepted(u) => Accepted(u)',
           \/ delivered'[u] = delivered[u] /\ view'[u] = view[u]
           \/ delivered'[u] = view'[u],
           inbox'[u] \in {inbox[u], <<>>} \/ (inbox[u] # <<>> /\ inbox'[u] = Tail(inbox[u]))
    PROVE  Explained(u)' /\ Reported(u)'
<1>1. delivered[u] \subseteq Entry /\ inbox[u] \in Seq({"placed", "refused"})
  BY DEF RentalTypeOK, DeviceType
<1>2. \A e \in delivered[u] : e.line \in Lines
  BY <1>1 DEF Entry
<1>3. Explained(u)'
  BY <1>2 DEF Explained
<1>4. ASSUME NEW i \in DOMAIN inbox'[u], inbox'[u][i] = "placed" PROVE Accepted(u)'
  <2>1. \E j \in DOMAIN inbox[u] : inbox[u][j] = "placed"
    <3>1. CASE inbox'[u] = inbox[u]
      BY <1>4, <3>1
    <3>2. CASE inbox'[u] = <<>>
      BY <1>4, <3>2
    <3>3. CASE inbox[u] # <<>> /\ inbox'[u] = Tail(inbox[u])
      <4>1. i \in 1 .. Len(inbox[u]) - 1 /\ inbox[u][i + 1] = "placed"
        BY <1>1, <1>4, <3>3
      <4> QED
        BY <1>1, <4>1
    <3> QED
      BY <3>1, <3>2, <3>3
  <2> QED
    BY <2>1 DEF Reported
<1> QED
  BY <1>3, <1>4 DEF Reported

(* Accepted orders stay so, as long as their process runs.                 *)
LEMMA AcceptedStays ==
    ASSUME NEW u \in Users, start'[u] = start[u], DOMAIN orders \subseteq DOMAIN orders',
           \A o \in DOMAIN orders : /\ orders'[o].user = orders[o].user
                                    /\ orders[o].stage = "placed" => orders'[o].stage = "placed"
    PROVE  Accepted(u) => Accepted(u)'
  BY DEF Accepted

LEMMA NextShownInv == RInv /\ ShownInv /\ [RentalNext]_vars => ShownInv'
<1> SUFFICES ASSUME RInv, ShownInv, [RentalNext]_vars PROVE ShownInv'
  OBVIOUS
<1>0. /\ RentalTypeOK /\ TypeOK /\ DeviceType
      /\ \A u \in Users : view[u] \subseteq delivered[u]
      /\ \A u \in Users : \A e \in delivered[u] : e.line \in Lines
  BY DEF RInv, RentalTypeOK, ScreenInv, DeviceType, Entry
<1>1. ASSUME [Next]_callVars, UNCHANGED deviceVars PROVE ShownInv'
  <2>1. \A l \in Lines : RemovalsOf(l) # {} => RemovalsOf(l)' # {}
    BY <1>0, <1>1, RemovalsStay
  <2>2. \A u \in Users : Accepted(u) => Accepted(u)'
    BY <1>1 DEF deviceVars, Accepted
  <2> QED
    BY <1>0, <1>1, <2>1, <2>2, ShownStays DEF ShownInv, deviceVars
<1>2. ASSUME NEW c \in Calls, CallStep(c) \/ RentalAbandon(c) PROVE ShownInv'
  BY <1>1, <1>2, CallStepNext
<1>3. ASSUME NEW u \in Users, NEW c \in Calls, NEW a \in {u, NoUser},
             NEW i \in Items, NEW n \in 1 .. MaxCount, AddItem(c, u, a, i, n)
      PROVE  ShownInv'
  BY <1>1, <1>3, AddItemNext DEF AddItem
<1>4. ASSUME NEW u \in Users, NEW c \in Calls, NEW a \in {u, NoUser},
             NEW e \in view[u], RemoveItem(c, u, a, e)
      PROVE  ShownInv'
  <2>1. Next /\ view' = [view EXCEPT ![u] = @ \ {e}]
    BY <1>4, RemoveItemNext DEF RemoveItem
  <2>2. UNCHANGED <<orders, delivered, inbox, start>>
    BY <1>4 DEF RemoveItem
  <2>3. \A l \in Lines : RemovalsOf(l) # {} => RemovalsOf(l)' # {}
    BY <1>0, <2>1, RemovalsStay
  <2>4. \A v \in Users : Accepted(v) => Accepted(v)'
    BY <2>2 DEF Accepted
  <2>5. RemovalsOf(e.line)' # {}
    BY <1>4 DEF RemoveItem, CallDelete, RemovalsOf, Put
  <2>6. view'[u] = view[u] \ {e} /\ \A v \in Users : v # u => view'[v] = view[v]
    BY <1>0, <2>1 DEF DeviceType
  <2>7. Explained(u)' /\ Reported(u)'
    <3>1. Reported(u)'
      BY <2>2, <2>4 DEF ShownInv, Reported
    <3>2. ASSUME NEW x \in delivered[u], x \notin view[u] \ {e} PROVE RemovalsOf(x.line)' # {}
      <4>1. CASE x = e
        BY <2>5, <4>1
      <4>2. CASE x \notin view[u]
        <5>1. RemovalsOf(x.line) # {} /\ x.line \in Lines
          BY <1>0, <3>2, <4>2 DEF ShownInv, Explained
        <5> QED
          BY <2>3, <5>1
      <4> QED
        BY <3>2, <4>1, <4>2
    <3> QED
      BY <2>2, <2>6, <3>1, <3>2 DEF Explained
  <2>8. ASSUME NEW v \in Users, v # u PROVE Explained(v)' /\ Reported(v)'
    BY <1>0, <2>2, <2>3, <2>4, <2>6, <2>8, ShownStays DEF ShownInv
  <2> QED
    BY <2>7, <2>8 DEF ShownInv
<1>5. ASSUME NEW u \in Users, Refresh(u) \/ Callback(u) \/ LateError(u) \/ AppKilled(u)
      PROVE  ShownInv'
  <2>1. UNCHANGED <<orders, req>>
    BY <1>5 DEF Refresh, Callback, LateError, AppKilled, Snapshot, PutOrderDone,
       PutOrderFailed, RemovalFailed, Kill, locals
  <2>2. \A l \in Lines : RemovalsOf(l) # {} => RemovalsOf(l)' # {}
    BY <2>1 DEF RemovalsOf
  <2>3. \A v \in Users : v # u => /\ delivered'[v] = delivered[v] /\ view'[v] = view[v]
                                  /\ inbox'[v] = inbox[v] /\ start'[v] = start[v]
    BY <1>0, <1>5 DEF DeviceType, Refresh, Callback, LateError, AppKilled, Snapshot,
       PutOrderDone, PutOrderFailed, RemovalFailed, Kill, Restarted
  <2>4. ASSUME NEW v \in Users, v # u PROVE Explained(v)' /\ Reported(v)'
    <3>1. Accepted(v) => Accepted(v)'
      BY <2>1, <2>3, <2>4 DEF Accepted
    <3> QED
      BY <1>0, <2>2, <2>3, <2>4, <3>1, ShownStays DEF ShownInv
  <2>5. ASSUME Refresh(u) \/ PutOrderFailed(u) \/ LateError(u)
        PROVE  Explained(u)' /\ Reported(u)'
    <3>1. /\ \/ delivered'[u] = delivered[u] /\ view'[u] = view[u]
             \/ delivered'[u] = view'[u]
          /\ inbox'[u] = inbox[u] \/ (inbox[u] # <<>> /\ inbox'[u] = Tail(inbox[u]))
          /\ start' = start
      BY <1>0, <2>5 DEF DeviceType, Refresh, LateError, Snapshot, PutOrderFailed, RemovalFailed
    <3>2. Accepted(u) => Accepted(u)'
      BY <2>1, <3>1 DEF Accepted
    <3> QED
      BY <1>0, <2>2, <3>1, <3>2, ShownStays DEF ShownInv
  <2>6. ASSUME PutOrderDone(u) PROVE Explained(u)' /\ Reported(u)'
    <3>1. /\ inbox[u] # <<>> /\ inbox[u][1] = "placed" /\ inbox'[u] = Tail(inbox[u])
          /\ view'[u] = {} /\ UNCHANGED start
      BY <1>0, <2>6 DEF DeviceType, PutOrderDone
    <3>2. Accepted(u)
      BY <1>0, <3>1 DEF ShownInv, Reported, DeviceType
    <3>3. Accepted(u)'
      BY <2>1, <3>1, <3>2 DEF Accepted
    <3> QED
      BY <3>1, <3>3 DEF Explained, Reported
  <2>7. ASSUME AppKilled(u) PROVE Explained(u)' /\ Reported(u)'
    BY <1>0, <2>7 DEF DeviceType, AppKilled, Kill, Restarted, Explained, Reported
  <2> QED
    BY <1>5, <2>4, <2>5, <2>6, <2>7 DEF Callback, ShownInv
<1>6. ASSUME NEW u \in Users,
             \/ UserPutsOrder(u)
             \/ \E S \in SUBSET LinesOf(view[u]) : UserKilledInPutOrder(u, S)
      PROVE  ShownInv'
  <2>1. UNCHANGED req /\ \E S : orders' = Append(orders, NewOrder(u, S))
    BY <1>6 DEF UserPutsOrder, UserKilledInPutOrder, PutOrder, PutOrderKilled, locals
  <2>2. \A l \in Lines : RemovalsOf(l) # {} => RemovalsOf(l)' # {}
    BY <2>1 DEF RemovalsOf
  <2>3. /\ DOMAIN orders \subseteq DOMAIN orders'
        /\ \A o \in DOMAIN orders : orders'[o] = orders[o]
    BY <1>0, <2>1 DEF DeviceType
  <2>4. \A v \in Users : v # u => /\ delivered'[v] = delivered[v] /\ view'[v] = view[v]
                                  /\ inbox'[v] = inbox[v] /\ start'[v] = start[v]
    BY <1>0, <1>6 DEF DeviceType, UserPutsOrder, UserKilledInPutOrder, PutOrder,
       PutOrderKilled, Restarted
  <2>5. ASSUME NEW v \in Users, v # u PROVE Explained(v)' /\ Reported(v)'
    <3>1. Accepted(v) => Accepted(v)'
      BY <2>3, <2>4, <2>5, AcceptedStays
    <3> QED
      BY <1>0, <2>2, <2>4, <2>5, <3>1, ShownStays DEF ShownInv
  <2>6. ASSUME UserPutsOrder(u) PROVE Explained(u)' /\ Reported(u)'
    <3>1. delivered'[u] = view'[u] /\ inbox' = inbox /\ start' = start
      BY <1>0, <2>6 DEF DeviceType, UserPutsOrder, PutOrder
    <3>2. Accepted(u) => Accepted(u)'
      BY <2>3, <3>1, AcceptedStays
    <3> QED
      BY <1>0, <2>2, <3>1, <3>2, ShownStays DEF ShownInv
  <2>7. ASSUME \E S \in SUBSET LinesOf(view[u]) : UserKilledInPutOrder(u, S)
        PROVE Explained(u)' /\ Reported(u)'
    <3>1. delivered'[u] = {} /\ inbox'[u] = <<>>
      BY <1>0, <2>7 DEF DeviceType, UserKilledInPutOrder, PutOrderKilled, Restarted
    <3> QED
      BY <3>1 DEF Explained, Reported
  <2> QED
    BY <1>6, <2>5, <2>6, <2>7 DEF ShownInv
<1>7. ASSUME NEW o \in DOMAIN orders, ServerStep(o) PROVE ShownInv'
  <2>1. UNCHANGED <<req, view, delivered, start>>
    BY <1>7 DEF ServerStep, RentalCommitOrder, RentalRejectOrder, RentalCommitDelete,
       RentalRejectDelete, CommitOrder, RejectOrder, AnswerOrder, CommitDelete,
       RejectDelete, AnswerDelete, locals
  <2>2. \A l \in Lines : RemovalsOf(l) # {} => RemovalsOf(l)' # {}
    BY <2>1 DEF RemovalsOf
  <2>3. PICK answer \in {"placed", "refused"} :
          /\ Tell(o, answer) \/ inbox' = inbox
          /\ \/ orders' = [orders EXCEPT ![o].stage = answer] /\ orders[o].stage = "queued"
             \/ /\ answer = "refused"
                /\ \E l \in orders[o].deletes : orders' = [orders EXCEPT ![o].deletes = @ \ {l}]
    <3>1. CASE RentalCommitOrder(o)
      BY <3>1 DEF RentalCommitOrder, CommitOrder, AnswerOrder
    <3>2. CASE RentalRejectOrder(o)
      BY <3>2 DEF RentalRejectOrder, RejectOrder, AnswerOrder
    <3>3. CASE \E l \in orders[o].deletes : RentalCommitDelete(o, l) \/ RentalRejectDelete(o, l)
      BY <3>3 DEF RentalCommitDelete, RentalRejectDelete, CommitDelete, RejectDelete,
         AnswerDelete
    <3> QED
      BY <1>7, <3>1, <3>2, <3>3 DEF ServerStep
  <2>4. /\ DOMAIN orders' = DOMAIN orders
        /\ \A p \in DOMAIN orders :
              /\ orders'[p].user = orders[p].user
              /\ orders[p].stage = "placed" => orders'[p].stage = "placed"
        /\ answer = "placed" => orders'[o].stage = "placed"
    <3>1. orders[o] \in OrderDoc /\ \A p \in DOMAIN orders : orders[p] \in OrderDoc
      BY <1>0 DEF DeviceType
    <3>2. CASE orders' = [orders EXCEPT ![o].stage = answer] /\ orders[o].stage = "queued"
      BY <3>1, <3>2 DEF OrderDoc
    <3>3. CASE /\ answer = "refused"
               /\ \E l \in orders[o].deletes : orders' = [orders EXCEPT ![o].deletes = @ \ {l}]
      BY <3>1, <3>3 DEF OrderDoc
    <3> QED
      BY <2>3, <3>2, <3>3
  <2>5. ASSUME NEW u \in Users PROVE Explained(u)' /\ Reported(u)'
    <3>1. Accepted(u) => Accepted(u)'
      BY <2>1, <2>4, AcceptedStays
    <3>2. CASE inbox'[u] = inbox[u]
      BY <1>0, <2>1, <2>2, <3>1, <3>2, ShownStays DEF ShownInv
    <3>3. CASE inbox'[u] # inbox[u]
      <4>1. /\ inbox'[u] = Append(inbox[u], answer)
            /\ u = orders[o].user /\ o > start[u]
        BY <1>0, <2>3, <3>3 DEF Tell, DeviceType
      <4>2. answer = "placed" => Accepted(u)'
        BY <2>1, <2>4, <4>1 DEF Accepted
      <4>3. ASSUME NEW i \in DOMAIN inbox'[u], inbox'[u][i] = "placed" PROVE Accepted(u)'
        <5>1. inbox[u] \in Seq({"placed", "refused"})
          BY <1>0 DEF DeviceType
        <5>2. (i \in DOMAIN inbox[u] /\ inbox[u][i] = "placed") \/ answer = "placed"
          BY <4>1, <4>3, <5>1
        <5> QED
          BY <3>1, <4>2, <5>2 DEF ShownInv, Reported
      <4>4. Reported(u)'
        BY <4>3 DEF Reported
      <4>5. Explained(u)'
        BY <1>0, <2>1, <2>2, <3>1 DEF ShownInv, Explained
      <4> QED
        BY <4>4, <4>5
    <3> QED
      BY <3>2, <3>3
  <2> QED
    BY <2>5 DEF ShownInv
<1>8. CASE UNCHANGED vars
  BY <1>1, <1>8 DEF vars, callVars, deviceVars
<1> QED
  BY <1>2, <1>3, <1>4, <1>5, <1>6, <1>7, <1>8 DEF RentalNext, UserStep

(* No screen offers a line whose delete its device still has to send, hides*)
(* a line but for a removal or an accepted order, or is left behind the    *)
(* alert of an order that nobody will answer.                              *)
THEOREM ScreenTheorem == RentalSpec => []ScreenFollowsOrders
<1>1. RentalInit => AlertInv /\ ShownInv
  BY DEF RentalInit, DeviceInit, AlertInv, ShownInv, Explained, Reported
<1>2. RentalSpec => [](AlertInv /\ ShownInv)
  BY <1>1, NextAlertInv, NextShownInv, RentalInvariant, PTL DEF RentalSpec
<1>3. ASSUME OrderedInv, AlertInv, ShownInv PROVE ScreenFollowsOrders
  <2>1. \A u \in Users : alert[u] =>
            \/ inbox[u] # <<>>
            \/ \E o \in OrdersOf(u) : o > start[u] /\ orders[o].stage = "queued"
    BY <1>3 DEF AlertInv, Awaited, OrdersOf
  <2>2. \A u \in Users : \A e \in delivered[u] \ view[u] : Blanked(u) \/ RemovalsOf(e.line) # {}
    BY <1>3 DEF ShownInv, Explained, Accepted, Blanked, OrdersOf
  <2> QED
    BY <1>3, <2>1, <2>2 DEF OrderedInv, HiddenInv, RInv, ScreenInv, ScreenFollowsOrders
<1> QED
  BY <1>2, <1>3, OrderedInvariant, PTL

-----------------------------------------------------------------------------
(* The composed system implements the Ledger: a step moves units of one    *)
(* item between two accounts, or moves nothing, or spoils the books of the *)
(* items that the history of Rental names.                                 *)

(* A chain of deleteItemFromBasket returns the units to the item its line  *)
(* was made for.                                                           *)
ReturnInv ==
    \A c \in Calls : pc[c] \in DeleteSteps => line[req[c].line].item = req[c].item

(* A chain that sends updates sends one, to a line of its own item, unless *)
(* the books of all items involved are spoiled.                            *)
UpdatesInv ==
    \A c \in Calls : pc[c] = "updateLines" =>
        \/ \E t \in todo[c] : todo[c] = {t} /\ line[t.line].item = req[c].item
        \/ /\ req[c].item \in spoiled
           /\ \A t \in todo[c] : line[t.line].item \in spoiled

LInv == RInv /\ ReturnInv /\ UpdatesInv

-----------------------------------------------------------------------------
(* What is on each kind of account, before and after a step.               *)
LEMMA UnitsOn ==
    ASSUME NEW i \in Items
    PROVE  /\ UnitsAt(i, <<"shelf">>) = stock[i]
           /\ \A l \in Lines : UnitsAt(i, <<"line", l>>) = OnLine(i, l)
           /\ \A c \in Calls : UnitsAt(i, <<"call", c>>) = OnCall(i, c)
           /\ UnitsAt(i, <<"shelf">>)' = stock'[i]
           /\ \A l \in Lines : UnitsAt(i, <<"line", l>>)' = OnLine(i, l)'
           /\ \A c \in Calls : UnitsAt(i, <<"call", c>>)' = OnCall(i, c)'
  BY DEF UnitsAt

(* An account is the shelf, a line or a call.                              *)
LEMMA AccountCases ==
    ASSUME NEW a \in Accounts
    PROVE  \/ a = <<"shelf">>
           \/ \E l \in Lines : a = <<"line", l>>
           \/ \E c \in Calls : a = <<"call", c>>
  BY DEF Accounts

(* After a step every account holds a whole number of units.               *)
LEMMA UnitsTypeNext ==
    ASSUME RInv'
    PROVE  units' \in [Items -> [Accounts -> Int]]
<1> USE DEF RInv, RentalTypeOK, TypeOK, DocumentsType, HistoryType
<1>1. \A i \in Items : stock'[i] \in Int
  OBVIOUS
<1>2. \A i \in Items, l \in Lines : OnLine(i, l)' \in Int
  BY DEF OnLine, LineDoc, born
<1>3. \A c \in DOMAIN req' : Held(c)' \in Int
  BY MaxCountAssumption DEF Held, Request
<1>4. \A i \in Items, c \in Calls : OnCall(i, c)' \in Int
  BY <1>3 DEF OnCall
<1> HIDE DEF RInv, RentalTypeOK, TypeOK, DocumentsType, HistoryType
<1>5. \A i \in Items, a \in Accounts : UnitsAt(i, a)' \in Int
  BY <1>1, <1>2, <1>4, UnitsOn, AccountCases
<1> QED
  BY <1>5 DEF units

(* An item none of whose accounts changes.                                 *)
LEMMA SameUnits ==
    ASSUME NEW i \in Items, stock'[i] = stock[i],
           \A l \in Lines : OnLine(i, l)' = OnLine(i, l),
           \A c \in Calls : OnCall(i, c)' = OnCall(i, c)
    PROVE  units'[i] = units[i]
<1>1. \A a \in Accounts : UnitsAt(i, a)' = UnitsAt(i, a)
  BY UnitsOn, AccountCases
<1> QED
  BY <1>1 DEF units

(* If no item's units change, nothing moves.                               *)
LEMMA NothingMoves ==
    ASSUME \A i \in Items : units'[i] = units[i]
    PROVE  units' = units
  BY DEF units

(* The three kinds of steps that the Ledger allows: no move at all ...     *)
LEMMA LedgerStutter ==
    ASSUME \A i \in Items : units'[i] = units[i], spoiled' = spoiled
    PROVE  [L!Next]_(L!ledgerVars)
  BY NothingMoves DEF L!ledgerVars

(* ... a step that spoils the books of some items ...                      *)
LEMMA LedgerSpoil ==
    ASSUME RInv', NEW S \in SUBSET Items, S # {}, spoiled' = spoiled \cup S,
           \A i \in Items \ spoiled' : units'[i] = units[i]
    PROVE  L!Next
<1>1. L!Spoil(S)
  BY UnitsTypeNext DEF L!Spoil
<1> QED
  BY <1>1 DEF L!Next

(* ... and a step that moves n units of item i from account a to b.        *)
LEMMA LedgerTransfer ==
    ASSUME NEW i \in Items, NEW a \in Accounts, NEW b \in Accounts, a # b,
           spoiled' = spoiled,
           \A j \in Items \ {i} : units'[j] = units[j],
           \A x \in Accounts \ {a, b} : UnitsAt(i, x)' = UnitsAt(i, x),
           NEW n \in Int, UnitsAt(i, a) \in Int, UnitsAt(i, b) \in Int,
           UnitsAt(i, a)' = UnitsAt(i, a) - n, UnitsAt(i, b)' = UnitsAt(i, b) + n
    PROVE  L!Next
<1> DEFINE f == [units[i] EXCEPT ![a] = @ - n, ![b] = @ + n]
<1>1. /\ units[i] = [x \in Accounts |-> UnitsAt(i, x)]
      /\ units'[i] = [x \in Accounts |-> UnitsAt(i, x)']
  BY DEF units
<1>2. units'[i] = f
  BY <1>1
<1>3. units'[i][b] - units[i][b] = n
  BY <1>1
<1>4. units' = [units EXCEPT ![i] = f]
  <2>1. \A j \in Items : units'[j] = IF j = i THEN f ELSE units[j]
    BY <1>2
  <2>2. /\ DOMAIN units = Items /\ DOMAIN units' = Items
        /\ units' = [j \in Items |-> units'[j]]
    BY DEF units
  <2> HIDE DEF f
  <2> QED
    BY <2>1, <2>2
<1>5. L!Transfer(i, a, b)
  BY <1>3, <1>4 DEF L!Transfer
<1> QED
  BY <1>5 DEF L!Next
-----------------------------------------------------------------------------
(* What the functions' and the devices' steps leave alone.                 *)

(* A call's step changes nothing for the other calls and other items, and  *)
(* nothing at all if it holds as many units after the step as before.      *)
LEMMA OtherCalls ==
    ASSUME NEW c \in Calls, req' = req,
           \A d \in Calls \ {c} : pc'[d] = pc[d] /\ got'[d] = got[d],
           NEW i, NEW d \in Calls, d # c \/ req[c].item # i \/ Held(c)' = Held(c)
    PROVE  OnCall(i, d)' = OnCall(i, d)
  BY DEF OnCall, Held

(* The units that a call holds while it waits for each operation.          *)
LEMMA HeldCases ==
    ASSUME NEW c \in Calls
    PROVE  /\ pc[c] \in {"queryBasket", "setLine", "updateLines"} => Held(c) = req[c].count
           /\ pc[c] \in {"regetItem", "restoreItem"} => Held(c) = got[c]
           /\ pc[c] \in {"idle", "getItem", "updateItem", "getLine", "deleteLine"} \cup Ends
                => Held(c) = 0
           /\ pc'[c] \in {"queryBasket", "setLine", "updateLines"}
                => Held(c)' = req'[c].count
           /\ pc'[c] \in {"regetItem", "restoreItem"} => Held(c)' = got'[c]
           /\ pc'[c] \in {"idle", "getItem", "updateItem", "getLine", "deleteLine"} \cup Ends
                => Held(c)' = 0
  BY DEF Held, Ends

(* A line keeps its units while nobody touches it.                         *)
LEMMA SameLine ==
    ASSUME NEW l, l \in born' <=> l \in born, line'[l] = line[l],
           l \in live' <=> l \in live, sold' = sold
    PROVE  \A i : OnLine(i, l)' = OnLine(i, l)
  BY DEF OnLine

(* A running call has a request for an item, with a count.                 *)
LEMMA RequestOf ==
    ASSUME RInv, NEW c \in Calls, InFlight(c)
    PROVE  /\ c \in DOMAIN req /\ req[c] \in Request
           /\ req[c].item \in Items /\ req[c].count \in Int
           /\ <<"call", c>> \in Accounts /\ <<"shelf">> \in Accounts
<1>1. c \in DOMAIN req /\ req[c] \in Request
  BY DEF RInv, RentalTypeOK, TypeOK, InFlight, AddSteps, DeleteSteps
<1> QED
  BY <1>1, MaxCountAssumption DEF Request, Accounts

(* End empties the hands of the call and touches no other call.            *)
LEMMA EndHolds ==
    ASSUME RInv, NEW c \in Calls, NEW how \in Ends, End(c, how)
    PROVE  /\ Held(c)' = 0
           /\ \A d \in Calls \ {c} : pc'[d] = pc[d] /\ got'[d] = got[d]
<1>1. pc'[c] = how
  BY DEF End, RInv, RentalTypeOK, TypeOK
<1> QED
  BY <1>1, HeldCases DEF End, RInv, RentalTypeOK, TypeOK

-----------------------------------------------------------------------------
(* The steps of the functions, one by one.                                 *)

(* Reading, refusing and reading again move nothing.                       *)
LEMMA ReadsMoveNothing ==
    ASSUME RInv, NEW c \in Calls,
           GetItem(c) \/ Refuse(c) \/ GetLine(c) \/ RegetItem(c),
           UNCHANGED <<spoiled, sold>>
    PROVE  [L!Next]_(L!ledgerVars)
<1>1. UNCHANGED <<stock, line, live, req>>
  BY DEF GetItem, Refuse, GetLine, RegetItem
<1>2. /\ Held(c)' = Held(c)
      /\ \A d \in Calls \ {c} : pc'[d] = pc[d] /\ got'[d] = got[d]
  <2> USE DEF RInv, RentalTypeOK, TypeOK
  <2>1. CASE GetItem(c)
    <3>1. pc[c] = "getItem" /\ pc'[c] = "updateItem"
      BY <2>1 DEF GetItem
    <3> QED
      BY <2>1, <3>1, HeldCases DEF GetItem
  <2>2. CASE Refuse(c)
    <3>1. pc[c] = "getItem" /\ End(c, "refused")
      BY <2>2 DEF Refuse
    <3> QED
      BY <3>1, HeldCases, EndHolds DEF Ends
  <2>3. CASE GetLine(c) /\ req[c].line \in live
    <3>1. pc[c] = "getLine" /\ pc'[c] = "deleteLine"
      BY <2>3 DEF GetLine
    <3> QED
      BY <2>3, <3>1, HeldCases DEF GetLine
  <2>4. CASE GetLine(c) /\ req[c].line \notin live
    <3>1. pc[c] = "getLine" /\ End(c, "failed")
      BY <2>4 DEF GetLine
    <3> QED
      BY <3>1, HeldCases, EndHolds DEF Ends
  <2>5. CASE RegetItem(c)
    <3>1. pc[c] = "regetItem" /\ pc'[c] = "restoreItem" /\ got' = got
      BY <2>5 DEF RegetItem
    <3> QED
      BY <2>5, <3>1, HeldCases DEF RegetItem
  <2> QED
    BY <2>1, <2>2, <2>3, <2>4, <2>5
<1>3. \A i \in Items : units'[i] = units[i]
  BY <1>1, <1>2, OtherCalls, SameLine, SameUnits DEF born
<1> QED
  BY <1>3, LedgerStutter

(* set() of a new line puts down there what the call held.                 *)
LEMMA SetLineMoves ==
    ASSUME RInv, NEW c \in Calls, NEW l \in Lines, SetLine(c, l),
           UNCHANGED <<spoiled, sold>>
    PROVE  L!Next
<1>0. pc[c] = "setLine" /\ InFlight(c)
  BY DEF SetLine, InFlight, AddSteps
<1> PICK i \in Items, n \in Int : i = req[c].item /\ n = req[c].count
  BY <1>0, RequestOf
<1>1. /\ pc[c] = "setLine" /\ End(c, "done") /\ l \notin born
      /\ UNCHANGED <<stock, req>>
      /\ line' = Put(line, l, [owner |-> req[c].user, item |-> i, count |-> n])
      /\ live' = live \cup {l}
  BY DEF SetLine
<1>2. /\ <<"call", c>> \in Accounts /\ <<"line", l>> \in Accounts
      /\ <<"call", c>> # <<"line", l>>
      /\ c \in DOMAIN req
  BY <1>0, RequestOf DEF Accounts
<1>3. Held(c) = n /\ Held(c)' = 0
  BY <1>1, HeldCases, EndHolds DEF Ends
<1>4. OnCall(i, c) = n /\ OnCall(i, c)' = 0
  BY <1>1, <1>2, <1>3 DEF OnCall
<1>5. \A j, d : d \in Calls /\ (d # c \/ j # i) => OnCall(j, d)' = OnCall(j, d)
  BY <1>1, EndHolds, OtherCalls DEF Ends
<1>6. l \notin DOMAIN sold /\ l \notin live
  BY <1>1 DEF RInv, RentalTypeOK, HistoryType, TypeOK, DocumentsType
<1>7. /\ l \in born' /\ line'[l].item = i /\ line'[l].count = n /\ l \in live'
      /\ \A k \in born : k \in born' /\ line'[k] = line[k]
      /\ \A k : k # l => (k \in born' <=> k \in born) /\ (k \in live' <=> k \in live)
  BY <1>1 DEF Put, born
<1>8. OnLine(i, l) = 0 /\ OnLine(i, l)' = n
  BY <1>1, <1>6, <1>7 DEF OnLine
<1>9. \A j : j # i => OnLine(j, l)' = OnLine(j, l)
  BY <1>1, <1>7 DEF OnLine
<1>10. \A j : \A k : k # l => OnLine(j, k)' = OnLine(j, k)
  BY <1>7 DEF OnLine
<1>11. \A j \in Items \ {i} : units'[j] = units[j]
  BY <1>1, <1>5, <1>9, <1>10, SameUnits
<1>12. \A x \in Accounts \ {<<"call", c>>, <<"line", l>>} :
          UnitsAt(i, x)' = UnitsAt(i, x)
  BY <1>1, <1>2, <1>5, <1>10, AccountCases, UnitsOn
<1>13. /\ UnitsAt(i, <<"call", c>>) = n /\ UnitsAt(i, <<"call", c>>)' = 0
       /\ UnitsAt(i, <<"line", l>>) = 0 /\ UnitsAt(i, <<"line", l>>)' = n
  BY <1>2, <1>4, <1>8, UnitsOn
<1> QED
  BY <1>2, <1>11, <1>12, <1>13, LedgerTransfer

(* A write of an item's count: from the shelf into the hands of the call,  *)
(* or back, if the count written is the right one.                         *)
LEMMA ShelfAndCall ==
    ASSUME RInv, RInv', NEW c \in Calls, InFlight(c),
           \A j \in Items : j # req[c].item => stock'[j] = stock[j],
           UNCHANGED <<line, live, req, sold>>,
           \A d \in Calls \ {c} : pc'[d] = pc[d] /\ got'[d] = got[d],
           Held(c) \in Int, Held(c)' \in Int,
           \/ /\ stock'[req[c].item] + Held(c)' = stock[req[c].item] + Held(c)
              /\ spoiled' = spoiled
           \/ spoiled' = spoiled \cup {req[c].item}
    PROVE  L!Next
<1> PICK i \in Items : i = req[c].item
  BY RequestOf
<1> PICK m \in Int, n \in Int : m = Held(c) /\ n = Held(c)'
  OBVIOUS
<1>1. stock[i] \in Int /\ stock'[i] \in Int
  BY DEF RInv, RentalTypeOK, TypeOK, DocumentsType
<1>2. /\ <<"call", c>> \in Accounts /\ <<"shelf">> \in Accounts
      /\ <<"call", c>> # <<"shelf">>
      /\ c \in DOMAIN req
  BY RequestOf
<1>3. OnCall(i, c) = m /\ OnCall(i, c)' = n
  BY <1>2 DEF OnCall
<1>4. \A j, d : d \in Calls /\ (d # c \/ j # i) => OnCall(j, d)' = OnCall(j, d)
  BY OtherCalls
<1>5. \A j, l : OnLine(j, l)' = OnLine(j, l)
  BY SameLine DEF born
<1>6. \A j \in Items \ {i} : units'[j] = units[j]
  BY <1>4, <1>5, SameUnits
<1>7. \A x \in Accounts \ {<<"shelf">>, <<"call", c>>} :
          UnitsAt(i, x)' = UnitsAt(i, x)
  BY <1>4, <1>5, AccountCases, UnitsOn
<1>8. /\ UnitsAt(i, <<"call", c>>) = m /\ UnitsAt(i, <<"call", c>>)' = n
      /\ UnitsAt(i, <<"shelf">>) = stock[i] /\ UnitsAt(i, <<"shelf">>)' = stock'[i]
  BY <1>3, UnitsOn
<1>9. ASSUME stock'[i] + n = stock[i] + m, spoiled' = spoiled PROVE L!Next
  <2>1. PICK d \in Int : d = n - m
    OBVIOUS
  <2>2. stock'[i] = stock[i] - d /\ n = m + d
    BY <1>1, <1>9, <2>1
  <2> QED
    BY <1>1, <1>2, <1>6, <1>7, <1>8, <1>9, <2>1, <2>2, LedgerTransfer
<1>10. ASSUME spoiled' = spoiled \cup {i} PROVE L!Next
  <2>1. \A j \in Items \ spoiled' : units'[j] = units[j]
    BY <1>6, <1>10
  <2>2. {i} \in SUBSET Items /\ {i} # {}
    OBVIOUS
  <2> QED
    BY <1>10, <2>1, <2>2, LedgerSpoil
<1>11. \/ stock'[i] + n = stock[i] + m /\ spoiled' = spoiled
       \/ spoiled' = spoiled \cup {i}
  OBVIOUS
<1> QED
  BY <1>9, <1>10, <1>11

(* The blind update of an item's count takes the units off the shelf, or   *)
(* spoils the item's books.                                                *)
LEMMA UpdateItemMoves ==
    ASSUME RInv, RInv', NEW c \in Calls, RentalUpdateItem(c)
    PROVE  L!Next
<1>1. pc[c] = "updateItem" /\ InFlight(c)
  BY DEF RentalUpdateItem, UpdateItem, InFlight, AddSteps
<1>2. /\ next[c] \in Int /\ req[c].count \in Int /\ Held(c) = 0
      /\ stock[req[c].item] \in Int
  BY <1>1, RequestOf, HeldCases DEF RInv, RentalTypeOK, TypeOK, DocumentsType
<1>3. /\ stock'[req[c].item] = next[c]
      /\ \A j \in Items : j # req[c].item => stock'[j] = stock[j]
      /\ UNCHANGED <<line, live, req, sold>>
  BY <1>1, RequestOf
  DEF RentalUpdateItem, UpdateItem, RInv, RentalTypeOK, TypeOK, DocumentsType
<1>4. CASE req[c].user = NoUser
  <2>1. End(c, "failed") /\ spoiled' = spoiled \cup {req[c].item}
    BY <1>4 DEF RentalUpdateItem, UpdateItem, Books
  <2>2. /\ Held(c)' = 0
        /\ \A d \in Calls \ {c} : pc'[d] = pc[d] /\ got'[d] = got[d]
    BY <2>1, EndHolds DEF Ends
  <2> QED
    BY <1>1, <1>2, <1>3, <2>1, <2>2, ShelfAndCall
<1>5. CASE req[c].user # NoUser
  <2>1. pc' = [pc EXCEPT ![c] = "queryBasket"] /\ got' = got
    BY <1>5 DEF RentalUpdateItem, UpdateItem
  <2>2. \A d \in Calls \ {c} : pc'[d] = pc[d] /\ got'[d] = got[d]
    BY <2>1 DEF RInv, RentalTypeOK, TypeOK
  <2>3. Held(c)' = req[c].count
    BY <1>3, <2>1, HeldCases DEF RInv, RentalTypeOK, TypeOK
  <2>4. \/ stock[req[c].item] = next[c] + req[c].count /\ spoiled' = spoiled
        \/ spoiled' = spoiled \cup {req[c].item}
    BY <1>5 DEF RentalUpdateItem, Books
  <2>5. \/ /\ stock'[req[c].item] + Held(c)' = stock[req[c].item] + Held(c)
           /\ spoiled' = spoiled
        \/ spoiled' = spoiled \cup {req[c].item}
    BY <1>2, <1>3, <2>3, <2>4
  <2> QED
    BY <1>1, <1>2, <1>3, <2>2, <2>3, <2>5, ShelfAndCall
<1> QED
  BY <1>4, <1>5

(* The last step of deleteItemFromBasket puts the units on the shelf, or   *)
(* spoils the item's books.                                                *)
LEMMA RestoreItemMoves ==
    ASSUME RInv, RInv', NEW c \in Calls, RentalRestoreItem(c)
    PROVE  L!Next
<1>1. pc[c] = "restoreItem" /\ InFlight(c) /\ End(c, "done")
  BY DEF RentalRestoreItem, RestoreItem, InFlight, DeleteSteps
<1>2. /\ next[c] \in Int /\ got[c] \in Int /\ Held(c) = got[c]
      /\ stock[req[c].item] \in Int
  BY <1>1, RequestOf, HeldCases DEF RInv, RentalTypeOK, TypeOK, DocumentsType
<1>3. /\ stock'[req[c].item] = next[c]
      /\ \A j \in Items : j # req[c].item => stock'[j] = stock[j]
      /\ UNCHANGED <<line, live, req, sold>>
  BY <1>1, RequestOf
  DEF RentalRestoreItem, RestoreItem, RInv, RentalTypeOK, TypeOK, DocumentsType
<1>4. /\ Held(c)' = 0
      /\ \A d \in Calls \ {c} : pc'[d] = pc[d] /\ got'[d] = got[d]
  BY <1>1, EndHolds DEF Ends
<1>5. \/ stock[req[c].item] + got[c] = next[c] /\ spoiled' = spoiled
      \/ spoiled' = spoiled \cup {req[c].item}
  BY DEF RentalRestoreItem, Books
<1>6. \/ /\ stock'[req[c].item] + Held(c)' = stock[req[c].item] + Held(c)
         /\ spoiled' = spoiled
      \/ spoiled' = spoiled \cup {req[c].item}
  BY <1>2, <1>3, <1>4, <1>5
<1> QED
  BY <1>1, <1>2, <1>3, <1>4, <1>6, ShelfAndCall

(* A chain that ends early loses what it holds.                            *)
LEMMA AbandonMoves ==
    ASSUME RInv, RInv', NEW c \in Calls, RentalAbandon(c)
    PROVE  [L!Next]_(L!ledgerVars)
<1>1. InFlight(c) /\ End(c, "abandoned") /\ UNCHANGED <<stock, line, live, req, sold>>
  BY DEF RentalAbandon, Abandon
<1> PICK i \in Items : i = req[c].item
  BY <1>1, RequestOf
<1>2. /\ Held(c)' = 0
      /\ \A d \in Calls \ {c} : pc'[d] = pc[d] /\ got'[d] = got[d]
  BY <1>1, EndHolds DEF Ends
<1>3. \A j, l : OnLine(j, l)' = OnLine(j, l)
  BY <1>1, SameLine DEF born
<1>4. CASE Held(c) = 0
  <2>1. spoiled' = spoiled
    BY <1>4 DEF RentalAbandon, Books
  <2>2. \A j \in Items : units'[j] = units[j]
    BY <1>1, <1>2, <1>3, <1>4, OtherCalls, SameUnits
  <2> QED
    BY <2>1, <2>2, LedgerStutter
<1>5. CASE Held(c) # 0
  <2>1. spoiled' = spoiled \cup {i}
    BY <1>5 DEF RentalAbandon, Books
  <2>2. \A j \in Items \ {i} : units'[j] = units[j]
    BY <1>1, <1>2, <1>3, OtherCalls, SameUnits
  <2> QED
    BY <2>1, <2>2, LedgerSpoil
<1> QED
  BY <1>4, <1>5

(* A query moves nothing, but several lines of one name, or a line of      *)
(* another item, spoil the books: each line will be given all the units.   *)
LEMMA QueryBasketMoves ==
    ASSUME RInv, RInv', NEW c \in Calls, RentalQueryBasket(c)
    PROVE  [L!Next]_(L!ledgerVars)
<1> DEFINE exact == /\ \A l \in Matching(c) : line[l].item = req[c].item
                    /\ \A k, l \in Matching(c) : k = l
           S == {req[c].item} \cup {line[l].item : l \in Matching(c)}
<1>1. /\ pc[c] = "queryBasket" /\ InFlight(c) /\ Held(c) = req[c].count
      /\ UNCHANGED <<stock, line, live, req, got, sold>>
      /\ pc' = [pc EXCEPT ![c] = IF Matching(c) = {} THEN "setLine" ELSE "updateLines"]
  BY HeldCases DEF RentalQueryBasket, QueryBasket, InFlight, AddSteps
<1>2. /\ pc'[c] \in {"setLine", "updateLines"}
      /\ \A d \in Calls \ {c} : pc'[d] = pc[d] /\ got'[d] = got[d]
  BY <1>1 DEF RInv, RentalTypeOK, TypeOK
<1>3. Held(c)' = Held(c)
  BY <1>1, <1>2, HeldCases
<1>4. \A j \in Items : units'[j] = units[j]
  BY <1>1, <1>2, <1>3, OtherCalls, SameLine, SameUnits DEF born
<1>5. spoiled' = spoiled \/ spoiled' = spoiled \cup S
  BY DEF RentalQueryBasket, Books
<1>6. S \in SUBSET Items /\ S # {}
  <2>1. \A l \in Matching(c) : line[l].item \in Items
    BY DEF Matching, Basket, RInv, RentalTypeOK, TypeOK, DocumentsType, LineDoc
  <2> QED
    BY <1>1, <2>1, RequestOf
<1> HIDE DEF S
<1>7. CASE spoiled' = spoiled
  BY <1>4, <1>7, LedgerStutter
<1>8. CASE spoiled' = spoiled \cup S
  BY <1>4, <1>6, <1>8, LedgerSpoil
<1> QED
  BY <1>5, <1>7, <1>8

(* Units go from the hands of a call to a line, or back.                   *)
LEMMA LineAndCall ==
    ASSUME RInv, RInv', NEW c \in Calls, InFlight(c), NEW l \in Lines,
           UNCHANGED <<stock, req, sold, spoiled>>,
           \A k \in Lines \ {l} : \A j : OnLine(j, k)' = OnLine(j, k),
           \A j : j # req[c].item => OnLine(j, l)' = OnLine(j, l),
           \A d \in Calls \ {c} : pc'[d] = pc[d] /\ got'[d] = got[d],
           NEW n \in Int, Held(c) \in Int, OnLine(req[c].item, l) \in Int,
           Held(c)' = Held(c) - n,
           OnLine(req[c].item, l)' = OnLine(req[c].item, l) + n
    PROVE  L!Next
<1> PICK i \in Items : i = req[c].item /\ i = req'[c].item
  BY RequestOf
<1>1. /\ <<"call", c>> \in Accounts /\ <<"line", l>> \in Accounts
      /\ <<"call", c>> # <<"line", l>>
      /\ c \in DOMAIN req
  BY RequestOf DEF Accounts
<1>2. OnCall(i, c) = Held(c) /\ OnCall(i, c)' = Held(c)'
  BY <1>1 DEF OnCall
<1>3. \A j, d : d \in Calls /\ (d # c \/ j # i) => OnCall(j, d)' = OnCall(j, d)
  BY OtherCalls
<1>4. \A j \in Items \ {i} : units'[j] = units[j]
  BY <1>3, SameUnits
<1>5. \A x \in Accounts \ {<<"call", c>>, <<"line", l>>} :
          UnitsAt(i, x)' = UnitsAt(i, x)
  BY <1>3, AccountCases, UnitsOn
<1>6. OnLine(i, l)' = OnLine(i, l) + n /\ OnLine(i, l) \in Int
  OBVIOUS
<1>7. /\ UnitsAt(i, <<"call", c>>) = Held(c)
      /\ UnitsAt(i, <<"call", c>>)' = Held(c) - n
      /\ UnitsAt(i, <<"line", l>>) = OnLine(i, l)
      /\ UnitsAt(i, <<"line", l>>)' = OnLine(i, l) + n
  BY <1>2, <1>6, UnitsOn
<1> QED
  BY <1>1, <1>4, <1>5, <1>6, <1>7, LedgerTransfer

(* delete() of a line takes its units back, or spoils the books.           *)
LEMMA DeleteLineMoves ==
    ASSUME LInv, RInv', NEW c \in Calls, RentalDeleteLine(c)
    PROVE  L!Next
<1>0. RInv
  BY DEF LInv
<1>1. /\ pc[c] = "deleteLine" /\ InFlight(c)
      /\ UNCHANGED <<stock, line, req, sold, got>>
      /\ live' = live \ {req[c].line}
      /\ pc' = [pc EXCEPT ![c] = "regetItem"]
  BY DEF RentalDeleteLine, DeleteLine, InFlight, DeleteSteps
<1> PICK l \in Lines, i \in Items, n \in Int :
       l = req[c].line /\ i = req[c].item /\ n = got[c]
  BY <1>0, <1>1, RequestOf DEF RInv, RentalTypeOK, TypeOK, DocumentsType, DeleteSteps
<1>2. l \in born /\ line[l].item = i /\ line'[l].item = i
  BY <1>0, <1>1 DEF RInv, RentalTypeOK, TypeOK, DeleteSteps, LInv, ReturnInv
<1>3. /\ Held(c) = 0 /\ Held(c)' = n
      /\ \A d \in Calls \ {c} : pc'[d] = pc[d] /\ got'[d] = got[d]
  BY <1>0, <1>1, HeldCases DEF RInv, RentalTypeOK, TypeOK
<1>4. \A k \in Lines \ {l} : \A j : OnLine(j, k)' = OnLine(j, k)
  BY <1>1, SameLine DEF born
<1>5. \A j : j # i => OnLine(j, l)' = OnLine(j, l)
  BY <1>1, <1>2 DEF OnLine, born
<1>6. CASE Intact(l, n)
  <2>1. spoiled' = spoiled
    BY <1>6 DEF RentalDeleteLine, Books
  <2>2. l \in live /\ line[l].count = n /\ l \notin DOMAIN sold /\ l \notin live'
    BY <1>1, <1>6 DEF Intact
  <2>3. OnLine(i, l) = n /\ OnLine(i, l)' = 0
    BY <1>1, <1>2, <2>2 DEF OnLine
  <2>4. PICK m \in Int : m = 0 - n
    OBVIOUS
  <2>5. /\ Held(c) \in Int /\ OnLine(req[c].item, l) \in Int
        /\ Held(c)' = Held(c) - m
        /\ OnLine(req[c].item, l)' = OnLine(req[c].item, l) + m
    BY <1>1, <1>3, <2>3, <2>4
  <2>6. \A j : j # req[c].item => OnLine(j, l)' = OnLine(j, l)
    BY <1>5
  <2> QED
    BY <1>0, <1>1, <1>3, <1>4, <2>1, <2>5, <2>6, LineAndCall
<1>7. CASE ~Intact(l, n)
  <2>1. spoiled' = spoiled \cup {i}
    BY <1>7 DEF RentalDeleteLine, Books
  <2>2. \A j \in Items \ {i} : units'[j] = units[j]
    BY <1>1, <1>3, <1>4, <1>5, OtherCalls, SameUnits
  <2> QED
    BY <2>1, <2>2, LedgerSpoil
<1> QED
  BY <1>6, <1>7

(* update() of a line puts down there what the call held, or spoils the    *)
(* books of the line's item and the call's.                                *)
LEMMA UpdateLineMoves ==
    ASSUME LInv, RInv', NEW c \in Calls, NEW t \in todo[c], RentalUpdateLine(c, t)
    PROVE  L!Next
<1>0. RInv /\ TypeOK
  BY DEF LInv, RInv, RentalTypeOK
<1>1. /\ pc[c] = "updateLines" /\ InFlight(c)
      /\ UNCHANGED <<stock, live, req, sold>>
      /\ UpdateLine(c, t)
  BY DEF RentalUpdateLine, UpdateLine, InFlight, AddSteps
<1> PICK l \in Lines, i \in Items, n \in Int, h \in Items, m \in Int :
       /\ l = t.line /\ i = req[c].item /\ n = req[c].count
       /\ h = line[l].item /\ m = t.count
  <2>1. t \in Update /\ t.line \in born
    BY <1>0 DEF TypeOK
  <2> QED
    BY <1>0, <1>1, <2>1, RequestOf DEF Update, TypeOK, DocumentsType, LineDoc
<1>2. /\ born' = born /\ l \in born
      /\ \A k \in born : line'[k].item = line[k].item
      /\ \A k \in born \ {l} : line'[k] = line[k]
      /\ l \in live => line'[l].count = m
      /\ l \notin live => line' = line
  <2>1. l \in born /\ live \subseteq born
    BY <1>0 DEF TypeOK, DocumentsType
  <2>2. \A k \in born : line[k] \in LineDoc
    BY <1>0 DEF TypeOK, DocumentsType
  <2>3. CASE l \in live
    <3> DEFINE doc == [line[l] EXCEPT !.count = m]
    <3>1. doc.item = line[l].item /\ doc.count = m
      BY <2>1, <2>2 DEF LineDoc
    <3>2. line' = [line EXCEPT ![l] = doc]
      BY <1>1, <2>3 DEF UpdateLine
    <3> HIDE DEF doc
    <3> QED
      BY <2>1, <2>3, <3>1, <3>2 DEF born
  <2>4. CASE l \notin live
    BY <1>1, <2>1, <2>4 DEF UpdateLine, born
  <2> QED
    BY <2>3, <2>4
<1>3. \A k \in Lines \ {l} : \A j : OnLine(j, k)' = OnLine(j, k)
  BY <1>1, <1>2 DEF OnLine
<1>4. \A j : j # h => OnLine(j, l)' = OnLine(j, l)
  BY <1>1, <1>2 DEF OnLine
<1>5. \A d \in Calls \ {c} : pc'[d] = pc[d] /\ got'[d] = got[d]
  BY <1>0, <1>1 DEF UpdateLine, End, TypeOK
<1>6. CASE spoiled' = spoiled \cup {i, h}
  <2>1. \A j \in Items \ {i, h} : units'[j] = units[j]
    BY <1>1, <1>3, <1>4, <1>5, OtherCalls, SameUnits
  <2>2. \A j \in Items \ spoiled' : units'[j] = units[j]
    BY <1>6, <2>1
  <2>3. {i, h} \in SUBSET Items /\ {i, h} # {}
    OBVIOUS
  <2> QED
    BY <1>0, <1>6, <2>2, <2>3, LedgerSpoil
<1>7. CASE Intact(l, m - n) /\ spoiled' = spoiled /\ spoiled # spoiled \cup {i, h}
  <2>1. todo[c] = {t} /\ h = i
    BY <1>1, <1>7 DEF LInv, UpdatesInv
  <2>2. End(c, "done")
    BY <1>1, <2>1 DEF UpdateLine
  <2>3. Held(c) = n /\ Held(c)' = 0
    BY <1>0, <1>1, <2>2, HeldCases, EndHolds DEF Ends
  <2>4. l \in live /\ l \in live' /\ line[l].count = m - n /\ l \notin DOMAIN sold
    BY <1>1, <1>7 DEF Intact
  <2>5. OnLine(i, l) = m - n /\ OnLine(i, l)' = m
    BY <1>1, <1>2, <2>1, <2>4 DEF OnLine
  <2>6. /\ Held(c) \in Int /\ OnLine(req[c].item, l) \in Int
        /\ Held(c)' = Held(c) - n
        /\ OnLine(req[c].item, l)' = OnLine(req[c].item, l) + n
    BY <1>1, <2>3, <2>5
  <2>7. \A j : j # req[c].item => OnLine(j, l)' = OnLine(j, l)
    BY <1>4, <2>1
  <2> QED
    BY <1>0, <1>1, <1>3, <1>5, <1>7, <2>6, <2>7, LineAndCall
<1>8. \/ Intact(l, m - n) /\ spoiled' = spoiled
      \/ spoiled' = spoiled \cup {i, h}
  BY DEF RentalUpdateLine, Books
<1> QED
  BY <1>6, <1>7, <1>8

-----------------------------------------------------------------------------
(* The steps of the users, the devices and the server.                     *)

(* A call that has only been made holds nothing.                           *)
LEMMA NewCallsMoveNothing ==
    ASSUME RInv, NEW c \in Calls, pc[c] = "idle", UNCHANGED <<stock, line, live, got>>,
           req' = Put(req, c, req'[c]), UNCHANGED <<sold, spoiled>>,
           pc' = [pc EXCEPT ![c] = pc'[c]], pc'[c] \in {"getItem", "getLine", "failed"}
    PROVE  [L!Next]_(L!ledgerVars)
<1>1. /\ c \notin DOMAIN req /\ c \in DOMAIN req'
      /\ \A d \in Calls \ {c} : /\ d \in DOMAIN req' <=> d \in DOMAIN req
                                /\ req'[d] = req[d] \/ d \notin DOMAIN req
                                /\ pc'[d] = pc[d]
  BY DEF RInv, RentalTypeOK, TypeOK, Put
<1>2. Held(c)' = 0
  BY HeldCases DEF Ends
<1>3. \A i, d : d \in Calls => OnCall(i, d)' = OnCall(i, d)
  BY <1>1, <1>2 DEF OnCall, Held
<1>4. \A i \in Items : units'[i] = units[i]
  BY <1>3, SameLine, SameUnits DEF born
<1> QED
  BY <1>4, LedgerStutter

(* A step that touches neither documents nor calls moves nothing.          *)
LEMMA OthersMoveNothing ==
    ASSUME UNCHANGED <<stock, line, live, pc, req, got, sold, spoiled>>
    PROVE  [L!Next]_(L!ledgerVars)
<1>1. \A i, c : OnCall(i, c)' = OnCall(i, c)
  BY DEF OnCall, Held
<1>2. \A i \in Items : units'[i] = units[i]
  BY <1>1, SameLine, SameUnits DEF born
<1> QED
  BY <1>2, LedgerStutter

(* An accepted order freezes the units of its lines as they are, or spoils *)
(* the books of the lines that have changed or gone.                       *)
LEMMA CommitOrderMoves ==
    ASSUME RInv, RInv', NEW o \in DOMAIN orders, RentalCommitOrder(o)
    PROVE  [L!Next]_(L!ledgerVars)
<1> DEFINE es == orders[o].entries
           wrong == {e \in es : ~Intact(e.line, e.count)}
           S == {e.item : e \in wrong}
<1>1. /\ UNCHANGED <<stock, line, live, pc, req, got>>
      /\ spoiled' = IF wrong = {} THEN spoiled ELSE spoiled \cup S
      /\ sold' = [l \in DOMAIN sold \cup LinesOf(es) |->
                    IF l \in DOMAIN sold THEN sold[l]
                    ELSE (CHOOSE e \in es : e.line = l).count]
  BY DEF RentalCommitOrder, CommitOrder, AnswerOrder, locals, Books
<1>2. es \subseteq Entry /\ \A e \in es : OwnEntry(orders[o].user, e)
  <2>1. orders[o] \in OrderDoc
    BY DEF RInv, RentalTypeOK, DeviceType
  <2> QED
    BY <2>1 DEF RInv, OrderDoc, OrdersInv
<1>3. S \in SUBSET Items /\ (wrong # {} => S # {})
  BY <1>2 DEF Entry
<1>4. ASSUME NEW i \in Items \ S, NEW l \in Lines PROVE OnLine(i, l)' = OnLine(i, l)
  <2>1. CASE l \in DOMAIN sold \/ l \notin LinesOf(es)
    BY <1>1, <2>1 DEF OnLine, born
  <2>2. CASE l \notin DOMAIN sold /\ l \in LinesOf(es)
    <3> DEFINE e == CHOOSE x \in es : x.line = l
    <3>1. e \in es /\ e.line = l
      BY <2>2 DEF LinesOf
    <3>2. l \in DOMAIN sold' /\ sold'[l] = e.count
      BY <1>1, <2>2
    <3> HIDE DEF e, es
    <3>3. l \in born /\ line[l].item = e.item
      BY <1>2, <3>1 DEF OwnEntry
    <3>4. CASE e \in wrong
      <4>1. e.item \in S
        BY <3>4
      <4>2. line[l].item # i
        BY <3>3, <4>1
      <4> QED
        BY <1>1, <3>3, <4>2 DEF OnLine, born
    <3>5. CASE e \notin wrong
      <4>1. l \in live /\ line[l].count = e.count
        BY <3>1, <3>5 DEF Intact
      <4> QED
        BY <1>1, <2>2, <3>2, <3>3, <4>1 DEF OnLine, born
    <3> QED
      BY <3>4, <3>5
  <2> QED
    BY <2>1, <2>2
<1>5. \A i, c : OnCall(i, c)' = OnCall(i, c)
  BY <1>1 DEF OnCall, Held
<1> HIDE DEF es, wrong, S
<1>6. \A i \in Items \ S : units'[i] = units[i]
  BY <1>1, <1>4, <1>5, SameUnits
<1>7. CASE wrong = {}
  <2>1. S = {}
    BY <1>7 DEF S
  <2> QED
    BY <1>1, <1>6, <1>7, <2>1, LedgerStutter
<1>8. CASE wrong # {}
  <2>1. \A i \in Items \ spoiled' : units'[i] = units[i]
    BY <1>1, <1>6, <1>8
  <2> QED
    BY <1>1, <1>3, <1>8, <2>1, LedgerSpoil
<1> QED
  BY <1>7, <1>8

(* The server's delete takes away an ordered line, whose units are frozen, *)
(* or loses the units of one that no order took.                           *)
LEMMA CommitDeleteMoves ==
    ASSUME RInv, RInv', NEW o \in DOMAIN orders, NEW l \in orders[o].deletes,
           RentalCommitDelete(o, l)
    PROVE  [L!Next]_(L!ledgerVars)
<1>1. /\ UNCHANGED <<stock, line, pc, req, got, sold>>
      /\ live' = live \ {l}
  BY DEF RentalCommitDelete, CommitDelete, AnswerDelete, locals
<1>2. l \in born /\ line[l].item \in Items
  <2>1. l \in born
    BY EntriesBorn DEF RInv, OrdersInv
  <2> QED
    BY <2>1 DEF RInv, RentalTypeOK, TypeOK, DocumentsType, LineDoc
<1> PICK h \in Items : h = line[l].item
  BY <1>2
<1>3. \A i, c : OnCall(i, c)' = OnCall(i, c)
  BY <1>1 DEF OnCall, Held
<1>4. \A k \in Lines \ {l} : \A j : OnLine(j, k)' = OnLine(j, k)
  BY <1>1, SameLine DEF born
<1>5. CASE l \in DOMAIN sold \/ l \notin live
  <2>1. spoiled' = spoiled
    BY <1>5 DEF RentalCommitDelete, Books
  <2>2. \A j : OnLine(j, l)' = OnLine(j, l)
    BY <1>1, <1>5 DEF OnLine, born
  <2>3. \A i \in Items : units'[i] = units[i]
    BY <1>1, <1>3, <1>4, <2>2, SameUnits
  <2> QED
    BY <2>1, <2>3, LedgerStutter
<1>6. CASE ~(l \in DOMAIN sold \/ l \notin live)
  <2>1. spoiled' = spoiled \cup {h}
    BY <1>6 DEF RentalCommitDelete, Books
  <2>2. \A j : j # h => OnLine(j, l)' = OnLine(j, l)
    BY <1>1, <1>2 DEF OnLine, born
  <2>3. \A i \in Items \ {h} : units'[i] = units[i]
    BY <1>1, <1>3, <1>4, <2>2, SameUnits
  <2> QED
    BY <2>1, <2>3, LedgerSpoil
<1> QED
  BY <1>5, <1>6

-----------------------------------------------------------------------------
(* Each part of the invariant is inductive.                                *)

(* Which steps bring a call to an operation of deleteItemFromBasket.       *)
LEMMA DeleteStepsNext ==
    ASSUME TypeOK, [Next]_callVars, NEW d \in Calls, pc'[d] \in DeleteSteps
    PROVE  \/ pc[d] \in DeleteSteps /\ d \in DOMAIN req /\ req'[d] = req[d]
           \/ line' = line /\ req'[d].item = line[req'[d].line].item
<1> USE DEF TypeOK
<1>1. ASSUME NEW c \in Calls, Adding(c) PROVE pc[d] \in DeleteSteps /\ req'[d] = req[d]
  BY <1>1 DEF Adding, CallAdd, Put, DeleteSteps
<1>2. ASSUME NEW c \in Calls, NEW l \in born, NEW u \in Users \cup {NoUser}, CallDelete(c, u, l)
      PROVE  \/ pc[d] \in DeleteSteps /\ req'[d] = req[d]
             \/ line' = line /\ req'[d].item = line[req'[d].line].item
  <2>1. CASE d = c
    BY <1>2, <2>1 DEF CallDelete, Put
  <2>2. CASE d # c
    BY <1>2, <2>2 DEF CallDelete, Put, DeleteSteps
  <2> QED
    BY <2>1, <2>2
<1>3. ASSUME NEW c \in Calls, Step(c) \/ Abandon(c)
      PROVE  pc[d] \in DeleteSteps /\ req'[d] = req[d]
  <2>1. req' = req
    BY <1>3 DEF Step, GetItem, Refuse, UpdateItem, QueryBasket, SetLine, UpdateLine,
       GetLine, DeleteLine, RegetItem, RestoreItem, Abandon
  <2>2. CASE GetItem(c) \/ Refuse(c) \/ UpdateItem(c) \/ QueryBasket(c)
    BY <2>1, <2>2 DEF GetItem, Refuse, UpdateItem, QueryBasket, End, DeleteSteps
  <2>3. CASE \/ \E l \in Lines : SetLine(c, l)
             \/ \E t \in todo[c] : UpdateLine(c, t)
             \/ Abandon(c)
    BY <2>1, <2>3 DEF SetLine, UpdateLine, Abandon, End, DeleteSteps
  <2>4. CASE GetLine(c) \/ DeleteLine(c) \/ RegetItem(c) \/ RestoreItem(c)
    BY <2>1, <2>4 DEF GetLine, DeleteLine, RegetItem, RestoreItem, End, DeleteSteps
  <2> QED
    BY <1>3, <2>2, <2>3, <2>4 DEF Step
<1>4. UNCHANGED callVars => pc[d] \in DeleteSteps /\ req'[d] = req[d]
  BY DEF callVars
<1>5. pc[d] \in DeleteSteps => d \in DOMAIN req
  <2>1. DOMAIN req = {c \in Calls : pc[c] # "idle"}
    OBVIOUS
  <2> HIDE DEF TypeOK
  <2> QED
    BY <2>1 DEF DeleteSteps
<1>6. \A l \in born : line[l].owner \in Users
  BY DEF DocumentsType, LineDoc
<1> HIDE DEF TypeOK
<1>7. ASSUME NEW c \in Calls, Removing(c)
      PROVE  \/ pc[d] \in DeleteSteps /\ req'[d] = req[d]
             \/ line' = line /\ req'[d].item = line[req'[d].line].item
  BY <1>2, <1>6, <1>7 DEF Removing
<1> QED
  BY <1>1, <1>3, <1>4, <1>5, <1>7 DEF Next

(* A chain of deleteItemFromBasket never loses its item.                   *)
LEMMA NextReturnInv ==
    ASSUME LInv, [Next]_callVars \/ UNCHANGED <<line, pc, req>>, TypeOK'
    PROVE  ReturnInv'
<1> SUFFICES ASSUME NEW d \in Calls, pc'[d] \in DeleteSteps
             PROVE  line'[req'[d].line].item = req'[d].item
  BY DEF ReturnInv
<1>1. TypeOK
  BY DEF LInv, RInv, RentalTypeOK
<1>2. pc[d] \in DeleteSteps => line[req[d].line].item = req[d].item /\ req[d].line \in born
  BY <1>1 DEF LInv, ReturnInv, TypeOK
<1>3. CASE [Next]_callVars
  BY <1>1, <1>2, <1>3, DeleteStepsNext, DocsGrow
<1>4. CASE UNCHANGED <<line, pc, req>>
  BY <1>2, <1>4
<1> QED
  BY <1>3, <1>4

(* A step leaves the updates of a call as they were, unless it is the      *)
(* call's own query or one of its own updates.                             *)
LEMMA UpdatesNext ==
    ASSUME TypeOK, [Next]_callVars, NEW d \in Calls, pc'[d] = "updateLines"
    PROVE  \/ pc[d] = "updateLines" /\ req'[d] = req[d] /\ todo'[d] = todo[d]
           \/ QueryBasket(d)
           \/ \E t \in todo[d] : /\ pc[d] = "updateLines" /\ req'[d] = req[d]
                                 /\ todo[d] # {t} /\ todo'[d] = todo[d] \ {t}
<1> USE DEF TypeOK
<1>1. ASSUME NEW c \in Calls, Adding(c) \/ Removing(c)
      PROVE  pc[d] = "updateLines" /\ req'[d] = req[d] /\ todo'[d] = todo[d]
  BY ZenonT(60), <1>1 DEF Adding, CallAdd, Removing, CallDelete, Put
<1>2. ASSUME NEW c \in Calls,
             \/ GetItem(c) \/ Refuse(c) \/ UpdateItem(c) \/ Abandon(c)
             \/ \E l \in Lines : SetLine(c, l)
      PROVE  pc[d] = "updateLines" /\ req'[d] = req[d] /\ todo'[d] = todo[d]
  BY <1>2 DEF GetItem, Refuse, UpdateItem, SetLine, Abandon, End
<1>3. ASSUME NEW c \in Calls,
             GetLine(c) \/ DeleteLine(c) \/ RegetItem(c) \/ RestoreItem(c)
      PROVE  pc[d] = "updateLines" /\ req'[d] = req[d] /\ todo'[d] = todo[d]
  BY <1>3 DEF GetLine, DeleteLine, RegetItem, RestoreItem, End
<1>4. ASSUME NEW c \in Calls, QueryBasket(c), c # d
      PROVE  pc[d] = "updateLines" /\ req'[d] = req[d] /\ todo'[d] = todo[d]
  BY <1>4 DEF QueryBasket
<1>5. ASSUME NEW c \in Calls, NEW t \in todo[c], UpdateLine(c, t), c # d
      PROVE  pc[d] = "updateLines" /\ req'[d] = req[d] /\ todo'[d] = todo[d]
  BY <1>5 DEF UpdateLine, End
<1>6. ASSUME NEW t \in todo[d], UpdateLine(d, t)
      PROVE  /\ pc[d] = "updateLines" /\ req'[d] = req[d]
             /\ todo[d] # {t} /\ todo'[d] = todo[d] \ {t}
  BY <1>6 DEF UpdateLine, End
<1>7. CASE UNCHANGED callVars
  BY <1>7 DEF callVars
<1> QED
  BY <1>1, <1>2, <1>3, <1>4, <1>5, <1>6, <1>7 DEF Next, Step

(* What the history does while a call runs.                                *)
LEMMA SpoiledGrows ==
    ASSUME NEW c \in Calls, CallStep(c) \/ RentalAbandon(c)
    PROVE  spoiled \subseteq spoiled' /\ sold' = sold
  BY DEF CallStep, RentalAbandon, PlainStep, RentalUpdateItem, RentalQueryBasket,
     RentalUpdateLine, RentalDeleteLine, RentalRestoreItem, Books, history

(* What a call's query sends out: one update, of a line of the call's own  *)
(* item, or else all items involved are spoiled.                           *)
LEMMA QuerySends ==
    ASSUME TypeOK, NEW d \in Calls, RentalQueryBasket(d), pc'[d] = "updateLines"
    PROVE  /\ req'[d] = req[d] /\ line' = line
           /\ \/ \E t \in todo'[d] : todo'[d] = {t} /\ line[t.line].item = req[d].item
              \/ /\ req[d].item \in spoiled'
                 /\ \A t \in todo'[d] : line[t.line].item \in spoiled'
<1> DEFINE M == Matching(d)
           exact == /\ \A l \in M : line[l].item = req[d].item
                    /\ \A k, l \in M : k = l
           upd(l) == [line |-> l, count |-> line[l].count + req[d].count]
<1>1. /\ req'[d] = req[d] /\ line' = line
      /\ M # {} /\ todo'[d] = {upd(l) : l \in M}
  BY DEF RentalQueryBasket, QueryBasket, TypeOK
<1>2. spoiled' = IF exact THEN spoiled
                 ELSE spoiled \cup ({req[d].item} \cup {line[l].item : l \in M})
  BY DEF RentalQueryBasket, Books
<1> HIDE DEF M
<1>3. CASE exact
  <2>1. PICK l \in M : TRUE
    BY <1>1
  <2>2. M = {l} /\ line[l].item = req[d].item
    BY <1>3, <2>1
  <2>3. todo'[d] = {upd(l)} /\ upd(l).line = l
    BY <1>1, <2>2
  <2> QED
    BY <1>1, <2>2, <2>3
<1>4. CASE ~exact
  <2>1. /\ req[d].item \in spoiled'
        /\ \A l \in M : line[l].item \in spoiled'
    BY <1>2, <1>4
  <2>2. \A t \in todo'[d] : t.line \in M
    BY <1>1
  <2> QED
    BY <1>1, <2>1, <2>2
<1> QED
  BY <1>3, <1>4

(* Every step that may be taken keeps the updates under way in order.      *)
LEMMA NextUpdatesInv ==
    ASSUME LInv, spoiled \subseteq spoiled',
           \/ /\ [Next]_callVars
              /\ \A d \in Calls : QueryBasket(d) => RentalQueryBasket(d)
           \/ UNCHANGED <<line, pc, req, todo>>
    PROVE  UpdatesInv'
<1>0. TypeOK
  BY DEF LInv, RInv, RentalTypeOK
<1> SUFFICES ASSUME NEW d \in Calls, pc'[d] = "updateLines"
             PROVE  \/ \E t \in todo'[d] :
                          todo'[d] = {t} /\ line'[t.line].item = req'[d].item
                    \/ /\ req'[d].item \in spoiled'
                       /\ \A t \in todo'[d] : line'[t.line].item \in spoiled'
  BY DEF UpdatesInv
<1>1. CASE UNCHANGED <<line, pc, req, todo>>
  BY <1>1 DEF LInv, UpdatesInv
<1>2. CASE /\ [Next]_callVars
           /\ \A c \in Calls : QueryBasket(c) => RentalQueryBasket(c)
  <2>1. \A t \in todo[d] : line'[t.line].item = line[t.line].item
    BY <1>0, <1>2, DocsGrow DEF TypeOK
  <2>2. pc[d] = "updateLines" =>
          \/ \E t \in todo[d] : todo[d] = {t} /\ line[t.line].item = req[d].item
          \/ /\ req[d].item \in spoiled
             /\ \A t \in todo[d] : line[t.line].item \in spoiled
    BY DEF LInv, UpdatesInv
  <2>3. CASE pc[d] = "updateLines" /\ req'[d] = req[d] /\ todo'[d] = todo[d]
    BY <2>1, <2>2, <2>3
  <2>4. CASE QueryBasket(d)
    BY <1>0, <1>2, <2>4, QuerySends
  <2>5. ASSUME NEW t \in todo[d], pc[d] = "updateLines", req'[d] = req[d],
               todo[d] # {t}, todo'[d] = todo[d] \ {t}
        PROVE  /\ req'[d].item \in spoiled'
               /\ \A s \in todo'[d] : line'[s.line].item \in spoiled'
    BY <2>1, <2>2, <2>5
  <2> QED
    BY <1>0, <1>2, <2>3, <2>4, <2>5, UpdatesNext
<1> QED
  BY <1>1, <1>2

(* A call's query is the only step that looks like it.                     *)
LEMMA OwnQuery ==
    ASSUME TypeOK, NEW d \in Calls, QueryBasket(d)
    PROVE  /\ pc[d] = "queryBasket" /\ pc'[d] \in {"setLine", "updateLines"}
           /\ \A c \in Calls : CallStep(c) \/ RentalAbandon(c) => RentalQueryBasket(d)
<1>1. /\ pc[d] = "queryBasket" /\ pc'[d] \in {"setLine", "updateLines"}
      /\ pc \in [Calls -> PCs]
  BY DEF QueryBasket, TypeOK
<1> SUFFICES ASSUME NEW c \in Calls, CallStep(c) \/ RentalAbandon(c)
             PROVE  RentalQueryBasket(d)
  BY <1>1
<1> HIDE DEF QueryBasket
<1>2. ASSUME GetItem(c) \/ Refuse(c) \/ UpdateItem(c) \/ Abandon(c) PROVE FALSE
  BY <1>1, <1>2 DEF GetItem, Refuse, UpdateItem, Abandon, End
<1>3. ASSUME GetLine(c) \/ DeleteLine(c) \/ RegetItem(c) \/ RestoreItem(c) PROVE FALSE
  BY <1>1, <1>3 DEF GetLine, DeleteLine, RegetItem, RestoreItem, End
<1>4. ASSUME \/ \E l \in Lines : SetLine(c, l)
             \/ \E t \in todo[c] : UpdateLine(c, t)
      PROVE FALSE
  BY <1>1, <1>4 DEF SetLine, UpdateLine, End
<1>5. ASSUME RentalQueryBasket(c) PROVE c = d
  BY <1>1, <1>5 DEF RentalQueryBasket, QueryBasket
<1> QED
  BY <1>2, <1>3, <1>4, <1>5 DEF CallStep, PlainStep, RentalUpdateItem, RentalUpdateLine,
     RentalDeleteLine, RentalRestoreItem, RentalAbandon

(* A step of a running call preserves the invariant and obeys the ledger.  *)
LEMMA CallStepLedger ==
    ASSUME LInv, RInv', NEW c \in Calls, CallStep(c) \/ RentalAbandon(c)
    PROVE  LInv' /\ [L!Next]_(L!ledgerVars)
<1>1. RInv /\ TypeOK /\ TypeOK'
  BY DEF LInv, RInv, RentalTypeOK
<1>2. ReturnInv' /\ UpdatesInv'
  BY <1>1, CallStepNext, SpoiledGrows, OwnQuery, NextReturnInv, NextUpdatesInv
<1>3. ASSUME RentalUpdateItem(c) \/ RentalQueryBasket(c)
      PROVE  [L!Next]_(L!ledgerVars)
  BY <1>1, <1>3, UpdateItemMoves, QueryBasketMoves
<1>4. ASSUME RentalDeleteLine(c) \/ RentalRestoreItem(c) \/ RentalAbandon(c)
      PROVE  [L!Next]_(L!ledgerVars)
  BY <1>1, <1>4, DeleteLineMoves, RestoreItemMoves, AbandonMoves
<1>5. ASSUME PlainStep(c)
      PROVE  [L!Next]_(L!ledgerVars)
  <2>1. UNCHANGED <<spoiled, sold>>
    BY <1>5 DEF PlainStep, history
  <2> QED
    BY <1>1, <1>5, <2>1, ReadsMoveNothing, SetLineMoves DEF PlainStep
<1>6. ASSUME NEW t \in todo[c], RentalUpdateLine(c, t) PROVE L!Next
  BY <1>6, UpdateLineMoves
<1> QED
  BY <1>2, <1>3, <1>4, <1>5, <1>6 DEF LInv, CallStep

(* So does a user's call.                                                  *)
LEMMA NewCallLedger ==
    ASSUME LInv, RInv', NEW u \in Users, NEW c \in Calls, NEW a \in {u, NoUser},
           \/ \E i \in Items, n \in 1 .. MaxCount : AddItem(c, u, a, i, n)
           \/ \E e \in view[u] : RemoveItem(c, u, a, e)
    PROVE  LInv' /\ [L!Next]_(L!ledgerVars)
<1>1. RInv /\ TypeOK /\ TypeOK'
  BY DEF LInv, RInv, RentalTypeOK
<1>2. Next
  BY <1>1, AddItemNext, RemoveItemNext
<1>3. /\ pc[c] = "idle" /\ UNCHANGED <<stock, line, live, got, sold, spoiled>>
      /\ req' = Put(req, c, req'[c])
      /\ pc' = [pc EXCEPT ![c] = pc'[c]] /\ pc'[c] \in {"getItem", "getLine", "failed"}
  <2>1. ASSUME NEW i \in Items, NEW n \in 1 .. MaxCount, AddItem(c, u, a, i, n)
        PROVE  <1>3!:
    BY <1>1, <2>1 DEF AddItem, CallAdd, Put, TypeOK
  <2>2. ASSUME NEW e \in view[u], RemoveItem(c, u, a, e)
        PROVE  <1>3!:
    BY <1>1, <2>2 DEF RemoveItem, CallDelete, Put, TypeOK
  <2> QED
    BY <2>1, <2>2
<1>4. \A d \in Calls : ~QueryBasket(d)
  <2> SUFFICES ASSUME NEW d \in Calls, QueryBasket(d) PROVE FALSE
    OBVIOUS
  <2>1. pc[d] = "queryBasket" /\ pc'[d] \in {"setLine", "updateLines"}
    BY <1>1, OwnQuery
  <2> QED
    BY <1>1, <1>3, <2>1 DEF TypeOK
<1>5. ReturnInv' /\ UpdatesInv'
  BY <1>1, <1>2, <1>3, <1>4, NextReturnInv, NextUpdatesInv
<1>6. [L!Next]_(L!ledgerVars)
  BY <1>1, <1>3, NewCallsMoveNothing
<1> QED
  BY <1>5, <1>6 DEF LInv

(* Every step of the system is a step of the ledger.                       *)
LEMMA NextLedger ==
    LInv /\ [RentalNext]_vars => LInv' /\ [L!Next]_(L!ledgerVars)
<1> SUFFICES ASSUME LInv, [RentalNext]_vars
             PROVE  LInv' /\ [L!Next]_(L!ledgerVars)
  OBVIOUS
<1>1. RInv /\ RInv' /\ TypeOK'
  BY NextRInv DEF LInv, RInv, RentalTypeOK
<1>2. ASSUME NEW c \in Calls, CallStep(c) \/ RentalAbandon(c)
      PROVE  LInv' /\ [L!Next]_(L!ledgerVars)
  BY <1>1, <1>2, CallStepLedger
<1>3. ASSUME NEW u \in Users, NEW c \in Calls, NEW a \in {u, NoUser},
             \/ \E i \in Items, n \in 1 .. MaxCount : AddItem(c, u, a, i, n)
             \/ \E e \in view[u] : RemoveItem(c, u, a, e)
      PROVE  LInv' /\ [L!Next]_(L!ledgerVars)
  BY <1>1, <1>3, NewCallLedger
<1>4. ASSUME UNCHANGED <<line, pc, req, todo>>, spoiled \subseteq spoiled' PROVE LInv'
  BY <1>1, <1>4, NextReturnInv, NextUpdatesInv DEF LInv
<1>5. ASSUME NEW u \in Users,
             \/ Refresh(u) \/ Callback(u) \/ LateError(u) \/ AppKilled(u)
             \/ UserPutsOrder(u)
             \/ \E S \in SUBSET LinesOf(view[u]) : UserKilledInPutOrder(u, S)
      PROVE  LInv' /\ [L!Next]_(L!ledgerVars)
  <2>1. UNCHANGED <<stock, line, live, pc, req, got, todo, sold, spoiled>>
    BY <1>5 DEF Refresh, Callback, LateError, AppKilled, UserPutsOrder,
       UserKilledInPutOrder, Snapshot, PutOrderDone, PutOrderFailed, RemovalFailed, Kill,
       PutOrder, PutOrderKilled, locals, history
  <2> QED
    BY <1>4, <2>1, OthersMoveNothing
<1>6. ASSUME NEW o \in DOMAIN orders, RentalCommitOrder(o)
      PROVE  LInv' /\ [L!Next]_(L!ledgerVars)
  <2>1. UNCHANGED <<line, pc, req, todo>> /\ spoiled \subseteq spoiled'
    BY <1>6 DEF RentalCommitOrder, CommitOrder, AnswerOrder, locals, Books
  <2> QED
    BY <1>1, <1>4, <1>6, <2>1, CommitOrderMoves
<1>7. ASSUME NEW o \in DOMAIN orders, RentalRejectOrder(o)
      PROVE  LInv' /\ [L!Next]_(L!ledgerVars)
  <2>1. UNCHANGED <<stock, line, live, pc, req, got, todo, sold, spoiled>>
    BY <1>7 DEF RentalRejectOrder, RejectOrder, AnswerOrder, locals
  <2> QED
    BY <1>4, <2>1, OthersMoveNothing
<1>8. ASSUME NEW o \in DOMAIN orders, NEW l \in orders[o].deletes,
             RentalCommitDelete(o, l)
      PROVE  LInv' /\ [L!Next]_(L!ledgerVars)
  <2>1. UNCHANGED <<line, pc, req, todo>> /\ spoiled \subseteq spoiled'
    BY <1>8 DEF RentalCommitDelete, CommitDelete, AnswerDelete, locals, Books
  <2> QED
    BY <1>1, <1>4, <1>8, <2>1, CommitDeleteMoves
<1>9. ASSUME NEW o \in DOMAIN orders, NEW l \in orders[o].deletes,
             RentalRejectDelete(o, l)
      PROVE  LInv' /\ [L!Next]_(L!ledgerVars)
  <2>1. UNCHANGED <<stock, line, live, pc, req, got, todo, sold, spoiled>>
    BY <1>9 DEF RentalRejectDelete, RejectDelete, AnswerDelete, locals
  <2> QED
    BY <1>4, <2>1, OthersMoveNothing
<1>10. CASE UNCHANGED vars
  <2>1. UNCHANGED <<stock, line, live, pc, req, got, todo, sold, spoiled>>
    BY <1>10 DEF vars
  <2> QED
    BY <1>4, <2>1, OthersMoveNothing
<1> QED
  BY <1>2, <1>3, <1>5, <1>6, <1>7, <1>8, <1>9, <1>10
  DEF RentalNext, UserStep, ServerStep

(* At the start all units are on the shelf.                                *)
LEMMA InitLedger == RentalInit => LInv /\ L!Init
<1> SUFFICES ASSUME RentalInit PROVE LInv /\ L!Init
  OBVIOUS
<1>1. LInv
  BY InitRInv DEF LInv, ReturnInv, UpdatesInv, RentalInit, CallsInit, DeleteSteps
<1>2. \A i \in Items :
        /\ stock[i] = Shelf[i]
        /\ \A l \in Lines : OnLine(i, l) = 0
        /\ \A c \in Calls : OnCall(i, c) = 0
  BY DEF RentalInit, DocumentsInit, CallsInit, OnLine, OnCall, born
<1>3. \A i \in Items, a \in Accounts :
        UnitsAt(i, a) = IF a[1] = "shelf" THEN Shelf[i] ELSE 0
  BY <1>2, AccountCases, UnitsOn
<1>4. units = opening
  BY <1>3 DEF units, opening
<1>5. spoiled = {}
  BY DEF RentalInit, HistoryInit
<1> QED
  BY <1>1, <1>4, <1>5 DEF L!Init

(* The system implements the ledger: whatever interleaving, crash, refusal *)
(* or loss, a step moves units of one item from one account to another, or *)
(* moves none, or spoils the items that the history names, and only those. *)
THEOREM LedgerTheorem == RentalSpec => LedgerSpec
<1>1. LInv /\ [RentalNext]_vars => LInv' /\ [L!Next]_(L!ledgerVars)
  BY NextLedger
<1>2. RentalInit => LInv /\ L!Init
  BY InitLedger
<1> QED
  BY <1>1, <1>2, PTL DEF RentalSpec, LedgerSpec, L!Spec

-----------------------------------------------------------------------------
(* The books balance: the double entries added up over all accounts.       *)
LEMMA AccountsFinite == IsFiniteSet(Accounts)
<1> DEFINE ls == {<<"line", l>> : l \in Lines}
           cs == {<<"call", c>> : c \in Calls}
           lineOf == [l \in Lines |-> <<"line", l>>]
           callOf == [c \in Calls |-> <<"call", c>>]
<1>1. lineOf \in Surjection(Lines, ls) /\ callOf \in Surjection(Calls, cs)
  BY DEF Surjection
<1>2. Accounts = {<<"shelf">>} \cup (ls \cup cs)
  BY DEF Accounts
<1> HIDE DEF ls, cs, lineOf, callOf
<1>3. IsFiniteSet(ls) /\ IsFiniteSet(cs)
  BY <1>1, FiniteAssumption, FS_Surjection
<1>4. IsFiniteSet({<<"shelf">>})
  BY FS_Singleton
<1> QED
  BY <1>2, <1>3, <1>4, FS_Union

(* The sum over all accounts is the last of the sums over their subsets.   *)
LEMMA TotalSums ==
    ASSUME NEW f \in [Accounts -> Int]
    PROVE  \E g : Sums(g, Accounts, f) /\ AddedUp(f) = g[Accounts]
<1> DEFINE body(s) ==
             [t \in SUBSET Accounts |->
                IF t = {} THEN 0
                ELSE f[CHOOSE x \in t : TRUE] + s[t \ {CHOOSE x \in t : TRUE}]]
           iter == CHOOSE s : s = body(s)
<1>1. AddedUp(f) = iter[Accounts]
  BY Zenon DEF AddedUp, MapThenSumSet, MapThenFoldSet
<1>2. PICK g : Sums(g, Accounts, f)
  BY AccountsFinite, SumsExist
<1>3. g = body(g)
  <2>1. ASSUME NEW t \in SUBSET Accounts PROVE g[t] = body(g)[t]
    BY <1>2 DEF Sums, First
  <2>2. g = [t \in SUBSET Accounts |-> g[t]]
    BY <1>2 DEF Sums
  <2>3. body(g) = [t \in SUBSET Accounts |-> body(g)[t]]
    OBVIOUS
  <2> HIDE DEF body
  <2> QED
    BY <2>1, <2>2, <2>3
<1>4. iter = body(iter)
  <2> HIDE DEF body
  <2>1. \E s : s = body(s)
    BY <1>3
  <2> QED
    BY <2>1
<1> HIDE DEF iter
<1>5. /\ iter = [t \in SUBSET Accounts |-> iter[t]] /\ iter[{}] = 0
      /\ \A t \in SUBSET Accounts :
             t # {} => iter[t] = f[First(t)] + iter[t \ {First(t)}]
  BY <1>4 DEF First
<1> DEFINE G == {s \in SUBSET Accounts : iter[s] = g[s]}
<1>6. {} \in G
  BY <1>2, <1>5 DEF Sums
<1>7. ASSUME NEW s \in SUBSET Accounts, s # {}, \A x \in s : s \ {x} \in G
      PROVE  s \in G
  <2>1. First(s) \in s
    BY <1>7 DEF First
  <2>2. iter[s \ {First(s)}] = g[s \ {First(s)}]
    BY <1>7, <2>1
  <2> QED
    BY <1>2, <1>5, <1>7, <2>2 DEF Sums
<1> HIDE DEF G
<1>8. SUBSET Accounts \subseteq G
  BY <1>6, <1>7, AccountsFinite, SetInduction
<1>9. Accounts \in G
  BY <1>8
<1>10. iter[Accounts] = g[Accounts]
  BY <1>9 DEF G
<1> QED
  BY <1>1, <1>2, <1>10

(* Moving n units from a to b does not change it.                          *)
LEMMA TransferBalances ==
    ASSUME NEW f, NEW e, NEW a, NEW b, NEW n, Moves(f, e, Accounts, a, b, n)
    PROVE  AddedUp(e) = AddedUp(f)
<1>1. f \in [Accounts -> Int] /\ e \in [Accounts -> Int]
  BY DEF Moves
<1>3. PICK g : Sums(g, Accounts, f) /\ AddedUp(f) = g[Accounts]
  BY <1>1, TotalSums
<1>4. PICK h : Sums(h, Accounts, e) /\ AddedUp(e) = h[Accounts]
  BY <1>1, TotalSums
<1>5. g[Accounts] = h[Accounts]
  BY <1>3, <1>4, AccountsFinite, SumsMove
<1> QED
  BY <1>3, <1>4, <1>5

LEMMA TotalIsSum ==
    ASSUME NEW i \in Items
    PROVE  Total(i) = AddedUp(units[i]) /\ Total(i)' = AddedUp(units'[i])
  BY DEF Total

(* The ledger's invariant: units are whole numbers, and what is not        *)
(* spoiled adds up.                                                        *)
BalanceInv == units \in [Items -> [Accounts -> Int]] /\ LedgerBalanced

LEMMA InitBalance ==
    ASSUME L!Init
    PROVE  BalanceInv
<1>1. units = opening /\ opening \in [Items -> [Accounts -> Int]]
  BY DocumentsAssumption DEF L!Init, opening
<1>2. <<"shelf">> \in Accounts /\ \A a \in Accounts : a[1] = "shelf" => a = <<"shelf">>
  BY DEF Accounts
<1>3. ASSUME NEW i \in Items PROVE AddedUp(units[i]) = Shelf[i]
  <2>1. /\ units[i] \in [Accounts -> Int] /\ units[i][<<"shelf">>] = Shelf[i]
        /\ \A a \in Accounts \ {<<"shelf">>} : units[i][a] = 0
    BY <1>1, <1>2 DEF opening
  <2>2. PICK f : f = units[i]
    OBVIOUS
  <2>3. PICK g : Sums(g, Accounts, f) /\ AddedUp(f) = g[Accounts]
    BY <2>1, <2>2, TotalSums
  <2> QED
    BY <1>2, <2>1, <2>2, <2>3, AccountsFinite, SumsSingle
<1> QED
  BY <1>1, <1>3, TotalIsSum DEF BalanceInv, LedgerBalanced

LEMMA BalanceStep ==
    ASSUME BalanceInv, RInv', [L!Next]_(L!ledgerVars)
    PROVE  BalanceInv'
<1>1. ASSUME NEW i \in Items, NEW a \in Accounts, NEW b \in Accounts,
             L!Transfer(i, a, b)
      PROVE  BalanceInv'
  <2> DEFINE moved(n) == [units[i] EXCEPT ![a] = @ - n, ![b] = @ + n]
  <2>1. PICK n : /\ n = units'[i][b] - units[i][b]
                 /\ units' = [units EXCEPT ![i] = moved(n)]
    BY <1>1 DEF L!Transfer
  <2>2. a # b /\ spoiled' = spoiled
    BY <1>1 DEF L!Transfer
  <2>3. units' \in [Items -> [Accounts -> Int]] /\ units \in [Items -> [Accounts -> Int]]
    BY UnitsTypeNext DEF BalanceInv
  <2>4. n \in Int
    BY <2>1, <2>3
  <2>5. PICK f : f = units[i]
    OBVIOUS
  <2>6. PICK e : e = [f EXCEPT ![a] = @ - n, ![b] = @ + n]
    OBVIOUS
  <2>7. units'[i] = e /\ \A j \in Items \ {i} : units'[j] = units[j]
    BY <2>1, <2>3, <2>5, <2>6
  <2>8. AddedUp(e) = AddedUp(f)
    <3>1. Moves(f, e, Accounts, a, b, n)
      BY <2>2, <2>3, <2>4, <2>5, <2>6 DEF Moves
    <3> QED
      BY <3>1, TransferBalances
  <2>9. \A j \in Items : Total(j)' = Total(j)
    BY <2>5, <2>7, <2>8, TotalIsSum
  <2> QED
    BY <2>2, <2>3, <2>9 DEF BalanceInv, LedgerBalanced
<1>2. ASSUME NEW S \in SUBSET Items, L!Spoil(S) PROVE BalanceInv'
  <2>1. /\ units' \in [Items -> [Accounts -> Int]] /\ spoiled' = spoiled \cup S
        /\ \A i \in Items \ spoiled' : units'[i] = units[i]
    BY <1>2 DEF L!Spoil
  <2>2. ASSUME NEW i \in Items \ spoiled' PROVE Total(i)' = Shelf[i]
    <3>1. i \in Items \ spoiled /\ units'[i] = units[i]
      BY <2>1
    <3> QED
      BY <3>1, TotalIsSum DEF BalanceInv, LedgerBalanced
  <2> QED
    BY <2>1, <2>2 DEF BalanceInv, LedgerBalanced
<1>3. CASE UNCHANGED L!ledgerVars
  <2>1. units' = units /\ spoiled' = spoiled
    BY <1>3 DEF L!ledgerVars
  <2>2. \A i \in Items : Total(i)' = Total(i)
    BY <2>1, TotalIsSum
  <2> QED
    BY <2>1, <2>2 DEF BalanceInv, LedgerBalanced
<1> QED
  BY <1>1, <1>2, <1>3 DEF L!Next

(* The units of every item that no history names add up to the opening     *)
(* stock.                                                                  *)
THEOREM BalanceTheorem == RentalSpec => []LedgerBalanced
<1>1. L!Init => BalanceInv
  BY InitBalance
<1>2. BalanceInv /\ RInv' /\ [L!Next]_(L!ledgerVars) => BalanceInv'
  BY BalanceStep
<1>3. BalanceInv => LedgerBalanced
  BY DEF BalanceInv
<1> QED
  BY <1>1, <1>2, <1>3, RentalInvariant, LedgerTheorem, PTL DEF LedgerSpec, L!Spec

-----------------------------------------------------------------------------
(* Careful use.  While nobody acts before the system is at rest, one thing *)
(* goes on at a time: a call, or one order with its deletes.  What a call  *)
(* has read or an order has taken over from the screen then still stands   *)
(* when it is written.                                                     *)
Unsent(o) == orders[o].stage = "queued" \/ orders[o].deletes # {}

OneAtATime ==
    /\ \A c, d \in Calls : InFlight(c) /\ InFlight(d) => c = d
    /\ \A o, p \in DOMAIN orders : Unsent(o) /\ Unsent(p) => o = p
    /\ \A c \in Calls : InFlight(c) => \A o \in DOMAIN orders : ~Unsent(o)

(* A user has one basket line of an item.                                  *)
LinesApart ==
    \A k, l \in live :
        line[k].owner = line[l].owner /\ line[k].item = line[l].item => k = l

SoldLeave ==
    \A l \in live : l \in DOMAIN sold => \E o \in DOMAIN orders : l \in orders[o].deletes

OrderExact(o) ==
    IF orders[o].stage = "queued"
      THEN /\ orders[o].deletes = LinesOf(orders[o].entries)
           /\ \A e \in orders[o].entries : Intact(e.line, e.count)
      ELSE orders[o].deletes \subseteq DOMAIN sold

CallExact(c) ==
    /\ req[c].user # NoUser
    /\ pc[c] = "updateItem" => stock[req[c].item] = next[c] + req[c].count
    /\ pc[c] = "setLine" => Matching(c) = {}
    /\ pc[c] = "updateLines" =>
          \A t \in todo[c] : todo[c] = {t} /\ Intact(t.line, t.count - req[c].count)
    /\ pc[c] = "deleteLine" => Intact(req[c].line, got[c])
    /\ pc[c] = "restoreItem" => stock[req[c].item] + got[c] = next[c]

CareState ==
    /\ spoiled = {} /\ OneAtATime /\ LinesApart /\ SoldLeave
    /\ \A o \in DOMAIN orders : OrderExact(o)
    /\ \A c \in Calls : InFlight(c) => CallExact(c)

CareInv == ~careless => CareState

(* Items have names of their own.                                          *)
NamesDiffer == \A i, j \in Items : NameOf[i] = NameOf[j] => i = j

(* While a call runs nothing else does, and no ordered line is in a basket. *)
LEMMA CallAlone ==
    ASSUME CareState, NEW c \in Calls, InFlight(c)
    PROVE  /\ \A d \in Calls \ {c} : ~InFlight(d)
           /\ \A o \in DOMAIN orders : orders[o].stage # "queued" /\ orders[o].deletes = {}
           /\ \A l \in live : l \notin DOMAIN sold
           /\ CallExact(c)
<1>1. \A o \in DOMAIN orders : orders[o].stage # "queued" /\ orders[o].deletes = {}
  BY DEF CareState, OneAtATime, Unsent
<1> QED
  BY <1>1 DEF CareState, OneAtATime, SoldLeave

(* A step of the only call.                                                *)
LEMMA CareCall ==
    ASSUME CareState, NEW c \in Calls, InFlight(c), UNCHANGED <<orders, sold, spoiled>>,
           \A d \in Calls \ {c} : pc'[d] = pc[d],
           LinesApart', \A l \in live' : l \notin DOMAIN sold,
           InFlight(c)' => CallExact(c)'
    PROVE  CareState'
<1>1. /\ \A d \in Calls \ {c} : ~InFlight(d)
      /\ \A o \in DOMAIN orders : orders[o].stage # "queued" /\ orders[o].deletes = {}
  BY CallAlone
<1>2. \A d \in Calls \ {c} : ~InFlight(d)'
  BY <1>1 DEF InFlight
<1>3. \A o \in DOMAIN orders' : ~Unsent(o)' /\ OrderExact(o)'
  BY <1>1 DEF Unsent, OrderExact
<1>4. OneAtATime'
  BY <1>2, <1>3 DEF OneAtATime
<1>5. SoldLeave'
  BY DEF SoldLeave
<1>6. \A d \in Calls : InFlight(d)' => CallExact(d)'
  BY <1>2
<1> QED
  BY <1>3, <1>4, <1>5, <1>6 DEF CareState

(* The chain ends.                                                         *)
LEMMA CareEnd ==
    ASSUME RInv, CareState, NEW c \in Calls, InFlight(c), NEW how \in Ends, End(c, how),
           UNCHANGED <<orders, sold, spoiled>>,
           LinesApart', \A l \in live' : l \notin DOMAIN sold
    PROVE  CareState'
<1>1. pc'[c] = how /\ \A d \in Calls \ {c} : pc'[d] = pc[d]
  BY DEF End, RInv, RentalTypeOK, TypeOK
<1>2. ~InFlight(c)'
  BY <1>1 DEF InFlight, Ends, AddSteps, DeleteSteps
<1> QED
  BY <1>1, <1>2, CareCall

LEMMA CarePlain ==
    ASSUME RInv, CareState, NEW c \in Calls, PlainStep(c)
    PROVE  CareState'
<1>1. UNCHANGED <<orders, sold, spoiled>>
  BY DEF PlainStep, history, deviceVars
<1>2. InFlight(c)
  BY DEF PlainStep, GetItem, Refuse, GetLine, RegetItem, SetLine, InFlight, AddSteps, DeleteSteps
<1>3. /\ \A l \in live : l \notin DOMAIN sold
      /\ CallExact(c)
  BY <1>2, CallAlone
<1>4. LinesApart
  BY DEF CareState
<1>5. /\ req[c].item \in Items /\ req[c].count \in Int
      /\ stock \in [Items -> Int] /\ pc \in [Calls -> PCs]
      /\ next \in [Calls -> Int] /\ got \in [Calls -> Int]
  BY <1>2, RequestOf DEF RInv, RentalTypeOK, TypeOK, DocumentsType
<1>6. CASE GetItem(c)
  <2>1. /\ pc'[c] = "updateItem" /\ next'[c] = stock[req[c].item] - req[c].count
        /\ \A d \in Calls \ {c} : pc'[d] = pc[d]
        /\ UNCHANGED <<stock, line, live, req>>
    BY <1>5, <1>6 DEF GetItem
  <2>2. stock[req[c].item] \in Int
    BY <1>5
  <2>3. CallExact(c)'
    BY <1>3, <1>5, <2>1, <2>2 DEF CallExact
  <2>4. LinesApart'
    BY <1>4, <2>1 DEF LinesApart
  <2> QED
    BY <1>1, <1>2, <1>3, <2>1, <2>3, <2>4, CareCall
<1>7. CASE Refuse(c)
  <2>1. UNCHANGED <<line, live>> /\ End(c, "refused") /\ "refused" \in Ends
    BY <1>7 DEF Refuse, Ends
  <2>2. LinesApart'
    BY <1>4, <2>1 DEF LinesApart
  <2> QED
    BY <1>1, <1>2, <1>3, <2>1, <2>2, CareEnd
<1>8. CASE GetLine(c)
  <2>1. UNCHANGED <<stock, line, live, req>>
    BY <1>8 DEF GetLine
  <2>2. LinesApart'
    BY <1>4, <2>1 DEF LinesApart
  <2>3. CASE req[c].line \in live
    <3>1. /\ pc'[c] = "deleteLine" /\ got'[c] = line[req[c].line].count
          /\ \A d \in Calls \ {c} : pc'[d] = pc[d]
      BY <1>5, <1>8, <2>3 DEF GetLine
    <3>2. CallExact(c)'
      BY <1>1, <1>3, <2>1, <2>3, <3>1 DEF CallExact, Intact
    <3> QED
      BY <1>1, <1>2, <1>3, <2>1, <2>2, <3>1, <3>2, CareCall
  <2>4. CASE req[c].line \notin live
    <3>1. End(c, "failed") /\ "failed" \in Ends
      BY <1>8, <2>4 DEF GetLine, Ends
    <3> QED
      BY <1>1, <1>2, <1>3, <2>1, <2>2, <3>1, CareEnd
  <2> QED
    BY <2>3, <2>4
<1>9. CASE RegetItem(c)
  <2>1. /\ pc'[c] = "restoreItem" /\ next'[c] = stock[req[c].item] + got[c]
        /\ \A d \in Calls \ {c} : pc'[d] = pc[d]
        /\ UNCHANGED <<stock, line, live, req, got>>
    BY <1>5, <1>9 DEF RegetItem
  <2>2. CallExact(c)'
    BY <1>3, <2>1 DEF CallExact
  <2>3. LinesApart'
    BY <1>4, <2>1 DEF LinesApart
  <2> QED
    BY <1>1, <1>2, <1>3, <2>1, <2>2, <2>3, CareCall
<1>10. CASE \E l \in Lines : SetLine(c, l)
  <2>1. PICK l \in Lines : SetLine(c, l)
    BY <1>10
  <2>2. /\ l \notin born /\ live' = live \cup {l} /\ live \subseteq born
        /\ line'[l].owner = req[c].user /\ line'[l].item = req[c].item
        /\ \A k \in born : line'[k] = line[k]
        /\ Matching(c) = {} /\ End(c, "done") /\ "done" \in Ends
    BY <1>3, <2>1 DEF SetLine, Put, born, CallExact, Ends, RInv, RentalTypeOK, TypeOK, DocumentsType
  <2>3. ASSUME NEW k \in live
        PROVE  ~(line[k].owner = req[c].user /\ line[k].item = req[c].item)
    BY <2>2, <2>3 DEF Matching, Basket
  <2>4. LinesApart'
    BY <1>4, <2>2, <2>3 DEF LinesApart
  <2>5. l \notin DOMAIN sold
    BY <2>2 DEF RInv, RentalTypeOK, HistoryType
  <2> QED
    BY <1>1, <1>2, <1>3, <2>2, <2>4, <2>5, CareEnd
<1> QED
  BY <1>6, <1>7, <1>8, <1>9, <1>10 DEF PlainStep

(* What the functions write was read when the call was already the only    *)
(* thing that went on.                                                     *)
LEMMA CareMoves ==
    ASSUME NamesDiffer, RInv, CareState, NEW c \in Calls, CallStep(c)
    PROVE  CareState'
<1>1. InFlight(c)
  BY DEF CallStep, PlainStep, RentalUpdateItem, RentalQueryBasket, RentalUpdateLine,
     RentalDeleteLine, RentalRestoreItem, GetItem, Refuse, UpdateItem, QueryBasket, SetLine,
     UpdateLine, GetLine, DeleteLine, RegetItem, RestoreItem, InFlight, AddSteps, DeleteSteps
<1>2. /\ \A l \in live : l \notin DOMAIN sold
      /\ CallExact(c) /\ LinesApart
  BY <1>1, CallAlone DEF CareState
<1>3. /\ req[c].item \in Items /\ req[c].count \in Int
      /\ stock \in [Items -> Int] /\ pc \in [Calls -> PCs]
      /\ next \in [Calls -> Int] /\ got \in [Calls -> Int]
      /\ todo \in [Calls -> SUBSET Update]
  BY <1>1, RequestOf DEF RInv, RentalTypeOK, TypeOK, DocumentsType
<1>4. \A l \in live : /\ l \in Lines /\ line[l].count \in Int /\ line[l].item \in Items
                      /\ l \in born
  BY DEF RInv, RentalTypeOK, TypeOK, DocumentsType, LineDoc
<1>5. CASE PlainStep(c)
  BY <1>5, CarePlain
<1>6. CASE RentalUpdateItem(c)
  <2>1. /\ pc[c] = "updateItem" /\ UNCHANGED <<orders, sold, line, live, req>>
        /\ Books(stock[req[c].item] = next[c] + req[c].count /\ req[c].user # NoUser, {req[c].item})
    BY <1>6 DEF RentalUpdateItem, UpdateItem, deviceVars
  <2>2. stock[req[c].item] = next[c] + req[c].count /\ req[c].user # NoUser
    BY <1>2, <2>1 DEF CallExact
  <2>3. spoiled' = spoiled
    BY <2>1, <2>2 DEF Books
  <2>4. pc' = [pc EXCEPT ![c] = "queryBasket"]
    BY <1>6, <2>2 DEF RentalUpdateItem, UpdateItem
  <2>5. CallExact(c)'
    BY <1>3, <2>1, <2>2, <2>4 DEF CallExact
  <2>6. LinesApart'
    BY <1>2, <2>1 DEF LinesApart
  <2> QED
    BY <1>1, <1>2, <1>3, <2>1, <2>3, <2>4, <2>5, <2>6, CareCall
<1>7. CASE RentalQueryBasket(c)
  <2>1. /\ pc[c] = "queryBasket" /\ UNCHANGED <<orders, sold, stock, line, live, req>>
        /\ Books(/\ \A l \in Matching(c) : line[l].item = req[c].item
                 /\ \A k, l \in Matching(c) : k = l,
                 {req[c].item} \cup {line[l].item : l \in Matching(c)})
    BY <1>7 DEF RentalQueryBasket, QueryBasket, deviceVars
  <2>2. \A l \in Matching(c) : /\ l \in live /\ line[l].item = req[c].item
                               /\ line[l].owner = req[c].user
    BY <1>3, <1>4 DEF NamesDiffer, Matching, Basket
  <2>3. \A k, l \in Matching(c) : k = l
    BY <1>2, <2>2 DEF LinesApart
  <2>4. spoiled' = spoiled
    BY <2>1, <2>2, <2>3 DEF Books
  <2>5. LinesApart'
    BY <1>2, <2>1 DEF LinesApart
  <2>6. CASE Matching(c) = {}
    <3>1. pc' = [pc EXCEPT ![c] = "setLine"]
      BY <1>7, <2>6 DEF RentalQueryBasket, QueryBasket
    <3>2. Matching(c)' = {}
      BY <2>1, <2>6 DEF Matching, Basket
    <3>3. CallExact(c)'
      BY <1>2, <1>3, <2>1, <3>1, <3>2 DEF CallExact
    <3> QED
      BY <1>1, <1>2, <1>3, <2>1, <2>4, <2>5, <3>1, <3>3, CareCall
  <2>7. CASE Matching(c) # {}
    <3>1. /\ pc' = [pc EXCEPT ![c] = "updateLines"]
          /\ todo'[c] = {[line |-> l, count |-> line[l].count + req[c].count] : l \in Matching(c)}
      BY <1>3, <1>7, <2>7 DEF RentalQueryBasket, QueryBasket
    <3>2. PICK l \in Matching(c) : \A k \in Matching(c) : k = l
      BY <2>3, <2>7
    <3> PICK t : t = [line |-> l, count |-> line[l].count + req[c].count]
      OBVIOUS
    <3>3. todo'[c] = {t}
      BY <3>1, <3>2
    <3>4. t.line = l /\ line[l].count = t.count - req[c].count
      BY <1>3, <1>4, <2>2
    <3>5. Intact(t.line, t.count - req[c].count)
      BY <1>2, <2>2, <3>4 DEF Intact
    <3>6. CallExact(c)'
      BY <1>2, <1>3, <2>1, <3>1, <3>3, <3>5 DEF CallExact, Intact
    <3> QED
      BY <1>1, <1>2, <1>3, <2>1, <2>4, <2>5, <3>1, <3>6, CareCall
  <2> QED
    BY <2>6, <2>7
<1>8. ASSUME NEW t \in todo[c], RentalUpdateLine(c, t) PROVE CareState'
  <2>1. /\ pc[c] = "updateLines" /\ UNCHANGED <<orders, sold, live, req>>
        /\ Books(Intact(t.line, t.count - req[c].count), {req[c].item, line[t.line].item})
    BY <1>8 DEF RentalUpdateLine, UpdateLine, deviceVars
  <2>2. todo[c] = {t} /\ Intact(t.line, t.count - req[c].count)
    BY <1>2, <1>8, <2>1 DEF CallExact
  <2>3. spoiled' = spoiled
    BY <2>1, <2>2 DEF Books
  <2>4. /\ End(c, "done") /\ "done" \in Ends
        /\ line' = line \/ line' = [line EXCEPT ![t.line].count = t.count]
    BY <1>8, <2>2 DEF RentalUpdateLine, UpdateLine, Ends
  <2>5. \A l \in live : line'[l].owner = line[l].owner /\ line'[l].item = line[l].item
    BY <1>8, UpdateLineDocs, <1>4 DEF RentalUpdateLine, RInv, RentalTypeOK
  <2>6. LinesApart'
    BY <1>2, <2>1, <2>5 DEF LinesApart
  <2> QED
    BY <1>1, <1>2, <2>1, <2>3, <2>4, <2>6, CareEnd
<1>9. CASE RentalDeleteLine(c)
  <2>1. /\ pc[c] = "deleteLine" /\ UNCHANGED <<orders, sold, line, req>>
        /\ live' = live \ {req[c].line} /\ pc' = [pc EXCEPT ![c] = "regetItem"]
        /\ Books(Intact(req[c].line, got[c]), {req[c].item})
    BY <1>9 DEF RentalDeleteLine, DeleteLine, deviceVars
  <2>2. spoiled' = spoiled
    BY <1>2, <2>1 DEF Books, CallExact
  <2>3. CallExact(c)'
    BY <1>2, <1>3, <2>1 DEF CallExact
  <2>4. LinesApart'
    BY <1>2, <2>1 DEF LinesApart
  <2> QED
    BY <1>1, <1>2, <1>3, <2>1, <2>2, <2>3, <2>4, CareCall
<1>10. CASE RentalRestoreItem(c)
  <2>1. /\ pc[c] = "restoreItem" /\ UNCHANGED <<orders, sold, line, live>>
        /\ End(c, "done") /\ "done" \in Ends
        /\ Books(stock[req[c].item] + got[c] = next[c], {req[c].item})
    BY <1>10 DEF RentalRestoreItem, RestoreItem, deviceVars, Ends
  <2>2. spoiled' = spoiled
    BY <1>2, <2>1 DEF Books, CallExact
  <2>3. LinesApart'
    BY <1>2, <2>1 DEF LinesApart
  <2> QED
    BY <1>1, <1>2, <2>1, <2>2, <2>3, CareEnd
<1> QED
  BY <1>5, <1>6, <1>7, <1>8, <1>9, <1>10 DEF CallStep

-----------------------------------------------------------------------------
(* A user who acts while the system is at rest starts the only call.       *)
LEMMA CareNewCall ==
    ASSUME RInv, CareState, Quiet, NEW c \in Calls, pc[c] = "idle",
           UNCHANGED <<stock, line, live, orders, sold, spoiled>>,
           req'[c].user # NoUser,
           pc' = [pc EXCEPT ![c] = pc'[c]], pc'[c] \in {"getItem", "getLine"}
    PROVE  CareState'
<1>1. /\ \A d \in Calls \ {c} : ~InFlight(d)'
      /\ \A o \in DOMAIN orders' : ~Unsent(o)'
  <2>1. \A d \in Calls \ {c} : pc'[d] = pc[d]
    BY DEF RInv, RentalTypeOK, TypeOK
  <2> QED
    BY <2>1 DEF Quiet, AllSent, Unsent, InFlight
<1>2. OneAtATime'
  BY <1>1 DEF OneAtATime
<1>3. LinesApart' /\ SoldLeave' /\ \A o \in DOMAIN orders' : OrderExact(o)'
  BY DEF CareState, LinesApart, SoldLeave, OrderExact, Intact
<1>4. CallExact(c)'
  BY DEF CallExact
<1> QED
  BY <1>1, <1>2, <1>3, <1>4 DEF CareState

(* An order put then is that of the basket as it is.                       *)
LEMMA CareOrder ==
    ASSUME RInv, CareState, Quiet, NEW u \in Users, PutOrder(u),
           UNCHANGED <<locals, spoiled, sold>>
    PROVE  CareState'
<1> PICK m : m = Len(orders) + 1
  OBVIOUS
<1>1. /\ orders' = Append(orders, NewOrder(u, LinesOf(view[u])))
      /\ UNCHANGED <<stock, line, live, pc, req, got, next, todo, sold, spoiled>>
  BY DEF PutOrder, locals
<1>2. /\ DOMAIN orders' = DOMAIN orders \cup {m}
      /\ m \notin DOMAIN orders
      /\ \A p \in DOMAIN orders : orders'[p] = orders[p]
      /\ orders'[m] = NewOrder(u, LinesOf(view[u]))
  BY <1>1, NewOrderDoc
<1>3. /\ \A d \in Calls : ~InFlight(d)'
      /\ \A o \in DOMAIN orders : ~Unsent(o) /\ orders[o].deletes = {}
  BY <1>1 DEF Quiet, AllSent, Unsent, InFlight
<1>4. \A o \in DOMAIN orders : ~Unsent(o)'
  BY <1>2, <1>3 DEF Unsent
<1>5. OneAtATime'
  BY <1>2, <1>3, <1>4 DEF OneAtATime
<1>6. \A l \in live : l \notin DOMAIN sold
  BY <1>3 DEF CareState, SoldLeave
<1>7. SoldLeave' /\ LinesApart'
  BY <1>1, <1>6 DEF SoldLeave, LinesApart, CareState
<1>8. \A e \in view[u] : Intact(e.line, e.count)
  <2>1. view[u] = LocalBasket(u)
    BY DEF Quiet
  <2> QED
    BY <1>6, <2>1 DEF LocalBasket, Basket, Intact
<1>9. ASSUME NEW o \in DOMAIN orders' PROVE OrderExact(o)'
  <2>1. CASE o = m
    <3>1. /\ orders'[o].stage = "queued" /\ orders'[o].entries = view[u]
          /\ orders'[o].deletes = LinesOf(view[u])
      BY <1>2, <2>1 DEF NewOrder
    <3> QED
      BY <1>1, <1>8, <3>1 DEF OrderExact, Intact
  <2>2. CASE o \in DOMAIN orders
    <3>1. OrderExact(o)
      BY <2>2 DEF CareState
    <3> QED
      BY <1>1, <1>2, <2>2, <3>1 DEF OrderExact, Intact
  <2> QED
    BY <1>2, <2>1, <2>2
<1> QED
  BY <1>1, <1>3, <1>5, <1>7, <1>9 DEF CareState

(* The server answers the only order.                                      *)
LEMMA CareServer ==
    ASSUME RInv, CareState, NEW o \in DOMAIN orders,
           \/ RentalCommitOrder(o)
           \/ \E l \in orders[o].deletes : RentalCommitDelete(o, l)
    PROVE  CareState'
<1>1. /\ Unsent(o) /\ UNCHANGED <<stock, line, pc, req, got, next, todo>>
  BY DEF RentalCommitOrder, CommitOrder, AnswerOrder, RentalCommitDelete, CommitDelete,
     AnswerDelete, locals, Unsent
<1>2. /\ \A d \in Calls : ~InFlight(d)'
      /\ \A p \in DOMAIN orders : p # o => ~Unsent(p)
  BY <1>1 DEF CareState, OneAtATime, InFlight
<1>3. OrderExact(o) /\ LinesApart /\ SoldLeave /\ spoiled = {}
  BY DEF CareState
<1>4. CASE RentalCommitOrder(o)
  <2>1. /\ orders[o].stage = "queued" /\ UNCHANGED live
        /\ orders' = [orders EXCEPT ![o].stage = "placed"]
        /\ Books({e \in orders[o].entries : ~Intact(e.line, e.count)} = {},
                 {e.item : e \in {e \in orders[o].entries : ~Intact(e.line, e.count)}})
        /\ DOMAIN sold' = DOMAIN sold \cup LinesOf(orders[o].entries)
    BY <1>4 DEF RentalCommitOrder, CommitOrder, AnswerOrder
  <2>2. /\ orders[o].deletes = LinesOf(orders[o].entries)
        /\ \A e \in orders[o].entries : Intact(e.line, e.count)
    BY <1>3, <2>1 DEF OrderExact
  <2>3. spoiled' = spoiled
    BY <2>1, <2>2 DEF Books
  <2>4. /\ DOMAIN orders' = DOMAIN orders
        /\ orders'[o].stage = "placed" /\ orders'[o].deletes = orders[o].deletes
        /\ \A p \in DOMAIN orders \ {o} : orders'[p] = orders[p]
    BY <2>1, AnswerDoc, <1>4 DEF RentalCommitOrder, CommitOrder, RInv, RentalTypeOK,
       DeviceType, OrderDoc
  <2>5. OneAtATime'
    BY <1>2, <2>4 DEF OneAtATime, Unsent
  <2>6. SoldLeave'
    BY <1>3, <2>1, <2>2, <2>4 DEF SoldLeave
  <2>7. LinesApart'
    BY <1>1, <1>3, <2>1 DEF LinesApart
  <2>8. ASSUME NEW p \in DOMAIN orders' PROVE OrderExact(p)'
    <3>1. CASE p = o
      BY <2>1, <2>2, <2>4, <3>1 DEF OrderExact
    <3>2. CASE p # o
      BY <1>2, <2>4, <3>2 DEF OrderExact, Unsent
    <3> QED
      BY <3>1, <3>2
  <2> QED
    BY <1>2, <1>3, <2>3, <2>5, <2>6, <2>7, <2>8 DEF CareState
<1>5. ASSUME NEW l \in orders[o].deletes, RentalCommitDelete(o, l) PROVE CareState'
  <2>1. /\ orders[o].stage # "queued" /\ live' = live \ {l} /\ sold' = sold
        /\ AnswerDelete(o, l)
        /\ Books(l \in DOMAIN sold \/ l \notin live, {line[l].item})
    BY <1>5 DEF RentalCommitDelete, CommitDelete, AnswerDelete
  <2>2. orders[o].deletes \subseteq DOMAIN sold
    BY <1>3, <2>1 DEF OrderExact
  <2>3. spoiled' = spoiled
    BY <1>5, <2>1, <2>2 DEF Books
  <2>4. /\ DOMAIN orders' = DOMAIN orders
        /\ orders'[o].stage # "queued" /\ orders'[o].deletes = orders[o].deletes \ {l}
        /\ \A p \in DOMAIN orders \ {o} :
               orders'[p].stage = orders[p].stage /\ orders'[p].deletes = orders[p].deletes
    BY <1>5, <2>1, AnswerDoc
  <2>5. OneAtATime'
    BY <1>2, <2>4 DEF OneAtATime, Unsent
  <2>6. SoldLeave'
    BY <1>3, <2>1, <2>4 DEF SoldLeave
  <2>7. LinesApart'
    BY <1>1, <1>3, <2>1 DEF LinesApart
  <2>8. ASSUME NEW p \in DOMAIN orders' PROVE OrderExact(p)'
    <3>1. CASE p = o
      BY <2>1, <2>2, <2>4, <3>1 DEF OrderExact
    <3>2. CASE p # o
      BY <1>2, <2>4, <3>2 DEF OrderExact, Unsent
    <3> QED
      BY <3>1, <3>2
  <2> QED
    BY <1>2, <1>3, <2>3, <2>5, <2>6, <2>7, <2>8 DEF CareState
<1> QED
  BY <1>4, <1>5

LEMMA CareElsewhere ==
    ASSUME CareState, UNCHANGED <<stock, line, live, locals, orders, sold, spoiled>>
    PROVE  CareState'
<1>1. OneAtATime' /\ LinesApart' /\ SoldLeave'
  BY DEF CareState, OneAtATime, LinesApart, SoldLeave, Unsent, InFlight, locals
<1>2. \A o \in DOMAIN orders' : OrderExact(o)'
  BY DEF CareState, OrderExact, Intact
<1>3. \A c : Matching(c)' = Matching(c)
  BY DEF Matching, Basket, locals
<1>4. ASSUME NEW c \in Calls, InFlight(c)' PROVE CallExact(c)'
  <2>1. InFlight(c) /\ CallExact(c)
    BY <1>4 DEF CareState, InFlight, locals
  <2> QED
    BY <1>3, <2>1 DEF CallExact, Intact, locals
<1> QED
  BY <1>1, <1>2, <1>4 DEF CareState

LEMMA CareStep ==
    ASSUME NamesDiffer, RInv, CareInv, [RentalNext]_vars
    PROVE  CareInv'
<1> SUFFICES ASSUME ~careless' PROVE CareState'
  BY DEF CareInv
<1>1. ASSUME ~careless PROVE CareState
  BY <1>1 DEF CareInv
<1>2. ASSUME NEW c \in Calls, CallStep(c) PROVE CareState'
  <2>1. careless' = careless
    BY <1>2 DEF CallStep, PlainStep, RentalUpdateItem, RentalQueryBasket, RentalUpdateLine,
       RentalDeleteLine, RentalRestoreItem, history
  <2> QED
    BY <1>1, <1>2, <2>1, CareMoves
<1>3. ASSUME NEW u \in Users, NEW c \in Calls, NEW a \in {u, NoUser},
             NEW i \in Items, NEW n \in 1 .. MaxCount, AddItem(c, u, a, i, n)
      PROVE  CareState'
  <2>1. ~careless /\ Quiet /\ a # NoUser
    BY <1>3 DEF AddItem
  <2>2. /\ pc[c] = "idle" /\ pc' = [pc EXCEPT ![c] = "getItem"]
        /\ req'[c].user = a
        /\ UNCHANGED <<stock, line, live, orders, sold, spoiled>>
    BY <1>3 DEF AddItem, CallAdd, Put, deviceVars
  <2>3. pc'[c] = "getItem"
    BY <2>2 DEF RInv, RentalTypeOK, TypeOK
  <2> QED
    BY <1>1, <2>1, <2>2, <2>3, CareNewCall
<1>4. ASSUME NEW u \in Users, NEW c \in Calls, NEW a \in {u, NoUser},
             NEW e \in view[u], RemoveItem(c, u, a, e)
      PROVE  CareState'
  <2>1. ~careless /\ Quiet /\ a # NoUser
    BY <1>4 DEF RemoveItem
  <2>2. /\ pc[c] = "idle" /\ pc' = [pc EXCEPT ![c] = "getLine"]
        /\ req'[c].user = a
        /\ UNCHANGED <<stock, line, live, orders, sold, spoiled>>
    BY <1>4, <2>1 DEF RemoveItem, CallDelete, Put
  <2>3. pc'[c] = "getLine"
    BY <2>2 DEF RInv, RentalTypeOK, TypeOK
  <2> QED
    BY <1>1, <2>1, <2>2, <2>3, CareNewCall
<1>5. ASSUME NEW u \in Users, UserPutsOrder(u) PROVE CareState'
  <2>1. ~careless /\ Quiet /\ PutOrder(u) /\ UNCHANGED <<locals, spoiled, sold>>
    BY <1>5 DEF UserPutsOrder
  <2> QED
    BY <1>1, <2>1, CareOrder
<1>6. ASSUME NEW o \in DOMAIN orders, ServerStep(o) PROVE CareState'
  <2>1. careless' = careless /\ (\/ RentalCommitOrder(o)
                                 \/ \E l \in orders[o].deletes : RentalCommitDelete(o, l))
    BY <1>6 DEF ServerStep, RentalCommitOrder, RentalRejectOrder, RentalCommitDelete,
       RentalRejectDelete
  <2> QED
    BY <1>1, <2>1, CareServer
<1>7. ASSUME NEW u \in Users, Refresh(u) \/ Callback(u) \/ LateError(u) \/ AppKilled(u)
      PROVE  CareState'
  <2>1. UNCHANGED <<stock, line, live, locals, orders, sold, spoiled, careless>>
    BY <1>7 DEF Refresh, Callback, LateError, AppKilled, Snapshot, PutOrderDone,
       PutOrderFailed, RemovalFailed, Kill, history
  <2> QED
    BY <1>1, <2>1, CareElsewhere
<1>8. CASE UNCHANGED vars
  BY <1>1, <1>8, CareElsewhere DEF vars, locals
<1>9. ASSUME \/ \E u \in Users : \E S \in SUBSET LinesOf(view[u]) : UserKilledInPutOrder(u, S)
             \/ \E c \in Calls : RentalAbandon(c)
      PROVE  FALSE
  BY <1>9 DEF UserKilledInPutOrder, RentalAbandon
<1> QED
  BY <1>2, <1>3, <1>4, <1>5, <1>6, <1>7, <1>8, <1>9 DEF RentalNext, UserStep

LEMMA CareInit == RentalInit => CareInv
<1> SUFFICES ASSUME RentalInit PROVE CareState
  BY DEF CareInv
<1>1. live = {} /\ DOMAIN orders = {} /\ spoiled = {} /\ \A c \in Calls : pc[c] = "idle"
  BY DEF RentalInit, DocumentsInit, CallsInit, DeviceInit, HistoryInit
<1>2. \A c \in Calls : ~InFlight(c)
  BY <1>1 DEF InFlight, AddSteps, DeleteSteps
<1> QED
  BY <1>1, <1>2 DEF CareState, OneAtATime, LinesApart, SoldLeave

(* With items of different names, addItemInBasket, deleteItemFromBasket    *)
(* and putOrder keep the books of every item exactly as long as users wait *)
(* for each other and nothing is lost, also if apps are restarted.         *)
THEOREM CarefulUse == NamesDiffer => (RentalSpec => []CarefulUseIsExact)
<1> SUFFICES ASSUME NamesDiffer PROVE RentalSpec => []CarefulUseIsExact
  OBVIOUS
<1>1. RentalInit => RInv /\ CareInv
  BY InitRInv, CareInit
<1>2. RInv /\ CareInv /\ [RentalNext]_vars => RInv' /\ CareInv'
  BY NextRInv, CareStep
<1>3. CareInv => CarefulUseIsExact
  BY DEF CareInv, CareState, CarefulUseIsExact
<1> QED
  BY <1>1, <1>2, <1>3, PTL DEF RentalSpec
=============================================================================
