--------------------------- MODULE BasketFunctions ---------------------------
(***************************************************************************)
(* The two callable cloud functions of functions/index.js.  Neither uses a *)
(* transaction: every Firestore operation of a call is a step of its own,  *)
(* and the steps of concurrent calls interleave.  What a call read is in   *)
(* its locals (got, next, todo) until a later step writes it back.         *)
(*                                                                         *)
(* Both handlers return before their first Firestore operation answers, so *)
(* the client's reply never depends on what the chain goes on to do; and   *)
(* since the platform may stop an instance that has replied, and any       *)
(* Firestore operation may be rejected, a chain may end at any step.       *)
(***************************************************************************)
EXTENDS Documents

CONSTANTS Calls,      \* invocations; each id is used once
          MaxCount    \* bound: the largest count one call asks for

ASSUME MaxCountAssumption == MaxCount \in Nat

VARIABLES pc,         \* the operation each invocation waits for
          req,        \* the request of every invocation made
          got,        \* itemCount of deleteItemFromBasket
          next,       \* newElementCount / newCount: the count to be written
          todo,       \* the basket updates sent out and not yet applied
          reply       \* what the callable answered to the client

locals == <<pc, req, got, next, todo, reply>>
callVars == <<stock, line, live, pc, req, got, next, todo, reply>>

AddSteps    == {"getItem", "updateItem", "queryBasket", "setLine", "updateLines"}
DeleteSteps == {"getLine", "deleteLine", "regetItem", "restoreItem"}
Ends        == {"done", "refused", "failed", "abandoned"}
PCs         == {"idle"} \cup AddSteps \cup DeleteSteps \cup Ends

Request == [user : Users \cup {NoUser}, item : Items,
            line : Lines \cup {NoLine}, count : 0 .. MaxCount]
Update  == [line : Lines, count : Int]

InFlight(c) == pc[c] \in AddSteps \cup DeleteSteps

CallsInit ==
    /\ pc = [c \in Calls |-> "idle"]
    /\ req = [c \in {} |-> {}]
    /\ got = [c \in Calls |-> 0]
    /\ next = [c \in Calls |-> 0]
    /\ todo = [c \in Calls |-> {}]
    /\ reply = [c \in Calls |-> "none"]

Init == DocumentsInit /\ CallsInit

(***************************************************************************)
(* Leaving a chain drops its locals.                                       *)
(***************************************************************************)
End(c, how) ==
    /\ pc' = [pc EXCEPT ![c] = how]
    /\ got' = [got EXCEPT ![c] = 0]
    /\ next' = [next EXCEPT ![c] = 0]
    /\ todo' = [todo EXCEPT ![c] = {}]

-----------------------------------------------------------------------------
(* addItemInBasket *)

(* The handler starts get() on the item and returns: the reply is success. *)
CallAdd(c, u, i, n) ==
    /\ pc[c] = "idle"
    /\ pc' = [pc EXCEPT ![c] = "getItem"]
    /\ req' = Put(req, c, [user |-> u, item |-> i, line |-> NoLine, count |-> n])
    /\ reply' = [reply EXCEPT ![c] = "success"]
    /\ UNCHANGED <<stock, line, live, got, next, todo>>

(* Mutant: without dbElementCount >= elementCount.                         *)
GetItemUnchecked(c) ==
    /\ pc[c] = "getItem"
    /\ next' = [next EXCEPT ![c] = stock[req[c].item] - req[c].count]
    /\ pc' = [pc EXCEPT ![c] = "updateItem"]
    /\ UNCHANGED <<stock, line, live, req, got, todo, reply>>

(* Enough in stock: send the blind update, with the count just read.       *)
GetItem(c) ==
    /\ pc[c] = "getItem"
    /\ stock[req[c].item] >= req[c].count
    /\ next' = [next EXCEPT ![c] = stock[req[c].item] - req[c].count]
    /\ pc' = [pc EXCEPT ![c] = "updateItem"]
    /\ UNCHANGED <<stock, line, live, req, got, todo, reply>>

(* Not enough: throw HttpsError, which only rejects the detached promise.  *)
Refuse(c) ==
    /\ pc[c] = "getItem"
    /\ stock[req[c].item] < req[c].count
    /\ End(c, "refused")
    /\ UNCHANGED <<stock, line, live, req, reply>>

(* Mutant: a missing sign-in goes unnoticed.                               *)
UpdateItemForAnyone(c) ==
    /\ pc[c] = "updateItem"
    /\ stock' = [stock EXCEPT ![req[c].item] = next[c]]
    /\ pc' = [pc EXCEPT ![c] = "queryBasket"]
    /\ next' = [next EXCEPT ![c] = 0]
    /\ UNCHANGED <<line, live, req, got, todo, reply>>

(* The item's count is overwritten; only then is the user looked up, and   *)
(* without one the chain ends in a TypeError.                              *)
UpdateItem(c) ==
    /\ pc[c] = "updateItem"
    /\ stock' = [stock EXCEPT ![req[c].item] = next[c]]
    /\ IF req[c].user = NoUser
         THEN End(c, "failed")
         ELSE /\ pc' = [pc EXCEPT ![c] = "queryBasket"]
              /\ next' = [next EXCEPT ![c] = 0]
              /\ UNCHANGED <<got, todo>>
    /\ UNCHANGED <<line, live, req, reply>>

(* where('name', '==', item.name) *)
Matching(c) ==
    {l \in Basket(req[c].user) : NameOf[line[l].item] = NameOf[req[c].item]}

(* Mutant: item.count = elementCount where the code has += .               *)
QueryBasketOverwrites(c) ==
    /\ pc[c] = "queryBasket"
    /\ pc' = [pc EXCEPT ![c] = IF Matching(c) = {} THEN "setLine" ELSE "updateLines"]
    /\ todo' = [todo EXCEPT ![c] =
                   {[line |-> l, count |-> req[c].count] : l \in Matching(c)}]
    /\ UNCHANGED <<stock, line, live, req, got, next, reply>>

(* No line of that name yet: send set() of a new document.  Otherwise send *)
(* one update per matching line, each with the count just read plus n.     *)
QueryBasket(c) ==
    /\ pc[c] = "queryBasket"
    /\ IF Matching(c) = {}
         THEN /\ pc' = [pc EXCEPT ![c] = "setLine"]
              /\ UNCHANGED todo
         ELSE /\ pc' = [pc EXCEPT ![c] = "updateLines"]
              /\ todo' = [todo EXCEPT ![c] =
                    {[line |-> l, count |-> line[l].count + req[c].count] :
                        l \in Matching(c)}]
    /\ UNCHANGED <<stock, line, live, req, got, next, reply>>

(* Mutant: item.count is not reset from the item's stock before set().     *)
SetLineWithStock(c, l) ==
    /\ pc[c] = "setLine"
    /\ l \in Lines \ born
    /\ line' = Put(line, l, [owner |-> req[c].user, item |-> req[c].item,
                             count |-> stock[req[c].item] + req[c].count])
    /\ live' = live \cup {l}
    /\ End(c, "done")
    /\ UNCHANGED <<stock, req, reply>>

SetLine(c, l) ==
    /\ pc[c] = "setLine"
    /\ l \in Lines \ born
    /\ line' = Put(line, l, [owner |-> req[c].user, item |-> req[c].item,
                             count |-> req[c].count])
    /\ live' = live \cup {l}
    /\ End(c, "done")
    /\ UNCHANGED <<stock, req, reply>>

(* Mutant: set(..., {merge: true}) in place of update().                   *)
UpdateLineAsSet(c, t) ==
    /\ pc[c] = "updateLines"
    /\ t \in todo[c]
    /\ line' = [line EXCEPT ![t.line].count = t.count]
    /\ live' = live \cup {t.line}
    /\ IF todo[c] = {t}
         THEN End(c, "done")
         ELSE /\ todo' = [todo EXCEPT ![c] = @ \ {t}]
              /\ UNCHANGED <<pc, got, next>>
    /\ UNCHANGED <<stock, req, reply>>

(* Mutant: the update is retried until the document is there.              *)
UpdateLineRetried(c, t) == t.line \in live /\ UpdateLineAsSet(c, t)

(* The updates travel independently; update() of a document that has gone  *)
(* is rejected and changes nothing.                                        *)
UpdateLine(c, t) ==
    /\ pc[c] = "updateLines"
    /\ t \in todo[c]
    /\ line' = IF t.line \in live
                 THEN [line EXCEPT ![t.line].count = t.count]
                 ELSE line
    /\ IF todo[c] = {t}
         THEN End(c, "done")
         ELSE /\ todo' = [todo EXCEPT ![c] = @ \ {t}]
              /\ UNCHANGED <<pc, got, next>>
    /\ UNCHANGED <<stock, live, req, reply>>

-----------------------------------------------------------------------------
(* deleteItemFromBasket *)

(* context.auth.uid is read at once: without a user the handler throws and *)
(* the client is answered with an error.                                   *)
CallDelete(c, u, l) ==
    /\ pc[c] = "idle"
    /\ req' = Put(req, c, [user |-> u, item |-> line[l].item, line |-> l,
                           count |-> 0])
    /\ IF u = NoUser
         THEN /\ pc' = [pc EXCEPT ![c] = "failed"]
              /\ reply' = [reply EXCEPT ![c] = "error"]
         ELSE /\ pc' = [pc EXCEPT ![c] = "getLine"]
              /\ reply' = [reply EXCEPT ![c] = "success"]
    /\ UNCHANGED <<stock, line, live, got, next, todo>>

(* data() of a missing document is undefined: item.count throws.           *)
GetLine(c) ==
    /\ pc[c] = "getLine"
    /\ IF req[c].line \in live
         THEN /\ got' = [got EXCEPT ![c] = line[req[c].line].count]
              /\ pc' = [pc EXCEPT ![c] = "deleteLine"]
              /\ UNCHANGED <<next, todo>>
         ELSE End(c, "failed")
    /\ UNCHANGED <<stock, line, live, req, reply>>

(* Mutant: the document that is deleted is not the line's.                 *)
DeleteLineOfOtherId(c) ==
    /\ pc[c] = "deleteLine"
    /\ pc' = [pc EXCEPT ![c] = "regetItem"]
    /\ UNCHANGED <<stock, line, live, req, got, next, todo, reply>>

(* delete() succeeds whether or not the document still exists.             *)
DeleteLine(c) ==
    /\ pc[c] = "deleteLine"
    /\ live' = live \ {req[c].line}
    /\ pc' = [pc EXCEPT ![c] = "regetItem"]
    /\ UNCHANGED <<stock, line, req, got, next, todo, reply>>

RegetItem(c) ==
    /\ pc[c] = "regetItem"
    /\ next' = [next EXCEPT ![c] = stock[req[c].item] + got[c]]
    /\ pc' = [pc EXCEPT ![c] = "restoreItem"]
    /\ UNCHANGED <<stock, line, live, req, got, todo, reply>>

RestoreItem(c) ==
    /\ pc[c] = "restoreItem"
    /\ stock' = [stock EXCEPT ![req[c].item] = next[c]]
    /\ End(c, "done")
    /\ UNCHANGED <<line, live, req, reply>>

-----------------------------------------------------------------------------
(* The instance stops after its reply, or an operation is rejected.        *)
Abandon(c) ==
    /\ InFlight(c)
    /\ End(c, "abandoned")
    /\ UNCHANGED <<stock, line, live, req, reply>>

Step(c) ==
    \/ GetItem(c) \/ Refuse(c) \/ UpdateItem(c) \/ QueryBasket(c)
    \/ \E l \in Lines : SetLine(c, l)
    \/ \E t \in todo[c] : UpdateLine(c, t)
    \/ GetLine(c) \/ DeleteLine(c) \/ RegetItem(c) \/ RestoreItem(c)

(* A user asks for 1 .. MaxCount pieces of an item.                        *)
Adding(c) ==
    \E u \in Users \cup {NoUser}, i \in Items, n \in 1 .. MaxCount :
        CallAdd(c, u, i, n)

(* A user, or a client whose sign-in has lapsed, removes a line it has     *)
(* seen: the line may be long gone.                                        *)
Removing(c) ==
    \E l \in born : \E u \in {line[l].owner, NoUser} : CallDelete(c, u, l)

Next == \E c \in Calls : Adding(c) \/ Removing(c) \/ Step(c) \/ Abandon(c)

Fairness == \A c \in Calls : WF_callVars(Step(c))

Spec == Init /\ [][Next]_callVars /\ Fairness

-----------------------------------------------------------------------------
(* Properties *)

(* Every variable holds what functions/index.js can put there; a chain     *)
(* that waits for a write knows what it writes, a finished one has no      *)
(* locals left.                                                            *)
TypeOK ==
    /\ DocumentsType
    /\ pc \in [Calls -> PCs]
    /\ DOMAIN req = {c \in Calls : pc[c] # "idle"}
    /\ req \in [DOMAIN req -> Request]
    /\ got \in [Calls -> Int]
    /\ next \in [Calls -> Int]
    /\ todo \in [Calls -> SUBSET Update]
    /\ reply \in [Calls -> {"none", "success", "error"}]
    /\ \A c \in Calls :
          /\ pc[c] \in {"queryBasket", "setLine", "updateLines"} => req[c].user # NoUser
          /\ pc[c] \in DeleteSteps => req[c].line \in born
          /\ pc[c] # "updateLines" => todo[c] = {}
          /\ \A t \in todo[c] : t.line \in born

(* However the calls' blind writes interleave, whatever is lost on the     *)
(* way, no item's stock and no basket line ever goes negative: each count  *)
(* written was checked against the count its own chain had read            *)
(* (dbElementCount >= elementCount), and additions only raise counts.      *)
StockNeverNegative ==
    /\ \A i \in Items : stock[i] >= 0
    /\ \A l \in born : line[l].count >= 0

(* The count of a basket document that was deleted and the document itself *)
(* never come back: chains that still hold its id (the updates of          *)
(* addItemInBasket, a second deleteItemFromBasket) cannot recreate it.     *)
NoResurrection ==
    [][born \ live \subseteq born' \ live']_callVars

(* Every chain that the platform lets run comes to an end, also the one    *)
(* that sends several updates, some of them to documents deleted since.    *)
EveryCallSettles == \A c \in Calls : InFlight(c) ~> ~InFlight(c)

(* What the handler means by throwing HttpsError('invalid-argument'): a    *)
(* caller whose item was refused is not answered with success.             *)
RefusalReachesClient == \A c \in Calls : pc[c] = "refused" => reply[c] # "success"
=============================================================================
