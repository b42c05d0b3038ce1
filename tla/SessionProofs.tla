---------------------------- MODULE SessionProofs ----------------------------
(***************************************************************************)
(* Theorems of Session, for any number of accounts, contents, phones, ends *)
(* of the process, and any length of the main queue.                       *)
(***************************************************************************)
EXTENDS Session, FiniteSetTheorems, SequenceTheorems, TLAPS

(* The places of the main queue, and whether a block of a kind waits.      *)
Places == 1 .. Len(blocks)
Waits(what) == \E i \in Places : blocks[i].what = what

-----------------------------------------------------------------------------
(* What the operations of the main queue do to its places.                 *)

LEMMA BlockFacts ==
    ASSUME NEW b \in Block
    PROVE  /\ b.what = "signedUp" => b.of \in Accounts
           /\ b.what \in {"infoCame", "info", "phoneCame", "phone"} => b.reply \in Reply
BY DEF Block

LEMMA DequeueFacts ==
    ASSUME blocks \in Seq(Block), due \in 0 .. Len(blocks), NEW what, Dequeue(what)
    PROVE  /\ blocks' \in Seq(Block) /\ due' \in 0 .. Len(blocks')
           /\ 1 \in Places /\ blocks[1].what = what /\ Head(blocks) = blocks[1]
           /\ Len(blocks') = Len(blocks) - 1
           /\ \A i \in Places' : i + 1 \in Places /\ blocks'[i] = blocks[i + 1]
           /\ \A i \in Places : i > 1 => i - 1 \in Places' /\ blocks'[i - 1] = blocks[i]
           /\ \A i \in Places' : i + 1 <= due => i <= due'
<1>1. blocks # <<>> /\ Head(blocks).what = what /\ blocks' = Tail(blocks)
      /\ due' = IF due > 0 THEN due - 1 ELSE 0
  BY DEF Dequeue
<1>2. Len(blocks) \in Nat /\ Len(blocks) >= 1 /\ Head(blocks) = blocks[1]
  BY <1>1
<1>3. Len(blocks') = Len(blocks) - 1 /\ blocks' \in Seq(Block)
  BY <1>1
<1>4. \A i \in 1 .. Len(blocks) - 1 : blocks'[i] = blocks[i + 1]
  BY <1>1
<1> QED
  BY <1>1, <1>2, <1>3, <1>4 DEF Places

LEMMA AppendFacts ==
    ASSUME blocks \in Seq(Block), NEW b \in Block, blocks' = Append(blocks, b)
    PROVE  /\ blocks' \in Seq(Block)
           /\ Len(blocks) \in Nat /\ Len(blocks') = Len(blocks) + 1
           /\ Places' = Places \cup {Len(blocks) + 1}
           /\ \A i \in Places : blocks'[i] = blocks[i]
           /\ blocks'[Len(blocks) + 1] = b
<1>1. Len(blocks) \in Nat /\ Len(blocks') = Len(blocks) + 1 /\ blocks' \in Seq(Block)
  OBVIOUS
<1> QED
  BY <1>1 DEF Places

LEMMA AppendTwoFacts ==
    ASSUME blocks \in Seq(Block), NEW b \in Block, NEW c \in Block, blocks' = blocks \o <<b, c>>
    PROVE  /\ blocks' \in Seq(Block)
           /\ Len(blocks) \in Nat /\ Len(blocks') = Len(blocks) + 2
           /\ Places' = Places \cup {Len(blocks) + 1, Len(blocks) + 2}
           /\ \A i \in Places : blocks'[i] = blocks[i]
           /\ blocks'[Len(blocks) + 1] = b /\ blocks'[Len(blocks) + 2] = c
<1>1. <<b, c>> \in Seq(Block) /\ Len(<<b, c>>) = 2
  OBVIOUS
<1>2. Len(blocks) \in Nat /\ Len(blocks') = Len(blocks) + 2 /\ blocks' \in Seq(Block)
  BY <1>1
<1> QED
  BY <1>1, <1>2 DEF Places

LEMMA CameFacts ==
    ASSUME blocks \in Seq(Block), due \in 0 .. Len(blocks), NEW alive \in BOOLEAN,
           NEW what \in {"infoCame", "phoneCame"}, NEW then \in {"info", "phone"},
           Came(what, then, alive)
    PROVE  /\ blocks' \in Seq(Block) /\ due' \in 0 .. Len(blocks')
           /\ 1 \in Places /\ blocks[1].what = what /\ Head(blocks) = blocks[1]
           /\ blocks[1].reply \in Reply
           /\ Len(blocks) \in Nat
           /\ Len(blocks') = IF alive THEN Len(blocks) ELSE Len(blocks) - 1
           /\ \A i \in Places' : \/ i + 1 \in Places /\ blocks'[i] = blocks[i + 1]
                                 \/ /\ alive /\ i = Len(blocks)
                                    /\ blocks'[i] = [what |-> then, reply |-> blocks[1].reply]
           /\ \A i \in Places : i > 1 => i - 1 \in Places' /\ blocks'[i - 1] = blocks[i]
           /\ alive => /\ Len(blocks) \in Places'
                       /\ blocks'[Len(blocks)] = [what |-> then, reply |-> blocks[1].reply]
           /\ \A i \in Places' : i + 1 <= due => i <= due'
<1> DEFINE b == [what |-> then, reply |-> Head(blocks).reply]
           new == IF alive THEN <<b>> ELSE <<>>
<1>1. /\ blocks # <<>> /\ Head(blocks).what = what
      /\ blocks' = Tail(blocks) \o new
      /\ due' = IF due > 0 THEN due - 1 ELSE 0
  BY DEF Came
<1>2. Len(blocks) \in Nat /\ Len(blocks) >= 1 /\ Head(blocks) = blocks[1] /\ blocks[1] \in Block
  BY <1>1
<1>3. Tail(blocks) \in Seq(Block) /\ Len(Tail(blocks)) = Len(blocks) - 1
      /\ \A i \in 1 .. Len(blocks) - 1 : Tail(blocks)[i] = blocks[i + 1]
  BY <1>1
<1>4. blocks[1].reply \in Reply
  BY <1>1, <1>2, BlockFacts
<1>5. b \in Block
  BY <1>2, <1>4 DEF Block
<1> HIDE DEF b
<1>6. new \in Seq(Block) /\ Len(new) = (IF alive THEN 1 ELSE 0) /\ (alive => new[1] = b)
  BY <1>5
<1> HIDE DEF new
<1>7. blocks' \in Seq(Block) /\ Len(blocks') = Len(blocks) - 1 + Len(new)
  BY <1>1, <1>3, <1>6
<1>8. \A i \in 1 .. Len(blocks) - 1 : blocks'[i] = blocks[i + 1]
  BY <1>1, <1>2, <1>3, <1>6
<1>9. alive => blocks'[Len(blocks)] = b
  <2>1. SUFFICES ASSUME alive PROVE blocks'[Len(blocks)] = b
    OBVIOUS
  <2>2. blocks' = Append(Tail(blocks), b)
    BY <2>1, <1>1, <1>3, <1>5, AppendIsConcat DEF new
  <2> QED
    BY <2>2, <1>2, <1>3, <1>5
<1>10. b = [what |-> then, reply |-> blocks[1].reply]
  BY <1>2 DEF b
<1>11. Len(blocks') = IF alive THEN Len(blocks) ELSE Len(blocks) - 1
  BY <1>2, <1>6, <1>7
<1>12. due' \in 0 .. Len(blocks') /\ \A i \in Places' : i + 1 <= due => i <= due'
  <2>1. due' = IF due > 0 THEN due - 1 ELSE 0
    BY <1>1
  <2>2. Len(blocks') \in Nat /\ Len(blocks') >= Len(blocks) - 1
    BY <1>2, <1>11
  <2> QED
    BY <2>1, <2>2, <1>2 DEF Places
<1>13. \A i \in Places : i > 1 => i - 1 \in Places' /\ blocks'[i - 1] = blocks[i]
  BY <1>2, <1>8, <1>11 DEF Places
<1>14. \A i \in Places' : i \in 1 .. Len(blocks) - 1 \/ (alive /\ i = Len(blocks))
  BY <1>2, <1>11 DEF Places
<1>15. \A i \in 1 .. Len(blocks) - 1 : i + 1 \in Places
  BY <1>2 DEF Places
<1>16. 1 \in Places /\ (alive => Len(blocks) \in Places')
  BY <1>2, <1>11 DEF Places
<1>17. blocks[1].what = what
  BY <1>1, <1>2
<1>18. \A i \in Places' :
          \/ i + 1 \in Places /\ blocks'[i] = blocks[i + 1]
          \/ /\ alive /\ i = Len(blocks)
             /\ blocks'[i] = [what |-> then, reply |-> blocks[1].reply]
  BY <1>8, <1>9, <1>10, <1>14, <1>15
<1> QED
  BY <1>2, <1>4, <1>7, <1>9, <1>10, <1>11, <1>12, <1>13, <1>16, <1>17, <1>18

-----------------------------------------------------------------------------
(* The inductive invariant.                                                *)

Types ==
    /\ docs \subseteq accounts /\ accounts \subseteq Accounts
    /\ phones \in [Accounts -> 0 .. MaxPhones] /\ dialled \in 0 .. MaxPhones
    /\ user \in accounts \cup {Nobody} /\ previous \in Users \cup {"off", "first"}
    /\ requests \subseteq [what : {"signIn", "signUp"}, of : Accounts, made : BOOLEAN]
    /\ \A r, q \in requests : r = q
    /\ \A r \in requests : r.made => r.what = "signUp" /\ r.of \in accounts
    /\ lookups \subseteq [of : Accounts, in : 1 .. MaxContents]
    /\ writes \in Seq(Reply)
    /\ root \in {"splash", "intro", "content"} /\ splashNav \in BOOLEAN
    /\ contents \in 0 .. MaxContents /\ owner \in Users
    /\ tab \in {"search", "profile"} /\ loaded \in BOOLEAN
    /\ shown \in Person /\ manager \in Person
    /\ alert \in {"none", "loading", "message"}
    /\ forced \in BOOLEAN /\ failed \in BOOLEAN /\ orphans \subseteq accounts
    /\ kills \in 0 .. MaxKills
    /\ blocks \in Seq(Block) /\ due \in 0 .. Len(blocks)

(* What the auth listener was told goes with the root.                     *)
RootFollows ==
    /\ root = "splash" <=> previous \in {"off", "first"}
    /\ root = "splash" => splashNav
    /\ root = "intro" => previous = Nobody
    /\ root = "content" => ~splashNav /\ contents >= 1

(* There is room for the content that is going to be opened.               *)
RoomFollows ==
    /\ previous = "first" => contents < MaxContents
    /\ requests # {} => contents < MaxContents
    /\ root = "intro" /\ user # Nobody => contents < MaxContents

(* A request waits under the alert of a form, and nobody is signed in.     *)
RequestWaits ==
    requests # {} =>
        /\ root = "intro" /\ alert = "loading" /\ user = Nobody
        /\ ~Waits("authError") /\ ~Waits("signedUp") /\ ~Waits("loggedOut")

(* A user at the intro is there only until the listener hears of him.      *)
IntroIsLeft == root = "intro" /\ user # Nobody => alert = "loading" /\ requests = {}

(* The form still waits for its refusal.                                   *)
RefusalWaits ==
    \A i \in Places : blocks[i].what = "authError" =>
        /\ requests = {} /\ root = "intro" /\ alert = "loading" /\ user = Nobody
        /\ ~Waits("signedUp")
        /\ \A j \in Places : blocks[j].what = "authError" => j = i

(* signUp's completion comes before the new user can log out.              *)
SignUpWaits ==
    \A i \in Places : blocks[i].what = "signedUp" =>
        /\ requests = {} /\ blocks[i].of \in accounts /\ user \in {blocks[i].of, Nobody}
        /\ \/ root = "intro" /\ alert = "loading"
           \/ root = "content" /\ (tab = "search" \/ i <= due)
        /\ \A j \in Places : blocks[j].what = "signedUp" => j = i

(* Nothing the user does comes between the log-out and its block, and the  *)
(* listener hears of it before.                                            *)
LogOutWaits ==
    \A i \in Places : blocks[i].what = "loggedOut" =>
        /\ i <= due /\ root = "content" /\ user = Nobody
        /\ \/ previous = Nobody
           \/ \E j \in Places : j < i /\ blocks[j].what = "notify"
        /\ ~Waits("signedUp")
        /\ \A j \in Places : blocks[j].what = "loggedOut" => j = i

(* The listener is going to hear of another user.                          *)
NewsComes == previous \notin {"off", user} => Waits("notify")

(* The content of a user is his own; without a user there is a reason.     *)
ContentIsOwn ==
    root = "content" =>
        /\ user # Nobody => previous = user /\ owner = user
        /\ user = Nobody => forced \/ Waits("loggedOut")

(* DocumentsFollowAccounts, by places.                                     *)
DocumentsFollow ==
    \A a \in accounts \ (docs \cup orphans) :
        \/ \E r \in requests : r.of = a /\ r.made
        \/ \E i \in Places : blocks[i].what = "signedUp" /\ blocks[i].of = a

AuthInv ==
    /\ Types /\ RootFollows /\ RoomFollows /\ RequestWaits /\ IntroIsLeft /\ RefusalWaits
    /\ SignUpWaits /\ LogOutWaits /\ NewsComes /\ ContentIsOwn /\ DocumentsFollow

-----------------------------------------------------------------------------
(* Types.                                                                  *)

LEMMA NetworkTypes == ASSUME AuthInv, Network PROVE Types'
<1> USE DEF Types, AuthInv, cloud, auth, flying, screens, profile, history, queue
<1>1. ASSUME NEW r \in requests, CreateUser(r) PROVE Types'
  <2> DEFINE q == [r EXCEPT !.made = TRUE]
  <2>1. requests' = {q}
    BY <1>1 DEF CreateUser
  <2>2. /\ q \in [what : {"signIn", "signUp"}, of : Accounts, made : BOOLEAN]
        /\ q.what = "signUp" /\ q.of = r.of /\ r.of \in Accounts
    BY <1>1 DEF CreateUser
  <2>3. accounts' = accounts \cup {r.of}
    BY <1>1 DEF CreateUser
  <2> HIDE DEF q
  <2>4. UNCHANGED <<docs, phones, dialled, auth, lookups, writes, screens, profile, alert,
                    history, kills, queue>>
    BY <1>1 DEF CreateUser
  <2> QED
    BY <2>1, <2>2, <2>3, <2>4
<1>2. ASSUME NEW r \in requests, SignedIn(r) PROVE Types'
  <2> DEFINE done == IF r.what = "signIn" THEN [what |-> "signedIn"]
                     ELSE [what |-> "signedUp", of |-> r.of]
  <2>1. Notify \in Block /\ done \in Block
    BY DEF Notify, Block
  <2>2. blocks' = blocks \o <<Notify, done>>
    BY <1>2 DEF SignedIn
  <2> HIDE DEF done
  <2>3. blocks' \in Seq(Block) /\ due' \in 0 .. Len(blocks')
    BY <1>2, <2>1, <2>2, AppendTwoFacts DEF SignedIn
  <2>4. r.of \in accounts
    BY <1>2 DEF SignedIn
  <2>5. user' = r.of /\ requests' \subseteq requests
    BY <1>2 DEF SignedIn
  <2>6. UNCHANGED <<cloud, previous, lookups, writes, screens, profile, alert, history, kills>>
    BY <1>2 DEF SignedIn
  <2> QED
    BY <2>3, <2>4, <2>5, <2>6
<1>3. ASSUME NEW r \in requests, SignInFails(r) PROVE Types'
  <2>1. [what |-> "authError"] \in Block
    BY DEF Block
  <2>2. blocks' \in Seq(Block) /\ due' \in 0 .. Len(blocks')
    BY <1>3, <2>1, AppendFacts DEF SignInFails, Send
  <2> QED
    BY <1>3, <2>2 DEF SignInFails
<1>4. ASSUME RefreshToken \/ SignOutByForce PROVE Types'
  <2>1. Notify \in Block
    BY DEF Notify, Block
  <2>2. blocks' \in Seq(Block) /\ due' \in 0 .. Len(blocks')
    BY <1>4, <2>1, AppendFacts DEF RefreshToken, SignOutByForce, Send
  <2>3. UNCHANGED <<cloud, previous, flying, screens, profile, alert, failed, orphans, kills>>
    BY <1>4 DEF RefreshToken, SignOutByForce
  <2>4. user' \in accounts' \cup {Nobody} /\ forced' \in BOOLEAN
    BY <1>4, <2>3 DEF RefreshToken, SignOutByForce
  <2> QED
    BY <2>2, <2>3, <2>4
<1>5. ASSUME NEW l \in lookups, GetDocument(l) PROVE Types'
  <2> DEFINE b == [what |-> "infoCame", reply |-> [of |-> l.of, in |-> l.in, phone |-> phones[l.of]]]
  <2>1. b \in Block
    BY DEF Block, Reply
  <2>2. (blocks' = Append(blocks, b) /\ due' = due) \/ UNCHANGED queue
    BY <1>5 DEF GetDocument, Send
  <2> HIDE DEF b
  <2>3. blocks' \in Seq(Block) /\ due' \in 0 .. Len(blocks')
    BY <2>1, <2>2, AppendFacts
  <2>4. lookups' \subseteq lookups /\ failed' \in BOOLEAN
    BY <1>5 DEF GetDocument
  <2>5. UNCHANGED <<cloud, auth, requests, writes, screens, profile, alert, forced, orphans, kills>>
    BY <1>5 DEF GetDocument
  <2> QED
    BY <2>3, <2>4, <2>5
<1>6. ASSUME UpdateData PROVE Types'
  <2> DEFINE b == [what |-> "phoneCame", reply |-> Head(writes)]
  <2>1. Head(writes) \in Reply /\ writes' \in Seq(Reply)
    BY <1>6 DEF UpdateData
  <2>2. b \in Block
    BY <2>1 DEF Block
  <2>3. (blocks' = Append(blocks, b) /\ due' = due) \/ UNCHANGED queue
    BY <1>6 DEF UpdateData, Send
  <2> HIDE DEF b
  <2>4. blocks' \in Seq(Block) /\ due' \in 0 .. Len(blocks')
    BY <2>2, <2>3, AppendFacts
  <2> QED
    BY <1>6, <2>1, <2>4 DEF UpdateData
<1> QED
  BY <1>1, <1>2, <1>3, <1>4, <1>5, <1>6 DEF Network

LEMMA MainTypes == ASSUME AuthInv, MainBlocks PROVE Types'
<1> USE DEF Types, AuthInv, cloud, auth, flying, screens, profile, history
<1>1. ASSUME NEW what, Dequeue(what)
      PROVE  /\ blocks' \in Seq(Block) /\ due' \in 0 .. Len(blocks')
             /\ Head(blocks) = blocks[1] /\ 1 \in Places /\ blocks[1].what = what
             /\ blocks[1] \in Block
  BY <1>1, DequeueFacts DEF Places
<1>2. ASSUME AuthStateDidChange PROVE Types'
  <2>1. ASSUME previous \notin {"off", user}, user # Nobody PROVE contents < MaxContents
    BY <2>1 DEF RootFollows, RoomFollows, ContentIsOwn, Users
  <2>2. blocks' \in Seq(Block) /\ due' \in 0 .. Len(blocks')
    BY <1>1, <1>2 DEF AuthStateDidChange
  <2>3. Blank \in Person /\ user \in Users
    BY SessionAssumption DEF Blank, Person, Users
  <2>4. /\ previous' \in Users \cup {"off", "first"}
        /\ root' \in {"splash", "intro", "content"} /\ splashNav' \in BOOLEAN
        /\ owner' \in Users /\ tab' \in {"search", "profile"} /\ loaded' \in BOOLEAN
        /\ shown' \in Person /\ alert' \in {"none", "loading", "message"} /\ forced' \in BOOLEAN
    BY <1>2, <2>3 DEF AuthStateDidChange, ShowIntro, ShowContent
  <2>5. contents' \in 0 .. MaxContents
    BY <1>2, <2>1, SessionAssumption DEF AuthStateDidChange, ShowIntro, ShowContent
  <2>6. UNCHANGED <<cloud, user, flying, manager, failed, orphans, kills>>
    BY <1>2 DEF AuthStateDidChange
  <2> QED
    BY <2>2, <2>4, <2>5, <2>6
<1>3. ASSUME SignInDone \/ SignInFailed PROVE Types'
  <2>1. blocks' \in Seq(Block) /\ due' \in 0 .. Len(blocks')
    BY <1>1, <1>3 DEF SignInDone, SignInFailed
  <2>2. alert' \in {alert, "message", "none"}
        /\ UNCHANGED <<cloud, auth, flying, screens, profile, history, kills>>
    BY <1>3 DEF SignInDone, SignInFailed
  <2> QED
    BY <2>1, <2>2
<1>4. ASSUME SignUpDone PROVE Types'
  <2>1. blocks[1].of \in accounts /\ Head(blocks) = blocks[1]
    BY <1>1, <1>4 DEF SignUpDone, SignUpWaits
  <2>2. blocks' \in Seq(Block) /\ due' \in 0 .. Len(blocks')
    BY <1>1, <1>4 DEF SignUpDone
  <2> QED
    BY <1>4, <2>1, <2>2 DEF SignUpDone, Register
<1>5. ASSUME InfoCame \/ PhoneCame PROVE Types'
  <2>1. OnScreen(Head(blocks).reply.in) \in BOOLEAN
    BY DEF OnScreen
  <2>2. blocks' \in Seq(Block) /\ due' \in 0 .. Len(blocks')
    BY <1>5, <2>1, CameFacts DEF InfoCame, PhoneCame
  <2>3. UNCHANGED <<cloud, auth, flying, screens, profile, alert, history, kills>>
    BY <1>5 DEF InfoCame, PhoneCame, Came
  <2> QED
    BY <2>2, <2>3
<1>6. ASSUME SetInfoDone PROVE Types'
  <2>1. Head(blocks).reply \in Reply /\ blocks' \in Seq(Block) /\ due' \in 0 .. Len(blocks')
    BY <1>1, <1>6, BlockFacts DEF SetInfoDone
  <2>2. manager' \in Person
    BY <1>6, <2>1 DEF SetInfoDone, Reply, Person, Users
  <2>3. shown' \in Person /\ alert' \in {"none", "loading", "message"}
    BY <1>6, <2>2 DEF SetInfoDone
  <2>4. UNCHANGED <<cloud, auth, flying, screens, history, kills>>
    BY <1>6 DEF SetInfoDone
  <2> QED
    BY <2>1, <2>2, <2>3, <2>4
<1>7. ASSUME SetPhoneDone PROVE Types'
  <2>1. Head(blocks).reply \in Reply /\ blocks' \in Seq(Block) /\ due' \in 0 .. Len(blocks')
    BY <1>1, <1>7, BlockFacts DEF SetPhoneDone
  <2>2. shown' \in Person /\ manager' \in Person
    BY <1>7, <2>1 DEF SetPhoneDone, Reply, Person
  <2>3. UNCHANGED <<cloud, auth, flying, screens, alert, history, kills>>
    BY <1>7 DEF SetPhoneDone
  <2> QED
    BY <2>1, <2>2, <2>3
<1>8. ASSUME LogOutDone PROVE Types'
  <2>1. blocks' \in Seq(Block) /\ due' \in 0 .. Len(blocks')
    BY <1>1, <1>8 DEF LogOutDone
  <2>2. Blank \in Person /\ <<>> \in Seq(Reply)
    BY SessionAssumption DEF Blank, Person, Users
  <2> QED
    BY <1>8, <2>1, <2>2 DEF LogOutDone
<1> QED
  BY <1>2, <1>3, <1>4, <1>5, <1>6, <1>7, <1>8 DEF MainBlocks

LEMMA UserTypes == ASSUME AuthInv, User \/ Kill PROVE Types'
<1> USE DEF Types, AuthInv, cloud, auth, flying, screens, profile, history
<1>1. ASSUME Between(blocks) PROVE blocks' \in Seq(Block) /\ due' \in 0 .. Len(blocks')
  BY <1>1 DEF Between
<1>2. Notify \in Block /\ [what |-> "loggedOut"] \in Block
  BY DEF Notify, Block
<1>3. ASSUME CheckSignedIn PROVE Types'
  <2>1. blocks' \in Seq(Block) /\ due' \in 0 .. Len(blocks')
    BY <1>2, <1>3, AppendFacts DEF CheckSignedIn, Between
  <2> QED
    BY <1>3, <2>1 DEF CheckSignedIn
<1>4. ASSUME Press \/ LeaveProfile PROVE Types'
  <2>1. blocks' \in Seq(Block) /\ due' \in 0 .. Len(blocks')
    BY <1>1, <1>4 DEF Press, LeaveProfile
  <2>2. UNCHANGED <<cloud, auth, flying, root, splashNav, contents, owner, loaded, profile,
                    history, kills>>
    BY <1>4 DEF Press, LeaveProfile
  <2>3. alert' \in {alert, "none"} /\ tab' \in {tab, "search"}
    BY <1>4 DEF Press, LeaveProfile
  <2> QED
    BY <2>1, <2>2, <2>3
<1>5. ASSUME OpenProfile PROVE Types'
  <2>1. user # Nobody => [of |-> user, in |-> contents] \in [of : Accounts, in : 1 .. MaxContents]
    BY <1>5, SessionAssumption DEF OpenProfile, RootFollows
  <2>2. lookups' \subseteq [of : Accounts, in : 1 .. MaxContents]
    BY <1>5, <2>1 DEF OpenProfile, SetInfo
  <2> QED
    BY <1>1, <1>5, <2>2 DEF OpenProfile
<1>6. ASSUME SetPhone PROVE Types'
  <2>1. dialled' \in 0 .. MaxPhones /\ user \in Accounts
    BY <1>6, SessionAssumption DEF SetPhone
  <2>2. [of |-> user, in |-> contents, phone |-> dialled'] \in Reply
    BY <1>6, <2>1, SessionAssumption DEF SetPhone, OnProfile, RootFollows, Reply
  <2>3. writes' \in Seq(Reply)
    BY <1>6, <2>2 DEF SetPhone
  <2>4. phones' \in [Accounts -> 0 .. MaxPhones]
    BY <1>6, <2>1 DEF SetPhone
  <2> QED
    BY SMTT(30), <1>1, <1>6, <2>1, <2>3, <2>4 DEF SetPhone
<1>7. ASSUME LogOut PROVE Types'
  <2>1. blocks' = blocks \o <<Notify, [what |-> "loggedOut"]>> \/ blocks' = Append(blocks, [what |-> "loggedOut"])
    <3>1. blocks' = (blocks \o (IF user # Nobody THEN <<Notify>> ELSE <<>>)) \o <<[what |-> "loggedOut"]>>
      BY <1>7 DEF LogOut, Between
    <3>2. CASE user # Nobody
      BY SMTT(30), <3>1, <3>2, <1>2
    <3>3. CASE user = Nobody
      BY <3>1, <3>3, <1>2
    <3> QED
      BY <3>2, <3>3
  <2>2. blocks' \in Seq(Block) /\ due' \in 0 .. Len(blocks')
    BY <1>2, <1>7, <2>1, AppendFacts, AppendTwoFacts DEF LogOut, Between
  <2>3. user' = Nobody
        /\ UNCHANGED <<cloud, previous, flying, screens, profile, alert, history, kills>>
    BY <1>7 DEF LogOut
  <2> QED
    BY <2>2, <2>3
<1>8. ASSUME NEW what \in {"signIn", "signUp"}, NEW a \in Accounts, Submit(what, a) PROVE Types'
  <2>1. requests = {}
    BY <1>8 DEF Submit, RequestWaits
  <2> DEFINE r == [what |-> what, of |-> a, made |-> FALSE]
  <2>2. requests' = {r} \/ requests' = {}
    BY <1>8, <2>1 DEF Submit
  <2>3. r \in [what : {"signIn", "signUp"}, of : Accounts, made : BOOLEAN] /\ ~r.made
    OBVIOUS
  <2>4. alert' \in {"none", "loading", "message"}
    BY <1>8 DEF Submit
  <2>5. UNCHANGED <<cloud, auth, lookups, writes, screens, profile, history, kills>>
    BY <1>8 DEF Submit
  <2>6. blocks' \in Seq(Block) /\ due' \in 0 .. Len(blocks')
    BY <1>1, <1>8 DEF Submit
  <2> HIDE DEF r
  <2> QED
    BY <2>2, <2>3, <2>4, <2>5, <2>6
<1>9. ASSUME Kill PROVE Types'
  <2>1. Blank \in Person /\ <<>> \in Seq(Reply) /\ <<>> \in Seq(Block) /\ Len(<<>>) = 0
    BY SessionAssumption DEF Blank, Person, Users
  <2>2. {r.of : r \in {q \in requests : q.made}} \subseteq accounts
    OBVIOUS
  <2>3. {blocks[i].of : i \in {j \in DOMAIN blocks : blocks[j].what = "signedUp"}} \subseteq accounts
    BY DEF SignUpWaits, Places
  <2>4. orphans' \subseteq accounts
    BY <1>9, <2>2, <2>3 DEF Kill
  <2>5. UNCHANGED <<cloud, user, contents, owner, forced, failed>>
    BY <1>9 DEF Kill
  <2>6. kills' \in 0 .. MaxKills
    BY <1>9, SessionAssumption DEF Kill
  <2>7. /\ previous' = "off" /\ requests' = {} /\ lookups' = {} /\ writes' = <<>>
        /\ root' = "splash" /\ splashNav' = TRUE /\ tab' = "search" /\ loaded' = FALSE
        /\ shown' = Blank /\ manager' = Blank /\ alert' = "none"
        /\ blocks' = <<>> /\ due' = 0
    BY <1>9 DEF Kill
  <2>8. blocks' \in Seq(Block) /\ due' \in 0 .. Len(blocks') /\ writes' \in Seq(Reply)
    BY <2>1, <2>7
  <2>9. shown' \in Person /\ manager' \in Person
    BY <2>1, <2>7
  <2> QED
    BY <2>4, <2>5, <2>6, <2>7, <2>8, <2>9
<1> QED
  BY <1>3, <1>4, <1>5, <1>6, <1>7, <1>8, <1>9 DEF User

-----------------------------------------------------------------------------
(* Who is signed in, and the screens.                                      *)

Marked == {"authError", "signedUp", "loggedOut"}

(* What most steps do to the main queue: d blocks leave it, and none that  *)
(* is marked comes or goes.                                                *)
Keeps(d) ==
    /\ \A i \in Places : blocks[i].what \in Marked \cup {"notify"} =>
           i - d \in Places' /\ blocks'[i - d] = blocks[i]
    /\ \A i \in Places' : blocks'[i].what \in Marked =>
           i + d \in Places /\ blocks'[i] = blocks[i + d] /\ (i + d <= due => i <= due')

(* And what they do to the rest.                                           *)
Apart ==
    /\ UNCHANGED <<accounts, docs, user, previous, requests, root, splashNav, contents, owner,
                   forced, orphans>>
    /\ root = "intro" /\ alert = "loading" => alert' = "loading"
    /\ tab' = "search" \/ tab' = tab \/ due' = Len(blocks')

LEMMA KeptAuth ==
    ASSUME AuthInv, Types', NEW d \in {0, 1}, Keeps(d), Apart
    PROVE  AuthInv'
<1> USE DEF AuthInv, Apart
<1>1. Len(blocks) \in Nat /\ due \in Nat /\ Len(blocks') \in Nat /\ due' \in Nat
  BY DEF Types
<1>2. ASSUME NEW what \in Marked, Waits(what)' PROVE Waits(what)
  BY <1>2 DEF Keeps, Waits
<1>3. ASSUME NEW what \in Marked \cup {"notify"}, Waits(what) PROVE Waits(what)'
  BY <1>3 DEF Keeps, Waits
<1>4. RootFollows' /\ RoomFollows' /\ IntroIsLeft'
  BY DEF RootFollows, RoomFollows, IntroIsLeft
<1>5. RequestWaits'
  BY <1>2 DEF RequestWaits, Marked
<1>6. RefusalWaits'
  <2>1. SUFFICES ASSUME NEW i \in Places', blocks'[i].what = "authError"
                 PROVE  /\ requests' = {} /\ root' = "intro" /\ alert' = "loading" /\ user' = Nobody
                        /\ ~Waits("signedUp")'
                        /\ \A j \in Places' : blocks'[j].what = "authError" => j = i
    BY DEF RefusalWaits
  <2>2. i + d \in Places /\ blocks[i + d].what = "authError"
    BY <2>1 DEF Keeps, Marked
  <2>3. \A j \in Places' : blocks'[j].what = "authError" => j + d = i + d
    BY <2>1, <2>2 DEF Keeps, Marked, RefusalWaits
  <2> QED
    BY <1>1, <1>2, <2>2, <2>3 DEF RefusalWaits, Marked, Places
<1>7. SignUpWaits'
  <2>1. SUFFICES ASSUME NEW i \in Places', blocks'[i].what = "signedUp"
                 PROVE  /\ requests' = {} /\ blocks'[i].of \in accounts'
                        /\ user' \in {blocks'[i].of, Nobody}
                        /\ \/ root' = "intro" /\ alert' = "loading"
                           \/ root' = "content" /\ (tab' = "search" \/ i <= due')
                        /\ \A j \in Places' : blocks'[j].what = "signedUp" => j = i
    BY DEF SignUpWaits
  <2>2. i + d \in Places /\ blocks'[i] = blocks[i + d] /\ blocks[i + d].what = "signedUp"
        /\ (i + d <= due => i <= due')
    BY <2>1 DEF Keeps, Marked
  <2>3. \A j \in Places' : blocks'[j].what = "signedUp" => j + d = i + d
    BY <2>1, <2>2 DEF Keeps, Marked, SignUpWaits
  <2>4. due' = Len(blocks') => i <= due'
    BY <1>1 DEF Places
  <2> QED
    BY <1>1, <2>2, <2>3, <2>4 DEF SignUpWaits, Places
<1>8. LogOutWaits'
  <2>1. SUFFICES ASSUME NEW i \in Places', blocks'[i].what = "loggedOut"
                 PROVE  /\ i <= due' /\ root' = "content" /\ user' = Nobody
                        /\ \/ previous' = Nobody
                           \/ \E j \in Places' : j < i /\ blocks'[j].what = "notify"
                        /\ ~Waits("signedUp")'
                        /\ \A j \in Places' : blocks'[j].what = "loggedOut" => j = i
    BY DEF LogOutWaits
  <2>2. i + d \in Places /\ blocks[i + d].what = "loggedOut" /\ (i + d <= due => i <= due')
    BY <2>1 DEF Keeps, Marked
  <2>3. \A j \in Places' : blocks'[j].what = "loggedOut" => j + d = i + d
    BY <2>1, <2>2 DEF Keeps, Marked, LogOutWaits
  <2>4. ASSUME previous # Nobody
        PROVE  \E j \in Places' : j < i /\ blocks'[j].what = "notify"
    <3>1. PICK j \in Places : j < i + d /\ blocks[j].what = "notify"
      BY <2>2, <2>4 DEF LogOutWaits
    <3>2. j - d \in Places' /\ blocks'[j - d].what = "notify"
      BY <3>1 DEF Keeps
    <3> QED
      BY <1>1, <3>1, <3>2 DEF Places
  <2> QED
    BY <1>1, <1>2, <2>2, <2>3, <2>4 DEF LogOutWaits, Marked, Places
<1>9. NewsComes' /\ ContentIsOwn'
  BY <1>3 DEF NewsComes, ContentIsOwn, Marked
<1>10. DocumentsFollow'
  <2>1. ASSUME NEW a, NEW i \in Places, blocks[i].what = "signedUp", blocks[i].of = a
        PROVE  \E j \in Places' : blocks'[j].what = "signedUp" /\ blocks'[j].of = a
    BY <2>1 DEF Keeps, Marked
  <2> QED
    BY <2>1 DEF DocumentsFollow
<1> QED
  BY <1>4, <1>5, <1>6, <1>7, <1>8, <1>9, <1>10

(* The steps that are of no concern to the session.                        *)
Apartly ==
    \/ RefreshToken \/ UpdateData \/ \E l \in lookups : GetDocument(l)
    \/ SignInDone \/ InfoCame \/ PhoneCame \/ SetInfoDone \/ SetPhoneDone
    \/ Press \/ OpenProfile \/ LeaveProfile \/ SetPhone

LEMMA ApartlyAuth == ASSUME AuthInv, Apartly, Types' PROVE AuthInv'
<1> USE DEF AuthInv, cloud, auth, flying, screens, profile, history
<1>1. blocks \in Seq(Block) /\ due \in 0 .. Len(blocks) /\ Len(blocks) \in Nat
      /\ \A i \in Places : i \in Nat /\ i >= 1 /\ i - 1 \in Int
  <2>1. blocks \in Seq(Block) /\ due \in 0 .. Len(blocks)
    BY DEF Types
  <2> QED
    BY <2>1 DEF Places
<1>2. ASSUME blocks' = blocks PROVE Places' = Places
  BY <1>2 DEF Places
<1>3. ASSUME RefreshToken PROVE Keeps(0) /\ Apart
  <2> DEFINE b == Notify
  <2>1. b \in Block /\ b.what \notin Marked
    BY DEF Notify, Block, Marked
  <2>2. blocks' = Append(blocks, b) /\ due' = due
    BY <1>3 DEF RefreshToken, Send
  <2> HIDE DEF b
  <2>3. /\ Places' = Places \cup {Len(blocks) + 1} /\ blocks'[Len(blocks) + 1] = b
        /\ \A i \in Places : blocks'[i] = blocks[i]
    BY <1>1, <2>1, <2>2, AppendFacts
  <2>4. \A i \in Places' : blocks'[i].what \in Marked => i \in Places /\ blocks'[i] = blocks[i]
    BY <2>1, <2>3
  <2>5. \A i \in Places : i - 0 = i /\ i + 0 = i
    BY <1>1
  <2>6. Keeps(0)
    BY <2>2, <2>3, <2>4, <2>5 DEF Keeps
  <2> QED
    BY <1>3, <2>6 DEF RefreshToken, Apart
<1>4. ASSUME UpdateData PROVE Keeps(0) /\ Apart
  <2> DEFINE b == [what |-> "phoneCame", reply |-> Head(writes)]
  <2>1. b \in Block /\ b.what \notin Marked
    BY <1>4 DEF UpdateData, Block, Marked, Types
  <2>2. (blocks' = Append(blocks, b) /\ due' = due) \/ (blocks' = blocks /\ due' = due)
    BY <1>4 DEF UpdateData, Send, queue
  <2> HIDE DEF b
  <2>3. Keeps(0)
    BY <1>1, <1>2, <2>1, <2>2, AppendFacts DEF Keeps
  <2> QED
    BY <1>4, <2>3 DEF UpdateData, Apart
<1>5. ASSUME NEW l \in lookups, GetDocument(l) PROVE Keeps(0) /\ Apart
  <2> DEFINE b == [what |-> "infoCame", reply |-> [of |-> l.of, in |-> l.in, phone |-> phones[l.of]]]
  <2>1. b \in Block /\ b.what \notin Marked
    BY DEF Block, Reply, Marked, Types
  <2>2. (blocks' = Append(blocks, b) /\ due' = due) \/ (blocks' = blocks /\ due' = due)
    BY <1>5 DEF GetDocument, Send, queue
  <2> HIDE DEF b
  <2>3. Keeps(0)
    BY <1>1, <1>2, <2>1, <2>2, AppendFacts DEF Keeps
  <2> QED
    BY <1>5, <2>3 DEF GetDocument, Apart
<1>6. ASSUME NEW what \in {"signedIn", "info", "phone"}, Dequeue(what) PROVE Keeps(1)
  <2>1. what \notin Marked \cup {"notify"}
    BY DEF Marked
  <2>2. \A i \in Places : blocks[i].what \in Marked \cup {"notify"} => i > 1
    BY <1>1, <1>6, <2>1, DequeueFacts
  <2> QED
    BY <1>1, <1>6, <2>2, DequeueFacts DEF Keeps
<1>7. ASSUME NEW what \in {"infoCame", "phoneCame"}, NEW then \in {"info", "phone"},
             NEW alive \in BOOLEAN, Came(what, then, alive)
      PROVE  Keeps(1)
  <2>1. what \notin Marked \cup {"notify"} /\ then \notin Marked
    BY DEF Marked
  <2>2. \A i \in Places : blocks[i].what \in Marked \cup {"notify"} => i > 1
    BY <1>1, <1>7, <2>1, CameFacts
  <2>3. \A i \in Places' : blocks'[i].what \in Marked =>
            i + 1 \in Places /\ blocks'[i] = blocks[i + 1] /\ (i + 1 <= due => i <= due')
    BY <1>1, <1>7, <2>1, CameFacts
  <2>4. \A i \in Places : i > 1 => i - 1 \in Places' /\ blocks'[i - 1] = blocks[i]
    BY <1>1, <1>7, CameFacts
  <2> QED
    BY <2>2, <2>3, <2>4 DEF Keeps
<1>8. ASSUME SignInDone PROVE Keeps(1) /\ Apart
  BY <1>6, <1>8 DEF SignInDone, Apart
<1>9. ASSUME InfoCame \/ PhoneCame PROVE Keeps(1) /\ Apart
  <2>1. OnScreen(Head(blocks).reply.in) \in BOOLEAN
    BY DEF OnScreen
  <2> QED
    BY <1>7, <1>9, <2>1 DEF InfoCame, PhoneCame, Came, Apart
<1>10. ASSUME SetInfoDone \/ SetPhoneDone PROVE Keeps(1) /\ Apart
  BY <1>6, <1>10 DEF SetInfoDone, SetPhoneDone, OnScreen, Apart
<1>11. ASSUME Between(blocks) PROVE Keeps(0) /\ due' = Len(blocks')
  BY <1>1, <1>2, <1>11 DEF Between, Keeps, Places
<1>12. ASSUME Press \/ OpenProfile \/ LeaveProfile \/ SetPhone PROVE Keeps(0) /\ Apart
  BY <1>11, <1>12 DEF Press, OpenProfile, LeaveProfile, SetPhone, OnProfile, Apart
<1> QED
  BY <1>3, <1>4, <1>5, <1>8, <1>9, <1>10, <1>12, KeptAuth DEF Apartly

LEMMA CreateUserAuth ==
    ASSUME AuthInv, NEW r \in requests, CreateUser(r), Types'
    PROVE  AuthInv'
<1> USE DEF AuthInv, cloud, auth, flying, screens, profile, history, queue
<1> DEFINE q == [r EXCEPT !.made = TRUE]
<1>1. requests' = {q} /\ q.of = r.of /\ q.made /\ requests = {r}
  BY DEF CreateUser, Types
<1>2. /\ accounts' = accounts \cup {r.of}
      /\ UNCHANGED <<docs, user, previous, root, splashNav, contents, owner, tab, alert, forced,
                     orphans, blocks, due>>
  BY DEF CreateUser
<1> HIDE DEF q
<1>3. Places' = Places /\ \A what : Waits(what)' = Waits(what)
  BY <1>2 DEF Places, Waits
<1>4. requests # {} /\ requests' # {}
  BY <1>1
<1>5. RootFollows' /\ RoomFollows' /\ RequestWaits' /\ IntroIsLeft'
  BY <1>2, <1>3, <1>4 DEF RootFollows, RoomFollows, RequestWaits, IntroIsLeft
<1>6. RefusalWaits' /\ SignUpWaits' /\ LogOutWaits'
  BY <1>2, <1>3, <1>4 DEF RefusalWaits, SignUpWaits, LogOutWaits
<1>7. NewsComes' /\ ContentIsOwn'
  BY <1>2, <1>3 DEF NewsComes, ContentIsOwn
<1>8. DocumentsFollow'
  BY <1>1, <1>2, <1>3 DEF DocumentsFollow
<1> QED
  BY <1>5, <1>6, <1>7, <1>8

LEMMA SignedInAuth ==
    ASSUME AuthInv, NEW r \in requests, SignedIn(r), Types'
    PROVE  AuthInv'
<1> USE DEF AuthInv, cloud, auth, flying, screens, profile, history
<1> DEFINE done == IF r.what = "signIn" THEN [what |-> "signedIn"]
                   ELSE [what |-> "signedUp", of |-> r.of]
           n == Len(blocks)
<1>1. Notify \in Block /\ done \in Block /\ Notify.what = "notify"
  BY DEF Notify, Block, Types
<1>2. /\ done.what \in {"signedIn", "signedUp"}
      /\ done.what = "signedUp" => done.of = r.of
      /\ r.made => done.what = "signedUp"
      /\ done.what = "signedUp" => r.of \in accounts
  BY DEF SignedIn, Types
<1>3. blocks' = blocks \o <<Notify, done>>
  BY DEF SignedIn
<1> HIDE DEF done
<1>4. /\ n \in Nat /\ Places' = Places \cup {n + 1, n + 2}
      /\ \A i \in Places : blocks'[i] = blocks[i]
      /\ blocks'[n + 1].what = "notify" /\ blocks'[n + 2] = done
  BY <1>1, <1>3, AppendTwoFacts DEF Types
<1>5. requests = {r} /\ requests' = {} /\ user' = r.of /\ user' # Nobody
  BY SessionAssumption DEF SignedIn, Types
<1>6. UNCHANGED <<accounts, docs, previous, root, splashNav, contents, owner, tab, alert, forced,
                  orphans, due>>
  BY DEF SignedIn
<1>7. /\ root = "intro" /\ alert = "loading" /\ user = Nobody /\ previous = Nobody
      /\ contents < MaxContents
      /\ \A i \in Places : blocks[i].what \notin Marked
  BY <1>5 DEF RequestWaits, RootFollows, RoomFollows, Waits, Marked
<1>8. \A i \in Places' : blocks'[i].what \in Marked => i = n + 2 /\ done.what = "signedUp"
  BY <1>2, <1>4, <1>7 DEF Marked
<1>9. RootFollows' /\ RoomFollows' /\ RequestWaits' /\ IntroIsLeft'
  BY <1>5, <1>6, <1>7 DEF RootFollows, RoomFollows, RequestWaits, IntroIsLeft
<1>10. RefusalWaits' /\ LogOutWaits'
  BY <1>4, <1>8 DEF RefusalWaits, LogOutWaits, Marked
<1>11. SignUpWaits'
  BY <1>2, <1>4, <1>5, <1>6, <1>7, <1>8 DEF SignUpWaits, Marked
<1>12. NewsComes' /\ ContentIsOwn'
  BY <1>4, <1>6, <1>7 DEF NewsComes, ContentIsOwn, Waits
<1>13. DocumentsFollow'
  BY <1>2, <1>4, <1>5, <1>6 DEF DocumentsFollow
<1> QED
  BY <1>9, <1>10, <1>11, <1>12, <1>13

LEMMA SignInFailsAuth ==
    ASSUME AuthInv, NEW r \in requests, SignInFails(r), Types'
    PROVE  AuthInv'
<1> USE DEF AuthInv, cloud, auth, flying, screens, profile, history
<1> DEFINE b == [what |-> "authError"]
           n == Len(blocks)
<1>1. b \in Block /\ b.what = "authError" /\ blocks' = Append(blocks, b)
  BY DEF SignInFails, Send, Block
<1> HIDE DEF b
<1>2. /\ n \in Nat /\ Places' = Places \cup {n + 1}
      /\ \A i \in Places : blocks'[i] = blocks[i]
      /\ blocks'[n + 1].what = "authError"
  BY <1>1, AppendFacts DEF Types
<1>3. requests = {r} /\ requests' = {}
  BY DEF SignInFails, Types
<1>4. orphans' = orphans \cup (IF r.made THEN {r.of} ELSE {})
  BY DEF SignInFails
<1>5. UNCHANGED <<accounts, docs, user, previous, root, splashNav, contents, owner, tab, alert, forced>>
  BY DEF SignInFails
<1>6. /\ root = "intro" /\ alert = "loading" /\ user = Nobody /\ previous = Nobody
      /\ \A i \in Places : blocks[i].what \notin Marked
  BY <1>3 DEF RequestWaits, RootFollows, Waits, Marked
<1>7. \A i \in Places' : blocks'[i].what \in Marked => i = n + 1
  BY <1>2, <1>6
<1>8. RootFollows' /\ RoomFollows' /\ RequestWaits' /\ IntroIsLeft'
  BY <1>3, <1>5, <1>6 DEF RootFollows, RoomFollows, RequestWaits, IntroIsLeft
<1>9. SignUpWaits' /\ LogOutWaits'
  BY <1>2, <1>7 DEF SignUpWaits, LogOutWaits, Marked
<1>10. RefusalWaits'
  BY <1>2, <1>3, <1>5, <1>6, <1>7 DEF RefusalWaits, Waits, Marked
<1>11. NewsComes' /\ ContentIsOwn'
  BY <1>5, <1>6 DEF NewsComes, ContentIsOwn
<1>12. DocumentsFollow'
  BY <1>2, <1>3, <1>4, <1>5 DEF DocumentsFollow
<1> QED
  BY <1>8, <1>9, <1>10, <1>11, <1>12

LEMMA SignOutByForceAuth ==
    ASSUME AuthInv, SignOutByForce, Types'
    PROVE  AuthInv'
<1> USE DEF AuthInv, cloud, auth, flying, screens, profile, history
<1> DEFINE b == Notify
           n == Len(blocks)
<1>1. b \in Block /\ b.what = "notify" /\ blocks' = Append(blocks, b)
  BY DEF SignOutByForce, Send, Notify, Block
<1> HIDE DEF b
<1>2. /\ n \in Nat /\ Places' = Places \cup {n + 1}
      /\ \A i \in Places : blocks'[i] = blocks[i]
      /\ blocks'[n + 1].what = "notify"
  BY <1>1, AppendFacts DEF Types
<1>3. /\ user # Nobody /\ user' = Nobody /\ forced' = TRUE
      /\ UNCHANGED <<accounts, docs, previous, requests, root, splashNav, contents, owner, tab,
                     alert, orphans, due>>
  BY DEF SignOutByForce, Send
<1>4. /\ requests = {}
      /\ \A i \in Places : blocks[i].what \notin {"authError", "loggedOut"}
  BY <1>3 DEF RequestWaits, RefusalWaits, LogOutWaits
<1>5. RootFollows' /\ RoomFollows' /\ RequestWaits' /\ IntroIsLeft'
  BY <1>3, <1>4 DEF RootFollows, RoomFollows, RequestWaits, IntroIsLeft
<1>6. RefusalWaits' /\ LogOutWaits'
  BY <1>2, <1>4 DEF RefusalWaits, LogOutWaits
<1>7. SignUpWaits'
  BY <1>2, <1>3 DEF SignUpWaits
<1>8. NewsComes' /\ ContentIsOwn'
  BY <1>2, <1>3 DEF NewsComes, ContentIsOwn, Waits
<1>9. DocumentsFollow'
  BY <1>2, <1>3 DEF DocumentsFollow
<1> QED
  BY <1>5, <1>6, <1>7, <1>8, <1>9

(* A block has left; the others have moved up.                             *)
Shifts ==
    /\ 1 \in Places /\ Len(blocks) \in Nat /\ due \in Nat /\ due' \in Nat
    /\ \A i \in Places : i \in Nat /\ i >= 1
    /\ \A i \in Places' : /\ i \in Nat /\ i >= 1
                          /\ i + 1 \in Places /\ blocks'[i] = blocks[i + 1]
                          /\ i + 1 <= due => i <= due'
    /\ \A i \in Places : i > 1 => i - 1 \in Places' /\ blocks'[i - 1] = blocks[i]

LEMMA DequeueShifts ==
    ASSUME Types, Types', NEW what, Dequeue(what)
    PROVE  Shifts /\ blocks[1].what = what /\ Head(blocks) = blocks[1]
<1>1. Len(blocks) \in Nat /\ Len(blocks') \in Nat /\ due \in Nat /\ due' \in Nat
  <2>1. blocks \in Seq(Block) /\ due \in 0 .. Len(blocks)
    BY DEF Types
  <2>2. blocks' \in Seq(Block) /\ due' \in 0 .. Len(blocks')
    BY DEF Types
  <2> HIDE DEF Types
  <2> QED
    BY <2>1, <2>2
<1>2. (\A i \in Places : i \in Nat /\ i >= 1) /\ (\A i \in Places' : i \in Nat /\ i >= 1)
  BY <1>1 DEF Places
<1> QED
  BY <1>1, <1>2, DequeueFacts DEF Types, Shifts

LEMMA ShiftedOnce ==
    ASSUME Shifts, NEW what, NEW i \in Places',
           \A j \in Places : blocks[j].what = what => j = i + 1
    PROVE  \A j \in Places' : blocks'[j].what = what => j = i
<1>1. ASSUME NEW j \in Places', blocks'[j].what = what PROVE j = i
  <2>1. j + 1 \in Places /\ blocks[j + 1].what = what /\ j \in Nat /\ i \in Nat
    BY <1>1 DEF Shifts
  <2>2. j + 1 = i + 1
    BY <2>1
  <2> QED
    BY <2>1, <2>2
<1> QED
  BY <1>1

LEMMA ShiftedWaits == ASSUME Shifts, NEW what, Waits(what)' PROVE Waits(what)
BY DEF Shifts, Waits

LEMMA ShiftedRefusal ==
    ASSUME RefusalWaits, Shifts, UNCHANGED <<requests, user>>,
           root = "intro" => root' = "intro",
           root = "intro" /\ alert = "loading" => alert' = "loading"
    PROVE  RefusalWaits'
<1>1. SUFFICES ASSUME NEW i \in Places', blocks'[i].what = "authError"
               PROVE  /\ requests' = {} /\ root' = "intro" /\ alert' = "loading" /\ user' = Nobody
                      /\ ~Waits("signedUp")'
                      /\ \A j \in Places' : blocks'[j].what = "authError" => j = i
  BY DEF RefusalWaits
<1>2. i + 1 \in Places /\ blocks[i + 1].what = "authError"
  BY <1>1 DEF Shifts
<1>3. \A j \in Places : blocks[j].what = "authError" => j = i + 1
  BY <1>2 DEF RefusalWaits
<1>4. \A j \in Places' : blocks'[j].what = "authError" => j = i
  BY <1>3, ShiftedOnce
<1>5. ~Waits("signedUp")'
  BY <1>2, ShiftedWaits DEF RefusalWaits
<1> QED
  BY <1>2, <1>4, <1>5 DEF RefusalWaits

LEMMA ShiftedSignUp ==
    ASSUME SignUpWaits, Shifts, UNCHANGED <<requests, user, accounts>>,
           root = "intro" /\ alert = "loading" =>
               \/ root' = "intro" /\ alert' = "loading"
               \/ root' = "content" /\ tab' = "search",
           root = "content" => root' = "content" /\ tab' \in {tab, "search"}
    PROVE  SignUpWaits'
<1>1. SUFFICES ASSUME NEW i \in Places', blocks'[i].what = "signedUp"
               PROVE  /\ requests' = {} /\ blocks'[i].of \in accounts'
                      /\ user' \in {blocks'[i].of, Nobody}
                      /\ \/ root' = "intro" /\ alert' = "loading"
                         \/ root' = "content" /\ (tab' = "search" \/ i <= due')
                      /\ \A j \in Places' : blocks'[j].what = "signedUp" => j = i
  BY DEF SignUpWaits
<1>2. /\ i + 1 \in Places /\ blocks'[i] = blocks[i + 1] /\ blocks[i + 1].what = "signedUp"
      /\ i + 1 <= due => i <= due'
  BY <1>1 DEF Shifts
<1>3. \A j \in Places : blocks[j].what = "signedUp" => j = i + 1
  BY <1>2 DEF SignUpWaits
<1>4. \A j \in Places' : blocks'[j].what = "signedUp" => j = i
  BY <1>3, ShiftedOnce
<1> QED
  BY <1>2, <1>4 DEF SignUpWaits

LEMMA ShiftedLogOut ==
    ASSUME LogOutWaits, Shifts, UNCHANGED user,
           root = "content" => root' = "content",
           \/ UNCHANGED previous /\ blocks[1].what # "notify"
           \/ root = "content" /\ user = Nobody => previous' = Nobody
    PROVE  LogOutWaits'
<1>1. SUFFICES ASSUME NEW i \in Places', blocks'[i].what = "loggedOut"
               PROVE  /\ i <= due' /\ root' = "content" /\ user' = Nobody
                      /\ \/ previous' = Nobody
                         \/ \E j \in Places' : j < i /\ blocks'[j].what = "notify"
                      /\ ~Waits("signedUp")'
                      /\ \A j \in Places' : blocks'[j].what = "loggedOut" => j = i
  BY DEF LogOutWaits
<1>2. /\ i + 1 \in Places /\ blocks[i + 1].what = "loggedOut"
      /\ i + 1 <= due => i <= due'
  BY <1>1 DEF Shifts
<1>3. \A j \in Places : blocks[j].what = "loggedOut" => j = i + 1
  BY <1>2 DEF LogOutWaits
<1>4. \A j \in Places' : blocks'[j].what = "loggedOut" => j = i
  BY <1>3, ShiftedOnce
<1>5. ~Waits("signedUp")'
  BY <1>2, ShiftedWaits DEF LogOutWaits
<1>6. root = "content" /\ user = Nobody
  BY <1>2 DEF LogOutWaits
<1>7. ASSUME previous' # Nobody
      PROVE  \E j \in Places' : j < i /\ blocks'[j].what = "notify"
  <2>1. UNCHANGED previous /\ blocks[1].what # "notify"
    BY <1>6, <1>7
  <2>2. PICK j \in Places : j < i + 1 /\ blocks[j].what = "notify"
    BY <1>2, <1>7, <2>1 DEF LogOutWaits
  <2>3. j # 1 /\ j \in Nat /\ j >= 1 /\ i \in Nat
    BY <1>1, <2>1, <2>2 DEF Shifts
  <2>4. j > 1
    BY <2>3
  <2>5. j - 1 \in Places' /\ blocks'[j - 1].what = "notify"
    BY <2>2, <2>4 DEF Shifts
  <2>6. j - 1 < i
    BY <2>2, <2>3
  <2> QED
    BY <2>5, <2>6
<1> QED
  BY <1>2, <1>4, <1>5, <1>6, <1>7 DEF LogOutWaits

LEMMA AuthStateDidChangeAuth ==
    ASSUME AuthInv, AuthStateDidChange, Types'
    PROVE  /\ AuthInv'
           /\ contents' # contents => root # "content" \/ owner # user
<1> USE DEF AuthInv, cloud, auth, flying, screens, profile, history
<1>1. Shifts /\ blocks[1].what = "notify"
  BY DequeueShifts DEF AuthStateDidChange
<1>2. /\ UNCHANGED <<accounts, docs, user, requests, orphans>>
      /\ \A i \in Places' : i \in Int /\ i + 1 # 1
  BY <1>1 DEF AuthStateDidChange, Shifts
<1>3. ASSUME NEW what, Waits(what)' PROVE Waits(what)
  BY <1>1, <1>3 DEF Waits, Shifts
<1>4. ASSUME NEW what, what # "notify", Waits(what) PROVE Waits(what)'
  BY <1>1, <1>4 DEF Waits, Shifts
<1>5. CASE previous \in {"off", user}
  <2>1. UNCHANGED <<previous, root, splashNav, contents, owner, tab, alert, forced>>
    BY <1>5 DEF AuthStateDidChange
  <2>2. RootFollows' /\ RoomFollows' /\ RequestWaits' /\ IntroIsLeft'
    BY <1>2, <1>3, <2>1 DEF RootFollows, RoomFollows, RequestWaits, IntroIsLeft
  <2>3. RefusalWaits' /\ SignUpWaits'
    BY <1>1, <1>2, <2>1, ShiftedRefusal, ShiftedSignUp
  <2>4. root = "content" /\ user = Nobody => previous' = Nobody
    BY <1>5, <2>1 DEF RootFollows
  <2>5. LogOutWaits'
    BY <1>1, <1>2, <2>1, <2>4, ShiftedLogOut
  <2>6. NewsComes' /\ ContentIsOwn'
    BY <1>2, <1>4, <1>5, <2>1 DEF NewsComes, ContentIsOwn
  <2>7. DocumentsFollow'
    BY <1>1, <1>2, <2>1 DEF DocumentsFollow, Shifts
  <2> QED
    BY <2>1, <2>2, <2>3, <2>4, <2>5, <2>6, <2>7
<1>6. CASE previous \notin {"off", user} /\ user = Nobody
  <2>1. /\ previous' = Nobody /\ root' = (IF splashNav THEN "intro" ELSE root)
        /\ UNCHANGED <<splashNav, contents, owner, tab, alert, forced>>
    BY <1>6 DEF AuthStateDidChange, ShowIntro
  <2>2. Nobody \notin {"off", "first"}
    BY SessionAssumption
  <2>3. root = "content" => root' = "content"
    BY <2>1 DEF RootFollows
  <2>4. root = "intro" => root' = "intro"
    BY <2>1
  <2>5. root' # "splash"
    BY <2>1 DEF RootFollows
  <2>6. RootFollows'
    BY <2>1, <2>2, <2>3, <2>5 DEF RootFollows
  <2>7. RoomFollows' /\ RequestWaits' /\ IntroIsLeft'
    BY <1>2, <1>3, <1>6, <2>1, <2>2, <2>4 DEF RoomFollows, RequestWaits, IntroIsLeft
  <2>8. RefusalWaits'
    BY <1>1, <1>2, <2>1, <2>4, ShiftedRefusal
  <2>9. SignUpWaits'
    BY <1>1, <1>2, <2>1, <2>3, <2>4, ShiftedSignUp
  <2>10. LogOutWaits'
    BY <1>1, <1>2, <2>1, <2>3, ShiftedLogOut
  <2>11. ContentIsOwn'
    <3>1. root' = "content" => root = "content"
      BY <2>1
    <3> QED
      BY <1>2, <1>4, <1>6, <2>1, <3>1 DEF ContentIsOwn
  <2>12. NewsComes' /\ DocumentsFollow'
    BY <1>1, <1>2, <1>6, <2>1 DEF NewsComes, DocumentsFollow, Shifts
  <2> QED
    BY <2>1, <2>6, <2>7, <2>8, <2>9, <2>10, <2>11, <2>12
<1>7. CASE previous \notin {"off", user} /\ user # Nobody
  <2>1. /\ previous' = user /\ contents' = contents + 1
        /\ root' = "content" /\ splashNav' = FALSE
        /\ owner' = user /\ tab' = "search" /\ alert' = "none" /\ forced' = FALSE
    BY <1>7 DEF AuthStateDidChange, ShowContent
  <2>2. user \notin {"off", "first"} /\ contents \in Nat
    <3>1. user \in Accounts \cup {Nobody} /\ contents \in 0 .. MaxContents
      BY DEF Types
    <3> QED
      BY <3>1, SessionAssumption
  <2>3. root # "content"
    BY <1>7 DEF ContentIsOwn
  <2>4. requests = {} /\ ~Waits("authError") /\ ~Waits("loggedOut")
    BY <1>7 DEF RequestWaits, RefusalWaits, LogOutWaits, Waits
  <2>5. RootFollows' /\ RoomFollows' /\ RequestWaits' /\ IntroIsLeft'
    BY <1>2, <2>1, <2>2, <2>4 DEF RootFollows, RoomFollows, RequestWaits, IntroIsLeft
  <2>6. RefusalWaits' /\ LogOutWaits'
    BY <1>3, <2>4 DEF RefusalWaits, LogOutWaits, Waits
  <2>7. SignUpWaits'
    BY <1>1, <1>2, <2>1, <2>3, ShiftedSignUp
  <2>8. NewsComes' /\ ContentIsOwn'
    BY <1>2, <1>7, <2>1 DEF NewsComes, ContentIsOwn
  <2>9. DocumentsFollow'
    BY <1>1, <1>2 DEF DocumentsFollow, Shifts
  <2> QED
    BY <2>3, <2>5, <2>6, <2>7, <2>8, <2>9
<1> QED
  BY <1>5, <1>6, <1>7

LEMMA SignUpDoneAuth == ASSUME AuthInv, SignUpDone, Types' PROVE AuthInv'
<1> USE DEF AuthInv, cloud, auth, flying, screens, profile
<1>1. Shifts /\ blocks[1].what = "signedUp" /\ Head(blocks) = blocks[1]
  BY DequeueShifts DEF SignUpDone
<1>2. /\ \/ docs' = docs \cup {user} /\ user # Nobody /\ orphans' = orphans
         \/ docs' = docs /\ orphans' = orphans \cup {blocks[1].of}
      /\ UNCHANGED <<accounts, user, previous, requests, root, splashNav, contents, owner, tab,
                     alert, forced>>
  BY <1>1 DEF SignUpDone, Register
<1>3. user \in {blocks[1].of, Nobody}
  BY <1>1 DEF SignUpWaits, Shifts
<1>4. ASSUME NEW what, what # "signedUp", Waits(what) PROVE Waits(what)'
  BY <1>1, <1>4 DEF Waits, Shifts
<1>5. ASSUME NEW what, Waits(what)' PROVE Waits(what)
  BY <1>1, <1>5, ShiftedWaits
<1>6. RootFollows' /\ RoomFollows' /\ RequestWaits' /\ IntroIsLeft'
  BY <1>2, <1>5 DEF RootFollows, RoomFollows, RequestWaits, IntroIsLeft
<1>7. RefusalWaits' /\ SignUpWaits' /\ LogOutWaits'
  BY <1>1, <1>2, ShiftedRefusal, ShiftedSignUp, ShiftedLogOut
<1>8. NewsComes' /\ ContentIsOwn'
  BY <1>2, <1>4 DEF NewsComes, ContentIsOwn
<1>9. DocumentsFollow'
  <2>1. ASSUME NEW a \in accounts' \ (docs' \cup orphans') PROVE a # blocks[1].of
    BY <1>2, <1>3, <2>1
  <2>2. ASSUME NEW a \in accounts' \ (docs' \cup orphans') PROVE a \in accounts \ (docs \cup orphans)
    BY <1>2, <2>2
  <2>3. ASSUME NEW a, a # blocks[1].of,
               NEW i \in Places, blocks[i].what = "signedUp", blocks[i].of = a
        PROVE  \E j \in Places' : blocks'[j].what = "signedUp" /\ blocks'[j].of = a
    BY <1>1, <2>3 DEF Shifts
  <2> QED
    BY <1>2, <2>1, <2>2, <2>3 DEF DocumentsFollow
<1> QED
  BY <1>6, <1>7, <1>8, <1>9

LEMMA SignInFailedAuth == ASSUME AuthInv, SignInFailed, Types' PROVE AuthInv'
<1> USE DEF AuthInv, cloud, auth, flying, screens, profile, history
<1>1. Shifts /\ blocks[1].what = "authError"
  BY DequeueShifts DEF SignInFailed
<1>2. UNCHANGED <<accounts, docs, user, previous, requests, root, splashNav, contents, owner, tab,
                  forced, orphans>>
  BY DEF SignInFailed
<1>3. /\ requests = {} /\ root = "intro" /\ user = Nobody /\ ~Waits("signedUp")
      /\ \A j \in Places : blocks[j].what = "authError" => j = 1
  BY <1>1 DEF RefusalWaits, Shifts
<1>4. ASSUME NEW what, what # "authError", Waits(what) PROVE Waits(what)'
  BY <1>1, <1>4 DEF Waits, Shifts
<1>5. ~Waits("signedUp")' /\ ~Waits("loggedOut")'
  BY <1>1, <1>3, ShiftedWaits DEF LogOutWaits, Waits
<1>6. ~Waits("authError")'
  BY <1>1, <1>3 DEF Waits, Shifts
<1>7. RootFollows' /\ RoomFollows' /\ RequestWaits' /\ IntroIsLeft'
  BY <1>2, <1>3 DEF RootFollows, RoomFollows, RequestWaits, IntroIsLeft
<1>8. RefusalWaits' /\ SignUpWaits' /\ LogOutWaits'
  BY <1>5, <1>6 DEF RefusalWaits, SignUpWaits, LogOutWaits, Waits
<1>9. NewsComes' /\ ContentIsOwn'
  BY <1>2, <1>3, <1>4 DEF NewsComes, ContentIsOwn
<1>10. DocumentsFollow'
  BY <1>2, <1>3 DEF DocumentsFollow, Waits
<1> QED
  BY <1>7, <1>8, <1>9, <1>10

LEMMA LogOutDoneAuth == ASSUME AuthInv, LogOutDone, Types' PROVE AuthInv'
<1> USE DEF AuthInv, cloud, auth, flying, screens, profile, history
<1>1. Shifts /\ blocks[1].what = "loggedOut"
  BY DequeueShifts DEF LogOutDone
<1>2. /\ UNCHANGED <<accounts, docs, user, previous, requests, splashNav, contents, owner,
                     forced, orphans>>
      /\ root' = "intro" /\ alert' = "none"
  BY DEF LogOutDone
<1>3. /\ root = "content" /\ user = Nobody /\ ~Waits("signedUp")
      /\ \A j \in Places : blocks[j].what = "loggedOut" => j = 1
  BY <1>1 DEF LogOutWaits, Shifts
<1>4. previous = Nobody
  BY <1>1 DEF LogOutWaits, Shifts
<1>5. requests = {} /\ ~Waits("authError")
  BY <1>3 DEF RequestWaits, RefusalWaits, Waits
<1>6. ~Waits("signedUp")' /\ ~Waits("authError")'
  BY <1>1, <1>3, <1>5, ShiftedWaits
<1>7. ~Waits("loggedOut")'
  BY <1>1, <1>3 DEF Waits, Shifts
<1>8. RootFollows'
  BY <1>2, <1>4, SessionAssumption DEF RootFollows
<1>9. RoomFollows' /\ RequestWaits' /\ IntroIsLeft'
  BY <1>2, <1>3, <1>4, <1>5, SessionAssumption DEF RoomFollows, RequestWaits, IntroIsLeft
<1>10. RefusalWaits' /\ SignUpWaits' /\ LogOutWaits'
  BY <1>6, <1>7 DEF RefusalWaits, SignUpWaits, LogOutWaits, Waits
<1>11. NewsComes' /\ ContentIsOwn'
  BY <1>2, <1>3, <1>4 DEF NewsComes, ContentIsOwn
<1>12. DocumentsFollow'
  BY <1>2, <1>3, <1>5 DEF DocumentsFollow, Waits
<1> QED
  BY <1>8, <1>9, <1>10, <1>11, <1>12

LEMMA CheckSignedInAuth == ASSUME AuthInv, CheckSignedIn, Types' PROVE AuthInv'
<1> USE DEF AuthInv, cloud, flying, screens, profile, history
<1> DEFINE b == Notify
           n == Len(blocks)
<1>1. b \in Block /\ b.what = "notify" /\ blocks' = Append(blocks, b)
  BY DEF CheckSignedIn, Between, Notify, Block
<1> HIDE DEF b
<1>2. /\ n \in Nat /\ Places' = Places \cup {n + 1}
      /\ \A i \in Places : blocks'[i] = blocks[i]
      /\ blocks'[n + 1].what = "notify"
  BY <1>1, AppendFacts DEF Types
<1>3. /\ root = "splash" /\ contents < MaxContents /\ previous' = "first"
      /\ UNCHANGED <<accounts, docs, user, requests, root, splashNav, contents, owner, tab, alert,
                     forced, orphans>>
  BY DEF CheckSignedIn
<1>4. requests = {} /\ \A i \in Places : blocks[i].what \notin Marked
  BY <1>3 DEF RequestWaits, RefusalWaits, SignUpWaits, LogOutWaits, Marked
<1>5. \A i \in Places' : blocks'[i].what \notin Marked
  BY <1>2, <1>4 DEF Marked
<1>6. RootFollows' /\ RoomFollows' /\ RequestWaits' /\ IntroIsLeft'
  BY <1>3, <1>4 DEF RootFollows, RoomFollows, RequestWaits, IntroIsLeft
<1>7. RefusalWaits' /\ SignUpWaits' /\ LogOutWaits'
  BY <1>5 DEF RefusalWaits, SignUpWaits, LogOutWaits, Marked
<1>8. NewsComes' /\ ContentIsOwn'
  BY <1>2, <1>3 DEF NewsComes, ContentIsOwn, Waits
<1>9. DocumentsFollow'
  BY <1>3, <1>4 DEF DocumentsFollow, Marked
<1> QED
  BY <1>6, <1>7, <1>8, <1>9

LEMMA SubmitAuth ==
    ASSUME AuthInv, NEW what \in {"signIn", "signUp"}, NEW a \in Accounts, Submit(what, a), Types'
    PROVE  AuthInv'
<1> USE DEF AuthInv, cloud, auth, screens, profile, history
<1>1. /\ root = "intro" /\ alert = "none" /\ contents < MaxContents
      /\ due = 0 /\ blocks' = blocks
      /\ UNCHANGED <<accounts, docs, user, previous, root, splashNav, contents, owner, tab, forced,
                     orphans>>
      /\ alert' = "loading" \/ requests' = requests
  BY DEF Submit, Between
<1>2. user = Nobody /\ requests = {}
  BY <1>1 DEF IntroIsLeft, RequestWaits
<1>3. \A i \in Places : blocks[i].what \notin Marked
  BY <1>1 DEF RefusalWaits, SignUpWaits, LogOutWaits, Marked
<1>4. Places' = Places
  BY <1>1 DEF Places
<1>5. RootFollows' /\ RoomFollows' /\ RequestWaits' /\ IntroIsLeft'
  BY <1>1, <1>2, <1>3, <1>4 DEF RootFollows, RoomFollows, RequestWaits, IntroIsLeft, Waits, Marked
<1>6. RefusalWaits' /\ SignUpWaits' /\ LogOutWaits'
  BY <1>1, <1>3, <1>4 DEF RefusalWaits, SignUpWaits, LogOutWaits, Marked
<1>7. NewsComes' /\ ContentIsOwn'
  BY <1>1, <1>4 DEF NewsComes, ContentIsOwn, Waits
<1>8. DocumentsFollow'
  BY <1>1, <1>2, <1>3 DEF DocumentsFollow, Marked
<1> QED
  BY <1>5, <1>6, <1>7, <1>8

LEMMA LogOutAuth == ASSUME AuthInv, LogOut, Types' PROVE AuthInv'
<1> USE DEF AuthInv, cloud, flying, screens, profile, history
<1> DEFINE told == IF user # Nobody THEN <<Notify>> ELSE <<>>
           last == [what |-> "loggedOut"]
           n == Len(blocks')
<1>1. /\ root = "content" /\ tab = "profile" /\ alert = "none"
      /\ due = 0 /\ due' = n /\ user' = Nobody
      /\ blocks' = blocks \o told \o <<last>>
      /\ UNCHANGED <<accounts, docs, previous, requests, root, splashNav, contents, owner, tab,
                     alert, forced, orphans>>
  BY DEF LogOut, OnProfile, Between
<1>2. Notify \in Block /\ Notify.what = "notify" /\ last \in Block /\ last.what = "loggedOut"
  BY DEF Notify, Block
<1>3. \A i \in Places : blocks[i].what \notin Marked
  <2>1. \A i \in Places : i > due
    BY <1>1 DEF Places, Types
  <2> QED
    BY <1>1, <2>1 DEF RefusalWaits, SignUpWaits, LogOutWaits, Marked, Places, Types
<1>4. /\ n \in Nat /\ n \in Places' /\ blocks'[n] = last
      /\ \A i \in Places' : i <= n
      /\ \A i \in Places' : \/ i = n
                            \/ i < n /\ i \in Places /\ blocks'[i] = blocks[i]
                            \/ i < n /\ blocks'[i] = Notify
      /\ \A i \in Places : i < n /\ i \in Places' /\ blocks'[i] = blocks[i]
      /\ user # Nobody => \E i \in Places' : i < n /\ blocks'[i] = Notify
  <2> HIDE DEF last
  <2>1. CASE user # Nobody
    <3>1. blocks' = blocks \o <<Notify, last>>
      <4>1. blocks' = (blocks \o <<Notify>>) \o <<last>> /\ blocks \in Seq(Block)
        BY <1>1, <2>1 DEF Types
      <4> QED
        BY <4>1, <1>2
    <3>2. /\ Len(blocks) \in Nat /\ n = Len(blocks) + 2
          /\ Places' = Places \cup {Len(blocks) + 1, Len(blocks) + 2}
          /\ \A i \in Places : blocks'[i] = blocks[i]
          /\ blocks'[Len(blocks) + 1] = Notify /\ blocks'[Len(blocks) + 2] = last
      BY <1>2, <3>1, AppendTwoFacts DEF Types
    <3>3. \A i \in Places : i \in Nat /\ i < n
      BY <3>2 DEF Places
    <3> QED
      BY <3>2, <3>3, <2>1
  <2>2. CASE user = Nobody
    <3>1. blocks' = Append(blocks, last)
      BY <1>1, <1>2, <2>2 DEF Types
    <3>2. /\ Len(blocks) \in Nat /\ n = Len(blocks) + 1
          /\ Places' = Places \cup {Len(blocks) + 1}
          /\ \A i \in Places : blocks'[i] = blocks[i]
          /\ blocks'[Len(blocks) + 1] = last
      BY <1>2, <3>1, AppendFacts DEF Types
    <3>3. \A i \in Places : i \in Nat /\ i < n
      BY <3>2 DEF Places
    <3> QED
      BY <3>2, <3>3, <2>2
  <2> QED
    BY <2>1, <2>2
<1> HIDE DEF told, last, n
<1>5. \A i \in Places' : blocks'[i].what \in Marked => i = n
  BY <1>2, <1>3, <1>4 DEF Marked
<1>6. requests = {}
  BY <1>1 DEF RequestWaits
<1>7. previous = Nobody \/ \E i \in Places' : i < n /\ blocks'[i].what = "notify"
  <2>1. CASE user # Nobody
    BY <1>2, <1>4, <2>1
  <2>2. CASE user = Nobody /\ previous # Nobody
    <3>1. previous # "off"
      BY <1>1 DEF RootFollows
    <3>2. Waits("notify")
      BY <2>2, <3>1 DEF NewsComes
    <3> QED
      BY <1>4, <3>2 DEF Waits
  <2> QED
    BY <2>1, <2>2
<1>8. RootFollows' /\ RoomFollows' /\ RequestWaits' /\ IntroIsLeft'
  BY <1>1, <1>6 DEF RootFollows, RoomFollows, RequestWaits, IntroIsLeft
<1>9. RefusalWaits' /\ SignUpWaits'
  BY <1>2, <1>4, <1>5 DEF RefusalWaits, SignUpWaits, Marked
<1>10. LogOutWaits'
  <2>1. ~Waits("signedUp")' /\ \A j \in Places' : blocks'[j].what = "loggedOut" => j = n
    BY <1>2, <1>4, <1>5 DEF Waits, Marked
  <2>2. SUFFICES ASSUME NEW i \in Places', blocks'[i].what = "loggedOut"
                 PROVE  /\ i <= due' /\ root' = "content" /\ user' = Nobody
                        /\ \/ previous' = Nobody
                           \/ \E j \in Places' : j < i /\ blocks'[j].what = "notify"
                        /\ \A j \in Places' : blocks'[j].what = "loggedOut" => j = i
    BY <2>1 DEF LogOutWaits
  <2>3. i = n
    BY <2>1, <2>2
  <2> QED
    BY <1>1, <1>4, <1>7, <2>1, <2>3
<1>11. NewsComes' /\ ContentIsOwn'
  BY <1>1, <1>2, <1>4, <1>7 DEF NewsComes, ContentIsOwn, Waits
<1>12. DocumentsFollow'
  BY <1>1, <1>3, <1>6 DEF DocumentsFollow, Marked
<1> QED
  BY <1>8, <1>9, <1>10, <1>11, <1>12

LEMMA KillAuth == ASSUME AuthInv, Kill, Types' PROVE AuthInv'
<1> USE DEF AuthInv
<1>1. /\ previous' = "off" /\ requests' = {} /\ root' = "splash" /\ splashNav' = TRUE
      /\ blocks' = <<>> /\ UNCHANGED <<accounts, docs, user, contents>>
      /\ orphans' = orphans \cup {r.of : r \in {q \in requests : q.made}}
                 \cup {blocks[i].of : i \in {j \in DOMAIN blocks : blocks[j].what = "signedUp"}}
  BY DEF Kill, cloud
<1>2. Places' = {}
  BY <1>1 DEF Places
<1>3. RootFollows' /\ RoomFollows' /\ RequestWaits' /\ IntroIsLeft'
  BY <1>1 DEF RootFollows, RoomFollows, RequestWaits, IntroIsLeft
<1>4. RefusalWaits' /\ SignUpWaits' /\ LogOutWaits' /\ NewsComes' /\ ContentIsOwn'
  BY <1>1, <1>2 DEF RefusalWaits, SignUpWaits, LogOutWaits, NewsComes, ContentIsOwn
<1>5. DocumentsFollow'
  <2>1. \A i \in Places : i \in DOMAIN blocks
    BY DEF Places, Types
  <2> QED
    BY <1>1, <2>1 DEF DocumentsFollow
<1> QED
  BY <1>3, <1>4, <1>5

LEMMA AuthInit == ASSUME Init PROVE AuthInv
<1> USE SessionAssumption DEF Init
<1>1. Types
  <2>1. Blank \in Person /\ <<>> \in Seq(Reply) /\ <<>> \in Seq(Block) /\ Len(<<>>) = 0
    BY DEF Blank, Person, Users
  <2>2. due \in 0 .. Len(blocks) /\ phones \in [Accounts -> 0 .. MaxPhones]
    BY <2>1
  <2>3. accounts \subseteq Accounts /\ docs \subseteq accounts /\ orphans \subseteq accounts
    OBVIOUS
  <2>4. user \in accounts \cup {Nobody} /\ owner \in Users /\ previous \in {"off", "first"}
    BY DEF Users
  <2>5. contents \in 0 .. MaxContents /\ dialled \in 0 .. MaxPhones /\ kills \in 0 .. MaxKills
    OBVIOUS
  <2>6. shown \in Person /\ manager \in Person /\ writes \in Seq(Reply) /\ blocks \in Seq(Block)
    BY <2>1
  <2> QED
    BY <2>2, <2>3, <2>4, <2>5, <2>6 DEF Types
<1>2. Places = {}
  BY DEF Places
<1>3. RootFollows /\ RoomFollows /\ RequestWaits /\ IntroIsLeft
  BY DEF RootFollows, RoomFollows, RequestWaits, IntroIsLeft
<1>4. RefusalWaits /\ SignUpWaits /\ LogOutWaits /\ NewsComes /\ ContentIsOwn /\ DocumentsFollow
  BY <1>2 DEF RefusalWaits, SignUpWaits, LogOutWaits, NewsComes, ContentIsOwn, DocumentsFollow
<1> QED
  BY <1>1, <1>3, <1>4 DEF AuthInv

LEMMA AuthStep ==
    ASSUME AuthInv, [Next]_vars
    PROVE  /\ AuthInv'
           /\ contents' # contents => root # "content" \/ owner # user
<1>1. ASSUME Next PROVE Types'
  BY <1>1, NetworkTypes, MainTypes, UserTypes DEF Next
<1>2. ASSUME Network PROVE AuthInv' /\ contents' = contents
  <2>1. contents' = contents
    BY <1>2 DEF Network, CreateUser, SignedIn, SignInFails, RefreshToken, SignOutByForce,
       GetDocument, UpdateData, screens
  <2>2. AuthInv'
    BY <1>1, <1>2, CreateUserAuth, SignedInAuth, SignInFailsAuth, SignOutByForceAuth, ApartlyAuth
       DEF Network, Next, Apartly
  <2> QED
    BY <2>1, <2>2
<1>3. ASSUME MainBlocks, ~AuthStateDidChange PROVE AuthInv' /\ contents' = contents
  <2>1. contents' = contents
    BY <1>3 DEF MainBlocks, SignInDone, SignUpDone, SignInFailed, InfoCame, PhoneCame, Came,
       SetInfoDone, SetPhoneDone, LogOutDone, screens
  <2>2. AuthInv'
    BY <1>1, <1>3, SignUpDoneAuth, SignInFailedAuth, LogOutDoneAuth, ApartlyAuth
       DEF MainBlocks, Next, Apartly
  <2> QED
    BY <2>1, <2>2
<1>4. ASSUME User PROVE AuthInv' /\ contents' = contents
  <2>1. contents' = contents
    BY <1>4 DEF User, CheckSignedIn, Press, OpenProfile, LeaveProfile, SetPhone, LogOut, Submit,
       screens
  <2>2. AuthInv'
    BY <1>1, <1>4, CheckSignedInAuth, SubmitAuth, LogOutAuth, ApartlyAuth DEF User, Next, Apartly
  <2> QED
    BY <2>1, <2>2
<1>5. ASSUME Kill PROVE AuthInv' /\ contents' = contents
  BY <1>1, <1>5, KillAuth DEF Kill, Next
<1>6. ASSUME AuthStateDidChange
      PROVE  AuthInv' /\ (contents' # contents => root # "content" \/ owner # user)
  BY <1>1, <1>6, AuthStateDidChangeAuth DEF MainBlocks, Next
<1>7. ASSUME UNCHANGED vars PROVE AuthInv' /\ contents' = contents
  <2>1. UNCHANGED <<accounts, docs, phones, dialled, user, previous, requests, lookups, writes, root,
                    splashNav, contents, owner, tab, loaded, shown, manager, alert, forced, failed,
                    orphans, kills, blocks, due>>
    BY <1>7 DEF vars, cloud, auth, flying, screens, profile, history, queue
  <2>2. Types' /\ Places' = Places /\ \A what : Waits(what)' = Waits(what)
    BY <2>1 DEF AuthInv, Types, Places, Waits
  <2>3. RootFollows' /\ RoomFollows' /\ RequestWaits' /\ IntroIsLeft'
    BY <2>1, <2>2 DEF AuthInv, RootFollows, RoomFollows, RequestWaits, IntroIsLeft
  <2>4. RefusalWaits' /\ SignUpWaits' /\ LogOutWaits'
    BY <2>1, <2>2 DEF AuthInv, RefusalWaits, SignUpWaits, LogOutWaits
  <2>5. NewsComes' /\ ContentIsOwn' /\ DocumentsFollow'
    BY <2>1, <2>2 DEF AuthInv, NewsComes, ContentIsOwn, DocumentsFollow
  <2> QED
    BY <2>1, <2>2, <2>3, <2>4, <2>5 DEF AuthInv
<1> QED
  BY <1>2, <1>3, <1>4, <1>5, <1>6, <1>7 DEF Next

LEMMA AuthAlways == Spec => []AuthInv
<1>1. Init => AuthInv
  BY AuthInit
<1>2. AuthInv /\ [Next]_vars => AuthInv'
  BY AuthStep
<1> QED
  BY <1>1, <1>2, PTL DEF Spec

(* Every variable of the session keeps its type, whatever the bounds: no   *)
(* request is made while another waits, and no content beyond the last.    *)
THEOREM SessionTypes == Spec => []TypeOK
<1>1. AuthInv => TypeOK
  <2>1. ASSUME AuthInv PROVE Cardinality(requests) <= 1
    <3>1. CASE requests = {}
      BY <3>1, FS_EmptySet
    <3>2. ASSUME NEW r \in requests PROVE Cardinality(requests) <= 1
      <4>1. \A q \in requests : q = r
        BY <2>1, <3>2 DEF AuthInv, Types
      <4>2. requests = {r}
        BY <3>2, <4>1
      <4>3. Cardinality({r}) = 1
        BY FS_Singleton
      <4> QED
        BY <4>2, <4>3
    <3> QED
      BY <3>1, <3>2
  <2>2. ASSUME AuthInv PROVE user \in Users /\ {shown, manager} \subseteq Person
    BY <2>2 DEF AuthInv, Types, Users
  <2> QED
    BY <2>1, <2>2 DEF AuthInv, Types, TypeOK
<1> QED
  BY <1>1, AuthAlways, PTL

(* The root of the window follows the user, once the main queue is empty.  *)
THEOREM ScreensTheorem == Spec => []ScreensFollowAuth
<1>1. ASSUME AuthInv, blocks = <<>>, previous # "off"
      PROVE  /\ user # Nobody => root = "content" /\ owner = user
             /\ root = "content" /\ user = Nobody => forced
             /\ root # "splash"
  <2>1. \A what : ~Waits(what)
    BY <1>1 DEF Waits, Places
  <2>2. previous = user
    BY <1>1, <2>1 DEF AuthInv, NewsComes
  <2>3. user \notin {"off", "first"}
    BY <1>1, SessionAssumption DEF AuthInv, Types
  <2>4. root \in {"splash", "intro", "content"} /\ root # "splash"
    BY <1>1, <2>2, <2>3 DEF AuthInv, Types, RootFollows
  <2> QED
    BY <1>1, <2>1, <2>2, <2>4 DEF AuthInv, RootFollows, ContentIsOwn
<1>2. AuthInv => ScreensFollowAuth
  BY <1>1 DEF ScreensFollowAuth
<1> QED
  BY <1>2, AuthAlways, PTL

(* An account without a document has one under way, or its sign-up was cut *)
(* off.                                                                    *)
THEOREM DocumentsTheorem == Spec => []DocumentsFollowAccounts
<1>1. AuthInv => DocumentsFollowAccounts
  <2>1. SUFFICES ASSUME AuthInv PROVE DocumentsFollowAccounts
    OBVIOUS
  <2>2. Places = DOMAIN blocks
    BY <2>1 DEF AuthInv, Types, Places
  <2> QED
    BY <2>1, <2>2 DEF AuthInv, DocumentsFollow, DocumentsFollowAccounts
<1> QED
  BY <1>1, AuthAlways, PTL

(* No notification replaces the content of the user who is signed in.      *)
THEOREM ContentTheorem == Spec => ContentIsStable
<1>1. AuthInv /\ [Next]_vars => [contents' # contents => root # "content" \/ owner # user]_vars
  BY AuthStep
<1> QED
  BY <1>1, AuthAlways, PTL DEF Spec, ContentIsStable

-----------------------------------------------------------------------------
(* The profile.                                                            *)

Asks(i)    == blocks[i].what \in {"infoCame", "info"}
Dials(i)   == blocks[i].what \in {"phoneCame", "phone"}
(* The content that waits for the block is still there.                    *)
Fresh(i)   == Dials(i) /\ OnScreen(blocks[i].reply.in)
Asked      == lookups # {} \/ \E i \in Places : Asks(i)

(* Nothing is expected for a content that was not opened yet.              *)
NothingEarly ==
    /\ \A l \in lookups : l.in <= contents
    /\ \A i \in Places : Asks(i) \/ Dials(i) => blocks[i].reply.in <= contents
    /\ \A k \in 1 .. Len(writes) : writes[k].in <= contents
    /\ \A a \in Accounts : phones[a] <= dialled

(* The one question for the profile is asked under the alert, for the      *)
(* content on screen, while the profile is empty.                          *)
AskedOnce ==
    /\ Asked => /\ root = "content" /\ alert = "loading" /\ loaded /\ manager = Blank
                /\ ~Waits("loggedOut")
    /\ \A l \in lookups : /\ l.of = owner /\ l.in = contents
                          /\ \A m \in lookups : m = l
                          /\ \A i \in Places : ~Asks(i)
    /\ \A i \in Places : Asks(i) =>
           /\ lookups = {}
           /\ blocks[i].reply.of = owner /\ blocks[i].reply.in = contents
           /\ blocks[i].reply.phone = phones[owner]
           /\ \A j \in Places : Asks(j) => j = i

(* What is kept is shown, and belongs to the content on screen; while it   *)
(* is empty the profile is covered.                                        *)
Kept ==
    /\ shown = manager
    /\ manager # Blank => root = "content" /\ manager.of = owner /\ owner # Nobody /\ loaded
    /\ root = "content" /\ tab = "profile" /\ manager = Blank => alert = "loading"

(* Phones under way belong to that content as well, or come before the     *)
(* profile is filled.                                                      *)
DialledFor ==
    /\ writes # <<>> => root = "content" /\ manager # Blank
    /\ \A k \in 1 .. Len(writes) : writes[k].in = contents /\ writes[k].of = owner
    /\ \A i \in Places : Fresh(i) => manager # Blank /\ owner \in docs
    /\ \A i \in Places : blocks[i].what = "phone" /\ ~Fresh(i) =>
           manager = Blank /\ \A j \in Places : Asks(j) => i < j

(* A document is written before its profile is asked for.                  *)
DocumentFirst ==
    \A i \in Places : blocks[i].what = "signedUp" =>
        manager = Blank /\ \A j \in Places : Asks(j) => i < j

(* The phones under way come in their order, after the one that is shown,  *)
(* up to the one that is stored.                                           *)
InOrder ==
    manager # Blank /\ owner \in docs =>
        /\ \A i \in Places : Fresh(i) =>
               shown.phone < blocks[i].reply.phone /\ blocks[i].reply.phone <= phones[owner]
        /\ \A k \in 1 .. Len(writes) :
               shown.phone < writes[k].phone /\ writes[k].phone <= phones[owner]
        /\ \A i, j \in Places : Fresh(i) /\ Fresh(j) /\
               (IF blocks[i].what = blocks[j].what THEN i < j ELSE blocks[i].what = "phone")
               => blocks[i].reply.phone < blocks[j].reply.phone
        /\ \A i \in Places, k \in 1 .. Len(writes) :
               Fresh(i) => blocks[i].reply.phone < writes[k].phone
        /\ \A k, m \in 1 .. Len(writes) : k < m => writes[k].phone < writes[m].phone

LatestComes ==
    manager # Blank =>
        \/ shown.phone = phones[owner]
        \/ /\ owner \in docs
           /\ \/ \E i \in Places : Fresh(i) /\ blocks[i].reply.phone = phones[owner]
              \/ \E k \in 1 .. Len(writes) : writes[k].phone = phones[owner]

ProfileInv ==
    NothingEarly /\ AskedOnce /\ Kept /\ DialledFor /\ DocumentFirst /\ InOrder /\ LatestComes

(* What the steps that do not concern the profile do to the main queue.    *)
KeepsProfile(d) ==
    /\ \A i \in Places : Fresh(i) => i - d \in Places' /\ blocks'[i - d] = blocks[i]
    /\ \A i \in Places' : blocks'[i].what \in {"infoCame", "info", "phoneCame", "phone"} =>
           i + d \in Places /\ blocks'[i] = blocks[i + d]
    /\ \A i \in Places' : blocks'[i].what = "signedUp" =>
           \/ i + d \in Places /\ blocks'[i] = blocks[i + d]
           \/ manager = Blank /\ ~Asked
    /\ Asked => ~Waits("loggedOut")'

ApartProfile ==
    /\ UNCHANGED <<phones, dialled, lookups, writes, contents, owner, loaded, shown, manager>>
    /\ docs' = docs \/ (manager = Blank /\ \A i \in Places : ~Fresh(i))
    /\ root' = root \/ (root # "content" /\ root' # "content")
    /\ root = "content" /\ alert = "loading" => alert' = "loading"
    /\ tab' \in {tab, "search"}

LEMMA KeptProfile ==
    ASSUME Types, Types', ProfileInv, NEW d \in {0, 1}, KeepsProfile(d), ApartProfile
    PROVE  ProfileInv'
<1> USE DEF ProfileInv, ApartProfile
<1>1. /\ d \in Nat
      /\ \A i \in Places : i \in Nat
      /\ \A i \in Places' : i \in Nat
  BY DEF Places
<1>2. ASSUME NEW i \in Places', Asks(i)'
      PROVE  i + d \in Places /\ blocks'[i] = blocks[i + d] /\ Asks(i + d)
  BY <1>2 DEF Asks, KeepsProfile
<1>3. ASSUME NEW i \in Places', Dials(i)'
      PROVE  i + d \in Places /\ blocks'[i] = blocks[i + d] /\ Dials(i + d)
  BY <1>3 DEF Dials, KeepsProfile
<1>4. ASSUME NEW i \in Places', Dials(i)' PROVE Fresh(i)' <=> Fresh(i + d)
  BY <1>3, <1>4 DEF Fresh, OnScreen, Dials
<1>5. \A i \in Places' : Fresh(i)' => Dials(i)'
  BY DEF Fresh
<1>6. Asked' => Asked
  BY <1>2 DEF Asked
<1>7. NothingEarly'
  BY <1>2, <1>3 DEF NothingEarly
<1>8. AskedOnce'
  <2>1. Asked' => /\ root' = "content" /\ alert' = "loading" /\ loaded' /\ manager' = Blank
                  /\ ~Waits("loggedOut")'
    BY <1>6 DEF AskedOnce, KeepsProfile
  <2>2. \A l \in lookups' : /\ l.of = owner' /\ l.in = contents'
                            /\ \A m \in lookups' : m = l
                            /\ \A i \in Places' : ~Asks(i)'
    BY <1>2 DEF AskedOnce
  <2>3. ASSUME NEW i \in Places', Asks(i)'
        PROVE  /\ lookups' = {}
               /\ blocks'[i].reply.of = owner' /\ blocks'[i].reply.in = contents'
               /\ blocks'[i].reply.phone = phones'[owner']
               /\ \A j \in Places' : Asks(j)' => j = i
    <3>1. i + d \in Places /\ blocks'[i] = blocks[i + d] /\ Asks(i + d)
      BY <1>2, <2>3
    <3>2. ASSUME NEW j \in Places', Asks(j)' PROVE j = i
      <4>1. j + d = i + d
        BY <1>2, <3>1, <3>2 DEF AskedOnce
      <4> QED
        BY <1>1, <4>1
    <3> QED
      BY <3>1, <3>2 DEF AskedOnce
  <2> QED
    BY <2>1, <2>2, <2>3 DEF AskedOnce
<1>9. Kept'
  BY DEF Kept
<1>10. DialledFor'
  <2>1. writes' # <<>> => root' = "content" /\ manager' # Blank
    BY DEF DialledFor
  <2>2. \A k \in 1 .. Len(writes') : writes'[k].in = contents' /\ writes'[k].of = owner'
    BY DEF DialledFor
  <2>3. \A i \in Places' : Fresh(i)' => manager' # Blank /\ owner' \in docs'
    BY <1>3, <1>4, <1>5 DEF DialledFor
  <2>4. ASSUME NEW i \in Places', blocks'[i].what = "phone", ~Fresh(i)'
        PROVE  manager' = Blank /\ \A j \in Places' : Asks(j)' => i < j
    <3>1. i + d \in Places /\ blocks[i + d].what = "phone" /\ ~Fresh(i + d)
      BY <1>3, <1>4, <2>4 DEF Dials
    <3>2. manager = Blank /\ \A j \in Places : Asks(j) => i + d < j
      BY <3>1 DEF DialledFor
    <3>3. ASSUME NEW j \in Places', Asks(j)' PROVE i < j
      <4>1. i + d < j + d
        BY <1>2, <3>2, <3>3
      <4> QED
        BY <1>1, <4>1
    <3> QED
      BY <3>2, <3>3
  <2> QED
    BY <2>1, <2>2, <2>3, <2>4 DEF DialledFor
<1>11. DocumentFirst'
  <2>1. ASSUME NEW i \in Places', blocks'[i].what = "signedUp"
        PROVE  manager' = Blank /\ \A j \in Places' : Asks(j)' => i < j
    <3>1. CASE manager = Blank /\ ~Asked
      BY <1>6, <3>1 DEF Asked
    <3>2. CASE i + d \in Places /\ blocks'[i] = blocks[i + d]
      <4>1. manager = Blank /\ \A j \in Places : Asks(j) => i + d < j
        BY <2>1, <3>2 DEF DocumentFirst
      <4>2. ASSUME NEW j \in Places', Asks(j)' PROVE i < j
        <5>1. i + d < j + d
          BY <1>2, <4>1, <4>2
        <5> QED
          BY <1>1, <5>1
      <4> QED
        BY <4>1, <4>2
    <3> QED
      BY <2>1, <3>1, <3>2 DEF KeepsProfile
  <2> QED
    BY <2>1 DEF DocumentFirst
<1>12. InOrder'
  <2>1. SUFFICES ASSUME manager # Blank, owner \in docs
                 PROVE  InOrder'
    BY DEF InOrder
  <2>2. ASSUME NEW i \in Places', Fresh(i)'
        PROVE  i + d \in Places /\ blocks'[i] = blocks[i + d] /\ Fresh(i + d)
    BY <1>3, <1>4, <1>5, <2>2
  <2>3. ASSUME NEW i \in Places', NEW j \in Places', Fresh(i)', Fresh(j)',
               IF blocks'[i].what = blocks'[j].what THEN i < j ELSE blocks'[i].what = "phone"
        PROVE  blocks'[i].reply.phone < blocks'[j].reply.phone
    <3>1. i < j => i + d < j + d
      BY <1>1
    <3>2. IF blocks[i + d].what = blocks[j + d].what THEN i + d < j + d
          ELSE blocks[i + d].what = "phone"
      BY <2>2, <2>3, <3>1
    <3> QED
      BY <2>1, <2>2, <2>3, <3>2 DEF InOrder
  <2>4. \A i \in Places' : Fresh(i)' =>
            shown'.phone < blocks'[i].reply.phone /\ blocks'[i].reply.phone <= phones'[owner']
    BY <2>1, <2>2 DEF InOrder
  <2>5. \A i \in Places', k \in 1 .. Len(writes') :
            Fresh(i)' => blocks'[i].reply.phone < writes'[k].phone
    BY <2>1, <2>2 DEF InOrder
  <2> QED
    BY <2>1, <2>3, <2>4, <2>5 DEF InOrder
<1>13. LatestComes'
  <2>1. SUFFICES ASSUME manager # Blank PROVE LatestComes'
    BY DEF LatestComes
  <2>2. root' = "content" /\ root = "content" /\ docs' = docs
    BY <2>1 DEF Kept
  <2>3. ASSUME NEW i \in Places, Fresh(i)
        PROVE  i - d \in Places' /\ blocks'[i - d] = blocks[i] /\ Fresh(i - d)'
    BY <2>2, <2>3 DEF Fresh, Dials, OnScreen, KeepsProfile
  <2> QED
    BY <2>1, <2>2, <2>3 DEF LatestComes
<1> QED
  BY <1>7, <1>8, <1>9, <1>10, <1>11, <1>12, <1>13

(* Three moves of the main queue that keep what the profile expects.       *)
LEMMA StayKeepsProfile ==
    ASSUME Types, AskedOnce, blocks' = blocks PROVE KeepsProfile(0)
<1>1. Places' = Places /\ \A i \in Places : i - 0 = i /\ i + 0 = i
  BY DEF Places
<1> QED
  BY <1>1 DEF KeepsProfile, AskedOnce, Waits

LEMMA AppendKeepsProfile ==
    ASSUME Types, AskedOnce, NEW b \in Block, blocks' = Append(blocks, b),
           b.what \in {"notify", "authError"}
    PROVE  KeepsProfile(0)
<1>1. /\ Places' = Places \cup {Len(blocks) + 1} /\ blocks'[Len(blocks) + 1] = b
      /\ \A i \in Places : blocks'[i] = blocks[i]
  BY AppendFacts DEF Types
<1>2. \A i \in Places : i - 0 = i /\ i + 0 = i
  BY DEF Places
<1>3. \A i \in Places' : blocks'[i].what \notin {"notify", "authError"} => i \in Places
  BY <1>1
<1>4. Asked => ~Waits("loggedOut")'
  BY <1>1, <1>3 DEF AskedOnce, Waits
<1> QED
  BY <1>1, <1>2, <1>3, <1>4 DEF KeepsProfile

LEMMA DequeueKeepsProfile ==
    ASSUME Types, Types', AskedOnce, NEW what, Dequeue(what),
           what \notin {"phoneCame", "phone"}
    PROVE  KeepsProfile(1)
<1>1. Shifts /\ blocks[1].what = what
  BY DequeueShifts
<1>2. \A i \in Places : Fresh(i) => i > 1
  <2>1. \A i \in Places : i = 1 \/ i > 1
    BY <1>1 DEF Shifts
  <2> QED
    BY <1>1, <2>1 DEF Fresh, Dials
<1>3. Asked => ~Waits("loggedOut")'
  BY <1>1, ShiftedWaits DEF AskedOnce
<1> QED
  BY <1>1, <1>2, <1>3 DEF KeepsProfile, Shifts

(* The steps that do not concern the profile.                              *)
ApartlyProfile ==
    \/ \E r \in requests : CreateUser(r) \/ SignedIn(r) \/ SignInFails(r)
    \/ RefreshToken \/ SignOutByForce \/ SignInDone \/ SignUpDone \/ SignInFailed
    \/ CheckSignedIn \/ Press \/ LeaveProfile \/ LogOut
    \/ \E what \in {"signIn", "signUp"}, a \in Accounts : Submit(what, a)

LEMMA ApartlyProfileKept ==
    ASSUME AuthInv, ProfileInv, ApartlyProfile, Types' PROVE ProfileInv'
<1> USE DEF AuthInv, ProfileInv, cloud, auth, flying, screens, profile, history
<1>1. Notify \in Block /\ Notify.what = "notify" /\ [what |-> "authError"] \in Block
  BY DEF Notify, Block
<1>2. ASSUME NEW r \in requests, CreateUser(r) PROVE KeepsProfile(0) /\ ApartProfile
  <2>1. blocks' = blocks
    BY <1>2 DEF CreateUser, queue
  <2> QED
    BY <1>2, <2>1, StayKeepsProfile DEF CreateUser, ApartProfile
<1>3. ASSUME NEW r \in requests, SignedIn(r) PROVE KeepsProfile(0) /\ ApartProfile
  <2> DEFINE done == IF r.what = "signIn" THEN [what |-> "signedIn"]
                     ELSE [what |-> "signedUp", of |-> r.of]
             n == Len(blocks)
  <2>1. done \in Block /\ done.what \in {"signedIn", "signedUp"}
    BY DEF Block, Types
  <2>2. blocks' = blocks \o <<Notify, done>>
    BY <1>3 DEF SignedIn
  <2> HIDE DEF done
  <2>3. /\ Places' = Places \cup {n + 1, n + 2}
        /\ \A i \in Places : blocks'[i] = blocks[i]
        /\ blocks'[n + 1].what = "notify" /\ blocks'[n + 2] = done
    BY <1>1, <2>1, <2>2, AppendTwoFacts DEF Types
  <2>4. \A i \in Places : i - 0 = i /\ i + 0 = i
    BY DEF Places
  <2>5. manager = Blank /\ ~Asked
    BY <1>3 DEF RequestWaits, AskedOnce, Kept
  <2>6. KeepsProfile(0)
    <3>1. \A i \in Places' : blocks'[i].what \notin {"notify", "signedIn", "signedUp"} => i \in Places
      BY <2>1, <2>3
    <3> QED
      BY <2>3, <2>4, <2>5, <3>1 DEF KeepsProfile, Dials
  <2> QED
    BY <1>3, <2>6 DEF SignedIn, ApartProfile
<1>4. ASSUME NEW r \in requests, SignInFails(r) PROVE KeepsProfile(0) /\ ApartProfile
  <2>1. blocks' = Append(blocks, [what |-> "authError"])
    BY <1>4 DEF SignInFails, Send
  <2>2. KeepsProfile(0)
    BY <1>1, <2>1, AppendKeepsProfile
  <2> QED
    BY <1>4, <2>2 DEF SignInFails, ApartProfile
<1>5. ASSUME RefreshToken \/ SignOutByForce PROVE KeepsProfile(0) /\ ApartProfile
  <2>1. blocks' = Append(blocks, Notify)
    BY <1>5 DEF RefreshToken, SignOutByForce, Send
  <2>2. KeepsProfile(0)
    BY <1>1, <2>1, AppendKeepsProfile
  <2> QED
    BY <1>5, <2>2 DEF RefreshToken, SignOutByForce, ApartProfile
<1>6. ASSUME CheckSignedIn PROVE KeepsProfile(0) /\ ApartProfile
  <2>1. blocks' = Append(blocks, Notify)
    BY <1>6 DEF CheckSignedIn, Between
  <2>2. KeepsProfile(0)
    BY <1>1, <2>1, AppendKeepsProfile
  <2> QED
    BY <1>6, <2>2 DEF CheckSignedIn, ApartProfile
<1>7. ASSUME SignInDone \/ SignInFailed PROVE KeepsProfile(1) /\ ApartProfile
  <2>1. KeepsProfile(1)
    BY <1>7, DequeueKeepsProfile DEF SignInDone, SignInFailed
  <2>2. root = "content" /\ alert = "loading" => alert' = "loading"
    <3>1. CASE SignInDone
      BY <3>1 DEF SignInDone
    <3>2. CASE SignInFailed
      <4>1. Shifts /\ blocks[1].what = "authError"
        BY <3>2, DequeueShifts DEF SignInFailed
      <4> QED
        BY <4>1 DEF RefusalWaits, Shifts
    <3> QED
      BY <1>7, <3>1, <3>2
  <2> QED
    BY <1>7, <2>1, <2>2 DEF SignInDone, SignInFailed, ApartProfile
<1>8. ASSUME SignUpDone PROVE KeepsProfile(1) /\ ApartProfile
  <2>1. KeepsProfile(1)
    BY <1>8, DequeueKeepsProfile DEF SignUpDone
  <2>2. Shifts /\ blocks[1].what = "signedUp"
    BY <1>8, DequeueShifts DEF SignUpDone
  <2>3. manager = Blank
    BY <2>2 DEF DocumentFirst, Shifts
  <2>4. \A i \in Places : ~Fresh(i)
    BY <2>3 DEF DialledFor
  <2> QED
    BY <1>8, <2>1, <2>3, <2>4 DEF SignUpDone, ApartProfile
<1>9. ASSUME Press \/ LeaveProfile PROVE KeepsProfile(0) /\ ApartProfile
  <2>1. blocks' = blocks
    BY <1>9 DEF Press, LeaveProfile, Between
  <2>2. KeepsProfile(0)
    BY <2>1, StayKeepsProfile
  <2> QED
    BY <1>9, <2>2 DEF Press, LeaveProfile, ApartProfile
<1>10. ASSUME NEW what \in {"signIn", "signUp"}, NEW a \in Accounts, Submit(what, a)
       PROVE  KeepsProfile(0) /\ ApartProfile
  <2>1. blocks' = blocks
    BY <1>10 DEF Submit, Between
  <2>2. KeepsProfile(0)
    BY <2>1, StayKeepsProfile
  <2> QED
    BY <1>10, <2>2 DEF Submit, ApartProfile
<1>11. ASSUME LogOut PROVE KeepsProfile(0) /\ ApartProfile
  <2> DEFINE told == IF user # Nobody THEN <<Notify>> ELSE <<>>
             last == [what |-> "loggedOut"]
  <2>1. last \in Block /\ last.what = "loggedOut" /\ blocks \in Seq(Block) /\ Len(blocks) \in Nat
    BY DEF Block, Types
  <2>2. blocks' = (blocks \o told) \o <<last>>
    BY <1>11 DEF LogOut, Between
  <2> HIDE DEF last
  <2>3. /\ \A i \in Places : i \in Places' /\ blocks'[i] = blocks[i]
        /\ \A i \in Places' : \/ i \in Places
                              \/ blocks'[i].what \in {"notify", "loggedOut"}
    <3>1. CASE user # Nobody
      <4>1. blocks' = (blocks \o <<Notify>>) \o <<last>>
        BY <2>2, <3>1
      <4>2. blocks' = blocks \o <<Notify, last>>
        BY <1>1, <2>1, <4>1
      <4> QED
        BY <1>1, <2>1, <4>2, AppendTwoFacts
    <3>2. CASE user = Nobody
      <4>1. blocks' = Append(blocks, last)
        BY <2>1, <2>2, <3>2
      <4> QED
        BY <2>1, <4>1, AppendFacts
    <3> QED
      BY <3>1, <3>2
  <2>4. ~Asked
    BY <1>11 DEF LogOut, OnProfile, AskedOnce
  <2>5. \A i \in Places : i - 0 = i /\ i + 0 = i
    BY DEF Places
  <2>6. KeepsProfile(0)
    BY <2>3, <2>4, <2>5 DEF KeepsProfile
  <2> QED
    BY <1>11, <2>6 DEF LogOut, ApartProfile
<1> QED
  BY <1>2, <1>3, <1>4, <1>5, <1>6, <1>7, <1>8, <1>9, <1>10, <1>11, KeptProfile DEF ApartlyProfile

LEMMA AuthStateDidChangeProfile ==
    ASSUME AuthInv, ProfileInv, AuthStateDidChange, Types' PROVE ProfileInv'
<1> USE DEF AuthInv, ProfileInv, cloud, flying
<1>1. Shifts /\ blocks[1].what = "notify"
  BY DequeueShifts DEF AuthStateDidChange
<1>2. UNCHANGED <<docs, phones, dialled, lookups, writes, manager>>
  BY DEF AuthStateDidChange
<1>3. CASE contents' = contents
  <2>1. KeepsProfile(1)
    BY DequeueKeepsProfile DEF AuthStateDidChange
  <2>2. ApartProfile
    <3>1. ~(previous \notin {"off", user} /\ user # Nobody)
      BY <1>3 DEF AuthStateDidChange, ShowContent, Types
    <3>2. UNCHANGED <<owner, tab, loaded, shown, alert>>
      BY <3>1 DEF AuthStateDidChange, ShowIntro, screens
    <3>3. root' = root \/ (splashNav /\ root' = "intro")
      BY <3>1 DEF AuthStateDidChange, ShowIntro, screens
    <3>4. root' = root \/ (root # "content" /\ root' # "content")
      BY <3>3 DEF RootFollows
    <3> QED
      BY <1>2, <1>3, <3>2, <3>4 DEF ApartProfile
  <2> QED
    BY <2>1, <2>2, KeptProfile
<1>4. CASE contents' # contents
  <2>1. root # "content"
    BY <1>4, AuthStateDidChangeAuth DEF ContentIsOwn, AuthStateDidChange, ShowContent, ShowIntro, screens
  <2>2. contents' = contents + 1 /\ shown' = Blank /\ tab' = "search" /\ contents \in Nat
    BY <1>4 DEF AuthStateDidChange, ShowContent, ShowIntro, screens, Types
  <2>3. manager = Blank /\ lookups = {} /\ writes = <<>> /\ \A i \in Places : ~Asks(i)
    BY <2>1 DEF AskedOnce, Asked, Kept, DialledFor
  <2>4. \A i \in Places' : ~Asks(i)'
    BY <1>1, <2>3 DEF Asks, Shifts
  <2>5. \A i \in Places' : Dials(i)' => blocks'[i].reply.in <= contents
    BY <1>1 DEF Dials, Shifts, NothingEarly
  <2>6. \A i \in Places' : Dials(i)' => blocks'[i] \in Block /\ blocks'[i].reply.in \in Nat
    <3>1. ASSUME NEW i \in Places', Dials(i)' PROVE blocks'[i] \in Block /\ blocks'[i].reply.in \in Nat
      <4>1. blocks'[i] \in Block /\ blocks'[i].what \in {"phoneCame", "phone"}
        <5>1. blocks' \in Seq(Block)
          BY DEF Types
        <5> QED
          BY <3>1, <5>1 DEF Places, Dials
      <4>2. blocks'[i].reply \in Reply
        BY <4>1, BlockFacts
      <4> QED
        BY <4>1, <4>2 DEF Reply
    <3> QED
      BY <3>1
  <2>7. \A i \in Places' : ~Fresh(i)'
    BY <2>2, <2>5, <2>6 DEF Fresh, OnScreen
  <2>8. \A i \in Places' : Dials(i)' => blocks'[i].reply.in <= contents'
    BY <2>2, <2>5, <2>6
  <2>9. NothingEarly' /\ AskedOnce'
    BY <1>2, <2>3, <2>4, <2>8 DEF NothingEarly, AskedOnce, Asked
  <2>10. Kept' /\ DialledFor' /\ DocumentFirst' /\ InOrder' /\ LatestComes'
    BY <1>2, <2>2, <2>3, <2>4, <2>7 DEF Kept, DialledFor, DocumentFirst, InOrder, LatestComes
  <2> QED
    BY <2>9, <2>10
<1> QED
  BY <1>3, <1>4

LEMMA GetDocumentProfile ==
    ASSUME AuthInv, ProfileInv, NEW l \in lookups, GetDocument(l), Types' PROVE ProfileInv'
<1> USE DEF AuthInv, ProfileInv, cloud, screens, profile
<1> DEFINE reply == [of |-> l.of, in |-> l.in, phone |-> phones[l.of]]
           b == [what |-> "infoCame", reply |-> reply]
           n == Len(blocks)
<1>1. /\ UNCHANGED <<docs, phones, dialled, writes, root, contents, owner, loaded, shown, manager,
                     alert>>
      /\ lookups' = lookups \ {l}
      /\ (blocks' = Append(blocks, b) \/ blocks' = blocks)
  BY DEF GetDocument, Send, queue
<1>2. /\ Asked /\ l.of = owner /\ l.in = contents /\ lookups = {l}
      /\ \A i \in Places : ~Asks(i)
      /\ root = "content" /\ alert = "loading" /\ loaded /\ manager = Blank /\ ~Waits("loggedOut")
  BY DEF AskedOnce, Asked
<1>3. lookups' = {} /\ writes = <<>> /\ \A i \in Places : ~Fresh(i)
  BY <1>1, <1>2 DEF DialledFor
<1>4. /\ b \in Block /\ b.what = "infoCame" /\ b.reply.of = owner /\ b.reply.in = contents
      /\ b.reply.phone = phones[owner]
  BY <1>2 DEF Block, Reply, Types
<1> HIDE DEF b
<1>5. /\ \A i \in Places : i \in Places' /\ blocks'[i] = blocks[i] /\ i < n + 1
      /\ \A i \in Places' : i \in Places \/ (i = n + 1 /\ blocks'[i] = b)
  <2>0. Len(blocks) \in Nat
    BY DEF Types
  <2>1. \A i \in Places : i \in Nat /\ i < n + 1
    BY <2>0 DEF Places
  <2>2. CASE blocks' = blocks
    <3>1. Places' = Places
      BY <2>2 DEF Places
    <3> QED
      BY <2>1, <2>2, <3>1
  <2>3. CASE blocks' = Append(blocks, b)
    <3>1. /\ Places' = Places \cup {n + 1} /\ blocks'[n + 1] = b
          /\ \A i \in Places : blocks'[i] = blocks[i]
      BY <1>4, <2>3, AppendFacts DEF Types
    <3> QED
      BY <2>1, <3>1
  <2> QED
    BY <1>1, <2>2, <2>3
<1> HIDE DEF n
<1>6. \A i \in Places' : Asks(i)' => i = n + 1 /\ blocks'[i] = b
  BY <1>2, <1>5 DEF Asks
<1>7. \A i \in Places' : Dials(i)' => i \in Places /\ blocks'[i] = blocks[i] /\ Dials(i)
  BY <1>4, <1>5 DEF Dials
<1>8. \A i \in Places' : ~Fresh(i)'
  BY <1>1, <1>3, <1>7 DEF Fresh, OnScreen
<1>9. NothingEarly'
  <2>1. contents <= contents
    BY DEF Types
  <2> QED
    BY <1>1, <1>3, <1>4, <1>6, <1>7, <2>1 DEF NothingEarly
<1>10. ~Waits("loggedOut")'
  BY <1>2, <1>4, <1>5 DEF Waits
<1>11. AskedOnce'
  BY <1>1, <1>2, <1>3, <1>4, <1>6, <1>10 DEF AskedOnce
<1>12. Kept' /\ InOrder' /\ LatestComes'
  BY <1>1, <1>2 DEF Kept, InOrder, LatestComes
<1>13. DialledFor'
  BY <1>1, <1>2, <1>3, <1>5, <1>6, <1>7, <1>8 DEF DialledFor, Dials
<1>14. DocumentFirst'
  BY <1>1, <1>2, <1>4, <1>5, <1>6 DEF DocumentFirst
<1> QED
  BY <1>9, <1>11, <1>12, <1>13, <1>14

LEMMA InfoCameProfile == ASSUME AuthInv, ProfileInv, InfoCame, Types' PROVE ProfileInv'
<1> USE DEF AuthInv, ProfileInv, cloud, auth, flying, screens, profile, history
<1> DEFINE alive == OnScreen(Head(blocks).reply.in)
           n == Len(blocks)
<1>1. Came("infoCame", "info", alive) /\ alive \in BOOLEAN
  BY DEF InfoCame, OnScreen
<1> HIDE DEF alive
<1>2. UNCHANGED <<docs, phones, dialled, lookups, writes, root, contents, owner, loaded, shown,
                  manager, alert>>
  BY <1>1 DEF Came
<1>3. /\ 1 \in Places /\ blocks[1].what = "infoCame" /\ Head(blocks) = blocks[1]
      /\ n \in Nat
      /\ Len(blocks') = (IF alive THEN n ELSE n - 1)
      /\ \A i \in Places' : \/ i + 1 \in Places /\ blocks'[i] = blocks[i + 1]
                            \/ /\ alive /\ i = n
                               /\ blocks'[i] = [what |-> "info", reply |-> blocks[1].reply]
      /\ \A i \in Places : i > 1 => i - 1 \in Places' /\ blocks'[i - 1] = blocks[i]
      /\ alive => n \in Places' /\ blocks'[n] = [what |-> "info", reply |-> blocks[1].reply]
  BY <1>1, CameFacts DEF Types
<1>4. Asks(1) /\ Asked
  BY <1>3 DEF Asks, Asked
<1>5. /\ lookups = {} /\ blocks[1].reply.of = owner /\ blocks[1].reply.in = contents
      /\ blocks[1].reply.phone = phones[owner] /\ \A j \in Places : Asks(j) => j = 1
      /\ root = "content" /\ alert = "loading" /\ loaded /\ manager = Blank /\ ~Waits("loggedOut")
  BY <1>3, <1>4 DEF AskedOnce
<1>6. \A i \in Places : i \in Nat /\ i >= 1 /\ (i = 1 \/ i > 1) /\ i + 1 # 1
  BY DEF Places
<1>7. \A i \in Places' : i \in Nat /\ i >= 1 /\ i <= n /\ i + 1 # 1
  BY <1>3 DEF Places
<1>8. \A i \in Places' : Asks(i)' => i = n /\ blocks'[i] = [what |-> "info", reply |-> blocks[1].reply]
  BY <1>3, <1>5, <1>7 DEF Asks
<1>9. \A i \in Places' : \/ i + 1 \in Places /\ blocks'[i] = blocks[i + 1] /\ i < n
                         \/ blocks'[i].what = "info"
  BY <1>3, <1>7 DEF Places
<1>10. writes = <<>> /\ \A i \in Places : ~Fresh(i)
  BY <1>5 DEF DialledFor
<1>11. \A i \in Places' : Dials(i)' => i + 1 \in Places /\ blocks'[i] = blocks[i + 1] /\ i < n
  BY <1>9 DEF Dials
<1>12. \A i \in Places' : ~Fresh(i)'
  BY <1>2, <1>10, <1>11 DEF Fresh, OnScreen, Dials
<1>13. NothingEarly'
  BY <1>2, <1>3, <1>5, <1>8, <1>11 DEF NothingEarly, Asks, Dials
<1>14. ~Waits("loggedOut")'
  BY <1>5, <1>9 DEF Waits
<1>15. AskedOnce'
  BY <1>2, <1>5, <1>8, <1>14 DEF AskedOnce
<1>16. Kept' /\ InOrder' /\ LatestComes'
  BY <1>2, <1>5 DEF Kept, InOrder, LatestComes
<1>17. DialledFor'
  BY <1>2, <1>5, <1>8, <1>10, <1>11, <1>12 DEF DialledFor, Dials
<1>18. DocumentFirst'
  BY <1>2, <1>5, <1>8, <1>9 DEF DocumentFirst
<1> QED
  BY <1>13, <1>15, <1>16, <1>17, <1>18

LEMMA SetInfoDoneProfile == ASSUME AuthInv, ProfileInv, SetInfoDone, Types' PROVE ProfileInv'
<1> USE DEF AuthInv, ProfileInv, cloud, auth, flying, screens, history
<1>1. Shifts /\ blocks[1].what = "info" /\ Head(blocks) = blocks[1]
  BY DequeueShifts DEF SetInfoDone
<1>2. Asks(1) /\ Asked /\ 1 \in Places
  BY <1>1 DEF Asks, Asked, Shifts
<1>3. /\ lookups = {} /\ blocks[1].reply.of = owner /\ blocks[1].reply.in = contents
      /\ blocks[1].reply.phone = phones[owner] /\ \A j \in Places : Asks(j) => j = 1
      /\ root = "content" /\ loaded /\ manager = Blank
  BY <1>2 DEF AskedOnce
<1>4. OnScreen(blocks[1].reply.in)
  BY <1>3 DEF OnScreen
<1>5. /\ UNCHANGED <<docs, phones, dialled, lookups, writes, root, contents, owner, loaded>>
      /\ manager' = [of |-> owner, phone |-> phones[owner]] /\ shown' = manager'
  BY <1>1, <1>3, <1>4 DEF SetInfoDone
<1>6. writes = <<>> /\ \A i \in Places : ~Fresh(i)
  BY <1>3 DEF DialledFor
<1>7. owner \in Accounts /\ owner # Nobody
  <2>1. blocks[1].reply \in Reply
    BY <1>1, <1>2, BlockFacts DEF Types, Places
  <2> QED
    BY <1>3, <2>1, SessionAssumption DEF Reply
<1>8. manager' # Blank /\ manager'.of = owner /\ manager'.phone = phones[owner]
  BY <1>5, <1>7 DEF Blank
<1>9. \A i \in Places' : i + 1 \in Places /\ blocks'[i] = blocks[i + 1] /\ i + 1 # 1
  BY <1>1 DEF Shifts
<1>10. \A i \in Places' : ~Asks(i)' /\ ~Fresh(i)'
  BY <1>3, <1>5, <1>6, <1>9 DEF Asks, Fresh, Dials, OnScreen
<1>11. \A i \in Places' : blocks'[i].what # "phone" /\ blocks'[i].what # "signedUp"
  <2>1. \A i \in Places : blocks[i].what = "phone" => i < 1
    BY <1>2, <1>6 DEF DialledFor
  <2>2. \A i \in Places : blocks[i].what = "signedUp" => i < 1
    BY <1>2 DEF DocumentFirst
  <2>3. \A i \in Places : ~(i < 1)
    BY <1>1 DEF Shifts
  <2> QED
    BY <1>9, <2>1, <2>2, <2>3
<1>12. NothingEarly'
  BY <1>3, <1>5, <1>6, <1>9, <1>10 DEF NothingEarly, Dials
<1>13. AskedOnce'
  BY <1>3, <1>5, <1>10 DEF AskedOnce, Asked
<1>14. Kept'
  BY <1>3, <1>5, <1>7, <1>8 DEF Kept
<1>15. DialledFor' /\ DocumentFirst'
  BY <1>3, <1>5, <1>6, <1>10, <1>11 DEF DialledFor, DocumentFirst
<1>16. InOrder' /\ LatestComes'
  BY <1>5, <1>6, <1>8, <1>10 DEF InOrder, LatestComes
<1> QED
  BY <1>12, <1>13, <1>14, <1>15, <1>16

LEMMA LogOutDoneProfile == ASSUME AuthInv, ProfileInv, LogOutDone, Types' PROVE ProfileInv'
<1> USE DEF AuthInv, ProfileInv, cloud, auth, history
<1>1. Shifts /\ blocks[1].what = "loggedOut"
  BY DequeueShifts DEF LogOutDone
<1>2. ~Asked
  BY <1>1 DEF AskedOnce, Waits, Shifts
<1>3. /\ UNCHANGED <<docs, phones, dialled, lookups, contents, owner>>
      /\ root' = "intro" /\ manager' = Blank /\ shown' = Blank /\ writes' = <<>>
  BY DEF LogOutDone
<1>4. \A i \in Places' : i + 1 \in Places /\ blocks'[i] = blocks[i + 1]
  BY <1>1 DEF Shifts
<1>5. \A i \in Places' : ~Asks(i)' /\ ~Fresh(i)'
  BY <1>2, <1>3, <1>4 DEF Asked, Asks, Fresh, OnScreen
<1>6. NothingEarly'
  BY <1>3, <1>4, <1>5 DEF NothingEarly, Dials
<1>7. AskedOnce'
  BY <1>2, <1>3, <1>5 DEF AskedOnce, Asked
<1>8. Kept' /\ DialledFor' /\ DocumentFirst' /\ InOrder' /\ LatestComes'
  BY <1>3, <1>5 DEF Kept, DialledFor, DocumentFirst, InOrder, LatestComes
<1> QED
  BY <1>6, <1>7, <1>8

LEMMA OpenProfileProfile == ASSUME AuthInv, ProfileInv, OpenProfile, Types' PROVE ProfileInv'
<1> USE DEF AuthInv, ProfileInv, cloud, auth, profile
<1>1. /\ root = "content" /\ alert = "none" /\ due = 0 /\ blocks' = blocks
      /\ UNCHANGED <<docs, phones, dialled, writes, root, contents, owner, shown, manager, user>>
      /\ loaded' = TRUE
      /\ alert' = IF manager = Blank THEN "loading" ELSE "none"
  BY DEF OpenProfile, Between
<1>2. ~Asked
  BY <1>1 DEF AskedOnce
<1>3. lookups = {} /\ \A i \in Places : ~Asks(i)
  BY <1>2 DEF Asked
<1>4. Places' = Places
  BY <1>1 DEF Places
<1>5. \A i \in Places : (Asks(i)' <=> Asks(i)) /\ (Dials(i)' <=> Dials(i)) /\ (Fresh(i)' <=> Fresh(i))
  BY <1>1 DEF Asks, Dials, Fresh, OnScreen
<1>6. ~Waits("loggedOut")'
  BY <1>1, <1>4 DEF LogOutWaits, Waits, Places
<1>7. lookups' = {} \/ (lookups' = {[of |-> user, in |-> contents]} /\ ~loaded /\ user # Nobody)
  BY <1>3 DEF OpenProfile, SetInfo
<1>8. lookups' # {} => manager = Blank /\ user = owner
  BY <1>1, <1>7 DEF Kept, ContentIsOwn
<1>9. NothingEarly'
  <2>1. contents <= contents
    BY DEF Types
  <2> QED
    BY <1>1, <1>4, <1>5, <1>7, <2>1 DEF NothingEarly
<1>10. AskedOnce'
  BY <1>1, <1>3, <1>4, <1>5, <1>6, <1>7, <1>8 DEF AskedOnce, Asked
<1>11. Kept'
  BY <1>1 DEF Kept
<1>12. DialledFor' /\ DocumentFirst'
  BY <1>1, <1>4, <1>5 DEF DialledFor, DocumentFirst
<1>13. InOrder' /\ LatestComes'
  BY <1>1, <1>4, <1>5 DEF InOrder, LatestComes
<1> QED
  BY <1>9, <1>10, <1>11, <1>12, <1>13

LEMMA KillProfile == ASSUME AuthInv, ProfileInv, Kill, Types' PROVE ProfileInv'
<1>1. /\ lookups' = {} /\ writes' = <<>> /\ shown' = Blank /\ manager' = Blank /\ blocks' = <<>>
      /\ root' = "splash"
      /\ UNCHANGED <<phones, dialled, contents>>
  BY DEF Kill, cloud
<1>2. Places' = {}
  BY <1>1 DEF Places
<1>3. NothingEarly'
  BY <1>1, <1>2 DEF NothingEarly, ProfileInv
<1>4. AskedOnce'
  BY <1>1, <1>2 DEF AskedOnce, Asked
<1>5. Kept' /\ DialledFor' /\ DocumentFirst' /\ InOrder' /\ LatestComes'
  BY <1>1, <1>2 DEF Kept, DialledFor, DocumentFirst, InOrder, LatestComes
<1> QED
  BY <1>3, <1>4, <1>5 DEF ProfileInv

LEMMA UpdateDataProfile == ASSUME AuthInv, ProfileInv, UpdateData, Types' PROVE ProfileInv'
<1> USE DEF AuthInv, ProfileInv, cloud, auth, screens, profile, history
<1> DEFINE w == writes[1]
           b == [what |-> "phoneCame", reply |-> w]
<1>1. /\ UNCHANGED <<docs, phones, dialled, lookups, root, contents, owner, tab, loaded, shown,
                     manager, alert>>
      /\ writes # <<>> /\ Head(writes) = w /\ writes' = Tail(writes) /\ w.of = user
  BY DEF UpdateData, Types
<1>2. /\ Len(writes) \in Nat /\ Len(writes) >= 1 /\ w \in Reply
      /\ 1 \in 1 .. Len(writes)
      /\ Len(writes') = Len(writes) - 1
      /\ \A k \in 1 .. Len(writes) - 1 : writes'[k] = writes[k + 1]
  BY <1>1 DEF Types
<1>3. \A k \in 1 .. Len(writes') : k \in Nat /\ k + 1 \in 1 .. Len(writes) /\ writes'[k] = writes[k + 1]
                                   /\ 1 < k + 1
  BY <1>2
<1>4. /\ root = "content" /\ manager # Blank /\ w.in = contents /\ w.of = owner /\ user = owner
  BY <1>1, <1>2 DEF DialledFor
<1>5. ~Asked /\ lookups = {} /\ \A i \in Places : ~Asks(i)
  BY <1>4 DEF AskedOnce, Asked
<1>6. CASE user \notin docs
  <2>1. blocks' = blocks /\ Places' = Places
    BY <1>6 DEF UpdateData, queue, Places
  <2>2. \A i \in Places : (Asks(i)' <=> Asks(i)) /\ (Dials(i)' <=> Dials(i)) /\ (Fresh(i)' <=> Fresh(i))
    BY <1>1, <2>1 DEF Asks, Dials, Fresh, OnScreen
  <2>3. NothingEarly' /\ Kept' /\ DocumentFirst'
    BY <1>1, <1>3, <2>1, <2>2 DEF NothingEarly, Kept, DocumentFirst
  <2>4. AskedOnce'
    BY <1>1, <1>5, <2>1, <2>2 DEF AskedOnce, Asked
  <2>5. DialledFor'
    BY <1>1, <1>3, <1>4, <2>1, <2>2 DEF DialledFor
  <2>6. InOrder' /\ LatestComes'
    BY <1>1, <1>4, <1>6 DEF InOrder, LatestComes
  <2> QED
    BY <2>3, <2>4, <2>5, <2>6
<1>7. CASE user \in docs
  <2>1. blocks' = Append(blocks, b) /\ b \in Block /\ b.what = "phoneCame" /\ b.reply = w
    BY <1>1, <1>2, <1>7 DEF UpdateData, Send, Block
  <2> HIDE DEF b
  <2>2. PICK p : p = Len(blocks) + 1
    OBVIOUS
  <2>3. /\ p \in Nat /\ Places' = Places \cup {p} /\ blocks'[p] = b
        /\ \A i \in Places : blocks'[i] = blocks[i]
    <3>1. /\ Len(blocks) \in Nat /\ Places' = Places \cup {Len(blocks) + 1}
          /\ \A i \in Places : blocks'[i] = blocks[i]
          /\ blocks'[Len(blocks) + 1] = b
      BY <2>1, AppendFacts DEF Types
    <3> QED
      BY <2>2, <3>1
  <2>4. ~(p < p) /\ \A i \in Places : i < p /\ i # p /\ ~(p < i)
    BY <2>2, <2>3 DEF Places
  <2> HIDE DEF w
  <2>5. \A i \in Places : (Asks(i)' <=> Asks(i)) /\ (Dials(i)' <=> Dials(i)) /\ (Fresh(i)' <=> Fresh(i))
    BY <1>1, <2>3 DEF Asks, Dials, Fresh, OnScreen
  <2>6. ~Asks(p)' /\ Dials(p)' /\ Fresh(p)'
    BY <1>1, <1>4, <2>1, <2>3 DEF Asks, Dials, Fresh, OnScreen
  <2>7. NothingEarly'
    <3>1. w.in <= contents
      BY <1>2 DEF NothingEarly, w
    <3> QED
      BY <1>1, <1>3, <2>1, <2>3, <2>5, <2>6, <3>1 DEF NothingEarly
  <2>8. ~Waits("loggedOut") => ~Waits("loggedOut")'
    BY <2>1, <2>3 DEF Waits
  <2>9. AskedOnce'
    BY <1>1, <1>5, <2>3, <2>5, <2>6, <2>8 DEF AskedOnce, Asked
  <2>10. Kept'
    BY <1>1 DEF Kept
  <2>11. DialledFor'
    BY <1>1, <1>3, <1>4, <1>7, <2>1, <2>3, <2>5, <2>6 DEF DialledFor
  <2>12. DocumentFirst'
    BY <1>1, <2>1, <2>3, <2>5, <2>6 DEF DocumentFirst
  <2>13. /\ shown.phone < w.phone /\ w.phone <= phones[owner]
         /\ \A i \in Places : Fresh(i) => blocks[i].reply.phone < w.phone
         /\ \A k \in 1 .. Len(writes) : 1 < k => w.phone < writes[k].phone
    BY <1>2, <1>4, <1>7 DEF InOrder, w
  <2>14. InOrder'
    <3>1. \A i \in Places' : Fresh(i)' =>
              shown'.phone < blocks'[i].reply.phone /\ blocks'[i].reply.phone <= phones'[owner']
      BY <1>1, <1>4, <1>7, <2>1, <2>3, <2>5, <2>13 DEF InOrder
    <3>2. \A k \in 1 .. Len(writes') :
              shown'.phone < writes'[k].phone /\ writes'[k].phone <= phones'[owner']
      BY <1>1, <1>3, <1>4, <1>7 DEF InOrder
    <3>3. ASSUME NEW i \in Places', NEW j \in Places', Fresh(i)', Fresh(j)',
                 IF blocks'[i].what = blocks'[j].what THEN i < j ELSE blocks'[i].what = "phone"
          PROVE  blocks'[i].reply.phone < blocks'[j].reply.phone
      <4>1. i # p
        BY <2>1, <2>3, <2>4, <3>3
      <4>2. CASE j = p
        BY <2>1, <2>3, <2>5, <2>13, <3>3, <4>1, <4>2
      <4>3. CASE j # p
        BY <1>4, <1>7, <2>3, <2>5, <3>3, <4>1, <4>3 DEF InOrder
      <4> QED
        BY <4>2, <4>3
    <3>4. \A i \in Places', k \in 1 .. Len(writes') :
              Fresh(i)' => blocks'[i].reply.phone < writes'[k].phone
      BY <1>3, <1>4, <1>7, <2>1, <2>3, <2>5, <2>13 DEF InOrder
    <3>5. ASSUME NEW k \in 1 .. Len(writes'), NEW m \in 1 .. Len(writes'), k < m
          PROVE  writes'[k].phone < writes'[m].phone
      <4>1. k + 1 < m + 1
        BY <1>3, <3>5
      <4> QED
        BY <1>3, <1>4, <1>7, <4>1 DEF InOrder
    <3> QED
      BY <3>1, <3>2, <3>3, <3>4, <3>5 DEF InOrder
  <2>15. LatestComes'
    <3>1. ASSUME NEW k \in 1 .. Len(writes), writes[k].phone = phones[owner]
          PROVE  \/ w.phone = phones[owner]
                 \/ \E m \in 1 .. Len(writes') : writes'[m].phone = phones[owner]
      <4>1. CASE k = 1
        BY <3>1, <4>1 DEF w
      <4>2. CASE k # 1
        <5>1. k - 1 \in 1 .. Len(writes') /\ (k - 1) + 1 = k
          BY <1>2, <4>2
        <5> QED
          BY <1>3, <3>1, <5>1
      <4> QED
        BY <4>1, <4>2
    <3>2. owner' \in docs' /\ phones'[owner'] = phones[owner] /\ shown' = shown
      BY <1>1, <1>4, <1>7
    <3>3. CASE shown.phone = phones[owner]
      BY <3>2, <3>3 DEF LatestComes
    <3>4. ASSUME NEW i \in Places, Fresh(i), blocks[i].reply.phone = phones[owner]
          PROVE  LatestComes'
      <4>1. i \in Places' /\ Fresh(i)' /\ blocks'[i].reply.phone = phones[owner]
        BY <2>3, <2>5, <3>4
      <4> QED
        BY <3>2, <4>1 DEF LatestComes
    <3>5. ASSUME NEW k \in 1 .. Len(writes), writes[k].phone = phones[owner]
          PROVE  LatestComes'
      <4>1. \/ p \in Places' /\ Fresh(p)' /\ blocks'[p].reply.phone = phones[owner]
            \/ \E m \in 1 .. Len(writes') : writes'[m].phone = phones[owner]
        BY <2>1, <2>3, <2>6, <3>1, <3>5
      <4> QED
        BY <3>2, <4>1 DEF LatestComes
    <3> QED
      BY <1>4, <3>3, <3>4, <3>5 DEF LatestComes
  <2> QED
    BY <2>7, <2>9, <2>10, <2>11, <2>12, <2>14, <2>15
<1> QED
  BY <1>6, <1>7

LEMMA SetPhoneProfile == ASSUME AuthInv, ProfileInv, SetPhone, Types' PROVE ProfileInv'
<1> USE DEF AuthInv, ProfileInv, auth, screens, profile, history
<1>1. /\ root = "content" /\ tab = "profile" /\ alert = "none" /\ user # Nobody
      /\ blocks' = blocks /\ dialled' = dialled + 1 /\ dialled \in Nat
      /\ phones' = IF user \in docs THEN [phones EXCEPT ![user] = dialled'] ELSE phones
      /\ UNCHANGED <<docs, lookups, root, contents, owner, tab, loaded, shown, manager, alert>>
  BY DEF SetPhone, OnProfile, Between, Types
<1>2. user = owner /\ owner \in Accounts /\ manager # Blank
  BY <1>1 DEF ContentIsOwn, Kept, Types
<1>3. PICK w : w = [of |-> owner, in |-> contents, phone |-> dialled']
  OBVIOUS
<1>4. w.of = owner /\ w.in = contents /\ w.phone = dialled + 1 /\ w \in Reply
  BY <1>1, <1>2, <1>3 DEF Reply, RootFollows, Types
<1>5. writes' = Append(writes, w)
  BY <1>2, <1>3 DEF SetPhone
<1>6. PICK p : p = Len(writes) + 1
  OBVIOUS
<1>7. /\ Len(writes) \in Nat /\ Len(writes') = Len(writes) + 1 /\ writes'[p] = w
      /\ \A k \in 1 .. Len(writes) : writes'[k] = writes[k]
  <2>1. writes \in Seq(Reply)
    BY DEF Types
  <2>2. /\ Len(writes) \in Nat /\ Len(writes') = Len(writes) + 1 /\ writes'[Len(writes) + 1] = w
        /\ \A k \in 1 .. Len(writes) : writes'[k] = writes[k]
    BY <1>4, <1>5, <2>1
  <2> QED
    BY <1>6, <2>2
<1>8. /\ p \in Nat /\ p \in 1 .. Len(writes')
      /\ \A k \in 1 .. Len(writes) : k \in 1 .. Len(writes') /\ k < p
      /\ \A k \in 1 .. Len(writes') : (k \in 1 .. Len(writes) /\ writes'[k] = writes[k])
                                      \/ (k = p /\ writes'[k] = w)
      /\ ~(p < p) /\ \A k \in 1 .. Len(writes) : ~(p < k)
  BY <1>6, <1>7
<1>9. /\ Places' = Places
      /\ \A i \in Places : (Asks(i)' <=> Asks(i)) /\ (Dials(i)' <=> Dials(i)) /\ (Fresh(i)' <=> Fresh(i))
  BY <1>1 DEF Places, Asks, Dials, Fresh, OnScreen
<1>10. ~Asked /\ lookups = {} /\ \A i \in Places : ~Asks(i)
  BY <1>1 DEF AskedOnce, Asked
<1>11. \A a \in Accounts : phones[a] \in Nat /\ phones[a] <= dialled /\ phones'[a] <= dialled'
  <2>1. \A a \in Accounts : phones[a] \in Nat /\ phones[a] <= dialled
    BY DEF Types, NothingEarly
  <2>2. \A a \in Accounts : phones'[a] = phones[a] \/ phones'[a] = dialled'
    BY <1>1 DEF Types
  <2> QED
    BY <1>1, <2>1, <2>2
<1>12. NothingEarly'
  <2>1. \A k \in 1 .. Len(writes') : writes'[k].in <= contents'
    <3>1. contents <= contents
      BY DEF Types
    <3> QED
      BY <1>1, <1>4, <1>8, <3>1 DEF NothingEarly
  <2> QED
    BY <1>1, <1>9, <1>10, <1>11, <2>1 DEF NothingEarly
<1>13. AskedOnce'
  BY <1>1, <1>9, <1>10 DEF AskedOnce, Asked
<1>14. Kept' /\ DocumentFirst'
  BY <1>1, <1>9 DEF Kept, DocumentFirst
<1>15. DialledFor'
  BY <1>1, <1>2, <1>4, <1>8, <1>9 DEF DialledFor
<1>16. CASE user \notin docs
  <2>1. InOrder' /\ LatestComes'
    BY <1>1, <1>2, <1>16 DEF InOrder, LatestComes
  <2> QED
    BY <1>12, <1>13, <1>14, <1>15, <2>1
<1>17. CASE user \in docs
  <2>1. phones'[owner] = dialled + 1 /\ phones'[owner'] = dialled + 1
    BY <1>1, <1>2, <1>17 DEF Types
  <2>2. /\ \A i \in Places : Fresh(i) =>
               blocks[i].reply.phone \in Nat /\ blocks[i].reply.phone <= dialled
        /\ \A k \in 1 .. Len(writes) : writes[k].phone \in Nat /\ writes[k].phone <= dialled
    <3>1. ASSUME NEW i \in Places, Fresh(i) PROVE blocks[i].reply.phone \in Nat
      <4>1. blocks[i] \in Block /\ blocks[i].what \in {"phoneCame", "phone"}
        <5>1. blocks \in Seq(Block)
          BY DEF Types
        <5>2. blocks[i].what \in {"phoneCame", "phone"}
          BY <3>1 DEF Fresh, Dials
        <5>3. blocks[i] \in Block
          BY <3>1, <5>1 DEF Places
        <5> QED
          BY <5>2, <5>3
      <4>2. blocks[i].reply \in Reply
        BY <4>1, BlockFacts
      <4> QED
        BY <4>2 DEF Reply
    <3>2. \A k \in 1 .. Len(writes) : writes[k].phone \in Nat
      <4>1. writes \in Seq(Reply)
        BY DEF Types
      <4>2. \A k \in 1 .. Len(writes) : writes[k] \in Reply
        BY <4>1
      <4> QED
        BY <4>2 DEF Reply
    <3>3. phones[owner] \in Nat /\ phones[owner] <= dialled
      BY <1>2, <1>11
    <3>4. \A i \in Places : Fresh(i) => blocks[i].reply.phone <= phones[owner]
      BY <1>2, <1>17 DEF InOrder
    <3>5. \A k \in 1 .. Len(writes) : writes[k].phone <= phones[owner]
      BY <1>2, <1>17 DEF InOrder
    <3> QED
      BY <1>1, <3>1, <3>2, <3>3, <3>4, <3>5
  <2>3. shown.phone <= dialled /\ shown.phone \in Nat
    <3>1. shown.phone \in Nat
      BY DEF Types, Person
    <3>2. \/ shown.phone = phones[owner]
          \/ \E i \in Places : Fresh(i) /\ shown.phone < blocks[i].reply.phone
          \/ \E k \in 1 .. Len(writes) : shown.phone < writes[k].phone
      BY <1>2, <1>17 DEF InOrder, LatestComes
    <3> QED
      BY <1>1, <1>2, <1>11, <2>2, <3>1, <3>2
  <2>4. InOrder'
    <3>1. \A i \in Places' : Fresh(i)' =>
              shown'.phone < blocks'[i].reply.phone /\ blocks'[i].reply.phone <= phones'[owner']
      BY <1>1, <1>2, <1>9, <1>17, <2>1, <2>2 DEF InOrder
    <3>2. \A k \in 1 .. Len(writes') :
              shown'.phone < writes'[k].phone /\ writes'[k].phone <= phones'[owner']
      <4>1. \A k \in 1 .. Len(writes) : shown.phone < writes[k].phone
        BY <1>2, <1>17 DEF InOrder
      <4> QED
        BY <1>1, <1>4, <1>8, <2>1, <2>2, <2>3, <4>1
    <3>3. \A i \in Places', k \in 1 .. Len(writes') :
              Fresh(i)' => blocks'[i].reply.phone < writes'[k].phone
      <4>1. \A i \in Places, k \in 1 .. Len(writes) : Fresh(i) => blocks[i].reply.phone < writes[k].phone
        BY <1>2, <1>17 DEF InOrder
      <4>2. \A i \in Places : Fresh(i) => blocks[i].reply.phone < w.phone
        BY <1>1, <1>4, <2>2
      <4> QED
        BY <1>1, <1>8, <1>9, <4>1, <4>2
    <3>4. \A k, m \in 1 .. Len(writes') : k < m => writes'[k].phone < writes'[m].phone
      <4>1. \A k, m \in 1 .. Len(writes) : k < m => writes[k].phone < writes[m].phone
        BY <1>2, <1>17 DEF InOrder
      <4>2. \A k \in 1 .. Len(writes) : writes[k].phone < w.phone
        BY <1>1, <1>4, <2>2
      <4> QED
        BY <1>8, <4>1, <4>2
    <3>5. \A i, j \in Places' : Fresh(i)' /\ Fresh(j)' /\
              (IF blocks'[i].what = blocks'[j].what THEN i < j ELSE blocks'[i].what = "phone")
              => blocks'[i].reply.phone < blocks'[j].reply.phone
      BY <1>1, <1>2, <1>9, <1>17 DEF InOrder
    <3> QED
      BY <3>1, <3>2, <3>3, <3>4, <3>5 DEF InOrder
  <2>5. LatestComes'
    BY <1>1, <1>2, <1>4, <1>8, <1>17, <2>1 DEF LatestComes
  <2> QED
    BY <1>12, <1>13, <1>14, <1>15, <2>4, <2>5
<1> QED
  BY <1>12, <1>13, <1>14, <1>15, <1>16, <1>17

LEMMA SetPhoneDoneProfile == ASSUME AuthInv, ProfileInv, SetPhoneDone, Types' PROVE ProfileInv'
<1> USE DEF AuthInv, ProfileInv, cloud, auth, flying, screens, history
<1>1. Shifts /\ blocks[1].what = "phone" /\ Head(blocks) = blocks[1] /\ 1 \in Places
  BY DequeueShifts DEF SetPhoneDone, Shifts
<1>2. /\ UNCHANGED <<docs, phones, dialled, lookups, writes, root, contents, owner, tab, loaded,
                     alert>>
      /\ manager' = IF manager = Blank THEN Blank
                    ELSE [manager EXCEPT !.phone = blocks[1].reply.phone]
      /\ shown' = IF OnScreen(blocks[1].reply.in) THEN [shown EXCEPT !.phone = blocks[1].reply.phone]
                  ELSE shown
  BY <1>1 DEF SetPhoneDone
<1>3. \A i \in Places' : /\ i + 1 \in Places /\ blocks'[i] = blocks[i + 1]
                         /\ i + 1 # 1 /\ 1 < i + 1 /\ i \in Nat
  BY <1>1 DEF Shifts
<1>4. \A i \in Places : i = 1 \/ (i > 1 /\ i - 1 \in Places' /\ blocks'[i - 1] = blocks[i])
  BY <1>1 DEF Shifts
<1>5. CASE ~Fresh(1)
  <2>1. manager = Blank /\ ~OnScreen(blocks[1].reply.in)
    BY <1>1, <1>5 DEF DialledFor, Fresh, Dials
  <2>2. KeepsProfile(1)
    <3>1. \A i \in Places : Fresh(i) => i - 1 \in Places' /\ blocks'[i - 1] = blocks[i]
      BY <1>4, <1>5
    <3>2. Asked => ~Waits("loggedOut")'
      BY <1>1, ShiftedWaits DEF AskedOnce
    <3> QED
      BY <1>3, <3>1, <3>2 DEF KeepsProfile
  <2>3. ApartProfile
    BY <1>2, <2>1 DEF ApartProfile
  <2> QED
    BY <2>2, <2>3, KeptProfile
<1>6. CASE Fresh(1)
  <2>1. manager # Blank /\ owner \in docs /\ OnScreen(blocks[1].reply.in) /\ root = "content"
    BY <1>1, <1>6 DEF DialledFor, Fresh, OnScreen
  <2>2. PICK v : v = blocks[1].reply.phone
    OBVIOUS
  <2>3. /\ manager' = [manager EXCEPT !.phone = v] /\ shown' = manager'
        /\ manager' # Blank /\ manager'.of = owner /\ shown'.phone = v
    <3>1. shown' = [shown EXCEPT !.phone = v] /\ manager' = [manager EXCEPT !.phone = v]
      BY <1>2, <2>1, <2>2
    <3>2. manager.of = owner /\ owner # Nobody /\ shown = manager
      BY <2>1 DEF Kept
    <3>3. manager'.of = owner /\ manager'.phone = v
      BY <3>1, <3>2 DEF Types, Person
    <3> QED
      BY <3>1, <3>2, <3>3 DEF Blank
  <2>4. ~Asked /\ lookups = {} /\ \A i \in Places : ~Asks(i)
    BY <2>1 DEF AskedOnce, Asked
  <2>5. \A i \in Places' : /\ ~Asks(i)' /\ ~Asks(i + 1)
                           /\ Dials(i)' <=> Dials(i + 1)
                           /\ Fresh(i)' <=> Fresh(i + 1)
    BY <1>2, <1>3, <2>4 DEF Asks, Dials, Fresh, OnScreen
  <2>6. NothingEarly'
    BY <1>2, <1>3, <2>5 DEF NothingEarly
  <2>7. AskedOnce'
    BY <1>2, <2>4, <2>5 DEF AskedOnce, Asked
  <2>8. Kept'
    BY <1>2, <2>1, <2>3 DEF Kept
  <2>9. DialledFor'
    BY <1>2, <1>3, <2>1, <2>3, <2>5 DEF DialledFor
  <2>10. DocumentFirst'
    BY <1>3, <2>1 DEF DocumentFirst
  <2>11. \A i \in Places' : Fresh(i)' => v < blocks'[i].reply.phone
    BY <1>1, <1>3, <1>6, <2>1, <2>2, <2>5 DEF InOrder
  <2>12. \A k \in 1 .. Len(writes) : v < writes[k].phone
    BY <1>1, <1>6, <2>1, <2>2 DEF InOrder
  <2>13. InOrder'
    <3>1. \A i \in Places' : Fresh(i)' =>
              shown'.phone < blocks'[i].reply.phone /\ blocks'[i].reply.phone <= phones'[owner']
      BY <1>2, <1>3, <2>1, <2>3, <2>5, <2>11 DEF InOrder
    <3>2. \A k \in 1 .. Len(writes') :
              shown'.phone < writes'[k].phone /\ writes'[k].phone <= phones'[owner']
      BY <1>2, <2>1, <2>3, <2>12 DEF InOrder
    <3>3. ASSUME NEW i \in Places', NEW j \in Places', Fresh(i)', Fresh(j)',
                 IF blocks'[i].what = blocks'[j].what THEN i < j ELSE blocks'[i].what = "phone"
          PROVE  blocks'[i].reply.phone < blocks'[j].reply.phone
      <4>1. i < j => i + 1 < j + 1
        BY <1>3
      <4>2. IF blocks[i + 1].what = blocks[j + 1].what THEN i + 1 < j + 1
            ELSE blocks[i + 1].what = "phone"
        BY <1>3, <3>3, <4>1
      <4> QED
        BY <1>3, <2>1, <2>5, <3>3, <4>2 DEF InOrder
    <3>4. \A i \in Places', k \in 1 .. Len(writes') :
              Fresh(i)' => blocks'[i].reply.phone < writes'[k].phone
      BY <1>2, <1>3, <2>1, <2>5 DEF InOrder
    <3>5. \A k, m \in 1 .. Len(writes') : k < m => writes'[k].phone < writes'[m].phone
      BY <1>2, <2>1 DEF InOrder
    <3> QED
      BY <3>1, <3>2, <3>3, <3>4, <3>5 DEF InOrder
  <2>14. LatestComes'
    <3>1. owner' \in docs' /\ phones'[owner'] = phones[owner] /\ writes' = writes
      BY <1>2, <2>1
    <3>2. CASE shown.phone = phones[owner]
      <4>1. shown.phone < v /\ v <= phones[owner]
        BY <1>1, <1>6, <2>1, <2>2 DEF InOrder
      <4>2. shown.phone \in Nat /\ v \in Nat
        <5>1. blocks[1].reply \in Reply
          <6>1. blocks \in Seq(Block)
            BY DEF Types
          <6>2. blocks[1] \in Block
            BY <1>1, <6>1 DEF Places
          <6> QED
            BY <1>1, <6>2, BlockFacts
        <5>2. shown \in Person
          BY DEF Types
        <5> QED
          BY <2>2, <5>1, <5>2 DEF Reply, Person
      <4> QED
        BY <3>2, <4>1, <4>2
    <3>3. ASSUME NEW i \in Places, Fresh(i), blocks[i].reply.phone = phones[owner]
          PROVE  LatestComes'
      <4>1. CASE i = 1
        BY <2>2, <2>3, <3>1, <3>3, <4>1 DEF LatestComes
      <4>2. CASE i # 1
        <5>1. i - 1 \in Places' /\ blocks'[i - 1] = blocks[i] /\ (i - 1) + 1 = i
          BY <1>4, <4>2 DEF Places
        <5>2. Fresh(i - 1)'
          BY <2>5, <3>3, <5>1
        <5> QED
          BY <3>1, <3>3, <5>1, <5>2 DEF LatestComes
      <4> QED
        BY <4>1, <4>2
    <3>4. ASSUME NEW k \in 1 .. Len(writes), writes[k].phone = phones[owner]
          PROVE  LatestComes'
      BY <3>1, <3>4 DEF LatestComes
    <3> QED
      BY <2>1, <3>2, <3>3, <3>4 DEF LatestComes
  <2> QED
    BY <2>6, <2>7, <2>8, <2>9, <2>10, <2>13, <2>14
<1> QED
  BY <1>5, <1>6

LEMMA PhoneCameProfile == ASSUME AuthInv, ProfileInv, PhoneCame, Types' PROVE ProfileInv'
<1> USE DEF AuthInv, ProfileInv, cloud, auth, flying, screens, profile, history
<1>1. PICK alive \in BOOLEAN : alive = OnScreen(Head(blocks).reply.in)
  BY DEF OnScreen
<1>2. PICK n \in Nat : n = Len(blocks)
  BY DEF Types
<1>3. Came("phoneCame", "phone", alive)
  BY <1>1 DEF PhoneCame
<1>4. UNCHANGED <<docs, phones, dialled, lookups, writes, root, contents, owner, tab, loaded, shown,
                  manager, alert>>
  BY <1>3 DEF Came
<1>5. PICK b : b = [what |-> "phone", reply |-> blocks[1].reply]
  OBVIOUS
<1>6. b.what = "phone" /\ b.reply = blocks[1].reply
  BY <1>5
<1>7. /\ 1 \in Places /\ blocks[1].what = "phoneCame" /\ Head(blocks) = blocks[1]
      /\ Len(blocks') = (IF alive THEN n ELSE n - 1)
      /\ \A i \in Places' : \/ i + 1 \in Places /\ blocks'[i] = blocks[i + 1]
                            \/ alive /\ i = n /\ blocks'[i] = b
      /\ \A i \in Places : i > 1 => i - 1 \in Places' /\ blocks'[i - 1] = blocks[i]
      /\ alive => n \in Places' /\ blocks'[n] = b
  BY <1>2, <1>3, <1>5, CameFacts DEF Types
<1>8. Fresh(1) <=> alive
  BY <1>1, <1>7 DEF Fresh, Dials
<1>9. \A i \in Places : i \in Nat /\ i <= n /\ (i = 1 \/ i > 1)
  BY <1>2 DEF Places
<1>10. \A i \in Places' : i \in Nat /\ i <= n
  BY <1>2, <1>7 DEF Places
<1>11. CASE ~alive
  <2>1. \A i \in Places' : i + 1 \in Places /\ blocks'[i] = blocks[i + 1]
    BY <1>7, <1>11
  <2>2. \A i \in Places : Fresh(i) => i - 1 \in Places' /\ blocks'[i - 1] = blocks[i]
    BY <1>7, <1>8, <1>9, <1>11
  <2>3. Asked => ~Waits("loggedOut")'
    BY <2>1 DEF AskedOnce, Waits
  <2>4. KeepsProfile(1)
    BY <2>1, <2>2, <2>3 DEF KeepsProfile
  <2>5. ApartProfile
    BY <1>4 DEF ApartProfile
  <2> QED
    BY <2>4, <2>5, KeptProfile
<1>12. CASE alive
  <2>1. Fresh(1) /\ n \in Places' /\ blocks'[n] = b
    BY <1>7, <1>8, <1>12
  <2>2. /\ manager # Blank /\ owner \in docs /\ root = "content"
        /\ blocks[1].reply.in = contents
    BY <1>7, <2>1 DEF DialledFor, Fresh, OnScreen
  <2>3. ~Asked /\ lookups = {} /\ \A i \in Places : ~Asks(i)
    BY <2>2 DEF AskedOnce, Asked
  <2>4. \A i \in Places' : i # n =>
            /\ i + 1 \in Places /\ blocks'[i] = blocks[i + 1] /\ i < n /\ 1 < i + 1
            /\ ~Asks(i)'
            /\ Dials(i)' <=> Dials(i + 1)
            /\ Fresh(i)' <=> Fresh(i + 1)
    <3>1. \A i \in Places' : i # n =>
              i + 1 \in Places /\ blocks'[i] = blocks[i + 1] /\ i < n /\ 1 < i + 1
      <4>1. \A i \in Places' : i >= 1
        BY <1>2 DEF Places
      <4> QED
        BY <1>7, <1>10, <4>1
    <3> QED
      BY <1>4, <2>3, <3>1 DEF Asks, Dials, Fresh, OnScreen
  <2>5. ~Asks(n)' /\ Dials(n)' /\ Fresh(n)'
    BY <1>4, <1>6, <2>1, <2>2 DEF Asks, Dials, Fresh, OnScreen
  <2>6. \A i \in Places' : ~Asks(i)'
    BY <2>4, <2>5
  <2>7. NothingEarly'
    <3>1. b.reply.in <= contents
      BY <1>6, <1>7, <2>1 DEF NothingEarly, Fresh
    <3> QED
      BY <1>4, <2>1, <2>4, <2>6, <3>1 DEF NothingEarly
  <2>8. AskedOnce'
    BY <1>4, <2>3, <2>6 DEF AskedOnce, Asked
  <2>9. Kept'
    BY <1>4 DEF Kept
  <2>10. DialledFor'
    <3>1. \A i \in Places' : ~(blocks'[i].what = "phone" /\ ~Fresh(i)')
      <4>1. \A i \in Places : ~(blocks[i].what = "phone" /\ ~Fresh(i))
        BY <2>2 DEF DialledFor
      <4> QED
        BY <2>4, <2>5, <4>1
    <3> QED
      BY <1>4, <2>2, <3>1 DEF DialledFor
  <2>11. DocumentFirst'
    <3>1. \A i \in Places : blocks[i].what # "signedUp"
      BY <2>2 DEF DocumentFirst
    <3>2. \A i \in Places' : blocks'[i].what # "signedUp"
      BY <1>6, <2>1, <2>4, <3>1
    <3> QED
      BY <3>2 DEF DocumentFirst
  <2>12. /\ shown.phone < b.reply.phone /\ b.reply.phone <= phones[owner]
         /\ \A k \in 1 .. Len(writes) : b.reply.phone < writes[k].phone
    BY <1>6, <1>7, <2>1, <2>2 DEF InOrder
  <2>13. InOrder'
    <3>1. \A i \in Places' : Fresh(i)' =>
              shown'.phone < blocks'[i].reply.phone /\ blocks'[i].reply.phone <= phones'[owner']
      BY <1>4, <2>1, <2>2, <2>4, <2>12 DEF InOrder
    <3>2. \A k \in 1 .. Len(writes') :
              shown'.phone < writes'[k].phone /\ writes'[k].phone <= phones'[owner']
      BY <1>4, <2>2 DEF InOrder
    <3>3. ASSUME NEW i \in Places', NEW j \in Places', Fresh(i)', Fresh(j)',
                 IF blocks'[i].what = blocks'[j].what THEN i < j ELSE blocks'[i].what = "phone"
          PROVE  blocks'[i].reply.phone < blocks'[j].reply.phone
      <4>1. CASE i # n /\ j # n
        <5>1. i < j => i + 1 < j + 1
          BY <1>10
        <5>2. IF blocks[i + 1].what = blocks[j + 1].what THEN i + 1 < j + 1
              ELSE blocks[i + 1].what = "phone"
          BY <2>4, <3>3, <4>1, <5>1
        <5> QED
          BY <2>2, <2>4, <3>3, <4>1, <5>2 DEF InOrder
      <4>2. CASE i # n /\ j = n
        <5>1. blocks[i + 1].what = "phone"
          BY <1>6, <2>1, <2>4, <3>3, <4>2
        <5>2. blocks[i + 1].reply.phone < blocks[1].reply.phone
          BY <1>7, <2>1, <2>2, <2>4, <3>3, <4>2, <5>1 DEF InOrder
        <5> QED
          BY <1>6, <2>1, <2>4, <4>2, <5>2
      <4>3. CASE i = n /\ j # n
        <5>1. ~(i < j)
          BY <1>10, <4>3
        <5>2. blocks[j + 1].what = "phoneCame"
          BY <1>6, <2>1, <2>4, <3>3, <4>3, <5>1 DEF Fresh, Dials
        <5>3. blocks[1].reply.phone < blocks[j + 1].reply.phone
          BY <1>7, <2>1, <2>2, <2>4, <3>3, <4>3, <5>2 DEF InOrder
        <5> QED
          BY <1>6, <2>1, <2>4, <4>3, <5>3
      <4>4. ~(i = n /\ j = n)
        BY <1>10, <3>3
      <4> QED
        BY <4>1, <4>2, <4>3, <4>4
    <3>4. \A i \in Places', k \in 1 .. Len(writes') :
              Fresh(i)' => blocks'[i].reply.phone < writes'[k].phone
      BY <1>4, <2>1, <2>2, <2>4, <2>12 DEF InOrder
    <3>5. \A k, m \in 1 .. Len(writes') : k < m => writes'[k].phone < writes'[m].phone
      BY <1>4, <2>2 DEF InOrder
    <3> QED
      BY <3>1, <3>2, <3>3, <3>4, <3>5 DEF InOrder
  <2>14. LatestComes'
    <3>1. owner' \in docs' /\ phones'[owner'] = phones[owner] /\ writes' = writes /\ shown' = shown
      BY <1>4, <2>2
    <3>2. ASSUME NEW i \in Places, Fresh(i), blocks[i].reply.phone = phones[owner]
          PROVE  LatestComes'
      <4>1. CASE i = 1
        BY <1>6, <2>1, <2>5, <3>1, <3>2, <4>1 DEF LatestComes
      <4>2. CASE i # 1
        <5>1. i - 1 \in Places' /\ blocks'[i - 1] = blocks[i] /\ (i - 1) + 1 = i /\ i - 1 # n
          BY <1>7, <1>9, <4>2
        <5>2. Fresh(i - 1)'
          BY <2>4, <3>2, <5>1
        <5> QED
          BY <3>1, <3>2, <5>1, <5>2 DEF LatestComes
      <4> QED
        BY <4>1, <4>2
    <3>3. ASSUME shown.phone = phones[owner] \/
                 \E k \in 1 .. Len(writes) : writes[k].phone = phones[owner]
          PROVE  LatestComes'
      BY <3>1, <3>3 DEF LatestComes
    <3> QED
      BY <2>2, <3>2, <3>3 DEF LatestComes
  <2> QED
    BY <2>7, <2>8, <2>9, <2>10, <2>11, <2>13, <2>14
<1> QED
  BY <1>11, <1>12

LEMMA ProfileInit == ASSUME Init PROVE ProfileInv
<1>1. /\ lookups = {} /\ writes = <<>> /\ shown = Blank /\ manager = Blank /\ root = "splash"
      /\ blocks = <<>> /\ phones = [a \in Accounts |-> 0] /\ dialled = 0
  BY DEF Init
<1>2. Places = {}
  BY <1>1 DEF Places
<1>3. NothingEarly /\ AskedOnce
  BY <1>1, <1>2 DEF NothingEarly, AskedOnce, Asked
<1>4. Kept /\ DialledFor /\ DocumentFirst /\ InOrder /\ LatestComes
  BY <1>1, <1>2 DEF Kept, DialledFor, DocumentFirst, InOrder, LatestComes
<1> QED
  BY <1>3, <1>4 DEF ProfileInv

LEMMA ProfileStep == ASSUME AuthInv, ProfileInv, [Next]_vars PROVE ProfileInv'
<1>1. Types'
  BY AuthStep DEF AuthInv
<1>2. CASE Next
  <2>1. CASE Network
    BY <1>1, <2>1, ApartlyProfileKept, GetDocumentProfile, UpdateDataProfile
       DEF Network, ApartlyProfile
  <2>2. CASE MainBlocks
    BY <1>1, <2>2, ApartlyProfileKept, AuthStateDidChangeProfile, InfoCameProfile,
       PhoneCameProfile, SetInfoDoneProfile, SetPhoneDoneProfile, LogOutDoneProfile
       DEF MainBlocks, ApartlyProfile
  <2>3. CASE User
    BY <1>1, <2>3, ApartlyProfileKept, OpenProfileProfile, SetPhoneProfile DEF User, ApartlyProfile
  <2>4. CASE Kill
    BY <1>1, <2>4, KillProfile
  <2> QED
    BY <1>2, <2>1, <2>2, <2>3, <2>4 DEF Next
<1>3. CASE UNCHANGED vars
  <2>1. UNCHANGED <<docs, phones, dialled, lookups, writes, root, contents, owner, tab, loaded, shown,
                    manager, alert, blocks>>
    BY <1>3 DEF vars, cloud, flying, screens, profile, queue
  <2>2. KeepsProfile(0)
    BY <2>1, StayKeepsProfile DEF AuthInv, ProfileInv
  <2>3. ApartProfile
    BY <2>1 DEF ApartProfile
  <2> QED
    BY <1>1, <2>2, <2>3, KeptProfile DEF AuthInv
<1> QED
  BY <1>2, <1>3

(* UserManager never holds the data of another account, and once all is    *)
(* answered the profile shows the phone that is stored.                    *)
THEOREM ProfileTheorem == Spec => []ProfileIsRight
<1>1. Init => ProfileInv
  BY ProfileInit
<1>2. AuthInv /\ ProfileInv /\ [Next]_vars => ProfileInv'
  BY ProfileStep
<1>3. ProfileInv => ProfileIsOwn
  BY DEF ProfileInv, Kept, ProfileIsOwn
<1>4. ProfileInv => PhoneIsLatest
  <2>1. SUFFICES ASSUME ProfileInv, blocks = <<>>, writes = <<>>, shown.of # Nobody
                 PROVE  shown.phone = phones[shown.of]
    BY DEF PhoneIsLatest
  <2>2. manager # Blank /\ shown = manager
    BY <2>1 DEF ProfileInv, Kept, Blank
  <2>3. shown.of = owner
    BY <2>1, <2>2 DEF ProfileInv, Kept
  <2>4. Places = {} /\ 1 .. Len(writes) = {}
    BY <2>1 DEF Places
  <2> QED
    BY <2>1, <2>2, <2>3, <2>4 DEF ProfileInv, LatestComes
<1>5. ProfileInv => ProfileIsRight
  BY <1>3, <1>4 DEF ProfileIsRight
<1> QED
  BY <1>1, <1>2, <1>5, AuthAlways, PTL DEF Spec
=============================================================================
