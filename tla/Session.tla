------------------------------- MODULE Session -------------------------------
(***************************************************************************)
(* Who is signed in, and what that decides: the account and its document   *)
(* (NetworkService, sign-up), the auth listener of the splash screen, the  *)
(* root of the window (Router, SceneDelegate), logging out (AboutUs), and  *)
(* the profile (PersonalPresenter, PersonalViewController) with the data   *)
(* UserManager keeps across sessions.                                      *)
(*                                                                         *)
(* The login and sign-up forms are part of the root "intro"; a profile is  *)
(* the account it belongs to and that account's phone.                     *)
(***************************************************************************)
EXTENDS MainQueue

CONSTANTS Accounts,
          Nobody,        \* no user
          MaxContents,   \* bound: how often the content is opened
          MaxPhones,     \* bound: changes of a phone
          MaxKills       \* bound: ends of the app's process

ASSUME SessionAssumption ==
    /\ Nobody \notin Accounts /\ {"off", "first"} \cap (Accounts \cup {Nobody}) = {}
    /\ {MaxContents, MaxPhones, MaxKills} \subseteq Nat

VARIABLES accounts,    \* accounts that exist
          docs,        \* accounts whose document is written
          phones,      \* the phone in it, as this device sees it
          dialled,     \* phones entered so far
          user,        \* Auth.auth().currentUser, also in the keychain
          previous,    \* what the auth listener was last told; "off", "first"
          requests,    \* sign-in or sign-up that is not answered
          lookups,     \* getPersonalInfo that is not answered
          writes,      \* setPhone that is not answered, in order
          root,        \* the window's root
          splashNav,   \* has the splash screen's router a navigation controller?
          contents,    \* how many contents were opened: the last is on screen
          owner,       \* the account it was opened for  (history)
          tab,         \* the tab on screen
          loaded,      \* is the profile's view loaded?
          shown,       \* what it shows
          manager,     \* UserManager.shared.currentUser
          alert,       \* what is presented above the root
          forced,      \* was this content's user signed out by force?  (history)
          failed,      \* did a lookup ever fail?  (history)
          orphans,     \* accounts whose sign-up did not get to the document  (history)
          kills

cloud   == <<accounts, docs, phones, dialled>>
auth    == <<user, previous>>
flying  == <<requests, lookups, writes>>
screens == <<root, splashNav, contents, owner, tab, loaded>>
profile == <<shown, manager>>
history == <<forced, failed, orphans>>
vars    == <<cloud, auth, flying, screens, profile, alert, history, kills, queue>>

Users  == Accounts \cup {Nobody}
Person == [of : Users, phone : 0 .. MaxPhones]
Blank  == [of |-> Nobody, phone |-> 0]
Reply  == [of : Accounts, in : 1 .. MaxContents, phone : 0 .. MaxPhones]
Block  == [what : {"notify", "signedIn", "authError", "loggedOut"}]
          \cup [what : {"signedUp"}, of : Accounts]
          \cup [what : {"infoCame", "info", "phoneCame", "phone"}, reply : Reply]

TypeOK ==
    /\ docs \subseteq accounts /\ accounts \subseteq Accounts
    /\ phones \in [Accounts -> 0 .. MaxPhones] /\ dialled \in 0 .. MaxPhones
    /\ user \in Users /\ previous \in Users \cup {"off", "first"}
    /\ requests \subseteq [what : {"signIn", "signUp"}, of : Accounts, made : BOOLEAN]
    /\ Cardinality(requests) <= 1
    /\ lookups \subseteq [of : Accounts, in : 1 .. MaxContents]
    /\ writes \in Seq(Reply)
    /\ root \in {"splash", "intro", "content"} /\ splashNav \in BOOLEAN
    /\ contents \in 0 .. MaxContents /\ owner \in Users
    /\ tab \in {"search", "profile"} /\ loaded \in BOOLEAN
    /\ {shown, manager} \subseteq Person
    /\ alert \in {"none", "loading", "message"}
    /\ forced \in BOOLEAN /\ failed \in BOOLEAN /\ orphans \subseteq accounts
    /\ kills \in 0 .. MaxKills
    /\ blocks \in Seq(Block) /\ due \in 0 .. Len(blocks)

(* The app is started, by a user who may have an account already.          *)
Init ==
    /\ accounts \in SUBSET Accounts /\ docs = accounts
    /\ phones = [a \in Accounts |-> 0] /\ dialled = 0
    /\ user \in accounts \cup {Nobody} /\ previous = "off"
    /\ requests = {} /\ lookups = {} /\ writes = <<>>
    /\ root = "splash" /\ splashNav = TRUE
    /\ contents = 0 /\ owner = Nobody /\ tab = "search" /\ loaded = FALSE
    /\ shown = Blank /\ manager = Blank /\ alert = "none"
    /\ forced = FALSE /\ failed = FALSE /\ orphans = {} /\ kills = 0
    /\ blocks = <<>> /\ due = 0

-----------------------------------------------------------------------------
(* Outside the main thread: FIRAuth, its server, and Firestore.            *)

Notify == [what |-> "notify"]

(* The server creates the account; the answer is under way.                *)
CreateUser(r) ==
    /\ r.what = "signUp" /\ ~r.made /\ r.of \notin accounts
    /\ accounts' = accounts \cup {r.of}
    /\ requests' = (requests \ {r}) \cup {[r EXCEPT !.made = TRUE]}
    /\ UNCHANGED <<docs, phones, dialled, auth, lookups, writes, screens, profile, alert,
                   history, kills, queue>>

(* A good answer: the user changes, listeners are notified on the main     *)
(* queue, and behind them the completion is called.                        *)
SignedIn(r) ==
    /\ IF r.what = "signUp" THEN r.made ELSE r.of \in accounts
    /\ Len(blocks) + 2 <= MaxBlocks
    /\ user' = r.of
    /\ requests' = requests \ {r}
    /\ blocks' = blocks \o <<Notify, IF r.what = "signIn" THEN [what |-> "signedIn"]
                                     ELSE [what |-> "signedUp", of |-> r.of]>>
    /\ UNCHANGED <<cloud, previous, lookups, writes, screens, profile, alert, history, kills, due>>

(* A refusal, or an answer that does not come.                             *)
SignInFails(r) ==
    /\ Send([what |-> "authError"])
    /\ requests' = requests \ {r}
    /\ orphans' = orphans \cup (IF r.made THEN {r.of} ELSE {})
    /\ UNCHANGED <<cloud, auth, lookups, writes, screens, profile, alert, forced, failed, kills>>

(* The hourly new token, which is notified like a new user.                *)
RefreshToken ==
    /\ user # Nobody
    /\ Send(Notify)
    /\ UNCHANGED <<cloud, auth, flying, screens, profile, alert, history, kills>>

(* The token cannot be refreshed: the account was disabled, or its         *)
(* password changed elsewhere.                                             *)
SignOutByForce ==
    /\ user # Nobody
    /\ user' = Nobody /\ forced' = TRUE
    /\ Send(Notify)
    /\ UNCHANGED <<cloud, previous, flying, screens, profile, alert, failed, orphans, kills>>

(* getDocument is answered, with what this device sees of the document, or *)
(* fails, which is only printed.                                           *)
GetDocument(l) ==
    /\ lookups' = lookups \ {l}
    /\ \/ /\ Send([what |-> "infoCame",
                   reply |-> [of |-> l.of, in |-> l.in, phone |-> phones[l.of]]])
          /\ UNCHANGED failed
       \/ failed' = TRUE /\ UNCHANGED queue
    /\ UNCHANGED <<cloud, auth, requests, writes, screens, profile, alert, forced, orphans, kills>>

(* updateData is answered, for the user whose write it is: well, if there  *)
(* is a document to update.                                                *)
UpdateData ==
    /\ writes # <<>> /\ Head(writes).of = user
    /\ writes' = Tail(writes)
    /\ IF user \in docs THEN Send([what |-> "phoneCame", reply |-> Head(writes)])
       ELSE UNCHANGED queue
    /\ UNCHANGED <<cloud, auth, requests, lookups, screens, profile, alert, history, kills>>

-----------------------------------------------------------------------------
(* Blocks on the main queue.                                               *)

(* showIntro: once the content was opened its router has no navigation     *)
(* controller, and nothing happens.                                        *)
ShowIntro ==
    /\ root' = IF splashNav THEN "intro" ELSE root
    /\ UNCHANGED <<splashNav, contents, owner, tab, loaded, shown, alert, forced>>

(* showContent, openContent: new screens, with the search in front.        *)
ShowContent ==
    /\ contents' = contents + 1
    /\ root' = "content" /\ splashNav' = FALSE
    /\ owner' = user /\ tab' = "search" /\ loaded' = FALSE
    /\ shown' = Blank /\ alert' = "none" /\ forced' = FALSE

(* Mutant: the listener is called for every new token.                     *)
AuthStateDidChangeToken ==
    /\ Dequeue("notify")
    /\ IF previous # "off"
         THEN previous' = user /\ (IF user = Nobody THEN ShowIntro ELSE ShowContent)
         ELSE UNCHANGED <<previous, screens, shown, alert, forced>>
    /\ UNCHANGED <<cloud, user, flying, manager, failed, orphans, kills>>

(* Mutant: the listener is told once.                                      *)
AuthStateDidChangeOnce ==
    /\ Dequeue("notify")
    /\ IF previous = "first"
         THEN previous' = user /\ (IF user = Nobody THEN ShowIntro ELSE ShowContent)
         ELSE UNCHANGED <<previous, screens, shown, alert, forced>>
    /\ UNCHANGED <<cloud, user, flying, manager, failed, orphans, kills>>

(* The listener hears of the user there is by now, the first time and      *)
(* whenever it is another one.  It is never removed.                       *)
AuthStateDidChange ==
    /\ Dequeue("notify")
    /\ IF previous \notin {"off", user}
         THEN previous' = user /\ (IF user = Nobody THEN ShowIntro ELSE ShowContent)
         ELSE UNCHANGED <<previous, screens, shown, alert, forced>>
    /\ UNCHANGED <<cloud, user, flying, manager, failed, orphans, kills>>

(* The login form's success: nothing.                                      *)
SignInDone ==
    /\ Dequeue("signedIn")
    /\ UNCHANGED <<cloud, auth, flying, screens, profile, alert, history, kills>>

(* setData of the user there is by now; the account left without it is a   *)
(* known orphan.                                                           *)
Register(sent, stored) ==
    /\ docs' = IF sent /\ stored /\ user # Nobody THEN docs \cup {user} ELSE docs
    /\ orphans' = orphans \cup (IF stored /\ user # Nobody THEN {} ELSE {Head(blocks).of})

(* Mutant: the document is written only for a form that is still there.    *)
SignUpDoneOnForm ==
    /\ Dequeue("signedUp")
    /\ \E stored \in BOOLEAN : Register(root = "intro", stored)
    /\ UNCHANGED <<accounts, phones, dialled, auth, flying, screens, profile, alert,
                   forced, failed, kills>>

(* signUp's completion: the new user's document, which may be refused.     *)
(* Content is on screen: no form is there to tell.                         *)
SignUpDone ==
    /\ Dequeue("signedUp")
    /\ \E stored \in BOOLEAN : Register(TRUE, stored)
    /\ UNCHANGED <<accounts, phones, dialled, auth, flying, screens, profile, alert,
                   forced, failed, kills>>

(* Mutant: failure without closeAlertLoading.                              *)
SignInFailedSilently ==
    /\ Dequeue("authError")
    /\ UNCHANGED <<cloud, auth, flying, screens, profile, alert, history, kills>>

(* failure: closeAlertLoading and showAuthError, which UIKit may not show  *)
(* while the other alert is still on its way out.                          *)
SignInFailed ==
    /\ Dequeue("authError")
    /\ alert' \in {"message", "none"}
    /\ UNCHANGED <<cloud, auth, flying, screens, profile, history, kills>>

OnScreen(in) == root = "content" /\ contents = in

(* Completions of the profile come on the main queue, and put another      *)
(* block there if their presenter still exists.                            *)
Came(what, then, alive) ==
    LET reply == Head(blocks).reply IN
    /\ blocks # <<>> /\ Head(blocks).what = what
    /\ blocks' = Tail(blocks) \o
          (IF alive THEN <<[what |-> then, reply |-> reply]>> ELSE <<>>)
    /\ due' = IF due > 0 THEN due - 1 ELSE 0
    /\ UNCHANGED <<cloud, auth, flying, screens, profile, alert, history, kills>>

InfoCame == Came("infoCame", "info", OnScreen(Head(blocks).reply.in))

PhoneCame == Came("phoneCame", "phone", OnScreen(Head(blocks).reply.in))

(* setInfo's block: UserManager is filled, whoever is signed in by now.    *)
(* updateFields closes the alert.                                          *)
SetInfoDone ==
    LET reply == Head(blocks).reply IN
    /\ Dequeue("info")
    /\ manager' = [of |-> reply.of, phone |-> reply.phone]
    /\ IF OnScreen(reply.in) THEN shown' = manager' /\ alert' = "none"
       ELSE UNCHANGED <<shown, alert>>
    /\ UNCHANGED <<cloud, auth, flying, screens, history, kills>>

(* setPhone's block: only a UserManager that is filled gets the phone.     *)
SetPhoneDone ==
    LET reply == Head(blocks).reply IN
    /\ Dequeue("phone")
    /\ manager' = IF manager = Blank THEN Blank ELSE [manager EXCEPT !.phone = reply.phone]
    /\ shown' = IF OnScreen(reply.in) THEN [shown EXCEPT !.phone = reply.phone] ELSE shown
    /\ UNCHANGED <<cloud, auth, flying, screens, alert, history, kills>>

(* Mutant: log-out leaves the root to the auth listener.                   *)
LogOutDoneByListener ==
    /\ Dequeue("loggedOut")
    /\ manager' = Blank
    /\ UNCHANGED <<cloud, auth, flying, screens, shown, alert, history, kills>>

(* Mutant: UserManager is not emptied.                                     *)
LogOutDoneKeepsManager ==
    /\ Dequeue("loggedOut")
    /\ root' = "intro" /\ alert' = "none"
    /\ tab' = "search" /\ loaded' = FALSE /\ shown' = Blank /\ writes' = <<>>
    /\ UNCHANGED <<cloud, auth, requests, lookups, splashNav, contents, owner, manager,
                   history, kills>>

(* logOut's block: UserManager is emptied, and the router of the profile   *)
(* gets a new navigation controller, with the intro, as the root.  Nobody  *)
(* waits for the phone writes of the content that is gone.                 *)
LogOutDone ==
    /\ Dequeue("loggedOut")
    /\ manager' = Blank
    /\ root' = "intro" /\ alert' = "none"
    /\ tab' = "search" /\ loaded' = FALSE /\ shown' = Blank /\ writes' = <<>>
    /\ UNCHANGED <<cloud, auth, requests, lookups, splashNav, contents, owner, history, kills>>

-----------------------------------------------------------------------------
(* Events of the run loop.                                                 *)

(* The splash screen's animation has ended.                                *)
CheckSignedIn ==
    /\ root = "splash" /\ previous = "off" /\ contents < MaxContents
    /\ Between(Append(blocks, Notify)) /\ Len(blocks) < MaxBlocks
    /\ previous' = "first"
    /\ UNCHANGED <<cloud, user, flying, screens, profile, alert, history, kills>>

(* Mutant: without showAlertLoading, the button stays within reach.        *)
SubmitUncovered(what, a) ==
    /\ Between(blocks)
    /\ root = "intro" /\ alert = "none" /\ contents < MaxContents
    /\ requests' = requests \cup {[what |-> what, of |-> a, made |-> FALSE]}
    /\ UNCHANGED <<cloud, auth, lookups, writes, screens, profile, alert, history, kills>>

(* The buttons of the two forms; without a connection there is a message.  *)
Submit(what, a) ==
    /\ Between(blocks)
    /\ root = "intro" /\ alert = "none" /\ contents < MaxContents
    /\ \/ /\ alert' = "loading"
          /\ requests' = requests \cup {[what |-> what, of |-> a, made |-> FALSE]}
       \/ alert' = "message" /\ UNCHANGED requests
    /\ UNCHANGED <<cloud, auth, lookups, writes, screens, profile, history, kills>>

Press ==
    /\ Between(blocks)
    /\ alert = "message" /\ alert' = "none"
    /\ UNCHANGED <<cloud, auth, flying, screens, profile, history, kills>>

(* setInfo: without a user nothing is asked.                               *)
SetInfo ==
    lookups' = lookups \cup
        (IF user # Nobody THEN {[of |-> user, in |-> contents]} ELSE {})

(* Mutant: without showAlert.                                              *)
OpenProfileUncovered ==
    /\ Between(blocks)
    /\ root = "content" /\ tab = "search" /\ alert = "none"
    /\ tab' = "profile" /\ loaded' = TRUE
    /\ IF loaded THEN UNCHANGED lookups ELSE SetInfo
    /\ UNCHANGED <<cloud, auth, requests, writes, root, splashNav, contents, owner, profile,
                   alert, history, kills>>

(* viewDidLoad, the first time, and viewWillAppear.                        *)
OpenProfile ==
    /\ Between(blocks)
    /\ root = "content" /\ tab = "search" /\ alert = "none"
    /\ tab' = "profile" /\ loaded' = TRUE
    /\ IF loaded THEN UNCHANGED lookups ELSE SetInfo
    /\ alert' = IF manager = Blank THEN "loading" ELSE "none"
    /\ UNCHANGED <<cloud, auth, requests, writes, root, splashNav, contents, owner, profile,
                   history, kills>>

OnProfile == root = "content" /\ tab = "profile" /\ alert = "none"

LeaveProfile ==
    /\ Between(blocks)
    /\ OnProfile
    /\ tab' = "search"
    /\ UNCHANGED <<cloud, auth, flying, root, splashNav, contents, owner, loaded, profile, alert,
                   history, kills>>

(* Mutant: the label changes with the dialog, not with the answer.         *)
SetPhoneAtOnce ==
    /\ Between(blocks)
    /\ OnProfile /\ user # Nobody
    /\ dialled < MaxPhones /\ dialled' = dialled + 1
    /\ phones' = IF user \in docs THEN [phones EXCEPT ![user] = dialled'] ELSE phones
    /\ shown' = [shown EXCEPT !.phone = dialled']
    /\ UNCHANGED <<accounts, docs, auth, flying, screens, manager, alert, history, kills>>

(* A phone of the right length is entered: the write is seen on this       *)
(* device at once, the label waits for the server.                         *)
SetPhone ==
    /\ Between(blocks)
    /\ OnProfile /\ user # Nobody
    /\ dialled < MaxPhones /\ dialled' = dialled + 1
    /\ phones' = IF user \in docs THEN [phones EXCEPT ![user] = dialled'] ELSE phones
    /\ writes' = Append(writes, [of |-> user, in |-> contents, phone |-> dialled'])
    /\ UNCHANGED <<accounts, docs, auth, requests, lookups, screens, profile, alert, history, kills>>

(* "Выйти": signOut notifies if there was a user; its completion runs here *)
(* and leaves the rest to a block.                                         *)
LogOut ==
    /\ OnProfile /\ Len(blocks) + 2 <= MaxBlocks
    /\ Between(blocks \o (IF user # Nobody THEN <<Notify>> ELSE <<>>)
                      \o <<[what |-> "loggedOut"]>>)
    /\ user' = Nobody
    /\ UNCHANGED <<cloud, previous, flying, screens, profile, alert, history, kills>>

(* The process ends, and the app is started again.                         *)
Kill ==
    /\ kills < MaxKills /\ kills' = kills + 1
    /\ previous' = "off" /\ requests' = {} /\ lookups' = {} /\ writes' = <<>>
    /\ root' = "splash" /\ splashNav' = TRUE /\ tab' = "search" /\ loaded' = FALSE
    /\ shown' = Blank /\ manager' = Blank /\ alert' = "none"
    /\ orphans' = orphans \cup {r.of : r \in {q \in requests : q.made}}
                          \cup {blocks[i].of : i \in {j \in DOMAIN blocks : blocks[j].what = "signedUp"}}
    /\ blocks' = <<>> /\ due' = 0
    /\ UNCHANGED <<cloud, user, contents, owner, forced, failed>>

-----------------------------------------------------------------------------
Network ==
    \/ \E r \in requests : CreateUser(r) \/ SignedIn(r) \/ SignInFails(r)
    \/ RefreshToken \/ SignOutByForce
    \/ \E l \in lookups : GetDocument(l)
    \/ UpdateData

MainBlocks ==
    \/ AuthStateDidChange \/ SignInDone \/ SignUpDone \/ SignInFailed
    \/ InfoCame \/ PhoneCame \/ SetInfoDone \/ SetPhoneDone \/ LogOutDone

User ==
    \/ CheckSignedIn \/ Press \/ OpenProfile \/ LeaveProfile \/ SetPhone \/ LogOut
    \/ \E what \in {"signIn", "signUp"}, a \in Accounts : Submit(what, a)

Next == Network \/ MainBlocks \/ User \/ Kill

Spec == Init /\ [][Next]_vars

(* Requests and lookups are answered, and the main queue runs its blocks.  *)
FairSpec ==
    /\ Spec
    /\ WF_vars(\E r \in requests : SignedIn(r) \/ SignInFails(r))
    /\ WF_vars(\E l \in lookups : GetDocument(l))
    /\ WF_vars(MainBlocks)

-----------------------------------------------------------------------------
(* Properties *)

(* Once the main queue is empty the screens agree with the user: a user    *)
(* has the content that was opened for that account, and content without a *)
(* user is left only where the user was signed out by force, of which the  *)
(* listener cannot make an intro any more.                                 *)
ScreensFollowAuth ==
    blocks = <<>> /\ previous # "off" =>
        /\ user # Nobody => root = "content" /\ owner = user
        /\ root = "content" /\ user = Nobody => forced
        /\ root # "splash"

(* UserManager, which outlives the screens, holds data of the content's    *)
(* own account only, and the profile shows the same.  A lookup's block that*)
(* ran behind log-out would fill it again, and the next account's profile  *)
(* would open with it: but the alert covers the profile, and the way to    *)
(* log out, until the lookup is answered.                                  *)
ProfileIsOwn ==
    /\ manager # Blank => root = "content" /\ manager.of = owner
    /\ shown # Blank => shown = manager

(* When all is answered the profile shows the phone that is stored: of     *)
(* several the last, and none for an account without a document, whose     *)
(* writes are refused, which is only printed.                              *)
PhoneIsLatest ==
    blocks = <<>> /\ lookups = {} /\ writes = <<>> /\ shown.of # Nobody =>
        shown.phone = phones[shown.of]

(* The profile shows its own account, as it is stored.                     *)
ProfileIsRight == ProfileIsOwn /\ PhoneIsLatest

(* Every account has its document, or will have it, unless its sign-up was *)
(* cut off after the account was made: an app that ends, an answer that is *)
(* lost, a user signed out by force, a document that is refused.           *)
DocumentsFollowAccounts ==
    \A a \in accounts \ (docs \cup orphans) :
        \/ \E r \in requests : r.of = a /\ r.made
        \/ \E i \in DOMAIN blocks : blocks[i].what = "signedUp" /\ blocks[i].of = a

(* Content is replaced only for another user: a new token of the same user *)
(* leaves the screens alone.                                               *)
ContentIsStable ==
    [][contents' # contents => root # "content" \/ owner # user]_vars

(* "Загрузка..." does not stay for ever, unless a lookup failed, which     *)
(* setInfo only prints, or the user was signed out by force.               *)
LoadingCloses == alert = "loading" ~> alert # "loading" \/ failed \/ forced
=============================================================================
