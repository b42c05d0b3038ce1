# PhoRent: TLA+ models, checks and proofs

PhoRent is an iOS app for renting photo equipment: an MVP app in Swift
(`src/appPhoRent/appPhoRent`, below `A/`), two Firebase cloud functions
(`src/functions/index.js`) and Cloud Firestore in between. There are no tests.
This directory models the parts whose behaviour depends on the order of things:
the cloud functions' blind writes, the app's write queue and listeners, the state
the presenters keep over asynchronous callbacks, who is signed in and what that
decides, and, in the Firestore client the app is built with, the way of a write to
the server (`F/` stands for
`src/appPhoRent/Pods/FirebaseFirestore/Firestore/core/src/firebase/firestore`).

## Inventory

| Component | State it keeps | Operations | Interacts with |
|---|---|---|---|
| Cloud functions, `functions/index.js` | locals of a promise chain: the count read, the count to write, the matching lines | `addItemInBasket`, `deleteItemFromBasket` | called by the app; read and write the item and basket documents, without transactions |
| `A/NetWorkService` | none; Firestore listeners and the client's write queue are under it | sign-in/up/out, `getCategories`, `getItems`, `addItemInBasket`, `removeFromBasket`, `getOrder`, `putOrder`, `getPreviousOrders`, `fillPreviousItem`, personal data | Firebase; completions called on the presenters, some of them at once, some twice |
| Basket screen, `A/BasketModule` | `currentOrder`, `isPutOrderProcess`, the alert shown, the day stepper | `prepareData`, `setOrder`, `removeFromBasket`, `updateDate`, `updateCountOfDay`, `putOrder`, `putOrderDone` | listener, callables, order writes |
| Category screen, `A/CategoryModule` | `items`, `shownItems`, filters, `updated` and `filtersAreAvialable` of the view | `getItems`, `addItemInBasket`, `filterItems`, filter popover | listener, callable |
| Previous orders, `A/PreviousOrdersModule` | `orders`, a countdown per snapshot | `prepareData`, `fillItems`, `setTable` | listener (a new one at every appearance), one lookup per item |
| Session and navigation: `A/SplashScreenModule`, `A/Router.swift`, `A/SceneDelegate.swift`, `A/AboutUsModule`, `A/TabBarModule`, `A/AuthModule` | the auth listener, the root controller, the navigation controller | sign-in/up/out, password reset, `openContent`, `openIntro`, `showIntro`, `logOut` | Firebase Auth; every content screen assumes a user |
| Personal data, `A/PersonalModule` | singleton `UserManager.shared` | `setInfo`, `setPhone`, `checkPhone`, phone mask | user document, image storage |
| Category list, `A/MainSearchModule` | the categories | `getCategories` | listener |
| Firestore client, write pipeline: `F/core/sync_engine.cc`, `F/local` (mutation queue), `F/remote` (remote store, streams), `F/auth`, `F/api` | mutation queue on disk per user, callbacks, `write_pipeline_`, the write stream, token requests, timers | `WriteMutations`, `HandleCredentialChange`, `GetToken`, `Start`/`Close`, handshake, results, errors, idle and backoff timers | the app's writes and completions; FIRAuth; the server |
| Colour scheme (`A/DataManager.swift`), app delegate, cell and view layout | a stored preference | | |
| `A/../Source` (range slider, not in the Xcode project), the rest of `A/../Pods` | | | third party |

What is hard in this code: blind read-then-write chains that interleave
(functions); replies that precede the work; a write queue that survives the app;
an order and the deletes of its lines that are separate writes; listeners that
replace lists whose rows are still referred to by index; callbacks that arrive
after the state they were started for is gone; a session that ends under screens
that assume one; a pipeline whose requests, answers and tokens outlive the stream,
the user and the process they were meant for. `PROJECT.json` lists these hazards with
their lines.

What makes each part correct: stock and baskets neither lose nor invent units;
deleted lines stay deleted; an order takes every line once; alerts that block a
screen close; a row index means the row it was taken from; screens converge to
the database; screens and profile belong to the user signed in; writes reach the server
in order and as their author, and a completion gets its own result, once.

## Modules

| Module | Models | State | Actions |
|---|---|---|---|
| `Documents` | the shared Firestore documents | `stock` (items' `count`), `line` (contents of every basket document ever written), `live` (those that exist) | |
| `BasketFunctions` | `functions/index.js` | per call: `pc`, `req`, the locals `got`, `next`, `todo`, the answer `reply` | one per Firestore operation: `GetItem`/`Refuse`, `UpdateItem`, `QueryBasket`, `SetLine`, `UpdateLine`; `GetLine`, `DeleteLine`, `RegetItem`, `RestoreItem`; `Abandon` |
| `OrderPlacement` | `getOrder`/`putOrder` of `NetWorkService`, the part of `BasketPresenter` that handles them, the Firestore client's queue and latency compensation | `orders` (with what is still queued), `view`, `delivered`, `alert`, `inbox` (completion calls still to run), `start` | `Snapshot`, `PutOrder`, `PutOrderKilled`, `Kill`, `CommitOrder`/`RejectOrder`, `CommitDelete`/`RejectDelete`, `PutOrderDone`/`PutOrderFailed`, `RemovalFailed` |
| `Rental` | the two above composed over `Documents`, with history variables | `spoiled`, `sold`, `torn`, `careless` | the same actions, plus `AddItem`, `RemoveItem` |
| `BasketScreen` | `BasketPresenter` and the handlers of `BasketViewController` | the device's basket and what is under way (`basket`, `listening`, `heard`, `answers`, `removals`), the main queue (`blocks`, `due`), the presenter (`items`, `days`, `busy`), the view (`rows`, `total`, `dayLabel`, `alert`) | blocks: `SetOrder`, `PutOrderDone`, `Failure`, `Removed`, `NotRemoved`; events: `DeleteRow`, `Press`, `RemoveFromBasket`, `StepperChanged`, `PutOrder`, `PutNothing`, `GetItem`; outside: `Change`, `Listen`, `ListenFails`, `Answer`, `RemovalFails` |
| `MainQueue` | the main queue and its event loop, under `BasketScreen` and the next three | `blocks`, `due` | operators `Send`, `Dequeue`, `Between` |
| `CategoryScreen` | `CategoryPresenter`, `CategoryViewController`, `FiltersViewController` | database and calls (`stock`, `calls`), listener, presenter (`items`, `makers`, `checked`, `range`), view (`rows`, `updated`, `available`, `label`, `alert`) | blocks: `ShowItems`, `ListFailed`, `Added`, `NotAdded`; events: `ShowFilters`, `LeaveFilters`, `Tapped`, `AddItemInBasket`, `AddOffline`, `PressOK`; outside: `Change`, `Listen`, `ListenFails`, `Handle` |
| `PreviousOrders` | `OrdersPresenter`, `OrdersViewController`, `getPreviousOrders`, `fillPreviousItem` | `placed`, one listener per appearance, `lookups` and their rounds' countdowns (`left`), `orders`, `rows`, `alert` | blocks: `ShowOrders`, `FillItem`, `SetTable`, `Failure`; events: `PrepareData`, `Press`, `Scroll`; outside: `Change`, `Listen`, `ListenFails`, `Answer` |
| `Session` | splash screen, `Router`, `SceneDelegate`, log-out, sign-in and sign-up, `PersonalPresenter` with `UserManager` | cloud (`accounts`, `docs`, `phones`), FIRAuth (`user`, `previous`), requests under way, the window (`root`, `splashNav`, `contents`), profile (`shown`, `manager`), `alert` | blocks: `AuthStateDidChange`, `SignInDone`, `SignUpDone`, `SignInFailed`, `SetInfoDone`, `SetPhoneDone`, `LogOutDone` and the two that put blocks; events: `CheckSignedIn`, `Submit`, `Press`, `OpenProfile`, `LeaveProfile`, `SetPhone`, `LogOut`; outside: `CreateUser`, `SignedIn`, `SignInFails`, `SignOutByForce`, `RefreshToken`, `GetDocument`, `UpdateData`; `Kill` |
| `PhoneMask` | the phone dialog: `formattedNumber`, `checkPhone` | `text`, `edited`, `answer` | `Edit`, `CheckPhone` |
| `WritePipeline` | the Firestore client between a write of the app and its completion | disk (`queue`, `signedIn`), worker queue, tokens, sync engine (`user`, `nextId`, `callbacks`), remote store (`pipeline`, `stream`, `closes`, `handshake`, `idle`), the server's end (`as`, `wire`, `answers`, `log`) | app: `Put`; FIRAuth: `AuthChanges`, `TakeToken`, `GetToken`, `GetTokenFails`; worker queue: `RunPut`, `RunCredentialChange`, `RunResume`, `ReadHandshake`, `ReadResult`, `ReadError`, `Lose`, `BackoffElapses`, `IdleTimeout`; server: `Greet`, `Serve`; `Restart` by `Kill`, `KillAtResult`, `KillAtError` |
| `WriteQueue` | abstract: what the app relies on when it writes | `pending`, `applied`, `refused`, `told` | `Put`, `Apply`/`Refuse`, `Confirm`/`Report`, `Forget` |
| `Ledger` | abstract: double-entry book-keeping of units | `units`, `spoiled` | `Transfer`, `Spoil` |
| `MC...` | instances for TLC | | |
| `RentalProofs`, `WritePipelineProofs`, `SessionProofs`, `BasketScreenProofs`, `CategoryScreenProofs`, `PreviousOrdersProofs`, `PhoneMaskProofs` | theorems about the module each is named after; `RentalProofs` also has those of `BasketFunctions` and `Rental` implementing `Ledger`, `WritePipelineProofs` has `WritePipeline` implementing `WriteQueue` | | |
| `ListLemmas` | lemmas about lists, sorted listings, recursive functions on lists, and sums over finite sets | | |

How the models follow the code:

- Every Firestore operation is a step; between two of them other calls run. The
  values a chain wrote down before (`dbElementCount - elementCount`,
  `item.count + elementCount`) are kept in `next`, `todo`, `got` and written
  later, whatever the document holds by then.
- The handlers return `undefined` synchronously, so the callable's answer is set
  in the calling action: success, or error when `deleteItemFromBasket` reads
  `context.auth.uid` of a caller without a sign-in.
- `Abandon` ends a chain at any step: an instance may stop once it has answered,
  and a rejected operation ends the chain at the next `.catch`.
- An item stands for a (category, item) pair; `Names`/`NameOf` are kept because
  `addItemInBasket` merges lines with `where('name', '==', item.name)`.
- The device shows the server's documents minus the lines whose deletes it has
  queued (offline persistence is on by default in the vendored Firestore SDK). The
  queue is sent in order; each write is accepted or refused by itself.
- `PutOrder` is one action because it runs on the main thread without
  suspension; `PutOrderKilled` is the app dying inside its loop.
- "Отправка заказа..." blocks the screen, so user actions need `~alert[u]`;
  putOrder's completion is called once for the order and again for each delete
  that is refused (`NetWorkService.swift:315-330`), through `inbox`, and closes
  whatever alert is up, even a later order's. So does the late error of an earlier
  removal's call (`RemovalFailed`). The alert around removing a line does not block
  anything, since `removeFromBasket`'s completion is called at once
  (`NetWorkService.swift:199`).
- One device per user. Documents of the catalogue are never deleted by this
  code. The basket listener does not fail.

`BasketScreen` looks at one device more closely than `OrderPlacement` does and
leaves the cloud out: others change the basket at will.

- Every completion only puts a block on the main queue; the model keeps the queue.
  A tap, or the end of an alert's animation, is handled between blocks, and all
  blocks that wait at one event run before the next (`Between`).
- A line's row is known by its index. The removal dialog captures the index; the
  model also keeps the line that was shown in that row (`alert.line`), to say what
  the user meant. `"closing"` is the time between "Да" and the handler, which UIKit
  runs when the dialog is gone; a list may come in between, and if it is too short
  `items[index]` traps (`"trap"`).
- One alert is up at a time, and the screen below it cannot be touched. Whether an
  alert presented right after a dismiss comes up is left open (`Messages`). The
  alert of `prepareData` is taken to be up when the screen appears.
- `busy` (`isPutOrderProcess`) is not reset when an order, or the delete of one of
  its lines, is refused. From then until the next order is accepted lists are stored
  without being drawn and do not close alerts. The properties say `~busy` where they
  depend on that; without it TLC refutes them.
- The stepper keeps its own value, which is not reset with the order, so any next
  value is possible. The start date and its picker are left out.

In `OrderPlacement`, the listener's call for the device's own writes is part of
`PutOrder`: it comes from the local cache, long before a user can get past the alert.

`CategoryScreen`: the list of items and the rows shown are kept apart as in the code.
An add is reported on twice: at once when the call was made (the alert closes and
`items[row].count` is lowered, by the row's index in the *shown* list) and again if it
fails. A list and an add show everything, and the filters are set from the first list
only, though the popover shows them as chosen. The popover's trap (`getMinCost()!` of
no items) is a state, `"filtersTrap"`, and the run that finds it a finding.

`PreviousOrders`: every appearance of the screen adds a listener that is never removed;
every list starts a round of lookups, whose answers index the presenter's *current*
orders. `replaced` and `shrunk` record that the orders changed under a round.

`Session`: notifications of FIRAuth are posted on the main queue and tell the user there
is when they run. A router whose navigation controller was taken away cannot show the
intro; after a forced sign-out the content therefore stays up, without a user
(`ScreensFollowAuth` says that this is the only case). The login and sign-up forms are
part of the root `"intro"`. "Загрузка..." stays up if the profile's lookup fails, which
`setInfo` only prints, and may stay on a form if the user is signed out by force before
the listener heard of the sign-in: `LoadingCloses` names both. The keychain is assumed
to be writable; a new account's document may be refused (`Register`), and `updateData` is
refused if and only if there is no document.

`PhoneMask`: `Filled` is the code's loop over the mask, `Fill` its body and `Clean` the
digits of a text; the properties compare them with a definition by counting (`Masked`).

`WritePipeline` is one device. A task of the worker queue, a callback of the stream and a
timer are an action each, as they run one at a time on that queue.

- A batch is its id and its write, and what the code keeps in the order of ids is a set.
  `wire` and `answers` are the two directions of the current stream and are dropped with
  it; the server may have applied a request whose answer is lost, so that it is sent, and
  applied, again.
- `RequestCredentials` writes down the close count and the token counter. FIRAuth takes
  the call up for whoever is signed in by then (`TakeToken`); `GetToken` puts the
  answer on the worker queue, aborted if `token_counter` has moved. A stream closed in
  the meantime has a higher close count, and the late answer is dropped (`RunResume`).
- `RunCredentialChange` swaps the mutation queue, empties the pipeline and restarts the
  stream. `FreeId` is `LoadNextBatchIdFromDb`: ids are given out again once they have
  left the disk, so that `OwnResultOnce` cannot rest on the ids alone.
- `Restart` keeps what is on disk and what the server has. The process may end at any
  point (`Kill`) and between the two halves of an answer: `HandleSuccessfulWrite` calls the
  completion and then takes the batch off the disk (`KillAtResult`: it is sent again),
  `HandleRejectedWrite` the other way round (`KillAtError`: the refused write is gone and
  nobody was told).
- `refused` is history: the writes the server refused, which `WriteQueue` speaks of.
- Assumed: the server handles the requests of a stream in order, none after one it has
  refused and none of a stream that is closed; FIRAuth changes its user and tells of it
  in one step. An error in the handshake and an aborted write, after which the
  same is sent again, are a lost connection (`Lose`). The app never disables the network
  and does not use `waitForPendingWrites`; the views a write raises are left out.

`OrderPlacement` takes the client at the level of `WriteQueue`. Its writes are sets and
deletes, which may be applied twice without effect, so a write is applied and answered
in one step there.

History in `Rental`: a unit is on the shelf, in a basket line, ordered (the line
keeps its count as `sold`), or held by a running call. Each step that moves units
is compared with the books: it is exact if it overwrites the count it read, or
orders a line that still is what the screen showed. Otherwise the items concerned
are put into `spoiled`. `careless` records that somebody acted before the system
was at rest, or that a call or a write was lost.

## Runs

| Run | Instance | Shows |
|---|---|---|
| `functions` | 3 calls, 1 user, 1 item with 2 pieces, counts 1..2 | `TypeOK`, `StockNeverNegative`, `NoResurrection`, `EveryCallSettles` |
| `functions_refusal` | the same with counts of 1 | finding: a refused add was answered with success |
| `rental_orders` | 1 user, 2 items of one name with 1 piece each, 2 calls, 2 orders | `LedgerSpec`, `OrderAlertCloses`, `OrderedLinesLeave`, `ScreensCatchUp` |
| `rental_users` | 2 users, 1 item with 2 pieces, 3 calls, 2 orders | `LedgerBalanced`, `CarefulUseIsExact`, `NoLineOrderedTwice`, `ScreenFollowsOrders` |
| `screen` | 2 lines, 1 change from elsewhere, 1 removal that may fail, 3 writes, 3 blocks, 2 days | `TypeOK`, `OrderIsShown` (`TableIsTheOrder`, `DaysAreShown`), `ConfirmedIndexStands`, `BlockingAlertsClose` |
| `category` | 2 items of different prices, counts to 2, 1 change, 2 adds, 2 blocks | `TypeOK`, `TableFollowsFilters`, `ScreenCatchesUp`, `LoadingCloses` |
| `category_filters` | the same | finding: the filter button outlives the items, and the popover traps |
| `previous` | 2 orders with 1 item each, 1 change, 2 appearances, 1 block | `TypeOK`, `TableIsComplete`, `AnswersFindTheirItems` (`NamesAreRight`, `TrapsOnlyWhenReplaced`), `LoadingCloses` |
| `session` | 2 accounts, content opened 4 times, 2 phones, 2 restarts, 4 blocks | `TypeOK`, `ScreensFollowAuth`, `ProfileIsRight` (`ProfileIsOwn`, `PhoneIsLatest`), `DocumentsFollowAccounts`, `ContentIsStable`, `LoadingCloses` |
| `mask` | a mask of 5 places, 2 digits, 8 texts typed or pasted over any range | `PhoneIsMasked` (`TextIsMasked`, `SavedIsComplete`), `DeletingDeletes` |
| `pipeline_safety` | 3 writes, a pipeline of 2, 1 change of user, 1 loss, 1 restart, 2 tasks waiting | `PipelineIsTheQueue`, `AnswersMatch`, `StreamIsNeeded`, `LastWriteWins`, `AppliedAsAuthor`, `OwnResultOnce`, `QueueSpec` |
| `pipeline_liveness` | the same without a restart | `EverythingIsSent` |

The types of `Rental`, `WritePipeline` and `PhoneMask` are proved, not checked again here.

Bounds: `Calls` (each used once), `Lines` (as many ids as calls, so that a set() never
lacks one), `MaxCount`, `MaxOrders`. Three calls are an add that creates a line, one that
raises it and a removal in between; longer interferences of the functions are left to the
proofs, which are for any number of calls. Two pieces and counts of two make a call
refusable at zero and at one. Two orders are needed to order a line twice, and for
an order to wait behind the deletes of an earlier one, whose late failures close its alert
(`rental_orders` reaches both); three calls to change a basket between them.
`rental_users` has two line ids: it leaves out the third line that three adds racing for
two pieces may want, whose call then stays under way. Competing users are checked
against the sum of the ledger (`LedgerBalanced`); the ledger step by step and the liveness
properties, which cost more, with one user, whose calls compete in the same way. On the basket screen two lines are what an index can confuse, and three blocks are
a removal's two reports around a list; `MaxWrites` 3 is one order of both lines, or an
order after another. On the category screen two items of different prices are the least
that a filtered list can confuse, and two adds what filters can be lifted between. Two
rounds of lookups overlap after one change, and twice as many if two appearances listen.
Within four contents a session sees another account and the first again. The mask of
the code has eleven places, too many texts to edit in every way; a shorter one of the same
shape is edited instead. `MaskFits` says what both have in common and all that the proofs
need: `checkPhone` asks for the mask's own length, and the mask ends in a digit. An
assumption of `MCPhoneMask` says so of the code's mask and its 17 characters. Three writes over a pipeline of two leave one to be filled in; one
change of user, one loss and one restart each put all that is under way in doubt once, and
the proofs are for any number of them. Calls, line ids and users of
`rental_users` are symmetric; runs with liveness properties use no symmetry. `CHECK_DEADLOCK FALSE`: calls
and changes are finite in number and users may stop.

Fairness: each call's own steps (the database answers; `Abandon` is never forced), the
server's answer to the head of a device's queue (the device is eventually online), the
listener and the completion (the main queue runs its blocks). In `Session`: the main
queue and the answers to sign-in and lookups. In `WritePipeline`: the worker queue,
FIRAuth's answers, what is read from the stream, the backoff timer and the server. Users,
kills, losses and late errors are not fair. That alerts of the other screens close is
stated as an invariant: what closes the alert, or anything at all, is still to
come; each block, list and answer comes once, so that a main queue that runs is
enough.

Every property of a passing run has a mutant in `PROJECT.json`, a form of one
mapped definition with a plausible bug, defined before it under "Mutant:".

## Proofs

`RentalProofs` begins with the cloud functions alone, for all values of the constants
under `DocumentsAssumption` and `MaxCountAssumption`:

- `TypeCorrect`: `Spec => []TypeOK`. `TypeOK` is inductive; `UpdateLineDocs` and
  `QueryBasketTodo` say what the two steps over several documents do.
- `NeverNegative`: `Spec => []StockNeverNegative`. Not inductive alone, because
  a blind write stores what the chain's locals hold; `IInv` adds that no local
  is negative.
- `DeletedStaysDeleted`: `Spec => NoResurrection`, from `TypeOK`.
- `ChainsEnd`: `Spec => []UpdatesWait /\ [][Nearer]_callVars`, what does not depend on
  fairness in `EveryCallSettles`. Each step takes up a call never made before or brings
  exactly one chain nearer its end (`StepsLeft`, then the updates left), whatever the
  others did to the documents. `UpdatesWait` says that the updates waited for are finite
  and not empty; it needs `IsFiniteSet(live)`, since `Lines` may be infinite.

Then the composed system, for any number of users, items, lines, calls and orders:

- `RentalInvariant`, `RentalTypeCorrect`: `RInv` is inductive. Besides the types
  it says that every entry on a screen or in an order is a line that was created
  in that user's basket for that item (its count may be out of date). `DocsGrow`
  is why: no function changes the owner or the item of a document. The server's
  `CommitDelete` is the only step that both parts of the system feel.
- `NoLineTwice`: `RentalSpec => []NoLineOrderedTwice`. The property speaks of
  placed orders; the inductive `OrderedInv` speaks of all orders and says where
  an ordered line is: `torn`, or with its delete still queued (so hidden), or
  gone for good (`NoResurrection`). Hence no screen can show it again, hence no
  second order can contain it.
  That a line which was rented out has its delete queued, is gone or `torn` is `TakenInv`,
  a part of it: the safety half of `OrderedLinesLeave`.
- `ScreenTheorem`: `RentalSpec => []ScreenFollowsOrders`, from the same invariant and
  `AlertInv`: an alert that is up is awaited by a completion in the inbox or by a queued
  order of the process that runs now (not of one that was killed, whose completions are
  never called). This is the safety half of `OrderAlertCloses`. `ShownInv` is that of
  `ScreensCatchUp`: a line that was delivered and is not on screen was removed by its user,
  or wiped off by `putOrderDone`, which runs only after an order of this process was
  accepted (`Reported`).

- `LedgerTheorem`: `RentalSpec => LedgerSpec`. `LInv` adds to `RInv` that a removal
  returns units to the item its line was made for, and that a chain which sends updates
  sends exactly one, to a line of its own item, unless all items involved are already
  spoiled. Each step is then shown to be a transfer between two accounts, a stutter, or a
  `Spoil` of the items its history names.
- `BalanceTheorem`: `RentalSpec => []LedgerBalanced`. A transfer changes two summands and
  keeps their sum. This needs the accounts to be finite (`FiniteAssumption` of `Rental`:
  document ids and calls are finitely many, as in any behaviour so far) and the sum not to
  depend on the order in which `MapThenSumSet` takes the elements; both are lemmas of
  `ListLemmas`.
- `CarefulUse`: `NamesDiffer => (RentalSpec => []CarefulUseIsExact)`. `NamesDiffer` says
  that no two items share a name: items that do share a basket line, so the books of each
  cannot be exact. The inductive `CareInv` says of a careful history that one thing goes
  on at a time (`OneAtATime`), that two lines of a user never are for one item
  (`LinesApart`), that what was sold has its deletes still queued or is gone
  (`SoldLeave`), that a queued order has the counts of its lines (`OrderExact`), and that
  a call's locals agree with the documents it will write (`CallExact`).

`WritePipelineProofs`, for any number of users, writes, tasks, changes, losses and
restarts and any `MaxPending > 0` (`PipelineAssumption`). `PipelineInv` is inductive:

- `OrderInv`: writes are numbered as they are made and stand in that order on the worker
  queue and on disk; ids on disk follow the numbers and never exceed them, so that
  `FreeId` exists and an id given out again is above all in use; a callback belongs to a
  batch on disk that was not answered. `OwnResultOnce` (`CompletionsAreOwn`) is part of it.
- `PipeInv`: the pipeline is a beginning of the user's queue, requests and answers match
  it (`AnswersMatch`, theorem `ResultsMeetTheirBatch`), and the stream's state, its
  handshake and the idle timer agree (`StreamIsNeeded`, with the next: `AssertionsHold`).
- `TokenInv`: at most one token under way, as a request or as a task, has the current
  close count, and then the stream waits for it.
- `ComesInv`, the converse: a stream that waits for a token has one under way, and one that
  is needed is started. With `PipeInv` it gives the last part of `StreamIsNeeded`: as long
  as there is anything to send, a token, a timer or an answer is to come. This is the safety
  half of `EverythingIsSent`; that what is to come does come is its fairness.
- `AuthorInv` follows the user through the worker queue: the author of a queued write is
  the user whom the changes queued before it end in (`TurnInv`), and a token with the
  current counter is for the last of them (`RequestInv`, `ResumeInv`). Hence no batch is
  served as another user (`WritesAreTheirAuthors`).

`PipelineIsFull` says the pipeline is not only a beginning of the queue but as long a one
as allowed: `Filled` gives the same whatever beginning was there, so each step that calls
it ends full, and the others change neither side. `LastWordIsLast` needs `LastInv`, which
follows batches that are sent again. A write whose result is under way was served after
every older write of its user (`ServedLast`); once it is told, no older one is on disk
(`ToldLast`), so none can be served after it any more. Until then an older batch may
well be served again after a younger one.

`PipelineTypes` is the type invariant. `QueueTheorem`: `Spec => QueueSpec`, with
`AppliedInv` in addition (an answer under way says what the server did): the pending writes
are those on disk, and every step is one of `WriteQueue` or a stutter. The process that
ends in the middle of an answer is where the two differ: an applied write may be confirmed
and stay (`Confirm`), a refused one may leave without a `Report` (`Forget`), and nothing
else leaves the disk unanswered.

`SessionProofs`, for any number of accounts, phones, contents and ends of the process
and any length of the main queue (`SessionAssumption`). Blocks are spoken of by their
place in the queue; `DequeueFacts`, `AppendFacts` and their like say what a step does to
the places, and a step that has nothing to do with a part of the invariant keeps it by
one lemma (`KeptAuth`, `KeptProfile`). Two invariants are inductive:

- `AuthInv` relates what the auth listener was last told (`previous`) to FIRAuth's user
  and to the window. It needs the order of the main queue: if the listener's news is old,
  a notification waits (`NewsComes`); a log-out's own block waits behind its notification,
  unless the listener was told (`LogOutWaits`); `signUp`'s completion runs before the new
  user can reach the log-out button (`SignUpWaits`). `SessionTypes`, `ScreensTheorem`,
  `DocumentsTheorem` and `ContentTheorem` follow from it.
- `ProfileInv` adds the profile (`ProfileTheorem`): as long as `UserManager` is empty the
  alert covers the profile, hence its document is asked for once, by the content that is
  on screen, and no phone is entered before it is answered (`AskedOnce`, `Kept`,
  `DialledFor`); the phones under way, in the client's queue and then on the main queue,
  stand in the order in which they were entered, the stored one last (`InOrder`,
  `LatestComes`). An answer for a content that was left finds no presenter.

`PhoneMaskProofs`, for any mask, alphabet and pastes (`PhoneMaskAssumption`, `MaskFits`).
`Clean` and `Filled` are recursive functions; what they compute follows by induction over
the places of one text or of the mask, with `UpToN` of `ListLemmas`. The loop's invariant
is `HasMade`: what it has made so far is the reference at every place, and either digits
are left, those after the ones used, or the result ends at the place of the last digit.
`MaskTheorem` (`PhoneIsMasked`) and `DeletingTheorem` follow, as the digits of what is
formatted are counted by the mask's places (`FormattedDigits`). `FormattingIsStable` says
that formatting twice is formatting once, for every text.

The three screens, for any lines, items, counts, days, orders and length of the main
queue. Each invariant relates what is shown to what is still to come on the main queue,
by places in the queue as in `Session`. What a list is computed from is a function, not a
RECURSIVE operator (`CountTotal`, `Sublist`), and the order in which Firestore lists
documents is some sorted listing (`Listing`), so that the proofs can speak of both; the
nil name is a number of its own (`NoName`).

- `BasketScreenProofs`: `ScreenInv` says that the reports of removals run before the
  next tap (`ReportsRunFirst`), that behind an error comes no list (`ErrorIsLast`), what is on screen before the first list (`NothingYet`, `LoadingFirst`), that table, sum
  and days are those of the presenter's order (`TableIsTheOrder`, `DaysAreShown`), that a
  removal dialog's index stands (`ConfirmedIndexStands`), and that what closes an alert
  without a button is to come. Theorems: `ScreenTypes`, `OrderShownTheorem`,
  `ConfirmedTheorem`, `AlertsTheorem`.
- `CategoryScreenProofs`: `CategoryInv` says there is at most one report under way
  (`OneReport`), that the rows are what filters and stock let through, and how the
  list catches up: what is in stock was heard of with at least its count (`StockFalls`),
  and the last heard list is there, is still to come behind every wrong count, or will be
  followed by a newer one (`CallsTake`, `CatchesUp`). Theorems: `CategoryTypes`, `FiltersTheorem`,
  `LoadingTheorem`, `CatchesUpTheorem`.
- `PreviousOrdersProofs`: `RoundsInv` counts the lookups of each round of `fillItems`
  against its countdown (`StatusCounts`, `RoundsCount`): a round that has not reached zero
  has exactly that many answers to come. `OrdersInv` adds where each answer's item stands
  (`PlacesStay`, `RowsFit`), that names come or are there (`NamesCome`), and that the last
  list is heard (`LastIsHeard`). Theorems: `OrdersTypes`, `TableTheorem`,
  `AnswersTheorem`, `LoadingEndsTheorem`.

`ListLemmas` holds what these proofs share. Some of its facts need induction over data,
which the library states with an operator as a parameter; here the induction is over a
set of numbers, by its least element (`Least`).

Only model-checked: the five liveness properties `EveryCallSettles`, `OrderAlertCloses`,
`OrderedLinesLeave`, `ScreensCatchUp` and `EverythingIsSent`, since fairness and `ENABLED`
are out of the prover's reach. Every invariant and every action property of the passing
runs is proved, as are both refinements. The two properties of the runs that expect a
violation are false of the code, which TLC shows.

## Plan

1. Done: `Documents`, `BasketFunctions`, `OrderPlacement`, `Ledger`, `Rental`.
2. Done: their proofs.
3. Done: `BasketScreen`, `CategoryScreen`, `PreviousOrders`, `Session`, `PhoneMask`.
4. Done: `WriteQueue`, `WritePipeline` and their proofs; the proofs of `Session`.
5. Done: the proofs of the three screens, the balance and careful use of `Rental`, the
   full pipeline and the order of repeated sends of `WritePipeline`.
6. Done: the proofs of `PhoneMask`; the safety halves of the liveness properties of
   `BasketFunctions`, `Rental` and `WritePipeline`.
7. Left: the start date of `BasketScreen`.

## Not modelled

- The colour scheme, the app delegate (its Core Data stack is unused), the layout of cells
  and views: no behaviour.
- The category list: one listener whose list is the table.
- The password mail, the upload of a picture, the checks of the text entered in the
  forms: no state that anything else reads.
- The range slider in `Source/`: not built.
- The rest of `Pods/` (gRPC, BoringSSL, leveldb, other parts of Firebase): third-party
  libraries, reached only through what is modelled here. Of the Firestore client, the
  watch stream, the query views and the garbage collector: the listeners of the models
  stand for them.
