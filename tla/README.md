# Verification of the marketplace API

TLA+ models, TLC checks and TLAPS proofs for the employee marketplace API in `src/`
(NestJS, TypeORM, Postgres, Socket.io). Paths below are relative to the repository;
the code is under `src/src/`.

## 1. The system

One Node process serves REST and the Socket.io namespace `/chat`. It keeps its data in
Postgres (through a connection pool) and its images in a Supabase bucket, and it sends
pushes through Firebase Cloud Messaging (FCM). Requests run concurrently: between any two
`await`s of one handler other handlers run, and the database serialises them only where
the code takes row locks or states a unique index.

| Component | State it keeps | Operations that change it | Hard about it |
| --- | --- | --- | --- |
| Order workflow `orders/` | tables `orders`, `items` | place, complete, cancel, attach a slip | buyers racing for an item, completion racing cancellation, check-then-update, locks of two tables and of foreign keys, crash between commit and notification |
| Listings `items/` | table `items` | list an item, set its status by hand | the seller's manual status against open orders |
| Notifications `notifications/` | table `notifications`, badges of connected devices | store and emit, mark one or all read | count-then-emit out of order, best-effort delivery |
| Push tokens `users/`, `notifications/push.service.ts` | column `users.fcm_token` | register, clear, forget a dead token | a token moves between employees and is replaced while a push is in flight |
| User profiles `users/`, `auth/` | columns `phone_number`, `qr_payment_url` | change the profile; log in with the phone number | `save` writes what differs from a second reading, so overlapping updates of several devices undo each other |
| Identity cache `users/`, `auth/` | in-memory `Map` of resolved employees | resolve, evict | stale identities, eviction order, concurrent misses |
| Chats `chats/` | table `messages`, Socket.io rooms | join, leave, send, mark read, history | receipts and messages emitted after the row was written, a peer named in several ways, cursor pagination while messages arrive |
| Peer tokens `chats/peer-token.service.ts` | none (keys) | encode, decode | a token and a plain id accepted in the same field |
| Storage `storage/` | objects of the bucket | upload one, upload many with rollback | one upload of several fails, then the rollback fails |
| Schema `database/` | constraints, indexes, migrations | migrate | rows that predate a column |
| Common `common/` | none | envelope, error mapping, pagination, money | totals and page counts at boundaries |
| Configuration, bootstrap, health, seed | none at run time | - | start-up only |

Interactions. Every handler starts with the JWT guard, which asks the identity cache.
`OrdersService` changes `items` and `orders` in one transaction and then, after the commit,
calls `NotificationsService.notify`, which inserts a row (whose foreign keys lock the item
and the order), emits to the recipient's room and calls `PushService.sendToUser`, which
reads and may clear `users.fcm_token`. The chat gateway writes `messages` and emits to
rooms; the REST chat controller uses the gateway's `notifyRead`. All of them share the one
connection pool (`database/typeorm.config.ts:38-44`).

What makes each part correct:

- *Orders and listings*: one open order per item; its item reserved and its units in stock
  until it is closed; outcomes final; stock moved by completions alone and by the right
  amount; every interleaving equals some sequence of instantaneous operations; no request
  waits while it holds a row others need; every request is answered; a closing is reported
  once and truthfully.
- *Notifications*: the badge lacks an unread notification only if it was stored after the count
  it shows was taken and not announced after that count was emitted. More does not hold (section 4).
- *Push tokens*: one employee per token; a live token is never forgotten because an old one
  died; a token that was replaced is not cleared.
- *Push tokens beside everything else*: transactions wait for each other in a circle only if a
  half-done move of a token is among them, or if they are UPDATEs that mark several rows read and meet
  them in different orders; every request ends nevertheless.
- *User profiles*: what a change set stays until the next one, unless two updates overlap; the QR
  code shown to buyers is never from another site, and one that an upload returned is an image
  that exists; the phone number is never lost.
- *Identity cache*: never larger than its limit, no identity older than its lifetime and the query it came from.
- *Chats*: every conversation has the item's seller in it, however the peer is named; a message
  reaches each open device of its two parties and nobody else; receipts count each message once.
- *Lists*: a reader misses or sees twice only what the change of the list explains.
- *Storage*: a failed upload leaves nothing behind that the bucket told the server of, unless it
  would not remove it.

## 2. Modules

| Module | What it is |
| --- | --- |
| `MarketRows` | the rows of `items` and `orders`, constants and their assumptions |
| `Marketplace` | the abstract specification: the order workflow as instantaneous operations on committed rows |
| `Orders` | the workflow as the service runs it: requests, awaits, row locks, pool, notifications, failures, crashes; implements `Marketplace` |
| `OrdersLegacy` | `Orders` from the rows the stock migration leaves behind |
| `MarketplaceProofs`, `OrdersProofs` | theorems about `Marketplace`, and about `Orders` and `OrdersLegacy` |
| `MCMarketplace`, `MCOrders`, `MCOrdersLegacy` | instances for TLC: symmetry and views |
| `Devices` | the abstract registry of push tokens: sign in, sign out, die, forget |
| `PushTokens` | the column `users.fcm_token`: moves, logouts and pushes as transactions with row locks and a unique index; implements `Devices` |
| `UserRows`, `MCUserRows` | `PushTokens` among the row locks of all other transactions: orders, items, slips, profiles, storing notifications and messages, marking them read |
| `UserRowsProofs` | theorems about `PushTokens`, and then about `UserRows` |
| `Notifications`, `MCNotifications` | one employee's notifications and badge: storing, marking read, counting, emitting |
| `NotificationsProofs` | its theorems |
| `Pages`, `MCPages` | paging by cursor (chat history) and by page number (lists, inbox) while rows are stored, leave, return and move |
| `PagesProofs` | its theorems |
| `IdentityCache`, `MCIdentityCache` | the in-memory cache of employees behind verified tokens, time in ticks |
| `IdentityCacheProofs` | its theorems |
| `Uploads` | uploading several images at once and rolling back |
| `Profile`, `MCProfile` | `Uploads` and the profile that refers to an image: PATCH /users/me from several devices, and the login |
| `ProfileProofs` | theorems about both |
| `Chat`, `MCChat` | whom a request is about, sockets, rooms, messages and receipts of the conversations about one item |
| `ChatProofs` | its theorems |

Composition: `UserRows` EXTENDS `PushTokens` and lets each of its actions happen only when the
locks it takes are free among those of the other services' transactions, which are given by the
locks they take in order. `Profile` EXTENDS `Uploads`: a request may name an image once its
upload returned it, a URL from elsewhere, and a URL under the bucket's prefix where there is nothing. `Orders` maps to `Marketplace`, `PushTokens` and `UserRows` to `Devices`, by INSTANCE.

### State and actions against the code

`Marketplace` has the committed columns the workflow tests: `items[i]` is
`[seller, status, qty]`, `orders[o]` is `[item, buyer, seller, qty, status, slip]`; an id
the sequence has not handed out is `NoItem` / `NoOrder`. Its actions are `List`
(`ItemsService.create`), `Place` (`OrdersService.create`), `Complete` and `Cancel`
(`OrdersService.updateStatus`), `SetStatus` (`ItemsService.updateStatus`) and `AttachSlip`
(`OrdersService.attachPaymentSlip`).

`Orders` adds `pc`, `call`, `seen` and `held` per request and the stored `notes`. One step is
the stretch between two awaits that other requests can observe:

| `pc` | Next step | Code |
| --- | --- | --- |
| `begin` | `Begin`: check a connection out | `dataSource.transaction`, `SET LOCAL` |
| `ref` | `FindRef`: which item is the order for | `orders.service.ts:100-104` |
| `locks` | `LockItem`, `LockOrder`, then `Decide` or `Refuse` | `lockItem`, `:107-126`, `items.service.ts:101-120` |
| `commit` | `CommitCreate` / `Complete` / `Cancel` / `SetStatus` | `:60-73`, `:127-139`, `items.service.ts:122-125` |
| `check`, `write` | `AttachCheck` / `AttachRefuse`, then `Checkout`, `AttachWrite` | `:151-162` |
| `reread` | `Reread` | `findOneForUser` after the commit |
| `tell` | `Checkout`, `ShareItem`, `InsertNote` | `NotificationsService.notify`, foreign key locks |

Modelling decisions worth knowing:

- Uncommitted writes are invisible under READ COMMITTED, so a transaction's writes are the
  one step of its commit; until then it only holds locks. The locks matter: `item` and
  `order` are FOR UPDATE, `share` is the KEY SHARE lock of the foreign key check, and an
  `AttachWrite` waits for `order`. The open-order lookup of `items.updateStatus` and the
  INSERT against the partial unique index are evaluated with the decision, under the item's
  lock.
- `PendingOn` in `Allowed` for a create is the unique index `UQ_orders_item_pending`; the
  property `IndexNeverFires` says the index is never what stops a request.
- `Fail` ends a request at any point (lock timeout, statement timeout, no connection, lost
  connection); `Crash` ends all. Both roll the open transaction back and lose the
  notification not yet stored.
- Not distinguished: title, price, images and other columns no guard tests; which 4xx a refusal
  is; requests naming rows that do not exist (404, nothing changes). Users are not deleted.
- Row locks on `users` (foreign keys of an inserted order, against a token move) are not in
  `Orders`, whose deadlock property is about `items`, `orders` and the pool; `UserRows` has them
  beside the locks of the other services' transactions, those of the UPDATEs that mark messages and
  notifications read included.

## 3. Runs

| Run | Instance | Shows |
| --- | --- | --- |
| `marketplace` | 3 users, 2 items, 3 orders, quantities to 2 | the promises of the abstract workflow, including an item ordered again after a partial completion and two items at once |
| `orders` | 2 users, 1 item, 2 orders, quantity 1, 2 requests, 2 connections | two requests racing, one order following another on the same item; lock holders never wait, a closing is told once; refinement of `Marketplace` |
| `orders_live` | 2 requests, 1 connection | every request is answered, the pool being the bottleneck |
| `orders_legacy` | an open order of up to 2 units on a migrated item with 1 | the clamp at zero keeps the order completable |
| `orders_slip` | violation | see findings |
| `push_tokens` (`MCUserRows`) | 2 employees, 2 tokens, an item and its order, 2 messages or notifications marked read together, 2 requests, fair | one holder per token; a live token is never lost to a late answer; every step is one of `Devices` or none; circles of waiting requests have a half-done token move in them or consist of UPDATEs that mark several rows read, are broken by the database, and every request ends |
| `notifications` | 3 unread notifications and 2 new ones, 3 handlers, failures | what a late count can hide: only notifications stored after it was taken and not announced after it was emitted |
| `pages` | 2 writers, 4 rows, a row that leaves or moves, pages of 2, all three ways of paging | what a reader misses or sees twice: reversed messages by cursor, at most what left or came by page number, what moved or tied in the inbox |
| `chat_history_race` | violation, 2 writers, 3 messages, pages of 1 | see findings |
| `identity_cache` | 3 employees, 2 requests, 2 entries, lifetime and query of one tick | the cache keeps its limit, answers are recent |
| `profile` | 2 images, 2 devices, 2 phone numbers, a foreign URL, one under the prefix without an object, failures | failed uploads leave nothing the bucket owned up to; no foreign URL is stored and a QR code that an upload returned is an image; a change stays unless another update overlapped it |
| `chat` | a seller, 2 buyers, an id nobody has, 2 sockets, 2 messages, 2 handlers, failures and crashes | who may talk to whom, who gets messages and receipts, and how often a message is counted |

Bounds. Every hazard of the order workflow is between two requests, on one item, since requests on
different items share only the pool, and needs at most two orders, since a third repeats the state of
the second. `orders` has one unit per item, which keeps it to a million states; partial completions
and orders that ask for too much are in `marketplace` and `orders_legacy`, and the refinement is proved for
every quantity. `CreateBound` keeps creations from running out of order ids. Waiting for a connection
happens in the run with a single one. Proofs cover every size for everything but liveness.

Symmetry is used in runs without liveness only. The view of `MCOrders` leaves out
notifications of new orders and slips: nothing reads them, and no property of those runs
mentions them. The view of `MCChat` leaves out what the last step emitted, which no later step
reads; the properties about it are action properties and see it in the step. Nothing is left out
that a later step or a property can tell apart. TLC's deadlock check is on in every run.

Fairness. `FairSpec` asks strong fairness of each request's own steps: Postgres grants a row
lock to its waiters in order of arrival and the pool serves waiting clients first come, first
served, so a step that becomes possible again and again is taken. Nothing is asked of clients,
failures or crashes: a request is answered even if neither ever fails.
`UserRows!FairSpec` asks the same of a request's own steps, FCM calls having a timeout; the abort of
a deadlock is such a step, since Postgres looks for one after `deadlock_timeout`. It is stated for two
requests: with more, KEY SHARE locks handed from one to the next could keep a token move waiting
until its own timeout, which is a failure the model has and fairness does not promise.

The other modules' bounds. A token needs two requests to be fought over (two movers, or a mover and a
push) and two employees to be swapped between; a circle of two transactions needs one item, one order
and two employees, or two rows that two UPDATEs mark read in
opposite orders; the proofs cover more. `Dies` is bounded by the tokens
there are. Three handlers let one count overtake two others, and two
new notifications let one be announced before a late count and one after it. Four rows and pages of two give two
pages and rows that come between them; the clock of `Pages` may stand still or advance by one with each
transaction, so equal and different timestamps both occur; `MaxMove` lets one row leave or move, and a row
that left may return as often as it likes. Three employees outnumber the two
entries of the cache, and two requests may miss at once; ages beyond `Horizon` are all alike to the
property, so time is not bounded. `QueryMax` is an assumption: the code bounds statements in the database
(`statement_timeout`) but not the way of their answer. Two images are uploaded together: one fails while the
other is stored, confirmed or lost, and each of a request's images is in one of these states. A request with too many
is refused like one with an invalid image, which the run has. `Nowhere` stands for all URLs under the prefix without an object. Two devices overlap in
`Profile`, each with a column the other may not have asked for; two phone numbers tell an old one from a new one.
Two sockets suffice for `Chat` since its properties are about one event and one more socket at a time: the
sender's second device, the receiver's, or a third party's; each is one of the cases. Two messages tell one receipt
for both from one for each. `event` holds what the last step emitted and is cleared by the next.

## 4. Findings

- `orders.service.ts:158-162`: `attachPaymentSlip` checks the status in one statement and updates
  by order id in another, so a slip can be attached to an order that was completed or cancelled in
  between, although the code says "Cannot attach a payment slip to a ... order" (`:159`).
  Run `orders_slip` finds the interleaving. `Marketplace!AttachSlip` therefore does not require
  an open order.
- `chats.service.ts:119-127`: the page is ordered by `created_at`, the cursor is a `message_id`.
  Postgres stamps the row with the start of its transaction and draws the id afterwards; when two
  messages are stored at once the orders can disagree, and a page boundary between them skips one for good.
  Run `chat_history_race`. `OnlyReversedAffected`, which holds, says how far that goes: a message is
  missed or repeated only if its id and its time are in opposite orders to another's.

What holds, and is worth knowing when changing the code:

- An order or a message can be the victim of a deadlock although its service takes its locks in one
  order: a token move takes locks on `users` that the foreign keys of an inserted row conflict with
  (`CirclesAreKnown`). Marking messages or notifications read is one UPDATE that locks several rows in
  an order it does not state (`chats.service.ts:143`, `notifications.service.ts:147`), so two devices of
  one employee may also wait for each other. The database answers one of the two with an error (409 in
  `all-exceptions.filter.ts:21-24`).
- `AcceptedChangesStay` has to except overlapping updates: `save` puts back a phone number that another
  device changed between the two readings (`users.service.ts:44-54`), even if its request did not name one.
- `InboxMissesOnlyMoved` has to except conversations whose latest messages are equally old: the inbox
  is ordered by `created_at` alone (`chats.service.ts:189`).
- The badge is not exact. The unread notifications are counted, and the count is emitted when the answer is back
  (`notifications.service.ts:155`): of two devices that mark notifications read the one that counted first may
  emit last, and every badge then shows too many until the next event, or too few if a new notification was
  announced in between. The comment (`:153`) says "Keeps badges in sync across the user's other
  devices/tabs". `BadgeLacksOnlyMissed` says which notifications the badge can lack.
- A QR code may lead nowhere. `isManagedUrl` (`storage.service.ts:136-139`: "True when the URL points to an object
  in this app's public bucket") compares the prefix only (and refuses ".."), so PATCH /users/me stores a URL
  under the prefix without an object; items' images and payment slips pass the same check. `QrStaysInBucket` is what
  the check achieves.

## 5. Proofs

Assumed of the constants: `MarketAssumption` (`MaxQty` positive, `None` is no id) and
`OrdersAssumption` (`PoolMax` positive, finitely many requests at a time).

`MarketplaceProofs`. Placing needs `PendingMeansReserved` to know that an available item has no
open order, and that needs that an item has one open order at most: `Agreement` is what is
inductive of itself (types, one open order, reserved items, parties that match). That an open order is
covered by the stock is not part of it: an order from before the migration may exceed its item.
`CoveredExcept(E)` says it of all orders but those in `E`; with `Agreement` it is inductive for every `E`
(`CoverNext`). `Promises`, with an empty `E`, is what the marketplace itself keeps. `OutcomesAreFinal` and `UnitsLeaveWithTheirOrder` are action properties derived from it.

`OrdersProofs`. The invariant `Coherent` consists of
- `LocksExclude`: a FOR UPDATE lock excludes other locks on the same row;
- `HeldFits`: which locks a request holds follows from where it is, item before order;
- `CallFits`: what a request works on exists and belongs together;
- `ReadsFit`: rows read under a lock are still current, so a decision still stands at the commit;
- `Agreement` of the tables, carried over from `MarketplaceProofs` (`StepsKeepRows`: each step of a
  request is an operation on the rows or leaves them alone).

From it: type correctness, `LockedRowsStayCurrent`, `NoDeadlock`, `IndexIsNeverMet` and
`OrdersImplementMarketplace`, the refinement: each commit is one abstract operation with the
guards established by `ReadsFit`, each other step a stutter. `Coherent` is needed because none of
these is inductive alone: a commit uses a decision taken some steps before, which stands only
because the row lock was held since. `TablesKeepPromises` adds the covered stock.

`ClosingsToldOnce` needs to know who is about to tell of a closing: `Told` says of each order that, while it
is open, nobody tells or told of its closing, and that afterwards the request that closed it and the
notifications stored are together at most one, about how it ended and to a party of it (`CloseTold`,
`NoteTold` and `QuietStep` are the three kinds of steps).

`OrdersLegacy` starts from other rows and takes the same steps. `Coherent` holds of the rows the migration
leaves (`LegacyInitCoherent`), so `LegacyRequestsAreSafe` is the same argument; `OnlyTheOldOrderExceeds`
is `CoveredExcept({OldOrder})`, and `OversizedOrdersSellOut` is about the one step that commits a completion.
Assumed: `LegacyAssumption` (the old item and the old order are rows).

`UserRowsProofs`, first part: `PushTokens`. `OneHolder` is not inductive: when a move commits, nobody else may have the
token or be about to commit it. `OnlyMover` says so from the moment the index was passed, and it stays
true because every other way to get a token goes through the same index (`Rivals`). `LocksFit`
says which rows an open move locks and what it does to them, and `LocksDisjoint` that no two
transactions lock the same row. `LiveTokensStay` follows: a commit takes the token only from rows
whose token it stores for its own employee, and a forgotten token is a dead one (`JobFits`).
Assumed: `None` is no token.

`NotificationsProofs`. The invariant `CountsCover` says of every count on its way
what the property says of the badge: it is at least the number of notifications that were there when it was taken
and are still unread. Marking read only makes that number smaller, a new notification is none of them, and
announcing one adds one to the badge and takes one from those missed (`OneMore`).
Assumed: finitely many notifications (`NotificationsAssumption`).

`TokensImplementDevices` is the refinement of `Devices`: the registry's token of an employee is the
committed one, so that a commit is a sign-in, a sign-out or a forgetting and every other step a stutter.
Its guards come from `OnlyMover` (a sign-in takes the token from everyone else who has it) and
`JobFits` (only a dead token is forgotten).

`UserRowsProofs`, second part: `UserRows`. Every step of the composition is one of `PushTokens` or leaves its variables alone
(`RowsImplementTokens`), which carries all its theorems over. For `OtherWorkNeverCircles`,
`Ordered` says in which order every plan takes its locks: at most one on an item, one on an order or for a
write to an employee's row last, and none FOR UPDATE on an employee. So a transaction of another service that still
waits holds only share locks on employees, for which nobody but a move waits, or its item, and then it waits for
no other item; a circle without a half-done move is one of transactions of the
other services (`WaiterWorks`), and nobody in it waits for an item. What is left are UPDATEs that mark
messages or notifications read: such a plan has locks on these only, so that whoever waits in the circle holds one
and waits for another (`WorkCirclesMark`).
Assumed: an order is for an item (`UserRowsAssumption`).

`ProfileProofs`. `FailureLeavesNothing` needs an account of every object (`Accounted`: on its way means waited
for or lost sight of, stored may also mean confirmed) and what each state of the request knows (`Progress`:
nothing is pending once it settled). `QrStaysInBucket` needs that every image whose URL a request
carries or a copy of the row holds was returned by an upload (`Carried`, `Known`), that a URL from elsewhere gets
no further than the check, and that a returned image stays. For
`AcceptedChangesStay` the question is which copies are stale: `Stale` says that a copy differs from the row only
in endangered columns, and that what `save` left out because the row had it already is still there unless
another update wrote since (`crossed`); `Agree` says that other columns are as accepted.
Assumed: `ProfileAssumption` (`None`, `Undefined`, `Foreign` and `Nowhere` differ and are no images, and the first two no phone numbers).

`ChatProofs`. `Talks` says that every handler's two parties are different and one sells (from the lemmas about
`Peers` and `Receivers`, i.e. `peerOf`, `resolve` and `resolveConversation`), and that its socket is its
employee's as long as it is open. A socket is only in rooms of its owner, by type correctness, so
`Room(a, b)` holds sockets of `a` and `b` only, and the two event properties follow from who emits.
`Receipts` says that a message is in at most one open receipt, and in none if it was counted. Assumed:
`ChatAssumption` (the seller is no buyer, strangers are no employees, finitely many of each).

`IdentityCacheProofs`. An entry's age and its remaining life add up to at most a lifetime and a query
(`EntriesRecent`), an answer under way is no older than it says (`JobsRecent`), and who has an identity now has
it with age 0 (`Present`). The lemmas `DeleteIs`, `RoomIs` and `PutIs` say what the operations of the Map
return: sequences that hold an employee once and nothing but what was there and the new entry.
Assumed: `IdentityCacheAssumption` (at least one entry, a lifetime of at least one tick).

`PagesProofs`. The argument is about places: the place of a row is the number of rows the order puts before it
(`Place`). Of the rows the order decides about, a page with OFFSET and LIMIT holds those whose places are
OFFSET and the next LIMIT - 1 (`SlicePlaces`), and leaves none of them out (`SliceSkipsNone`), whichever of
its possible answers the query gives. A row that comes or goes moves the others by at most one place, and
only one row can cross any given place by it (`OneCrosses`). With these lemmas each way of paging has its invariant:
- `HistoryFits`: a message that was there at first and has not been shown is still before the cursor or is reversed,
  and one that was shown is at or after the cursor or is reversed. The step needs that a page has an oldest
  row (`OldestExists`, from the least of its times and the least of its ids at that time).
- `ListFits`: the rows of the beginning that can no longer be shown (`Skipped`) are at most as many as rows left,
  and what was shown again together with what will be (`Coming`) at most as many as rows came. Neither
  count is bounded alone: a row that comes pushes one shown row over the page's end, to be repeated a page later.
- `InboxFits`: a conversation that was not shown, did not move and is not tied has a place beyond the pages turned.

`Sound` is what all three stand on: types, ids that are new when they are drawn, and the shape of the walk.
`OneWriterMissesNone` is the other side of the run `chat_history_race`: with one writer ids and times are in
the same order (`InOrder`), nothing is reversed and a walk back is complete, so the finding is exactly about
messages that are stored at once. Assumed: `PagesAssumption` (a page has at least one row).

Only model-checked: `RequestsFinish` of `Orders` and `UserRows` (liveness under fairness and `ENABLED`
are out of the prover's reach, as are induction over data and recursive operators). Every invariant and
every action property that a passing run checks is a theorem too.

## 6. Not modelled, and the plan

Left out for good: configuration, bootstrap, health and seed scripts (start-up code and I/O);
field validation, error wording and the response envelope (formatting; the models have that a refused or failed
request ends); Swagger and module wiring; signing and verifying tokens and the cipher of peer tokens
(libraries; that a token stands for one id and only the service gets it back is in `Chat`); detecting
an image's type from its bytes; `multiplyMoney` (one multiplication; that the amount may not fit its
column is a failure of the INSERT); the search's text and type filters (conditions on rows).

Not modelled although the code has it:

- The deletion of employees: this service never deletes one, and `Profile` keeps the row.
- The totals that come with a page. A page of the inbox beyond the last says that there are none at all
  (`chats.service.ts:195`); `Pages` ends the walk there.
- In which order a placement's and a cancellation's notifications are stored. Both are stored after their
  commits and nothing orders them; no document promises an order.
- Whether FCM delivers, and to whom after a token changed hands while a push was under way.
- Single uploads (`uploadImage`): one `putObject` without a rollback, whose lost answer `Uploads` has.

Written in this order: the order workflow (`Marketplace`, `Orders`, `OrdersLegacy`) with its
proofs, push tokens and notifications with theirs, chat, identity cache, uploads, then the registry
`Devices` and the composition `UserRows`, `Pages`, `Profile`, and the proofs, last those of `OrdersLegacy` and
`Pages`. What could come next:

1. That `UserRows` is also `Orders` as far as row locks go: a refinement of the plans of locks by the requests.
2. That `Orders` frees its connection from every state (`ENABLED` is out of reach, so as an invariant on who waits
   for whom), as a step towards `RequestsFinish`.
