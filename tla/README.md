# Frame backend: TLA+ models, checks and proofs

The backend is an Express application over MongoDB (Mongoose 6), with Socket.IO
for live updates and `node-cron` for the jobs of the night. Its code lives in
`src/src/systems/<System>`; each system has controllers, services, models and
tests. `ecosystem.config.js` runs it under PM2 with one process per core
(`instances: 'max'`), and every process starts all cron jobs
(`src/src/server.ts:94-96`).

What makes it hard is the same everywhere: **a handler is a sequence of database
calls, and between two of them every other handler and job may run** — in the
same process (an `await`) or in another one. One handler of the whole repository
(`createOrder`) runs in a transaction. All others load documents, look at them,
and write later. What keeps them right, where they are right, are unique
indexes, guarded updates, `$inc`, and Mongoose's version key, which protects some
saves and not others:

| a save of | sends | looks at `__v` | raises `__v` |
|---|---|---|---|
| an array that was spliced, sorted or assigned | the whole array | yes | yes |
| fields of single array elements | those fields, by index | yes | no |
| an array that was only pushed to | `$push` | no | yes |
| other fields | those fields | no | no |
| `findOneAndUpdate`, `updateOne`, `updateMany` | the operators given | no | no |

The models keep exactly this table; most findings and most properties are about it.

## 1. Inventory

### BookingSystem (modelled: `QueuePersons`, `BookingQueue`)

*State.* A booking (status, agents, day) and, for every agent and day, one queue
document with an array of persons (booking, position, status).
*Operations.* Create a booking; walk in (create and queue); change a booking's
status or day; delete it; add, move, remove a person; change a person's status
(waiting, inService, completed, absent); five jobs: populate the day's queues,
send reminders, close the queues of closed lounges, clean up past queues, complete
stale bookings. *Interaction.* The queue handlers write bookings and the booking
handlers write queues, in both orders; jobs write both. Notifications and sockets
are told afterwards and never read back.
*Hard.* Stale copies of a queue, whole-array against in-place saves, jobs run by
every process, a walk-in whose queueing fails, bookings left over from yesterday.
*Correct when:* one person at most is in service; nobody stands twice in a queue;
a request's save drops or overtakes nobody; what it completed stays so; a walk-in is
queued or gone; no booking stays `inQueue` after its day.

### MarketplaceSystem (modelled: `Orders`, `Checkout`, `Carts`, `Market`, `ProductCategories`, `DerivedCounts`)

*State.* Stores, products with stock per variant and a total, orders with their
items and status, one cart per user, reviews, wishlists, categories of products and
suggestions of new ones.
*Operations.* Place an order (transaction), move it through its statuses, edit,
hide, archive or delete a product, suspend or close a store; add to, change,
clear a cart; review, wish; create, rename, drop, suggest and moderate categories.
*Interaction.* `createOrder` reads store and products, takes stock and pulls the
ordered items from the buyer's cart; cancelling puts stock back; delivery counts
revenue and sales; closing a store rewrites its products; reviews and wishlists
keep counters on products; a category is not dropped while products refer to it.
*Hard.* Snapshot and conflict of the transaction; the last piece; one order with
the same product on two lines; status changes that race or break off half-way;
positional writes to a cart whose items move; look-ups that precede insertions.
*Correct when:* an order is placed in one step, from an active store, with products on
sale and in stock; no stock is lost; no stage of an order is skipped; a paid order is
counted; an item disappears from a cart only on request or with its order; a suggestion
marked implemented has its category; a category in use stays.

### ChatSystem and NotificationSystem (modelled: `Chat` over `Notifications`)

*State.* One conversation per pair (unread counts, last-message preview, who hides it),
its messages (text, receipts, reactions, who hides them, recalled), the rooms the sockets
are in (of conversations, of a user's notifications); notifications; per user a list of push tokens by device.
*Operations.* Open, hide, send, mark read, edit, recall, hide a message, react, type; join
and leave a room; every `notify…` method; read and delete notifications; register and
remove a device token; prune what FCM calls invalid.
*Interaction.* Opening and sending ask the follow graph; sending asks the room whether the
recipient is there and notifies otherwise (a generic event of the socket server lets a socket enter
and leave rooms too); every notification is pushed to the devices.
*Hard.* Message and conversation are written in separate calls, some of them in
parallel; the room is asked at one moment and the message emitted at another; reactions
are replaced by index; tokens are re-registered in two calls while others are pruned.
*Correct when:* a message reaches its recipient by the room or by a notification; an
unread count goes down only by reading; a conversation opened is shown; nobody is told
of what they did themselves; a device loses no token that works; what is recalled is
shown nowhere.

### FeedContentSystem (modelled: `FeedContent`, `DerivedCounts`)

*State.* Posts, reels, comments (one level of replies), likes and saves (unique per
user and content), hashtags, with `likeCount`, `saveCount`, `commentCount`,
`postCount` kept by `$inc`. *Operations.* Create, edit, hide, delete content;
toggle like and save; comment, reply, delete a comment; report.
*Hard.* Row and counter are written in separate calls, either of which may fail; toggles of two
devices; edits that overlap a deletion; deletion racing with likes, comments and replies.
*Correct when:* nobody has two likes of a target; at rest, counters equal the rows they count, but
for a short and known list of accidents (§3), each of which moves a counter by what it
should and no more. That counters stay above zero is not among what the code promises. Likes
of lounges and agents are a second collection with its own service,
which recounts instead of incrementing.

### AuthSystem, UserManager, AdminSystem (modelled: `Sessions`, `Accounts`, `DerivedCounts`)

*State.* Per user the refresh-token sessions, the failed-login counter and lock, devices, the moment
of the last password change; verification and reset tokens; the users themselves with their
addresses (an index tells spellings apart), their images in object storage, agents of a lounge;
follows (unique per pair) with two counts.
*Operations.* Sign up, resend, verify, sign in with Google; log in, refresh (rotate), log out, log
out everywhere, change and reset the password; block; create, update and delete users and agents;
send and check an e-mail code; replace an image; follow, unfollow. An administrator clears sessions
and sets passwords.
*Interaction.* Every authenticated request compares its access token with the last password change;
chat and notifications read follows; bookings read a lounge's agents.
*Hard.* The session list is read, changed and written back whole; rotation is a pull followed by
such a write; counters are computed from old copies; every address is looked up before it is
inserted; a link is stored, mailed and followed by different requests.
*Correct when:* the list respects its limit; a session ended stays ended; a fresh token works; a
mailed link works until used or superseded, and an address has one; the image of a user exists; a
request nobody overlaps leaves the counts right.

### ServiceCatalogSystem, ExtrasSystem (modelled: `CatalogRequests`, `ServiceCatalog`, `Extras`, `Catalog`, `DerivedCounts`)

*State.* Categories, services, what lounges offer of them, suggestions; extras and their
adoption by lounges; ratings with their average on the target. *Operations.* Create (also in
bulk), rename, drop; offer, toggle, change, withdraw; suggest, edit, moderate, implement;
create, price, drop and adopt extras; rate.
*Interaction.* Implementing a suggestion creates a service, an offer of it, and then marks
it and tells the lounge.
*Hard.* A look-up precedes every insertion; three collections are written in turn; a
category is counted as unused and then dropped; price and "free" are validated together
and changed apart.
*Correct when:* rows stay unique; an implemented suggestion is real; a category in use
stays; free extras cost nothing; averages agree with ratings after a request that nobody
overlaps.

### Shared services, HTTP layer

E-mail and object storage are input and output. The HTTP layer decides who may call a
handler; the models take the calls that pass it, with every value the validation lets
through.

## 2. Plan

| step | module | of | state |
|---|---|---|---|
| 1 | `QueuePersons` | the array algebra of a queue | done, lemmas proved |
| 2 | `BookingQueue` | bookings, queues, handlers and jobs | done, all but the liveness proved |
| 3 | `Orders` | products, orders, checkout | done, every property proved |
| 4 | `Checkout` | abstract sale in one step | done, `Orders` proved to implement it |
| 5 | `Carts`, `Market` | a user's cart; the store and the cart together | done, every property proved |
| 6 | `FeedContent` | posts, reels, comments, likes, saves, hashtags | done, every property proved |
| 7 | `DerivedCounts` | follows, likes and ratings of users, reviews, wishlists | done, every property proved |
| 8 | `Notifications`, `Chat` | notifications, device tokens; conversations, messages, rooms | done, every property proved |
| 9 | `Sessions`, `Accounts` | sessions, locks, links; how accounts come, change and go | done, every property proved |
| 10 | `CatalogRequests`, `ServiceCatalog`, `ProductCategories`, `Extras`, `Catalog` | the catalogues | done, every property proved |

Composition: `BookingQueue` EXTENDS `QueuePersons`; `Chat` EXTENDS `Notifications`, whose calls
it makes, and has the follows of its two participants as state, since sending reads what
following writes; `Accounts` EXTENDS `Sessions`; `Catalog` puts three catalogues over one
counter of ids; `Market` EXTENDS `Orders` and instantiates `Carts`, joined in the
one action in which they meet. `Selections` holds what `Carts` and `Chat` share, the filtering of an
array; `Sums` the laws of the sums that `Orders` and `DerivedCounts` are proved with.
Out of the prover's reach: liveness.
Still worth modelling: the creation of stores and products, and reports.

## 3. How the models read

A request or job occupies a *slot* (`Procs`, `Requests`, `Ops`, `Slots`) and is a record:
what it runs (`kind`), the database call it makes next (`at`), its parameters, what is
left of its loops and the documents it has loaded. An action is one database call with
the computation up to the next one; the first action of a handler is its first call.
Handlers whose calls cannot be told apart by others are one action. Early returns and
thrown errors free the slot. `Crash` (or `fail`) frees a slot at any point: an uncaught
database error or the end of the process. Two slots in one instance are two concurrent
requests, in one process or two.

*Scenes.* Where a module holds many operations, a behaviour is about one scene: a variable that
never changes names the requests of that behaviour and its bounds. The scenes of a run
are chosen so that every two operations that write or read the same data occur together in
one of them.

### QueuePersons
Pure operators on one queue's persons: `Insert` (addPersonToQueue's shifting and sort),
`Complete`, `Remove` (removeAndRebalance), `Reorder`, `SetStatus`, `Transitions`
(STATUS_TRANSITIONS). Positions are naturals; a completed person has position 0.
Names, prices and timestamps are left out.

### BookingQueue
`bookings`, `queues` (with `v` for `__v`), `today`, `op`, `scene`. Four properties are about
behaviours without jobs and crashes (`AmongRequests`), which write without raising `__v`. The local
copy of a queue is `op[r].docs[q]`; `touched` names the indices changed in place. `SaveQueue` writes
an array whole, `SavePersons` in place; `Current` is Mongoose's version check and `Patched` its
positional `$set`. `DayPasses` is the clock. The lounges closed at a run of the closing job are any
set of agents. Left out: statistics, searches, notifications, sockets, the client-visitor profile
(written after the fact, read by no handler here).

### Orders, Checkout
One store, its `products`, `orders`, `op`; two history variables: `been` (statuses an order has had)
and `edited` (products whose stock the owner set). An edit that sends variants rewrites the array
with the stock it was sent, and so does one that sends the stock as loaded, if it changes anything
else of the variants (`other`); either makes the product `edited`. `MaxEdits` bounds the edits. `CreateOrder` reads the snapshot,
`CommitOrder` commits if no document it writes has changed since, `RetryOrder` is `withTransaction`
running the callback again or giving up. Amounts of money are units sold; what is demanded, standing
and paid are sums (`SumFunctionOnSet`) over lines and orders. `Checkout` has neither requests nor
snapshots: `Place` sells in one step what is there and on sale, `Advance` moves an order to a status
that follows one it has had, `Manage` is anything the store does. `Shop` is the refinement mapping.
Left out: creating stores and products, images, statistics, and disputes: `UpdateOrderStatusDto`
does not offer `disputed` or `refunded` and no other route sets them, so `adminResolveDispute` never
passes its guard.

### Carts, Market
`cart` (with `v`) and `op`. A save is a `write` record: push, set at an index, whole. `InPlace`
is MongoDB's `$set` of an element's field, which fills an array that is too short; `Kept` is
`filter` and `$pull`. The
stock read from a product is any number, which includes what `Orders` would give. In
`Market` the commit of an order of the buyer is the pull from the cart as well.

### FeedContent
`contents` (posts and reels, whose handlers are the same), `comments`, `rows` (likes and
saves: user, target and the `id` a deletion goes by), `count` (likeCount and saveCount), `commentCount`,
`known` and `tagCount` (hashtag documents and their postCount), and `op`. Requests are processes of
their own: a user may have several in flight, on one target or on many, and each may `BreakOff`
between any two of its calls. `Toggle`, `FindMark`, `Mark` or `Unmark`, `CountMark` are the four
calls of a toggle; `Delete` starts three parallel deletions (`DropRows` twice, `DropComments`), then the
hashtags, then `RemoveContent`; `DeleteComment` has six calls. `version` is `__v`: replacing the
array of hashtags raises and compares it, which settles two edits that overlap.

The code lets its numbers go wrong in a few ways and never repairs them. Each way is named
where it happens, and three history variables, read by no step, add up by how much:
`drift` (a toggle that broke off between row and counter; an unlike whose row was gone, which
lowers the counter all the same; rows swept by a deletion before their target goes),
`tagDrift` (a request broken off before its counters; a counter lowered before its document
exists; a deletion whose copy has other hashtags than the content by now) and `commentDrift`
(a reply written between the count of the replies and their deletion; a comment deleted
twice; a request broken off). The properties say that the numbers are off by these sums and by nothing
else. Left out: texts, media, views, reports, searches, notifications.

### DerivedCounts
Five collections in one variable `rows`, keyed by collection, writer and subject, which is what
their unique indexes say; `shown`, the numbers that are recounted; `wished`, the one that is
incremented. Here any number of requests of one user may overlap, and any may crash. `Count`
and `Write` are the two halves of refreshCounts, refreshTargetCount, refreshTargetSummary and
recalculateRatings; `now` is what is recounted in parallel and `later` the store, which
recalculateRatings does after the product. `found` says that the _id somebody has looked up
still names the row: deletions go by _id, and a row that was deleted and inserted again is
another one. Averages are in tenths, rounded as `Math.round(avg * 10) / 10` does. Two history
variables state the properties: `disturbed`, the numbers whose last requests overlapped or
broke off, and `lost`, the products with an increment that was never made. Left out: texts,
images, helpful votes, purchase verification, notifications.

### Notifications
`CallsOf` says, for an event of another component, what `create` is called with. A call is in
`pending` until `CreateNotification` inserts it or drops it (its actor is its reader); then the push
reads the tokens, asks FCM and prunes what FCM calls invalid, each a step. `RegisterToken` is a
`$pull` and a `$push`. A notification deleted or expired is no longer `kept`, and stays in the
sequence for its push. `fcmTokens` is a set: no operation looks at the order of the entries, and
equal ones are pushed and pulled alike. Who may be a booking's owner and client is
`EventsAssumption`. `dropped` is history; titles, links and images are left out.

### Chat
`conv`, `msgs`, `follows`, and of the sockets `joined` (in the room of the conversation), `inbox`
(in that of the user's notifications), `known` (went through `chat:join`), `throttle` and `shown`
(typing). A participant has one socket, which enters the notifications' room of its own user only
(clients do no other, the server does not check). `JoinRoom` is the generic join event, which enters
either room unasked; `HandleLeave` and `LeaveInbox` are the ways out, `Disconnect` leaves all.
Sending takes its recipient to be there when a socket of his notifications' room is in the
conversation's (`IsActive`). A handler's parallel calls are the set `left` of its request: they are
made in any order. An unread count is a number, a receipt a number per reader (a race may write
two). `told` is how the recipient learnt of a message. The model has one conversation: the slug of
the pair finds it, and no request touches two.

### Sessions
One `account`, the sessions `handed` out, access tokens `issued` with their second, reset `links`,
the requests `req`. Sessions are numbered, so the oldest is the smallest. A login
reads the account and compares the password with what it read, then resets counters, signs and creates the
session in steps of their own; login or
refresh has the list from its start (`loaded`), reads it again, prunes and extends it (`list`) and writes
it in a later call. `links` are about the address the account begins with; `ChangeAddress` takes it away or
gives it back, and `FindOwner` is the look-up by it, after which a link without an owner is deleted.
`VerifyResetLink` is `verifyMagicLink` given a reset token, which it finds and deletes, since it looks tokens up
whatever their type. `ended`
holds the sessions that went while no request was about to write them back. Hashes and
signatures are left out: a token either names a session or not. `ClearUserSessions` and
`ResetUserPassword` are the administrator's. Left out: `sanitizeRefreshTokens`, which drops list entries of
an older form before a Google login; no handler writes such entries.

### Accounts
`users`, verification tokens `pending`, stored images `objects`, requests `op`. Every request is the
chain of its look-ups, then the write; `Insertable` is the unique index, which alone is checked
with the write; `CheckAgain` is `createUser`'s retry after a duplicate key. `Lower` is `toLowerCase`, and
each handler applies it where the code does: `signup`, `createUser`, `createAgent` and the
administrator's `updateUser` do, a user's own `updateUser` and the Google strategy take the
address as it comes. Look-ups and the index compare spellings.
`AccountsNext` and `SessionsNext` share the scenes and nothing else.

### CatalogRequests, ServiceCatalog, ProductCategories, Extras, Catalog
Collections as sets of rows with an id; a scene starts with rows as the schemas and their unique
indexes allow, none of them made by an implementation. A request is a list of `items` it works through, one
call at a time. Names come with what the code makes of them: `Folded` (lower case), `Form`
(normalised), `Mentions` (its words), `Squeezed`, `Base` (slug). `served`, `claimed`, `built`, `told`,
`answered` and `raced` are history. An offer has no price or duration, an extra costs nothing or
something: nothing here depends on more. `Null` is an explicit null, which `IsOptional` lets through: as the
price or "free" of an extra it is stored. Ids sent may be those of rows deleted meanwhile. Nulls sent for
names and descriptions are left out.

## 4. Runs

| run | question | bounds |
|---|---|---|
| `bq_races` | do concurrent requests keep a queue in order, and jobs its two safety properties? | 1 agent, 2 slots, three scenes: 3 bookings (walk-in, status, reorder, delete), 2 bookings (walk-in, add, status, remove, reorder), 2 bookings with jobs (create, status, population, closing, crashes); requests that raise `__v` start below version 3 (1 with jobs) |
| `bq_overnight` | is a booking left over from yesterday finished? | 1 booking, 2 days, 2 slots, fairness |
| `bq_absent` | documented statement the code breaks | 1 agent, 2 slots |
| `market` | do orders implement a sale in one step, keep stock, stages and revenue, and leave the cart what was not ordered? | four scenes of 2 orders, 2 slots, 1 product with a variant and a total, at most 3 pieces, 2 edits: selling (every basket, every owner and administrator action), moving (status changes, crashes), withdrawing (status changes, the owner deletes the product), shopping (a cart on 2 devices, 3 goods in 2 stores, quantities up to 2, version up to 2) |
| `or_cancelled` | documented statement the code breaks | 1 order |
| `fe_counts` | do the numbers of likes, saves, comments and hashtags agree with their rows, but for the accidents listed? | 2 users (an author and an administrator), 1 content, 2 comments, 1 hashtag, 5 requests that may break off; three scenes: 3 to 4 toggles of two users and a deletion; 2 to 3 edits, a deletion by either or both, a save; 2 comments (one may answer the other), their deletion by either user, the deletion of the content |
| `dc_counts` | do recounted numbers come right again, and do wishes stay counted? | 2 users, 1 product, ratings 1 and 4, 2 requests at once, crashes; one kind of number at a time |
| `ch_messaging` | does a message reach its recipient, and is nothing lost of counts, conversations and tokens? | 2 participants and an administrator, 2 requests, at most 2 messages, 1 device, 2 tokens; 12 scenes |
| `ch_recalled` | documented statement the code breaks | 1 message |
| `accounts` | do limit, end of sessions, links and images survive overlapping requests? | 2 requests, 2 sessions at most, lock after 2 failures, 2 passwords, 2 addresses of which one in two spellings, 1 phone, 1 Google account, 3 seconds; 12 scenes |
| `catalog` | do rows stay unique and suggestions real, and do categories in use stay? | 2 requests, 2 lounges, 3 titles, 4 names chosen to meet in every comparison; 12 scenes |
| `catalog_remoderated` | documented statement the code breaks | 2 administrators, 1 suggestion |

*Why the bounds are enough.* Every property but the liveness one is about the writes of
two operations that overlap; a third slot only repeats what either of two does. Three
bookings are needed for somebody to stand between, before and after the two that move.
Versions matter for being equal or not, and a request that starts below the bound may
pass it, so every pair of stale and fresh copies occurs. One queue is enough where an
operation touches one; `PopulateDailyQueues` over several agents is a loop of the same
steps. Two pieces on sale make some second order the one too many; two lines of one
product are the case the stock check per line misses. The counters grow by
cancellations and deliveries that race, so their bound is above what two orders can give
once each. In `fe_counts` every accident needs two requests at most, and each scene has three or more of
the same kind: two toggles of one user and one of the other, two edits and a deletion, two comments (one the
reply) and two deletions. A second content would be a copy. A request is made once, which five of
them make up for. In `dc_counts` the collections share nothing, so each behaviour takes
one of them; two users review the same product, which gives two writers, a
mean of 2.5 and a store whose number is recounted after the product's. A product with a
lost increment gets no more requests, since nothing is claimed of it. In `ch_messaging` one message
is enough for every handler that changes one; two are needed to mark some and not others.
In `accounts` a third session is the one that the limit pushes out, the third second is the one
after the second of a change. In `catalog` the four names are equal, equal once normalised,
one a word of another, equal once squeezed.

*Fairness (bq_overnight).* `FairSpec` takes: weak fairness of every slot's next step (Node
runs what is ready; database calls return or throw); weak fairness of `DayPasses`; strong
fairness of the stale-booking job, since cron fires it at 00:10 every night and, unlike the
model's job, it does not wait for a slot. Without the last one a model with its slots busy
at every firing would starve it, which the program cannot. Nothing is assumed of requests.

*Deadlock* is checked everywhere: a run may stop only at rest, with no
operation in flight. A step no code path takes would show as a deadlock.

### What the checks show

* Two services never overlap in one queue. It does not follow from the check in
  `updatePersonStatus` (303), which reads a copy, but from the guarded update (305-332),
  and it survives stale whole-array saves because these fail and in-place saves because
  they never write `inService`.
* Whole-array saves are safe: among requests nobody is dropped or overtaken, and a completion is
  final. The population job writes with `findOneAndUpdate` and is not
  covered by these three (its `$push` is guarded against duplicates only).
* `createOrder` checks store and products on a snapshot, and still every order is
  placed in one step at a moment when the store is open and its products are on sale and in
  stock: the transaction's writes to exactly these documents conflict with any change.
* `order.save()` in `updateOrderStatus` writes a status regardless of the present one, yet
  never one whose predecessor the order has not had. Stock and revenue are never below
  what the standing and paid orders need, crashes included; they may be above (a
  cancellation that broke off and was repeated, or two at once, restore twice).
* The cart's version check protects against lost items.
* `likeCount`, `saveCount`, `commentCount` and `postCount` do not agree with their rows in general,
  and every one of them can fall below zero. What holds is that they are off by the sum of the accidents
  of §3 and by nothing else: two likes at once, two edits at once, hiding, and a deletion of the
  target by anybody cost nothing, while two unlikes at once, a deletion that overlaps an edit, a
  reply written while its comment is deleted, and any failure between two calls cost what the
  ledgers say, for ever.
* A recounted number (followers, likes and ratings of a user, ratings of a product and a store)
  may be stale after two requests have overlapped, and stays so; the next request that nobody
  overlaps puts it right. "Recalculated on every follow/unfollow" (FollowsPrompt.md:324)
  promises no more. `wishlistCount` survives every overlap and no crash.
* A message is emitted into a room its recipient has entered, or a notification is stored or on its
  way. Opening a conversation never resets a count, since what it sets it sets on
  insertion only. The pruning of device tokens names the token it removes, and so spares one
  registered meanwhile.
* The limit of sessions holds under every overlap, because every list that is written was pruned by
  the same request. A session that was ended comes back only if another request had read it
  before and writes after. A fresh access token works in the very second of a password
  change, since the comparison is by whole seconds.
* A mailed link works until it is used, superseded or expired, for signups as for passwords; a reset
  link also goes when it is followed while the account has another address, and when it is taken for a
  signup's.
* A suggestion is never marked implemented without what it became; the reverse (a service left
  by a request that failed) happens.

### Findings

Each is shown by the run named; the trace is short enough to be read.

1. `bq_absent`: a no-show writes the booking before the queue, a return to waiting after it;
   interleaved, the person ends absent and the booking `inQueue`.
2. `or_cancelled`: a status change loaded before a cancellation revives the order, whose stock
   has been given back.
3. `ch_recalled`: recalling a message does not touch the conversation's preview, which goes on
   showing its text.
4. `catalog_remoderated`: two administrators read a pending suggestion; one implements it, the
   other rejects it afterwards, though implemented is called terminal.

### Observations without a run

*Booking.* Completing a person sets position 0; removing that person then shifts everybody, so that
the first who waits gets position 0 where the BookingSystem README says 1-based. The population
job saves `inQueue` over a booking cancelled after it had loaded it. A no-show loaded while the
person waited takes a person out of service to absent.

*Marketplace.* A quantity written by index (`cart.service.ts:103`) after `createOrder` pulled the items
(`order.service.ts:141`, an update that does not raise `__v`) leaves an item without a product, which
`cart.model.ts:6` requires and on which `addToCart` then throws. `MarketplaceSystem/README.md:119`
says "one store per lounge"; `store.model.ts:46` has no unique index, and two overlapping
`createStore` requests (`store.service.ts:30`) both insert. Two administrators who implement one
category suggestion under different names make two categories. A rejected suggestion, which
`productCategory.interface.ts:44` calls terminal, can be moderated again.

*Chat.* A message sent while its reader marks the conversation read can lose its place in the
unread count. A generic event of the socket server lets any socket enter
the room of any conversation, or of anybody's notifications.
*Feed.* Two devices that take back one like both lower its count (`post.service.ts:155-168`), which
can pass below zero; a like or comment
inserted while its post is deleted stays; two overlapping reports are both stored.

*Accounts.* Two accounts can have one address in two spellings: `signup`, `createUser`,
`createAgent` and the administrator's `updateUser` store it in lower case (`auth.service.ts:47` says
why), a user's own `updateUser` (`currentUser.service.ts:161`) and the Google strategy
(`passport.ts:120`) as it comes, and the index of the collection tells spellings apart. A resend
that races a signup mails a dead link; clearing an expired code can wipe a newer one. `updateAgent`
with a password, unlike every other change of one, ends no session; an administrator's reset keeps
the lock of failed logins. Two logins can lose a session (the whole list is written);
`updateSessionTrack` is given the list from before the login, so `devices` lags. Deleting a lounge
leaves its agents. Linking a Google account that races a change of e-mail can link it to two users;
a changed e-mail stays verified. Two first uploads of an image leave an object behind.

*Catalogues.* `deleteService` leaves the offers of it. Two toggles of an offer can count once.
`createService` compares one fetched document only (`services.service.ts:53`), so that
similar names pass; `bulkCreate` does not compare at all. `implementSuggestion` writes the status last: if the
lounge has gone meanwhile it throws after the service was made, and every retry finds the
name taken. `checkCategoryUsage` of services takes a count that failed for zero, that of
product categories does not. A lounge's edit of its suggestion may set its status. Titles are
compared in any case, their index is not. Two overlapping updates of one extra can leave a free
extra with a price, and an explicit null one without either; a deleted extra stays adopted.

## 5. Proofs

`tlapm` checks every proof for all values of the constants under the assumptions named in
the modules. These say: bounds are naturals; sets of users, documents, orders and requests are
finite, since sums and cardinalities are about them; `None` is nothing else; there is a variant
a cart may name, a device and a token; an event names an owner and a client that differ
(`createBooking` takes them from accounts of two types); the scene a behaviour starts with has
rows as the schemas and unique indexes allow. TLC evaluates all of them in the runs.

Every safety and action property of a passing run is a theorem. Each proof has the same layout:
an inductive invariant with a name, that it holds initially, a lemma for every action (one step
per part of the invariant the action can disturb), and the theorems.

| module | inductive invariants | properties proved |
|---|---|---|
| `BookingQueueProofs` | `IInv`, `RInv` | `TypeOK`, `AtMostOneInService`, `NoDuplicateBooking`, `NoOrphanedBooking`, `OnlyRemovalRemoves`, `NoOvertaking`, `CompletedIsFinal` |
| `MarketProofs` | `IInv`, `CInv`, `SInv`, `StockBalance`, `RevenueBalance`, `CartInv` | `NoStageSkipped`, `ImplementsCheckout`, `NoStockLost`, `PaidOrdersAreCounted`, `TypeOK`, `MarketTypeOK`, `OnlyRemovalDropsItems` |
| `FeedContentProofs` | `IInv` | `TypeOK`, `MarksAccounted`, `TagsAccounted`, `CommentsAccounted` |
| `DerivedCountsProofs` | `Inv`, `WishInv`, `Rows` | `TypeOK`, `Repaired`, `WishesCounted` |
| `ChatProofs` | `ChatInv` | `TypeOK`, `ReachesRecipient`, `NotOfOneself`, `OnlyReadingClears`, `OpenedIsShown`, `OnlyInvalidPruned` |
| `AccountsProofs` | `IInv`, `AInv` | all eight of `accounts` |
| `CatalogProofs` | `Inv` | `TypeOK`, `ImplementedIsReal`, `FreeCostsNothing`, `UsedCategoryStays` |

*Sums.* A sum over a set is a recursion, and no induction over a recursive definition can be
done here. `Sums` goes around it: the sum of naturals is the number of elements of a union of
blocks, one of `f[x]` pairs for every `x`, and the library's facts about cardinalities do the rest.
From there come the laws that the proofs use: a sum without one index, of two functions that
agree or differ at one index, over fewer indices when the others add nothing, over renamed indices.

*BookingQueueProofs.* First the array operators: `Insert`, `Remove`, `Complete`, `Reorder` and in-place
changes keep the persons well typed, a booking at most once, and create no second person in service.
Neither `AtMostOneInService` nor `NoDuplicateBooking` is inductive: what is
saved comes from a copy in flight. `IInv` adds that every loaded copy is as
good as a stored document, and that the in-place changes an operation carries never say
`inService` — only `StartService` writes it, and it looks at the stored document in the same
call. From it: `TypeCorrect`, `OnePersonInService`, `NobodyTwice`.

Among requests more is true, and `RInv` says why. It speaks of a copy about to be saved whose version
is still the stored one. If the array is written whole, the copy is the stored array `Carried` over:
all are there but who is removed, nobody is past anyone but who is moved, who was
completed is completed. If statuses are written, those persons are completed on neither side. In-place
saves leave the version alone, so they must keep what the copies of others rely on: they do,
since they change no booking, no position and nothing completed (`SameShape`). The three action
properties follow, each from the one step that saves. `NoOrphanedBooking` rests on `Settled`: a
walk-in is in a queue, or its request is about to put it there or delete it. It is claimed
where no request removes a person and none names a status itself (`createBooking` and `updateBooking`
take one from the caller, and may say `inQueue` of a booking that is in no queue).

*MarketProofs: stages and checkout.* `NoStageSkipped` is about the history of an order, while the
status saved was validated against a copy. `IInv` says that the present status is in
the history and that every status change in flight was permitted by some status in the
history; the history only grows, so permission does not expire. `CheckoutImplemented`
(`Spec => ImplementsCheckout`) maps every step of `Orders` to
one of `Checkout` or to a stutter. Only the commit is difficult: what it sells was checked on a
snapshot. `CInv` adds that an order about to be placed is sellable in
the snapshot of its request, is unborn, and is no other request's. The commit's guard says
that the store and the products it writes are unchanged since the snapshot, so it is sellable now; that
no two requests hold one order makes the sale the first of that order.

*MarketProofs: stock and revenue.* A cancellation puts stock back line by line and saves the order
last: for that time a piece is on the shelf *and* in an order that stands. `NoStockLost`, which
counts it once, is therefore not inductive; `StockBalance` counts it twice. For every counter, the
stock and what standing orders demand cover what was on sale and all that requests in flight have
put back. Then saving one cancellation, which takes its order out of the sum, takes its own share
from the other side too, and two cancellations of one order only leave a surplus. `RevenueBalance`
is the mirror image: revenue covers the orders paid and those whose delivery is counted and not yet
saved. Both rest on `SInv`: what a request has still to restore is part of what its order demands,
and what it is about to count is all of it. With these the types follow too: a sale takes what is
there.

*MarketProofs: the cart.* `MarketOrders` shows that the store within `Market` behaves as `Orders`
alone. `CartInv` says of a copy about to be saved whose version is still current that the stored
cart holds nothing the copy lacks, but what its request takes out (`Covers`); a copy of another
version fails its save or writes by `$push` or by index, which drop nothing. The pull of an order
leaves the version alone and only makes the stored cart smaller. From it: `MarketTyped`,
`RemovalDrops`.

*FeedContentProofs.* That row and counter agree is broken by every request for the time between its
calls, and by accidents for ever. `IInv` holds in between too. It is a balance for every number: the
number and what requests still have to add are the rows, what requests still have to take, and the
drift (`MarksBalanced` for each target and kind of mark, `TagsBalanced` for each hashtag,
`CommentsBalanced` for each content). What requests have still to do is a sum over requests
(`Sums`), and a step moves one summand; each action is shown to move both sides alike, and the steps
at which they part are exactly those that write to a ledger. Requests that have nothing to do with a
number are dealt with once (`MarksAside`, `TagsAside`, `CommentsAside`). Besides, `Ground` has what
the balances rest on: rows and comments are finite, nobody has two of one mark (`Mark` inserts under
the unique index), rows and comments are about content that was there. When no request is between
its calls both sums are zero, and the balances are the properties: `MarksRight`, `TagsRight`,
`CommentsRight`, with `TypeCorrect`, for any number of users, requests, administrators and failures.

*DerivedCountsProofs.* `Repaired` speaks of numbers nobody works on. The invariant follows a
request: a number somebody has still to write is `Pending`, one taken and not yet written is
`Measured`. A number that is pending nowhere is right unless disturbed; a number measured by
somebody who is alone with it is right; two are never alone with the same number. Three lemmas
cover the ways a request moves (begins, changes its row, counts or writes), each action is one
of them. What a mean is plays no part in it: that proof only uses that a number depends on the rows that
count for it. `WishesRight` is a balance: `wishlistCount`, with what requests have still to add
and without what they have still to take, is the number of wishes (`WishInv`). Since only the request that
really inserts or deletes the row goes on to count, no overlap disturbs it. For `CountsTyped`,
`Rows` says that a review about to be saved is there until somebody deletes it (a row is complete or
absent), and `Sums` that a mean of naturals is one.

*ChatProofs.* `ReachesRecipient` is about requests that are over; `ChatInv` follows one: a message not
yet told of belongs to a request before its look at the room (`About`), and once
it has asked for a notification, the call or the notification names the recipient. That nobody is told of
themselves needs two facts: `create` drops a call to its actor, and no call without an actor names somebody who
acted (`Proper`), which is proved event by event. Counts start at zero
because a conversation that does not exist has none (`Fresh`): an upsert that inserts resets nothing.
`OpenedIsShown` and `OnlyInvalidPruned` are shown step by step from the types.

*AccountsProofs: sessions.* `SessionLimit` is about the list stored, and what is stored is a list
that a request made in an earlier step from one it read. `IInv` therefore says of every list about
to be written what it says of the one stored (`Limited`: its size; `Ended`: nothing in it has been
ended), that a session somebody is about to add is in no list, ended or anybody else's (`Fresh`),
that tokens signed since the last change of the password are not dated before it (`Signatures`), and
that a link about to be mailed is stored or gone for a reason (`Mailing`). From it: `LimitKept`,
`EndedStays`, `FreshTokenAccepted`, `MailedLinkStored`, for any limit, number of requests and course
of the clock.

*AccountsProofs: accounts.* `AInv` has a part for each property, and `Distinct` for all of them (a user's
number names one document): `Promised` (as `Mailing`
above), `Single` (also of signups about to store a link: two of the same address, or one with a link
there, have been noticed as overlapping), `Imaged` (an image belongs to one user; one about to be shown is
stored and nobody's yet; one being replaced belongs to the user of that upload). Most steps disturb none
or one of them: `SameUsers`, `LinksAside` and `ImagesAside` say what a step leaves alone, one lemma each
shows what then stays true, and only the steps of the links and of the images are argued one by
one.

*CatalogProofs.* `Inv` has a part for each catalogue and says, besides types and unique keys, what a request in
flight has behind it: one that is about to mark a suggestion has made the service and the offer,
or the category, that it will name; one
that is about to drop a category knows of every member but those that came since its count; one that writes
an extra has checked name, price and "free" of the extra as it is, or the extra
has been noticed as raced. A step of one request leaves the others what they were, but for the
late-comers noted in them (`Follows`); one lemma per catalogue shows that this, and
rows that only grow, keep its part. The steps that write rows are argued one by one.

*Only model-checked:* `StaleBookingsAreCompleted`, a liveness property under fairness. What the code
breaks (the four runs that expect a violation) is shown by traces.

## 6. Not modelled

Marketplace analytics, feed and search, and the other queries change no state. Reports are one
look-up, one insertion and an overwritten status. Stores are created by a look-up and an insertion,
products by an insertion; their images, and those of posts, are calls of the object storage. Opening
hours and profiles of lounges, names, themes and locations of users are fields written by one call
and read by no modelled decision. Sockets other than the rooms of conversations carry messages
that tell a client to read again. E-mail delivery, FFmpeg, hashes and signatures, the HTTP layer and
its validation are input and output; start-up matters in one way, that every process
starts the jobs, which the models keep. `PROJECT.json` lists every part with its reason, and every
hazard known in the code with the property that covers it or the reason why none does.
