# CancelChain in TLA+

CancelChain shows a wallet the subscriptions it has granted on Solana, lets it
cancel them, and tells it what merchants charged. This directory models the parts
of the program whose correctness depends on order, failure and concurrency, checks
them with TLC on small instances, and proves the most important results with TLAPS.

    tlc -config <file>.cfg <module>     one of the runs of section 3
    tlapm <module>_proofs.tla           the proofs of a module

`PROJECT.json` has the components, the runs, the lines of source each definition
stands for (`map`), for every property the change of the code that breaks it (`mutants`),
and the hazards, each at its line with the properties that cover it.

## 1. The system

| Component | Source | State it keeps | Modelled in |
|---|---|---|---|
| Log loop | `apps/indexer/src/subscribe.ts` | `last`, recent signatures, read failures, sweptOnly, serial queue | `IndexerLoop` |
| Store | `apps/indexer/src/store.ts` | tables `allowances`, `events`, `indexer_cursor` | `Store`; partly |
| Push notifier | `apps/indexer/src/notify.ts`, `packages/push/src/send.ts` | `push_deliveries`, the running pass | `Notifier` |
| Wallet poller | `apps/indexer/src/poll.ts` | a cursor per address, `watched_wallets.synced_at`, known wallets | `WalletPoller` |
| Retention | `apps/indexer/src/retention.ts` | `events_retention` | `Feed` |
| Worker | `apps/indexer/src/worker.ts` | timers, live flag | folded into `IndexerLoop` and `Notifier`; partly |
| Decoder | `apps/indexer/src/decode.ts`, `packages/chain/src/events.ts` | none | `Decoder` |
| Rejection reasons | `packages/shared/src/reasons.ts` | none | `Decoder` |
| Change listener | `apps/api/src/listen.ts`, triggers of `packages/db` | the LISTEN connection, the probe | `LiveFeed` |
| Stream hub and route | `apps/api/src/stream.ts`, `routes/stream.ts` | open streams, each with an outbox | `LiveFeed` |
| Browser stream | `apps/web/src/lib/stream.ts`, `streamCache.ts`, `slotFloors.ts` | the EventSource, cached answers, slot floors | `LiveFeed` |
| Read API | `apps/api/src/routes/allowances.ts`, `feed.ts`, `packages/chain/src/read.ts` | none | `ReadApi`, `LiveFeed`, `Feed`, `WalletList`; partly |
| Push settings | `apps/api/src/routes/push.ts`, `apps/web/src/lib/push.ts`, `usePush.ts` | `push_subscriptions`, the browser's list of wallets | `PushSettings` |
| Rate limit | `apps/api/src/rateLimit.ts` | hits per client in a window | `Gate` |
| Sign-in | `apps/api/src/auth.ts`, `packages/chain/src/signin.ts` | nonces; tokens | `Gate` |
| Cancel flow | `apps/web/src/chain/revoke.tsx`, `packages/chain/src/revoke.ts` | the step of one cancellation | `CancelFlow`, `Lifecycle` |
| Subscribe flow | `apps/web/src/chain/subscribe.tsx`, `lib/subscribeReview.ts` | the offer shown, the step | `SubscribeFlow`, `Lifecycle` |
| Service worker | `apps/web/public/sw.js`, `lib/staleBuild.ts` | the cached shell | `ShellCache` |
| API process | `apps/api/src/index.ts`, `supervise.ts`, `migrate.ts` | its indexer, the migration lock | `ApiProcess` |
| Merchant simulator | `tools/merchant-sim` | the state file of the demo | `MerchantSim`, `Demo`; partly |
| Plans, merchants, health routes | `apps/api/src/routes` | `plans` | `ReadApi`, `SubscribeFlow`; partly |
| Pages | `apps/web/src/pages`, `lib/view.ts` | what is shown | `WalletList`, `Lifecycle`, `LiveFeed`; partly |

How they interact. The program's history on the chain is the source of truth. The
log loop turns it into transactions, in order, and hands each to the store, which
reads the touched permissions from the chain and commits their rows, the feed rows
and the cursor in one database transaction. A stored event asks the notifier for a
pass; the notifier asks the store to refresh what it is about to announce. Triggers
in the database notify the API's listener, which tells the open streams of the
owner; the browser then reads again through the API, which may ask the chain for an
answer at least as new as the slot it was told. Cancelling and subscribing go from the
browser to the chain directly, and are confirmed by reading the chain through the API.

What is hard here:

* *Completeness.* Three sources of the same transactions (stream, catch-up, sweep)
  share `last` and the memory of what was handled; any step that moves `last` or
  the cursor over an unhandled transaction loses it for good, and nothing would show.
* *Stale reads.* Everything that is stored about a permission was read from a node
  before the database transaction that stores it, while others commit; and everything
  a page says was read before it is said.
* *Overlap.* A rolling deploy runs two indexers, or two API processes, on one database
  for a while; two tabs share one browser's storage; calls of one page overtake another.
* *Doubt.* A push, a commit, a transaction or a request may have happened although its
  answer is lost.
* *Limits.* Retry counts, page caps, scan limits, outboxes and the memory of signatures.

What makes each component correct:

* log loop: nothing behind `last` or the cursor is unhandled; while the connection
  is called live nothing goes missing; everything is eventually handled and a dead
  socket is replaced;
* store: a row is what the chain said at the slot it carries, and never goes back;
  the feed leaves out only permissions that were closed or unreadable; the cursor
  covers only what was written; a caught-up cache agrees with the chain;
* wallet poller: no cursor and no `synced_at` covers a transaction that was not dealt
  with; a wallet that comes back shows what it holds; a watched wallet is read to the head;
* notifier: at most one push per browser and occasion, no claim without a push, no
  announcement for a permission whose closing every node knew when the pass began, no requested pass
  forgotten, every refusal eventually pushed;
* live path: a page that says it is live shows what is stored, or says that reading
  failed; no answer from before an announced update replaces a list on the screen;
* decoder: the events of a transaction say what became of the permission, each charge
  once, a refusal with a reason that was true, or a problem is reported;
* feed and retention: no event twice, none left out between two pages, none of an earlier
  permission at the same address, "that is everything" only where it is;
* cancelling: gone means gone, a stop date is the chain's, and the figures on the card
  bound what can still be charged;
* subscribing: the subscriber ends up with what the screen showed, and done means subscribed;
* simulator and demo: a verdict is what became of the transaction; runs that are cut short
  and repeated leave one whole show;
* push switch: it speaks of the connected wallet; on means subscribed under the server's
  key, off means no push;
* app cache: a cached page can always be opened, and never reloads itself for ever;
* gate and process: no client over its limit, one token per signature, the plan's name is its
  owner's; one schema, applied once, and every start and stop ends.

## 2. The modules

A module is one component, parameterised by constants, with one action per operation. Most
are checked by themselves. Four are composed of others: `Lifecycle` (cancelling, charging,
subscribing over one chain, and the demo), `History` (decoder, feed, list), `Browser` (push
switch, app cache) and `Service` (process, gate). Where the parts of a composition share no
state a variable `scene`, chosen by `Init`, says which one a behaviour follows: a product of
independent parts has no interleaving that matters, and every disjunct of `Next` still runs.
`CancelFlow`, `MerchantSim` and `SubscribeFlow` do share state, the chain of `Program`, and
in a scene all of its actors interleave.

### `IndexerLoop` (with `MCIndexerLoop`, `LogFollower`, `IndexerLoop_proofs`)

A transaction is its position in the program's history; `Slot` maps it to its slot,
which neighbours may share, because `last` and the cursor are compared by slot and
not by signature. Actions and code:

* environment: `Land`, `SocketFails` (the socket goes silent, or ends, losing a tail
  of what it had sent);
* the main loop, by `pc`: `Anchor`, `ConnectFails`, `Subscribe`, `Deliver`,
  `StreamEnds`, `Closed`, `Reconnect` are the awaits of `runIndexer`;
* `WatchdogDrops`, `WatchdogSweeps`: an interval of `watch` has passed;
* the serial queue: `running` and `waiting` hold the task being run and the one behind
  it (loop and watchdog await what they queue, so there are never three). `List`,
  `NextItem`, `ItemFails`, `ListFails`, `BatchDone` are the steps of a catch-up or
  sweep, `HandleNote`, `HandleFails` those of one notification;
* what one call of `handle` does is an operator per outcome: `AlreadyHandled`,
  `ReadAndStored`, `NotServed`, `GivenUp` return, `Refused`, `ReadFailed`,
  `SinkFailed` throw. `SinkFailed` commits or not: the answer may be lost. `NotServed` is
  ten answers of `null` to any transaction, readable or not;
* `Crash` restarts from the persisted cursor with an empty memory; a graceful stop is
  one of its cases.

Every await of the code at which another callback may run is a boundary between two
actions. Time is not measured: a sweep interval passes between any two steps of the
watchdog, so every entry of `sweptOnly` is overdue at the next one. `Bad` are the
transactions that cannot be read; reading any other fails only as a `Fault`, of which
a behaviour has at most `MaxFaults`. The history variable `against` counts what speaks
against indexing a transaction: failed reads up to `READ_ATTEMPTS`, or as much at once when the
node answered `null` or a catch-up at its cap left it out. `Reliable` says that the stream drops nothing in
the middle and keeps the order while the socket works.

`LogFollower` is what the loop promises, whatever it reads the history through: each
transaction after the anchor enters the feed, or a report of what was not indexed,
and is not passed over. `IndexerLoop` implements it with `indexed <- stored` and
`reported <- skipped \ stored`.

### `Store` (with `MCStore`, `Store_proofs`)

Transaction i is in slot i; the permissions are one wallet's, in one mint, on one
plan, so that a closed authority and an updated plan touch all of them. A write is
`BeginWrite` (collect the permissions the transaction names, or those the cache holds
under a closed authority or an updated plan), one `ReadChain` per permission at
whatever slot the node answers from, and `CommitWrite`, one database transaction.
The notifier's refresh is `BeginRefresh`, the same reads, and `CommitRefresh`.
`Restart` resumes at the cursor, `Abandon` is a call that threw. `Writer` may hold two
indexers. `paused_at` is written nowhere in the code and is left out. A permission's
row carries its status and `last_slot`; the amounts are not modelled.

### `Notifier` (with `Notifier_proofs`)

Occasions are numbers, the refusals before the charges due; a job is an occasion for
one browser. A pass is `Scan`, `Refresh` (when a charge is due), then per job `Skip`
or `Claim`, `Send`, `Settle`, and `PassDone`. `Run` is the folding of calls that
arrive during a pass. `PassFails` covers everything that throws out of a pass, among
it the foreign key of a claim whose subscription was removed by its browser in the
meantime; `Crash` is the end of the process. Both leave a claim in hand as it is. The
two scans of a pass are one step, since what happens between them is what may happen
before a claim. Rows of a scan are taken in the order of their numbers; the charges
due have no order in the code. Which charge is about to be due is the environment's
choice (`ComesDue`), as is that time passes (`Expire`). The refresh asks for no minimum slot
(notify.ts:255, read.ts:609-614), so `Refresh` takes the permissions of some node: those in `behind`
were closed a moment ago and a node may still call them open, until `NodesCatchUp`.

### `WalletPoller` (with `MCWalletPoller`, `WalletPoller_proofs`)

The fallback without a socket. A round is `BeginRound`, and per watched wallet
`BeginWallet`, for one that was not known `ListPermissions` and `RefreshListed`, then
`Addresses`, one `Collect` per address, one `Store` per transaction, one `Advance` per
cursor, and `Synced`; each is an await of `pollWallet`. `PollFails` is any of them
throwing, `Crash` a restart without the memory of known wallets. `SeenAt` says at which
accounts a transaction is listed: cancelling and revoking carry no authority, which is why
the permissions themselves are asked for. Streams come and go (`Watch`), transactions grow
older than the retention cut (`Age`), and the notifier refreshes rows at any time. The
reads and the commit of one `store.write` are a single step: `Store` has them apart, and its
theorem `RowsTrueAlways` is what that step relies on. Only permissions matter that the cache
may hold, so plans are left out; so are the order of transactions within one slot, a node
that lists less than it has, and a second poller on the same database.

### `LiveFeed` (with `LiveFeed_proofs`)

From the database's triggers to one open page of one wallet with one permission, whose state is the slot
that made it; `row` is what is stored and `feed` counts what the stored feed answers. `Database` (`Change`,
`StoreWrite`, `StoreRefresh`, `StoreFeed`) is the indexer; `Session` the LISTEN connection, which closes,
goes deaf, is probed and listens again with a resync; `Server` the hub's serial queue (`Handle`, `Deliver`,
`RowReadFails`) and the event stream with its outbox (`Write`, `Abort`, `ApiRestarts`); `Browser` the
EventSource with its watchdog; `Page` the gathered re-reads (`Flush`), the two reads (`ReadStore`,
`ReadNode`, `NodeBehind`), their failure and `Settle`, and the switch to another wallet and back. Delays are
abstracted, their order is not: a heartbeat is long next to the delivery of a message on a connection that
works. `overtaken` marks a change that arrived during the page's first read, which the re-read then joins
(streamCache.ts:71); `behind` an answer of a lagging node to a read that carried no floor.

### `Program`, `ReadApi`

`Program` is the chain as the code uses it, and is marked external in the map: an account, its
plan, the subscriber's authority and purse, transactions in flight, a clock, and nodes that may
answer from a little earlier (`recent`). Its rules are those that `packages/chain` and
`packages/shared` build on. `ReadApi` is what becomes of an answer on its way to a person:
`decode.ts` and `read.ts`, the API's reconciliation with its cached row, the card of the page,
all as operators without state.

### `CancelFlow`, `MerchantSim`, `SubscribeFlow`, `Lifecycle` (with `Lifecycle_proofs`)

`CancelFlow` is the card a person reads (`Show`) and the cancellation: `Click`, `Check` (a second
look at the chain), `Prepare`, `Sign` or `Decline`, `Confirm` with its attempts, and `Again`, the
resumption. The browser's clock may be off by one. `MerchantSim` is one charge or plan creation:
`StartCharge`, `StartPlan`, `Send` (refused, passed on, or cut off after it was passed on) and
`Poll` up to its verdict. `SubscribeFlow` is the offer with the transaction it stands for, the
second reading at the click, the signature and the confirmation. `Lifecycle` composes them:
scene `subscriber` (a person and a charging merchant), `merchant` (the command line, on a
permission that its owner and the plan's owner end), `newcomer` (subscribing), `demo` (below).

### `Demo`

`demo prepare` and `demo charge`: a command line that builds the show's world, may be cut short
at any await (`Cut`), gives up on a transaction that then lands (`GivesUp`), and is run again on
what it finds, by a file that may be lost and a node that may be behind, while the owner cancels
and subscribes. Its addresses are numbers that are given once.

### `Decoder`, `Feed`, `WalletList`, `History` (proved in `Service_proofs`)

`Decoder` runs a transaction of one or two calls, direct or through another program, as the runtime does,
gives the node's report of it, perhaps without balances and with its log cut short, to `DecodeTransaction`,
and its rejected charges to `ClassifyRejection`. An event keeps the place of the line it was read from, so
what is decoded is a function on some of the places of the report, and what the stored events say last is
said at the greatest of them. `Feed` is the stored history of one address: events are inserted while up to
two workers delete what is too old in batches and record the cut, and a reader asks for pages of up to
`PageLimit` events, each of several queries. `log` is what happened on the chain, in its order, and `filed`
what was stored of it, in any order, since catch-up and the poller come to older transactions after newer
ones (feed.ts:26-27). The indexer starts anywhere in the log (`start`). What is stored gets a place in the
order of the feed: slot, position in the transaction, row id. Two transactions of one slot may tie in the
first two, and the bound of a permission is read without the third (feed.ts:96-112), so an event before the
creation may pass it. A page is a set of places. `WalletList` is the list of a wallet's permissions on one
tab, with the copy kept in the browser's storage that another tab also writes. `History` composes the three.
None depends on what another says, so `part` names the one a behaviour follows; the feed is followed twice,
as `pages` (a reader, and passes of retention one at a time) and as `cuts` (passes that overlap).

### `PushSettings`, `ShellCache`, `Browser` (with `Browser_proofs`)

`PushSettings` is the switch, `lib/push.ts` and the API's rows. A call of the controller is a
record with the place it waits at (`Places`), so that calls of several wallets interleave;
requests land or do not, and their answers come or are lost, independently. `ShellCache` is
`sw.js`: a page, its list of files and the files of a build, refreshed behind a visit by up to
two refreshes at once, while deploys take old files off the server; the worker may be killed and
the cache dropped; and a tab reloads once when a lazy screen is gone.

### `ApiProcess`, `Gate`, `Service` (with `Service_proofs`)

`ApiProcess` starts overlapping processes of releases that carry different numbers of migrations: take the
lock, look, apply, unlock, index, serve, and shut down by a signal or because the indexer ended. A stream's
client may stop reading (`Stalls`): the stream then waits in its write (routes/stream.ts:123-130), and when
it is told to end it does so only after that write (`told`, `Drains`). `Gate` is the sliding window of
`rateLimit.ts` with its sweep and Retry-After, and the sign-in: freshness, the nonce, the token, and the one
row a merchant may write with it.

## 3. The runs

| Run | Asks | Instance | States, time |
|---|---|---|---|
| `loop_safe` | `TypeOK`, `NoSilentGap`, `CursorComplete`, `LiveMissesNothing`, `Follows` (the loop implements `LogFollower`), `Recovers` (every transaction is stored, or one of three reasons not to was there; a dead socket is replaced) | a reliable stream, with fairness | 288 k, 112 s |
| `store_one` | `TypeOK`, `FeedMissesOnlyClosed`, `CacheFollows` | one indexer, the notifier, a node that is never behind | 441 k, 26 s |
| `store_two` | `RowIsChainState`, `RowsOnlyAdvance`, `CursorCovers` | two indexers, the notifier, a lagging node | 479 k, 34 s |
| `push` | `AtMostOnce`, `ClaimsHold`, `NoPushForClosed`, `EverythingGoesOut` (no requested run forgotten, every refusal pushed) | two indexers, a lagging node, with fairness | 558 k, 160 s |
| `poll` | `TypeOK`, `CursorCovers`, `SyncedMeansRead`, `ListTrue`, `KeepsUp` (what lands is read; one wallet's failure does not keep the other from being polled) | two wallets, one permission, with fairness | 1.3 M, 162 s |
| `live` | `LiveIsTrue`, `NeverOlderThanUpdate`, `LiveStreamKept` (no stream that carries something is replaced), `EventuallyShown` (one that carries nothing is, and what is stored reaches the screen) | one wallet, one page, one failure of any kind, with fairness | 806 k, 136 s |
| `lifecycle` | `CancelHolds`, `FiguresHold`, `VerdictTrue`, `SubscribeHolds`, `ShowHolds` | four scenes | 2.4 M, 121 s |
| `history` | `EventsTrue`, `PagesTrue`, `ScreenTrue`, `CutNeverBack` | four parts | 1.6 M, 89 s |
| `browser` | `PushHolds`, `ShellHolds`, `BrowserSettles` | two wallets, three versions, with fairness | 930 k, 122 s |
| `service` | `SchemaHolds`, `GateHolds`, `ProcessesEnd` | three processes, two clients, with fairness | 244 k, 102 s |
| `subscribe_again` | violation: `DoneMeansSubscribed` for a wallet that cancelled before | one newcomer | |
| `list_nobody` | violation: `NobodyMeansReadNow` | one wallet, one change | |

A property that is a conjunction (`CancelHolds`, `EventsTrue`, `PagesTrue`, `ShellHolds`, ...) names
its parts in the module, each with its comment and, in `PROJECT.json`, a mutant of its own.

Bounds, and why they are enough. Every action of every module fires within them, and every
property, and every part of one, is broken by a small change of the code (the mutants).

* The log loop runs on five transactions with slots shared by neighbours, one of them unreadable, the code's
  read limit of three, a catch-up cap of three that a gap exceeds, a memory of recent signatures smaller
  than a catch-up, and three faults: enough to give up a readable transaction, or to combine a dead socket
  with a failed read and a crash.
* The store has two or three permissions, one of them unreadable, and three or four transactions: a
  creation, a use, a closing and one more.
* The notifier has a refusal and a charge for one browser, so a subscription found gone for the first is met
  again for the second.
* The poller has a list cap of one for two transactions, one of them unreadable, and one failure, which may
  be a half-stored wallet, a refused round or a restart.
* The live path has one change of the chain, one of the feed, a node one slot behind, an outbox of one
  message and one stream, so that each queue overflows; the theorems cover larger ones.
* A permission's life has a period of 2 and a clock up to 3, so that a cancellation, its stop date and the
  next period all fit; two transactions, so that a cancellation races a charge; two attempts of each retry.
  A newcomer has two units of time and two versions of the terms. The demo has two runs and one change by
  its owner: a cut-off run, and the run that finishes its work.
* The decoder has transactions of one and two calls. The feed has three events (`MaxEvents`) on a page limit
  and a batch of one, so that each page, and each cut, is several steps; an event follows in a new slot or
  in the slot of the one before it, at one of two positions, which is what a tie needs. In the list, one
  wallet's answer may lack an account that cannot be read (`Short`); the other's lists are whole.
* The browser has three calls of two wallets on two endpoints, one loss and one change of the world; and two
  refreshes over three versions with one hitch.
* The service has three starts of two releases, a window of four ticks with a limit of two, and a clock of
  seven: a full window, its end, and a retry after it.

Checking for deadlock is off where the bounds make the model stop: when the bounded chain, the
faults and the work are used up, so does the program until something happens. `loop_safe` does
not need that.

Fairness. The loop, notifier, poller, live path, browser and service state it; `Store`, `Lifecycle`
and `History` have safety properties only. `IndexerLoop` is weakly fair to the steps the event loop
itself owes: the awaits of the main loop, the watchdog's timer, the queue and the socket's
callbacks. `Land`, `SocketFails`, `Crash` and the faults are not obliged to happen. In
`Notifier` the timer and a pass that was begun go on (weak fairness), and a push service
that is offered a push again and again accepts one (strong fairness): without that,
`unreachable` could be its answer for ever. `WalletPoller` is weakly fair to its own next step.
`LiveFeed` is weakly fair to timers, queues and requests of running processes, and strongly to
`Connect`: a server that runs answers one of the attempts before the watchdog ends it. `Browser` is
weakly fair to the steps of a call, or of a refresh, that wait for no person; `Service` to a process's
own steps. Streams, the chain, persons, clients, the host and failures owe nothing.

### What the code does differently from what is said of it

Kept as runs that must find the violation:

* `subscribe_again`: after the signature the page reads the subscription and takes any answer but
  null for its existence. For a wallet that held this plan before, the API answers its cached
  revoked row, so the page says "subscribed" although the transaction was dropped.
* `list_nobody`: a page opened with an empty saved copy says that nobody can charge the wallet
  before the network has answered; `EmptyList` is not told that the list is a saved copy.

Met while modelling or proving, and kept in words, with the constant or operator that shows it:

* log loop: a notification the stream dropped is found by a sweep only if no later one is handled first, for
  `handle` moves `last`, from which the next sweep asks (`Reliable = FALSE` violates `NoSilentGap`). With
  `InitialTx = 0` there is no anchor, and neither a catch-up nor a sweep runs until the first notification
  has been handled. A readable transaction is given up for good after `READ_ATTEMPTS` network errors without
  an HTTP status (subscribe.ts:221-240), after one reading in which the node answered `null` ten times
  (199-217), or beyond the cap of a catch-up: `EveryTransactionHandled` asks that one of the three was
  there, not that the transaction was unreadable. A sweep queued before a notification was taken can enter
  its signature in `sweptOnly` after the stream delivered it, and the healthy connection is dropped one
  interval later; nothing is lost by it.
* store: the read of a write asks for no minimum slot. If the node that answers has not seen the creation,
  no row is made, the creation is left out of the feed and the cursor moves on (`MaxLag > 0` violates
  `FeedMissesOnlyClosed`). The permissions under a closed authority are those the cache does not hold as
  revoked, and a refresh, or a write that read the chain after the closing, has already marked them. With
  two writers a closing that finds no row leaves no slot behind, and an overlapping indexer inserts its
  older open read (`CacheFollows` needs one writer).
* notifier: the refresh before an announcement asks for no minimum slot, so a node behind the closing lets a
  charge of a closed permission be announced; notify.ts:252-254 takes its answer for "what the chain showed
  open". `NoPushForClosed` is about the closings that no node has missed (`behind`). A push that timed out
  gives its claim back though the service may have accepted it (`LostAnswers = TRUE` violates `AtMostOnce`).
  `LIMIT` is applied to the charges due before those already sent are dropped, so sent rows can fill it. A
  refresh that throws ends a pass before the refusals it had already found are delivered.
* poller: the addresses of a wallet are its authorities and the permissions whose row is not revoked, so the
  revocation of a row that a refresh already marked is not asked for again. One that grows older than the
  retention cut before its permission's address has a cursor is never collected, and the row stays active
  until something refreshes it (hence `Settled`). A permission created between two rounds is itself asked
  for in the second round only.
* decoder: when a failed transaction holds two charges, the one that was rolled back is recorded as rejected
  too (decode.ts:583-611); a refusal of a layout this build does not know is dropped without a word
  (decode.ts:585), where a success of one is reported (188-191).
* live path: slotFloors.ts:6-11 and streamCache.ts:9-14 say that a re-read after an update answers no older
  than it. An update that comes while the page's first list is being read joins that read
  (streamCache.ts:71, `invalidateQueries` of a query without data), which was sent without a floor; an
  answer from before the update is shown and stays until the next message. `overtaken` marks it;
  `NoSilentGap` and `ReachesScreen` exclude it by name, and `NeverOlderThanUpdate` speaks of what replaces a
  list that is shown.
* feed: as long as the indexer has not stored the newest creation, the pages show the permission before it,
  and events of the new one among them (`OnlyCurrent` speaks of the newest creation stored, and of the
  chain's once none is missing). An earlier permission's event in the same slot as the creation, at the same
  or a later position of its transaction, passes the bound, which has no id. A request that meets an
  unfinished cut takes the oldest event left for the creation's neighbour (`torn`), and a last page that
  comes back empty after pruning leaves "that is everything" under a list that does not end with its
  creation (Subscription.tsx:477, 433-436; feed.ts:134). Both are excluded by name from `OnlyCurrent` and
  `EndNamed`.
* list: a page that opens with a saved copy while the API is slow, and switches to another wallet and back,
  forgets that the list is a copy, and the header says it was read from the network
  (useAllowances.ts:82-84); with two tabs a difference counted against older data is not counted again
  (87-96). `CopyIsSaid` and `DifferenceTold` are therefore stated of the first wallet a page shows, and
  `DisconnectForgets` of a browser in which no other tab still shows a wallet. The branch of `EmptyList` for
  a stale list is never taken: the list route always answers `stale: false`.
* push switch: an old status call cannot tell a key that changed and changed back, and clears the list for
  every wallet; the DELETE of an endpoint left behind by a reload removes a later wallet's row. `crossed`
  names the wallets whose change met another call of theirs, `met` a change of the world under a call.
* app cache: without the code's guard two refreshes of different versions mix. With it, two refreshes that
  switch at once, or a worker killed between list and page (`torn`), can still leave an open tab without its
  screens. staleBuild.ts:4-5 ("one reload draws the version the server has now") is not so when an old
  cached page is served again, and "once per version" (7-10) only until what a load draws changes (`raced`).
* process: index.ts:255 ends the streams so that they do not keep `server.close` waiting. `hub.close` only
  sets a flag in each (stream.ts:137, routes/stream.ts:91-94): a stream that waits in `writeSSE` for a
  client that does not read (126-129) stays open, and with it the process, until the client reads or leaves
  (`told`). A stream request answered after `hub.close` keeps it until its client leaves (`late`).
  `StopsEnd` excludes both by name.
* sign-in: the used nonces are in the memory of one process (auth.ts:125-136), so a signed message can be
  exchanged again after a restart, or at another instance; the code says the second. The model restarts no
  process of `Gate`, and `OneTokenEach` is not stated of signers whose clock is ahead.
* simulator: a plan creation with preflight that was cut off after it was forwarded is called not sent
  (plan.ts:411-420), though it may land. With a node that is behind, a repeated `demo prepare` grants a
  second permission, for the state file is ignored where the list lacks it (demo.ts:213-222; `hasty`), and a
  charge made before its permission is final is charged (`early`).

## 4. The proofs

Each holds for every value of the constants that the assumptions of its module allow. An invariant
is seldom inductive as it stands; each proof strengthens it with named parts that sit in the
model's own module, under "Why it holds", were checked by TLC on the module's run before they were
proved, and have one step per action in the proof. `Invariance` (or the theorem named below) is the result
the others are corollaries of.

**`IndexerLoop_proofs`**: on a reliable stream over a chain with a transaction to anchor at (`Reliable`,
`InitialTx # None`), `TypeCorrect`, `NoGap`, `CursorHasNoGap`, `LiveIsComplete` (`TypeOK`, `NoSilentGap`,
`CursorComplete` and `LiveMissesNothing` are invariants) and `ImplementsFollower` (the loop implements
`LogFollower`). `NoSilentGap` alone is not inductive: `last` jumps to whatever is handled next, so
what is about to be handled must itself have no gap before it. `IInv` adds

* `Control`: which tasks the queue can hold at each `pc`, and that a closed or aborted
  connection has nothing in flight;
* `Ranges`: everything remembered lies between the anchor and the tip, and a signature in
  `recent` is handled;
* `Covered`: before an announcement, present or still to come, everything is handled, in
  flight, in hand, or still to be done by the running catch-up. This is where the order
  "subscribe first, then list" is used: what the listing has not seen will be announced;
* `Complete`: there is no gap up to `last`, the cursor, the item a batch is at, and the
  notification in hand.

`ImplementsFollower` shows that handling an item is `Index`, giving it up or leaving it beyond the cap
is `Report`, and every other step a stutter.

**`Store_proofs`**: for every number of permissions, indexers and transactions and every lag of the node,
`TypeCorrect`, `RowsTrueAlways`, `CursorSafe`, and `RowsNeverBack` (the action property
`RowsOnlyAdvance`). A row is written from a read made some time before, so `SInv` says of the reads in
hand what the theorems say of the tables: `ReadsTrue`, `WriterCovers` (what a writer has behind it
is written, so that its next commit may move the cursor), `Reading` (a running write has read, or
has still to read, each permission its transaction names, no earlier than that transaction) and `Fed`.
For a node that is never behind, `FeedComplete` (`FeedMissesOnlyClosed`). For one indexer on such a
node, `CacheIsCurrent`: `CacheFollows`, that a caught-up cache agrees with the chain and what was seen
closed stays so; its invariant is `FInv`. Both conditions are needed, section 3 says why.

**`WalletPoller_proofs`**: for every number of wallets, mints, permissions, transactions and failures,
`TypeCorrect`, `CursorsSafe`, `SyncedSafe` and `ListsTrue` (`ListTrue`: a row of a wallet that was read since
is not active after its permission was closed, and an open permission has its row). The cursors move only at
the end of a poll, to what was collected at its beginning, so `PInv` adds `HeadsCover` (of what an
address showed up to its collected head nothing is missing that is not in hand), `Collected` and
`AllCollected`. `ListsTrue` adds `LInv`: what the rows say is what some transaction made them (`RowsTold`),
rows written since a listing are no older than it (`Fresh`, `ListedBack`), and a closing that is not in
the rows yet will be asked for at the permission's own address (`ClosingsAsked`). The first statement
of `ClosingShown` turned out false for more transactions than the run has (create, revoke, create,
revoke): it now excepts a closing that was followed by another
opening (`Reopened`).

**`Notifier_proofs`**: for every number of indexers, browsers and occasions, and every scan limit,
`ClaimsSafe` (`ClaimsHold`), `ChainFirst` (`NoPushForClosed`, over a node that may be behind), `RunKept` (a
run that was asked for is only taken back by the pass that follows or a crash) and, if no answer of the push
service is lost, `OncePerOccasion` (`AtMostOnce`). `NInv`: a claim is guarded by the one job that made it
until its holder is done with it, and what every node knew to be closed when a pass began (`closedAt`) is in
none of its jobs. `OncePerOccasion` needs its condition, because a push that timed out gives its claim back.

**`LiveFeed_proofs`**: for every number of changes, lag, outbox, number of streams and failures,
`PageIsTrue` (`LiveIsTrue`), `FloorHolds` (`NeverOlderThanUpdate`) and `StreamKept` (`LiveStreamKept`).
`LInv` turns "no silent gap" round: whatever a page does not show, something that will make it read again is
on its way (`Coming`: in the queue, in hand, in the outbox, on the wire, gathered, or owed by a session that
is down or a stream that is not open). `FeedKept` and `ListKept` say so of each thing the page reads.
`FloorHolds` is a theorem about steps: `FloorKept` keeps the floor at or below what a read under way was
asked for, or the page has no list yet, and `GoneIsIdle` that a page that is gone reads nothing.
`OpenIsServed` that an open stream is served and not silent for two heartbeats.

**`Service_proofs`**: for every number of processes, releases, clients, messages, every limit and window,
`SchemaIsOne` (`SchemaHolds`) and `GateIsKept` (`GateHolds`). `ProcessInv`: the holder of the lock is the
process that is migrating, so what it looked at still holds when it applies. `GateInv`: the window holds the
last admissions, and everything admitted that is not in it is too old; a time told by Retry-After is one at
which the window has room; a nonce is remembered as long as its message is fresh; and a token, and a name
about to be saved, goes back to a message its wallet signed. The first mark in a window that is not too old
is found by the well-foundedness of the numbers (`Least`).

The same module proves the three parts of `History`, for every number of days, events, workers, changes and
wallet entries, every batch, page limit, kind and allowance: `EventsAreTrue` (`EventsTrue`), `PagesAreTrue`
(`PagesTrue`), `CutsGoForward` (the action property `CutNeverBack`) and `ScreenIsTrue` (`ScreenTrue`).

* `DecodeInv` is the five properties of `EventsTrue` with their types; the work is in the run of a transaction,
  which is one step of the model and several of the program. `RunTrue` says after how many calls what holds:
  if the trace so far can be read, it names as many charges as were taken, and what the events told
  before and tell now agrees with the state the run has reached, or a creation among them made it so. Each call
  that goes through says one word or none (`OneWord`), the last word counts (`LatestIs`, from `Greatest`), and
  what it changes is what it says (`HeardIsTrue`). For a refusal, `Why` lists what stood in the way for each
  code, and `ReasonStands` follows each code, with the program that the log and the accounts that the balances
  leave known, to the reason shown.

* `FeedInv` (theorem `FeedInvariant`): `Chronicle`, slots and days follow the chain, and a place lies among
  those of its event's slot and position, so that the feed's order agrees with the chain's but for ties;
  `PassesTrue`, a worker that is about to record a cut has left no older row, and the indexer stores none;
  `Joined`, pages follow each other without a gap or a repetition, each ending where the next is asked from;
  `WholeTrue`, while nothing was stored since, no stored event of the permission is missing from a page as
  far as it goes, nor from the rows of a request half-way; `OwnTrue`, and while no cut was met either, what
  is read belongs to the permission that is there now. None of the properties of a page is inductive by
  itself: a page is the answer of several queries between which the table moves. `OnlyCurrent` follows from
  `Chronicle` where the newest creation is stored. `StoreStep` says what storing one event, wherever its
  place is, leaves as it was. What the newest `PageLimit` of a set are is said by `NewestAbove`,
  `NewestAll`, `NewestFew` and `NewestSome`, whose argument is about cardinalities and needs no induction.
* `ListInv`: a list that is kept or shown was true when it was read (`KeptTrue`); the tab asks for the
  wallet it shows (`AsksForShown`); and the first wallet shows this browser's copy until the network
  answers, then the first difference (`FirstTrue`).

**`Browser_proofs`**: for every number of wallets, calls, endpoints, losses, changes, versions, refreshes and
hitches, `SwitchIsTrue` (`PushHolds`) and `ShellKept` (`ShellHolds`). `PushInv`: one change at a time; a
wallet's change is alone or marked as crossed; what a call has learnt stays so in an unchanged world; and "on" stays
true until the wallet's own disable has reached its rows. `ShellInv`: one version is being stored at a time
(`OneStored`), what a refresh has stored stays until it is done (`StoredStays`), the version before stays
whole, and reloads end.

**`Lifecycle_proofs`**: for every period, clock, number of terms, transactions, attempts, amounts, kinds and runs,
`CancelIsTrue` (`CancelHolds`), `VerdictIsTrue` (`VerdictTrue`), `FiguresAreTrue` (`FiguresHold`),
`SubscribeIsTrue` (`SubscribeHolds`) and `ShowIsThere` (`ShowHolds`).

* `LifeInv` (theorem `LifeIsKept`) is the common ground of the first three: what a node answers is an
  earlier state of a permission that never comes back, ends once and keeps its kind (`RecentTrue`); what
  became of a transaction never changes; a date that was told is one after which no charge can land
  (`CardTold`, `FlowTold`); and what was sent is bounded, no charge is of nothing, and the purse and what
  was spent stay within what the wallet held (`SentInLife`).
* `FigureInv` is for the sums of `FiguresHold`. Periods lie on a grid (`OnGrid`); of the period the clock is in, a
  version of the permission a node may still answer names no more than was charged, and no more was
  than the cap (`PeriodTrue`); the permission counts exactly what its last period took
  (`SpentTrue`); what a window named was charged before it was shown (`WindowTrue`); and once the
  cancellation agreed to has landed, the date shown bounds the charges (`StopKept`). `Pulled` is a recursive
  function; that a longer history, or a shifted window, sums as it should is shown by the least
  number at which it would not.
* `OfferInv`: in what was checked as shown nothing stands against subscribing: same terms, end, lists and
  authority, not winding down, not ended by the time of the check, no permission there (`CheckedTrue`).
* `DemoInv`: an address is given once; what is there was sent and landed (`WorldIsSent`); what the state and the
  file name has landed (`StatesTrue`); for each recipient there is one permission, or one grant on its
  way, while no run read the list too early (`OneEach`); and what a charge is sent for was gone for
  good (`ChargesLate`).

Only model-checked is liveness, for fairness and ENABLED are out of the prover's reach: `Recovers`, the
refusals' half of `EverythingGoesOut`, `KeepsUp`, `EventuallyShown`, `BrowserSettles`, `ProcessesEnd`. The two
properties the code does not keep (`subscribe_again`, `list_nobody`) have no theorem. Every safety invariant and
action property of the passing runs has one.

That a transaction has one call or two is said by the model (`Single`, `Pairs`) and not by a constant;
`EventsAreTrue` is about those.

## 5. What the runs do not reach

* `poll`: with two transactions of which the second is unreadable, no revocation is ever stored; `ListsTrue`
  covers it. The listing of one wallet races the other's poll, never a second poller's.
* `lifecycle`: `VerdictTrue` says nothing of a verdict that no attempt was made. A newcomer has no cached
  row (`CachedRows` of the scene is empty); `subscribe_again` is the run for one who has.
* `browser`: two tabs that share the browser's list of wallets are not modelled. Fairness obliges a call of
  the push switch to come back or fail although its requests have no timeout of their own (lib/push.ts): it
  leans on the browser, which ends a request that hangs.
* `store_one`: one indexer and a node that is never behind, so it has neither the closing of two writers nor
  the lagging read.
* `loop_safe`: faults end after `MaxFaults`; a node that refuses for ever is outside.

## 6. What comes next

* Transactions of more than two calls in `Decoder`; the proof of `EventsAreTrue` already goes call by call.
* The two hazards without a property: a notification dropped by a stream that stays alive between two
  sweeps, and the scan's limit filled by rows that were already sent.
