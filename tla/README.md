# HORNETS Nostr Relay: a TLA+ verification project

TLA+ models of the relay's subscription payments, Bitcoin address pool, media
moderation, live subscriptions, push notifications, event store and event
handlers, repositories, DAG store, settings and access control, checked with
TLC and, where it pays, proved with TLAPS. Paths are relative to the root of the
repository.

## 1. Inventory

| component | state it keeps | operations | who calls it |
|---|---|---|---|
| **Address pool** (`stores/statistics/gorm/statistics_gorm.go`, `subscription/batch.go`, `subscription/subscription.go`) | table `subscriber_addresses`: address, status, npub, credit | save a batch of addresses, allocate one to a name, count the free ones, look up an owner | wallet sync (HTTP), NIP-42 login (a goroutine per login), batch update, payments |
| **Payments and credit** (`web/handlers/wallet`, `subscription/payment.go`, `credit.go`, `events.go`) | `wallet_transactions`, `paid_subscribers`, credit column, kind 11888 event of each user, payment notifications | process a transaction, buy tiers, bank and use credit, rewrite the event, count an upload, read the event back | wallet (HTTP), upload handlers, logins, queries |
| **Free tier and batch** (`subscription/free_tier.go`, `batch.go`, `manager.go`) | none of their own; cooldown and scheduling flags | refresh expired free tiers, rewrite all events after a settings change | timers, settings API |
| **Media moderation** (`moderation/image`, `stores/badgerhold/badgerhold_moderation.go`) | `pending_mod:` and `pending_dispute:` keys, `blocked:` records | queue, pick up, block, clear, unblock, purge | event store, worker loop, admin API |
| **Disputes** (`handlers/nostr/kind19841`-`19843`) | ticket, dispute and resolution events, `HasDispute` flag | issue a ticket, take a dispute, resolve it | authors, worker loop |
| **Event store** (`stores/badgerhold/nostr_events.go`) | events and secondary indexes in Badger | store, replace, delete, query, count | every handler |
| **DAG store** (`stores/badgerhold/badgerhold_dags.go`, `streaming.go`; `handlers/scionic`) | leaves, content, labels, ownership | upload, download, claim, query | libp2p streams |
| **WebSocket** (`transports/websocket`) | listeners per connection, write mutexes, notification channel, challenge | subscribe, close, notify, authenticate | clients, the handlers' tail |
| **Push** (`services/push`) | bounded queue, processed ids, workers, retries | process an event, send, retry, stop, reload | the handlers' tail, settings API |
| **Kind handlers** (`handlers/nostr`) | none of their own; `report_notifications` | validate, query, remove older versions, store, answer | WebSocket, libp2p |
| **Repositories** (`handlers/nostr/kind16629`, `kind72`; `access`) | permission events, blacklist, ownership of the DAGs they name | publish permissions, cascade, decide on events and DAGs | kind handlers, uploads, downloads, queries |
| **Access control** (`access`, `wot`) | settings, result cache, repository blacklist, trust graphs | check read and write, update settings, invalidate | every request |
| **Settings** (`config`, `web/handlers/settings`) | `config.yaml`, viper and its overrides, the cached configuration, the live access settings | read, save, watch, apply | the panel, an editor, start-up |
| **Statistics** (`stores/statistics/gorm`) | counters, users, notifications, owner | many small writes and reads | handlers, admin API |
| **Web admin** (`web`) | sessions, challenges, settings | login, verify, settings, lists | the panel |
| **Start-up** (`services/server/core`) | wiring, supervisor restarts | run, stop, restart | the operating system |

How they interact: a WebSocket message is checked by access control, stored by
a kind handler, then handed to the notification channel and to the push
service. Storing an event with media queues it for moderation, whose verdict is
a record that the filter handler reads at query time. A wallet posts addresses
and transactions over HTTP; they reach the statistics store and, through it, a
kind 11888 event per user in the event store, which uploads, logins, reads and
settings changes rewrite from goroutines of their own. There is no lock or
transaction across the two stores, and none around "read the event, delete it,
store another".

What is hard here:

- **Interleaving.** Every rewrite of a subscription event is read, delete, sign,
  store. The same user's payment, upload, login and read-back overlap freely.
- **Atomicity.** Checks and the writes they guard are separate calls: duplicate
  transactions, missing addresses, missing events, disputes already filed.
- **Crashes.** The pending key is deleted before the review; the credit is
  charged after the sale; the event is deleted before its successor is stored.
- **Ordering and staleness.** The clean-up works on a snapshot; the `HasDispute`
  flag is read and written back; addresses are copied out of old events.
- **Liveness.** One select loop feeds a semaphore of reviewers and every timer; a
  push service is stopped while its queue is full and its retries sleep.
- **Partial failure.** "Store mine, then delete what I found before" and "delete
  what I found, then store mine" are both in use, across connections.
- **Several copies of one fact.** Four places hold the access settings, three the
  ownership of a DAG and what is known of it.

What makes each component correct: an address belongs to one user and a payment
is credited to the user whose event shows it; a satoshi is either credit or
storage; a failed post is never shown and no post escapes review; a dispute is
answered and traceable; a subscriber sees each stored event once (WebSocket,
push); what was acknowledged is stored, and found by every query that describes
it; a handler removes nothing of others; a repository keeps its permissions, one
owner and its graphs; a DAG that was acknowledged is complete, owned and served;
the file holds what requests were answered; an access decision is never older
than the time it may be remembered.

## 2. Modules

| module | what it is |
|---|---|
| `AddressBook` | abstract specification: addresses are learnt, and given once, to one name |
| `AddressPool` | the pool, the goroutines that allocate, and every rewrite of an event that copies an address |
| `MCAddressPool` | its instances |
| `Payments` | from a wallet transaction to storage, and the goroutines that share the event |
| `PaymentsProofs`, `MCPayments` | its theorems and its instances |
| `Moderation`, `MCModeration` | pending queue, reviews, blocked records, tickets, disputes, clean-up, admin; its instances |
| `Notify`, `MCNotify` | connections, live subscriptions and the notification processor; its instances |
| `AddressPoolNotifyProofs` | the theorems of `AddressPool` and of `Notify` |
| `Push`, `PushProofs`, `MCPush` | the push service: recipients, queue, workers, retries, stop and reload; its theorems; its instances |
| `EventStore` | events, their index keys and `QueryEvents`: operators, no state |
| `EventStoreProofs` | what `QueryEvents` answers, and lemmas about lists, for the two modules below |
| `KindRules` | `EventStore` and what the handler of each kind demands of an event |
| `KindHandlers`, `KindHandlersProofs`, `MCKindHandlers` | `KindRules` and the steps of the handlers, one connection against another; its theorems; its instances |
| `RepoRules` | `EventStore` and what a permission event allows: events, DAGs, social graphs, blacklist |
| `Repositories`, `RepositoriesProofs`, `MCRepositories` | `RepoRules` and the handlers of kinds 31415 and 72, with the DAGs they refer to; the theorems of both; its instances |
| `Dags`, `MCDags` | uploads, downloads and claims of DAGs; its instances |
| `DagsModerationProofs` | the theorems of `Dags` and of `Moderation` |
| `Settings`, `MCSettings` | the four copies of the access settings; its instances |
| `Access`, `MCAccess` | `IsAllowed`, its cache, and the changes of what it depends on; its instances |
| `AccessSettingsProofs` | the theorems of `Access` and of `Settings` |

How they compose: `AddressPool` refines `AddressBook`. `KindHandlers` and
`Repositories` stand on the store of `EventStore`, whose answers they act on;
`Repositories` also has the uploads and claims of `Dags` as single steps, with the
rule `CanWriteDag` that is the constant `Allowed` there. Each `MC` module extends the
component it instantiates. A proof module that holds the theorems of two independent
components extends both, so `AddressPool`, `Dags` and `Settings` prefix the names that
every component has (`PoolSpec`, `DagSpec`, `SettingsSpec`, ...).

Operators whose name ends in `Mut` are wrong on purpose: each states a plausible
bug of the operator that follows it, and shows that the property that watches
it is able to fail. No specification uses them.

### AddressPool

State: `rows` and `owner` are the table and its `npub` column (`status` is
"allocated" exactly when it is set); `events` the stored kind 11888 events, as
pairs of a `p` tag and an address; `mode` the allowed-users mode; `job` and
`sync` the local variables of goroutines. A *name* is the string a key is filed
under: `auth.go` passes the hexadecimal form, the access-control API whatever
was typed, and `KeyOf` says which user it spells.

| action | code |
|---|---|
| `SyncCheck`, `SyncSave` | `ProcessWalletAddress`: check, then `SaveSubscriberAddressBatch` (`ON CONFLICT DO NOTHING`) |
| `Allocate` | `AllocateBitcoinAddress`, one transaction under `addressMutex` |
| `Login`, `CheckEvent` | `InitializeSubscriber` of a NIP-42 login, `createNIP88EventIfNotExists` |
| `DropEvents`, `StoreEvent` | the two halves of `createOrUpdateNIP88Event` |
| `StartRefresh`, `StartReadBack`, `StartPayment`, `StartAssignTier` | the rewrites: each keeps the address of the event it read |
| `StartBatch`, `BatchReady`, `BatchTimeout`, `BatchPick` | `AllocateBitcoinAddressesForExistingUsers` and `ensureSufficientAddresses` |
| `RemoveUnauthorized` | the batch deletes the events of users a mode does not admit |
| `ChangeMode`, `Restart` | the settings API; the process |

The code picks the free row with the lowest id; the model picks any. The buffer
of 50 spare addresses is the constant `MinBuffer`, 0 in the instances, so that
two addresses are enough for both outcomes of the wait. `mode` tells subscriptions from
all other modes; which users a mode admits is left open, so `RemoveUnauthorized` may
take the event of anyone.

### Payments

One step is one access to a store: `Save` the transaction, `Total` reads the
credit and decides, `Bank`/`Refresh` put a small payment aside, `Reset` spends
the credit, `Read` finds the event and works the purchase out, `Drop` finds all events
of the user and `Delete` removes them one by one, `Sign` and `Store` make the new one, `RecordPaid` writes the paid subscriber,
`Cascade` spends the remainder of a high payment on lower tiers, `Leftover`
banks what is left, `Apply` and `Charge` are a round of `checkAndApplyCredit`,
`Final` republishes under the main tier and `Notify` writes the notification.
`Upload` (`UpdateStorageUsage`), `Login` and `ReadBack`
(`CheckAndUpdateSubscriptionEvent`) rewrite the same event. `received` and
`bought` are history variables: what came in, and what was published for it.

A delivery is looked up under the amount as the wallet spelled it, and saved under the
amount with eight decimals (`handler_wallet_transactions.go:241`, `:255`). `Deliver`
therefore chooses the spelling, and `Known` finds the row of an earlier delivery only if
the amount is spelled as rows are. The constant `Exact` is the set of transactions
which the wallet always sends so; `OncePerTx` is about these. The others are credited
with every delivery, which `AlreadyProcessed` shows.

Abstractions: a month is the unit of time; prices and bytes are small numbers
chosen so that every branch happens; a user has one spelling and owns the
address (AddressPool covers both); database errors after retries are left out.

### Moderation

`stored`, `pending`, `blocked`, `tickets`, `disputed`, `queue` and `resolved`
are rows of one Badger database, each access a transaction of its own. `loop`
is the worker's select loop with the batch it has picked up (`Poll`, `Drain`,
`Consider`, `Launch`), `worker` its review goroutines (`Fetch` to `Clear` for a
post, `Recheck` to `Unticket` for a dispute), `filing` the kind 19842 handlers,
`cleanup` the daily purge and `admin` the panel's deletion. `standing` is a
history variable: the last judgement of a post that still counts.

The media service's answer is a choice of "pass", "block" and "error". Whether
a disputing author is a subscriber is a choice. `Retention` stands for 48 hours
and the clock counts days: `Tick` waits until nothing is under way, since a
review and a handler take minutes. The handler writes the
ticket's copy, the dispute, the flag (read and written back) and the queue entry.

The author may delete any event of their own with kind 5: a post (`AuthorDelete`) or the
dispute itself (`Withdraw`, remembered in `withdrawn`). Deleting a dispute leaves all that
refers to it: the queue entry, which holds all that its review needs, the flag, which
keeps the post from the clean-up, and any resolution. `DisputesOnRecord` names these
disputes as its exception. As the relay looks for a stored dispute, an author who
deletes theirs may dispute for free again.

A crash between the two halves of a purge leaves the event without its record.
`Restart` marks that event as "exposed", which `FailedHidden` does not count as
failed; every other crash is covered.

### Notify

Three kinds of goroutine share two concurrent maps, `listeners` and
`connWriteMu`, and one bounded channel, `chan`.

| variable or action | code |
|---|---|
| `conn`, `broken`, `authed`, `attempts`, `blocked` | life of a connection, its socket, `connectionState`, the blocked list |
| `Connect`, `ToRead`, `StopReading`, `ReadFails`, `End` | the handler goroutine of `server.go` and its deferred calls |
| `Req`, `Sync`, `Query` | `handleReqMessage`: register, take over the login, query the store |
| `Count`, `Close`, `Refuse`, `Terminate` | `handleCountMessage`, `removeListenerId`, a refused event, `terminateIfBlocked` |
| `Publish`, `NotifyListeners` | `handleEventWithHandler`: the kind handler, its answer, then the channel or the drop |
| `Auth`, `AuthNotice`, `Authenticated` | AUTH with its rate limit; the login takes effect after the OK is written |
| `Lock`, `Written` | `sendWebSocketMessage` under the connection's mutex |
| `TickBlocked`, `TickCloses`, `TickStops` | the ticker goroutine, once a minute |
| `Take`, `SeeShutdown`, `Exit` | the processor's select and its drain |
| `CopyConns`, `Visit`, `CopySubs`, `VisitSub`, `ProcLock`, `ProcWritten` | `processNotification`: two nested `Range` calls and the guarded write |

`Range` of an xsync map copies entries (a bucket at a time, or what is left of the
map after a resize) and calls back on the copies. So the processor copies any
nonempty set of entries at any moment and visits the copies in any order, while
the handlers change the map: `proc.found` and `proc.match` are such copies, and
what they say may be out of date.

`removeListenerId` drops the entry and the mutex of a connection, and a goroutine
may still hold either. Entries' subscription maps and mutexes therefore have a
number, 1 or 2; a new one takes the number that nobody else holds. Two
are enough because the handler of a connection makes them and only the
processor can hold an old one, one at a time. `want`, `sent` and `dropped` are
history: the filters of open subscriptions of logged-in clients, what each got,
what was given up.

Left out: the limits of the filter handler (an answer holds every event that
matches), the split of an answer into several writes, messages that do not
parse, an AUTH message that reaches the second dispatch, the data race of the
ticker on `state.pubkey`, the library's reuse of connection objects, unblocking
a user, and, for overlapping writers, anything but the library's panic
(`PanicHandler`, `PanicProcess`): garbled frames are not modelled.

### Push

The goroutine of a connection is in one call of `ProcessEvent` at a time:
`GetService`, `Check` (is the id known), `Mark` (remember it, find the recipients),
`NextUser` (their active devices), `Enqueue` (one task per device, or none when the
queue is full). `Send`, `Record` and `Exit` are a worker, `Retry` the goroutine that
puts a failed task back, `BeginStop`, `CloseQueue` and `Finish` are `Stop`,
`Renew` and `Finish` make the next service, `FindRow`, `SaveRow` and `Unregister`
are the device handlers. A select with several ready cases takes any of them; a
send on a closed queue panics, which ends the connection (the WebSocket library's
recover) or, in a retry, the process (`alive`). Texts and the name cache are left out.

### EventStore, KindRules, KindHandlers

The store is a set of events, for each is written and removed with all its keys in
one transaction; what a prefix scan meets is computed from the set. `QueryEvents`
follows the code's choice of an index, its seek, its stop, the merge of several
prefixes and the cut at the limit; a Go map of tag filters may start with any of
its names. Times have `Width` bits and keys hold their two's complement.

`KindRules` has one operator per handler: what it checks before it reads or writes.
How a value must be spelled is the constant `Formats`. In `KindHandlers`, `Takes`
is the acceptance, and the families of handlers that go on in the same way are one
action each: `Plain`, `Repost`, `Wipe`, `Write`, `Replace` with `Compare`, `Audio`,
`ReportEvent` with `FindReport` and `CountReport`, `Delete` with `Ask`. Removing is
`Look`, `Erase` and `Unindex`, storing `Put` and `Index`: each is a transaction, and
handlers of different connections interleave at all of them.

A transaction may fail. Most handlers remove the versions before an event and store it
then; if the store fails, what was acknowledged before is gone. `unstored` remembers such
events until one is stored that serves as well, and `CutOff` is this exception, which
`NothingLost` and `NewestKept` name: the failing call is the StoreEvent of another version
in a handler that removes first, or of a report on a post under review, which is
acknowledged before it is stored. An article asks for the removal of whatever of the
author's has its name, so what it replaces counts as withdrawn.

### RepoRules, Repositories

`RepoRules` translates `access_control.go` and the checks of kind 31415: `ValidTags`,
`MayPublish`, roles, social graphs and hops, `CanWriteEvent`, `CanReadEvent`,
`CanWriteDag`, `CanReadDag`, `Blacklist`. Identifiers, clone URLs and paths are values
whose parts are given by constants. `Repositories` has the handler of kind 31415
(`Query`, `Verify`, `Bind`, `Put`, `Clean`, `Forget`, `LookForRefs`, `Drop`), that of
kind 72 (`Resolve`, `Gather`, `Erase`, `Release`, `Put`), other events of a repository
(`Admit`, `Put`), `Upload`, `Claim` and `Restart`. A transaction may fail. A cascade's
batch of 1000 and its 20 passes are the constants `Batch` and `MaxPasses`.

### Dags

`leaves` are stored under their hash and never removed; `own` are the records of
root and key; `rel` and `lab` say for which roots relationships and labels are
cached. An upload is `Start` (one per key), `Packet`, `Answer`, `Read`, then `Missing`
and `Partial` for what was not sent, `Verify`, `Relate`, `Label`, `Finish`, `Leave`; a
failure goes to `Undo` and `Forget` (`DeleteDag`). A download is `Ask`, then `All`, or
`Labels`, `Hashes`, `Index` and `Walk`. Whether the external Merkle library accepts
a packet or a DAG is a choice.

### Settings

`file`, `base` (viper's reading), `over` (its overrides), `conf` (the cached copy) and
`enforced` (what the access control runs with). A request is `BeginRequest` (the wallet check),
`Lock` (compare with viper, set what differs), `Open` and `Fill` (`safeWriteKeys`:
`os.WriteFile` cuts the file off before it writes) and `Apply`. `Watch` and `Reload`
are viper's watcher and the delayed copy, `Edit` an operator's editor, `Restart` reads
the file anew. `want` is history: what the answered requests add up to. A field that
neither the overrides nor the file have is empty: there are defaults only when there is no
`config.yaml`. The very first start, which writes one, is not modelled.

### Access

`Begin` takes the level of the moment and a remembered answer if one is fresh;
`AskOwner`, `AskRow` and `AskPaid` are separate queries, each of which may fail;
`Remember` stores what came out. `Allow`, `Pay`, `Unset` and `SetOwner`, `RemoveOwner`
and `Save`, `Level`, `Sweep` change what an answer depends on. `yes` and `no` say when
each fact last held and last failed; entries too old to matter are forgotten.

## 3. Runs

Each run finishes within two minutes on two cores.

| run | asks | bounds | states |
|---|---|---|---|
| `MCAddressPool` | is ownership exclusive, does an event ever show another user's address, does the pool implement the book, does every job end? | 2 goroutines, 2 sync workers, 2 addresses, 2 users with 1 spelling each | 669,680 |
| `MCPayments` | does the arithmetic lose anything, and what can a crash cost? | 1 goroutine, 4 payments (13, 5, 1, 0 satoshis) delivered twice, tiers at 2, 3 and 7, an upload, a login, a read-back, 1 crash; one payment always spelled with eight decimals | 3,662,151 |
| `MCPaymentsRace` | what holds with two goroutines on one user? | payments of 5 and 1, an unlimited tier, an upload, a login, a read-back | 1,136,915 |
| `MCModeration` | can a failed post be shown; is every dispute on record? | 1 post sent twice, 1 dispute sent twice, 2 slots, all answers, a clean-up, an unblock, an admin deletion, deletions by the author, 1 restart; symmetry | 5,696,006 |
| `MCModerationLive` | is everything reviewed, does every review end, is every dispute answered? | 1 post sent 3 times, 1 dispute sent twice, 2 slots, deletions by the author, no clean-up | 389,738 |
| `MCNotify` | does an event fall between a query and the notifications, is what is owed delivered, do blocked users go, does the processor end? | one client that subscribes, publishes, leaves and is blocked, 4 messages, a channel of 1 | 154,800 |
| `MCPush` | is a device told twice, switched off early, forgotten in a stopped service; do tasks and stops end? | 1 reply handed over twice, which mentions one user and answers another whose device has the same token; 1 device registered and removed, 1 worker, a queue of 1, 2 attempts, 1 reload | 530,573 |
| `MCKindHandlers` | is what was acknowledged stored, found, and nobody else's removed? | one event of every kind and case alone, and ten races of two connections with up to 5 events; 1 failing call; 10 filters | 5,183 |
| `MCRepositories` | do permissions, owners, cascades and graphs stay consistent? | 2 connections, 19 scenes of two repositories, an organisation and a fork; batches of 2; 1 failing call, 1 restart | 35,099 |
| `MCDags` | is an acknowledged DAG complete, owned and served? | 2 uploads, 1 download, 1 failing call, claims and a release; DAGs that share leaves | 81,545 |
| `MCSettings` | do requests survive each other, and does the relay follow the file? | 3 requests, 1 edit, 1 failing write, 1 restart | 210,689 |
| `MCAccess` | how late can an answer be? | 2 overlapping checks, 2 changes, 1 failing query, 5 ticks, answers remembered for 2; symmetry | 4,179,768 |

Why the bounds are enough to be of interest. Two goroutines are what each lost-update
argument needs, and the proofs lift the results on addresses, payments and notifications
to any number. Two users are what misrouting needs: one row for two of them, or an
address copied into the wrong event. The two spellings of one key matter where the
events of a user are looked for under both; with them the instance is too large for
liveness, and `MCAddressPoolSpellings.cfg` checks the three safety properties over three
names (861,122 states up to symmetry: goroutines, sync workers and addresses are
interchangeable, and no definition tells one from another). The theorems hold for any
names and spellings. 13 satoshis buy the highest tier once, cascade over both lower
tiers and leave one satoshi; 5 buys a tier and leaves two, which buys another on credit;
1 buys nothing until credit helps; 0 is answered and not processed. In the race, 5 and 1
meet in every order; a payment above the highest tier, which cascades, is in the
sequential run only. Three sendings of a post put it in the queue while it is under
review and while its record is being made. A batch of two posts and one dispute lets the
select loop alternate. Four messages of a client are what REQ, CLOSE, REQ and AUTH in
every order need: they delete the entry that the processor is visiting and make another.
A channel or queue of one is full as soon as something waits. Two attempts are the least
for a retry, a second service the least for a task that outlives its own. Handlers act
on lists of what they found, so three versions of a thing over two connections show each
order of finding, storing and removing. A batch of two makes a cascade of three events
come back for more. DAGs of three leaves have one that the root does not name. Two
overlapping requests and a third after them are what a lost setting needs. An answer
remembered for two ticks, read from rows of different moments, is out of date and still
served within five ticks.

`CHECK_DEADLOCK FALSE` in all configurations but those of the address pool: clients,
scripts and changes are bounded and the system may come to rest. The address pool
never stops and deadlock is checked there. A `TypeOK` stands in every component with
state; the proofs establish it for each, and any configuration can name it.

Fairness. `AddressPool!PoolFairSpec` gives each goroutine with work weak fairness:
its steps are local database calls with a bounded number of retries.
`Moderation!FairSpec` gives weak fairness to goroutines that have started, to
the timers of the select loop and to the clean-up, which fire periodically; the
media service answers because its HTTP client has a timeout. Nobody is made to
post, to dispute, to administer or to restart. `Notify!FairSpec` gives weak
fairness to each handler that is not waiting for a message, to each ticker and to
the processor. A write ends because the client reads or its connection breaks:
the code sets no write deadline, so this is an assumption about clients, and
`Delivered` says nothing of the others while one client does not read.
`Push!FairSpec` gives weak fairness to workers, to sleeping retries and to a stop
that has begun: the platform clients have timeouts. The other components
have safety properties only.

### Configurations that end in a violation

Each states what a document, a comment or an answer says, and TLC shows the code
doing something else; the findings of `PROJECT.json` quote the lines. They are
kept for reference and are not among the runs. Those with several properties are
meant for `tlc -continue`, which reports each of them.

| configuration | module | properties |
|---|---|---|
| `MCPaymentsFound.cfg` | `MCPayments` | `StorageAccumulates` (an upload that overlaps a payment writes its old copy of the event back), `OncePerTx` (two deliveries of one transaction at the same time are both credited), `AlreadyProcessed` (an amount not spelled with eight decimals is credited with every delivery) |
| `MCModerationPending.cfg` | `MCModeration` | `PendingHidden`: a post is visible as soon as the worker picks it up |
| `MCModerationFree.cfg` | `MCModeration` | `FreeOnce`: after a first dispute a second one is free as well |
| `MCNotifyOverlap.cfg` | `MCNotify` | `WriteExclusive`: closing the last subscription deletes a write mutex that is held |
| `MCNotifyRejected.cfg` | `MCNotify` | `NotifiedIsStored`: an event that its handler rejected is sent out |
| `MCPushPanic.cfg` | `MCPush` | `RetryGivesUp`: a retry that wakes up after a stop sends on a closed queue |
| `MCPushTwice.cfg` | `MCPush` | `NeverTwice`: two connections with one event are both unaware of each other |
| `MCKindFound.cfg` | `MCKindHandlers` | `NothingLost` (two preferences), `ReportsCounted` (two first reports), `NewestProfile` (an old profile again), `QueryRight` (a time before 1970) |
| `MCReposFound.cfg` | `MCRepositories` | `OnePermission`, `Announced`, `OwnersAgree`, `GraphsBound`, `PublicDags` |
| `MCDagsFound.cfg` | `MCDags` | `OwnersKept` (a failed upload removes another key's record), `Unstored` (a forbidden type is answered with a refusal and stays) |
| `MCSettingsFound.cfg` | `MCSettings` | `AppliesLast` (of two overlapping requests the one saved first is applied last), `Saved`, `NeverPartial`, `NeverCut`, `RestartAgrees`, `Untouched` |
| `MCAccessOwners.cfg` | `MCAccess` | `OneOwner`: two requests at once leave two owners |
| `MCAccessDropped.cfg` | `MCAccess` | `Dropped`: a removed user is let in until the answer expires |

## 4. Proofs

The theorems hold for every value of the constants that satisfies the named
assumptions of the modules: any finite or infinite sets of users, goroutines,
addresses, posts; any bounds.

**AddressPool** (`Invariance`, `PoolTypeCorrect`, `OwnershipExclusive`,
`PaymentsRoutedRight`, `PoolImplementsBook`). `PublishedOwned` is not inductive:
a goroutine carries an address in its local variables before it publishes it.
`IInv` adds that every address in a `job` that is on its way to an event belongs
to the job's name. The lever is `BelongsForever`: once a row belongs to a name
it does in every later state, because allocation returns the row a name has and
the insert of a known address changes nothing. So the stale copies that make
these rewrites look dangerous are harmless for addresses. The refinement maps
`holds[n]` to the row `n` owns, which `Exclusive` makes unique.

**Payments** (`Invariance`, `TypeCorrect`, `CreditSafe`, `PaidAfterPublished`,
`EventSurvives`). `IInv` says of each program point what the goroutine's local
variables are good for: what is charged was read and covered the price, what is
about to be recorded was bought. `EventSurvives` assumes `MaxRestarts = 0` and is
an invariant of its own, because any goroutine may delete another's event
between its deletion and its store: it always goes on to store one itself.

The sequential properties (`SatsAddUp`, `StorageIsKept`, `RecordsStayTogether`,
`CrashesAreCheap`, `RecordedOnce`) have hypotheses, because without them they are
false. `OnePerUser`: two goroutines that are busy at once work for different users.
The code does not see to that, and `MCPaymentsFound` shows what happens without it; the theorems say that this is all it takes, for any number of
users whose goroutines interleave at every store access, where the run has one
goroutine. `ValidTiers`: `manager.go:66` skips a tier worth no storage. `Measured`, for
the two about storage: an unlimited tier is configured with at least its monthly
limit, since at its exact price it adds only the former (`payment.go:199`).
The inductive invariant `Ledger` keeps books per user. Credit, sales and the satoshis in
neither add up to what was received (`Money`), where "in neither" depends on the program
point: the payment before it is banked, the cart and the remainder while an event is
written, minus the price between publishing on credit and charging it. Without a crash
the event, or the one about to be stored, promises the free tier, what was sold and what
is in the cart, and agrees with the record (`Storage`); `Carries` ties the cart to the
program point. A crash turns the books of any point into those of an idle job, with one
more `Allowance` of the highest price (`CrashBooks`): only between `Store` and `Charge`
is it used. The proof has a lemma about the books for each step, about values only, and
`OwnStep` lifts it to all users. `RecordedOnce` needs no hypothesis on tiers: a goroutine
about to save works for the user the transaction pays, so no other can be (`Recording`); it is about the transactions
of `Exact`, and false of the others.

**Moderation** (`TypeCorrect`, `FailedStaysHidden`, `DisputesTraceable`).
`FailedStaysHidden` strengthens `FailedHidden` with where the clean-up stands,
because its purge removes the record before the event. `DisputesTraceable`
follows the order in which the handler writes: what refers to a dispute is written after
it, and only its author removes it (`withdrawn`). Both hold with restarts.

`EveryPostReviewed` proves `NothingUnreviewed` with the clean-up, admin deletions and
restarts, which its run leaves out, under three hypotheses. The media service answers: a
post whose review ends in an error passes, by design. `Orderly`: a restart finds nothing
under way, since what a goroutine holds is not stored. `Apart`: no review of a post
while it is being deleted, and it is not sent again during an admin's deletion. That one
the code does not guarantee: the clean-up works through a list made before; a post which
an admin puts back and which fails again loses its new record, is sent again, and the
end of the review still under way deletes the key of the new copy, which is then visible
without a review. It takes four actors whose steps fall in one order, so it is listed in
section 5 and not shown by a run. The invariant is `Reviewed`: what each actor holds is queued or already judged
(`Staged`), and a verdict that is not yet written is about a post in review
(`JudgedLast`).

**Notify** (`TypeCorrect`, `NoGapHolds`; the invariant is `NotifyInv`). `NoGap` is not inductive
by itself. `HandInv` and `ProcInv` say what the goroutines carry at each of their
steps, and `RegInv` that a wanted subscription is in the registered map with its
filter, under an entry that is authenticated unless the handler is still to make
it so. Then whatever the processor has not copied it will find, and whatever
it has copied carries the number of the newest map. The argument needs the handler's
order: registered before the login is taken over, that before the query. Nothing
is assumed about the mutexes: `NoGap` holds in spite of `MCNotifyOverlap`.

**Dags** (`DagTypeCorrect`, `AckedStaysComplete`, `OwnersStayRight`, `AckedIsServed`).
An upload that leaves a subtree out is completed from the store by a search, so
`AckedComplete` is about a closure: the proofs define what a root reaches as the
least set that holds the root and is closed under links, which needs no
induction. `IInv` says of an upload where its leaves are (`Stored`), that what its
search has seen is linked to what it has sent or seen (`Walked`), and what it has
cached (`Cached`); of what was acknowledged that it is stored and cached
(`AckedCached`); and of a download that it looks for leaves which are there
(`Expected`). When the search has nothing more to look at, sent and seen leaves
together are closed and hold the root, so they hold all that the root reaches.
`AckedServed` is stated for runs without failing transactions; the other two
hold with them, and with any links, cycles included.

**Access** (`TypeCorrect`, `AnswersTimely`). `Timely` needs evidence for each query of a
check, gathered at different moments, and for the entry a check may find. `AccessInv`
says of a check under way that what it has been told so far held or failed within
this tick (`Asked`), and of a remembered answer that it rests on facts not older
than the entry (`Remembered`). A change marks what was true until it as lately true,
and forgets what is too old to matter; the proof shows that what it forgets is older
than any entry still fresh. Failing queries are the exception `Timely` states.

**Settings** (`Invariance`, `SettingsTypeCorrect`, `AnswersKept`, `RelayFollows`). A request
compares itself with viper, which may not have read the file lately, and writes only
what differs. `Told` says why nothing is lost: whenever the mutex is free, viper's
overrides over its stale reading give exactly what the file gives, and that is what the
answered requests add up to; while a request holds the mutex, viper already reads what
the file will say (`Prepared`), and the fields to be written are among its overrides, so
that a reading of the file in between changes nothing. `Holding` ties the mutex to the
steps between `Lock` and `Fill`; `InTurn` adds, for `LiveFollows`, that the one request
not yet ended is the last thing the configuration does not owe the access control.
The excuses of `Kept` are needed: without the first, `Saved` fails in `MCSettingsFound`.

**Push** (`TypeCorrect`, `StopDrains`, `SwitchOffJustified`, `NotifiedOnce`).
`StopDrains` assumes a worker: `Stop` of a service without any returns at once and
leaves the queue. A worker that has left has seen its queue closed and empty, and nobody
sends on a closed queue and lives (`StopInv`). `SwitchOffJustified`: a task in its n-th
attempt, wherever it is, has failed in all before (`TryInv`). `NotifiedOnce` assumes
`Distinct` (each event comes over one connection, see `MCPushTwice`) and `Remembered`
(the ids of all events fit the memory, which forgets them all at once when it is full).
The argument has three layers: an event is marked before anyone makes a task of it
(`FindInv`); once there is a task or an attempt for an event and a row of a device, no
call will make another (`SettledInv`); so there is one task at most, in a queue, with
a worker or waiting for its retry, and none after a delivery (`SingleInv`).

**EventStore** (`QueryIs`). Nothing there is recursive, so the whole of `QueryEvents` can be
reasoned about: a scan of one prefix yields the newest events under it that match, in the
order of their keys; the merge of several prefixes drops what it met before and sorts again;
the cut at the limit then leaves the newest. `QueryIs` puts this together for whichever
index the code picks: the answer is in time order, has each event once, only events that
match, and all of them or the `Limit` newest. It asks that the stored events are finitely
many, ids name one event, and times fit into a key (`Timed`): with a time before 1970 the
order of the keys is not that of the times, see `MCKindFound`.

**KindHandlers** (`TypeCorrect`, `QueriesAreRight`, `OwnEvents`, `NothingIsLost`,
`OneVersionIsLeft`, `NewestIsKept`). The hypotheses are about what clients send. `Regular`: an id is that of one
event and times fit. `Orderly`: an article is sent once, an addressable event has one `d`
tag, a user's preferences come over one connection; without the last the code loses
events, as `NothingLost` shows in `MCKindFound`. `Few`: no query has more to answer than `DefaultLimit`,
beyond which older versions are not found. The scripts of the runs satisfy all three
(`MCScriptsAssumption`). `Basics` says of a handler between its transactions which events
its list of ids may hold (`Dues`) and why: they were the author's own, or older versions of
the same thing, or what the author asked to delete. `OwnEvents` follows at once. For
`NothingIsLost` the invariant is `Losing`: an acknowledged event nobody wanted gone is
*covered*, by itself, by a version of the same thing at least as new where versions are
compared, or by a handler that is committed to storing one, unless a failing store has cut
such a handler off and nothing that serves was stored since (`CutOff`); each step that
removes an event must be a handler which is such a cover for what it removes. Failing
calls of every other kind are covered without exception. `OneVersionIsLeft` needs the
opposite direction, that a list is complete: `Lonely` says that until a handler ends, every
other version in the store is still on its list, provided no other connection sends versions
of the same thing and no call has failed (a deletion that fails leaves what it was to remove). `NewestKept` joins the two.

**Repositories** (`TypeCorrect`, `AuthorityIsOne`, `OneIsKept`, `CascadesComplete`,
`GraphsAreKept`, `AccessFits`). Hypotheses on scenes: `Regular` as above; `Orderly`, a permission event names
one repository, one social graph or none, and no other DAG, and graphs are not pushed as
code; `Settled`, what is stored at first is what the handlers leave, one permission event
for each repository and its graph owned; `SentOnce`, inside `KeepsOne`: with a stored event
sent again while a newer one is handled, each of the two handlers removes the other's
(`Announced` in `MCReposFound`); `InTurn`, cascades come over one connection; `Rooted`,
for `TypeCorrect`, events refer only to DAGs there are. The scenes of
the run satisfy all of them (`MCScenesAssumption`), and each theorem takes those it needs.

- `AuthorityIsOne`: both ways of asking read the same scan, and a sort of what is in order
  changes nothing (`OneAnswer`).
- `OneIsKept`: the handlers delete what they found *before* they stored. `KeepsInv` adds to
  `Basics` that an event not yet stored is on no handler's list (`Upcoming`). So the event
  stored last is on no list at all (`Lasts`), and whatever the lists take away, it stays,
  with failures and restarts; this is the invariant a test of one order could not suggest.
  For the other half, when connections take turns, everything but the new event is on the
  list (`Neat`, `Marked`).
- `CascadesComplete`: `SweepInv` says at each phase what a cascade has still to do: what it
  found and has not erased is stored and will be asked for again, unless a batch was not
  full, and what it erased has its references among `refs` until they are released
  (`Swept`). Uploads and claims meanwhile are the exception the property states.
- `GraphsAreKept`: `AllBound` says that a stored event, or one about to be stored, has its
  graph owned, and that a graph about to be dropped is referred to by no other; `Cleared`
  that a graph nobody refers to is unowned or waits in the list of the handler that replaced
  it (`Pending`).
- `AccessFits` needs no more than `Basics` and that the blacklist holds keys
  (`BlockedKeys`). The argument is that writing and reading ask about one permission event
  (`AuthorityIs`), that every role and level which admits a writer makes a reader
  (`RoleReads`, `LevelReads`), and that whichever kind of reference `RepoOfDag` follows
  first, it ends in a repository that refers to the DAG (`NamedIs`).

All safety properties and action properties of the runs are proved. Only model-checked:
liveness (`JobsEnd`, `ReviewsEnd`, `DisputesAnswered`, `Delivered`, `BlockedGoes`,
`ProcessorExits`, `TasksEnd`), since liveness under fairness and `ENABLED` are out of the
prover's reach. No module has a recursive operator.

## 5. Known limits of the code that no run shows

- `payment.go:61` and `:130`: credit is reset before the event is looked up; if it
  is missing at that moment, the credit is lost.
- `handler_wallet_transactions.go:257`: a transaction saved and not processed, after
  a crash, is never retried. `:284`: a first purchase is notified as a renewal.
- Most kind handlers remove older versions before they store (`kind0handler.go:148`): a
  store call that fails then loses both. `kind1984handler.go:60` acknowledges a report on a
  post under review before it is stored.
- `kind5handler.go:55`: a dispute its author deletes leaves its queue entry, its flag, which
  keeps the post from being purged, and its resolution; the next dispute is free again.
- `payment.go:199`: an unlimited tier at its exact price adds only its monthly limit.
- `free_tier.go:66`: the refresh does not end with fifty or more subscribers.
- `badgerhold_moderation.go:244`: the purge removes the record before the event.
- `badgerhold_moderation.go:405`: a dispute's flag, read and written back, restores a
  record that was lifted in between.
- `worker.go:390`: the key removed at the end of a review may be that of the same
  post sent again in the meantime; after a purge the new copy is not reviewed.
  This needs a third sending and the clean-up, so `NothingUnreviewed` is checked
  with the clean-up idle (`MaxTime = 0`).
- `kind19842handler.go:169`: the flag stays after a rejection, and the post is then
  never purged.
- `listeners.go:84`: a write has no deadline, so one client that does not read
  stops the notifications of all.
- `kind19843handler.go:116`: only the ticket a dispute names is deleted; its updated
  copies stay.
- `events.go:160`: at login the event is looked for and stored in two steps; a payment
  that has deleted it for a moment gets a second event beside its own.
- Kind 72: a cascade releases the ownership of a DAG that events of other repositories
  still refer to; once it has removed the permission event that it needs to be admitted,
  a crash leaves the rest and it cannot be sent again; and it gives up no social graph.
- `blacklist.go`: the blacklist is loaded at start only, and of several entries for a
  repository the oldest wins.
- DAGs: statistics and tag entries are written by `StoreLeaf` only, `DeleteDag` removes
  tags under another prefix than they are stored at, labels are not rebuilt after a
  claim, and `ClaimOwnership` looks a record up under its old key but updates the new
  one, which then does not exist.
- `UpdateSettingValue` saves an access setting and never tells the access control.
- `access_control.go:491`: a refusal for a failing database is remembered for 30 s.
- No path of a payment adds the payer to `allowed_users`, which `paid_users` asks for
  first.
- `filter.go:171`: the store is asked with the search text as sent, so the extension
  `include:spam`, which `search/parser.go:18` splits off, has to match literally.
- Push: the cache of author names is never invalidated, and registering one device
  twice at the same time makes two rows.

## 6. Not modelled, and the plan

Not modelled: see the components in `PROJECT.json` with their reasons. Pure I/O,
UPnP, transports, the wallet proxy and Blossom's single blobs stay out for good:
they forward, or keep one value under its hash. The content filter's verdicts come
from a language model and no other component reads them.

Done: address pool, payments, moderation, live subscriptions; push notifications,
event store, kind handlers, repositories, DAGs, settings, access control.

What could follow, in this order:

1. Which events the tier batch and the free-tier refresh select, their batches and
   cooldown, composed with `AddressPool`, and mode transitions of moderation.
2. The panel's log-in, its challenges, tokens and NIP-98.
3. The filter handler's merge and limits, and its read checks, over `EventStore` and
   `RepoRules`; the supervisor's back-off; reference counts of DAG content.

Proofs that could follow: how many versions of a thing several connections may leave
between them, and what the race of two goroutines on one user costs at most.
