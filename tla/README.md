# AWA platform: a verification project

TLA+ models of the AWA vehicle-auction platform (FastAPI, SQL Server, Kafka,
Redis), checked with TLC on small instances and proved about with TLAPS. Paths
below are relative to the repository's root, `src/` in `PROJECT.json`.

## 1. The system

| Component | State | Operations | Interacts with |
| --- | --- | --- | --- |
| bid path, API side (`services/bid_service.py` `submit_bid`, `api/v1/auctions.py`) | none of its own | check that the auction is live and the bidder has a bidding role; publish the bid under the auction's id | SQL Server (read), Kafka topic `auction.bids` |
| auction worker (`workers/auction_worker.py`, `decide_bid`) | consumer positions, the message in hand | poll, parse, decide in one transaction, update the cache, announce, commit offsets | Kafka (both topics), SQL Server, Redis |
| ledger (`models/auction.py`) | `auctions`, `bids`; unique (partition, offset) | insert a decision | worker, read endpoints |
| cache and channels (`core/redis.py`) | `auction:{id}:highest_bid`, channel `auction:{id}:updates` | compare-and-set, publish | worker, gateway |
| WebSocket gateway (`ws/gateway.py`) | rooms of sockets, one relay task per room | connect, disconnect, relay, broadcast | Redis, browsers |
| sessions and accounts (`services/auth_service.py`) | users, refresh, reset and verification tokens, lockout counter | sign up, sign in, refresh, sign out, reset password, verify e-mail | SQL Server |
| roles (`services/role_service.py`, `api/deps.py`) | `user_roles`, `users.primary_role_id` | assign, revoke, authorise | SQL Server, every guarded endpoint |
| vehicle intake (`services/vehicle_intake_service.py`, `api/v1/vehicle_intake.py`) | `vehicle_listings` and lookup tables | submit one, submit many, look up | SQL Server, upload directory |
| migrations (`alembic/versions`, `alembic/env.py`) | the schema, the seeded rows, `alembic_version` | upgrade, downgrade, each in one transaction | every table of the others |
| payments report, content, admin (`services/*_service.py`) | tables that migrations seed | reads only | SQL Server |
| shell (`main.py`, `core/config.py`, logging, health), deployment | settings | wiring | - |

A bid travels: request -> status check -> Kafka log (partition = hash of the
auction id) -> the worker that owns the partition -> row in `bids` -> cached
highest bid -> `auction:{id}:updates` -> relay task -> sockets, and in parallel
-> `auction.bid_results`. Offsets are committed last.

What is hard in it:

* a decision consists of many awaits with no lock, and Kafka may move a
  partition between any two of them (six worker replicas roll at each deployment,
  `infra/k8s/auction-worker-deployment.yaml`); the consumer has no rebalance
  listener, so a worker that lost a partition finishes what it holds;
* a crash between the SQL transaction, the cache, the two publications and the
  offset commit leaves any prefix of them done;
* an exception makes the loop *continue* with the next message, and `commit()`
  covers all held partitions;
* the gateway's rooms, relay tasks and broadcasts interleave at every send, and
  a broadcast may end its own task;
* elsewhere, request handlers read rows, compute and write them back at SQL
  Server's default isolation level (accounts, roles, entered cars);
* a sheet of cars is one request and up to 500 transactions, between any two of
  which other requests, curators and failures come in;
* thirty-two migrations meet data that users and curators have written between
  them, and downgrades that are not exact inverses.

`PROJECT.json` lists each such hazard at its line with the properties that
would catch it.

What makes each part correct:

* bid path - every storable bid is decided exactly once, in log order, against
  the bids accepted before it; nothing is lost; announcements agree with the
  ledger; the cache shows nothing the ledger lacks;
* gateway - one relay per room, no gaps or repeats for a client, no relay left
  without clients and no clients without relay;
* sessions - a refresh or reset token is used once, no session outlives a reset,
  the chosen password stays, the lockout counts every attempt and lasts;
* roles - a user always has a role and the primary role is one of them;
* intake - each row of a sheet gets one true result, bad rows do not stop good
  ones, a car is listed once and as its row says, and what the form's dropdowns
  offer is accepted;
* migrations - schema, seeded rows and roles follow from the revision alone, the
  newest revision can be reached, accounts and their primary roles survive.

## 2. Modules

| Module | What it is |
| --- | --- |
| `BidLedger` | vocabulary: auctions, partitions, messages, rows, and the comparison that decides a bid |
| `SerialArbiter` | abstract specification: bids of a partition are decided once, in order, by the right comparison |
| `BidPipeline` | the program: API, log, consumer group, workers, ledger, cache, announcements |
| `MCBidPipeline` | values of its constants for TLC |
| `BidPipelineProofs`, `BidAnnouncementProofs` | theorems about it: delivery and the ledger, what is told of it |
| `AuctionRooms`, `MCAuctionRooms`, `AuctionRoomsProofs` | the gateway of one pod, its instance and its theorems |
| `RoleMembership`, `MCRoleMembership`, `RoleMembershipProofs` | the roles users hold, as overlapping requests change them; its instance and its theorems |
| `AccountSessions`, `MCAccountSessions`, `AccountSessionsProofs` | accounts, refresh tokens, lockout and password reset under overlapping requests; its instance and its theorems |
| `VehicleIntake`, `MCVehicleIntake`, `VehicleIntakeProofs` | cars that staff enter by a form or a sheet; its instance and its theorems |
| `SchemaMigrations`, `MCSchemaMigrations` | the thirty-two migrations as functions on the database, between the writes of users and curators, and its instance |
| `SchemaMigrationsLemmas`, `SchemaMigrationsProofs` | what each migration makes of the database; commands, writes and the theorems about them |

Operators named `Action_SomeFault` and introduced by "Faulty:" are variants with
a plausible bug. No specification uses them; each property is known to fail when
the action is replaced by its variant (`mutants` in `PROJECT.json`).

### BidPipeline

| Code | Model |
| --- | --- |
| `auctions.status`, `bids` | `status`, `rows` (`late` is history: the auction was closed at the commit) |
| a partition of `auction.bids`, committed offsets, assignment | `log`, `committed`, `owner`, `synced` |
| worker process: program point, assigned partitions, fetch positions, message in hand | `pc`, `held`, `pos`, `cur` |
| Redis key and channel, topic `auction.bid_results` | `cache`, `updates`, `results` |
| log lines `bid_processing_failed_will_retry` | `retried` |
| `submit_bid` before and after the publish | `SubmitCheck`, `Publish`, `PublishFails` |
| `async for message` and `parse_bid_envelope` | `Poll`, `PollFails` |
| the two `select`s of `decide_bid` | `Read`, `VerdictOf` |
| `flush` and the commit of `session_scope` | `Insert`, `AlreadyProcessed`, `Unstorable`, `InsertUnknown` |
| `try_accept_bid`, `publish_bid_update`, `publish_event` | `UpdateCache`, `Announce`, `PublishResult` |
| `except Exception: continue` | `WillRetry`, `CallFails` |
| `consumer.commit()` | `Commit`, `CommitFenced`, `CommitFails` |
| process start and end | `Start`, `Crash`, `Gone` |
| Kafka's group coordinator (external) | `Recover`, `Rebalance`, `Sync` |
| who opens and closes auctions (external), a foreign producer, a Redis restart | `SetStatus`, `PutForeign`, `FlushCache` |

Abstractions. The transaction of a decision is two steps: the reads (`Read`) and
the write with its commit (`Insert`), since SQL Server's READ COMMITTED keeps no
lock on the rows read. The two reads are one step: a status change between them
is seen as one before or after. Offsets count from 1, and `committed[p] = n`
means that Kafka's committed offset is that of message n + 1. A message is a bid,
a malformed record (skipped and committed) or an orphan (an auction or bidder the
database does not have). Messages are never removed from the log. Bids carry
no bidder: the verdict does not depend on it.

Library behaviour the model takes from the versions in `requirements.txt`:
SQLAlchemy 2 raises `PendingRollbackError` when a session whose flush failed is
committed, so that a replayed bid ends in an exception (`AlreadyProcessed`) and not
in the no-op the docstring of `decide_bid` expects. aiokafka without a listener revokes
partitions without waiting for the application, and a commit of a member of an
old generation is refused.

### AuctionRooms

State is that of `AuctionRoomManager` (`_connections`, `_relay_tasks`) plus the
suspended point of each task and socket handler. asyncio runs one step
between two suspensions; the bodies under `_lock` do not suspend, so `Connect`
and `Leave` are atomic. `task.cancel()` only marks a task (`cancelled`); the task
notices at its await (`Cancelled`) and then runs its `finally` (`Close`).
A relay task is named by the socket whose connect created it. A cancelled
subscribe is taken as one Redis never saw.

### RoleMembership and AccountSessions

Both model request handlers that share nothing but SQL Server. READ COMMITTED
keeps no lock on a row that was read, and SQLAlchemy writes (the sessions have
`autoflush=False`) after the handler has read and computed, so a handler is a
step that reads into a record `req[q]` and a step that writes and commits; any
other request may run between the two. Rows are written with the values computed
from what was read, and attributes set to the value they were read with are not
written: that is how a lost update shows. `Rollback` is `get_db_session`.

| Code | Model |
| --- | --- |
| `user_roles` with `assigned_at`, `users.primary_role_id` | `since`, `primary` |
| `require_local_role("Admin")`, `_get_user_or_404`, `get_role_by_name` | `Begin` |
| the `select` on `user_roles` | `LoadRoles` |
| `assign_role`, `revoke_role` and their commit | `Assign`, `Revoke`, `Refuse` |
| `sign_up` | `SignUp` in both modules |
| `users.password_hash`, its parameters, `failed_login_attempts`, `locked_until` | `pw`, `weak`, `failed`, `lock` |
| `refresh_tokens`, `password_reset_tokens` | `tokens` and `live`, `links` |
| `sign_in` up to the verification, its two ends | `SignIn`, `CompleteSignIn`, `FailSignIn` |
| `refresh`, `sign_out` | `Present`, then `Refresh`, `SignOut` |
| `reset_password`: its reads, `_revoke_all_refresh_tokens`, its commit | `BeginReset`, `RevokeAll`, `CompleteReset` |
| time, a new Argon2 policy | `LockElapses`, `ExpireToken`, `ExpireLink`, `RaiseHashPolicy` |

`reset_password` has a third step, since its `UPDATE` of the refresh tokens runs
before the commit: it locks the rows it changes (`Locked`), and tokens inserted
after it are not revoked.

Neither module holds what its docstrings promise once certain requests overlap,
so `clash[u]` records which pairs have overlapped on user u, and each property
names the pair that breaks it. In `RoleMembership` these are two revocations of
different roles, and a revocation and the assignment of the same role as the
primary one (`Clash`). In `AccountSessions` they are two failures; a failure that
locks while a sign-in that found an expired lock is open; a reset that commits
while a sign-in that found an outdated hash is; a sign-in or refresh that commits
between the revocation and the commit of a reset, or is open at that commit; two
requests on one token, one of them a refresh; two resets by one link. That is
sharper than assuming no overlap at all: every *other* overlap is in the run and
does no harm, and without its exception each of these properties is violated. What it cannot show is the
hazard itself, which the code has: the overlap an exception names does break the
property, and only the one of two revocations contradicts a comment of the code
(`roles_lost`).

### VehicleIntake

A request is a form, whose cells are ids from the dropdowns, or a sheet, whose
cells are labels that may name several rows of a table. `req[q]` is the
request, the row at hand, what its queries have found, and the results so far.

| Code | Model |
| --- | --- |
| `is_active` of the lookup tables, holders of the role "Seller" | `live`, `sellers` |
| `vehicle_listings` entered by staff | `listings`, with the request and row a listing came from as history |
| `get_makes` to `search_sub_sellers`, what the form offers | `OfferedModels`, `OfferedClients`, `OfferedSubs` |
| the queries of `create_vehicle_submission` and `_create_bulk_row` | `ReadMake`, `ReadModel`, `ReadClient`, `ReadSub` |
| the dictionary of errors of a row | `Errors`, `Reject` |
| insert and commit, `IntegrityError`, any other exception | `Insert`, `Duplicate`, `Unstorable` |
| the loop over the rows, the answer | `Report`, `Answered` |
| a lost connection, before or after the commit took effect | `Fail` |
| curators, and `role_service` on the role "Seller" | `Change` |

`changed` is history too: the reference rows edited while the row at hand was
read, which is all that its findings may have lost.

Abstractions. Make, model, client and sub-client are a step each, since they
depend on each other and change in between; branch, colour, keys, fuel, bidding model, year
and prices are one cell `rest` that is valid, unknown or parses but does not fit
its column. A chassis number that another path has listed is the same as one
entered before. The language of a label only adds to the rows it may name, so
`Bearing` gives those of both.

### SchemaMigrations

`Up_NNNN_name` and `Down_NNNN_name` are the two functions of each file of
`alembic/versions`, from a database to the set of databases it may leave, or
`Failed`. The results of a command (`Upgraded`, `Downgraded`, recursive functions of
the revision) are those of each migration on every result of the one before, and one that fails
is rolled back as a whole (`alembic/env.py` runs it in one transaction). `db` has the
objects of the schema; how often each group of seeded rows is there; the icons,
urls and parents that later migrations repair (`look`); the cards of the home
page; accounts with the role columns of all three generations (`users.role`,
`is_primary`, `primary_role_id`); and the auctions, bids and cars that
constraints look at. `Databases` is the set of values these have. Between commands users sign up, reset a seeded account's
password, receive roles, bid and are entered as sellers, and curators rename or
remove rows of the sidebar. At revision 29 a sign-up through the previous release,
which knows no `user_roles`, is possible while the stack rolls.

`Referenced` has the bids and the entered cars that refer to an account; at 0020
and 0021 `sub_seller_id` of a listing refers to users too, which is left out, since
0022 notes that the column never held data. Column types, lengths, translations
and the wording of seeded rows are abstracted; so are indexes other than the unique ones a migration can trip
over.

## 3. Runs

| Run | Result | Shows |
| --- | --- | --- |
| `bid_arbitration` | holds | with a crash and a rebalance: no committed offset passes over an undecided bid, refinement of `SerialArbiter`, announcements at most once, as decided and in order unless a partition moved, a current cache until a worker dies, at most one acceptance after closing |
| `bid_errors` | holds | with a failing call, an unstorable amount, a foreign message, a crash and a Redis restart: types, what is dropped is logged, the cache is backed by the ledger, accepted bids outbid |
| `bid_live` | holds | with a crash and a rebalance anywhere: every storable bid is decided, and every decision is announced unless a worker died |
| `rooms` | holds | one relay per room; no gaps, repeats or reordering, even when a Redis connection breaks; until it does, an occupied room keeps its relay and served updates arrive; empty rooms unsubscribe in every case |
| `roles_safety` | holds | with two overlapping requests: only two revocations of different roles take a last role; unless they or a revocation and the assignment of the same role as primary overlapped, the primary role is held and a promotion picks the longest-held role |
| `sessions` | holds | with two overlapping requests: unless two requests overlapped in the way it names, sessions end at a reset, the chosen password stays, a session has one active token and none after sign-out, failures lock in time, a lock lasts, a reset link works once |
| `intake` | holds | with two overlapping submissions, a change of the reference data and a broken connection: results are true and in row order, only unstorable values and failures end a sheet early, a car is listed once and as its row says, whatever changes between its queries; a form on offer is refused only if a row it names was edited |
| `migrations` | holds | upgrades and downgrades in any order with writes in between: schema and seeds of the revision, nothing but the data `UpgradeBlocked` names stops an upgrade, primary roles are unchanged and held, exactly one for an account with roles, accounts in use survive |
| `bid_error_drops` | violated | a failed call loses a bid: the next commit passes over it (`workers/auction_worker.py:72` promises redelivery) |
| `bid_lower_accepted` | violated | a failed call and a rebalance: a bid that is not the highest is recorded as accepted (`services/bid_service.py:128`) |
| `rooms_deaf` | violated | a broken Redis connection leaves an occupied room without relay (`ws/gateway.py:61-62`) |
| `roles_lost` | violated | two overlapping revocations leave a user without a role (`services/role_service.py:5-7`) |

Other disagreements between code and comments are visible in the actions
and have no run of their own: two decisions of one auction do overlap after a
rebalance (`services/bid_service.py:130-131` says exactly one is in flight);
a replay raises and is logged as failed instead of
being a no-op (`services/bid_service.py:132-133`), so the last offset of a
partition may stay uncommitted; a consumer error ends the worker
(`core/kafka.py:89-90` speaks of a restart with backoff); a reset leaves
`locked_until` alone while its answer says "You can now sign in"
(`api/v1/auth.py:129`); an overlapping sign-in or refresh outlives a reset
(`services/auth_service.py:218-219`), the exception in `SessionsEndAtReset`; a
decision whose worker died between its transaction and its announcement is never
announced (`services/bid_service.py:175`), the exception in
`AnnouncedUnlessCrash`; a sheet with a value that no column can hold is answered
with 500 after its earlier rows were committed (`api/v1/vehicle_intake.py:153-156`
says partial success is a 200), the exception in `AnsweredRowByRow`; legacy role
names that differ in case only lose all but one role, and an account its own
(`alembic/versions/0029_roles.py:33-37`), the exception in `AccountsSurvive`;
the downgrade of 0020 always fails, since it drops columns before the constraints
on them, so no downgrade passes it; and that of 0031 deletes its demo addresses
whoever they belong to.

Bounds. One auction and two messages per partition are enough for a replay, an
overtaking and a comparison with an earlier bid; two workers for every overlap of
two generations; amounts
1 and 2 (and 3, unstorable, where errors matter). `Budget` bounds each kind of
fault per run: one of each named kind, since each counterexample above needs at
most two faults. `MaxLog` stops publications, never decisions. The gateway has
two sockets, each of which may be the leaver, the joiner or the bystander of the
other's broadcast, three updates (a gap needs a first, a missing and a last
one) and one broken connection. `RoleMembership` has an admin and one user
(`Subjects`) with three roles, so that a promotion has a choice, and five rows
(`MaxRows`), enough to acquire, lose and reacquire one. `AccountSessions` has one
account (accounts share nothing), two request slots (each exception is about two
requests), three refresh tokens (a sign-in and two refreshes of the same token),
one reset link, which two resets may present at once, and a lockout after two
failures; `MaxOverlaps` admits no second commit with a harmful overlap, so that
each exception is seen next to every property it does not excuse. `VehicleIntake`
has two requests, makes that share a model label and clients that share a name,
so that a query without its cascade finds the wrong row, sheets of up to three
rows with a bad one before, between and after good ones, one change, to a make, a
model, a client or a sub-client (`Curated`), and one fault; its theorems cover sheets of any length. `SchemaMigrations` stops at
eighteen of the thirty-three revisions, all those where a write makes a later
migration behave differently (the others only seed rows), with three writes, two
accounts and three legacy names, of which one collides with a seeded name and two
with each other; its theorems cover all stops, accounts, names and numbers of writes. Commits that cover several partitions and resets through
different links are left to the theorem `NothingDropped` and to larger runs. Worker and socket identities are symmetric, and
symmetry is used only where no liveness is checked.

Deadlock is not checked: with all messages committed and all budgets spent
the platform is idle, and idle is a legitimate end. The same holds of the request handlers once the
rows or tokens of the bound are used up.

Fairness. `BidPipeline!Fairness` assumes that Kubernetes restarts a dead worker,
that the coordinator ends a generation that lost a member, that members join, and
that a running worker goes on with its one task. Nothing is assumed of clients,
of those who close auctions, or of faults. A crash loop is excluded by `Budget`
alone. `AuctionRooms!Fairness` assumes that the event loop runs what can run,
that a send to a client ends somehow, and that the handler of a vanished client
notices; a client that keeps its connection without reading is outside it.

## 4. Theorems

Proved by TLAPS for all values of the constants that satisfy their assumptions
(`PriceAssumption`, `KeyAssumption`, `BoundAssumption`, `SentinelAssumption`,
`RoomAssumption`: types, amounts are positive, each auction has one partition,
sentinels are distinct from what they stand for).

With every fault allowed:

* `TypeCorrect`. Inductive: `TypeInv`, which adds to `TypeOK` that the message a
  worker holds and every position lie in the log, and that bids lie in the
  partition of their auction.
* `DroppedLogged`, `CacheIsBacked`, `DecidedOnce`. Inductive: `DeliveryInv`. It
  adds that rows come from log messages and are unique per position, that every
  bid below a position a worker of the current generation may commit is decided,
  logged as failed, or in that worker's hand, and that a worker about to touch
  the cache has an accepted row. The middle part is why a commit of *all* held
  positions is harmless.
* `ToldOnceAsDecided`. Inductive: `TellInv`, which adds to `DeliveryInv` that a
  decision has one worker that tells it (`OneTeller`), that this worker finds it
  untold (`Untold`) and that all that has been told is in the ledger, once
  (`Truthful`). What starts a telling is the insert of a row that was not there,
  so the unique index carries this theorem too.
* `CacheIsCurrent` (the property itself says until which fault). Inductive:
  `CurrentInv`: an accepted bid is `Shown`: outdone in the cache, in it, or in the
  hand of the worker that is about to compare and set.

While no call of a decision fails (`Budget["error"] = 0`; crashes, rebalances,
foreign messages and Redis restarts are free):

* `NothingDropped`, `Arbitration`, `AcceptedIsHighest`. Inductive: `LedgerInv`,
  `DeliveryInv` and: only what can have no row was ever logged as failed; the
  decided bids of a partition are a prefix of it, up to what no table can hold;
  the verdict of a worker about to insert an *undecided* message is still the
  right one. The last part is the heart: between the read and the insert another
  worker may insert, but by the prefix property that can only be the same
  message, and then the unique index refuses the late one.
  The assumption is needed: `bid_error_drops` and `bid_lower_accepted` refute
  the conclusions without it.
* `LateAcceptance`. Inductive: `LateInv`, which adds to `LedgerInv` that after a
  late acceptance nobody holds a winning verdict for another bid of the auction.
* `ToldInOrder`, for a topic of one partition. Inductive: `OrderInv`, `LedgerInv`
  and `TellInv` and: rows come in the order of the log (`LogOrder`); and, until the
  partition moves away from a living worker, only its owner works (`OwnersWork`)
  and what has still to be announced is the latest row (`Newest`). With more than
  one partition a crash may move the others from living workers, and the
  property fails.

With failing calls and dying workers, in a topic of one partition that is never
moved from a living worker (`Budget["rebalance"] = 0`, as in the run `bid_errors`):

* `AcceptedIsHighestUnmoved`: `AcceptedOutbids` again. Inductive: `SettledInv`: who
  has work in hand is the owner (`OwnersWork`, which `ToldInOrder` uses too), and the
  accepting verdict of a worker about to insert is right for the rows there are
  (`VerdictsStand`), because nobody else inserts in between. So a failed call alone
  does not let a lower bid be accepted after a higher one; `bid_lower_accepted`
  needs the rebalance as well.

For the gateway, with every fault allowed:

* `RoomTypesHold`. Inductive: `FeedTypes`, which adds to `TypeOK` that a task in
  the middle of a broadcast has the update it sends.
* `OneRelay`. Inductive: `RelayInv` (`RoomTypes`, a task exists only after its
  socket connected, and a room without members has no registered task).
* `FeedsAreContiguous`. Inductive: `FeedInv`. The inbox of a subscribed task is
  gapless and ends with the latest update published (`Queued`), the sockets a
  broadcast still has to serve or has found dead are of its room (`Members`), and
  an open client that has received something is next sent exactly the update
  after its last one by the one task that relays to its room (`Awaited`). That
  there is one is `OneRelay`; without it a second task would repeat updates.

Until a Redis connection breaks:

* `RelayLives`. Inductive: `AliveInv`. A room has members exactly if it has a
  registered task, and that task is at work. The assumption is needed: `rooms_deaf`
  shows the room that no longer has one.

For vehicle intake, with any number of requests, sheets of any length and any
changes and faults (`IntakeAssumption`, `SlotAssumption`: lookup rows have types,
sentinels are no rows, sheets are not empty):

* `IntakeTypeCorrect`. Inductive: `IntakeTypes`, which adds to `TypeOK` that a
  sheet has exactly one result for each row before the one at hand (`Position`) and
  that a form goes on only with cells that named something (`FormFound`).
* `ReportsAreTrue`, `RowsAreAnswered`. Inductive: `ReportInv`, which relates the
  results to the table row by row: a listing comes from a row its sheet has passed, or from
  the row at hand if the request ended there with a fault (`Origin`), no two
  listings share a chassis number (`OneCar`), and the result of every earlier row is
  "created" exactly if there is a listing from it. No lock protects the commit of
  a row; the unique index is what keeps the invariant through the overlap.
* `OffersHold`, `SheetsAreFollowed`. Inductive: `LookupInv`: what a request has
  found are rows its cells stand for, each still on offer or edited since, and a
  model and a sub-client fit the make and the client found before them (`Says`);
  a form filled from the dropdowns of which no row was edited is still on offer and
  was not refused (`Offer`). `Says` needs no assumption on what changes, because each
  query goes by what the one before has found and not by its cell.

For roles, with any number of users, roles and requests: `RolesTypeCorrect`,
`RoleKept`, `PrimaryHeld` and `PromotionByAge`. Inductive: `RolesInv`. It says what
an open request may still rely on. `Newer`: a row that an open request has not
seen is younger than all those it has. `RowsThere`: unless two revocations of
different roles have overlapped, the rows a revocation has read, but for the one
it is about to delete, are in the table with the same `assigned_at`; so of the two
or more it has read at least one survives its delete. `Fresh`: unless either
overlap has happened, a revocation of the present primary role has read that it is
the primary one, and the role an open assignment is to make primary is held if it
has seen it held. That a row with the smallest `assigned_at` exists is by
well-founded induction on the naturals.

For accounts and sessions, with any number of accounts, requests, tokens and
links and any overlap (`SessionAssumption`: the limit of failures is positive;
`SlotAssumption`: a free slot is no job). Every invariant says what an open
request may still rely on as long as the overlap that could hurt it has not
happened; when a request commits, each other open request either is untouched by
it or has met it, which `clash` records (`Overlaps`).

* `SessionTypesHold`. Inductive: `SessionTypes`, which adds to `TypeOK` that what
  a request names exists and is its user's (`Backed`) and that a session has one
  user (`Sessions`).
* `LocksInTime`, `LocksStand`. Inductive: `LockInv`. `Counted`: neither the
  counter nor what an open failing sign-in has read of it is behind the failures
  in a row. `AdmittedBefore`: a sign-in that will clear a lock, open while the
  account is locked, has met the failure that locked.
* `PasswordsStand`. Inductive: `PasswordInv`: an open sign-in that will write a
  new hash has verified the password chosen last.
* `LinksAreSingleUse`. Inductive: `LinkInv`: completed resets are at most the used
  tokens, and an open reset holds one that is not used.
* `SessionsEnd`. Inductive: `YoungInv`: live sessions and those about to begin or
  go on are younger than the last reset, and a reset that has revoked has seen
  every live one; so at its commit none is left.
* `OneToken`. Inductive: `TokenInv`. The tokens that count are the live ones and
  those an open refresh has read (`Held`): no two are of one session, none is of
  an ended one, and an open sign-out has read the one of its session. With the
  live ones alone it would not be inductive: a token may expire while a refresh
  that has read it is open.

For the migrations, with any accounts, legacy role names, collation, stops and
number of writes (`MigrationAssumption`: the collation keeps the three seeded
names apart, NULL is no name; `FailureAssumption`: a command that raised is told
from a database): `TypeInvariant`, `SchemaIsOfRevision`, `SeedsAreOfRevision`,
`HeadIsReachable`, `PrimaryRoleIsHeld`, `AccountsAlwaysSurvive`.

* Inductive: `StateInv`, which is `Inv(rev, edited, db)` and the types of the other
  variables. `Inv` says of each of the thirty-three revisions what a database there
  is: its schema (`SchemaAt`, with the nullable titles that 0007 leaves behind as
  `RestoredAt`), its seeded rows (`CopiesAt`, `LookAt`, as long as curators have not
  touched them), its cards (`FeaturedInv`), the rows that foreign keys look at
  (`RowsInv`) and the role columns of every account (`UsersInv`). The properties
  compare with a new installation; `Inv` has to name the value, because a migration
  knows only the database it finds.
* `UpInv` and `DownInv`: a migration that does not raise takes `Inv` of its revision to
  `Inv` of the next, one lemma per kind of object it touches. `UpgradedIn` and
  `DowngradedIn` carry to the target of a command what each migration on its way
  preserves. They are by well-founded induction over the revisions, for a set of
  databases at each of them in place of a predicate.
* `HeadIsReachable` carries `Passable` along that path as well: what blocks no migration
  still ahead. From the empty database it shows that a new installation never
  raises, so that `Installed` is a database.
* `AccountsAlwaysSurvive` is about two ends of a path, which `Inv` does not relate.
  `KeptUp` and `KeptDown` do: they compare the database on the way with the one the
  command began with, account by account, and contain the three exceptions.

Only model-checked is liveness (fairness and ENABLED are outside the prover).
Every safety property of the passing runs has a theorem, under the
assumption named with it.

## 5. Not modelled, and the plan

Still worth doing, in this order:

1. `verify_email`: the verified flag and its tokens, which no other operation
   of the accounts reads.
2. `BidFeed` - composition of `BidPipeline`'s `updates` with `AuctionRooms`: what
   a browser sees of the ledger, end to end.

Left out for good:

* the payments report, the public content and the admin dashboard: they read
  tables that only migrations write (`SchemaMigrations` has those writes), map rows
  to JSON and change nothing. The report takes its count and its page in two
  statements, but no operation of the program comes between them, since none
  writes `vehicle_payment_records`;
* the upload of registration documents: it writes a file under a fresh name that
  nothing else reads;
* wiring, settings, logging, metrics, health checks (no state), token signatures
  and password hashing (library arithmetic), JSON layout and HTTP status texts;
* the pool of Redis connections, which a relay cancelled while it subscribes
  leaks into (`ws/gateway.py:66`), and a client that keeps its socket open
  without reading, which holds up `send_text` and with it the room
  (`ws/gateway.py:82`): the first is below the model's level, the second outside
  its fairness;
* two sign-ups with one address, of which the unique index refuses the second
  with a 500 (`services/auth_service.py:99`): no state is harmed.
