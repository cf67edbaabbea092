# Fish fry orders: formal models

The program takes the orders of a parish fish fry. A Go server
(`src/cmd/server`, `src/internal`) answers HTTP requests over one PostgreSQL
database and pushes changes to browsers over WebSockets; a React frontend
(`src/frontend`) shows a list of the orders of the current *session* (one
event, normally one day). This directory holds TLA+ modules of the parts that
decide whether the list, the numbers customers are called by, the menu and the
totals of the evening are right, and whether the server comes up, answers and
goes down as it should; the TLC configurations that check them, and TLAPS proofs
of the main results.

Contents: [the system](#the-system), [modules](#modules),
[how the models correspond to the code](#how-the-models-correspond-to-the-code),
[runs](#runs), [proofs](#proofs), [where code and documents
disagree](#where-code-and-documents-disagree), [what is not
modelled](#what-is-not-modelled), [plan](#plan).

## The system

All paths are under `src/`.

### Parts, their state and their operations

| Part | Source | State | Operations |
| --- | --- | --- | --- |
| Order numbering | `internal/database/postgres.go:528-587`, `:772-817` | tables `orders`, `order_items`, the id sequence, an advisory lock per session | `CreateOrderWithItems`; `PurgeOrdersToday`, `PurgeAllOrders` |
| Sessions | `internal/api/session.go`, `internal/database/postgres.go:27-335`, migration `000002` | table `sessions` (status, expiry, final statistics) | read the current one, create, update (extend, rename), close, reconcile; expiry by the clock |
| Orders | `internal/api/orders.go:86-503`, `postgres.go:435-770` | tables `orders`, `order_items` | create, list, edit, mark with a status, purge |
| Menu | `internal/api/menu.go`, `postgres.go:339-433` | table `menu_items` | list, create, update, delete, reorder |
| WebSocket hub | `internal/api/orders.go:506-837` | the map of connected clients, its lock | register, send the first snapshot, broadcast, drop dead clients |
| Frontend order list | `frontend/src/hooks/useOrders.ts`, `useWebSocket.ts` | each browser's list, statistics and session | load, apply a message, reconnect |
| Authentication | `internal/auth` | map from cookie to role | log in, log out, look up, require a role |
| Migrations | `internal/database/config.go`, `cmd/migrate/main.go`, `internal/database/migrations` | table `schema_migrations`, and the schema | up, down, status; in the server, retried in the background |
| Server lifecycle | `cmd/server/main.go` | `dbUp`, the answer of the last ping | start without a database, monitor it, answer 502 while it is down, shut down |
| Reports | `session.go:305-487`, `postgres.go:267-322` | none | history, orders of a session, comparison |
| Metrics, logging, configuration | `internal/metrics`, `logger`, `config`, `database/pool.go`, `init.go` | counters, the pool | |

### How they interact

Each HTTP request runs in a goroutine of its own. A handler calls repository
functions in sequence, and each of these is one or more SQL statements taken
from the connection pool; only `CreateOrderWithItems`, `UpdateOrderWithItems`
and `UpdateMenuItemsOrder` put their statements into a transaction. So the
shared state is the database, the unit of atomicity is the statement, and
**what a handler has read may be out of date when it writes**. Three
interactions carry most of the logic:

* Every read of the current session, from whichever handler, first *writes*:
  `reconcileActiveSessions` closes the sessions that have expired and all but
  the newest of the others. The statistics that every change of an order
  broadcasts are one such read, so practically every request reconciles.
* An order belongs to the session that was active when its handler asked;
  closing a session counts its orders, writes the count into the session's row
  and completes its open orders, in three separate statements.
* After a change the handler reads the order again and writes a message to
  every connected browser itself; there is no queue.

### What is hard about it

* Interleavings: two orders competing for a number, two reads that both find
  no session and both create one, a close between the statements of an order,
  an edit or another close; several handlers writing to one WebSocket.
* Partial failure: each statement may fail by itself, with everything before it
  committed. `CloseSession` ignores errors of half of its statements.
* Time: sessions expire by the clock, at the end of the day or whenever an
  admin said; orders are purged by day.
* Locks: three transactions lock several rows of the menu or of orders, one of them
  in the random order of a Go map, and a foreign key locks rows nobody names.
* Restart: the database keeps everything but who is logged in and connected.
  A server that goes down leaves the handlers of the moment half done; a new one
  may run beside it, and migrate the database beside a person who does the same.
* Unguarded memory: the map of logins is written and read by requests without a
  lock, and Go ends the process when it notices.

`hazards` in `PROJECT.json` lists these one by one, at the lines where they
bite, with the properties that cover each.

### What makes each part correct

* Numbering: numbers of a session are unique, in order of arrival, without
  gaps while nothing is purged; no order is turned away because of its number;
  no request waits for ever for the lock or the pool.
* Sessions: at most one is `ACTIVE` once the index exists; reconciling never
  closes the one in use; a closed session stays closed, with a snapshot that
  says what it took and with no open orders.
* Orders: only admins edit an order once it is started; nothing is added to a
  session that is closed.
* Hub and list: once the requests of the evening have been answered, every
  connected browser shows the orders as they are in the database.
* Menu: an edit changes what it was asked to change, and nothing else unless
  overtaken; items on show have display positions of their own; no order refers to an
  item that is gone; no two transactions block each other for ever.
* Authentication: who has been let in is known to every later step of the request.
* Migrations: each runs once, in order, and is recorded if and only if it ran; a
  server finds the database migrated in the end.
* Lifecycle: an internal error is shown as a bad gateway only if the database was out
  of reach; every request is answered; a process told to end does.
* Reports: figures shown together belong together; totals add up.

## Modules

| Module | What it is |
| --- | --- |
| `TicketRoll` | Abstract: what the desk promises about numbers, a roll of tickets per session |
| `OrderNumbers` | `CreateOrderWithItems` statement by statement, run by many requests, beside the purges |
| `OrderNumbersProofs` | Its inductive invariant, the theorems that follow, and that it implements `TicketRoll` |
| `SessionLedger` | Abstract: what the desk promises about sessions and orders, a ledger in which every entry is one step |
| `SessionDesk` | Every handler that writes to sessions or orders, statement by statement, with the clock, failures and migration 000002 |
| `SessionDeskProofs` | Its inductive invariant, the theorems that follow, and that it implements `SessionLedger` |
| `NoticeBoard` | Abstract: what the lists in the browsers promise, boards that show what notices say of a table |
| `OrderBoard` | The WebSocket hub, the handlers as far as they write to it, and the list of orders in each browser |
| `OrderBoardProofs` | Its inductive invariant, the theorems that follow, and that it implements `NoticeBoard` |
| `MenuBoard` | The menu and the lines of orders that refer to it, statement by statement, with row locks and the deadlocks PostgreSQL resolves |
| `MenuBoardProofs` | Its inductive invariant and the theorems that follow |
| `MigrationLadder` | Abstract: what migrating promises, a ladder climbed rung by rung |
| `Migrations` | The migration tool and the migrations of the servers on one database, with crashes and lost answers |
| `MigrationsProofs` | Its inductive invariant, the theorems that follow, and that it implements `MigrationLadder` |
| `Server` | The process: requests, logins, pool, monitor of the database, shutdown and restart |
| `ServerProofs` | Its inductive invariant and the theorems that follow |
| `Reports` | History, comparison and lists of orders, put together from several statements while orders change |
| `ReportsProofs` | Lemmas about sums over finite sets, its inductive invariant and the theorems that follow |
| `LargestElements` | Lemmas the proofs share: a bounded nonempty set of naturals has a largest element, and any nonempty one a smallest |
| `MC_OrderNumbers`, `MC_SessionDesk`, `MC_OrderBoard`, `MC_MenuBoard`, `MC_Migrations`, `MC_Server`, `MC_Reports` | Instances for TLC (symmetry) |

Only `TicketRoll`, `SessionLedger`, `NoticeBoard` and `MigrationLadder` are instantiated by other
modules. The detailed modules are views of one program that meet at the database, and each takes
what the others look into as a single step, as follows.

`OrderNumbers` looks into the one transaction that `SessionDesk` takes as a
single step (`PlaceOrder`). That is sound because nothing the transaction
reads or writes before its commit is seen by, or depends on, what the other
handlers of `SessionDesk` do: it reads the orders of its session and touches
neither `sessions` nor any existing order.

`OrderBoard` looks at the other end: at what becomes of a change once it is in the
database. It takes one session from when it is active to after its close and
keeps of each handler the statements that change an order's row or the session,
the ones that read what is announced, and everything after them.

`MenuBoard` has of an order what `SessionDesk` leaves out, its lines; neither reads
what the other writes. `Reports` only reads. `Server` is around all of them: the
handlers the others are about are one query there, and what it says of the process
and its logins holds of each of them. `Migrations` comes before: the desk starts with
migration 000002 made or not, which is where `Migrations` may stand when a server
begins to answer.

## How the models correspond to the code

`map` in `PROJECT.json` names the lines of each definition. In outline:

**`OrderNumbers`.** A record per request says how far its transaction is; an
action per statement moves it on: `Begin` (a connection from the pool, and
`created_at`), `AcquireLock` (`pg_advisory_xact_lock`), `ReadNextNumber`
(`SELECT MAX + 1`), `InsertOrder`, `InsertItems`, `Commit`, and `Rollback` at
any point, the deferred one. Rows inserted but not committed live in the
request's record and are invisible to other statements, as at READ COMMITTED;
the unique constraint sees them (`Pending`: wait; `Taken`: fail). The id
sequence is not rolled back. A purge is a `COUNT` and a `DELETE`
(`PurgeCount`, `PurgeDelete`), with the day read from the clock before them.

**`SessionDesk`.** A call has a `kind`, which handler it is for: `order`
(`CreateOrder`), `view` (`GetCurrentSession` and every other read that
reconciles), `open` (`CreateSession`), `extend` (`UpdateSession`), `close`
(`CloseSession`), `status` (`UpdateOrderStatus`), `edit` (`UpdateOrder`), `purge`
(`PurgeOrders`). `call[c].pc` is the statement the handler runs next, and the
other fields are what it has read; they are the local variables that go stale.

| Code | Actions |
| --- | --- |
| `reconcileActiveSessions` | `ReconcileExpired`, `ReconcileDuplicates` (twice for an order: `GetOrCreateActiveSession` calls `GetActiveSession`, and both reconcile) |
| `GetActiveSession`, `GetOrCreateActiveSession`, `CreateSession` | `SelectActive`, `SelectNone`, `CreateSession` |
| `CreateOrder` after that | `CheckExpiry` (409 if the row *as it was read* has expired), `PlaceOrder` |
| `UpdateSession` | `ReadSessionToUpdate`, `UpdateSession` (writes back the status it read) |
| `CloseSession` | `ReadSessionToClose`, `GetSessionStats`, `CloseSession`, `CompleteAllSessionOrders` |
| `UpdateOrderStatus`, `UpdateOrder` | `ReadOrderToMark`, `ReadOrderToEdit`, `WriteOrder`, `WriteDeletedOrder` |
| `PurgeOrders` | `ReadDayToPurge`, `PurgeOrders` |
| `BroadcastStatsUpdate` at the end of each of these | the two reconciling actions, from `statsExpire` and `statsPrune` |
| any statement fails; the server goes down | `Fail` |
| migration 000002 | `EnforceSingleActive` |

Data is reduced to what the properties tell apart: a session is its status,
start, expiry and final order count; an order its session, status and day.
Revenue follows the count and is left out, so are names, notes and items. Time
is a clock that ticks at any moment, `DayLength` ticks to a day, the last of
which is the second 23:59:59 up to which automatic sessions last. Server and
database share the clock and the time zone.

`late` is a history variable: it notes, per session, that after one of its
closes had counted its orders an order was *placed* in it or *purged* from it,
or after one had completed them an order was *reopened*. No action reads it.
It makes it possible to say what a snapshot is worth: exactly as much as
nothing of the kind happened, and the documented promises that ignore those
cases are shown to be false by runs of their own.

**`OrderBoard`.** `orders` and `open` are the database; `call` says where each handler
stands, `serve` where the `HandleWebSocket` of each connection does; `clients` is the
hub's map; `link` and `wire` are the network; `rows` and `load` the page.

| Code | Actions |
| --- | --- |
| `CreateOrder` | `FindSession`, `PlaceOrder`, `ReadBack`, then a broadcast |
| `UpdateOrderStatus`, `UpdateOrder` | `ReadOrder`, `WriteOrder`, then a broadcast of what was written |
| `PurgeOrders` | `PurgeOrders`, then the statistics only |
| `CloseSession` | `FindSession`, `ShutSession`, `CompleteOrders`, then a broadcast |
| `broadcastToClients` | `CopyClients`, a write to each copied connection, `EndBroadcast` (removes those that failed) |
| `BroadcastStatsUpdate` | `SkipStats` if it cannot compute them, else another broadcast |
| `getOrderResponse` | `Reply`, and `Arrive` in the page that asked |
| `HandleWebSocket` | `Register`, the session (a write), `ListNone`, `FindSessionToList`, `ListOrders` or `FailList`, an update for each order (writes), the statistics (a write), `Leave` |
| a write to a connection | `Write`, `FailBroadcastWrite`, `FailServeWrite`; `Meet`, `PanicInBroadcast`, `PanicInServe` |
| `useOrders` | `FindSessionToLoad`, `ServeLoad`, `FailLoad`, `TakeLoad`, `Reload`; `Receive`, `Arrive` |
| `useWebSocket` | `Connect`, again after the last connection is closed |

The library allows one writer per connection and the program does not see to it.
`Meet` lets the writes of two goroutines to a connection overlap; from then on each
of them may get through, be lost to the browser, or panic, and a `WriteJSON` may fail
as well, because the start of another message closes the one it is writing. (A
frame that arrives damaged makes the browser close the connection: `Break`.) In a
broadcast the panic is caught by the middleware `Recover` and ends the handler; in
`HandleWebSocket` it also runs the deferred functions, which unregister and close.
An open connection delivers in order, a broken one nothing of what is under way.

Messages with statistics and session details are written, fail and overlap like the
others but are not followed into the page. An order is its id and status.

`raced` is a history variable: the pairs of browser and order about which the
browser may be wrong, because the order changed while something older about it was on
its way to that browser (`Overtaken`, `FoundOpen`), because nobody announces the change
(`Untold`: a purge, a failed or panicked handler, an order placed after the close), or
because an announcement nothing makes up for was lost (`MissedWith`, `MissedBy`). No
action reads it, and none of its cases is decided by the hub's map, so a connection
that the hub forgets is an error and not an excuse.

**`MenuBoard`.** `menu` and `orders` are the committed rows; a call's record holds what
its handler has read, what its transaction is going to do, and the rows of `menu_items`
it has locked.

| Code | Actions |
| --- | --- |
| `CreateMenuItem` | `ReadMaxOrder` (`MAX(display_order) + 1`), `InsertMenuItem` |
| `UpdateMenuItem` | `ReadMenuItem` (404), `UpdateMenuItem`: all fields, as read but for those given |
| `DeleteMenuItem` | `ReadMenuItem`, `LockToDelete`, `DeleteMenuItem` (`ON DELETE SET NULL` reaches the lines) |
| `UpdateMenuItemsOrder` | `BeginReorder`, `UpdateRow` for each item in any order, `CommitReorder` |
| `CreateOrder`, `UpdateOrder` | `BeginOrder`, `CaptureItem` (name and price), `OpenOrder`, `InsertLine` (the foreign key), `CommitLines` |
| a body that cannot be used | `Refuse` |
| any statement fails; the deferred `Rollback` | `Fail` |
| PostgreSQL's deadlock detection (external) | `DetectDeadlock` |

`Against` is PostgreSQL's table of row locks for the four kinds of statement there are,
and `WaitsFor` which transaction keeps which waiting; an edited order's own row and the
lines it has deleted are locks too (`Rewriting`). A `Circle` is a smallest set of calls
that all wait for one of their own. `said`, `spoilt` and `muddled` are histories: what
each field was last asked to be, which fields an edit that was overtaken wrote back, and
whether two items on show may share a position.

**`Migrations`.** A process is a run of the tool or a server; `runner` says which file it
is at and how far.

| Code | Actions |
| --- | --- |
| `main` of `cmd/migrate` | `StartTool` (`up` or `down`) |
| `runMigrationsUp`, `runMigrationsDown` | `CheckApplied`, `Execute` (`BEGIN`, the file, the record), `Commit` |
| `runMigrationsWithRetry` | `StartServer`, `Retry` |
| `Config.Migrate` (external library) | `ReadVersions`, `LookForTable`, `Adopt`, `Execute`, `Commit` |
| the database goes and comes back | `DbDown`, `DbUp`, `Fail` |
| a process ends | `CrashTool`, `CrashServer` |

A `COMMIT` may succeed and its acknowledgement be lost (`acked`). A file is one step: it
makes its change or fails (`Runs`), because the first file makes the tables and cannot run
twice, and later ones need it. `status` only reads.

The library is not in the repository. That it records what it has run in the table
`schema_migrations`, each file in a transaction of its own with its record, and adopts a
database that has the table named by `BootstrapTable` but no records, is taken from its
options and from the helpers with these names that `config.go:114-208` still has and no
longer calls.

**`Server`.** `req` says where each request stands, `proc` where the process does.

| Code | Actions |
| --- | --- |
| `main`: start, stop, shut down | `Restart`; `Stop`, `Drained`, `AbandonRequests`, `ClosePool`; `Kill` is Kubernetes' |
| `monitorDatabase` | `BeginPing`, `EndPing` |
| `/health` | `Health` |
| `errorLoggingMiddleware`, `shouldReturnBadGateway` | `Shown`, in every answer that is an error |
| `auth`: `Login`, `Logout`, `HandleCheck`, `Middleware`, `RequireRole` | `Login` and `StoreLogin`, `Logout`, `Check`, `Authenticate`, `RequireRole` |
| a handler's database work | `Acquire`, `Query`; `LookUpAgain` for `UpdateOrder`; `FirstLists` for `HandleWebSocket` |
| a client leaves | `GoAway` |
| Go's check of maps used by two | `MapFault` |
| the database answers, refuses or hangs | `DbChanges` |

The steps of a request on the map of logins are apart from each other because the map has
no lock; two of them at once, one of them a write, may end the process. A cookie outlives
the process in the client's `jar`, the login it stands for does not. `doubt` is a history:
was the database out of reach, or the pool full, since a ping last succeeded?

**`Reports`.** One report at a time, beside orders that are placed, edited and purged:
reports write nothing and so do not affect each other. `ReadSession`, `ReadStats`,
`ReadBreakdown`, `ReadOrders` and `ReadItems` are the statements of `CompareSessions`,
`GetSessions`, `GetSessionOrders` and `GetOrders`; `Fail` is what each of the four does if
one fails. No reader of rows asks `rows.Err`, so each statement that reads several rows
may also return some of them only. `TotalOrders`, `TotalRevenue`, `ItemTotals` and
`Percent` are the sums of `CompareSessions`, in whole units. `moments` is a history: the
contents of `orders` at every moment of the report.

## Runs

| Run | Config | Checks | Size |
| --- | --- | --- | --- |
| `order_numbers` | `OrderNumbers_all.cfg` | `NumberStaysFree`, `IdsFollowNumbers`, `NoGapsUnlessPurged`, `IndInv` (with `TypeOK`), `ImplementsTicketRoll`, `EveryRequestEnds` | 3 requests, 2 sessions, 2 connections, 1 purge, 2 days |
| `desk_all` | `SessionDesk_all.cfg` | `IndInv` (with `TypeOK`), `SingleActive`, `SweepKeepsTheNewest`, `KeepsTheLedger` | 2 calls of all eight kinds, 3 sessions, 2 orders, 4 ticks, 2 to a day |
| `desk_closing` | `SessionDesk_closing.cfg` | `SnapshotNeverTooLow`, `SnapshotNeverTooHigh`, `CloseSettlesUnlessRaced` | 3 calls around a close |
| `board_agree` | `OrderBoard_agree.cfg` | `ListsAgreeUnlessRaced`, `IndInv` (with `TypeOK`), `ShowsNotices` | 1 browser, 2 calls of all kinds but edits, 1 order |
| `board_reconnect` | `OrderBoard_reconnect.cfg` | `ListsAgreeUnlessRaced`, `NoRowThrice` | 1 browser, 2 connections, 2 loads, 1 call of all kinds but changes of status, 1 order |
| `menu` | `MenuBoard_all.cfg` | `FieldsAsLastSaid`, `PositionsDistinctUnlessMuddled`, `LinkedItemsExist`, `IndInv` (with `TypeOK`), `EveryCallEnds` | 2 calls of all six kinds, 2 items and room for a third, 2 orders, 2 prices |
| `migrations` | `Migrations_all.cfg` | `TypeOK`, `RecordedInOrder`, `RecordedAsRun`, `SuccessMeansApplied`, `IndInv`, `ClimbsTheLadder`, `ServersSettle` | 2 runs of the tool, 2 servers, 3 files, 1 end of a server |
| `server` | `Server_all.cfg` | `BadGatewayHasCause`, `LoginsLast`, `IndInv` (with `TypeOK`), `FlagFollows`, `RequestsEnd`, `StoppedEnds` | 2 requests of all eight kinds from 1 client, 1 connection, 2 logins, 2 starts |
| `reports` | `Reports_all.cfg` | `IndInv` (with `TypeOK`), `StatsOfOneMoment`, `QuietComparisonAddsUp`, `ListedTotalsWereTrue` | 2 sessions and an unknown one, 2 items, 2 orders, 2 changes, 2 ids compared |
| `desk_reopen`, `desk_edit`, `board_broadcast` | see below | one documented promise each; violated | 1 or 2 calls |

The passing runs are exhaustive at their size: from a hundred thousand distinct states
(`server`) to two and a half million (`board_agree`), in half a minute to two and a half minutes each.

*Why these bounds.* The hazards are races of two actors, sometimes with a third
that sets the stage: two transactions compete for a number while the third
holds the lock or has just rolled back; a close and an extension race while an
order arrives. Two connections for three requests is the smallest pool at which
somebody waits for a connection while somebody else waits for the lock. Two
ticks to a day are the fewest at which the end of a day differs from its
beginning, and two days the fewest for expiry by the clock and for a purge that
calls the wrong day today. `Init` includes a desk that is in the middle of a
session, with an order in any state, so that the calls need not be spent on
getting there. Sessions and orders are bounded by the size of the tables: a
call that would insert a row beyond it waits, and is not counted as a deadlock.
For every larger instance of these two there are the proofs, which do not use the
bounds.

The hazards of the board are races between the answer of a GET, a snapshot and one or
two broadcasts on the way to *one* browser; two calls and the handler of the connection
are three writers that may overlap. A second connection
is needed for reconnecting, a second load for a reload. Browsers interact only in that a
broadcast writes to them in turn and that a panic at one keeps it from the rest; with two
of them the states are too many for an exhaustive run. One browser sees the effect of
both: its message is late, or never comes. `Init` of the board has an order that is new,
or none, and no page has loaded yet. With one order a snapshot is one message, and a
broadcast comes before or after it; what comes between the messages of a longer one
comes before or after each of them.

On the menu a lost update and a circle take two calls, each with two items; the third item
is one that is made meanwhile. On an order that is there from the start (one of the states
of `Init`) an edit, a deletion and a reordering meet. Migrations are three although there
are two in the repository: the first, a last one, and one between them, each reentrant or
not; two servers are a rolling update. In `Server` one connection is the smallest pool, and
the second request is the one that finds it empty, or the map in use. A report compares one
session twice, two of them, or one that does not exist, while two changes come in between.

*Symmetry.* Requests and sessions of `OrderNumbers`, calls and browsers are
interchangeable: no action compares or orders them.
Symmetry is declared in runs of invariants and of action properties only, not where
liveness is checked: `order_numbers`, `menu`, `migrations`, `server`.

*Deadlock* is not checked: when all requests are answered and the clock has
reached its bound, the model stops as a desk does at the end of the day. That
requests do not block each other for ever is what `EveryRequestEnds`, `EveryCallEnds` and
`RequestsEnd` say.

*Fairness.* `EveryRequestEnds` needs `WF_vars(Advance(r))` for each request:
its next statement, if it has nothing to wait for, gets an answer. The code
justifies it: a handler's goroutine is scheduled until it returns, and
PostgreSQL works through a statement that is not blocked. Failures are
possible at any point but owed at none: were `Rollback` part of the fairness, it
would get every request out of every wait, and the property would say nothing
about lock and pool. A step that waits for the pool or the lock is disabled, so
weak fairness does not promise that it gets through; that the holder always
lets go is what is checked. (A request can be passed over only as often as
there are others; PostgreSQL and the pool queue their waiters, which the model
does not assume.) Nothing is assumed of the clock or of purges, and no safety
property uses fairness.

The same holds of `EveryCallEnds`, with one more assumption: PostgreSQL looks for
circles and fails one call of each (`WF_vars(DetectDeadlock(c))`), as it does after
`deadlock_timeout`. In `Migrations` every process goes on (`WF_vars(Step(r))`); that
contains starting a server again after it ended, which the Deployment does, and trying
again, which is the ticker of `runMigrationsWithRetry`. The database owes nothing:
`ServersSettle` is about the case that it stays up. In `Server` requests go on, the ticker
of the monitor ticks and its ping has a timeout, and `Shutdown` has a deadline; the
database, the clients and Kubernetes owe nothing, and a query returns only when the
database lets it. `RequestsEnd` and `StoppedEnds` are about databases that do not hang for
ever.

### Properties

Of numbering:

* `NumberStaysFree`: from the moment a transaction has read its number to its
  commit, the number is above all committed ones of its session. This is what
  the advisory lock is for; it fails if the lock is taken after the `SELECT`, or
  released before the commit.
* `IdsFollowNumbers`: numbers and ids have the same order within a session, so
  that the list sorted by number is in order of arrival.
* `NoGapsUnlessPurged`: numbers are 1 to n in spite of rollbacks.
* `ImplementsTicketRoll`: each commit issues exactly one ticket above those on
  file, each purge discards some, nothing else touches them.
* `EveryRequestEnds`: every request that has come in commits or fails.

Of sessions:

* `SingleActive`: after migration 000002 at most one session is `ACTIVE`. It
  is the index that makes it so: before it exists two orders that find no
  session both make one, and an update may bring a closed session back beside
  its successor.
* `SweepKeepsTheNewest`: a live session is closed only by an admin, or because
  a newer live one stays in the same step. Requests reconcile all the time;
  one of them could close the session everybody is working in.
* `SnapshotNeverTooLow`, `SnapshotNeverTooHigh`: the final count is no less than
  the orders the session has unless one was placed after a close had counted,
  and no more unless some were purged after that; with neither it is exact,
  however often the session was closed, reopened or extended.
* `CloseSettlesUnlessRaced`: a close answered with 200 leaves no order open but
  those placed or reopened afterwards.
* `KeepsTheLedger`: each statement makes one entry of a ledger, or none; an order that is
  discarded stays so, and what is filed of a session was counted at some time.

Of the board:

* `ListsAgreeUnlessRaced`: when no call has anything to announce any more, each browser
  that has its list and a connection that has caught up shows exactly the orders of the
  session with their statuses, but for the pairs in `raced`. This is the justification
  of registering a connection before its snapshot is read: every change is in the GET,
  in the snapshot, or announced to the connection. Each of the exceptions is needed;
  without it the property is violated.
* `NoRowThrice`: `useOrders` appends a new order without looking whether the list has
  it, so an order placed before the GET is answered and announced after it is shown
  twice. Never more often, however the page reconnects and reloads.
* `ShowsNotices`: whatever is lost, late, overtaken or written twice, a list shows of an
  order only what the table has said of it at some time, and has an order only because it
  was announced as new or listed: an update of an order that is not on the list, which may
  be of another session or purged, does not put it there. One thing is announced that the
  table never said: a change of status whose order is purged between `GetOrder` and
  `UpdateOrderStatus`. The `UPDATE` of no row is no error, and those who still show the
  order show the new status.

Of the menu:

* `FieldsAsLastSaid`: an edit writes all fields of the row it has read, its position
  among them. Nothing anybody asked for is lost by that unless the row was written in
  between, and then only fields the edit was not asked to change.
* `PositionsDistinctUnlessMuddled`: two items on show share a position only after a race,
  after one was shown again, or after a page arranged only some of them; the next page
  that arranges all of them puts it right.
* `LinkedItemsExist`: no line refers to an item that is gone, however deletions and orders
  overlap. The foreign key's lock does that: without it (`AgainstNoKey`) `IndInv` breaks.
* `EveryCallEnds`: reorderings that take the rows in opposite orders, and an edit of an
  order beside the deletion of an item of it, block each other, and are let go.

Of migrations:

* `RecordedInOrder`: what is recorded is a first part of the files, whoever recorded it.
* `RecordedAsRun`: and it is exactly what was run, but in a database older than its
  records, in spite of lost answers, of two processes at the same file, and of a tool that
  makes the table `sessions` between the moment the library finds no records and the
  moment it looks for that table. What saves it is that the `INSERT` of the library then
  meets the record of the tool and fails (`Clashes`).
* `SuccessMeansApplied`: who reports success finds all files recorded.
* `ClimbsTheLadder`: each step climbs one rung and records it at once, or adopts one of an
  old database, or none of these.
* `ServersSettle`: while the database stays up every server succeeds in the end.

Of the server:

* `BadGatewayHasCause`: while the flag says that the database is down, there was a moment
  since the last good ping at which it could not have been reached, or the process began
  or ends. It is the pool, too: pings share it with the requests.
* `LoginsLast`: who was let in by `Middleware` is found by every later look at the logins,
  with the role the handler went on; logging out in another tab does not take it away.
* `FlagFollows`: the flag comes to say what is true of a database that stays as it is.
* `RequestsEnd`, `StoppedEnds`: requests do not wait for each other for ever at the pool,
  and a process told to end gets past `Shutdown` and `dbPool.Close`.

Of reports:

* `StatsOfOneMoment`: count and revenue of a session are of one moment, read by one
  statement with `COUNT(DISTINCT)` over a join, whatever happens meanwhile.
* `QuietComparisonAddsUp`: if nothing interfered, the items make the revenue, the sessions
  the totals, and the percentages no more than a hundred.
* `ListedTotalsWereTrue`: every order listed was in the session and had that total at some
  moment since the report began, but for one purged meanwhile, which is listed with
  nothing in it, and for rows that got lost.

Each property of a passing run is also checked against a faulty variant of one
definition (`mutants` in `PROJECT.json`; the variants stand above the
definitions they vary): a lock that is not taken or let go too early, the
number taken from the id sequence, an index that ignores
expired rows, a reversed sort order, a count of the wrong orders, an `UPDATE` that
forgets new orders; a close nobody is told of, a hub that takes two connections of a
browser for one, a page that opens a second connection beside the first, or puts on its list whatever is said of an order; a field that is
no pointer, a foreign key without a lock, a transaction without its deferred rollback;
files in the wrong order, a record that overwrites another, a server that gives up; a
logout that forgets the login, cookies numbered by the logins there are, a ping that only notices refusals, a WebSocket that keeps
its database connection; a count without `DISTINCT`, a total that is set to zero once.
Every one of them is caught.

## Proofs

| Theorem | Says |
| --- | --- |
| `OrderNumbersProofs!Invariance` | `Spec => []IndInv` |
| `!TypeCorrect`, `!NumbersStayFree`, `!NumbersOrderTheDesk`, `!NumbersAreUnique`, `!NumbersHaveNoGaps` | the parts of it that matter |
| `!Implementation` | `Spec => ImplementsTicketRoll` |
| `SessionDeskProofs!Invariance` | `Spec => []IndInv` |
| `!TypeCorrect`, `!OneSessionIsActive`, `!SnapshotsAreNeverTooLow`, `!SnapshotsAreNeverTooHigh`, `!ClosesSettle` | the parts of it that matter |
| `!TheNewestSessionIsKept` | `Spec => SweepKeepsTheNewest`, an action property |
| `!Implementation` | `Spec => KeepsTheLedger` |
| `OrderBoardProofs!Invariance` | `Spec => []IndInv` |
| `!TypeCorrect`, `!RowsTwiceAtMost`, `!ListsAgree` | the parts of it that matter, and what they make of a quiet board |
| `!Implementation` | `Spec => ShowsNotices` |
| `MenuBoardProofs!Invariance` | `Spec => []IndInv` |
| `!TypeCorrect`, `!FieldsAreAsLastSaid`, `!PositionsAreDistinct`, `!LinkedItemsAreThere` | the parts of it that matter |
| `MigrationsProofs!Invariance` | `Spec => []IndInv` |
| `!TypeCorrect`, `!RecordsAreInOrder`, `!RecordsAreTrue`, `!SuccessIsTrue` | the parts of it that matter |
| `!Implementation` | `Spec => ClimbsTheLadder` |
| `ServerProofs!Invariance` | `Spec => []IndInv` |
| `!TypeCorrect`, `!BadGatewaysHaveACause`, `!LoginsAreKept` | the parts of it that matter |
| `ReportsProofs!Invariance` | `Spec => []IndInv` |
| `!TypeCorrect`, `!ListedTotalsAreTrue` | the parts of it that matter |
| `!StatsAreOfOneMoment`, `!QuietComparisonsAddUp` | what follows from it by the lemmas about sums |

They hold for any sets of sessions, requests, clients, browsers, purges, calls, tools and servers, any size
of the pool and of the tables, any number of files and any length of the run. The
assumptions are those of the modules: bounds are natural numbers, the pool and the tables
are not empty, prices are positive and there is one, there is a client, `NoOne` is not a
request, no tool is a server, and no call is a connection; sessions and items in reports are
finitely many.

*Order numbers.* That a number read stays free is not inductive by itself. It
needs mutual exclusion (`HoldersHold`: who is past the lock statement is the
lock's one holder), so that nobody else commits in the session meanwhile; that
ids are drawn in the same order (`IdsDrawnInOrder`); and a bound on the numbers
(`NumbersTrailIds`), without which the `MAX` of the table need not exist and
nothing is known about the number read. The last is where `LargestElement`
comes in. That there are no gaps (`NoGapsUnlessPurged`) needs to know of each number read
that it is the one missing next (`NumbersComeNext`): the orders of a session are
as many as their largest number, and nobody else commits before this one does; a
transaction that rolls back takes nothing from the table. Implementation then needs one step of reasoning per action: a commit
issues a ticket because its number is above the others, any other step either
leaves the table alone or removes rows.

*Session desk.* What a snapshot is worth depends on what the close that wrote it
held between counting and writing, `CountsHeld`; that a settled session keeps
its snapshot is `ClosesCounted`; and that a close cannot be taken for another
kind of handler, or answer twice, is `HandlersInStep`. Most actions do not touch
what these speak of, and one lemma (`QuietStep`) deals with all of them; the five
that do (counting, closing, completing, placing and writing orders, purging)
have a lemma each. `SingleActive` is preserved by the index alone. For
`TheNewestSessionIsKept` the newest live session must exist: it is the largest
id among those with the largest start, again by `LargestElement`.

The ledger is what is left of the desk when calls, statements and the clock are taken
away: sessions are begun in order, closed, opened again by an update that has not seen
them closed; orders are placed in a session that is there, marked, completed, discarded
for ever; and what is filed as the number of orders of a session has been their number at
some time, whatever was raced. The numbers that closes hold between counting and writing
are the ledger's `counted`. That the session a handler has in hand is there is
`SessionsFound`: rows of `sessions` are never deleted, and every handler has read the row
or inserted it. That the orders of a session are completed only with a number on file is
`ClosesCounted`. `Implementation` has a lemma per kind of entry; what only reads, and
what ends a handler, forgets a number or does nothing (`OthersAreReading`).

*Order board.* `ListsAgreeUnlessRaced` speaks of a board on which nothing is on its way,
and most of the time something is. The invariant therefore says where the latest news of
an order are. What is under way and not yet on a wire is as it is in the table
(`UnderWayIsCurrent`), unless it was overtaken; a wire may hold older news, but there is
an update with the right status behind them or one still to be written (`WiresEndRight`);
and so may a list, if something is coming that puts it right: an update, or the snapshot
of a connection just opened (`RowsEndRight`). A row that is missing is going to be
announced (`RowsThere`, `MayLearn`). Once the session is closed the same is said of the
message that clears the list (`WiresEndEmpty`, `RowsEndEmpty`), with nothing under way
that would add a row behind it (`ClosedIsClosed`). Two facts carry `NoRowThrice`: one
handler announces an order as new (`OneTells`) and puts it on a wire once (`ToldOnce`);
and while that may still happen there is one row of it at most (`RowsCounted`). A
connection stands alone (`OneAfterTheOther`) and is in the hub's map while it is served
(`HubKnows`), so that a broadcast reaches it. Most steps of handlers, hub and page
are instances of eight, listed at the head of `OrderBoardProofs`; messages change
places on a wire when one is written or taken, and `AppendedFacts` and `TakenFacts`
say how. On a quiet board everything that is "still to come" has come, and the list is
left with the statuses of the table.

The board of `NoticeBoard` has no handlers and no connections. Its notices are what is
under way in `OrderBoard`, whatever carries it: what a handler is about to broadcast or
answer, the messages on the wires, the snapshots and the answers to `GET /api/orders`. A
notice is written where the code reads or writes the table (`ReadBack`, `Reply`,
`WriteOrder`, `ListOrders`, `ServeLoad`); afterwards it only changes places, is copied or
lost, which for the board is no step or one that throws notices away. That is most steps,
and `WireStep` and `SilentStep` deal with them. What comes in at a browser (`Receive`,
`Arrive`, `TakeLoad`) is a `Show`: each row it shows then was there or is what a notice
says (`TakesOver`). That an order announced though it is gone was *there* once is
`NothingYet`: nobody has a number in hand that was never given.

*Menu.* `LinkedItemsExist` is about two transactions: one that refers to an item and one
that deletes it. It needs that an order holds the lock of what its lines refer to, or is
still going to take it (`LinesHeld`), that locks are on rows that are there and that the
one of a deletion excludes all others (`LocksHold`), and that a call is at no other
handler's statement (`HandlersInStep`). `FieldsAsLastSaid` and
`PositionsDistinctUnlessMuddled` need that what an edit or a creation has read is still so
unless it was overtaken (`ReadsHold`), and that a page asks for different positions
(`ArrangesApart`). What is said of each call separately is put into one operator, `Fits`,
so that a step is dealt with by showing that the call that moves fits and that the others
go on to; `QuietStep` and `EndingStep` do that for the steps that write nothing.

*Migrations.* Recording keeps a first part of the files because the file a process is at
is the smallest of those it has left, and those it has not left are recorded
(`TodoIsLeft`); that there is a smallest is `SmallestElement`. Nobody runs a down file
(`NoDownFiles`): it is looked for under its own name, which is never recorded. Two
processes may have passed the check of one file, but only one has it open, and what it
runs could be run (`OpenFilesRun`). And the library adopts only an old database or runs
into the record of the first file, which it thinks has still to be recorded
(`AdoptsOld`). With these `schema` and the records change together. Implementation then
takes a lemma for each of `Commit` and `Adopt`; the rest of the actions leave schema and
records alone.

*Server.* `LoginsLast` needs that a login on its way into the map has a cookie of its own,
which nobody has yet (`LoginsFresh`), so that it overwrites no other: ids are drawn afresh,
never from the number of logins. Nothing takes an entry out again while requests are in
their handlers, and the end of the process, which empties the map, ends them too.
`BadGatewayHasCause` follows the flag through every step: it turns false only with a ping
that fails, which is a moment of doubt, and doubt ends only with a ping that sets it.

*Reports.* What a report has read is remembered as having been so at a moment
(`EntryFits`, `WasSo`); a write adds a moment and takes none away, so that this lasts. Two
things could undo it. An id could be given again, so that an order listed with nothing in it
because it was purged were there again: `MomentsFit` says that it is not. And a report could
go on to a statement with an entry that is about something else: `StatementsInStep` and
`TodoFits` say which statement each kind of report is at and what is left for it. The rest is
about sums. The library's `SumFunction` takes the elements of a set in an order it chooses;
`SumElement` says that any element may be taken first, and from there `SetInduction` leads to
the sum of sums (`SumPlus`), to rows and columns coming to the same (`SumExchange`: the
revenue of a session is that of its items, the total of the items that of the sessions), to
parts and wholes (`FirstRowsFacts`, `SharesBounded`: percentages rounded down are at most a
hundred) and to orders counted once (`CountApart`). `SetInduction` speaks of the *set* of the
sets for which a statement holds, and rests on a smallest one for which it does not:
the library's induction theorems take the statement as a parameter, which the provers
cannot instantiate.

*Only model-checked.* `EveryRequestEnds`, `EveryCallEnds`, `ServersSettle`, `FlagFollows`,
`RequestsEnd` and `StoppedEnds`: liveness under fairness is beyond the prover. The refuted promises below are, of course, runs and not
theorems.

## Where code and documents disagree

Each of these is a run in which TLC finds the promise broken; `findings` quotes both
sides.

| Run | Promise | What happens |
| --- | --- | --- |
| `desk_reopen` | a closed session is read-only, only active sessions can be updated | an update that has read `ACTIVE` writes it back after the close |
| `desk_edit` | only admins edit orders in progress | an edit that has read `NEW` is written later, and takes the order back to new |
| `board_broadcast` | a broadcast sends to all connected clients | it meets another writer on a connection, panics, and leaves out the rest |

The models show more, which the properties take as exceptions, or which are about answers
and log lines that nothing reads back. Documents are named from `src/`; the
*design* is `docs/architecture/daily-operations-design.md`.

* Not "Prevents new orders" (design:549): an order whose handler has found its session
  (`internal/api/orders.go:165`) is placed in it after the close. `SnapshotNeverTooLow`
  excepts it.
* Two closes that have both read `ACTIVE` count at different times, and the second
  overwrites a snapshot that "becomes immutable" (design:547).
  `SnapshotNeverTooLow` and `SnapshotNeverTooHigh` say what either is worth.
* An order of a closed session can be set back to new, for good, although "no
  partial/in-progress orders" are to be left dangling (design:548); `CloseSettlesUnlessRaced`
  excepts it.
* A session that expires gets no snapshot (design:293-296): `reconcileActiveSessions` sets
  status and time only, and the orders stay as they are.
* Not "everyone sees session ended" (design:550): only the message `session_closed` empties a
  list, and a browser that connects after it was sent goes on showing the orders of the
  closed session. `ListsAgreeUnlessRaced` excepts it (`MissedBy`).
* Not all clients "see order status changes instantly" (`src/README.md:14`): the snapshot of a
  new connection (`internal/api/orders.go:559`), read before a change, can be written
  after its broadcast, and the old status stays on the screen (`Overtaken`).
* A purge "returns the count of deleted orders" (`internal/database/postgres.go:772`): it
  counts in one statement and deletes in another (`:789`), and an order committed in
  between is deleted uncounted (`PurgeCount`, `PurgeDelete`).
* A menu edit is to "only update fields that are provided" (`internal/api/menu.go:141`), and
  writes all of them as it read them: the change another edit or a reordering has made in
  between is undone. `FieldsAsLastSaid` excepts it (`spoilt`).
* `migrate down` reports "All migrations rolled back successfully"
  (`cmd/migrate/main.go:97`) and has done nothing: the down file is looked for under its own
  name (`:278`), which nobody records. That is the lemma `NoDownFiles`.
* A database with the table `sessions` and without records is recorded as having had all
  migrations (`BootstrapTable`, `internal/database/config.go:77`). If it was made before
  000002, the index that `SingleActive` rests on is never made; `RecordedAsRun` excepts it
  (`legacy`).
* The server "must remain alive while the database is temporarily unavailable"
  (`internal/database/init.go:77-78`), but `/health` answers 503 then and is the
  `livenessProbe` of the chart: Kubernetes sends SIGTERM after three of them (`Stop`).
* The dashboard's "HTTP 5xx Error Rate (%)" (`observability/grafana/fish-fry-app-observability.json:485`)
  counts answers by a status that the metrics middleware takes before an error it returns
  has been made an answer (`cmd/server/main.go:237`): such errors are counted as 200. The
  counters are not modelled.

## What is not modelled

* In `OrderBoard`: the statistics and the session shown beside the list, an order's
  items, two loads of one page that overlap, and a session after the first. A browser
  that stops reading may keep a broadcast waiting for ever; a write here takes any time
  but nothing is said about its ending.
* Items of an order and prices, in `SessionDesk`: they decide revenue only, and are in
  `MenuBoard` and `Reports`. Of `UpdateOrderWithItems` the order row is modelled, and that
  the items of an order purged meanwhile make it fail.
* In `MenuBoard`: purging, which would wait for edits and only take lines away; quantities;
  the order in which `ON DELETE SET NULL` takes the lines, which is all of them at once.
* In `Server`: what a query does, which is the subject of the other modules; ports and
  listening sockets; a `ping` of `/health` that waits, whose answer is that of the moment
  it ends.
* In `Reports`: the order of the rows, dates, names, cents (a sum of `float64` amounts is
  not exact in the code, and whole units are in the model), and `GetOrderStatistics`, which no handler calls.
* A client that stops reading a WebSocket, as said of the board; the text of answers.
* Time zones: `expires_at` is a `TIMESTAMP` without zone, and the comparison in
  `orders.go:125` is off by the zone's offset on a server not set to UTC.
* A commit whose acknowledgement is lost: the order stands and the client is told
  otherwise. Nothing identifies the repeated order as a repetition, so there is
  nothing to state.
* Several servers at the desk: one replica is deployed, and two overlap in a rolling
  update. As far as the database goes calls of several servers are calls like any other;
  their hubs do not know of each other's clients.
* Metrics, logs, reading the configuration, deployment, generated protocol code, the older
  database layer (`database.go`, which no program uses; `repository.go` is the interface of `postgres.go`) and the
  pages of the frontend: no state that the parts above read.

## Plan

Done: `OrderNumbers` with `TicketRoll`, `SessionDesk` with `SessionLedger`, `OrderBoard` with
`NoticeBoard`, `MenuBoard`, `Migrations` with `MigrationLadder`, `Server` and `Reports`, modelled,
checked and proved. What is left, in order of importance:

1. A second kind of step in `NoticeBoard`: the list of a quiet board is the table's. It is
   `ListsAgreeUnlessRaced` now, which speaks of `raced` and so of the handlers.
2. The statistics and the session beside each browser's list, as part of `OrderBoard`.
