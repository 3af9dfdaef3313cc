# Verification of the IoT backend

TLA+ modules, TLC runs and TLAPS proofs for the server in this repository: a Go
process that subscribes to MQTT telemetry, keeps the latest reading of each
device in memory, feeds dashboards over WebSockets, archives every reading as
CSV objects, and serves an administration and export API on PostgreSQL.

## 1. The system

| Component | State | Operations | Talks to |
|---|---|---|---|
| Archive writer (`internal/archive/writer.go`) | map partition → rows, under a mutex | `HandleRecord`, `Run`, `Flush`, `flushPartition`, `requeue` | object store; called by ingest, `Run`'s goroutine, `main` |
| Telemetry ingest (`internal/telemetry`) | none | `HandleMQTT` (look up, check, set, broadcast, dispatch) | repository, live state, hub, archive writer |
| Live state (`internal/state`) | map device → latest reading, RW lock | `Set`, `Delete`, `Snapshot` | ingest, hub, device API |
| WebSocket hub (`internal/ws`) | set of registered clients, RW lock; per client: organization, filter | `Broadcast`, `readLoop`, `authenticate`, `setFilter`, `remove` | repository, live state, browsers |
| MQTT subscriber (`internal/iot`) | paho client | one goroutine per message (`SetOrderMatters(false)`) | ingest |
| Export worker (`internal/exportjob`) | row of `export_jobs`, a pipe and a goroutine per job | `Run`, `ProcessQueued`, `process` | repository, archive queries, object store |
| Archive queries (`internal/archive/keys.go`, `merge.go`, `csv.go`) | none | `ListMatching`, `MergeCSV` | object store |
| Object stores (`internal/storage`) | files, memory or S3 | `Put`, `Get`, `List` | writer, worker, export API |
| User administration (`internal/api/users.go`) | table `users` | create, patch, delete | repository |
| Authentication (`internal/api/handlers.go`, `internal/auth`, `ws/hub.go`) | signed tokens; rows of `users`, `organizations` | log in, check a request, check a connection | repository |
| Devices and locations (`internal/api/handlers.go`) | tables `devices`, `locations`, `sub_locations` | create, patch, delete | repository, live state |
| Operator console (`internal/api/internal.go`) | none | overview of all organizations | repository |
| Migrations (`internal/db/migrate.go`) | table `schema_migrations` | apply what is missing at start | PostgreSQL |
| Export API (`internal/api/exports.go`) | table `export_jobs` | create, read, download | repository, object store |
| Repository (`internal/repository`) | PostgreSQL, **no transactions**: every statement commits alone | one or a few statements per method | |
| Server (`cmd/server/main.go`) | lifetime of the process | start, signal, listener failure, shutdown flush | all |
| Browser live client (`web/src/ws.ts`, `Dashboard.tsx`) | socket, timers, tiles | connect, reconnect, pause, show | hub |

Configuration, logging, the publisher command and the web forms have no
interleavings of their own that this project models; `PROJECT.json` lists each
part with what is modelled of it or the reason why it is not.

What is hard here:

* **Interleaving.** Messages are handled concurrently and out of order; the
  writer releases its lock around each object store call and puts the rows back
  when the call fails; the hub registers a client, greets it, and reads and
  writes its snapshot in separate steps; handlers check a row with one statement
  and change it with a later one.
* **Failure.** A write may be applied and still report an error; statements,
  merges and Puts fail between any two steps; the process ends while
  other goroutines are in the middle of a write.
* **Ordering.** Requeued batches, crossing broadcasts, a snapshot that is older
  than the readings it overwrites.
* **Progress.** A lock held while slow peers are written to; a pipe with nobody
  reading; a flush that must end while rows keep coming; servers that wait for
  each other's migrations and take the broker connection from each other.
* **Stale knowledge.** A token that outlives its row, a connection authorized
  once, a check in one statement that a later statement relies on, timers and
  close events of sockets the page has already forgotten.

What makes each component correct: the writer loses nothing silently and writes
each row once (NoRowLost, OneOwner, ArchivedOnce); the live feed has no gap and
never mixes tenants (NoGap, TilesAgree, TenantsSeparate); a job that succeeded
has its file and every job ends (SucceededHasFile, OneRunner, EveryJobEnds); a
user limit and a last administrator (OvershootBounded, LastAdminGoesByRace); an
export holds what was archived and nothing else (ExportComplete, ExportSound); a
handler acts on rights that are held and revoked sessions end (ActsOnHeldRights,
RevokedSessionsEnd); tables never mix organizations (SameOrganization); a
migration is applied once and nobody serves without it (AppliedOnce,
ServesMigrated); a page reconnects and falls silent when it is left (Reconnects,
QuietWhenAway).

## 2. Modules

### ArchiveWriter — the archive buffer and the end of the process

Processes are one goroutine per delivered record (its identity is the record),
`Loop` (`Writer.Run`) and `Main`. A process in `flushPartition` is in a `phase`:
`ready`, `put` (it holds rows that are no longer in the map) or `requeue`.

| Code | Action |
|---|---|
| `HandleRecord` 71–94: append, trim, threshold | `HandleRecord` |
| `flushPartition` 139–148: early return or take | `TakeRows` |
| `Put` 150–160 | `PutSucceeds`, `PutFails` (with or without effect) |
| `requeue` 163–172 | `Requeue` |
| `Flush` 124–129, called by the ticker, on `ctx.Done`, by `main` | `Tick`, `FinalFlush`, `ShutdownFlush` |
| `main.go` 44, 106–128 | `Cancel`, `ListenFails`, `Exit` |

A partition with no rows and a partition missing from the map are the same to
every critical section and are not told apart. `Exit` stops all other goroutines,
because nothing waits for them. `MaxFailures` bounds the failed writes of an
execution and is an artefact of the model.

### ArchiveLog, ArchiveRefinement — what the archive promises

`ArchiveLog` is an at-least-once log: a row is accepted, then archived (once, or
again after an unclear answer) or dropped. `ArchiveRefinement` maps the writer's
state to it (`FateOf`) and states that the writer implements it
(`ImplementsLog`): every step of the writer is a step of the log or leaves it
alone, and under fairness each accepted row is settled.

### UserAdmin — users of one organization

A request occupies a slot of the server and moves through `count`, `insert`,
`read`, `guard`, `role`, `status`, `delete`, one step per SQL statement;
`Fail` ends it at any of them. The authentication middleware and `requireAdmin`
are one step (`Admit`): they read the caller's row, and the request goes on
with what they read. Names, e-mail addresses and `can_export` are left out; a
taken address is a `Fail`. `Requesters` are users with export jobs, whose rows
the foreign key protects.

### ExportWorker — jobs, workers and the pipe

Each worker is a server process with one polling goroutine. `merge[w]` is the
goroutine that merges archive objects into the pipe; `chunks[w]` counts the
writes it still has to make. `Transfer` is a write of the merger meeting a read of
the store (`io.Pipe` has no buffer); once Put has returned, nothing reads any
more, and the worker stays in `await` for as long as the merger is blocked.
`Crash` and `Restart` are the end of a process (or its shutdown: nobody
waits for the worker) and its next start. A statement that fails may have taken
effect: a worker whose success was recorded and reported as failed is `unconfirmed`, and
goes on to record a failure, as any other error of `process` makes it. `faults` bounds
each kind of failure.

### LiveFeed — ingest, live state, hub and dashboards

`handler[m]` is the next step of the goroutine of message `m`: device look-up,
organization check, `store.Set`, read lock, one write per client, unlock. `conn[c]`
is the next step of a connection's `readLoop`: authenticate, register (write
lock), `auth_ok`, list devices, read snapshot, write snapshot, live, closing. The
order of these steps is one definition, `StepAfter`. `view[c]` is what the
dashboard shows: WebSocket messages arrive in order, so a write is applied at
once. `Broadcast` reads a client's filter twice and without a lock, so `Send` may find
that one is set and look the device up in the nil map that `SetFilter` left meanwhile
(`torn`): the reading then counts as held back. `TypeOK` also says that a connection
is in the hub's set exactly between `Register` and `Remove`. The history variables (`sent`,
`withheld`, `before`, `stale`, `crossed`, `late`) are only read by properties. Abstractions: a message stands for its reading, a
payload that does not parse is one of the reasons of `Drop`; a device identifier is
not given to a new device after its device is deleted; a reconnecting browser is
another element of `Clients`; the organization stays active.

### ArchiveQuery — what an export contains

The writer puts files into a store that is the file system or S3 (`backend`); its Puts
run beside each other (`putting`), because every message handler and the ticker flush
without the writer's lock and the store has none. Beside them an export lists and merges. On the file system
`PutStarts`, `PutCopied`, `PutRenames` and `PutFails` are the steps of
`Filesystem.Put` (`temp[f]` is what the temporary file holds), `ListReads` is one
directory of the walk, `AppendObject` and `AppendPartial` are `appendObject` on a whole
and on a half-written file, `Crash` leaves the temporary file where it is. Names are
`Final(f)` and `Temp(f)`; both parse as keys of the same partition
(`ParseObjectKey`), which is what makes the interleaving interesting. Time is
counted in ticks finer than the microsecond of a `timestamptz` (`DbTime`), hours in
`Hour` ticks. An identifier that path cleaning removes (".") gives a key without
a device; one that contains ".." is refused by the store. Device identifiers of an
archive file and of a registered device are separate, so an identifier may have
belonged to another organization. One row is one CSV record.

### Access — tokens, requests and connections

`Ids` are rows of `users`; a person deleted and invited again has two of them with
one e-mail. A request runs `Arrive` (token parsed), `LookupUser`,
`ReadOrganization` with the role check, and is then in its handler (`act`); a
connection runs `Connect`, `CheckUser`, `CheckOrganization` and is `live` until
`Disconnect`. Its read deadline is `far`, comes `near` (`TimePasses`), moves away with
every pong frame of the client (`Pong`), asked for or not, and ends the connection
otherwise (`Timeout`). Rows change between any two of these steps (`Invite`,
`ChangeRights`, `Disable`, `Enable`, `Delete`, `SuspendOrResume`). The history
field `held` notes that the token's own row had the right at some moment of the
request. Tokens are those `MintLocal` makes (`devLogin`): they name the row's id
and the subject of the same row. The first rows of the database are any the
unique e-mail index admits. How administrators get to their statements is in
UserAdmin.

### Catalogue — locations, sub-locations, devices

A request is a set of statements still to run (`todo`), ordered by `Place`; each
statement is an action that reads or writes the tables and moves the request on
(`ReadBy`, `WrittenBy`), fails without effect (`StatementFails`) or takes effect
and reports an error. Handlers differ only in their statements: `PatchDevice` checks the
sub-location, reads the device, writes the columns its body names one by one and
reads the device back (`UpdateDevice`); `CreateDevice` checks, inserts and reads
back; the operator's overview reads its tables one by one. `SeedDevice` is the seed
command run again; its rows are the first state. What happens to the live store
when a device goes is in LiveFeed. Rows of users and organizations in the overview
carry no counts that are related to others and are left out.

### Startup — a server starts

Each server goes through the steps of `run`: `CreateTable`, `Check`, `Body`,
`InsertRow`, `Commit` (one round per migration of its release), `Connected`. `tx[p]`
is its open transaction: `Body` waits while another one has run the statements of
the same migration, as the locks of DDL make it. The statements of a migration are one
step. `mqtt[p]` is the client: `up` after the broker accepted it, `hears` after
Subscribe, `refused` after a failed one; the broker drops another client with the same
id. `closing` is `run` returning through its deferred `pool.Close`, which waits for
the connection of an open transaction. Servers are killed at any step (`Stop`) and
start again (`Boot`).

### WsClient — the page's connection

`connectLive` with its variables (`closed`, `paused`, `ws`, `attempt`, the timer) and
what it does not know: sockets it lost sight of (`sock`) and timers it overwrote
(`strays`). Close events arrive late and act on whatever socket the variable
holds. The browser starts with a token; another tab may sign out (`LoseToken`). Its
specification is `ClientSpec` (`ConnectLive`, `ClientNext`), so that one module can
extend it together with LiveFeed.

### Proof modules

`ArchiveWriterProofs`, `ArchiveQueryProofs`, `ExportWorkerProofs`, `LiveFeedProofs`
(also for WsClient), `UserAdminProofs`, `AccessProofs`, `CatalogueProofs` and
`StartupProofs` hold the theorems of section 5 and their proofs.

### MC modules

`MCArchiveWriter`, `MCUserAdmin`, `MCExportWorker`, `MCLiveFeed`, `MCArchiveQuery`,
`MCAccess`, `MCCatalogue` and `MCStartup` name model values and give the function
constants their values; `WsClient` has numbers only and needs none.

Each component module also holds the mutants of its definitions: variants with
a plausible mistake, used to confirm that each property notices it.

## 3. Runs

| Run | Bounds | Shows |
|---|---|---|
| ArchiveOnePart | 3 rows, 1 partition, FlushRows = MaxRows = 2, 2 failed writes | safety of the writer |
| ArchiveTwoParts | 3 rows, 2 partitions, 1 failed write, fair | the writer implements the log, accepted rows are settled, shutdown ends |
| ArchiveShutdownLoss *(violation)* | 2 partitions, no failure | an orderly shutdown loses a batch in flight |
| UserAdmin | 4 users (2 seeded, 2 to create), 2 slots, limit 2, symmetry of slots and of the users of either kind | the limit is overshot, but within its bound; last administrator goes only in a race |
| ExportJobs | 3 jobs, 2 workers, 2 chunks, one fault of each kind, fair | job safety under every combination of faults, progress without them |
| ExportPipeHang *(violation)* | 2 jobs, 1 worker, one failed Put, fair | the worker hangs on its own pipe |
| ExportContents | 4 files of 2 hours, 2 organizations, 2 identifiers, 4 times, any number of Puts at once, 1 fault, 1 crash, both backends | an export is sound and complete, and fails only over a temporary file |
| LiveFeed | 2 messages of one device, 1 connection, 2 organizations, fair | no gap, tile agreement, tenants, progress |
| Access | 2 rows of one person, 3 rights, 1 request, 1 connection, 1 token, 1 failed statement, fair | handlers act on held rights, revoked sessions end unless kept open by pongs |
| Catalogue | 3 requests in 2 slots, 2 organizations, 2 of each row, 1 failed statement | organizations stay apart, what a PATCH's answer tells, the overview's sums |
| Startup | 3 servers of 2 releases, 3 migrations, 1 failed statement, fair | migrations once and in order, starts end, the broker is heard again |
| WsClient | 4 sockets, 2 hides, 2 lost connections, fair | connections multiply only by hiding, reconnection, silence when away |

Why the bounds are enough to be interesting: three rows against a limit of two
make the overflow rule fire with a failed batch in flight and another one
buffered; two failures let two flushes of a partition requeue in either order; two
slots are the smallest race, and `Cardinality(Slots)` appears in the bound that is
checked; an id is never used again, so two users still to be created beside the two
seeded ones let three be present against a limit of two, once one of the first is deleted; two chunks let a Put fail before, between and after reads; three jobs keep
one queued behind two workers; two messages let broadcasts of a device cross and
overtake a snapshot. The readings of `LiveFeed` reach one connection only: what its
properties relate is per connection, and connections touch each other only through
the hub's lock. In ExportContents hours are four ticks and a microsecond two, so
times fall on, inside and off both; two files of one device are in different hours,
one file has the same device under another organization, one an identifier
that path cleaning swallows. Access needs one request, because requests touch nothing
another one reads, and two rows of one person, because that is how a token outlives its
row; its theorem is for any number of each. In Catalogue two requests are the
smallest race and the third brings the sub-location or the deletion that a race needs.
Startup's third server makes two wait behind one transaction. By
OneMorePerHide at most three sockets of WsClient exist after two hides, so its four
never run out.

`CHECK_DEADLOCK FALSE` is used where the bounded inputs run out (all users
deleted, all messages handled and connections closed) or, in the export
runs, where the code really stops: a worker waiting for its blocked merger with
every budget of faults spent. In Catalogue the bounded requests run out. `ArchiveWriter` has an explicit `Terminated` step, `WsClient` a step
`Left`.

### Fairness

*ArchiveWriter*: goroutines are scheduled, object store calls return (10 s and 5 s
contexts), the ticker keeps firing, `main` leaves its `select` when the context
is done. Deliveries, the signal and a listener failure are never forced.
`FinalFlush` is not forced: the select of `Run` may choose the ticker.
*ExportWorker*: both goroutines of a job are scheduled, calls return, a
stopped process is restarted. *LiveFeed*: goroutines are scheduled, statements
return, a write returns because of its 10 s deadline, and Go's RWMutex lets a
waiting writer in. Peers are not assumed to do anything.
*Access*: time passes, and a read deadline that passed ends the connection. It need
not pass: the hub asks for no pongs, so a browser sends none, but another client may
for ever, and nobody must leave or stop (RevokedSessionsEnd allows just that).
*Startup*: a running process goes on; PostgreSQL serves those who wait for a lock in
turn, hence strong fairness of `Body`, which is enabled again and again while other
servers come and go; a serving client reconnects (`SetAutoReconnect`). Nobody must
start a process, lose a connection or succeed in subscribing.
*WsClient*: timers fire, the browser delivers events, servers' deadlines pass. `OnOpen`
of the current socket is strongly fair: the late close event of an older socket
does not, each time anew, come in just the moment the current one is connecting. A
timer runs for a second at least, so it does not overtake the events a failed
connection has already queued (guard of `TimerFires`).

## 4. Findings

Two statements of the repository are refuted by a run:

1. **A batch in flight is lost on shutdown** (ArchiveShutdownLoss). `run` flushes
   and returns; a batch taken by `Run`'s flush or a handler ends with the process.
2. **A failed Put hangs the export worker** (ExportPipeHang): the reading end of the
   pipe is never closed.

Others are stated in the modules, with a comment that quotes the statement, and have no
run of their own; in place of each a passing run checks what does hold.

| Statement | Why it fails | What holds |
|---|---|---|
| overflow drops the oldest rows (`DropsOldestFirst`) | two failed flushes requeue in either order | `DropsOldestFirstIfInOrder` |
| `user_limit` is enforced (`UserLimitEnforced`) | two requests count before either inserts | `OvershootBounded` |
| the last administrator stays (`LastAdminStays`) | two administrators remove each other after both were counted | `LastAdminGoesByRace` |
| no reading before `auth_ok` (`AuthOkFirst`) | a client is registered before it is greeted | `NoGap`, which needs just that order |
| `ParsedKey` is the layout of archive writes and export listing, `keys.go:41` (`ListingSeesArchive`) | an identifier "." vanishes from the key | `ExportComplete` |
| pause when the page is hidden (`PausesWhenHidden`) | `onclose` of an old socket loses sight of the new one | `OneMorePerHide`, `QuietWhenAway` |
| archive writes resume when MQTT is connected again (`docs/aws-setup.md:245`) | a failed Subscribe is only logged | `HearsAgain` |

Beside these, the models show that an export can fail because it listed a temporary
file of a Put in progress or of a killed process (`FailsOnlyForTemp` says that nothing
else of the program's own makes it fail), that the bounds of an export are
cut to the microsecond, that a client which sends pongs unasked keeps receiving
readings after its user was disabled or deleted (RevokedSessionsEnd excepts it), and that a PATCH answered with 500 may have written any prefix
of its columns (`PatchAnswers`).

## 5. Proofs

Eight modules hold theorems, one per component, each of which EXTENDS the
component's module; `LiveFeedProofs` extends `LiveFeed` and `WsClient`, the two ends
of the WebSocket. A theorem is about every value of the constants, under the
assumptions the component's module declares; the runs evaluate those assumptions.
Every invariant and every action property that a run checks is proved. For most of
them the property alone is not inductive, and what had to be added says why the
code works. The strengthenings were checked with TLC on the runs' instances first.

`ArchiveWriterProofs`:

* `TypeCorrect`: `TypeOK` is inductive; its last conjunct (a process holds rows exactly
  while it is inside a write) carries the early return of `flushPartition`.
* `NoLoss`: NoRowLost is inductive relative to TypeOK: an action replaces one
  partition or one batch, and the lemmas BufferedUpdate and InFlightUpdate say what
  that does to the unions Buffered and InFlight; RangeOfTrim, RangeOfAppend and
  RangeOfRequeue say which rows a sequence operation keeps.
* `OneOwnerHolds`, then `ArchivedOnceHolds`, which also needs `UnsureIsStored`: a
  row for which an unclear answer was counted is in the store.
* `ShutdownFlushes`: `NoFailureNoRequeue` (without a failure nobody requeues),
  `CutoffKept` (the rows noted when `main` began its flush are still buffered, in
  a batch, archived or dropped) and `ExitIsIdle`.
* `BacklogBounded`: `FlushersArrived` (whoever is about to flush is a handler of a row
  that arrived) turns the bound into one on cardinalities of sets of handlers.
* `DropsOldestHolds`: with one failed write at most, `OrderInv`: one batch at most waits
  to be requeued (OneRequeue), it is older than what is buffered (BatchIsOlder) and
  a partition is in order of arrival (Sorted).
* `RefinesLog`: the writer's initial states are states of ArchiveLog's Init, and each step
  is a step of the log or leaves it alone. `RefinementInv` adds that no row is
  twice in memory (NoRowTwice) and that a dropped one is gone (DroppedIsGone).

`ArchiveQueryProofs`: TypeOK alone is not inductive: that an S3 Put leaves the writer
of another object alone rests on `OnlyFilesArePutting` (the backend does not change
while files are being written). `Sound` needs no more than TypeOK, because rows enter an
export only through `Wanted`; its content is the arithmetic of the microsecond cut
(DbTimeBounds). `CompleteExport` has `ListingInv` (a matching object archived when
the walk began has been listed or is in a directory still to read) and `MergeInv` (its
rows have been merged or it is still to merge); HourMonotonic says that no
partition with a wanted row is skipped. `FailureNeedsTemp`: a listed final name is
present and whole, so only a temporary one can fail. All of it holds for any number of
Puts at once: a Put touches only its own two names.

`ExportWorkerProofs`: `TypeCorrect` (with the type of the budget of faults) and, from
`JobInv`, `SucceededJobsHaveFiles`, `OneRunnerHolds` and `FinalStatusHolds`. JobInv
relates the step of a worker to the status of its job: the job of a busy worker is
running, unless the worker is `unconfirmed`: the statement that recorded its success
took effect and reported an error (OwnedIsRunning), and a worker is about to report success only when the file is
there (FileBeforeSuccess). OneRunner, SucceededHasFile and FinalStatusStays hold
together or not at all: a second worker could finish a job whose file is missing. That
a success changes only by the `unconfirmed` worker of that very job is what
FinalStatusHolds adds.
No lock is behind them, only the conditional UPDATE of the claim.

`LiveFeedProofs`:

* `TypeCorrect`: `Types` and `Registration` (StepTypes, StepRegistration). That a
  connection is registered exactly between Register and Remove needs its organization,
  which tells whether one that is closing had authenticated.
* `TenantsSeparateHolds` with `TenantInv` (a connection has no
  organization before it has authenticated and shows nothing after it was lost, Bound;
  its list and snapshot are of devices of its organization, SnapshotSeparate).
* `NoGapHolds` with `GapInv`: a listed client is registered (Registered), and a broadcast in
  progress has reached, or still has as a target, every client that was registered
  before its message was stored (ReachedOrTarget). This is where the order
  "register, then read the snapshot" is used.
* `GhostOnlyByRaceHolds` with `MemoryInv`, what the live store holds and why.
* `TilesAgreeHolds` with all of these, `VisitInv` (broadcasts visit registered clients, and
  a client that is not registered yet shows nothing) and `TileInv` (unless readings of
  a device cross, each tile follows the reading in memory or that reading is on its way).
* `OneMorePerHideHolds`, about WsClient, with `ClientInv`: sockets and timers are at most
  `hides` while the page is hidden, and one more while it is visible. OneMorePerHide
  alone allows hiding to have added nothing and is not inductive: showing the page
  would break it.

`UserAdminProofs`: `TypeCorrect`; `OvershootBoundedHolds`: OvershootBounded counts users
and requests about to insert together, and is inductive relative to TypeOK (who
counts fewer than the limit starts below the bound, and an insertion turns a request
into a user); `LastAdminGoesByRaceHolds` with `RaceInv`: for a request past `guard`
that no other request overtook, the guard still holds (GuardHolds).

`StartupProofs` proves `StartupTypeCorrect`, `MigrationsOnce` and
`ServesAfterMigrations` from one inductive invariant. AppliedOnce alone is not inductive:
a commit could repeat a migration that somebody recorded meanwhile. `LockHeld` (two
open transactions are at different migrations), `RowIsNew` (who has inserted its row
is the first) and `Behind` (a server has passed only recorded migrations) exclude
it: between the insertion and the commit, the lock keeps every other server away.

`AccessProofs` proves `AccessTypeCorrect` and `HandlersActOnHeldRights`. `NotesRights`
strengthens ActsOnHeldRights: a running request whose token's row has the right now
has noted it, and one past the look-up whose overlaid rights suffice has noted it, too.
The rights a handler acts on are those of the overlay, so the theorem holds
however rows change between the statements.

`CatalogueProofs` proves `CatalogueTypeCorrect` (which includes that identifiers are
unique) and:

* `TenantsStaySeparate`. `Ready` says what is behind a request by the time
  it writes: the sub-location or location it will refer to was found in its own
  organization. It stays there because nothing deletes locations and sub-locations or
  changes their organization; `SeedStays` says the same of the rows the seed command
  refers to.
* `OverviewAddsUp`: the tables are read in order (ReadsInOrder), what was read is still
  in the tables, because locations and sub-locations are only added (StepGrows), and
  is all of it unless the request was disturbed.
* `PatchTellsTheTruth`: the statements still to run are a suffix of the handler's
  (InOrder), the columns written so far are the prefix before it (Written), and an
  answer tells which (Told), as long as nobody else writes the device.

What the proofs showed of the models, beside what is named above: OvershootBounded,
stated strictly, needs a server that serves at least one request (`SlotsAssumption`);
Catalogue needs its "no row" value to be no row (`NullAssumption`).

**Model-checked only.** Liveness: ImplementsLog as a whole (RefinesLog is its safety
half), ShutdownCompletes, EveryJobEnds, ConnectionsSettle, RevokedSessionsEnd,
StartupEnds, HearsAgain, Reconnects, QuietWhenAway. They rest on fairness, hence on
ENABLED, which the provers do not reason about. The two violations are
counterexamples, which need no proof.

## 6. What is not modelled, and the plan

Not modelled: parsing and signatures of tokens and tokens of an external issuer,
configuration, logging, TLS, the web forms, the publisher command, plain lists and
reads behind the API, the memory store, the formatting of answers and CSV, the SQL
inside a migration. Time is not modelled: deadlines appear as steps that may happen at any
moment, ticks in ArchiveQuery only order rows and bounds. A user who is disabled while the
organization comes back from a suspension may pass between the two checks of
`authenticate`; RevokedSessionsEnd allows it and says that it ends.

Next theorems: safety facts that the liveness properties rest on (for EveryJobEnds, that a
worker waits for its merger only after a Put that failed; for RevokedSessionsEnd, that a
connection still has the deadline it was given) and abstract specifications in the
manner of ArchiveLog: for ExportWorker a queue whose jobs end once, for Startup a
counter of migrations.
