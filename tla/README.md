# HOSE, specified

TLA+ models of [HOSE](../src/README.md), the HOPR session explorer: a process
that receives OTLP telemetry of HOPRd nodes over gRPC, keeps what operators ask
for in SQLite for the length of a *debug session* and a retention period, and
shows it, with live updates, in a web UI. TLC checks each model on small
instances; TLAPS proves, for every value of the constants, every safety property
that the passing runs check, and two refinements: of the write buffer, and of the
whole path from export to database row. The readers' properties are proved over
that path too, not only over its abstract specification.

Paths below are relative to the repository (`src/`), as in `PROJECT.json`, which
also lists every hazard with the properties that guard it, the source lines of
every definition, and a mutant of the code for every property.

## 1. Inventory

| Component | State | Operations | What makes it correct |
| --- | --- | --- | --- |
| Debug session API and store (`api/debug_sessions.rs`, `db/debug_sessions.rs`, migration) | rows `debug_sessions`, `debug_session_peers` | create, end, get, list, delete expired | status only moves forward, one end wins, end time written once, data kept for the retention period |
| Peer router (`peer_router.rs`) | peer -> set of debug session ids, in memory | add_session, remove_session, route | holds exactly the peers of active sessions; one session's end never takes a peer from another |
| Cleanup (`cleanup.rs`) | none of its own | hourly DELETE with cascade | deletes nothing early |
| Write buffer (`write_buffer.rs`) | bounded channel, batch, flush task | try_send, receive, tick, flush | bounded; a record is stored at most once, batches whole and in order; everything accepted is settled |
| OTLP receivers (`receiver/`) | rate limiter | export of traces, metrics, logs | every row belongs to an existing session that claims the peer; registries updated before events |
| Peer tracker, HOPR session tracker | peer -> last seen; session -> participants, times | record_seen, update_session, reads | participants tracked and listed once; every update that had its entry to itself shows in the times |
| Events and SSE (`server.rs`, `api/events.rs`) | broadcast channel of 1024 | emit, subscribe, lag | a lagging page loses events but is not led astray for good |
| Browser scripts (`rescript/`) | counters; inspector rows, pause buffer | fetch on event, render, pause, resume | counter right when things are quiet; rows newest first and bounded |
| Web pages, read API, telemetry queries (`pages.rs`, `api/`, `db/telemetry.rs`) | none | pages, lists, pagination | what is shown together belongs together; a total never promises rows that are not there; paging misses no row |
| Identity bridge (`identity.rs`) | two maps | lookup, insert | the maps are inverse to each other, but for a call that was dropped between them |
| Blokli client and channel watcher (`blokli/`) | last poll | query, poll, compare | every change that persists is announced; announcements follow the chain |
| Configuration (`config.rs`) | the settings in force | merge three layers over defaults | the settings asked for are the ones in force |
| Process start (`main.rs`), pool and migration (`db/mod.rs`), probe (`server.rs`) | readiness flag, listeners, schema on disk | load, migrate, spawn, bind, serve, stop | ready only when it works; comes to serve again after any fault |
| `types.rs`, `lib.rs`, `proto.rs` | none | none | data types and generated code |

How they interact. An export asks the *peer tracker* and *session tracker* to
record what it saw and sends an event for each, asks the *router* which debug
sessions claim the peer, and offers one record per session to the *write
buffer* without waiting. The *flush task* writes batches in a transaction whose
rows reference the debug session. *Create* commits rows and then tells the
router; *end* updates the row and then tells the router; *cleanup* deletes rows,
and SQLite cascades to peers and telemetry. All of these are tokio tasks of one
process on several threads: they meet at `RwLock`s, at the channel, and in
SQLite. Browsers hold an SSE stream each and fetch lists when an event arrives.

What is hard here:

* *Atomicity*: database first, router second, with an `await` between; a second
  request, a closed connection (hyper and tonic drop the handler's future), the
  cleanup or a crash may fall there.
* *Stale reads*: a routing decision is used after the router's lock is released,
  so a record may reach the table after its session ended or was purged; the
  cleanup's cutoff is older than its DELETE; clocks are read before locks.
* *Partial failure*: one bad record fails a whole batch; a duplicate peer id rolls
  a creation back.
* *Bounds*: channel and batch at their limits, the SSE channel that overwrites.
* *Crash and restart*: router, trackers, channel and batch are memory; sessions
  and rows are not.
* *Ordering*: clock readings, events and answers that arrive in another order
  than they were made.
* *Reads in several statements*: no page or API call reads in a transaction; a
  flush or a purge may fall between any two of its statements.
* *Half-done work on disk*: the migration's statements commit one by one.

## 2. Modules

| Module | Models | Kind |
| --- | --- | --- |
| `DebugSessions` | session handlers, router, cleanup, clock, restart | specification |
| `MCDebugSessions` | two peers, and the peer lists clients post | instance |
| `DebugSessionsProofs` | theorems about `DebugSessions` | proofs |
| `TelemetryStore` | what the buffer promises: best-effort ordered storage | abstract specification |
| `WriteBuffer` | channel, batch, flush task, shutdown and crash | specification, implements `TelemetryStore` |
| `WriteBufferProofs` | theorems about `WriteBuffer`, among them the refinement | proofs |
| `Pipeline` | exports, and the composition of `DebugSessions` and `WriteBuffer` | specification |
| `MCPipeline` | instance, symmetry and view | instance |
| `PipelineProofs` | theorems about `Pipeline`, among them the refinement, and about sessions and readers within it | proofs |
| `Trackers` | peer and HOPR session registries and their events | specification |
| `MCTrackers` | instance: spans with shared sessions, a wrapped hop count, an unknown role | instance |
| `TrackersProofs` | theorems about `Trackers` | proofs |
| `LiveUpdates` | sampling, broadcast channel, SSE, dashboard counter, inspector | specification |
| `MCLiveUpdates` | instance and symmetry | instance |
| `LiveUpdatesProofs` | theorems about `LiveUpdates` | proofs |
| `Attributes` | what receivers read from attribute lists | operators |
| `Subsequences` | what a WHERE clause leaves of a table | operators |
| `CaptureStore` | what the capture path promises readers of the database | abstract specification |
| `SessionViews` | lists, detail page, telemetry pages, over `CaptureStore` | specification |
| `MCSessionViews` | instance: four spans of one session, a log record of another; symmetry | instance |
| `SessionViewsProofs` | theorems about `SessionViews`, on lemmas about `Subsequences` | proofs |
| `Startup` | settings, migration, tasks, listeners, probe, shutdown | specification |
| `MCStartup` | instance: deployments | instance |
| `StartupProofs` | theorems about `Startup` | proofs |
| `Blokli` | the indexer as the client's queries see it | environment |
| `IdentityBridge`, `ChannelWatcher` | the indexer's two users | components |
| `Indexer` | their composition, with the API request for channels | specification |
| `MCIndexer` | instance | instance |
| `IndexerProofs` | theorems about the three together | proofs |

### State and actions against the code

**DebugSessions.** `status`, `endedAt`, `claims` are the two tables; `routes` is
`PeerRouter.routes`; `task[h]` is the program counter of an HTTP handler with the
values it holds across an `await`; `purge` is the cleanup's. Every database
call and every router call is one action: `CreateCommit` (a transaction, all or
nothing) then `CreateRoute`; `EndBegin` (the path is parsed and `ended_at`
taken), `EndCommit` or `EndRefused`, then `EndUnroute`; `CleanupBegin` (cutoff)
then `CleanupDelete` or `CleanupFail`. `Disconnect` drops a handler at any of
its awaits. `Restart` empties memory and leaves the tables, as `main` does.
A creation the database refuses changes nothing and is no step. Times are
RFC 3339 strings in the code, all in UTC and of the same format, so comparing
the strings compares the times; the wall clock is assumed not to go back.

**WriteBuffer.** `channel` is the mpsc channel, `batch` the vector of
`flush_loop`, `task` where the loop is: `starting` (the interval is not built
yet), `waiting` (in `select!`), `beginning` (waiting for a connection),
`writing` (inside the transaction), `dead` (panicked). `process` distinguishes a
process that is up, one that has stopped its servers and is closing the pool,
and none. `stored`, `lost`, `refused` are where records end up. The closing
process still accepts records from connections it has accepted; nothing drains
channel or batch. A process crash loses memory only: SQLite in WAL mode with
`synchronous = NORMAL` keeps committed transactions over it (a power failure is
not modelled). The program handles only Ctrl-C, so SIGTERM is a `Crash`.

**TelemetryStore.** The promise, with no channel and no flush task: accept up to a
capacity, refuse under pressure, store or lose the oldest accepted records as
one batch, lose everything accepted when the process stops. The refinement maps
`pending` to `batch \o channel`.

**Pipeline.** `INSTANCE`s of both modules over one set of variables. An export
takes its decision with `DebugSessions!Route` and offers a record with
`WriteBuffer!Enqueue` or `Refuse`; spans ask the router one by one, metrics and
log records once per resource. Two joints are added: `Flushed` needs the session
of every record in the batch to exist (the foreign key; otherwise only
`FlushFailed` is possible), and `Cleanup` removes the rows of purged sessions
(the cascade). `Shutdown` is Ctrl-C, after which the pool closes while requests on
open connections still run: exports go on to offer records, and an UPDATE or
DELETE under way still ends one way or the other, but no new one begins. `Stop` is
the end of that phase, or a crash at any moment. Nothing couples the clock to the
queues: a retention of zero hours and any flush interval are accepted, and telemetry
of a session may wait past its purge. `disturbed` is a history of sessions whose
handler was cut short or overlapped another.

**Trackers.** An export's two kinds of updates, each as clock reading, write under
the lock, and event. `overlapped` is a history of the updates that waited for an
entry while another update waited for it too.

**LiveUpdates.** `sent` is everything broadcast, of which the channel holds the
last `Capacity`; `cursor` is each page's position; `fetch` is the dashboard's
request for each event. `missed`, `overtaken` and `taken` are histories: `missed` ends
with the next event that makes the page ask, `overtaken` with the next answer shown
that no earlier one has overtaken. `RenderAll`
renders a pause's traces one after the other: a function of how many are done.

**Attributes.** `PeerIds`, `StringAttr` and `IntAttr` differ in what they do with a
name that comes twice, without a value, or with a value of another kind, as
`extract_peer_id`, `extract_string_attr` and `extract_int_attr` do: the first of
the name decides for the peer id, the first that has a value for a text, the
first integer for a number. `Trackers` reads resources and spans with them; a
resource without a peer is passed over (`ArriveUnnamed`).

**Subsequences.** `Only(seq, S)` keeps the elements of `seq` that are in `S`: the
rows a SELECT finds, or those a cascade leaves. It picks the n-th element by
counting places, where the library's `SelectSeq` recurses; what it does can thus
be proved without induction.

**CaptureStore.** Sessions that appear with all their peers, are ended and are purged
with their rows; rows that are inserted in batches, each of a claimed peer of a
session that is there. `Pipeline` implements it (`IsCapture`), with its handlers,
routes, channel, batch and crashes hidden, and `SessionViews` extends it, so
that what is checked of readers rests on what is checked of the writers.

**SessionViews.** `view[r]` is the program counter of a request with the statements it
has left (`left` for sessions whose peers are unread, `queries` for telemetry)
and what it has read. One action per statement: `SelectAll` or `SelectOne`, then
`SelectPeers` for each session, then `Count` and `SelectPage` for each query.
A row's time is read when it is inserted, by the one flush task, so the order
of times is the order of insertion. The handlers of `api/telemetry.rs` are
written but not routed by `build_router`; `AskPage` is their call, and
`AskNextPage` a client that uses their offset as meant.

**Startup.** `layers` are the settings of one deployment, `phase` is how far `main` has
come, `schema` is what of the migration is on disk. One action per step of
`main`; the migration is one action per statement, as the string is executed
outside a transaction. Settings are numbers and texts; the retention wraps as
`u64` does in a release build (a build with overflow checks panics instead,
which is no step). `Gone` is every way out of the process. `probe` is one
`readyz` request: database first, flag second.

**Blokli, IdentityBridge, ChannelWatcher, Indexer.** `chain` keeps every state a channel
had; queries answer with the newest. `call` is where each call on the bridge is;
the writes under the two locks are two actions, and `Dropped` may fall at every
await; `cut` is a history of keys for which it fell between the two, until a call
for the key comes through. `watcher` is
where the polling task is, `lastKnown` its map, `announced` a history of what
was sent. `request` is an API request, which looks in `peer_to_key` only. `main`
starts the watcher with no keys and a channel that nobody receives from, and
nothing calls the bridge's lookup or insertion, so in the program as it is the
API answers 404; the modules show what these components do once they are used.

## 3. Runs

| Run | Instance | Question |
| --- | --- | --- |
| `debug_sessions` | 2 sessions, 2 peers, 3 handlers, clients that behave, one process, fair | Are active sessions captured and ended ones reverted, and do both happen? |
| `debug_sessions_disturbed` | 2 sessions, 2 peers, 2 handlers, retention 1, clock to 3, disconnects, early ends, restarts | What holds whatever clients and the machine do? |
| `debug_sessions_restart` (violation) | as above, restarts only | Is an active session still captured after a restart? No. |
| `debug_sessions_early_end` (violation) | as above, early ends only, fair | Does a session ended while its creation is pending revert? No. |
| `write_buffer` | 5 records, channel 2, batch 2, crashes, fair | Bounds, exactly one place, refinement, settlement |
| `write_buffer_zero_interval` (violation) | flush interval 0 | Are records refused only when the buffer is full? No: the task is dead. |
| `pipeline` | 2 sessions, 2 peers, 1 handler, 1 export of 2 items, channel 1, batch 2, retention 0, shutdowns, crashes, disconnects | Does the capture path implement `CaptureStore`, and is an ended session left alone? |
| `trackers` | 2 exports, 2 peers, 2 HOPR sessions, 4 span lists and 4 resources as attribute lists, clock to 3, restarts | Do the registries, and the times in them, survive interleaved, cancelled exports? |
| `live_updates` | 3 events, channel 2, 2 peers, 2 exports, table of 1 row | Is the counter right at rest; are samples rare and rows in order? |
| `session_views` | 2 sessions, 5 rows, 1 reader, pages of 1 row, 3 pages | Does what is read in pieces fit together? |
| `startup` | one setting in any of 3 layers, 3 addresses, 3 statements, 2 faults, fair | Are settings in force, is ready true, does it come to serve? |
| `indexer` | 2 accounts, 2 calls, 1 channel with 3 changes, 2 watched keys, fair | Do the maps agree, and does the watcher follow and catch up? |

Why the bounds are enough. Two sessions on two peers make all overlaps of one
session's end with another's claim; three handlers put a create and two ends of
one session side by side. Retention and clock bounds of one and three let a
session expire, not expire, and expire exactly at the cutoff. Five records
through a channel of two and batches of two fill both, refuse one, and start a
second batch. In `pipeline` a channel of one and a batch of two let a record
of an ended session share a batch with one of an active session, and a purge
come between acceptance and flush; both sessions claim the first peer, so one
telemetry record may go to both, and nobody claims the second. Three events through a channel of two let a
page lag by one and have two requests under way. Four spans of one session and
pages of one row let rows arrive before, between and after the pages of a
client, two at once between pages, and a batch straddle a page; a reader's requests share nothing
with another's, so one reader is enough. Three statements give a first, a
middle and a last place to crash, two faults a crash during the recovery from
the first, and the small numbers of `startup.cfg` an hour that overflows, one
that is too long for the clock and one that is neither. Three changes between
two values let a channel go back and forth between polls; two calls on the
bridge meet at each lock, on one key and on two.

`PROJECT.json` gives each property a mutant: a change of the modelled code such as
a dropped guard under which TLC refutes the property with the same bounds.

The passing runs check deadlock as well: in each, time, restarts or new requests
leave something to do.

`MCPipeline` and `MCLiveUpdates` use symmetry (sessions, or peers and exports, are
interchangeable, and only safety is checked), and so does `MCSessionViews` (spans
of one peer differ in nothing but their id). The view of the run `pipeline` leaves
out what no guard and no property of that run looks at, but for types: who was
lost or refused (a record an export makes is new by its identity), the order of the
rows, the end time of a session that is not waiting for its purge, and the kind of
an export that is at its last item.

### Fairness

`DebugSessions!FairSpec` asks weak fairness of each handler's next step: tokio
polls a task whose lock or connection is available, and `FairSpec` is used only
with `Disconnects = FALSE`, as a dropped handler takes no further step.
`WriteBuffer!FairSpec` asks weak fairness of the flush task's start, receive,
tick and flush. `select!` chooses at random among ready branches, so no ready
branch waits for ever, and a flush ends because SQLite's busy timeout and the
pool's acquire timeout do. No fairness is asked of clients, exporters, the
cleanup, the clock, crashes or restarts.
`Startup!FairSpec` asks weak fairness of `main`, which includes that the process is
started again after it went down (HOSE is deployed under a supervisor; without
one `KeepsServing` says nothing), and that another process does not hold one of
its addresses for ever. Faults are bounded, so they stop at some moment.
`Indexer!FairSpec` asks weak fairness of the watcher's task: its interval fires and
its queries end. reqwest has no timeout here, so the second is a demand on the
indexer, listed as a hazard. Strong fairness of `PollAnswered` for each key says
that its queries, attempted again and again, do not all fail.

## 4. Proofs

`DebugSessionsProofs`, for any sets of sessions, peers, handlers and peer lists,
any retention period, and any bound on the clock:

* `TypeCorrect`: the type invariant.
* `RoutesAreClaimed`, `EndIsExclusive`: from `RouterInv`, which adds to the two
  properties that a pending handler agrees with the rows: a handler that is
  about to register a session holds exactly the peers its row claims, and one
  that is about to unregister it finds it no longer active. The two properties
  are not inductive alone, since a route appears only when such a handler acts.
* `PeersRevert` (assuming `~Disconnects` and `~EarlyEnds`): adds
  `CreatedBeforeEnded`, that a session is active and nobody is ending it while
  its creation is pending. The run `debug_sessions_early_end` shows that the
  assumption is needed.
* `ActiveCaptured` (assuming `~Disconnects` and `~Restarts`): inductive with
  `RouterInv`. The run `debug_sessions_restart` shows the need of the second
  assumption.
* `RetentionRespected`: from `PurgeStampIsPast`, that the cleanup's clock
  reading is not ahead of the wall clock.
* `StatusIsMonotone`: the action property, from the actions alone.

`WriteBufferProofs`, for any records, capacity, batch size, and interval:

* `TypeCorrect`, `Bounded` (with: the batch is empty outside the loop),
  `NeverTwice` (from lemmas on sequences without repetition: moving a head,
  appending, cutting a part out), and
* `Refinement`: `Spec => TelemetryStore!Spec`, each action mapped to a step of
  the store or to a stutter; it needs `Bounded`, and that a dead task means an
  interval of zero, to justify refusals;
* `RefusesWhenFull` (assuming that the interval is not zero): a record is turned
  away only by a channel of exactly `write_buffer_size` records, as `try_send` is
  documented. The run `write_buffer_zero_interval` shows that the assumption is
  needed.

`PipelineProofs`, for any exports, handlers, sessions, peers, items and queue sizes:

* `TypeCorrect`;
* `EndedIsLeftAlone`: whatever the retention, the flush interval and the order of
  requests, no export is newly routed to a session once the handler that ended it
  is through. It comes from `EndedRevert`, and excepts sessions with a handler that
  was cut short or overlapped another, which can stay routed (as
  `debug_sessions_early_end` shows of the second). What was routed before the end
  may still arrive after the purge, and fails the batch it is in;
* `Refinement`: `Spec => CaptureStore!Spec`, each of the pipeline's steps mapped to
  the creation, end or purge of sessions, to a stored batch, or to a stutter. A
  flush is a `Store` because the foreign key says the session is there, and the
  invariant that it claims the peer and that the records are new; a cleanup is
  a `Purge` of ended sessions only, with their rows;
* `RowsBelong`: every row is there once, of a session that is there and claims its
  peer. It is the `StoreInv` of readers, carried along the refinement;
* `SessionsAsSpecified`: `Spec => DebugSessions!Spec`, so nothing that the composition
  adds does to sessions what they cannot do themselves, and `SessionsAreRight`: what
  `DebugSessionsProofs` proves without assumptions on clients holds in the whole
  path (`RoutesMatchClaims`, `OneEndWins`, `StatusMovesForward`, `KeptForRetention`);
* `ReadersAsSpecified` (assuming a positive page limit): `SpecRead`, the pipeline with
  any number of readers of its database, implements `SessionViews`. A reader's step
  is one of `SessionViews`, and a step of the pipeline is one of the store by the
  refinement. `ReadersAreRight` concludes the properties of `session_views`
  for readers of the real writers: `ShownWithItsPeers`, `RowsComeFromShownPeers`,
  `PageIsOfOneMoment` and `NoRowSkipped`.

The inductive invariant, `PipelineInv`, joins what the two components' own proofs
keep (`RouterInv`, `BoundInv`, `EachRecordOnce`) with three parts about the joints:
`OfferedOnce` (what an export still has to offer, nobody has seen yet),
`OnItsWay` (a decision, a queued or a batched record is for a session that
claimed its peer, and does unless it was purged), and `EndedRevert` (an ended
session whose handlers ran one after the other, each to its end, is routed only
while the last of them is about to remove it). None is inductive alone: that rows
are stored once needs that no export offers one again, and that an ended session is
not routed needs that its creation was through before. The proofs of
`DebugSessionsProofs`, `WriteBufferProofs` and `SessionViewsProofs` are used through
`INSTANCE`: a step of the pipeline is one of theirs, except that a purge also
takes rows away.

`TrackersProofs`, for any peers, HOPR sessions, exports and attribute lists:

* `TypeCorrect`, with `RequestsInOrder` (what a request carries at each step);
* `ParticipantsTracked` and `EventsTrueToState`, from `RecordedIsTracked`: a request
  past its peer's registration has that peer in the registry, and one about to
  announce a session has the session there. Without it a session update might
  add a participant nobody registered;
* `SessionsGrow`, the action property, from how an entry is merged;
* `LastSeenCurrent`, from `StampsArePast` (no reading ahead of the clock),
  `ReportsTakeTurns` and `UpdatesTakeTurns` (two updates that wait for one entry are
  both marked, and one that was recorded unmarked is not newer than one that waits),
  and `FirstSeenFirst` (an entry is created behind the back of an update that waits
  only by one that waited with it).

`IndexerProofs`, for any accounts, channels, callers and watched keys:

* `MapsAreInverse`, from `BridgeInv`: what the maps hold is so on chain, and a call
  between the two locks has written the first map, so the second write cannot
  contradict it;
* `AnnouncementsFollow`, from `WatcherInv`: what the watcher remembers is the
  version it announced last, and an answer on its way is not older. Answers are
  of the chain as it was when asked; the chain only grows (`ChainInv`);
* `AnswersAreOfThePeer` and `TypeCorrect`, from `RequestInv`.

`StartupProofs`, for any settings in any layers, migrations of any length, and
faults at any step:

* `TypeCorrect`; `ConfiguredAsAsked`, from `ConfigInv`: the settings in force are
  those of the layers from the moment they are read;
* `ReadyIsWorking`, from `LifeInv`, which ties how far `main` has come to what is on
  disk (every statement before the current one, whatever an earlier crash left),
  to the listener, to the tasks, and to the settings that kill one.

`SessionViewsProofs`, for any sessions, readers, rows, limit and batches:

* `ShownRight`, from `AskedSessionsExisted`: nobody asks for the peers of a session
  still to be created, and a created one keeps its peers until it is purged;
* `RowsOfShownPeers`, from `DetailAsksShown` and from `StoreInv` (rows belong to
  sessions that are there), which `Refinement` carries over to the real writers;
* `PagesOfOneMoment`, from `CountIsPast` and lemmas on which positions a page shows;
* `PagesMissNothing`, from `SeriesInOrder` (offsets go on by the limit) and
  `SeriesCover`: the pages have shown every row from their first page down to where
  their last one ended, among the rows of some moment. Rows only come on top, so
  the next page, of the rows of a later moment, starts no lower than that
  end. The property speaks of rows between one of the first page and one seen
  later. When many rows arrive between two pages, the second shows rows that are
  newer than the first page's, and some of those in between are never seen.
  That is what offsets do, and the property does not claim otherwise;
* `TypeCorrect`, with `StagesInOrder`.

Its first part has the lemmas these share: what `Only` returns, that it keeps
order and identity, and how it meets concatenation and itself.

`LiveUpdatesProofs`, for any peers, exports, cooldown, table and channel sizes,
and any bounds on events and time, from one invariant, `LiveInv`:

* `TypeCorrect`. That no number shown exceeds what is known makes it inductive
  only with the same bound on every answer under way;
* `CounterIsRight`. The property speaks of the moment when nothing is under way;
  `FreshInv` speaks of every moment when all that was announced has come to the
  page and was asked for (`Heard`), and says that the number is right, and no answer
  that would be in order can still replace it (`RightNumber`), or that the answer
  given last is right and not shown yet (`RightAnswer`). Each new peer makes
  `Heard` false until its announcement was asked for, and the answer to that
  request is the last and counts the peer. It rests on `OrderInv`, that answers
  are numbered in the order they are given, and on `StreamInv`, that no request was
  sent for an event still to come;
* `SamplesAreRare`, from `SampleInv`: the samples sent or about to be are a cooldown
  apart up to the last one, which is not in the future;
* `InspectorIsRight`. A step takes what shows a sequence to what shows the longer
  one. For `Resume` the lemma `RenderAllShows` says so of `RenderAll`: its function
  is the one whose n-th value is the table that shows n traces more. This is an
  induction over the length of the buffer. As the library's induction theorem
  takes an operator, the lemma `AllNumbers` states it for a set of numbers instead,
  and proves it by counting: a set that is closed under successor but lacks a
  number would have an injection into itself without 0.

Assumptions on constants are the named `ASSUME`s of the modules: peer lists and
watched keys are sequences, capacities and limits are positive (tokio panics on
a channel of zero), the retention period and clock bounds are natural numbers,
a setting of a layer is given at most once and numbers are natural
(`LayeringsAssumption`), an account belongs to one peer (`AccountAssumption`), the
attribute lists of a request are read to spans of the model's names
(`RequestsAssumption`), a request has items (`ItemsAssumption`). They say what the
code's types say; TLC evaluates each on the instances.

Only model-checked:

* Liveness, which depends on fairness and on what is enabled:
  `EndedSessionsEventuallyRevert`, `ActiveSessionsEventuallyCaptured`,
  `AcceptedIsSettled`, `KeepsServing` and `WatcherCatchesUp`. TLAPS reasons neither
  about fairness conditions, which speak of what is enabled, nor about leads-to
  that rests on them.
* That the instances never deadlock.
* That the instances reach what the properties are about, which the mutants of
  `PROJECT.json` show.

## 5. Disagreements found

Each of these is a run that TLC refutes, and an entry of `findings` with the text it
contradicts: active sessions are not captured after a restart; a session ended
while its creation is pending is captured for good; a flush interval of zero
silently kills the flush task.

Others, seen while modelling:

* A session whose end call is dropped between the database and the router stays
  routed until the process restarts (`src/src/api/debug_sessions.rs:111`): a second end
  is refused before it reaches the router. `EndedTakesNoMore` excepts it.
* A record whose session was purged while it waited takes the whole batch with it,
  records of live sessions included (`src/src/write_buffer.rs:97`), with no request cut
  short and no crash: `retention_hours = 0` is accepted, and so is a flush interval
  longer than the retention. `docs/design.md:449` speaks of "individual records".
* `write_buffer_size` bounds the channel only; a batch of up to 100 comes on top
  (`src/src/config.rs:74` says "buffered before a batch flush"). `BufferBounded`
  states the bound that holds.
* A HOPR session can be last seen before it was first seen, as the clock is read
  before the lock is held (`src/src/session_tracker.rs:30`), and last_seen of a peer
  can go back (`src/src/peer_tracker.rs:24`), if two updates wait for the entry
  together; `LastSeenIsCurrent` and `SessionsOnlyGrow` state what holds.
* The dashboard can be left with an overtaken count, as answers are shown as they
  come (`src/rescript/src/DashboardLive.res:35`), and with an old one after lag or a
  late subscription, until the next event; `overtaken` and `missed` in
  `CounterIsCurrentAtRest` mark exactly these cases.
* A process whose flush task is dead answers 200 to `readyz`, which looks at the
  database and at the gRPC listener only; the exceptions in `ReadyMeansWorking`
  name when this happens, and when the cleanup task is dead.
* An address that does not parse is replaced by the default without a word, even if
  a lower layer has a good one (`Address`).
* A lookup dropped between the bridge's two locks leaves a peer that is found by its
  key but not the other way, and the cached hit then returns before it could be
  repaired; only a call that missed before, or that brings the mapping, repairs it
  (`cut` in `MapsAgree`).
* A retention beyond what dates reach ends the cleanup task at its first tick.

## 6. Not modelled

* *GraphQL and HTTP plumbing, HTML templates, JSON shapes, tracing, routes and
  static files, `livez`*: I/O and formatting without state of their own. `server::run`,
  `query_channels` and the cache dump of the identity bridge have no caller in
  the program.
* *Lists of peers and of HOPR sessions* (`/peers`, `/sessions`, their API): a copy of
  one registry under its lock; the dashboard's counts are modelled.
* *Columns and payloads of telemetry rows*: a record is an identity with a session
  and a peer, and for readers a kind.
* *The database path and the indexer's URL*: they are merged like the addresses, and
  a path that cannot be opened is a `Die`.
* *Mappings that do not hold on chain*: the bridge is given true ones. `trace_generator`
  (an example) is a client like any other.
* *`types.rs`, `lib.rs`, `proto.rs`*: data types and generated code.
* *Power failure, disk corruption, a wall clock that goes back.*
* *The server restart as seen by an open page*: a page reconnects, and its counter
  stays as it was until the next event.

## 7. Plan

1. Done: the modules of section 2, with the proofs of section 4.
2. What could come next: proofs of the liveness properties, once the prover handles
   fairness; a finer model of the indexer's client when its timeout is decided
   (`blokli/mod.rs`, a hazard without a property); a bound on the inspector's pause
   buffer when the page gets one.
