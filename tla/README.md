# Haruki Event Tracker in TLA+

The tracker polls the rankings of a game's events, stores every change in a
database per server, and serves them through an HTTP API with a two-level cache
and a WebSocket feed. This directory holds its formal model: TLA+ modules
translated from `src/`, configurations for the TLC model checker, and proofs
for TLAPS.

## The system

| Component | State it keeps | Operations |
|---|---|---|
| **Event tracker** (`tracker/base.rs`, with `diff.rs`, `cache.rs`, `state.rs`) | in memory: `prev_rank_state`, `prev_world_bloom_state`, `wl_user_keys`, ended flags; in Redis: `rank_state`, the border hash, `ended` | a tick (`record_ranking_data`), `refresh_after_end`, `init`, `set_event_ended` |
| **Batch writes** (`db/query/batch.rs`) | ranking rows, World Bloom rows, time ids, user dimension | `batch_insert_event_rankings`, `batch_insert_world_bloom_rankings`, `batch_upsert_event_users` |
| **API cache** (`api/cache.rs`) | Redis: epoch and dirty flag per event, values and negative entries per epoch; per process: L1 controls, L1 values, the SingleFlight map | `get_or_fetch_*`, `begin/finish/abort_event_update` |
| **Tracker daemon** (`tracker/daemon.rs`, `parser.rs`, the job in `app.rs`) | the tracker of the current event, chapter flags, parsed master data | a scheduled tick: find the event, switch trackers, finalize chapters and the event, notify |
| **Realtime hub, WebSocket sessions and tickets** (`api/realtime.rs`, `ws.rs`, `ws_ticket.rs`) | connection and topic counts, a broadcast channel, tickets with an expiry | connect, subscribe, unsubscribe, disconnect, notify; issue, consume, prune |
| **Query limiter** (`api/limiter.rs`) | two pools of permits | acquire, release |
| **Users table and privacy** (`db/privacy.rs`, `privacy.rs`, `api/state.rs`, `api/private_lookup.rs`) | the users table, a per-table "extended" cache under a lock, public ids | create, migrate, backfill, upsert, look up |
| **Queries and analytics** (`db/query/*`, `round_metrics.rs`, the leaderboard services, `handler/web.rs`) | none (functions of the tables) | pages, snapshots, overviews, traces, growths, round metrics |
| **Plumbing** (router, extractors, JSON, config, storage, logging, schema) | none a property is about | |

How they interact. A scheduler fires one job per server; the job takes the
daemon's mutex with `try_lock`, so at most one tick of a server is under way.
A tick reads the master data, fetches two upstream responses, compares them
with the tracker's memory and writes what changed. Around the writes it calls
`begin_event_update` and then `finish_event_update` (epoch + 1, dirty flag off)
or `abort_event_update` (dirty flag off). API requests run concurrently in any
number of processes, and the cache's keys, the epoch and the flag in Redis are
all that connects them to the tracker. After a tick that wrote rows the daemon
notifies the hub.

What is hard here:

* the cache is correct only through an agreement of three scripts and an
  `INCR`/`DEL` pipeline that is not a transaction, among requests that read the
  database before they know whether they may store what they read;
* a tick has nine ways out, and memory, Redis and two tables move at different
  points of it, so every failure or crash leaves them at different versions;
* the tracker looks only at differences, so a state that runs ahead of the
  database silently suppresses rows for ever;
* waiting requests depend on the fate of others, whose client may go away, and
  an owner of one flight may wait for another flight or for permits;
* an answer is put together from several queries, without a transaction, while
  the tracker writes between them;
* a receiver of the hub lags, a ticket is presented late or twice, a table is
  migrated lazily while rows are inserted.

Correct means: a response under an epoch is exactly what the epoch published;
what is remembered is in the tables; after any failures the tables catch up;
every update of the cache is closed the right way; what an answer combines
belongs together; counts and permits are exact; every request ends.

## Modules

| Module | Role |
|---|---|
| `ApiCache` | one response of one event in the cache: the tracker's bracket, Redis, the L1 of each process, SingleFlight, requests step by step, timeouts, expiry, faults |
| `UpdateProtocol` | the abstract contract between tracker and cache |
| `EventTracker` | one event's tracker: a tick step by step with each of its failure exits, the final and post-end ticks, World-Bloom-only ticks, restarts |
| `TrackerDaemon` | the daemon of one server: the event timeline, switching trackers, chapter and event flags, restarts |
| `Serving` | expensive responses: identity and gzip encodings of one response, chained flights, the two semaphores of the limiter |
| `Realtime` | tickets, the hub's counts and broadcast channel, the task of a WebSocket connection |
| `UserDimension` | one event's users table: creation, lazy migration under a lock, backfill, two trackers' upserts |
| `RankingQueries` | what each query of `db/query` returns for a content of the tables |
| `RoundMetrics` | the round metrics of a trace, a pure computation |
| `RankingReads` | requests that take several of these queries while the tracker writes |
| `ApiCacheAnswers` | `ApiCache` with a history variable: how recent an answer a request may count on |
| `MC...` | instances for TLC; the mappings to `UpdateProtocol` are in `ApiCache` and `EventTracker` themselves |
| `ApiCacheProofs`, `ApiCacheAnswersProofs` | theorems about `ApiCache` and `ApiCacheAnswers` |
| `EventTrackerProofs`, `TrackerDaemonProofs` | theorems about `EventTracker` and `TrackerDaemon` |
| `ServingProofs`, `RealtimeProofs` | theorems about `Serving` and `Realtime` |
| `UserDimensionProofs`, `RankingReadsProofs` | theorems about `UserDimension` and `RankingReads` |

Definitions named `X_Something` after a definition `X` are mutants: forms a
plausible bug would give to `X`. No specification uses them; each property is
shown to fail when its mutant takes the place of the original.

### ApiCache

A response is abstracted to the versions of the database it was computed from:
`rows`, the number of ranking transactions some ranking query of it saw, and
`users`, the number of user upserts. A handler runs several queries without a
transaction; what holds of an arbitrary one holds of each, so no cached response
mixes versions either. The subject is absent (a 404, cached as a negative
entry and never in L1) until `Appears` ranking transactions.

`upd` is where the tracker is between begin and finish; `epoch`, `dirty`, `l2`
and `neg` are Redis' keys; `control` and `l1` are the L1 of each process. A
request moves through `pc`: it looks at the L1 control (`StartUnknown`,
`StartDirty`, `StartClean`), enters a flight (`EnterFlight` = `SingleFlight::begin`)
as owner or waiter, runs READ_SCRIPT (`ReadCombined`) or a plain read under the
control's epoch (`ReadValue`), processes the reply in a separate step, because
the process may be late (`ReplyDirty`, `ReplyHit`, `ReplyMiss`), fetches, and
writes through WRITE_SCRIPT (`WriteBack`), which may time out and be executed
later (`WriteTimeout`, `LateWrite`). `Finish` hands the answer to the waiters;
`Fail` is an error or a dropped future. A response above `max_value_bytes` is
not written; `WriteTimeout` with nothing left behind covers it. The two commands of
`finish_event_update` are two actions. `floor` is a history variable: the
database at the moment each epoch was published.

### EventTracker

A payload maps ranks to rows (user, score) for the top 100 and the border, and
World Bloom keys to a version (0: not listed). One tick is
`FetchOk -> Begin -> InsertMain -> InsertWl -> Close -> StoreBorder ->
SaveRankState -> Return`, after the end of the event with `BeginProfiles` and
`UpsertProfiles`; `CloseFailed` is the common way out of a failed insert. The
variables `mem`, `wlMem`, `wlKnown`, `ended` are the tracker's memory, `saved`,
`hash`, `flag` Redis, `latest` and `landed` the newest and all rows of the
ranking table (the `wl...` ones of the World Bloom table). `seen` and `wlSeen`
hold who has a row in the present second: the tables are unique by time and user,
and a second row is dropped. The border's hash is the border itself (SHA-256 is
taken to be injective).

Chapter flags are not part of this module: `data.wl` is what
`extract_world_bloom_rankings` returns.

### TrackerDaemon

A tick is `Fire -> (Build) -> Match... -> FinalizeChapter* -> Record...`, or
`SkipTick` when the job finds the mutex taken. The clock `now` moves between any
two of its steps, so what a tick saw (`seen`) ages, and `Build`, which looks at
the master data again, may find another event or none. All comparisons with the
event's and the chapters' times are those of `parser.rs`, strict ones included:
at `aggregate` an event counts as ended. `inner` is the `EventTrackerBase`: its
event, `ended`, chapter `statuses` and `final` flags, and the time of the last
post-end refresh. A record is one step; of what it writes only the World Bloom
rows are kept, as a version for each chapter (`up` upstream, `table` in the
database), because which chapters a record covers depends on the daemon's
flags. `EventTracker` has the inside of a record. The ended flag is written after
memory was changed and its failure is only logged (`RecordFinal`).

Left out: the parsed documents' cache, the notifications (`Realtime` has them),
and a difference between the tracker's clock and upstream's: upstream marks a
chapter as aggregating exactly when its times say so.

### Serving

A request is a record of its kind: cached or a private look-up, which response,
whether the client takes gzip, whether the query needs permits, which region.
`l1` and `l2` hold versions by response, encoding and epoch. A cached request
looks at the L1 control (`Start...`), enters the `lookup` flight of its encoding
(`Enter`), reads (`ReadCombined` without a control, `ReadValue` under its
epoch), and may enter a second flight when Redis says dirty: it then owns one
flight and waits for another. Queries take the global permit first and the
region's next (`AcquireGlobal`, `AcquireServer`, `Refuse`), and give both back
when the query ends (`QueryDone`). `Encode` and `Write` store the compressed and
the plain value through WRITE_SCRIPT, each of which may time out and run later
(`WriteTimesOut`, `LateWrite`). `Finished` and `Failed` are the guard's `finish`
with and without a result; `Fail` covers failed queries and dropped requests.

The tracker is orderly here. Redis' reply reaches L1 in the step that reads it, and a
write's reply likewise: the finer steps, and the tracker's faults, are those of
`ApiCache`, whose requests have one encoding only.

### Realtime

Every lock of the hub and of the ticket store is one step; between the lock and
the broadcast that follows it others run. The task of a connection moves through
`pc`: `upgrading`, `ready` (it has a receiver and is not counted), `open`, the steps of a
subscription (`add`, `drop`, `tell`, `reply`), a proxied request, and the three
steps of leaving. `rx` is the part of the broadcast channel a receiver has still
to take; a receiver that is more than `Capacity` behind loses the oldest ones.
`due` is a history: the updates broadcast while the connection was subscribed.
Tickets are numbers; generated names are taken not to repeat.

### UserDimension

`columns` says which parts of the table exist, `rows` what they hold, `lastKey` is the
last key AUTO_INCREMENT gave out. A request
checks the extension cache, takes the write lock, checks again and migrates in
five steps (`Migration`); a tracker's `init` runs the same steps without the lock. Upserts
select the stored rows, compare, and write in a second step, so two trackers race.
A restart may change or switch off the salt. A public id is represented by its
salt, a profile by its hash.

### RankingQueries, RoundMetrics, RankingReads

`RankingQueries` reads each query as a function from the tables to rows: joins,
filters, order, limit and the keyset cursor. The World Bloom queries are the same
on the rows of a chapter. `RoundMetrics` is the computation over a trace with its
window, baseline, recovery scan and averages, in small units of time.

`RankingReads` runs a request's queries one at a time (`call.todo`), in any order
where the code joins them, against `db`, while the tracker's ticks add a time id, the main
rows and the chapters' rows in separate steps. A client that pages keeps its
place, what it got, what it was entitled to at the start (`base`) and the rows
its cursors were taken from (`edges`). A failed query yields an
empty result where the code swallows the error and ends the request where it
does not.

### UpdateProtocol

`begin` opens an update of rankings or of profiles, ranking transactions happen
inside, `finish` is only allowed after a successful one (or for profiles),
`abort` only without one. `ApiCache`'s tracker and `EventTracker`'s ticks both
implement it (`ImplementsProtocol` in each module): the runs check it, and
`EnvironmentKeepsToProtocol` and `KeepsToProtocol` prove it. That is how the two
models are composed.

## Runs

| Run | Shows | Bounds |
|---|---|---|
| `cache_faults` | `CacheFloor` under every fault of the tracker | 2 requests, 1 process, 1 update with 1 ranking and 1 user transaction |
| `cache_timeouts` | `PublishedOnly`, `AnswerFresh` with late writes | 2 requests, 1 process, 2 updates, 1 write in flight |
| `cache_live` | `RequestCompletes`, `EventuallyCurrent`; the tracker's side implements `UpdateProtocol` | 2 requests, 1 process, 1 update |
| `tracker_faults` | `RememberedLanded`, `HashLanded`, `CaughtUp`, `Converges` with any 2 faults | 1 top rank, 1 border rank, 2 users, 1 World Bloom key, 1 upstream change |
| `tracker_protocol` | `Published`, `NoRepeats`; implements `UpdateProtocol` | the same, nothing lost |
| `daemon_faults` | `ChapterSettled`, `FlagRespected`, `NeverBehind`, `ChaptersConverge` with any 2 faults | a plain event, then a World Bloom event with 2 chapters, the second aggregated together with the event; 16 instants |
| `responses` | `Readable`, `VariantsAgree`, `PermitsMatch`, `RequestCompletes` with one fault | 3 requests in three mixes (overviews in both encodings; a trace asked twice beside a private look-up; traces of two regions), limits 2 and 1, 1 update |
| `hub` | `OnlineExact`, `UpdatesKept`, `AdmittedOnce`, `UpdateArrives` | 2 connections that may reconnect, 1 topic, 2 tickets, a channel of 2, 4 messages, 3 requests |
| `users` | `Extended`, `RowsKept`, `BatchLanded` with one failure and one restart | 2 trackers, 2 requests, 2 users, 2 salts or none, 2 batches; the table new or of an earlier release |
| `reads` | `MonotoneTimes`, `PagesLoseOnlyCursors`, `ReplaySettled`, `LaterReadsAgree`, `GrowthIsSnapshot` with one failure | 18 requests, 3 payloads, 3 users, 2 ranks, 1 chapter, 4 instants, pages of 1 row |
| `tracker_same_second`, `paging` | findings, see below | |

Why the bounds are enough. Two requests are one owner and one waiter, or one
slow and one fast request, of a process; a third one adds only another waiter. Requests of
different processes share nothing but Redis, where a slow request of the same
process already plays the other's part. One published update
has a before, a during and an after; a second one lets a late write miss by more than one
epoch. Every safety property of a passing run is also proved for all bounds (see Proofs). In the
tracker one rank from each response tells merge from no merge, two users tell a
change of holder from a change of score, and two faults leave one store behind and
then lose another. In the daemon's schedule the events overlap, every phase
contains an instant inside and on each of its boundaries, the chapters meet, and the
clock stops while the second event is ended but not closed. In `responses` three requests are an
owner, a waiter and one who is neither; the overview grows past the threshold of
compression and the trace past the cache's limit, so both sides of each
comparison occur; with one permit of a region and two in all, a request can hold the
global permit while it waits for the region's. In `hub` four messages push two out of the channel.
In `users` two of everything are a race. In `reads` each payload moves a player
over another and the last brings a newcomer, so a rank changes hands and a user
changes ranks between two queries of a request; pages of one row put a cursor at every row.
The bounds `MaxEpoch`, `MaxRows`, `MaxUsers`, `MaxLate`,
`MaxScore`, `MaxFaults`, `MaxChanges`, `Horizon`, `MaxUpdates`, `MaxTickets`, `MaxClock`,
`MaxMessages`, `MaxRequests`, `MaxRestarts`, `MaxBatches`, `MaxNow` only cut counters in guards.

Deadlock is not checked in `responses`, `hub`, `users`, `reads` and `paging`: the
bounded behaviours of these models end, with every request answered or the
clock at its bound. Where something must still happen a liveness property says so.

`AnswerFresh` uses the history variable of `ApiCacheAnswers`: `entitled` is the newest
epoch a request may count on when it arrives, which is Redis' epoch unless its
process holds an older L1 control or already serves a request entitled to less.

`LaterReadsAgree` computes the count and the two speeds of the row it is about a second way,
from the rows of the table by their definition, and compares.

### Fairness

`Serving`: each request's own next step (`Step(r)`) is weakly fair: tasks are polled,
Redis and queries return. Nothing makes a wait for a permit time out, a control
expire or the tracker go on, so `RequestCompletes` rests on the permits
being given back. Semaphores are not taken to be fair queues; the permits' competitors are
finitely many, so nobody starves for that.

`Realtime`: the work of each connection's task is weakly fair. Nothing obliges a
client to send or to leave, nor an update to come.

`UserDimension` and `RankingReads` have safety properties only.

`TrackerDaemon`: ticks are weakly fair and time passes. Time waits for the job
to fire at each instant (the cron interval is far shorter than any phase), but
not for the tick: one may last over any number of instants, during which every
firing is skipped. `ChaptersConverge` speaks of chapters that the tracker saw
running or over. One that it last saw aggregating or not started is not renewed once
the event itself is aggregated (`daemon.rs:184` returns before
`set_world_bloom_statuses`), so a tracker built in that phase never records
its final rows.

`ApiCache`: every step of a request is weakly fair (the runtime polls what is
ready, and each Redis command or query returns or fails), and an L1 control
expires (its deadline is a time). Nothing is assumed of the tracker or of clients.

`EventTracker`: a tick's steps are weakly fair (the scheduler fires, each await
returns), an aggregating event ends (its times are fixed), and fetches of
ticks other than World-Bloom-only ones are strongly fair: a chapter's final
tick precedes the regular one in the same job and happens once per chapter, so it
cannot crowd it out. `Converges` speaks of behaviours whose faults and upstream
changes are over, which their bounds guarantee.

## Findings

* **Pages leave out a row at every boundary** (`paging`). A page is read with one
  row more than the limit; that row is popped and the cursor is made of it
  (`web.rs:795-799`), and the next page starts strictly behind the cursor
  (`web.rs:432-446`). `PagesLoseOnlyCursors` shows that nothing else gets lost, also
  while the tracker writes.
* **Two World Bloom inserts in one second** (`tracker_same_second`). The final
  record of a chapter and the regular record of the same tick can share a
  second; DO NOTHING drops the later rows, the state map takes them.

Known limits, without a run: behaviour met while modelling that no comment or
test contradicts, or that the runs above exclude by a constant.

* A failed World Bloom insert leaves the older border hash behind border rows that are
  committed (`base.rs:399-432`). When upstream returns to that older border, the
  check hits and the rows stay as they are. `CaughtUp` and `Converges` are checked for an
  upstream that does not return to an earlier row (`Recur = FALSE`).
* A user listed at two ranks, or without a name, is remembered at each rank though
  one row or none is recorded (`base.rs:371`, `diff.rs:46-51`). The theorems on
  `EventTracker` assume `Orderly` payloads for this reason.
* A retry after an unacknowledged commit comes with a new time id, so DO NOTHING does not
  drop it and the rows are there twice (`batch.rs:554-557`).
* A chapter whose final record failed counts as ended (`daemon.rs:258-272`,
  `diff.rs:115-119`) until the process restarts. `daemon_faults` and
  `ChaptersSettled` exclude this fault.
* A chapter that the tracker last saw aggregating or not started is not renewed
  once the event itself is aggregated: `daemon.rs:184` returns before
  `set_world_bloom_statuses`. A tracker built in that phase never records the
  chapter's final rows, and `ChaptersConverge` leaves it out.
* A chapter is dropped by the local clock (`diff.rs:129`) though upstream may
  still mark it as aggregating; a record in that interval writes none of its rows.
* With the ended flag set, `init` skips the migration (`base.rs:168`), yet
  `refresh_after_end` upserts users: on a table of an earlier release the upserts fail until a
  request has migrated it.
* Users' upserts of two trackers compare with what each selected before: the later one
  may restore an older profile, which is why `RowsKept` and `BatchLanded`
  speak of batches that did not overlap (`raced`).
* The `Online` messages of two connections may be broadcast in the other order than
  their counts were read.
* A request that waits for its region's permit holds a global one meanwhile, so waiters
  for one busy region delay requests for an idle one (`limiter.rs:79`).
* Queries whose errors are swallowed (`lines.rs:126`) leave gaps in an answer, which is then cached
  like any other, a replayed one for its whole TTL. `ReplaySettled` and
  `GrowthIsSnapshot` speak of answers without such an error.
* A live overview's growths end at a `window_end` taken before they are read
  (`service/web.rs:45`), and user details resolve a rank and its snapshot in two
  separately cached calls: they may show two moments.
* `web.rs:669-673` says that gzip happens once per cache generation. A small
  response, a dirty event and a failed write are all compressed again.
* `db/query/heartbeat.rs:4-7` and `db/entity/time_id.rs:4-6` give status >= 1 to a
  tick in which nothing changed; the code writes 0 (`tracker/base.rs:421`).

## Proofs

All statements are proved by `tlapm` for every value of the constants that
satisfies the modules' assumptions.

* `TypeCorrect` (`ApiCacheProofs`): `Spec => []TypeOK`. `TypeOK` alone is not
  inductive: what a step may dereference depends on `pc`. `Shape` adds
  `RequestShape`, which says for each `pc` whether `ctx` and `val` are present and
  that a waiter awaits a flight of its own epoch.
* `CachedNotOlderThanEpoch` (`ApiCacheProofs`): `Spec => []CacheFloor`, under
  every fault. `FloorInv` extends the floor to whatever may still be stored: late
  writes, values in the hands of requests, and controls, whose epochs are
  never ahead of Redis'. A fetch reads a database that is past every floor, and
  the epoch of a request's context was published before its fetch.
* `CachedIsPublished` (`ApiCacheProofs`): without faults, `Spec => []PublishedOnly`.
  `PublishedInv` says that while a ranking transaction is unpublished the flag
  is up, that cached values are exact, and that a pending value is *harmless*: exact,
  or of an epoch that WRITE_SCRIPT will refuse once the update is over.
* `EnvironmentKeepsToProtocol` (`ApiCacheProofs`): `Spec => ImplementsProtocol`, under every
  fault. Each step of the tracker's side maps to one of `UpdateProtocol`, each step of a
  request to none. `FlagOfUpdate` says that an update which has written is still open.
* `AnswersAreFresh` (`ApiCacheAnswersProofs`): `HSpec => []AnswerFresh`, under every fault and
  for any processes and requests. `AnswerInv` says of each request under way that what it holds,
  what the request it waits for holds, and what every owner of a dirty flight
  of its process holds is at least the floor it is entitled to (`Good`). It rests on the order of
  flights (`Flights`: only a dirty flight is waited for by the owner of
  another) and on floors that grow with the epoch (`FloorsGrow`).

* `TrackerTyped` (`EventTrackerProofs`): `Spec => []TypeOK` with `HasData`.
* `RememberedIsLanded`, `HashIsLanded`: for orderly payloads (each user at one rank, all
  named, ticks in different seconds), under every fault. `LandedInv` adds
  that the present second is fresh before the insert and that the border's rows are
  in the table before its hash is stored. `WlRememberedIsLanded` is the World Bloom
  counterpart and needs only ticks in different seconds: `tracker_same_second` shows why.
* `KeepsToProtocol`: `Spec => ImplementsProtocol`, under every fault. `PhaseInv` says at each
  step of a tick which update is open and whether rows were written in it.
  `RowsArePublished` follows, for trackers that lose no acknowledgement, `finish` or process.
* `NoRowTwice`: if upstream returns to no earlier row and no acknowledgement or process
  is lost, `Spec => []NoRepeats`. `ListedInv` says that whatever is stored or
  remembered was listed by upstream, no later than what it lists now, so rows can be
  compared by age (`Follows`); `MemoryAhead` says that memory is never behind the newest rows. An
  unchanged row is then never found changed. Payloads need not be orderly.
* `SuccessMeansCaughtUp`: for orderly payloads that do not return to an earlier row, under every
  other fault, `Spec => []CaughtUp`. `ProgressInv` is the other direction: memory, the rank state and
  the border hash are never ahead of the newest rows (`MemoryBehind`), and a border
  that is skipped has the hash of the payload (`HitBorder`). A row that is not inserted
  lies between what is remembered and what is listed, which are equal.

* `DaemonTyped`, `NeverBehindTheClock`, `EndedStaysEnded`
  (`TrackerDaemonProofs`), under every fault. `Shape` adds to the types that a tick
  has seen an event, has a tracker once it is past `init`, and finalizes chapters
  of that tracker. `NeverBehind` needs `BehindInv`: what a tick saw was
  current at some past time, and `CurrentAdvances`: the first open event never
  gives way to an earlier one. That lemma uses the assumption that events are
  listed in the order of their start.
* `ChaptersSettled`: if no chapter's last record fails,
  `Spec => []ChapterSettled`. `SettledInv` says that chapters seen as ended are
  over by the clock, so nobody plays them, that those counted as written have their final
  rows, and that those still to be finalized are tracked by the next record.

* `ServingTyped`, `AnswersReadable`, `PermitsAccounted` (`ServingProofs`), for any mix of requests and
  under every fault, all from one invariant, `IInv`. `ReqOK` says for each `pc` what a request
  has: an epoch while it reads and writes, uncompressed data before it encodes, a
  flight it waits for exactly while it waits, and only flights of its own
  encoding. The last is what `Readable` rests on: a waiter takes over the bytes of
  its flight unseen, and the key of a flight names the encoding. Lemmas on
  `Finished`, `Failed` and `Enter`, the steps that change several requests at once,
  serve all actions. `TrackerOK` ties the flag, the epoch and the tables to the tracker's place.
  Permits are a consequence of `pc` and need only `PermitsMatch` itself beside `IInv`.
* `EncodingsAgree` (`ServingProofs`): `Spec => []VariantsAgree`. `VInv` says that each stored entry
  is the version of its own epoch, and that what may still be stored is
  *dated*: of an epoch not newer than Redis' and of a version not older than that epoch.
  WRITE_SCRIPT lets a write through only when the epoch is current and the flag is down, and then
  `TrackerOK` makes the tables equal the epoch: a dated write is exact (`MayWriteExact`).

* `TicketsAdmitOnce`, `CountsExact`, `UpdatesAreKept`, `HubTyped` (`RealtimeProofs`), for any finite
  number of connections and any capacity. `TicketInv`: what is stored was issued and
  has not been used. `CountInv` adds to `OnlineExact` that the topic in a task's hands is in
  its set until it is counted and out of it before it is taken off (`ArgOK`); a step
  of one connection changes each count by exactly what it changes of `Counted` (`Moves`, `MoveCounts`).
  `WireInv`: a receiver holds the latest messages without a gap, so the position of an
  update follows from its number, and one that was pushed out is at least
  `Capacity` messages old; an update owed to a connection is of a topic it has, so
  `Deliver` never skips it.

* `UsersTyped`, `MigratedIsExtended`, `KeysAreKept`, `BatchesLand` (`UserDimensionProofs`), for any
  finite number of users, trackers and requests, any failures and restarts. `MigrationInv`: a
  backfill's list contains every row that cannot be shown yet, because every upsert writes
  the public id as soon as the column exists and the list is selected after that; so the
  index is only made over rows that are extended, and `ensured` means it. `KeysInv`: keys
  are distinct and not above `lastKey`. `BatchInv`: as long as no two batches have overlapped, the rows
  a batch selected are still as it saw them, up to the public id that a
  backfill may have written (`StillSeen`).

* `ReadsTyped`, `TimeIdsAreInOrder`, `GrowthsAreOfOneMoment`, `PagesLoseNoMore`,
  `TracesHoldTheCurrentRow`, `LaterReadsAreOfTheRow`, `ReplaysAreSettled` (`RankingReadsProofs`),
  for any payloads, requests, filters, limits and clock. They share four invariants. `Typed`. `Times`: before its first
  insert a tick is later than all that is stored, so time ids and times have one order.
  `Tabled`: rows are of known time ids and users, one per time id and user. `Stages`: what
  a request has still to ask goes with its kind.
  Lemmas on the queries say what each returns as a set, and that rows which a tick adds to a table
  (`Newer`) leave alone what was read.
  `GrowthInv`: whichever of the two edges was read first, the first row of a rank in the span
  stays the first, so the growth is the one that was true when the last one was read.
  `PagesInv`: what a client has got is in order and not behind the cursor, and a row of its
  `base` that the filter still selects was got, is an edge, or is behind the cursor.
  `SubjectInv`: the row found as the current one is in every later trace.
  `MetricsInv`: each item of a page is a row of the table, and what is shown with it was
  computed from a trace whose samples up to the item are the user's rows up to it (`UpToRow`); later
  ticks do not change those. The rest is about the computation alone: the hour of lookback that the
  query adds does not show (`LookbackKeeps`), the sample found going backwards is the last one
  not after the start of the window (`BaseShown`), and the steps counted correspond one to one
  to the rows that rose (`RisesShown`). That times are past 0 (`Started`) is needed because
  an unset one reads as 0. A snapshot's ranks are assumed to be a sequence of integers.
  `ReplayInv`: what a replayed request has read, it would read again at any later time, since
  a tick that begins after the moment writes only later rows (`Passed`). Payloads are assumed
  to give a user one rank of a board (`IsBoard`), as `EventTracker`'s `Orderly` does.

Most proofs are steps of one form: one lemma or step for each action, one conjunct of the
invariant below it. The hypotheses cannot be dropped. `Orderly` and the faults that
`ChaptersSettled` excludes are among the known limits; rows whose `finish` or acknowledgement was
lost, or whose process died, wait for the next update to be published, and a process that dies
between an insert and its rank state inserts the rows once more.

Only model-checked:

* liveness (`RequestCompletes`, `EventuallyCurrent`, `Converges`, `ChaptersConverge`,
  `UpdateArrives`), which is outside what TLAPS can prove.

What the averages and the start of the record come to (`Averages` by a fold, `RecordStart` by a recursive
scan) no property states: it would take an induction over data, which is outside too. Both are
modelled, and executed by the runs.

## Not modelled, and the plan

Not modelled at all: routing, JSON, configuration, logging, SQL text, DDL,
digests, the engine's pools. Left out of the modelled components:

* entries that fail validation after a schema change (they are refetched like a
  miss), L1 sharding, the static variant of the cache (a get or a set with a TTL);
* the cache of parsed documents behind the master data's fingerprint;
* the live overview (its state space is out of reach beside the replayed one, whose queries
  are the same with an instant given), request parsing and the wording of responses;
* the toolbox service that verifies private look-ups;
* start and shutdown of the process: a restart loses memory and keeps Redis and tables.

What could follow:

1. The parsed documents' cache, and a clock that differs from upstream's.
2. `SingleFlight` in detail (mutexes, `Notify`) as an implementation of the
   flights used here.
3. Proofs: the assumptions of `SuccessMeansCaughtUp` made weaker: which payloads other than
   orderly ones are caught up with.
