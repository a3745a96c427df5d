# Periscope: formal models

TLA+ models of [Periscope](../src/packages/periscope), the observability
package for AdonisJS in this monorepo, and of its dashboard. TLC checks the
models on small instances; TLAPS proves what the recorder and its shutdown, the
three drivers, the live stream, the request, client, job and dump watchers and the
tabs and lists of the dashboard promise for every instance. All paths below are
relative to `src/`.

    tlc -workers 2 -config Recorder.cfg MCRecorder     # one run
    tlapm RecorderProofs.tla                           # one module of proofs

Contents: [the system](#1-the-system) · [the modules](#2-modules-and-code) ·
[the runs](#3-the-runs) · [fairness](#4-fairness) · [proofs](#5-proofs) ·
[disagreements](#6-disagreements-between-code-and-documents) ·
[what is left out](#7-what-is-left-out) · [plan](#8-plan)

## 1. The system

A host process (HTTP server, worker, command) emits signals. *Watchers* turn a
signal into an entry and hand it to the *recorder*, which collects the entries
of one unit of work (a request, a command, a job, or the "ambient" time between
them) in a *batch context*. Lifecycle hooks flush contexts; a flush decides
whether a sampled-out batch is kept after all, saves the entries through a
*store driver*, trims the store and announces the batch on the *fan-out*. The
JSON API and the event stream serve the stored entries to the *dashboard*, whose
tabs share one event stream.

    signal -> watcher -> Recorder.record -> buffer -> flush -> PeriscopeStore.save
                                                         |            |
                                                     trim loop     fan-out -> SSE -> dashboard tabs

Everything runs on Node's event loop: code between two awaits is atomic, and all
the difficulty is in what happens between them, in other processes on the same
store, and in other tabs.

| Component | State | Operations | What is hard | What makes it correct |
|---|---|---|---|---|
| Recorder pipeline (`recorder/recorder.ts`, `recorder/context.ts`) | buffer, counters, overflow counts and retention of a context; flush chain; continuation; grace timers | record, flush (intermediate, final), requeue, close, grace expiry | records and flushes during the awaits of a flush; a failed save; entries behind the saved snapshot; two final flushes and a timer | no entry lost, doubled or reordered; one sampling decision per batch; bounded buffers; a closed batch is delivered |
| Trim loop (`recorder.ts`, `#trimStore`) | shared promise, request flag | join, round, settle | flushes joining between the last round and the release of the promise | a flush that joins a running loop returns after a trim that saw its write |
| Ambient batches and shutdown (`recorder/ambient.ts`, `recorder.ts`, `providers/periscope_provider.ts`) | current generation, rotation in flight, shutdown stage | rotate, stop, shutdown, close of the store | rotation timer against slow flushes; shutdown against flushes, grace timers and captured contexts | what shutdown finds reaches an open store; shutdown ends |
| SQLite driver (`storage/sqlite_local_store.ts`) | backlog, `setImmediate` drain, tracked row count, the file | save, drain, trim, prune, clear, close | a full backlog, several processes on one file, foreign locks, close with callbacks scheduled | every save answered once and honestly; the ceiling neither missed nor overcut |
| Database driver (`storage/database_store.ts`) | backlog, drain, counters of losses | save with retries, trim, close | answers lost after a commit, other processes, saves arriving while the drain ends | rows of a call land together; every loss counted; trims remove the oldest; saves are answered |
| Memory driver (`storage/memory_store.ts`) and paging (`storage/pagination.ts`, `storage/exception_groups.ts`) | a map in insertion order, indexes by tag and by batch; cursors of readers | save, evict, prune, trim, clear; pages of a list or of exception families | entries replaced under a known uuid; pages read while the store changes; sequences that tie between workers | indexes agree with the entries; a walk is given what was there all the time |
| Live stream (`http/controllers/stream_controller.ts`, `fanout.ts`) | clients, pending events, subscription | connect, replay, broadcast, keepalive, close | flushes while a replay is read; slow and vanishing clients | nothing lost between replay and live delivery; a closed client is left alone |
| Live updates (`dashboard/src/lib/live-updates.ts`) | lease in localStorage, timers, EventSource, mode | elect, heartbeat, step down, open, error, close | unsynchronised storage between tabs, late timers, dead tabs | exactly one stream in the end, nobody stranded, nothing missed |
| Flags and monitored tags (drivers, `recorder.ts`) | expiring rows, TTL caches | set, sweep, refresh | sweep against a concurrent set; stale caches | a live flag survives; caches converge |
| Provider lifecycle (`periscope_provider.ts`, `watchers/registry.ts`) | recorder, fan-out, registered watchers, timers, phases under way | boot, start, ready, prune and pause timers, teardown | phases overlap; a signal arrives in the middle of one; calls that fail | everything is built once; nothing is left behind after the teardown; phases end |
| Request and HTTP client watchers (`watchers/request`, `watchers/http_client`) | batches on their way from the middleware to the completion listener, barriers, outbound calls | middleware, completion, abort, diagnostics events, cleanup | abort against the end of the handler; outbound answers after the decision or after cleanup | one final decision per request, after its completion; cleanup leaves nothing running |
| Job and schedule watcher (`watchers/job_schedule`) | tracked attempts and task runs, chains of lookups, correlated batches | started, ended, wrapJob, eviction, cleanup | lookups that answer late or out of order, stalls, overlapping runs under one key, bounded maps | an end is recorded with its own start; rows stay with their run; cleanup drains |
| Other watchers (`watchers/*`) | patched host functions | one record call per signal | little | - |
| Dump watcher and heartbeat (`watchers/dump`, `dump.ts`, `use-dump-open-heartbeat.ts`) | generation and poll of the watcher; wish and request of each tab; expiring leases | register, poll, cleanup; focus, blur, heartbeat, unmount | answers of an earlier generation; one request at a time; dead tabs and restarts | dump() records while a dumps page is focused and falls silent after |
| Dashboard lists (`use-polling.ts`, `use-cursor-pagination.ts`, `walk-cursor-pages.ts`) | rows, cursor, offer of new entries, generation | load, load more, scan, accept, filter, clear | answers to old filters; entries stored between pages; events during a scan | no stale row, no hole between rows, new entries found |
| JSON API, pages, redaction, commands, website, playground | none or local | request handlers, rendering, formatting | little | - |

`PROJECT.json` lists every component with its status and every hazard at its
line.

## 2. Modules and code

A component has a module of its own, or one per class where several classes
compose it; the module that composes them is the one TLC checks. `MCX.tla` gives
`X.tla` its values for TLC; `TrimStore` and `RecorderShutdown` need none, their
configurations hold model values only. A constant marked "bound" in a module
limits the state space only; the proofs hold for every value of it. `StoreLemmas`
has what several proofs need of finite sets and sequences.

| Composition | Modules | Proofs |
|---|---|---|
| recorder | `Recorder`, with `RecorderAccounting` for refused entries | `RecorderProofs` |
| shutdown and trim loop | `RecorderShutdown`; `TrimStore` | `RecorderShutdownProofs` |
| drivers | `SqliteLocalStore` and `DatabaseStore`, both refining `SavePort`; `MemoryStore` | `SqliteLocalStoreProofs`, `DatabaseStoreProofs` |
| live stream | `StreamController` | `StreamControllerProofs` |
| HTTP watchers | `HttpWatchers` = `RequestWatcher` + `HttpClientWatcher`, both on `RequestBatches`; refines `BatchContract` | `HttpWatchersProofs` |
| jobs | `JobQueues` = `BullQueueAdapter` + `AdonisQueueAdapter`, both on `JobScheduleWatcher` | `JobQueuesProofs` |
| process and dumps | `LiveDumps` = `PeriscopeProvider` (on `WatcherRegistry`, on `DumpWatcher`) + `DumpOpenHeartbeat` | `JobQueuesProofs` |
| dashboard | `LiveUpdates` (the tabs of the stream), `EntryFeed` (a list of the store) | `StreamControllerProofs`, `SqliteLocalStoreProofs` |

### Recorder

One step is the code between two awaits. A batch `b` has two contexts,
`Main(b)` and the continuation `Late(b)`. `Accept`/`Refuse` are `record()`;
`Flush` chains a `flush()` call on the batch; `StartFlush` is the point where the
previous flush of the chain has settled; `FlushContext` is `#flushContext` up to
its first await; `DecideByTags` the code after the monitored-tag read;
`SaveCommits`/`SaveRejects` after `store.save`; `TrimResolves`/`TrimRejects` after
the trim; `SettleMain`/`SettleLate` the end of `flush()`; `LateTimer` the grace
timer. `run[c]` is the suspended activation of `#flushContext`: its stage, how
many buffered entries it snapshotted, and the synthetic truncation entry it made.

Abstractions: an entry is its sequence number, type and overflow count, and whether
it was recorded or is a report. A truncation report is a log entry like others
(`Report` is one of the types): a requeued one is charged to the counter of the logs
whenever the counters are recomputed, and no cap holds it back. Counts of
refused entries are summed over types. Whether a flush finds a kept tag or a
`keepAlways` entry is a choice. A record call that is muted, paused or filtered
out changes nothing that is read again. `RecorderAccounting` counts the
refused entries that rows, buffers and contexts report (`Accounted`).

### TrimStore

`#trimStore` by itself: `Join` is the call, `Round` one `store.trim()`,
`TrimResolves`/`TrimRejects` its answer, `LoopSettled` the microtask that clears
`#trimmingStore`, apart from the loop's exit because other microtasks can run
between the two.

### RecorderShutdown

Several contexts side by side, each reduced to buffer, continuation, phase, timer
and flush chain. `Rotate`, `Swap`, `Tick`, `Resume` are `AmbientBatch`; `Shutdown`
to `Done` are the stages of `Recorder.shutdown()`; `CloseStore` is the provider's
teardown behind it. Contexts are all sampled in (what a flush does inside is
`Recorder`). A host watcher flushes its batch once, and not after `shutdown()` has
resolved. The last of `MaxGen` rotations is reserved for `stop()`. `start()`
after `stop()` is not modelled.

### SavePort, SqliteLocalStore, DatabaseStore

`SavePort` is the abstract contract of `PeriscopeStore.save`: each call is
answered once, and its rows reach the file together or not at all. With
`Honest`, a resolved call is a committed one; without it, success may hide a loss.
Both drivers implement it, with `Honest` TRUE for SQLite (`HonestPort`) and FALSE
for the database driver (`HidingPort`), whose backlog and retries resolve calls
they gave up.

`SqliteLocalStore` has several processes on one file. better-sqlite3 is
synchronous, so a callback is one step; only `trim()` is cut in two, because the
ceiling check and the `begin immediate` of `#trimTo` are separate statements and
another process may write in between. A write may meet a foreign lock and throw.
Time is abstracted: maintenance may be due at any trim. Which rows `prune` matches
depends on dates and types and is left open. `Payload` fixes the rows of the calls
to come; they overlap, as after a requeue. Calls other than `save` on a closed
handle are left out.

`DatabaseStore` has one process and a table that others write. A transaction
commits, rolls back, or commits and loses its answer. `trim()` runs either as one
isolated transaction or, for databases that do not isolate it, as boundary read
and delete apart.

### MemoryStore

Every operation of the memory driver is synchronous inside and one step: `SaveCall`
(insert, replace, evict), `Prune`, `Trim`, `Clear`, built from `Inserted` and
`Removed` as the code is from `#insert` and `#remove`; `AllInserted` and
`AllRemoved` are the loops around them. A page is a set, the first `PageSize` rows
in the order of the query. What takes several steps is a walk: `BeginWalk` asks for
a first page, `NextPage` for the one behind the cursor of the last, while the store
changes. A query names a batch, tags, an application and the kind of list, newest or
oldest first or families of exceptions; the two kinds take the cursor the code gives
them, sequence and uuid for entries, sequence alone for families. `owed` is history:
what the query asks for by its definition, without the indexes, when the walk began
and ever since. A row is an entry or a family, whichever occurrence stands for it. A
family that recurs while it is ahead of the reader moves behind its cursor, and is
no longer owed.

### StreamController

`Connect` subscribes before the replay read is asked (`ReadReplay`, `AnswerReplay`);
`Land` is a batch that commits and `Announce` its broadcast, later and in any order.
A stream takes frames until its buffer (`Buffer[b]` frames: the code's is in bytes,
and entries differ in size) is full; the write that fills it disconnects the client.
The fan-out is the in-process one; the distributed adapter is outside. The CONNECTED
frame is ignored and the 429 of a full server is a guard. The outstanding replay
read of a disconnected client is still answered, unless the same browser has
reconnected by then (the code looks the old client up and ignores the answer). The
browser (`Receive`) is external: an `EventSource` that reconnects with the id of the
last event it saw. `skipped` is history: what a replay found and did not deliver,
because one read returns `Limit` rows only or because its rows alone fill the
stream.

### RequestBatches, RequestWatcher, HttpClientWatcher

`RequestBatches` is the recorder as its owners drive it: one context per request,
`record()` into it, and the chain of `flush()` calls; what is recorded behind the
final decision is only collected, because its delivery is `Recorder`'s subject.
`RequestWatcher` has the middleware (`OpenBatch`, `Leave`, `BarrierLifts`), the
completion event, which an abort brings forward (`Completed`), the listener that
runs from `setImmediate` (`RecordCompletion`, `CompletionFlushed`), streamed
responses whose stragglers are flushed later, and `cleanup()`. `HttpClientWatcher`
has the outbound calls: the context captured at the start, the entry and the
intermediate flush at the end, `cleanup()`. `BatchContract` is what both together
owe the recorder: stored fragments only of a batch that is kept, one description of
the work, one final decision after it. The content of the entries is left out.

### JobScheduleWatcher and its adapters

`JobScheduleWatcher` has the two bounded maps (attempts of jobs, runs of tasks) as
sets of pairs of a key and the context it holds, the contexts, `wrapJob` and
`cleanup()`. A row or the work of a context is told by the job or run it is about
and the attempt; what the watcher looks up by is a key, `JobKey` or `TaskKey` of it,
which several may share: a `jobKey` names the queue but not the target, and a
`taskKey` without a run id names the task. `BullQueueAdapter` has the queue's global
events, each of which first looks its job up in Redis: the chain of
lookups per job, the bound beyond which an event is passed on at once, attempts
that stall, fail and are delayed. `AdonisQueueAdapter` has a handler wrapped by
`wrapJob` under the batch id that travelled with the job, and its retries. A
scheduler starts and ends the task runs; what a run records on its way and its end
are two rows, so that either can be found where it should not be.

### DumpWatcher, WatcherRegistry, PeriscopeProvider, DumpOpenHeartbeat

One process from `boot()` to the end of its teardown. `PeriscopeProvider` has
the phases (overlapping or in turn), the fan-out in the making, the prune and the
pause timer and every stage of `#performTeardown`; `recorder.shutdown()` is one
stage, `RecorderShutdown` is its inside. `WatcherRegistry` is the loop that
constructs and registers watchers, one name after the other past those that
another loop has claimed; some import what they patch first;
`DumpWatcher` the poll of the dump flags with its generations.
`DumpOpenHeartbeat` is the hook of each tab with its requests and the leases they
write, in steps of 10 s; a request may be rejected, or arrive though its tab was
told otherwise. `LiveDumps` puts a process and its tabs on one store, which
survives a restart. A *scene* chooses whether there are tabs; with tabs the
process starts where it serves them, with the dump watcher among its watchers
(`ScenesAssumption`), and the provider's own timers are left out.

### LiveUpdates

`connectLiveUpdates()` in several tabs. Each access to localStorage is a step of
its own (`ReadLease`, `WriteLease`, `ConfirmLease`, and `Close`/`ReleaseLease`);
`postHeartbeat` writes the lease and posts its message in one step. Time runs in
half heartbeat intervals, so the 5 s and 12 s of the code are 2 and 5 (12 s is
4.8 halves, rounded up). Events on their way to a tab are one flag. A budget says
what may go wrong and how often: flushes, writes that throw, streams that break,
tabs that die, steps of time that overtake due timers and messages. The tab is
visible, and a new `EventSource` has no Last-Event-ID.

### EntryFeed

One page's list: `LoadInitial`, `LoadMore`, `Retry` and their answers
(`useCursorPagination`), scans (`StartScan`, `ScanStep`, `WalkEnds`), the offer of
new entries and its acceptance (`useNewEntryPolling`), a page that is live or
polls, filters that change, a store that is cleared. An answer is read at the
server in one step and lands in the page in another; whether it is used depends on
the generation it carries. Rows are kept as sets, since the order of a page is
that of the sequences; a page is the newest rows below a cursor, and the cursor of
its last row if more follow. Two variables are history: `overtaken` are entries
stored after a newer one was listed, `blind` says that a page was not told of an
entry (see section 6). The properties excuse both and the violated variants do not.

## 3. The runs

| Run | Instance | Shows |
|---|---|---|
| `recorder` | one batch, 4 entries, a request capped at 1, logs at 2 and a type at 0, buffer limit 4, 2 refusals, 2 queued flushes, 1 store failure | `RecordOrder`: no entry stored twice or out of order. `AcceptedNotLost`: entries leave the pipeline only with a batch decided against. `SamplingDecision`. `CapRespected`: a context buffers no more accepted entries of a type than its cap, one report on top, and no more than the limit in all. `RefusalsAccounted`: no refused entry is reported twice, and each one of a sampled batch is until a save fails. `LateEntriesDelivered`: what a closed sampled batch holds is delivered without another call |
| `trim_store` | 4 flushes, 2 rejections | `RoundAfterWrite`: a flush that joined a running loop returns after a trim that began after its write |
| `shutdown` | 2 entries, a host batch, 3 rotations | `ShutdownDelivers`: what `shutdown()` found is stored, or its save has failed, and no final flush uses a closed store. `ShutdownEnds` |
| `sqlite` | 2 processes, 3 calls over 2 rows, cap 1, backlog 2, 1 lock | `SaveAnswered`: every call is answered. `CountCovers`: the tracked count is never too low while nobody else saves. `NeverOvercut`: racing trims leave the cap. `HonestPort`: refines `SavePort` |
| `database` | 4 calls over 2 rows, 2 foreign rows, cap 1, backlog 2, 3 attempts, 3 faults | `EveryLossCounted`: a call told success whose rows never landed is in a counter. `TrimKeepsNewest`; `SaveSettles`; `HidingPort`: refines `SavePort` |
| `memory` | 6 entries in 5 calls, room for 4, pages of 1, 6 queries; two entries tie, two families tie, one entry is replaced | `IndexesAgree`; `WalkComplete`: a walk is given all that was there all the time, and nothing twice |
| `stream` | 2 browsers of different applications, 4 entries, replay limit 2, streams of 3 and of 2 frames, 1 disconnection besides those of full streams, 1 failed read, 1 keepalive | `NothingInTheGap`: a live client has been written everything its replay and the live feed owe it. `NothingAfterClose`. `BrowserCatchesUp`: a browser that has seen an entry comes to have those after it, except what a replay skipped |
| `http_watchers` | a request with one more entry and one outbound call, beside a request the server refuses to record; 1 store failure | `KeepsContract`: refines `BatchContract`. `EveryRequestDecided`; `CleanupLeavesNothing` |
| `job_queues` | six mixes of up to three jobs or runs, with two jobs of one key and two runs of one key; 5 contexts, 2 active pairs, 1 tracked chain, 2 attempts, 1 retry | `EndsMeetStarts`, `TaskRowsOwned`, `CleanupDrains` |
| `live_dumps` | watchers of three kinds; a process alone, phases in turn or overlapping; one tab and 1 trouble; two tabs; 2 moves per tab, 1 failure; leases of 3 heartbeats | `TeardownLeavesNothing`, `BuiltOnce`, `PhasesEnd`; `LeaseFollowsPage`, `HeardWhileFocused`, `SilentWhenLeft` |
| `live_updates` | 2 tabs; streams break and a tab dies; a lease write throws, a tab dies and time overtakes; late time with a flush | `NeverOutOfReach`: an open tab has a stream or an election before it. `Converges`: in the end exactly one stream. `AloneMissesNothing` |
| `entry_feed` | 5 entries, 2 of them old, one of another type, two filters, pages of 1; failures with filters or with a stream that comes and goes; clearing; an entry stored late | `NothingStale`, `Gapless`, `CaughtUp` |

The bounds are the smallest at which the cases happen. Two logs and a request reach
their caps, and with a report put back in front of them the buffer limit; a cap of 0
refuses from the start. Two queued flushes are the second final flush behind the
first. Four flushes are the one that runs the loop, the one that asks for another
round, one that joins after it left, and one more. Backlog 2 is one save beyond the
one being written and a full queue; three attempts are the code's own number and
three faults exhaust them. Room for four of six entries evicts in a save of two;
pages of one put a boundary between any two rows, so also between those that tie;
both families recur and lose their newest occurrence. With replay limit 2, a browser
that has seen one entry of four misses three, so its replay is cut. A stream of
three frames takes such a replay and overflows with what is pending behind it; one
of two is filled by the rows of the replay alone. A map of two pairs holds two runs
at once and evicts at the third key; there are mixes of two runs that share a key
beside a third, and of three keys; a twin job has the key of another in the map, and
one tracked chain sends the second job's events past it. Three watchers are one of
each kind that registers differently. A lease of three heartbeats is the code's 30 s
and 10 s. Two tabs race for one lease; convergence with three tabs adds only more
losers of the same race. With one request each of two filters, a failure and an
answer that is late, a page meets every pair of answers out of order; larger pages
only put fewer boundaries into the list. Troubles come in mixes rather than all at
once where their product would not end; each mix pairs those that meet in the same
code.

`CHECK_DEADLOCK FALSE` is set where the modelled system stops: after the
teardown, when the bounded entries, calls, connections or visits are used up, and
when all tabs have gone.

## 4. Fairness

Weak fairness throughout stands for the event loop: settled awaits resume, due
timers fire, the store answers each call one way or the other. Nothing obliges
the host to record or to flush, a browser to disconnect, or a tab to open.

* `Recorder`: the flush chain, the store and the grace timer. A store that never
  answers is outside the claim; so is the end of the process.
* `RecorderShutdown`: saves are answered, chained flushes and the stages of
  `shutdown()` go on. Rotations and records are never owed.
* `SqliteLocalStore`: strong fairness of `Drain`, because between synchronous
  calls the event loop always gets to its `setImmediate` callbacks, and `Drain` is
  disabled only while a trim of the same process is between its statements.
* `DatabaseStore`: the database answers a transaction, retry delays end.
* `StreamController`: batches are announced, reads answered, frames received,
  and an `EventSource` reconnects until a subscription succeeds. `BrowserCatchesUp` is
  claimed when batches were saved one at a time in sequence order and no read failed,
  and not of what a replay skipped: after a replay of more rows than one read returns
  the stream goes on with later ones, and one that fills the stream by itself
  disconnects the browser each time (`stream_controller.ts:141`, `:148`).
* `HttpWatchers`: per request the middleware, the listener with its
  `setImmediate` and the recorder go on, and so do the cleanups. Nobody owes an
  outbound answer, an entry or a cleanup.
* `LiveDumps`: steps of a phase, polls, the prune, reads of flags and, per tab,
  microtasks, heartbeats and answers of the server while it listens; strong
  fairness of `Tick`, which a restart, or work that is overdue, disables for a
  while. No phase, teardown or visit is owed.
* `LiveUpdates`: due callbacks, messages, the server's admission of a stream and
  time. `Converges` holds because a budget bounds how often time overtakes what is
  due: a leader whose heartbeats are throttled for longer than the lease keeps
  losing it.
* `EntryFeed`: requests are answered, intervals fire, a walk goes on. A list
  whose load failed waits for its reader, and `CaughtUp` excuses it when live.

`TrimStore`, `JobQueues` and `MemoryStore` are checked for safety alone.

## 5. Proofs

Eight modules hold proofs, and `StoreLemmas` what several of them share. Each
shows an inductive invariant and derives its theorems from it; there is one lemma
per action, and one per operator on sequences, counts and sets that the actions
use. Where a module proves two components, they share no variable; each has its
own invariant. The invariants were checked by TLC, on the instances of section 3,
before they were proved.

`RecorderProofs`, for any batches, caps, types and bounds, from
`ConstantsAssumption` alone (in particular for both values of `LateGrace`, and
with no relation between the caps and the buffer limit). `IInv` is:

* `TypeOK`;
* `Charged`: of each type the counters charge at least the accepted entries that are
  buffered, and those are within the cap. A counter itself may pass its cap, by a
  report of its type, and then refuses more than it has to. This carries
  `CapRespected` through requeues and the move into the continuation, where the
  counters are recomputed;
* `SnapshotIsPrefix`: a suspended flush's snapshot is still a prefix of the buffer;
* `Ownership`: who may run when; the continuation is flushed only after its window
  ended. With `WindowOwned` it shows that timer and phase change together;
* `DecisionByStage`: what is decided at each stage of a flush, without which
  `SamplingDecision` does not survive a save.

Theorems `TypeCorrect`, `WindowsAreOwned`, `SamplingIsSticky`. Others
build on that invariant:

* `OrderKept` (`RecordOrder`): of the two contexts of a batch one records and the
  other is *dormant*, with nothing buffered and no synthetic entry. `BatchInLine`
  says that rows, synthetic entry and buffer of the recording context, read in
  this order, strictly increase and stay below the next sequence. Each step moves
  entries along that line: `Accept` adds at its end, a flush puts its synthetic
  entry between rows and buffer, a save moves a prefix of the buffer to the rows,
  a requeue puts the synthetic entry back in front of the arrivals, and the end of
  a batch hands the buffer to the continuation.
* `NoEntryLost` (`AcceptedNotLost`): no step but the drop of a batch decided
  against takes an entry out of that line. The only place that could is the
  requeue, which keeps the first `#bufferLimit` entries; `RoomForAll` assumes that
  the limit is at least the sum of the caps and one report, which is how the
  recorder's constructor computes it. The invariant adds `Reported`: a context
  carries one truncation report at a time, and is given tags to decide by only
  when sampled out.
* `CapsHold` (`CapRespected`), under `RoomForAll`: `Charged` bounds the accepted entries
  of each type, `Reported` the reports, and `RoomForAll` what both come to.
* `RefusalsAreAccounted` (`RefusalsAccounted`): a report takes the place of the one
  its carrier had, so what is reported never exceeds what was refused. It is equal
  for a sampled batch because nothing buffered between two of its flushes carries
  a report (`Clean`), which holds until a failed save puts one back. `Notes` is a
  recursive function; a lowest position where two tallies of a sequence differ, or
  where there is none, serves in place of an induction (`LowestNumber`).
* `SampledBatchesInFull` (`SampledInFull`), if there is a grace period: from the same
  invariant, and that the flush which ends the window takes the continuation whole.
  No run has this one as a property; it was checked as an invariant of `Recorder.cfg`.

`DatabaseStoreProofs`, for any calls, rows, cap, backlog and number of faults:

* `PortIsKept` (`HidingPort`): the driver refines `SavePort`. Its invariant `DInv`
  is the types and `OnePlace`: a call waits in one place of the backlog or in the
  drain, and is unanswered while it does. From it every step is one of the
  contract's or a stutter.
* `LossesAreCounted` (`EveryLossCounted`): inductive together with `DInv`; the
  set of calls that were told success and did not land grows by the call that is
  dropped or given up, and so does its counter.
* `TrimsKeepNewest` (`TrimKeepsNewest`), if every call's payload is finite: the
  boundary is the row of rank cap, so what a trim in one transaction leaves are the
  newest rows, by counting; with the statements apart the deleted rows are below a
  boundary and the remaining ones are not.

`SqliteLocalStoreProofs`, for any processes on one file and the same arguments:

* `PortIsHonest` (`HonestPort`): the processes together refine the honest
  `SavePort`. In `QInv` a call waits in the queue of the process that made it,
  once, and is unanswered.
* `TrimsStopAtCap` (`NeverOvercut`), if payloads are finite: `#trimTo` measures the
  excess where it deletes, so what is left are the newest rows, as many as the cap,
  whatever happened since the ceiling check. `StoreLemmas` has the counting: in a
  finite set of keys all but the oldest `n` are the newest others.
* `CountsCover` (`CountCovers`), if payloads are finite: a process is alone while
  every call made was its own. Its transactions count the rows they add; the others
  have nothing queued and can only delete. The invariant is that of `PortIsHonest`
  with `Counted`: a call that was not made has no owner, so being alone is only
  ever lost.

`RecorderShutdownProofs`, for any entries, host batches and number of rotations:
`ShutdownIsComplete` (`ShutdownDelivers`). Its invariant `DInv` has three parts:

* `Context`: what a context holds in each phase; a generation's final flush is
  that of the rotation in flight; what a retired generation still holds is being
  flushed or was in a save that failed; a generation to come holds nothing;
* `Ledger`: a recorded entry is settled (saved, or in a save that failed) or held
  by one context only;
* `Stages`: which contexts may hold an entry that `shutdown()` owes and that is not
  settled. Each stage takes some away: the call itself the host batches nobody has
  flushed, the first drain all open ones, the last rotation the current generation,
  the end of the grace windows the closed ones; what the second drain leaves is
  finished, and empty.

`ShutdownDelivers` speaks of the last stage only, so it needs all of them.

The same module proves the trim loop, for any set of flushes. Its invariant adds to
the types that `covered <= begun <= writes` (a trim never saw more than was
committed) and that a flush waiting for the loop is served: the trim in flight
began after its write, or a round is requested, or the loop has left having covered
it. `RoundAfterWrite` is not inductive without that last part. Theorem
`RoundsServeJoiners`.

`StreamControllerProofs`, for any browsers, applications, entries, replay limit
and buffer:

* `NothingIsMissed` (`NothingInTheGap`): an announced entry that a browser should
  see is, by the stage of its connection, in the store the replay will read, or
  among the rows read or the pending events, or among the entries written. It needs
  that the fan-out is subscribed while there are clients, and that a client past
  its replay has no read outstanding.
* `ClosedIsLeftAlone` (`NothingAfterClose`), from the same invariant.

The same module proves `LiveUpdates`, for any tabs, intervals and budgets:
`LiveOutOfReach` (`NeverOutOfReach`). Every access to localStorage ends a step, and
between two of them a tab may have neither stream nor failover timer. The invariant
`Reachable` follows the callback: one that is about to post its first heartbeat has
opened the stream, a heartbeat timer runs beside a stream only, and a tab that is
back in its event loop has a stream or a timer.

`SqliteLocalStoreProofs` also proves `EntryFeed`, for any entries, filters, page
sizes and budgets:

* `FeedNothingStale` (`NothingStale`): the invariant `FeedInv` says what was once
  stored, what is in scope and what may still be cleared, of the list, the offer, the
  scan and each answer on its way that will be used.
* `FeedGapless` (`Gapless`), if no one acts on a list that is being reloaded
  (`Patient`: the budget for it is 0; the finding of section 6 is what such an act
  does). Beside the list as it is shown, `GapInv` has to keep the list below the
  pending entries complete, because a reload may drop the offer. An answer on its
  way may lack entries stored since it was read, but only such that are newer than
  all it lists and all the page lists (`MissesNews`), and a row that a walk stops at
  is still shown or below the cursor of a shorter list (`KnownKept`).

`HttpWatchersProofs`, for any requests, outbound calls and failures of the store:

* `HttpContract` (`KeepsContract`): the watchers and the recorder under them refine
  `BatchContract`. One side alone asks for the final flush: the completion listener
  if it found the middleware gone, and else the middleware, which the barrier holds
  until the listener is through. `SidesMeet` says where the two can stand relative
  to each other, `FinalOwned` what must have happened when a final flush is asked
  for, `OneFinal` that the chain has one at most and it is decided at its head.
* `HttpCleanup` (`CleanupLeavesNothing`): a watcher that is cleaned up takes no new
  work, and what it still has is among what its cleanup awaits.

`JobQueuesProofs`, for any jobs of both adapters, task runs, keys and bounds. A
*task key* may be shared by any runs and a *job key* by any jobs; `JobsAssumption`
only says that the jobs of the two adapters and the runs are different things.

* `JobEndsMeetStarts` (`EndsMeetStarts`): while the adapter listens, a chained end of
  a job stands right behind its start, and a pair that holds a context of a job holds
  that of the attempt which its next end names (`HoldsAttempt`, `InStep`,
  `TracedInv`). An end passed on beyond the bound finds that context, one of a job
  with its key, or opens one of its own.
* `JobTaskRowsOwned` (`TaskRowsOwned`): what the map has for the key of a run, and
  what the run entered, was opened for a run with that key and is not older than the
  context the run's own start opened (`MapsHold`, `RunsFollowed`), so a row is in the
  run's batch or in a later one of its key. A context of a run leaves the map
  flushed, or behind a run of the same key, or evicted; what was evicted has younger
  contexts under as many keys as the map has room for. Those only get more, which is
  counted in the proof for any bound.
* `JobCleanup` (`CleanupDrains`), from the stages of `cleanup()`.

The same module proves `LiveDumps`, for any list of watchers, tabs, intervals and
scenes, with `TabInv` for the tabs and `ProcessInv` for the process:

* `DumpsLeaseFollowsPage` (`LeaseFollowsPage`): the request in flight asks for what
  the page wants, or `again` says that the hook will ask once more when it is
  answered; what was served last left the lease as it asked (`Asking`). The interval
  runs on a page that is mounted and focused (`Beating`), which is needed because a
  heartbeat sets what is wanted without looking at the page.
* `DumpsBuiltOnce` (`BuiltOnce`): a name is claimed before its watcher is registered,
  and a fan-out or registry in the making is awaited by a phase that has not passed
  it (`Begun`).
* `DumpsTeardown` (`TeardownLeavesNothing`): `Kept` says that whatever observes or
  reads belongs to a watcher that `cleanup()` has still before it, the one being
  registered included; `Wound` what each stage of the teardown has put behind it.
  Both are claimed of a teardown that met no phase under way (`Undisturbed`), the
  other one is the finding of section 6. That a cleaned dump watcher is not revived
  holds of every teardown.

`DatabaseStoreProofs` has the memory driver too, for any calls of `save()`, ceiling,
queries and size of a page. `StoreInv` says that no two places hold the same uuid and
that both indexes have a bucket for exactly the keys of the entries there are
(`Indexes`). A loop of any length keeps it without an induction over its steps: if
some number of rounds did not, there would be a lowest such number
(`WellFoundedInduction`), and the round before it did, which `RemovedKeeps` or
`InsertedKeeps` contradicts.

* `MemoryIndexesAgree` (`IndexesAgree`): `StoreInv`, and that as many uuids are stored
  as there are places.
* `MemoryWalkComplete` (`WalkComplete`): `FoundIsAnswered`, that the indexes leave out
  nothing a query matches and let in nothing else; and `WalkInv`, that what is owed
  was given, is still ahead of the cursor, or stands behind a family of the same
  sequence. Only the last of them remains as an exception when no row is ahead. What
  was given is behind the cursor, so no entry is given twice: `MemoryAssumption` says
  that a uuid keeps its sequence, which is stamped once, before the first save. A family
  is given again only by an older occurrence, after the newest has left the store.


Each safety property of the runs is stated by a theorem. Model-checked only is all
liveness, which is out of the prover's reach: `LateEntriesDelivered`, `ShutdownEnds`,
`SaveAnswered`, `SaveSettles`, `BrowserCatchesUp`, `EveryRequestDecided`, `PhasesEnd`,
`HeardWhileFocused`, `SilentWhenLeft`, `Converges`, `AloneMissesNothing`, `CaughtUp`.

## 6. Disagreements between code and documents

Each of these is shown by a configuration kept beside the runs, as it is or with the
change named, whose property is violated (`findings` in `PROJECT.json` quotes the
lines):

* `RecorderTruncation.cfg` (module `MCRecorder`): the second truncation report of
  a sampled-out final flush overwrites the first on the same carrier, and refused
  entries go unreported (`recorder.ts:961`).
* `Recorder.cfg` with `LateGrace = FALSE` and `SampledInFull` in place of its
  properties: without a grace period the continuation is dropped with the entries
  that were moved into it at the close (`recorder.ts:587`; the comment at 547 says
  they are not abandoned).
* `TrimStore.cfg` with `EveryWriteTrimmed` in place of `RoundAfterWrite`: a flush
  that joins between the trim loop's last check and the release of its promise is
  told that its write was trimmed (`recorder.ts:771`).
* `RecorderShutdown.cfg` with `NoTimerAfterClose` in place of `ShutdownDelivers`: a
  batch that closes during the second drain of `shutdown()` arms a grace timer that
  fires after the store is closed (`recorder.ts:872`).
* `LiveMissed.cfg` (module `MCLiveUpdates`): a heartbeat changes the mode also of
  a tab that keeps its own stream, which then neither streams nor polls
  (`live-updates.ts:340`).
* `JobQueues.cfg` with `MaxContexts = 3`, `Draws <- Partly` and `SampledAsOne` in
  place of its properties: contexts that share a batch id are sampled apart
  (`job_schedule/watcher.ts:54`).
* `JobQueues.cfg` with `EndsMeetTheirStarts` in place of its properties: jobs of two
  BullMQ targets with one queue name share a pair of `#activeJobs`, and the end of
  one is recorded in the batch of the other (`job_schedule/watcher.ts:36`).
* `LiveDumps.cfg` with `EveryTeardownQuiet` in place of `TeardownLeavesNothing`: a
  teardown that meets `ready()` under way leaves watchers and timers behind
  (`periscope_provider.ts:436`).
* `EntryFeedMissed.cfg` (module `MCEntryFeed`): of two events before one render
  the page sees the second (`app-shell.tsx:478`). With the invariant
  `OfferedAreNew` in place of its property: a page that polls from the start offers
  old rows as new ones (`use-polling.ts:98`).
* `EntryFeed.cfg` with `Budgets <- Hasty` and `Gapless` as its only property:
  acting on a list that is reloading leaves a hole in it
  (`use-cursor-pagination.ts:53`).
* `MemoryStore.cfg` with `NoFamilyMissed` in place of `WalkComplete`: of two
  families whose newest occurrences tie, one is on no page
  (`exception_groups.ts:50`).

Others were met while modelling. The models contain the behaviour and the
properties are stated so as not to deny it:

* A scan stops at the first known row, so an entry flushed behind newer ones is
  not found (`use-polling.ts:115`); `EntryFeed` keeps it in `overtaken`.
* A continuation starts with fresh counters, so a batch can take its cap twice
  (`context.ts:183`; configuration.mdx:82 gives the cap per batch). `CapRespected`
  is per context.
* An HTTP client call that captured an ambient generation records into it after
  it was retired (`recorder.ts:425`; `ambient.ts:131` calls it immutable).
* SQLite's `trim()` decides on its own process's count, so with a second process
  the ceiling is passed until the next maintenance (`sqlite_local_store.ts:1143`,
  accepted at 92); a flag sweep that throws has already stamped the interval and
  leaves the stale count for another one (`:1133`).
* The database driver resolves a save whose attempts all failed
  (`database_store.ts:420`), and its trim keeps more than the cap at READ
  COMMITTED (`:740`), where only "oldest first" remains of `TrimKeepsNewest`.
* An entry that lands while a replay is read is written twice, and the stream's
  ids go back (`stream_controller.ts:153`; http-api.mdx:403 says monotonic).
* The mode passed on by a rival's heartbeat makes a leader with an open stream
  poll beside it (`live-updates.ts:340`).
* A dumps page renews its flag every 10 s (`use-dump-open-heartbeat.ts:6`), not
  every 30 s as the comment at `dump/watcher.ts:21` says; 30 s is the lease.
* A replay is cut at 200 rows and the rest is not asked for
  (`stream_controller.ts:141`).
* A family of exceptions that recurs while a reader is paging moves to the front of
  the list, behind the reader's cursor, and is on none of the pages that follow
  (`exception_groups.ts:50`).
* Pin and note of an entry are read, merged and written back by separate calls;
  of two changes at once the later undoes the other
  (`entry_metadata_controller.ts:69`).

## 7. What is left out

Formatting, redaction, serialisation, logging and rendering: entries are opaque.
The simple watchers and the command watcher, which are one `record()` call per
signal and, for commands, one awaited flush. Configuration, commands and doctor:
sequential code. The SQL dialects: a statement is its effect. Reads of the drivers
other than the replay of a stream, the pages of lists and families and the flags
of dumps. Website, playground and scripts have no runtime role.

Inside the modelled components:

* Recorder: the caches of monitored tags and of the pause flag, hooks (filters,
  tag derivation, n+1 tagging), trace bridging.
* Drivers: single flags and their sweep (`getFlag`), monitored tags, statistics of
  requests, the schema and its settings.
* Watchers: the content of the request entry; dispatches from a producer's batch;
  captured payloads.
* Provider: the maintenance lease between workers, `waitUntilReady`, a container
  that cannot build a service, one dump watcher registered twice, the flag of older
  dashboards, the memo of the setup that is cleared after a teardown.
* Dashboard: visibility of a tab, the scroll position of the live tail, the JSON
  validation of messages.

## 8. Plan

Modules, in order of weight:

1. `FlagStore`: single flags of the drivers, swept by name against a concurrent
   set, with the maintenance lease and the recorder's tag and pause caches on them.
2. `RequestStats`: the statistics of requests against a definition over the list.
3. `BatchLedger`: what a batch promises (entries go in in order, come out once, or
   go with the decision), refined by `Recorder`; `OrderKept` and `NoEntryLost` are
   its two halves.

Proofs: the refinement of `BatchLedger`, then the two theorems that `FlagStore` and
`RequestStats` are for.
