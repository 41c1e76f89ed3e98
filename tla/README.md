# TLA+ models of the mediastorm backend

This directory holds TLA+ modules that model the concurrent and stateful core of
the mediastorm backend (`backend/`, Go), TLC configurations that check them on
small instances, and TLAPS proofs of the properties that matter most for every
instance. Each definition that stands for code is tied to its lines in
`PROJECT.json` ("map"); the hazards it lists are what the properties are for.

To check a run: `tlc -config <file>.cfg <MC module>`. To check a proof module:
`tlapm <module>.tla`.

## 1. The system

mediastorm is one Go server process between players and remote sources: debrid
services and CDNs, usenet (NNTP) providers, indexers, live TV. State is in
PostgreSQL, in JSON settings and in memory; a crash loses only the last. Work
is done by request handlers, by one goroutine per recording / prequeue entry /
download / stream slot, and by tickers. `main.go` starts the HTTP server before
the DVR and the restore of prequeue entries (so requests may come first) and on
shutdown gives every service a deadline.

| Component | State it keeps | Operations | Talks to | What is hard | What makes it correct |
|---|---|---|---|---|---|
| Recordings (DVR): `services/recordings`, `internal/datastore/pg_recordings.go` | table of recordings and rules, registry of cancel functions, media files | poll every 15 s, capture with retries, repair, create, cancel, delete, start, stop | database, ffmpeg, API handlers | two starters of one id; whole-row updates from stale copies; crashes between updates; cancel and delete racing a start | rows tell the truth about captures; the registry names live captures; shutdown drains; due recordings settle |
| NNTP health-check circuit: `services/usenet/circuit_breaker.go` | per provider: failures, open-until, probing, epoch | allow, record failure / success, release the probe | health checks that walk all providers | answers of passes admitted before an outage; callers that go away with the probe | one probe at a time; the probe's verdict alone decides; releases are not rejected by mistake |
| Indexer rate-limit breaker: `internal/providerbreaker` | per indexer: until, failures, probe in flight | Allow, RecordRateLimit, RecordSuccess, ReleaseProbe | searches and NZB fetches, concurrently | late 429s, early returns with the probe in hand | as above |
| Stream pool: `handlers/stream_pool.go` | per file up to four slots: window, readers' positions, upstream body | find or open a slot, read ahead, trim, reconnect, evict, serve | players' range requests, upstream providers | trims under slow readers, lost wake-ups, stalls, eviction | a client is sent the bytes it asked for and is not left asleep |
| Prequeue store: `services/playback/prequeue.go`, used by `handlers/prequeue.go` | entries with worker status, their index by title, cancel functions, rows in the database | create / replace, update, cancel, adopt, pin, delete, expire, restore | prequeue workers, players that hand over, prewarm, database | workers of replaced entries; cancel functions set late; a restore beside requests | one entry per title; cancelled work stops; rows are what is shown; a hand-over is not undone |
| Prewarm: `services/prewarm` | its own table of titles to keep ready | run a prequeue worker and wait, renew, cancel | prequeue store and handler | the wait ends before the worker | as the store |
| Usenet reader: `internal/usenet` | one pipe and one download per segment, the consumer's place, a watchdog per attempt | read, download ahead, retry, give up, close | NNTP pool, playback | retries after output, watchdog against success, close while downloads run | the bytes of the file in order, never a false end; reads return; Close waits for nobody and leaves nothing that moves |
| External usenet jobs: `services/playback/service.go` | tables of jobs, latest job per release, ready results, submissions in progress | look for a job or a result, claim, wait, submit, poll, delete | an external usenet engine and its WebDAV share | look and claim under two locks, older jobs that end later, failing calls | one submission at a time; an identifier handed out is answered; the latest job is reused |
| Debrid resolution circuit: `services/debrid/resolution_circuit.go` | per account: permits, generation, cooldown | acquire, report | resolution workers | stale permits | half-open gate |
| TorBox cooldown: `internal/torboxrate` | one shared deadline | wait, extend | all TorBox calls | waiters and extensions | nobody calls during a cooldown |
| Import queue: `internal/importer`, `internal/database` | table of items with status and retry count | claim, process, retry, fail, restart, remove, reset at start | worker pool | (nothing feeds it, section 8) | an item is processed by one worker |
| Scrobble states: `services/{trakt,simkl,mdblist,scrob}/scrobble_state.go` | per playback: last action sent | start, pause, stop | remote services | reordered and throttled calls | the remote ends in the local state |
| Realtime sessions, watch rooms: `services/realtimesessions`, `services/watchrooms` | sessions, members, host, shared position | join, leave, command, expire | players | host hand-over, stale updates | one host; positions move forward |
| Scheduler: `services/scheduler` | task status, running set | run, cancel | remote services | a task triggered twice, cancel against completion | one run at a time |
| HLS sessions, handlers, admin UI, metadata, accounts, WebDAV, iroh tunnel | various | request decoding, transcoding processes, CRUD, remote I/O | – | mostly I/O and data | not modelled (section 8) |

The components meet in few places. A DVR row is written by requests and by the
capture's goroutine; a health check or an indexer search asks its circuit before
each network call and reports after it; a range request registers with a slot
that a background goroutine fills; a prequeue entry is worked on by its own
goroutine while requests replace it, players take it over, prewarm gives up on it
and the restore of a restart merges rows into the map. These are the interleavings
modelled here. What a prequeue worker resolves may be an external usenet job, and
what it plays may be a usenet reader; those meetings are single calls and are not
composed.

## 2. Modules

| Module | Models |
|---|---|
| `Recordings` | the DVR: table, poll, capture goroutines, registry, requests, process |
| `RecordingsProof` | theorems about `Recordings` |
| `HalfOpenGate` | abstract: what a provider circuit promises |
| `NntpCircuit` | the NNTP circuit and the checks that use it; implements `HalfOpenGate` |
| `NntpCircuitProof` | theorems about `NntpCircuit`, the refinement among them |
| `ProviderBreaker` | the indexer breaker and the requests that use it; implements `HalfOpenGate` |
| `ProviderBreakerProof` | theorems about `ProviderBreaker`, the refinement among them |
| `RangeAnswers` | abstract: what a server of byte ranges promises its clients |
| `StreamSlot` | one slot of the stream pool: background reader and requests; implements `RangeAnswers` |
| `StreamSlotProof` | theorems about `StreamSlot`, the refinement among them |
| `PrequeueStore` | the prequeue store: one operator per method, and the steps of the restore |
| `Prequeue` | who calls it: requests, workers, players, prewarm jobs, cleanup, restarts |
| `PrequeueProof` | theorems about `Prequeue` |
| `ByteStream` | abstract: what a reader of one stored file promises |
| `UsenetReader` | one usenet reader: manager, downloads, watchdog, Read, Close; implements `ByteStream` |
| `UsenetReaderProof` | theorems about `UsenetReader`, the refinement among them |
| `ExternalJobs` | external usenet jobs: requests, pollers, the engine and its share |
| `ExternalJobsProof` | theorems about `ExternalJobs` |
| `MC*` | instances for TLC |

A definition whose comment begins with "Slip:" is not part of a model: it is a
plausible mistake in the definition that follows it, kept so that every property
can be shown to catch one (`PROJECT.json`, "mutants").

### 2.1 Recordings

`row` is the recordings table (status, whether `output_path` and
`output_size_bytes` are set, the error text as none / some / "rule paused").
`unborn` and `deleted` are rows that do not exist; ids are UUIDs, never reused.
Every write in the code is a whole-row UPDATE computed from a copy read earlier,
so each `worker` (a goroutine in `startRecording`) and each `client` (a request
in `Cancel` or `Delete`) carries its copy, `snap`. `active` is `Service.active`.
`file` is what is at an output path: `clean` one muxer's output, `spliced` two in
a row (timestamps restart), `mixed` two at once. `window` is where "now" is in
the padded recording window. A step is one database call, one file operation or
one critical section of `Service.mu`.

The poll is `PollList` (the LIMITed query) then `PollNext` per row; a start from
the API is `Create` then `MaybeStart`. `startRecording` is `ExpireBeforeStart`,
`WriteStarting`, `CannotCapture`, `WriteRunning`, `Register`, the attempt loop
(`BeginAttempt`, `OpenFails`, `WriteMedia`, `AttemptEnds`, `RetryWait`,
`NoTimeLeft`), `Reload`, `Finalize` (stat, repair of the file and UPDATE in one step) and
the deferred `Cleanup`. `Cancel` is `CancelGet`, `CancelWrite`, `CancelSignal`; `Delete` is
`DeleteGet`, `DeleteFile`, `DeleteRow`. `Boot` reconciles stale rows, `Stop`
cancels the service's context, `Exit` is the end of `wg.Wait`, `Crash` is a kill
or a shutdown past its deadline. Database calls may fail (`DbFails`,
`RequestFails`); the code logs and returns, and so does the model.

### 2.2 NntpCircuit, ProviderBreaker, HalfOpenGate

Time is counted in ticks: a circuit keeps the ticks left of its cooldown and the
length of its last cooldown, which determines (and replaces) the failure count.
Each method of a breaker holds its lock, so it is one step; a pass over a provider,
or a request to an indexer, lasts from the step that admits it to the step that
reports it, and may take up to `Timeout` ticks.

`NntpCircuit` walks the providers as `checkSegmentsWithDialer` does: `Skip`,
`StartPass`, `PassFails`, `PassAnswers`, `Conclude`, with a caller that may go away
at any time. Retries inside one pass are one failed or answered pass.
`ProviderBreaker` is the sequence of `fetchNZB` and `searchTorznab`: `Begin`
(Allow), then `Unbuildable` (an early return) or `Send`, then `Fails`,
`RateLimited` or `Answered`.

`HalfOpenGate` has four states per key - closed, open, ready, trial - and says
what both circuits promise: only the cooldown makes an open gate ready, one caller
is admitted, and only its verdict moves the gate on. `GateView` of each module is
the refinement mapping, `ImplementsGate` the property.

### 2.3 StreamSlot, RangeAnswers

`slot.data` holds, for each byte of the window, the file offset it was really read
from, so a wrong byte is visible. `body.at` is the offset the upstream will yield
next; the upstream may answer from an earlier byte than asked, and says so (a 206
without Content-Range is taken to begin where it was asked to, as the code does).
`reader` is `backgroundReader`: `Park` (`waitForActiveReader`), `Check` (hard
limit), `ReadReturns` (with the append and the trim), `Notify` (broadcast),
`GiveUpOrReconnect` / `GoOnOrEnd`, `Reopen`, `Closing`, `LastNotify`. `StallFires` is
the stall timer during a Read; `LateStall` is its callback when `Stop` came too
late. A request in `serve` registers in the step that finds the slot (`Open`,
`Acquire`), waits for its pre-buffer (`Enter`, `LookAgain`, `WaitTimeout`), copies
(`Serve`, `WriteReturns`), sleeps on the signal (`asleep`) and unregisters
(`Leave`). Taking the signal channel and testing the window happen under one lock
in the code and in one step in the model; broadcasting is a step of its own.
A slot that has been evicted and has ended may be opened again, as a new one.
`Serve` copies a chunk under the lock (`Copied`) and `WriteReturns` hands it to the
client later, when the window may have moved: `sent` is what the client has been
given, as bytes and not as a count. A Write that fails ends the answer, and what it
had taken of its last chunk is left out.

`RangeAnswers` is what a client may rely on: the bytes of the file from the first one
it asked for, in order, each once, up to the last one asked for or the end of the
file; an answer may be cut short. `Client` is the refinement mapping, `ServesRanges`
the property.

### 2.4 PrequeueStore, Prequeue

`entries`, `index` and `rows` are the store's map, `byTitleUser` and the table;
identifiers are handed out once, so the age of two entries is the order of their
numbers. Every method of the store holds its lock across the map, the index and
the statements sent to the database, so each is one step. Any statement may fail; the
store logs it and goes on (`Sent`), so rows and entries can part. `unsaved` is the
history of that, the entries whose last statement failed, and `MaxFaults` bounds how
many there are at one time. The removals that end in `saveToDisk` also upsert the
ready entries that are left (`SavedAfter`). A deadline is the flag
`expired`, which `Lapse` raises in every copy of the entry at once. `stopped` keeps
the identifiers whose worker was told to stop, after the entry with its cancel
function (`hook`) is gone.

The restore, which runs beside requests, is four steps: `ListRows` reads the table
outside the lock, `MergeRows` puts the usable rows of it into the map under the
lock and keeps the latest of each title (a first part of it only when the context of the
restore ends on the way, `ContextEnds`, and then nothing is deleted), `DeleteSuperseded` deletes the rows of
what was superseded one by one, `RestoreDone` ends with the expired rows. A row is
merged with the state it was listed with, whatever happened to its entry since; the
merge thereby writes over an entry that was created after the restart and was ready
when the table was listed, takes its cancel function away, and has its row deleted
(`prevID` is the entry's own identifier). The properties except such entries
(`restore.put`), by name and only where the code needs it.

`Prequeue` has one action for each call of the store. `Lookup` decides from a copy,
`PinReused`, `DiscardStale` and `CreateEntry` act on it; `WorkerSetsCancel` to
`WorkerFinishes` are the updates of `runPrequeueWorker`, `WorkerFails` is
`failPrequeue`; `PlayerTakesOver` and `PlayerAdopts` are `AdoptMigration`, whose
probe ends in `PlayerRefreshes`; `WarmTimesOut`, `WarmCancels` and `WarmDeletes` are
the end of a prewarm job that waited too long. Searching and resolving are one
status; candidates, track metadata and stream checks are reduced to the stream they
belong to.

### 2.5 UsenetReader, ByteStream

Content is counted in pieces; `pipe[s].buf` holds the numbers of the pieces written,
so a repeated or missing piece is visible, and `out` their places in the range. The
manager tests the context, waits for a free download with the segment in hand,
and hands it over (`ManagerTests`, `ManagerTakes`). One download is `BodyWrites`,
`BodyReturns` and `BackoffEnds`; its watchdog may fire at any moment its condition
holds (`WatchRetires`, `WatchExpires`, `WatchStalls`), because time is left out. The
NNTP pool's `Body` is external: it may return an error at any time, nil after the
whole article, and nil before it once its attempt was cancelled, by the watchdog or by
the caller's context or Close, which it cannot tell apart. The code guards against
such a nil after a stall only (`Outcome`); bufpipe is a queue that refuses writes
when closed and returns its end after its content. `Read` is one step per piece;
`Close` and the clean-up that follows it are two.

`ByteStream` is what a consumer may rely on: each piece once and in order, the end
of the file after the last one only, otherwise a failure. Once the consumer has
abandoned the reader pieces may be missing, and still none is repeated or
reordered. `Stream` of `UsenetReader`
is the refinement mapping, `IsByteStream` the property. `Offset[s]` is the number of
pieces before segment `s`, a sum over the segments written as a recursive function.

### 2.6 ExternalJobs

The four maps are `jobs` (with `keyOf`), `byKey`, `ready` (`done` and `old` for
`externalDone` and its age) and `claims`. `externalMu` is held for one step at a time.
A request is `Begins`, `LooksAtResult`, `ResultIsThere` / `ResultIsStale`,
`LooksAtJobs`, `Claims` or `Waits`, then with the claim `FindsExisting` /
`FindsNothing`, `Submits` / `SubmitFails`, `Records`, `Releases`. A poller is
`PollBegins`, `PollHears` / `PollLearnsNothing`, `PollFinds`, `PollRemembers`,
`PollDeletes`. The engine completes or fails a job, the share gets or loses a file,
at any time. `stale` and `overtaken` of a request record what it went by since it
last looked, for the property about reuse.

## 3. Runs

| Run | Instance (distinct states) | Shows |
|---|---|---|
| `recordings_race` | 1 recording, 2 goroutines, 1 request, no faults (2.1 M up to symmetry) | `TypeOK`, `RegistryPointsAtCapture`, `SignalledCancelSticks` |
| `recordings_restart` | 1 recording of a rule, 1 goroutine, 1 crash, 1 failing call (105 k) | `OwnedRows`, `RetriedFileIsRepaired`, `StopDrains`, `SignalledCaptureEnds` |
| `recordings_due` | 2 recordings, LIMIT 1, 1 goroutine (34 k) | `DueSettles` |
| `nntp_circuit` | 2 providers, 2 checks (175 k) | `TypeOK`, `ProbeIsExclusive`, `VerdictSound`, `BackoffOnlyByProbe`, `ImplementsGate`, `ProbeSettles` |
| `provider_breaker` | 2 indexers, 3 requests (17 k) | `TypeOK`, `ProbeIsSole`, `ImplementsGate`, `SentProbeSettles` |
| `stream_slot` | a file of 4 chunks, 2 requests (360 k) | `TypeOK`, `KeepsWhatRequestsNeed`, `ServesRanges`, `SleeperIsWoken`, `EvictedSlotEnds` |
| `prequeue_handover` | 1 title, 2 entries, 2 players, 1 prewarm job (531 k) | `NoStrayWorker`, `TracksMatchStream`, `AdoptedStays`, `EntrySettles` |
| `prequeue_restart` | 2 titles of 2 profiles, 2 entries, 1 request, 2 restarts, 1 failed statement at a time (1.7 M) | `TypeOK`, `IndexIsExact`, `RowsFollowEntries`, `PinStays` |
| `usenet_reader` | 3 segments, 2 downloads at a time, 2 attempts (401 k) | `TypeOK`, `PipesHoldTheArticle`, `IsByteStream`, `ReadReturns`, `CloseLeavesOnlyStuckBodies` |
| `external_jobs` | 1 release, 2 requests, 1 poller, 2 jobs (201 k) | `OneSubmitter`, `AcceptedIsAnswered`, `LastJobIsReused`, `ClaimIsReleased` |
| `provider_breaker_probe_leak` | 1 indexer, 2 requests | counterexample to `ProbeComesBack`: section 5 |
| `external_jobs_doubled` | 1 release, 2 requests, 2 jobs | counterexample to `ActiveJobIsReused`: section 5 |

Why the bounds are enough (for what section 6 proves they do not matter):

* *Recordings.* All hazards are about one id: two starters are the poll and an API
  request, and a third would only repeat them. One request in progress can be a
  cancel or a delete, one after the other. Two recordings are needed only where
  they compete, for the LIMIT of the query. One crash and one fault per recording
  reach every pair of adjacent writes; `unsaved` excludes a recording whose
  database call failed, because the code only logs that. With one goroutine,
  `WF` on its steps is what the Go scheduler gives it; a start that finds no free
  goroutine in the model waits, which is an artefact of the bound.
* *NntpCircuit.* A stale pass and a probe need two checks; order and skipping need
  two providers. `Timeout` 1, `BaseBackoff` 2 and `MaxBackoff` 3 keep the order of
  the real constants (27 s, 30 s, 300 s) and reach the ceiling. `MaxEpoch` bounds
  the failures of one outage.
* *ProviderBreaker.* Three requests: a probe, an older one, and one that asks. Hints
  are none and one above the ceiling.
* *StreamSlot.* `TrimTo < Max < Hard < Size` and a file longer than the window make
  every trim and the hard limit happen; one open range from the beginning and one
  closed range from the middle give a slow and a fast request. One reconnect
  without progress is allowed before the slot fails, where the code allows two.
* *Prequeue.* Two entries of one title are one that is replaced and its
  replacement; two players are a probe that is late and the migration that
  overtook it. Entries of two titles and two restarts show a row that a restart
  brings back, is superseded, and is not brought back again. One entry at a time whose
  last statement failed is enough to lose its row or to leave it behind, beside one
  that is whole. Behaviours begin with the first restore done (`Begins`), for the
  table is empty then; every later restart has its restore. The two halves are
  checked apart: a restart cuts players and workers off, and the proofs join them.
* *UsenetReader.* Three segments and two downloads make the manager wait with a
  segment in hand; one article is longer and one shorter than its window. Two
  attempts are the first and a retry.
* *ExternalJobs.* Two requests race for one release; a third would wait as the
  second does. Two jobs are one that ends late and its successor.

Deadlock is checked except for `Recordings`, `Prequeue` and `UsenetReader`, where the
system may really stop: a service that was stopped, no entry left to create, a
reader that was closed.

## 4. Fairness

* *Recordings*: goroutines, requests in progress and the poll go on. Nobody has to
  call the API, to stop or to start the service. ffmpeg ends by itself (`-t`) or
  is killed through its context. Only `DueSettles` also assumes that windows
  pass (`FairSpec`); `StopDrains` and `SignalledCaptureEnds` do not, because a
  shutdown must not wait for a window.
* *Circuits*: time passes, and a pass or request under way ends (it has a timeout).
  Nobody has to start another one: `ProbeSettles` would otherwise hold only
  because somebody came along.
* *StreamSlot*: goroutines go on, a Read ends because the stall timer closes the
  body. Nothing is assumed of clients: a Write may block for ever, which is why
  `SleeperIsWoken` excepts a full window held by another request at its first byte.
* *Prequeue*: the clean-up runs every 30 seconds, and the prewarm service goes on: it
  waits for a worker or for its own timeout, whichever comes first. Nothing is assumed
  of the workers, whose resolver "can become wedged" (`prewarm/service.go:339`), of
  requests, players, deadlines or the restore. `EntrySettles` therefore speaks of an entry
  that something ends: a worker that is through, a deadline that has passed, or a
  prewarm job that waits.
* *UsenetReader*: the manager, a Read under way, the watchdog, the backoff and the
  clean-up go on. A `Body` may be silent for ever, cancelled or not, for `Close` is
  written for downloads "stuck on network I/O"; the consumer need neither read nor close.
  That a cancelled `Body` returns is the antecedent of `ReadReturns`
  (`CancelledBodiesReturn`), because the watchdog waits for it; `CloseLeavesOnlyStuckBodies`
  does without.
* *ExternalJobs*: a request that holds the claim goes on, because every call of its
  HTTP client returns within 60 s (`service.go:178`). The engine need never answer.

## 5. What the counterexamples say, and other gaps

Two disagreements with what the repository says of itself are runs:

* **Probe leak** (`ProbeComesBack`): a request that was granted the half-open probe and
  returns before it is sent (no URL, unusable URL) never releases it; the
  indexer is refused until the process restarts.
* **Doubled submission** (`ActiveJobIsReused`): `service.go:710-714` looks for an active job
  and then claims the submission, under two locks. A request that looked before
  another one claimed, and claims after that one recorded its job and released,
  submits the release again, and the index forgets the first job.

The models also contain these behaviours, which no text of the repository rules out.
A property that would forbid them is not stated, or excepts them by name:

* *Recordings.* Between the write of `running` and the registration of the cancel
  function (`service.go:716-724`) a Cancel finds nobody to signal, and the capture
  records to the end of its window. A Delete that read the row before the starter
  wrote it removes the row under the capture. Two starters of one id may both
  capture, and the deferred clean-up of one drops the other's registry entry, which
  no Cancel then reaches; `RegistryPointsAtCapture` says of what is left that it
  points at a live capture of its recording.
* *ProviderBreaker.* The second of two 429s, without a hint, shortens the cooldown
  that the first one's hint had set.
* *StreamSlot.* Stalls without progress add up over the life of a slot: chunks read
  between them do not reset the count. Any `io.EOF` of the upstream is taken for the
  end of the file, an early one too: the slot is then complete and its answers end
  short. `RangeAnswers` allows a short answer, and nothing here says that one is
  complete.
* *Prequeue.* A prewarm job whose wait is over deletes whatever entry it finds under its
  title (`WarmTimesOut`), another request's too. `DeleteAll` leaves the rows, which
  a restart brings back. The restore puts back an entry that was deleted between
  its list and its merge; it writes over, and deletes the row of, an entry that
  became ready before the list (`prevID == e.ID`); it drops a pinned row when a newer
  one without a pin exists. A crash between the replacement of a pinned entry and
  the moment its successor is ready loses the pin: the old row is gone and an entry
  in progress has none. A statement that fails is logged and never sent again
  (`prequeue.go:573`, `677-687`, `738-740`, `1058-1060`): a ready entry stays without a
  row and is lost by a restart, or the row of a removed one stays and comes back.
  A worker that is wedged leaves its entry in progress; a pinned one has no deadline
  and, without a prewarm job, stays so until somebody deletes or replaces it.
* *UsenetReader.* A manager whose context ends returns without closing the pipes of the
  segments it never started (`ManagerBreaks`): a Read of one waits until Close. A `Body`
  that returns nil as the caller's context ends closes its pipe without an error, and
  the guard of `usenet_reader.go:773` covers a stall only: a Read still under way takes
  the short segment for a whole one and goes on with the next.
* *ExternalJobs.* A cached result that went stale makes its request skip the look at
  active jobs (`ResultIsStale`). `LastJobIsReused`, the weaker form of
  `ActiveJobIsReused` that holds, excepts it, and jobs recorded after the look.

## 6. What is proved

| Module | Theorem | Statement |
|---|---|---|
| `RecordingsProof` | `TypeCorrect` | `Spec => []TypeOK` |
| | `RegistryTheorem` | `Spec => []RegistryPointsAtCapture` |
| | `OwnedRowsTheorem` | `Spec => []OwnedRows` |
| | `RetryTheorem` | `Spec => RetriedFileIsRepaired` |
| | `CancelTheorem` | `Spec => []SignalledCancelSticks` |
| | `SealTheorem` | `Spec => NothingRecordedAfterSeal` |
| `NntpCircuitProof` | `TypeCorrect` | `Spec => []TypeOK` |
| | `ProbeIsExclusiveTheorem` | `Spec => []ProbeIsExclusive` |
| | `GateTheorem` | `Spec => ImplementsGate` |
| | `BackoffTheorem` | `Spec => BackoffOnlyByProbe` |
| | `VerdictTheorem` | `Spec => []VerdictSound` |
| `ProviderBreakerProof` | `TypeCorrect` | `Spec => []TypeOK` |
| | `ProbeIsSoleTheorem` | `Spec => []ProbeIsSole` |
| | `GateTheorem` | `Spec => ImplementsGate` |
| `UsenetReaderProof` | `TypeCorrect` | `Spec => []TypeOK` |
| | `PipesAreRight` | `Spec => []PipesHoldTheArticle` |
| | `ReaderIsByteStream` | `Spec => IsByteStream` |
| | `ReadIsSuppliedTheorem` | `Spec => []ReadIsSupplied` |
| `ExternalJobsProof` | `TypeCorrect` | `Spec => []TypeOK` |
| | `SubmissionsTakeTurns` | `Spec => []OneSubmitter` |
| | `EveryQueueIdIsAnswered` | `Spec => []AcceptedIsAnswered` |
| | `LatestJobIsReused` | `Spec => LastJobIsReused` |
| | `WaitsForWorkTheorem` | `Spec => []WaitsForWork` |
| `PrequeueProof` | `TypeCorrect` | `Spec => []TypeOK` |
| | `IndexTheorem` | `Spec => []IndexIsExact` |
| | `NoStrayWorkerTheorem` | `Spec => []NoStrayWorker` |
| | `TracksTheorem` | `Spec => []TracksMatchStream` |
| | `RowsTheorem` | `Spec => []RowsFollowEntries` |
| | `AdoptionTheorem` | `Spec => AdoptedStays` |
| | `PinTheorem` | `Spec => PinStays` |
| | `ProgressTheorem` | `Spec => []ProgressHasWorker` |
| `StreamSlotProof` | `TypeCorrect` | `Spec => []TypeOK` |
| | `WindowWaitsTheorem` | `Spec => []KeepsWhatRequestsNeed` |
| | `WindowIsTheFileTheorem` | `Spec => []WindowIsTheFile` |
| | `ServesRangesTheorem` | `Spec => ServesRanges` |
| | `NoLostWakeupTheorem` | `Spec => []NoLostWakeup` |

`ReadIsSupplied`, `WaitsForWork`, `ProgressHasWorker` and `NoLostWakeup` are defined beside their
theorems. Each is the safety half of a liveness property of a run: it says that
whoever waits waits for somebody who is there and on the way, and not for nobody or
in a circle. What is left to TLC of these properties is that this somebody moves.

They hold for every number of recordings, goroutines, requests, files, providers,
segments, bytes, ranges, entries, players and jobs, under the named assumption of each module
(`RecordingsAssumption`, `NntpAssumption`, `BreakerAssumption`, `ReaderAssumption`,
`JobsAssumption`, `StoreAssumption`, `PrequeueAssumption`, `SlotAssumption`), most of which only say
what kind of thing a constant is. Two carry weight:

* `Timeout < BaseBackoff` (`NntpAssumption`): a pass is over before the shortest
  cooldown is. In the code it is 12 s of work plus at most 15 s for the QUIT that
  closes the connections, against 30 s; a longer pass would break
  `ProbeIsExclusive`.
* `Timeout < Cooldown` (`BreakerAssumption`): the same for a request to an indexer.

The arguments:

* *Registry.* Inductive with the types: an entry of `active` is set by `Register` to
  a goroutine that has only registered program counters ahead of it, and the
  goroutine's last step removes the entry of its id, whoever owns it. A goroutine
  keeps its recording until then.
* *Owned rows.* The strengthening says in which states of a goroutine its copy may
  be active, and that a goroutine between its first and its last write is there
  for the row. A row becomes active only by a goroutine's write; the same
  goroutine's last write makes it final unless it failed, and a crash is followed
  by the reconciliation before `proc` is up. Writes by others (a cancel) leave the
  row inactive.
* *Cancels.* `SealedOK` strengthens `SignalledCancelSticks` by what can still be held
  of a sealed recording: no copy in the poll, no request but a Delete, no goroutine
  but one before its reload or with a copy that says cancelled. The poll and the
  immediate start have then nothing to start, and the last write keeps the status;
  it needs `RegistryPointsAtCapture`, or the signal might be another recording's.
  A recording is sealed only when no second starter held it at the signal: with two
  goroutines for one id the registry names one of them, and the other is not
  told. `NothingRecordedAfterSeal` is about what comes later: no step starts a goroutine
  for a sealed recording, and the one that is there keeps its signal until its clean-up
  and adds no media. It is what can be said of `SignalledCaptureEnds` without fairness.
* *Retries.* `RetriedFileIsRepaired` follows from the types: only `Finalize` leads from
  the reload to the clean-up, and each of its four outcomes repairs or reports.
* *Exclusive probe.* The invariant relates ages to cooldowns: a pass that is not the
  current probe and runs while the circuit is open was admitted before it opened,
  so its age exceeds the part of the cooldown that has passed; at the end of the
  cooldown it would be older than `Timeout`, which `Tick` forbids. The breaker's
  `OneProbe` is the same argument for requests (`StatesOK`, `CallsOK`).
* *Gates, backoff.* Step by step from the probe invariants: each action maps to one
  action of `HalfOpenGate` or to a stutter.
* *Verdict.* While a check walks, what is still missing is what was asked minus what
  the providers that answered hold, and every provider passed without an answer
  has left a mark (`skipped`, `failed`).
* *Byte stream.* `Pipes` says that a pipe holds what the attempt under way wrote, because
  only an attempt that wrote nothing is repeated, and that while the context lives its end
  without an error stands behind the whole article only; that makes an end of the
  stream true. After that the places read still grow, which is what is left of the
  promise to a consumer that has gone.
  `Delivered` says that the output is the range up to the consumer's place. Each
  read then maps to the next piece of `ByteStream`, everything else to a stutter. That
  the recursive definition of `Offset` has a solution, and that it grows, is proved
  by the least segment at which either would fail (`SumsExist`, `Offsets`).
* *Reads are supplied.* `Supply` says that the manager starts every segment it passes
  while the context lives, that a download that is over has left an end in its pipe,
  and that the closed segments are those the consumer has passed. A Read that finds nothing then has its segment
  in download or still ahead of the manager, and the downloads that fill the pool
  are of closed segments: none of them waits for the consumer.
* *External jobs.* `Recorders` says that the job a request is about to record is the
  newest of its release, `Settled` that a poller about to delete a job knows its
  answer, `IndexLeads` that the index names the latest job of a release while that
  is active, `Looked` what a request that found none active may rely on. `Claimed` says
  that a claim is held by a request between its claim and its release, so that
  whoever waits for one has another request to wait for.
* *Prequeue.* `StoreInv` is about titles. Until its merge, what is in memory is newer than
  any row listed or stored of its title (`IndexLeads`), because a title's entry
  is younger than every one it replaced, whose row may have stayed behind; so what the
  merge displaces it puts back, and the index stays exact. `EntryInv` is about one entry, its row, the listed copy and its worker:
  while its worker runs its copies are ready only by a migration, which is why a
  write of a worker can never turn a ready entry back; a worker that entered its
  entry has a cancel function there or has been told to stop; what is not ready has
  no row. A failed statement leaves the row as it was, which is an older state of the
  same entry or none, and `unsaved` keeps its identifier until a later statement for
  it succeeds (`StillUnsaved`, `SavedAgain`); an upsert of all ready entries changes only
  rows of entries that are in memory, so what is known of the others stays. `PlayersOK` says that a probe after a migration meets a ready entry or none.
  Every step is shown to be a *calm* one (cancel, pin, deadline, removal, restore),
  a creation, an update or a restart; the invariants and the two action properties
  are proved of these. `ProgressHasWorker` is inductive beside them: a new entry comes
  with its worker, the restore and the players write ready entries only, and the
  worker's last step settles its entry unless it was adopted or is gone.
* *Stream slot.* `ReadsOn` says that whenever the background reader is about to read,
  has read or will read again without a reconnect, its body stands at the end of the
  window, although the body may have been closed by a callback of any age; after a
  stall it says nothing until `Reopen` has compared. `InFile` bounds the window by
  the file, `EvictedIsEmpty` gives a reopened slot no request left from before. A
  trim is shown to drop at most what lies before the slowest request; that a slowest
  one exists is the well-foundedness of `<` on the naturals, from the library. With
  `TypeOK` the hard limit is proved, which needs only `Max < Hard` of the sizes and
  that `Check` is passed before each Read.
* *Range answers.* `Answers` says that what a request was sent is the file from its first
  byte to its position, and that the chunk it is writing is the file from there on:
  true when it was copied, because `WindowIsTheFile` and `KeepsWhatRequestsNeed` hold
  then, and kept because no trim touches a copy. `Open`, `Acquire`, `WriteReturns` and
  `Leave` map to steps of `RangeAnswers`, everything else to a stutter.
* *Wake-ups.* `Wakes` says that a sleeper has all bytes there are and the upstream has not
  ended, or that a broadcast is the next thing the background reader does; and that
  the reader is not parked while a request is registered.

Only model-checked: all liveness (`StopDrains`, `SignalledCaptureEnds`, `DueSettles`,
`ProbeSettles`, `SentProbeSettles`, `SleeperIsWoken`, `EvictedSlotEnds`,
`EntrySettles`, `ReadReturns`, `CloseLeavesOnlyStuckBodies`, `ClaimIsReleased`), since the
prover has no rule for fairness and ENABLED. Every safety property of the passing
runs has its theorem. The modules use no RECURSIVE operator. The one recursive
function (`Offset`) is reasoned about through the well-foundedness of `<`, because
the induction theorems of the library take an operator as a parameter, which the
provers cannot instantiate.

## 7. Plan

Done: `Recordings`, `HalfOpenGate`, `NntpCircuit`, `ProviderBreaker`, `StreamSlot`,
`RangeAnswers`, `PrequeueStore`, `Prequeue`, `ByteStream`, `UsenetReader`,
`ExternalJobs`, and the proofs of every safety property of the runs. To follow:

1. `StreamPool`: the creation gate of a path (waiters that give up, gates deleted
   when unused), several slots, the limit of four, eviction of idle slots; a slot
   is there reduced to what `StreamSlot` guarantees of it (start and end only grow,
   never past a registered request).
2. `ResolutionCircuit`: a third implementation of the gate, with permits.
3. `RecordingRules`: rules, expander and their races with requests; an abstract
   lifecycle of a recording that `Recordings` implements up to lost updates.
4. Scrobble states, watch rooms, the scheduler.

## 8. Not modelled, and why

* *Recordings*: the CRUD of rules and the expander's own loop (a materialised row
  appears by one INSERT); the library sweep after a capture; ffmpeg's arguments.
* *Circuits*: providers without a name, which the breaker always admits; retries inside
  one pass.
* *Stream pool*: several slots and their creation gate; LRU order (any idle slot may be
  evicted), `close()` of the pool, which only tests call, headers and throughput
  logging, the playback migration signals.
* *Prequeue*: `ForceExpiry` and the renewal of deadlines (a deadline is passed or not);
  `AdoptEntry`; the file store used when there is no database; the checks of
  `readyEntry` on the stream path (they are the choice in `Lookup`); prewarm's choice
  of titles and its own table.
* *Usenet reader*: ranges that begin inside a segment, the estimate of segment sizes,
  `activity.go`, which only makes background checks wait; a first Read beside a Close,
  and a Read after `Clear`, which the callers never do.
* *Import queue*: nothing under the source tree feeds it. `StartManualScan` and
  `ProcessItemInBackground` have no callers, playback imports through
  `ProcessNZBImmediately`; what runs is a pool polling an empty table.
* The other components of section 1: planned ones above; HLS sessions are mostly the
  life of external ffmpeg processes; handlers, admin UI, metadata, accounts, WebDAV and
  the iroh tunnel are I/O, data mapping or CRUD under one lock. They are most of the
  source by size, which is why the mapped share of it is small.
