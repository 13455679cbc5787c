# A verification project for Zeatop

Zeatop is an incident management system. Monitoring signals are posted to a
FastAPI application, queued in Redis, drained by separate worker processes into
MongoDB (raw signals) and PostgreSQL (incidents, called work items), and shown on
a React dashboard where engineers move an incident through its life and write its
root cause analysis (RCA).

This directory holds TLA+ models of the parts of it that keep state and can go
wrong, TLC configurations that check them, and TLAPS proofs about them.
`PROJECT.json` maps every definition to the lines it was translated from, and lists
the hazards of the code that the properties are for.

    tlc -config PipelineSafety.cfg MCSignalPipeline     # a run
    tlapm SignalPipelineProofs.tla                      # the proofs of a module

Paths below are relative to `src/backend/app/` unless they say otherwise.

## 1. The system

| Component | Code | State it keeps | Operations |
|---|---|---|---|
| Signal ingestion API | `routers/signals.py` | none | POST /api/signals: throttle (429), refuse (503), enqueue (202) |
| Redis signal queue | `services/queue.py`, `db/redis.py` | queue list, processing list | enqueue, dequeue (BRPOPLPUSH), bulk acknowledge (LREM), recover, depth |
| Worker process | `../worker.py`, `worker_loop` / `flush_batch` of `services/ingestion.py` | one batch buffer per task | start and recover, collect, flush, back off, shut down |
| Incident deduplication | `resolve_work_item` and below in `services/ingestion.py` | debounce key, debounce window (Redis); `work_items` rows; `work_item_id` of MongoDB documents | find the active incident, count, create, link, alert |
| Circuit breaker | `services/circuit_breaker.py` | four Redis keys per dependency, three of them with TTLs | get state, call, record success, record failure |
| Work item lifecycle | `services/workitems.py`, `services/state_machine.py`, `routers/workitems.py` | `work_items`, `rca`, `work_item_status_history` rows | transition, submit RCA |
| PostgreSQL access | `db/postgres.py`, `models/db_models.py` | the partial unique index | retry on transient errors, create schema |
| Severity classifier | `services/classifier.py` | none | raise a severity to its component's baseline |
| Dashboard cache | `services/workitems.py` | two cached lists | list (cache aside), invalidate |
| Live updates | `services/ws_manager.py`, `main.py` | list of WebSockets, the listener's place in it | listen to pub/sub, broadcast, connect, disconnect |
| Metrics | `services/metrics.py` | counters | record, log every five seconds |
| Alerts, AI suggestion, analytics, authentication | `services/alerts.py`, `services/ai_rca.py`, `services/analytics.py`, `security.py` | none | stateless calls and reads |
| Dashboard page | `src/frontend/src/pages/Dashboard.jsx` | sockets, reconnection timers, loads under way, the list shown | mount, unmount, reconnect, load on an update |
| Rest of the frontend | `src/frontend/src` | access token | render, call the API |

**How they interact.** The API and the workers share nothing but Redis: the API
pushes, any worker process pops into a processing list that all worker processes
share. A task of a worker process flushes its batch through MongoDB, then through
`resolve_work_item` for each signal, then acknowledges the batch. Reads of
PostgreSQL and writes of MongoDB go through a circuit breaker whose state is in
Redis as well, so it is shared by all processes. Lifecycle requests of the API and
the increments of the workers meet on the same PostgreSQL row, locked with FOR
UPDATE. Every write invalidates the cached lists and publishes an event; the API
process forwards events to the browsers, which reload.

**What is hard about it.** All of it is asyncio: between two awaits a step is
atomic, at every await anything else may run, in this process or another. The
hazards are, by component:

* *Queue and workers.* Crashes and cancellations in the middle of a flush; Redis or
  database errors that leave a batch half done; redelivery; commands repeated by
  the Redis client after a timeout; recovery by one process while another works;
  the queue's depth read in one await and acted on in another.
* *Deduplication.* Several workers find no incident and create one; the window is
  added to, trimmed and counted in separate commands; an incident is closed while
  signals of it are under way; the outcome of a commit is lost and the operation
  retried; a worker fails between the steps after a creation.
* *Circuit breaker.* State, flag and counters are separate keys, read and written
  by separate commands that interleave with other callers' and with expiry.
* *Lifecycle.* Requests race for a row; a retry repeats a transaction that was
  applied; what was committed is reported as failed.
* *Cache.* A list read before a write is cached after its invalidation, and its TTL
  starts then; the two copies are deleted in separate commands after the commit, and by
  creators before it.
* *Live updates.* The list of connections changes while the broadcast iterates over it;
  connections come and go between an event and its delivery; events published while
  nobody is subscribed are gone; a page's loads overtake each other and are answered from
  the cache; its reconnection outlives the page.

**What makes each component correct.**

* Ingestion to acknowledgement: an accepted signal is never lost, is acknowledged
  only when stored and counted, is eventually acknowledged, and is counted more
  than once only for a reason; the queue stays within a bound.
* Deduplication: at most one active incident per component, every signal
  attributed to it is in its count, few are in it twice, its severity covers theirs, a full
  window leads to an incident, links of signals to incidents do not change.
* Circuit breaker: OPEN never lasts for good; during the cooldown calls are
  refused; probing comes to an end.
* Lifecycle: closed only with an RCA, closed for good, a gapless history, a
  transition applied once however often retried, truthful answers, always an
  answer.
* Cache: an answer is not older than a bound, a copy that is behind the database is so for
  one of a few reasons, and not for good.
* Live updates: no client gets an event twice or out of order, the loop passes over few; a page
  holds as many connections as it should, through all failures; it shows the database,
  unless something of a short list went wrong, and in the end.

## 2. The modules

| Module | What it is |
|---|---|
| `Delivery` | abstract specification: what the ingestion boundary promises of a signal |
| `SignalPipeline` | API, queue and worker processes in detail; implements `Delivery` |
| `SignalPipelineProofs` | its theorems |
| `SignalAtHandProofs` | more of them: how often a signal is counted, and what the processing list holds |
| `CircuitBreaker`, `CircuitBreakerProofs` | the breaker at the granularity of Redis commands, and its theorems |
| `WorkItemLifecycle`, `WorkItemLifecycleProofs` | one work item under racing, retried requests, and its theorems |
| `IncidentLedger` | abstract specification: what becomes of the incidents of one component |
| `IncidentDedup`, `IncidentDedupProofs` | the incidents of one component under racing workers, which implement `IncidentLedger`, and its theorems |
| `ListService` | abstract specification: how old an answered incident list may be |
| `DashboardCache`, `DashboardCacheProofs` | a cached list under racing reads and writes, which implements `ListService`, and its theorems |
| `LiveUpdates`, `LiveUpdatesProofs` | pub/sub, broadcast, WebSockets and a page's reconnection, and its theorems |
| `LiveDashboard`, `LiveDashboardProofs` | `LiveUpdates` composed with the writes and with the loads of a page, and its theorems |
| `MC...` | the instances TLC checks |

An operator whose comment begins with "Mutant of" is not part of a specification.
It states how an operator would look with a plausible bug in it; replacing the
operator by it makes the run of the property named in `PROJECT.json` fail, which
shows that the property depends on the code it is about.

### SignalPipeline

A step is the code between two awaits. `req[s]` follows the POST of one signal:
`Ingest` is the first depth read in `ingest_signal`, `Enqueue` the second one in
`enqueue_signal`, `Push` the LPUSH; `PushTimeout` is an LPUSH that is applied
although its reply is late, which the client, built with `retry_on_timeout`,
repeats. `queue` is the list in its order; of the shared `processing` list only the
number of copies of each envelope is kept, since LREM looks envelopes up by value
and recovery moves them all.

`pstate[p]` follows `main` in `worker.py`: `Start`, the recovery loop (`RecoverCheck`
is its LLEN, `RecoverMove` its RPOPLPUSH: two awaits, between which other processes
run), `Stop` for SIGTERM, `Stopped`, and `Crash`. `pc[t]`, `popped[t]`, `buffer[t]`
and `done[t]` follow a `worker_loop` task: `Dequeue` (the pop), `Buffer` (append, and
decide whether to flush), `BatchTimeout`, `IdlePoll`, `DequeueError` and
`BackoffOver` (the sleep after an error); then `flush_batch`: `Record`, one `Resolve`
per signal, `Ack`, and `FlushDone`. `RecordFails`, `ResolveFails` and `AckFails` are
its error paths, which all end in `EndFlush`: `flush_batch` swallows the error and
`worker_loop` clears the buffer. `Stop` cancels each task where it is: one with a
non-empty buffer flushes it once more from the start, one that sleeps after an
error loses its buffer (the envelopes stay in `processing`).

The effect of `resolve_work_item` is abstracted to `counted[s]`, the number of times
it took effect. `IncidentDedup` has the detail.

### CircuitBreaker

One step per Redis command. `state`, `wasOpen`, `fails` and `probes` are the four keys;
the TTLs count down with `Tick`. `Abort` cuts a caller off anywhere (wait_for, shutdown,
a Redis error); `SuccessNotRecorded` is the error path where `_on_success` itself
raises inside the try block and the successful call is recorded as a failure.
`sinceTrip`, `late` and `forgiven` are history variables: the time since the last trip, the
callers whose call had begun by then, and the probes that were under way when the count of
probes was last set to zero.

### WorkItemLifecycle

Requests are transitions to any status and RCAs of any of a few lengths, in any mix.
The row lock makes a transaction one step: `Commit` applies it, `Refuse` is an
HTTPException raised in it, `TxnFails` a failure before the commit and
`CommitOutcomeLost` one after it. `Retry` is `retry_postgres_write`: the whole
operation again while attempts remain. A transition reads the row once more after
its commit (`Refresh`), which may fail and be retried too; then caches are
invalidated and the event published (`Notify`), where an error is not retried.
`Allowed` is the state machine.

### IncidentDedup

`items` are the `work_items` rows of one component in order of creation, `debounce`
and `window` the two Redis keys, `stored` and `linked` the MongoDB documents. `pc[t]`
names the await of `resolve_work_item` (or of `create_work_item` and
`increment_signal_count` below it) that task `t` is at, `signal[t]`, `sized[t]` and
`found[t]` its locals. `CheckCache`, `Lookup` and `FillCache` look for the active
incident; `ZAdd`, `Trim` and `CountWindow` are the window; `Create` inserts a row,
`CreateConflicts` is the unique index refusing it, `ConflictLookup` and
`ConflictIncrement` the handler; then `Announce`, `CacheNew`, `Link`, `ClearWindow` and
`Alert`. `Increment` counts a signal in an incident that was found. `CreateFails`,
`CreateOutcomeLost` and `IncrementFails` are transient errors with their retries
(an increment inside a creation has two retry loops around it), `Abort` is everything
else that ends `resolve_work_item` early. Time is abstracted: with `Expiry` a key
may be gone, a member trimmed or a document too old to be linked at any moment.
`Leave` ends a call of `resolve_work_item`, `Return` with an id and `Raise` with an exception, which
`failed` counts: `flush_batch` gives up the rest of its batch then. A signal is received when a task
comes to it in its batch, and none need be. Of a row, `base`, `opener` and `racers` are history: the window it was
opened with, the signal that opened it, and how many other tasks were at work on members of that window.
`LedgerRows` is the part of a row that `IncidentLedger` knows: whether it is active, its count
and its severity; the window, the keys, the tasks and their retries are hidden from it.

### DashboardCache

A list is its version, the number of writes it reflects. Nothing but the order of the two
DELs connects the list of active incidents with that of closed ones, so the module follows one,
`list`, whichever `Init` picks. `rpc[r]` is the await of a `list_workitems` request: the GET
(`Hit`, `Miss`), the SELECT (`Select`) and the SETEX (`Fill`); `rows[r]` is what it read, `held[r]`
for how long. `wpc[w]` is the await of an operation that changes incidents: updaters commit,
delete the active and then the closed list, and publish; creators delete first, commit, and
publish; a creator refused by the unique index (`Conflict`) becomes an updater. `touches[w]` says
whether the write changes the list that is followed. `ReadFails` and `WriteFails` are the errors
at any await, with the effect of the command or without it, `DeleteTimeout` a DEL the Redis client
repeats. `Tick` is time; it expires the copy. `retired`, `served`, `overtaken`, `late` and `owed`
are history: how long ago a version was replaced, the latest answer of this tick, the readers whose SELECT a
deletion has overtaken, whether such a reader stored the copy, and what no deletion will follow.

### LiveUpdates

`channel` is what the subscription holds for the listener task, `conns` the list
`active_connections`. `Take`, `Send` and `EndBroadcast` are the listener and the loop of
`broadcast`, whose place in the list, `next`, is an index that does not move when the list
does. `ListenerFails` ends the task for good; `Resubscribe` is the Redis client connecting again
below it. `endpoint[s]` follows `websocket_endpoint`: `Accept`, then, an await later, `Register`,
and `Disconnect`. `link[s]` is the connection. On the browser's side `socket[s]` is a `readyState`,
`owner[s]` the page whose `connectWebSocket` made the socket, `first` the sockets that a cleanup
refers to, and `timers[m]` the pending `setTimeout`s. `OnClose` reads `reconnectAttempt` as its
closure has it, 0 for ever; `Unmount` is the cleanup, which closes one socket and clears no timer.
A socket both ends have forgotten may stand for a new one, so `Sockets` bounds only what
exists together. `Restart` is the API process killed and started again, `LinkFails` the
network or a server that is not there.

`EffectRuns` is the number of times React runs the effect of a page that is mounted.
`src/frontend/src/main.jsx:12` wraps the application in `StrictMode`, and
`src/frontend/Dockerfile`, which docker-compose builds, starts the development server: there an effect runs, is cleaned
up and runs again, so it is 2. In a production build it is 1.

### LiveDashboard

Extends `LiveUpdates` with the writes (`version`, and `unannounced` for those between their commit
and their PUBLISH) and with what pages show: `loads[m][v]` is the number of loads of page `m`
answered with version `v` (`Unread`: not yet), `shown[m]` the version it shows. `Announce` is the
`Publish` of `LiveUpdates`, `Open` its `Mount`, `Leave` its `Unmount`; every other step of it
goes `Through`, and a page that gets an event starts a load (`Follow`). A load is answered with any
version that `ListService` allows, its time left out: the current one or an older one.
`reasons[m]` collects what went wrong since the page last showed the database.

## 3. What is checked

| Run | Question | Result |
|---|---|---|
| `PipelineSafety` | Is anything lost, multiplied, over-counted without a cause, stranded without a failure, or acknowledged too early? | no |
| `PipelineLiveness` | Is every accepted signal eventually settled? | holds, after crashes, shutdowns and repeated pushes |
| `PipelineStranded` | Is a batch whose flush failed retried? | no, see below |
| `BreakerConcurrent` | Does OPEN always end, who can cut its cooldown short, and are probes limited? | it ends; only callers and probes from before the trip; until the count is set to zero |
| `BreakerStuckProbing` | Does probing end? | no |
| `LifecycleSafety` | Closed only with RCA, closed for good, gapless history, applied once, truthful, one RCA row an attempt, always answered? | holds |
| `DedupRaces` | Nothing uncounted, how much counted twice, new incidents finished, severities cover, one active incident opened by a full window? | nothing uncounted; a signal more for each racer, redelivery and failure at most; the rest holds |
| `DedupBurst` | Does a full window become an incident, if no further signal comes? | it does, with a signal to spare for each call that failed |
| `DedupClosedCached` | Does the debounce key name an active incident? | no |
| `CacheStaleness` | How old can an answer be, why is a copy behind, does it stay so? | TTL and one read; for a named reason; no |
| `LiveConnections` | Are events in order, connections passed over, pages connected once per effect run? | in order; at most one per departure; yes |
| `DashboardUpdates` | Does a page show the database, whatever fails on the way? | it does, or for a named reason; in the end |

### Properties that hold

`PipelineSafety`. `NoSignalLost` is the safety half of at-least-once delivery.
`AckOnlyHandled` says that no step removes the last trace of an envelope that is not
stored and counted. `NoMultiplication` says that Redis never holds more copies of an
envelope than pushes of it were applied, although two processes move envelopes back and
forth. `AdmissionBound` is the bound the two unsynchronised depth reads do give: the
threshold, plus what was in flight together, plus what recovery and repeated pushes
brought. `OverCountingBounded` bounds how often `resolve_work_item` takes effect for a signal: once for each time its
envelope entered the queue, and once more for each failure. What that does to the count of an incident is another
matter (`CountedTwiceBounded` below). `StrandedByFailure`: until something fails, each envelope in the processing list
is at hand of a task that is yet to acknowledge it, although any starting process takes envelopes from
the list that the tasks of others are working on. `ImplementsDelivery` is the refinement: an envelope is accepted when
it is first pushed, processed when it is stored and counted, and settled when Redis
has forgotten it.

`BreakerConcurrent`. `OpenEnds`: late failures may trip
it again and again, but not for ever. `CooldownCutByLate` names who can end the cooldown early.
`ProbesBounded` is what the limit of `services/circuit_breaker.py:76` amounts to: a second caller
that had read `was_open` sets the count to zero again, and those let through before are forgotten.

`LifecycleSafety`. `HistoryIsTrail` relates all history rows and the status;
`TransitionAppliedOnce` and `OkIsTrue` relate what a request was told to what happened,
across retries; `ClosedIsFinal` covers RCAs that arrive while another request closes.
`RcaRowsBounded`: a retried RCA is stored again, but no attempt stores it twice.

`DedupRaces`. `NothingUncounted` is about the race losers: the count of an incident is
at least the window it was opened with together with every signal attributed to it later.
The opener is excepted, since a slow task may find its own window member trimmed by
another one; the run found that. `CountedTwiceBounded` is the converse. The count is not the number of the
signals: with two tasks both ZADDs may come before both ZCARDs, the winner inserts a `window_size` that holds the signal
of the loser, and the loser counts it again (`services/ingestion.py:308`, or 229 if it finds the incident cached by then). No
failure is needed. The property says how far this goes: the count exceeds the signals of the window and those credited
to the incident by no more than the tasks that were at work on a member of the window when the row was inserted, the redeliveries
and the failures. Each of the three has been seen to be needed. `SeverityCovers` is about the signals attributed to an
incident; the severities of the other members of the window it was opened with never reach it. `OpenersFinish`: whoever creates an incident goes on to
cache, link and alert for it, or failed. `ImplementsLedger` is the refinement: an incident is opened by a window of at
least the threshold, although the window that was counted may be trimmed and deleted before the creation, and while
none is active; later it counts one signal at a time.

`DedupBurst`. `BurstBecomesIncident`: while there is no incident, the window does not stay full. It does not count on signals
that are still to come, since a call that fails takes the rest of its batch with it (`services/ingestion.py:115-131`, and the
buffer is cleared at 85): the burst has to have a signal to spare in the window for each call that failed. With a
window that is just full and one failure no incident follows; TLC shows that when `failed` is left out of the property. It also
shows why the comparison with the threshold has to be >= and not =.

`CacheStaleness`. `ImplementsListService` is what the 10 s of `docs/API_DOCS.md:97` amount to: a list that is
answered was in the database no longer ago than the TTL and the duration of one read, whatever was written,
deleted or failing in between. Each tick forgets the latest answer, so that a repeated one has to be young enough again.
`StaleForAReason` names all the ways a copy gets behind the database: a read that a deletion
overtook, a creator (which deletes before it commits), an operation cut off after its commit, a
deletion still to come. `EventuallyFresh`: none of them lasts.

`LiveConnections`. `InOrder`: although elements are removed before the loop's place and appended
behind it, no client is sent an event twice or after a later one. `PassedOverBounded`: the loop
misses at most one live connection for each that leaves the list before its place. `OneChain`:
the onclose of a socket the cleanup closed connects again, so a page that was left stays connected; but
however failures, cleanups and timers interleave, sockets and timers of a page never multiply or
die out.

`DashboardUpdates`. `BehindForAReason` is the converse of a wish list: a mounted page that does not show
the database has a load under way that will, or an event to come, or one of five things
went wrong since it last did. `CatchesUp` is its liveness half. `Settles`: when failures end, every page
is registered again and every registered connection is alive, under the fairness below.

### Disagreements found

Each is a run that TLC ends with a counterexample.

* **A failed batch is stranded** (`PipelineStranded`). `services/ingestion.py:127` says that
  its signals "will be recovered or retried". The buffer is cleared and only the start of
  a worker process ever looks into the processing list. With docker-compose's
  `restart: unless-stopped` a process that keeps running keeps them there.
* **Probing gets stuck** (`BreakerStuckProbing`). HALF_OPEN has no TTL and its two probe
  calls are granted once. If they fail after the earlier failures have expired (60 s; the
  `was_open` flag lives 90 s) they do not trip the breaker, and every later call is refused
  for good. `services/circuit_breaker.py:6-7` says that probing "ensures safe recovery".
* **Closed incidents are counted up** (`DedupClosedCached`). Closing does not delete the
  debounce key, which `services/ingestion.py:193` takes for the active work item.

Properties that hold say what becomes of further statements, which are true with exceptions only:

* `services/queue.py:121-122` says that redelivered signals "are safely deduplicated". The MongoDB
  document is; the count of the incident is not. `OverCountingBounded` bounds how often a signal is delivered and resolved, and
  `CountedTwiceBounded` what redeliveries add to a count.
* `services/ingestion.py:303` takes a conflict for a worker that "created it first" and adds one to its incident. The signal is
  counted twice if the window of that incident holds it already, without any failure or redelivery; `CountedTwiceBounded` again.
* `worker.py:15-16` says that recovery moves signals stranded by a previous crash, and `worker.py:7`
  recommends several processes. The processing list is shared, so a starting process requeues what
  running ones are working on, and it is processed twice. `NoSignalLost`, `NoMultiplication` and `OverCountingBounded` hold
  all the same, in runs with two processes.
* `docs/BACKPRESSURE.md:104` promises 30 seconds without attempts. A caller that reads the state
  before a trip and `was_open` after it replaces OPEN by HALF_OPEN, and the success of a call
  admitted before the trip closes the circuit. `CooldownCutByLate` says that nobody else does.
* `docs/API_DOCS.md:97` gives the cached lists ten seconds. An answer may be older by the duration of a
  read: the TTL starts with the SETEX, which may come after the deletion meant for its list.
* `docs/RCA_FLOW.md:162` ("User sees updated incident") and `docs/PROMPTS.md:156` end a write at the
  dashboard. Without any failure a page may stay behind because it missed the event (it was not
  connected, not yet in the list, or passed over), because the load it made was answered from a
  cache filled late, or because an older answer came last; with one, because a load
  or the PUBLISH failed. Each of the five alone has been reached with TLC. Nothing but the next event repairs it:
  `onopen` loads nothing.
* "WebSocket reconnection failed after max attempts" (`src/frontend/src/pages/Dashboard.jsx:65`) is
  never logged, since `reconnectAttempt` is 0 in every handler; a page reconnects for ever,
  a second after each loss, also when it was left. In the development build that docker-compose runs, each
  mounted dashboard holds two WebSockets for good and loads twice for each event (`OneChain`
  with `EffectRuns = 2`).

Reading the code for the models showed further ones that need no state exploration:
a full queue is answered 429 by the throttle before the 503 of `README.md:115` can
apply; `flush_batch` drops the id `resolve_work_item` returns, so that only signals of the
window are linked to their incident (`docs/ARCHITECTURE.md:23` says all are); the classifier's
upgrade stays in MongoDB; `IntegrityError` is a `DBAPIError` and is retried
(`docs/BACKPRESSURE.md:140` says it is not); the loser of a creation race announces, links
and alerts as well; a transition whose commit outcome was lost may be answered 409 after
it was made; `store_failed_signal` and `process_signal` have no caller.

### Bounds

Symmetry is used for envelopes, tasks and processes in runs without liveness.

* `PipelineSafety`: three signals, two processes of one task each, batches of two, throttle at
  depth one, queue of two, two failures of any kind, two envelopes moved by recovery. Two signals are
  needed for a batch that is half done, the third for a request racing a full queue; two
  processes for recovery against work; two failures for a failure during the recovery from
  a failure. `MaxMoves` keeps two recovering processes from passing envelopes round for ever; when
  it is reached a recovery stops in the middle of its loop, which is why this run does not
  check for deadlock.
* `PipelineLiveness`: one process of two tasks, two signals, two failures.
* `Breaker...`: one tick is 30 seconds, the breaker's recovery timeout; the grace of 60 s is two, the
  failures' TTL two. Threshold 2 (5 in the code) is enough for a streak; `BreakerStuckProbing` has the two half-open calls of the
  code, `BreakerConcurrent` one, so that two callers can be one too many. They interleave at every command. A call lasts at most one tick in the concurrent
  runs.
* `LifecycleSafety`: four requests with two attempts each (three in the code). `Workload` gives them
  the three transitions of a life and any fourth operation, or two transitions and two RCAs of
  different length (0 minutes is refused by the schema). Four is what closing an item takes; a request whose commit outcome was lost
  comes back when others have closed the item, which is the late RCA or the repeated transition
  the properties are about. A request need not be made, so fewer requests are covered as well.
* `CacheStaleness`: two readers, so that one may store its list after the other; one
  writer at a time, with two writes and one error. A TTL of two ticks lets a copy age and a
  read last one tick, half of it. An instance with one reader and two writers at once passes as
  well, and the theorems below hold for any number of either.
* `LiveConnections`: one page of two effect runs, four sockets (two chains, each with a socket being replaced
  while its successor connects, or two dead ones the server has not noticed), two events, two failures.
  With three or four connections in the list one can leave before the loop's place and another be
  passed over. `Pages` counts mountings, which interact only through the list. A page is mounted once and need not be
  left, and events stop at the bound, hence no check for deadlock here or in `DashboardUpdates`.
* `DashboardUpdates`: one page, one effect run, two sockets, two writes, two failures. Two writes make two loads
  that can overtake each other, one failure a reconnection during a write, two a reconnection that fails. Instances with two effect
  runs (one write, one and two failures) pass as well; with two writes TLC needs longer than a run may take.
* `MaxReconnectAttempts` is one in both (five in the code): with two failures a handler that saw the attempts that were made,
  and not those of the first render, would come to the maximum and give up, as the mutant `OnCloseCounting` does.
* `Dedup...`: a threshold of two (100 in the code), three signals, two tasks, two attempts, one
  failure; `DedupRaces` has one close, `DedupBurst` two deliveries of each signal. The third signal races with the creation or meets the closed
  incident. The behaviour ends when the deliveries are done, hence no check for deadlock, as in
  `LifecycleSafety`, which ends when all requests are answered.

### Fairness

Liveness is checked under weak fairness of what asyncio and the operating system
run without being asked to: the steps of a request that has begun (`Request`), of the tasks
(`Work`), of a worker process (`Process`, in which `Start` after a stop is the restart policy of
`src/docker-compose.yml:82`). Failures, crashes and shutdowns have no fairness and are
bounded in number. `PipelineLiveness` leaves out database and Redis failures because of the stranding
above. In `CircuitBreaker` time passes and calls keep coming; in `IncidentDedup` the
tasks go on with the signal they have, and no signal need be delivered; in `WorkItemLifecycle` a request takes
its next step, an error or not. In `DashboardCache` time passes, and requests and operations
that have begun go on; none need begin. In `LiveUpdates` asyncio runs the listener and the endpoints, and
the browser its socket events and timers; publishing, mounting, leaving and failing are free. In
`LiveDashboard`, besides, an operation that has committed publishes, and the requests of a page are answered. The
listener has no fairness that would start it again once it is down: the code does not.

## 4. What is proved

For all values of the constants that satisfy the named assumptions, any number of
signals, tasks, processes, callers, requests:

| Theorem | Statement |
|---|---|
| `SignalAtHandProofs!CountBounded`, `OnlyFailuresStrand` | `[]OverCountingBounded`, `[]StrandedByFailure` |
| `SignalPipelineProofs!TypeCorrect`, `FlushIsDisciplined`, `AcceptedNotLost`, `NeverMultiplied`, `OnlyHandledAcked`, `QueueBounded`, `DeliveryImplemented` | `[]TypeOK`, `[]FlushDiscipline`, `[]NoSignalLost`, `[]NoMultiplication`, `AckOnlyHandled`, `[]AdmissionBound`, `ImplementsDelivery` |
| `CircuitBreakerProofs!TypeCorrect`, `OpenAlwaysExpires`, `CooldownCutOnlyByLate`, `ProbesAreBounded` | `[]TypeOK`, `[]OpenExpires`, `CooldownCutByLate`, `[]ProbesBounded` |
| `WorkItemLifecycleProofs!TypeCorrect`, `ClosedOnlyWithRca`, `HistoryTrail`, `ClosedStaysFinal`, `TransitionsApplyOnce`, `OkTellsTheTruth`, `RcaRowsStayBounded` | `[]TypeOK`, `[]ClosedHasRca`, `[]HistoryIsTrail`, `ClosedIsFinal`, `[]TransitionAppliedOnce`, `[]OkIsTrue`, `[]RcaRowsBounded` |
| `IncidentDedupProofs!TypeCorrect`, `AtMostOneActive`, `NothingGoesUncounted`, `SeverityAlwaysCovers`, `CountedTwiceForAReason`, `DeliveriesWriteOnce`, `CreatorsFinish`, `LedgerImplemented`, `LinksAreFinal` | `[]TypeOK`, `[]OneActive`, `[]NothingUncounted`, `[]SeverityCovers`, `[]CountedTwiceBounded`, `[]OneWritePerDelivery`, `[]OpenersFinish`, `ImplementsLedger`, `LinkIsFinal` |
| `DashboardCacheProofs!TypeCorrect`, `NeverTooStale`, `ListServiceImplemented`, `AlwaysForAReason` | `[]TypeOK`, `[]StalenessBounded`, `ImplementsListService`, `[]StaleForAReason` |
| `LiveUpdatesProofs!TypeCorrect`, `EventsInOrder`, `PassedOverAtMost`, `OneChainForAPage` | `[]TypeOK`, `[]InOrder`, `[]PassedOverBounded`, `[]OneChain` |
| `LiveDashboardProofs!DashTypeCorrect`, `NeverBehindWithoutReason` | `[]DashTypeOK`, `[]BehindForAReason` |

`FlushDiscipline`, `OpenExpires`, `StalenessBounded`, `OneActive` and `LinkIsFinal` are not among the runs'
properties: they are parts of the arguments below, follow from what the runs check (`ImplementsLedger` has an incident opened
only while none is active, `ImplementsListService` answers only lists that are young enough), or from one
guard (`LinkIsFinal`). `OneWritePerDelivery` is a theorem only: it says of deliveries what no row shows.

*No signal lost.* `NoSignalLost` alone is not inductive: a request still waiting for
the reply of its push must be covered (`NoPushLost`), an acknowledgement is harmless only
because the whole batch has been stored and resolved (`FlushDiscipline`), and a starting
process resets tasks only because they are off (`OffWhileDown`). `PipelineInv` is the
conjunction; `PopHolds`, `MoveHolds`, `AckHolds` and `PushHolds` say what each movement between the
lists keeps. Nothing in the argument needs one process, one task per process, or a bound
on failures.

*Copies, the queue's bound, and delivery.* `StepCopies` says what any step does to the number of copies
of an envelope: nothing, one more with a push, or fewer of a handled one. `NeverMultiplied` and
`OnlyHandledAcked` follow. `QueueBounded` needs `PushesOfReq`: an envelope has not been pushed before
its request comes to it, so that a second push is one that timed out. `ImplementsDelivery` needs
`DeliveryInv`, which adds `KnownInv`: what a worker has popped or buffered was pushed, and what was
counted is stored. Then a first push is an `Accept`, a count a `Process`, an acknowledgement
a `Settle` of the envelopes whose last copy it takes, and every other step a stutter.

*What is at hand.* `OverCountingBounded` is an account kept for each envelope (`Budget`). A push or a move by
recovery is an entry, and an entry pays for one count and one more for each failure. What is not spent is in
the queue, or at hand of a task and not yet resolved by its flush (`Pending`). A pop moves an envelope from the
queue to a hand (`BudgetPop`), a resolution spends it (`BudgetCount`), and a failure may make all that is at hand pending once
more, which is why those at hand and in the queue must be no more than the entries
(`BudgetFault`). `HandShrinks`, `HandBuffered`, `HandPopped` and `HandResolved` say what tasks do to their
hands, and `PoppedInv` that a popped envelope is not at hand twice. The bound is a product of two variables,
which the provers multiply out with `TimesMonotonic` and `TimesSuccessor` only. `StrandedByFailure`
follows from the same account of hands: a pop adds a copy to the list and to a hand, an acknowledgement takes at
least as many from the list as from the hand (`UnackedAcked`), and recovery only takes from the list.

*The breaker.* `OpenExpires` is inductive together with `TypeOK`: only `Trip` sets OPEN, with a
TTL, the two other writers of the key remove the TTL with the value, and `Tick` removes
both at once. `CooldownCutByLate` needs `CooldownInv`: while the circuit is OPEN the time since the
trip and the TTL add up to the cooldown, and whoever is under way began before the trip.
`ProbesInv` says that the probes not forgotten are no more than the count, nor than the limit: INCR is atomic,
a caller that is cut off only leaves, and a count set to zero forgets everybody under way.

*The lifecycle.* The row invariant `RowInv` adds to the properties that a request past its
schema check has a positive length (`RcaChecked`). That a transition is applied once needs
`AppliedOnce`: once the item has passed a request's target it never comes back to where that
transition is possible, which is stated with the rank of a status. `DoneInv` says of every
request past its commit what `OkIsTrue` says of answered ones. `RcaRowsBounded` is not inductive, as a row is stored after
its attempt has begun: in `RcaInv` an attempt pays for one row, stored or still to be stored (`Storing`), and
`Retry` begins a new one only after the old one has ended.

*Deduplication.* `WorkInv` adds to the types that a task at work has a stored signal and, past
the steps that look for one, the id of an incident. `ItemSteps` shows that the rows change in
three ways only, whose effects `InsertEffect`, `CountEffect` and `CloseEffect` state; `ItemsGrow`
draws the conclusion that rows stay, get worse and count up. `NothingUncounted` and `SeverityCovers`
are not inductive, since a signal is counted steps before its incident is returned: `CountInv` and
`CoverInv` also cover the tasks that have counted a signal and not yet returned (`Credited`).
`TaskKeeps`, `TaskCredited`, `OthersKeep` and `TaskReturns` say which steps change who these are.
A creation credits its opener only; a count credits one signal and adds one to the count.

*What is counted twice.* `RowPaid` is the inductive form of `CountedTwiceBounded`: the count and the tasks that have still to
count (`Charging`) are no more than the signals known (`Known`: those of the window, those credited, and those of these tasks), the
racers, the redeliveries and the failures. A task that counts leaves `Charging`, and its signal stays known, since it is
credited; a failure pays for a signal that is forgotten or counted in vain (`TaskPays`). A delivery adds a task, and a signal that
was not known or else, by `SeenInv`, a redelivery (`ReceivePays`). When a row is inserted the other tasks at work are racers or have signals
outside of its window (`NewRowPaid`); of the latter, two with the same signal are paid for by a redelivery, which is `SpreadInv`.

*Deliveries, openers and the ledger.* `OneWritePerDelivery` says that a delivery makes one insertion or increment at most, whatever is
retried. It is not a bound on the counts, as an insertion counts a whole window. In `ChargeInv` a delivery pays for one write, made or still to be made by a task,
and a failure for the one whose outcome it hides. `WritesSteps` shows that only an insertion
and a count write, once each; `CreateOutcomeLost` and `IncrementFails` leave the task charging and pay with the failure.
`OpenersFinish`: an inserted row is in the hands of its opener (`CreatedCarried`), which no step of another task and
no step of its own but the return and a failure takes from it (`TaskPersists`). The refinement needs `SizedInv`: a task that
may create has counted a full window, which it keeps through every retry although the key may be gone by then;
`InsertOpens`, `CountCounts` and `CloseCloses` map the three ways in which rows change to the steps of `IncidentLedger`.

*The cache.* `StalenessBounded` is about the copy, which a reader made from its rows: `RowsInv` says of
these what it says of the copy, with `held` for the age, and `CurrentIsNew` that the current
version has not been retired; `AgeInv` is the conjunction. Since versions age by at most one a tick,
as reads and copies do, it is inductive, and with it every answer is a step of `ListService` and
everything else a stutter. `ReasonInv` adds the reasons (`Excused`) to the rows of readers not yet
overtaken; `WriterKeeps` says that an operation takes a reason back only by deleting the copy.

*Live updates.* `ListInv` says that connections in the list are those of open endpoints, so that
none is registered twice. `EventInv` orders the events: those in the channel are later than the one
being broadcast, and that is later than any a connection from `next` on has got.
`PassedOverBounded` is not inductive, since after a removal the loop's index may point past the end
of the list, and a connection appended then is passed over although it was not there:
`LeftInv` adds `Overrun`, the number that may still come. `OneChain` needs only `OwnerInv`, a socket in
use has a page; `ConnectChain` and `OnCloseChain` move one unit between sockets and timers.

*The dashboard.* A step of `LiveDashboard` is one of `LiveUpdates`, a stutter or an error elsewhere
(`DashStep`), so `ListInv` and `EventInv` carry over. `ViewInv` adds that no load was answered with a version
to come. `BehindForAReason` is then inductive: `ExpectedOrMissed` says that an event a page expects is
expected after the step, or was heard, or is a reason; and one that is heard starts a load.

Assumptions are `PipelineAssumption`, `BreakerAssumption`, `LifecycleAssumption`,
`DedupAssumption`, `CacheAssumption` and `LiveAssumption`; they give types to constants, and positive thresholds and attempts. TLC evaluates them in
every run.

Only model-checked: everything under fairness (`EventuallySettled`, `OpenEnds`,
`EveryRequestAnswered`, `BurstBecomesIncident`, `EventuallyFresh`, `CatchesUp`, `Settles`), which is out of the prover's reach together with
ENABLED. Every invariant, action property and refinement of a passing run is a theorem.

## 5. What is not modelled, and the plan

Not modelled: alerts, the AI suggestion, analytics and authentication (stateless), the
classifier (a maximum of two ranks), metrics (nothing depends on them), configuration,
health checks, scripts, the pages of the frontend other than the dashboard, and the token its
`api.js` caches. Redis is taken to keep its data and to execute commands
one at a time; PostgreSQL to keep committed rows and serialise on locks and the unique index.
An envelope that can never be parsed is one `DequeueError`, not a kind of signal. In
`LiveDashboard` a cached answer is as old as it likes: `DashboardCache` has the time.

The modules were written in the order of what matters most: delivery, the breaker,
the lifecycle, deduplication, the cache, live updates and the dashboard. Next, in order:

1. Start-up of several processes (`init_postgres`), and envelopes that never parse.
2. A composition of `SignalPipeline` and `IncidentDedup`: what redelivery does to counts.
3. The token of `api.js` under overlapping requests.
