# Verification of azure-telemetry-llm

TLA+ models of the telemetry pipeline in `src/`, checked with TLC on small
instances, with proofs checked by TLAPS for every value of the constants.
`PROJECT.json` maps every definition to the source lines it stands for and lists
the runs, the mutants, the findings, the hazards and the theorems.

## 1. The system

A container runs `generator/runner.py`. Its main thread generates synthetic LLM
requests in batches, publishes a START and an END envelope for each to Azure Event
Hubs, records metrics, logs, spans and prompt audits, and may hand the response to
a judge model. Several other threads live in the process: librdkafka's, a health
HTTP server, a metrics/log HTTP server, the evaluator's pool, the log store's
worker, one audit thread per prompt, the pod simulator and its timers.

| part (source) | state | operations | what is hard | what makes it right |
|---|---|---|---|---|
| publisher (`observability/publisher.py`, `generator/kafka_publisher.py`) | mode, producer; librdkafka's queue and reports | construct, publish START/END, flush | retries on a full queue, reports served only by polls, a silent broker, a flush that times out | no duplicate, an answer that is true, calls that return, no mock in strict production |
| runner (`generator/runner.py`) | `_running`, batch counters, lazily built singletons | boot, batch, sleep, SIGTERM, exit | exceptions at any point of the loop body, a signal at any moment, a killed container | counters that add up, a clean report that means what it says, a timely and complete stop |
| health server (`generator/health_server.py`, probes of `infra/containerapp.template.yaml`) | heartbeat record | heartbeat, `/healthz`, `/readyz`, `/status` | snapshot then answer, a stepped wall clock, a main thread that hangs | no restart of a live runner, a restart of a dead one |
| evaluator (`generator/evaluator.py`) | client, enabled flag, daily token tracker, pool | maybe_evaluate, pool threads | date read before the lock, one client for all threads, a failing back-end | the daily budget, every call ends |
| synthetic generator (`generator/synthetic_generator.py`) | sessions, users, anomaly windows, daily spend | generate_event, maybe_inject_anomaly, budget status | state changed across one long function, windows read without their end, midnight inside an event | stable users, windows that end, spend that agrees with what was published |
| prompt audit (`generator/prompt_logger.py`, `generator/pii_scanner.py`) | the scanner's engines, one daemon thread per record, blobs, local file | scan, log_prompt, upload | one blob name for many records, an engine built half-way, fallback on failure, exit with threads running | no finished record lost, no blob rewritten, nothing known leaves unredacted |
| log store (`generator/log_store.py`) | bounded queue, one worker, SQLite file | save, worker, queries | two first callers, worker death, publish inside the transaction, full queue, restart | one worker, table and hub agree, lines in order |
| log buffer and runner HTTP (`generator/telemetry_log_buffer.py`, `telemetry_log_handler.py`, `runner_http.py`) | three bounded deques | append, read | several reads for one answer, with writers in between | a consistent answer |
| OpenTelemetry (`generator/otel_*.py`) | init-once flags, the last queue depth | set-up, record | an instrument that raises half-way | instruments in step |
| pod simulator (`generator/pod_metrics_simulator.py`) | replica counts, pod phases | tick, recovery timers, load signal | a timer set for an older tick, a tick that raises | gauges that agree, replicas that follow the load |
| dashboards (`dashboards/generate_dashboards.py`) | panel counter | nine builders, layout | offsets added in four places, variables per dashboard | no overlap, no panel lost |
| line formatting, envelope, Azure Function, infrastructure, scripts | none | | | |

How they interact: the runner calls everything else from its main thread; the
publisher shares a queue with librdkafka's thread; the health server shares a
locked record; the evaluator, the audit logger and the log store take work from
the main thread and finish it on their own; the pod simulator takes a load signal;
every thread logs through the root logger, whose capture handler fills the buffers
that the runner's HTTP threads read. The log store is not called by any module of
the running service, only by its test, and is modelled for callers to come.

## 2. Modules

| module | models |
|---|---|
| `EventHubPublisher` | the publisher's caller thread, step by step, against librdkafka and the broker |
| `EventOutbox` | what the publisher promises: accept or refuse once, store or give up |
| `PublisherRefinement` | the publisher implements the outbox |
| `Runner` | `main` and `run_one_batch`, composed with `EventHubPublisher` (it extends it) |
| `HealthServer` | heartbeat, liveness handler, wall clock, platform probe and restart |
| `Evaluator` | evaluator calls on the pool, the daily tracker, midnight |
| `ClientProfiles` | the clients the modules about the generator share |
| `Sessions` | the generator's sessions, turns and users, with their caps |
| `ModelRouting` | routing, anomaly windows and spend of a request, under two clocks |
| `EventAssembly` | the arithmetic of one event: tokens, phases, cost, mock enrichment |
| `PiiScan` | the two scanning engines as operators |
| `PromptAudit` | the audit logger on top of the scanner, its threads, blobs and file |
| `LogStore` | callers, queue, worker, transaction, restart |
| `LineLog` | what the log store promises: a bounded waiting room and a log |
| `LogStoreRefinement` | the log store implements the line log |
| `TelemetryLogs` | logging handlers, ring buffers and the HTTP threads that read them |
| `Telemetry` | the runner's telemetry, composed with `TelemetryLogs` (it extends it) |
| `PodSimulator` | the simulated autoscaler and its recovery timers |
| `DashboardBuilders` | the nine dashboards: positions and template variables |
| `DashboardLayout` | how a dashboard is put together |
| `Runner_proofs` | theorems about `EventHubPublisher`, `PublisherRefinement` and `Runner` |
| `Generator_proofs` | theorems about `ModelRouting`, `Sessions` and `EventAssembly` |
| `Pods_proofs` | theorems about `HealthServer` and `PodSimulator` |
| `LogStore_proofs` | theorems about `LogStore` and `LogStoreRefinement` |
| `Telemetry_proofs` | theorems about `TelemetryLogs` and `Telemetry` |
| `Dashboard_proofs` | theorems about `DashboardLayout` |
| `Evaluator_proofs`, `PromptAudit_proofs` | theorems about `Evaluator`, `PromptAudit` (with `PiiScan`) |
| `MC_*` | instances for TLC |

### EventHubPublisher

`pc` is the caller's place in `_publish_envelope` or `flush`, `attempt` its loop
counter, `answer[e]` what the call for envelope `e` returned. Every branch of the
loop is an action: `ProduceAccepts` (then `PollAfterProduce`, True),
`ProduceFindsFull` (BufferError: `Drain`, sleep, next attempt; also after the last
one), `ProduceRaises` (KafkaException: sleep, or False at once on the last attempt),
`WakeUp`. `Flush` ends in `FlushDrained` or, after ten seconds, `FlushTimesOut`.

librdkafka and the broker are external: `queue` is what librdkafka owes,
`unserved` the delivery reports that no poll has served (they count against the
queue's limit until then), `stored` what the broker has persisted, `failed` what
librdkafka gave up on. A message may be stored and its acknowledgement lost. The
topic has no key, so the broker may store messages in any order. `poll(0)` is
modelled as not raising: the callback it runs only logs. An envelope is built once
with a fresh id, hence `Publish` needs `answer[e] = "new"`. A copy is
`<<envelope, n>>` with `n` the copies that existed before it, so that a duplicate
would be a second element and not vanish in a set.

### Runner

`rpc` follows the main thread. The event loop's body is `PublishStart`,
`PublishEnd`, then `EventCounted`; `EventRaises` is the `except` branch and can be
taken before START, between the two and after both. What the loop body does besides
publishing and counting (metrics, log lines, PII scan, audit, evaluator) changes no
state of this module: it is the source of those exceptions. The publisher's own
steps run while the main thread is inside it (`InPublisher`).

`flush_error` (runner.py 255-260) is dead code: `EventHubPublisher.flush` catches
every exception. Likewise `publisher_healthy` is true after any batch. Neither is
in the model. `Signal` clears `_running` at any moment, `Restart` is a kill or a
start after exit, `ProducerDies` is the queue of librdkafka ending with its process.

### HealthServer

One tick is ten seconds in the instance. `age` is what `time.time()` and the stored
time give, `silence` is the true time without a heartbeat (history). The handler
takes its snapshot (`ProbeSnapshots`) and answers later (`ProbeResponds`), with
heartbeats possible in between. `StepClock` is a correction of the wall clock. The
start-up probe and the initial delay are an arbitrary first timer. The container
template points its readiness probe at `/healthz`, so `/readyz` restarts nothing.

### Evaluator

`MaybeEvaluate` submits a sampled call; the pool's queue is FIFO, but calls are not
told apart, so it is a count. A thread builds or finds the client (`GetClient`; a
failure disables the evaluator for good), reads the date (`ReadDate`), enters the
tracker's lock (`Consume`) and waits for the judge (`CallReturns`). `day` is the
real date, `today[w]` the date thread `w` read. `charged[d]` (history) counts a
charge for the date its thread had read, the reading that favours the code.
`crossed` (history) records that some thread met a tracker with a later date than
its own. Scores and prompts are left out.

### Sessions

Sessions are numbered in the order of their creation. `active`, `turns`, `meta` and
`userOf` are the four tables of the source; `userOf` is a sequence of pairs because
its cap evicts the oldest entry. `Continue` is one `generate_event` that goes on with
a session, in the code's order: a turn, perhaps the close of the session
(`LastTurn`), then the look-up of its user (`UserForSession`) on whatever the close
has left. `Open` is one that starts a session and, over the cap of active sessions,
closes the client's oldest. All of it runs in the runner's thread, so a whole event
is one step. `history` and `evicted` are history variables. The probability of
continuing, departments, system prompts and session costs are left out; a limit of
1 turn is not drawn by the code.

### ModelRouting

A request is two steps, `Route` (`_pick_model_for_client`) and `Complete`
(`_apply_anomaly`, error simulation, charge, enrichment), because both clocks may move
in between: `now` is `time.monotonic()`, against which windows end, `day` the UTC date
of the spend. `Inject` is `maybe_inject_anomaly`, `BudgetStatus` the status read after
each batch, which also resets the spend. `Complete` reads the clock once where the code
does so in `_apply_anomaly` and looks at the cascade flag and at the date a little
later: no property tells a tick or midnight between those two from one before or after,
and one before the step is in the model. All reasons for a preferred model are one
reason, `"preferred"`; the budget is the same for all clients; costs are small
integers. `charged` and `premium` (history) are what each client was charged on each
date and the part not routed `"cost_optimised"`. In mock mode `_enrich_mock_event`
computes `cost_usd` again after the charge, so that even a rejected request, which is
"not billed", may be published with a cost (`PublishedCosts`); its changes to display
fields are left out. The client of a rate-limit storm is read without its end, like
the degraded model, so a storm blames rejections until the next one.

### EventAssembly

`at` follows `generate_event` through its arithmetic: `Draw` (tokens clamped to the
window, latency from its parts), `SimulateError` (which rewrites latency and completion,
with the floors of its latencies), `Phases`, `ChargeEvent`, `Enrich`
(`_enrich_mock_event` with its three independent draws: `Streamed` takes 4 % of the
latency for the queue and at most 95 % for the stream), `Publish`. Draws are choices from
small sets; tokens, milliseconds and money are integers, so hundredths are rounded away. `told` (history) sums the
published costs of the current date. One client and one model: routing is
`ModelRouting`'s.

### PiiScan and PromptAudit

A text is a sequence of token kinds. `ScanRegex` runs the nine passes of
`_REGEX_PATTERNS` in order, each on what the ones before it left; `ScanPresidio`
replaces what the recognizers know; `PresidioOutcomes` has the singletons' three
states, the half-built pair included. US_PASSPORT and the other recognizers without a
pattern are represented by PERSON.

`ScanAndLog` is `scan_event_fields` and `log_prompt` up to the Loki line. `StartUpload`,
`UploadRefused` and `StoreLocally` are its ends: with a client a daemon thread gets the
record and the blob name of this date, or cannot be started; without one the local file
gets the record. `Upload`,
`UploadCollides` (`overwrite=False`), `UploadRaises` (before the service stored it or
after) and `FallBack` are the thread; `Exit` ends all threads at once. `unwritten`
(history) holds the records whose local write raised (`_write_to_local` swallows it) or
whose thread could not be started (the exception goes to the runner, which counts the
event as an error: `EventRaises` there).

### LogStore and LineLog

`pc[c]` is a caller's place in `_enqueue` and `start`: the unlocked look at `_started`,
the lock, the second look, the mark. `StartRaises` is a worker thread that cannot be
started: that raises before `_started` is set, the lock is released and the line is not
queued. After the mark `start` only logs, taking the settings to parse. `worker` and `hand` are the worker's place and
item. `ConnectRaises` ends it, because `_connect` stands before the `try`;
`WriteRaises` closes the connection without a commit and goes on. `Publish` comes
before `Commit`, as in the code. Both tables are one function `rows` from ids that are
never used again (AUTOINCREMENT); `Prepare` purges by age once per process. `fate`
(history) says what became of a line. `Restart` takes queue, worker and open
transaction and leaves `rows`, `published` and `lastId`.

In `LineLog` a line is taken or refused once, the head of the line is written or lost,
the log ages. The mapping counts the line in the worker's hands as the head of those
that wait, and a line as seen when its `put_nowait` was tried.

### TelemetryLogs and Telemetry

`emitting[w]` is the record a writer is inside of and the handlers still to come, so
that records of two threads pass each other between handlers as they may. `AppendStdout`
fills the rings under the buffer's lock. A request is up to three reads
(`ReadCount`, `ReadEntries`, `ReadStats`), each under the lock, none together. `told`
(history) is every telemetry record in buffering order.

`Telemetry` adds the main thread: set-up in `main`'s order, `EnsureOtel` at each batch
until it succeeds, `RecordMetrics` (one `try` around all instruments, so an exception
leaves the later ones out; `exception_count`, the last, is for errors only), the log calls of an event and `RecordDepth`. `append_plain`,
`append_raw` and the `record_*` functions of `plain_app_logs.py` are called by tests
only and are left out.

### PodSimulator

`sim` is the simulation thread's place in its tick: `Scale` (target, jitter, one step),
`Rebuild` (the phases), `SetAvailable` (the counts), then `Steady` or `RestartPod` for
each pod, `TickEnds`. `TickRaises` and
`RestartRaises` are exceptions, which `_simulate_loop` logs before it sleeps. A timer
carries its pod and the count of its tick; `Restore` writes both whatever the gauges
say. A timer needs 2 s and a tick 10 s, so `WakeUp` lets a timer be late by at most one
tick: it may fire at any point of that tick, also between `Rebuild` and `SetAvailable`.
`written` (history) says whether this tick wrote all its gauges, none or not all of them
(`"no"`), or all with a late timer writing over them or a timer that never started
(`"over"`). `GaugesAgree` is about the first kind, `LateTimersAreOffByOne` about the last
as well. What neither rules out, because the code does it: with two pods restarted in
one tick, the first timer reports all pods available while the second is still pending.

### DashboardBuilders and DashboardLayout

Each of `build_d1` to `build_d9` lists, per section, where its panels lie, and which
template variables the dashboard declares (its `FilterSet`). `Place` is the step of `build_dashboard_panels` for one section
(nested in its row when collapsed, beside it when not), `PrependNav` and
`AssignPanelIds` follow. The script's loop calls seven builders; `build_d2` and
`build_d8` are called by nobody and are laid out in the run as well, with every
dashboard of up to two sections from a small set of panels.

`WellFormed` is what the layout may expect of a builder: groups of panels that do not
overlap in themselves. It is
`BoardsAssumption`, and TLC evaluates it for all nine builders and for every generated
board. The loops are recursive functions from the number of steps taken: `Stacked`, the
layout after each section, and `RunningTotal`, from which both the count of panels and
the ids come.

## 3. Runs

| run | question | bounds |
|---|---|---|
| `pub` | honest answers; implements `EventOutbox` (no duplicates, no loss before librdkafka gives up); every call returns | 3 envelopes, queue of 2: the third call meets a full queue with reports served or not |
| `runner` | batch reports on all paths; stop after SIGTERM, at most one late batch, what exit drops | 2 events in 1 or 2 batches, queue of 1, 1 restart |
| `health_probe` | restarts only after silence; silence ends | the deployed 120 s / 30 s / 3 failures, one clock step of 130 s |
| `evaluator` | when and how far the budget can be overspent; every submitted call ends | 2 threads, 3 dates, 5 calls, one estimate larger than the budget |
| `sessions` | tables agree, turns are consecutive, who lingers, when a user changes | 2 clients, 4 sessions, 2 active per client, 3 user entries, 3 turns: both caps are met |
| `routing` | spend of its date, the budget rule's overshoot, the end of cascades | 2 clients, 2 models, 3 requests, 2 dates, windows of 1 tick in 2 |
| `routing_fallback` (violated) | fallback only while a model is degraded | same, 2 requests in 1 date |
| `log_store` | one worker, table against hub, implements `LineLog`, queued lines are settled | 2 callers, 4 lines (2 plain, 1 telemetry, 1 foreign), queue of 1, 1 midnight, 1 restart: two lines wait for each other and one is dropped |
| `prompt_audit` | redaction, no finished record lost, no blob rewritten | 3 records, 2 with one trace id, both engines, 1 midnight, threads that cannot start |
| `pod_sim` | types (replicas within limits), gauges between ticks, what late timers do to them, replicas follow the load | 2 to 4 replicas, 3 reports of no load or of much, timers on time or late by a tick: the load asks for fewer than the minimum and more than the maximum |
| `telemetry` | an answer of several reads; instruments in step | rings of 2, 2 writers, 3 records, 1 request: rings wrap round while a request is answered |
| `calculations` | phases and books of an event; tiling of dashboards | 2 events, tokens of 1 and 5 around a window of 4, times of 0, 15 and 70 ms around the floors 12, 20 and 50; all nine dashboards, and all of up to 2 sections |

`calculations` runs two sequential modules that share nothing, `EventAssembly` and
`DashboardLayout`, side by side in one state space: each behaviour is one or the other.

The bounds are the smallest at which each interesting case occurs: a full queue
needs one more envelope than the queue holds, a late batch needs two batches, one
crossing at midnight needs two threads and the worst case of a date two midnights, a
second worker two callers, a collision two records with one trace id, a gap in an
answer one more record than the ring holds. `OverspendIsBounded` is reached exactly in
`evaluator` (3 budgets with 2 threads), so its bound cannot be lowered.

`CHECK_DEADLOCK FALSE` stands where the system may stop: in `pub.cfg`, where a
publisher whose constructor raised does nothing more and one whose envelopes are all
published has no caller left; in the `sessions` configurations, where all sessions the
bound allows may be over; in `log_store.cfg`, where all lines may be saved and settled;
in `prompt_audit.cfg` after `Exit`; in `pod_sim.cfg`, where the thread may have died
while initialising; in `telemetry.cfg` and `calculations.cfg`, where the bound on events
or the list of dashboards is used up.

Counters are bounded in guards (`MaxEvents`, `MaxBatch`, `MaxRestarts`,
`MaxClockSteps`, `MaxDay`, `MaxNow`, `MaxJobs`, `MaxSessions`, `MaxTurns`, `MaxUpdates`,
`MaxRecords`, `MaxRequests`, `MaxAssembled`). The bound on events stands in the loop's
guard, so that a runner out of events can still be stopped; the last batch is no
larger than what is left.

### Fairness

* `PubFairSpec`, Runner's `FairSpec`: weak fairness of the caller's thread. The
  sleeps and poll timeouts are finite and no step waits for the broker. Nothing is
  assumed of the broker or the platform.
* `HealthFairSpec`: weak fairness of time, of the probe (the HTTP thread is a daemon
  thread of its own and takes the lock only for three assignments) and of the
  platform's restart. The main thread owes nothing: `SilenceEnds` is about a runner
  that may hang.
* Evaluator: weak fairness of each pool thread; the judge call ends because the
  client is built with `timeout=_EVAL_TIMEOUT_S`. No submission is owed.
* LogStore: weak fairness of the worker thread; SQLite's calls return (sqlite3 waits
  five seconds for a lock). Callers and the process owe nothing, so `AcceptedIsSettled` covers
  the worker's death and restarts.
* PodSimulator: weak fairness of the simulation thread, whose sleep is finite, and of
  the timers. The load may stop changing because `MaxUpdates` is a bound:
  `ReplicasFollowLoad` is about what follows a last report.
* The other modules have safety properties only.

### Disagreements between code and text

One has a run of its own, `routing_fallback`: routing reads `degraded_model` without
its end and nothing takes it down (synthetic_generator.py:809), while a degradation
"lasts 2-5 min" (line 623). `CascadeEndsOnTime` is what does hold, of cascades.

Seven more are stated as properties, each with a configuration that shows the
counterexample (`tlc -config <cfg> <module>`); they are not among the project's runs:

* `runner_metered.cfg`, `MC_Runner`, `PublishErrorsAreMetered`: a publish that answers
  False is counted in the batch summary and never in
  `ai_telemetry_runner_publish_errors_total` (runner.py:248), whose documented reasons
  include `produce_error` (docs/semantic-conventions.md:175).
* `runner_exit.cfg`, `MC_Runner`, `CleanExitLosesNothing`: a clean exit after a flush
  that timed out loses accepted envelopes (docs/HOW_IT_WORKS.md:591 "must not lose or
  duplicate billing events"). `FlushedExitDropsNothing` is what does hold.
* `health_hung_start.cfg`, `MC_HealthServer`, `HungStartIsRestarted`: the liveness handler
  reports "wedged" only for a process that has been ready, its comment says "has never
  become ready" (health_server.py:60-62). `SilenceEnds` is what does hold.
* `eval_midnight.cfg`, `MC_Evaluator`, `DailyBudgetHolds`: the date is read before the
  lock, so a late thread resets the tracker behind a thread of the new day
  (evaluator.py:102). `OverspendNeedsCrossing` and `OverspendIsBounded` do hold. (The
  tracker counts an estimate made before the call; the tokens the judge reports are
  never reconciled with it, line 236. The model counts what the tracker counts.)
* `sessions_user.cfg`, `MC_Sessions`, `UserIsStable`: the last turn of a session is given
  another user, because the session is closed before its user is looked up
  (synthetic_generator.py:565), while its comment says "stable for the session" (line
  397). `UserChangesOnlyAtTheEnd` and `OnlyFinishedLinger` do hold.
* `calculations_phases.cfg`, `MC_Calculations`, `PhasesSumToLatency`: the four phase
  durations "MUST sum to within ±5 ms" of the latency (docs/semantic-conventions.md:43;
  `test_latency_phases_sum_to_total`, tests/test_tracing.py:114, checks the four phases
  over 50 events). A response that streams has its streaming time as
  `model_inference_ms` too (synthetic_generator.py:740, 921), so the sum is above the
  latency by that time; a response shorter than its wait in the queue (l.929) or than
  the first token's floor is above it as well. `PhasesCoverLatency` says what does hold.
* `calculations_filters.cfg`, `MC_Calculations`, `FiltersAsExpected`:
  `DASHBOARD_FILTER_KEYS` in scripts/test_dashboard_filters.py:16 gives the executive
  board (line 18) and the cost board (line 21) the variables department, region,
  provider, model and environment. The builders declare operation and status too for the
  executive board (`FILTERS_D2`) and operation for the cost board (`FILTERS_D8`).

Two are stated in `PromptAudit` next to what holds instead:

* `WritersDoNotCollide` ("Each trace_id gets its own blob so concurrent writers don't
  collide", prompt_logger.py:145): the events of a batch share a trace id, so they do
  collide. `AuditIsFiled` and `WormHolds` are what do hold.
* `OriginalsOnlyInBlobs` ("never to stdout/Loki or local fallback", line 265): a record
  built for the blob carries the originals, and its thread falls back to the local file
  with that very record (line 165).

Others were met while modelling and have no property:

* an NHS number of ten digits is counted as PHONE, whose pattern comes first and
  matches it (pii_scanner.py:88, 96); so no NHS count is ever reported by the patterns;
* the Presidio entities are no "superset of what our regexes cover" (line 59): AWS and
  API keys are missing;
* `pii_entity_counts` spreads one dict over the other, so the response's count of an
  entity hides the prompt's (prompt_logger.py:241; `Merged`);
* a 4xx request is "not billed" (synthetic_generator.py:934), but the mock enrichment
  computes a cost for it again (line 758; `WithCacheReads`), so it is published with one;
* "each dashboard exposes only relevant variables" (generate_dashboards.py:87), but the
  environment filter of two dashboards narrows none of their panels, because log lines
  have no such label (what a query makes of a variable is not modelled);
* `refresh_once` "Returns True if both succeed" (scripts/refresh_azure_auth.py:156), also
  when Grafana answered with an HTTP error, which the patch function swallows.

## 4. Proofs

Theorems hold for every value of the constants that satisfies the named assumption
of the module:

| assumption | what it leaves open |
|---|---|
| `PublisherAssumption` | any finite or infinite set of envelopes, any positive queue bound |
| `RunnerAssumption` | any numbers of events, batches and restarts |
| `HealthAssumption` | any probe timings whose period is not longer than the staleness threshold |
| `EvaluatorAssumption` | any finite non-empty set of threads, any budget, any set of estimates |
| `RoutingAssumption` | any clients, models, budget and costs |
| `SessionsAssumption` | any clients and users, any positive caps, limits of two turns or more |
| `EventAssumption` | any tokens, times, floors, window, budget; a cache price no higher than the input's |
| `AuditAssumption` | any records, trace ids, dates, and texts of any length |
| `LogStoreAssumption` | any callers and lines, any positive queue size, any retention |
| `LogsAssumption`, `TelemetryAssumption` | rings of any positive size, any writers, records and requests |
| `PodAssumption` | any replica limits and loads |
| `BoardsAssumption` | any boards, with any number of well-formed sections and panels |

Each subsection's theorems rest on an inductive invariant (`PubIInv`, `HealthIInv`,
`SessionIInv`, `EventIInv`, `LogsIInv`, `BoardIInv`, elsewhere `IInv`), stated beside the
model or, for the dashboards, beside the proof.

### Publisher and runner

* `PublisherInvariant`: `PubIInv` is inductive. `OneCopy` alone is not: it needs that
  a call about to produce has no copy of its envelope yet (`CallIsOpen`) and that an
  unpublished envelope has none (`NewHasNoCopy`). `PublisherAnswers` reads the three
  safety properties off it.
* `PublisherImplementsOutbox`: initial states map to initial states, each step to a
  step of the outbox or to none. `ProduceAccepts` is `Accept`, `PollAfterProduce` is
  `Confirm`, the last `WakeUp` or `ProduceRaises` is `Decline`, `FlushTimesOut` is
  nothing; `OwedIsNotFailed` is what lets `BrokerStores` be `Store`.
* `RunnerInvariant`: the publisher's invariant is carried over by its own lemmas; the
  rest needs which publisher steps can run where (`CallHasCaller`), that a batch with
  no publish error has two yeses per event (`CleanIsComplete`), that messages are left
  outside the loop only after a timed-out flush (`FlushedOrWarned`), and that the late
  batch was past its loop test (`LateBatch`). `RunnerReports` and
  `RunnerExitIsFlushed` follow.

### Health server and pod simulator

* `HealthInvariant`: a failed probe is about a snapshot, so the invariant says how long
  a silence the snapshot saw given the failures counted before it (`SnapCovers`), and
  that since the last failure there was no heartbeat or too little time for another
  (`FailsCover`); a period no longer than the threshold is what makes the second case
  harmless. `NoRestartWithoutSilence` follows.
* `PodInvariant`: the gauges agree from the moment they are written, not only between
  ticks (`PodsInStep`, `AvailableInStep`): a fresh timer carries the tick's own count, so what
  it restores fits. A late one is of the tick before, whose count is next to this one's
  (`TimersNear`), so that phases and available count stay one off at most whatever it
  writes over (`PhasesClose`, `AvailableClose`). `PodTypes`, `GaugesAgreeBetweenTicks`
  and `LateTimersDisturbByOne` follow.

### Evaluator

* `EvaluatorInvariant`: without a crossing the tracker's date is the newest one charged
  and `used` is its charge (`TrackerInStep`). The worst case needs an accounting of
  the threads that can still cross: `Older(d)` may yet carry an old date into `d`,
  `Holding(d)` may carry `d` back in later days, and `OverspendPace` bounds what is
  charged by the crossings already used up. `BudgetHoldsWithoutCrossing`,
  `WorstCaseAtMidnight` and `EvaluatorTypes` follow.

### The generator

* `RoutingInvariant`: the budget rule is checked at routing and the charge comes later,
  so `RoutedUnderLimit` carries the check's outcome to the charge, with the date it was
  made on: a charge on a later date meets a spend of nothing (`LaterDaysUncharged`).
  `PremiumIsCharged` ties the history to the tracked spend. `SpendIsTracked` follows:
  the overshoot of a client is one request a date, across any midnight. `CascadesEnd`
  (`CascadeEndsOnTime`) needs no invariant: it follows action by action. `RoutingTypes`
  is type correctness.
* `SessionInvariant`: that the four tables agree needs more than it says. Closing a
  session removes its first place in a list, which removes it altogether only because
  it is there once (`ListedOnce`); forgetting its user likewise (`KeysDiffer`); a new
  session can be in none of the tables because numbers not yet handed out are nowhere
  (`FutureIsBlank`). What the last event said of an active session is what the tables
  hold, with a turn left (`HistoryIsCurrent`), and an active session has its user unless
  the cap on the user map took it (`ActiveHasUser`). `SessionTypes`, `TablesAgree`,
  `NothingLeaks` read properties of states off it; `TurnsCount` and `UserKept` those of
  steps: the next turn is one more than the last because the history is current, and the
  user changes only where an entry was gone.
* `EventInvariant`: each stage of `generate_event` leaves the next a relation: the
  latency holds the first token's time until the phases are split
  (`LatencyHoldsFirstToken`), the split covers it afterwards (`PhasesAreSplit`, kept by an
  enrichment that streams only successes), the total is taken again whenever tokens
  change (`TotalIsTaken`), and between charge and enrichment the cost is the one the
  spend holds (`CostIsCharged`), so that spend and published costs differ by that one
  event (`SpendIsTold`). `LatencyCovered` and `EventBooksBalance` follow; that the spend
  never exceeds the published costs is where a cache price no higher than the input's is
  needed.

### Prompt audit

* `AuditInvariant`: a record counts as filed once its thread is through, which holds
  step by step because a failed upload is not through before it has fallen back
  (`ThreadFiles`); `NothingFinishedIsLost` and `BlobsAreWrittenOnce` follow, for any
  number of records that share a blob name.
* `NothingKnownIsLogged`: a line keeps no token both engines know, and claims a
  detection exactly when it changed a text. The nine passes of the regex engine run one
  on what the other left. `PassesUnfold` writes them down one after the other (there are
  nine, whatever the text), and `OnePass` adds one to what is known of those before it:
  a place is replaced if and only if one of the kinds so far matches it, and something is
  counted if and only if anything was replaced. The Presidio engine replaces in one go; a scan that
  fails over to the other engine is one of the two.

### Log store

* `StoreInvariant`: that one worker runs needs to know who is inside the lock and that
  `_started` is not yet set there (`LockIsHeld`). Table against hub needs that every
  line is in one place, and which: with a caller (`CarriedIsCalling`), in the queue or
  in the worker's hands (`QueueIsQueued`, `HandIsFull`), or in the table
  (`RowsAreStored`), and that a line about to be committed has been offered
  (`WrittenIsOffered`). `StoreHasOneWorker` and `TableFollowsStream` follow.
* `StoreImplementsLineLog`: from the invariant, each step of the store is a step of the
  line log or none: `Put` is `Take` or `Refuse`, `Commit` is `Write`, both ways of
  failing are `Lose`, `Prepare` is `Age` or nothing, `Restart` is `Crash`. Taking the
  queue's head into the worker's hands leaves the waiting lines as they are
  (`HandAndQueue`).

### Telemetry

* `TelemetryInvariant`: the parsed ring is the end of the history of telemetry records,
  whatever the writers do and however often the ring wraps round (`RingsInStep`,
  `EndOf`); the other two rings are related to it by length only. What a request has read
  is a run of that history (`RequestInStep`, `RunOf`) and stays one while the history
  grows; later reads are no smaller than earlier ones because no ring ever shrinks.
  `AnswersAreConsistent` follows. `MetricsAddUp` is its own strengthening: an exception
  cuts the list of instruments short and never skips one. `MetricsKeepInStep` follows.

### Dashboards

* `DashboardsAreTiled`: `DashboardsAreLaidOut` says that each file
  is the layout of its board; the rest is about the layout. `Laid(ps, y)` is what every
  stage keeps: tiled, ending by line `y`, rows below what precedes them.
  `NormalizedGroup` gives a group that starts at 0 and is as high as `Height` says,
  `PlaceBelow` puts a section under what is there, `StackIsLaid` goes through all
  sections, `NavOnTop` moves them down by the bar, `NumberedKeepsLayout` and `NumberedOnce`
  give the ids: the span of each row's ids ends where the next one's begins
  (`TotalsCover`).
* The two recursive functions are reasoned about by induction over the set of numbers up
  to which a fact holds (`Induction`, from the well-foundedness of the naturals), which
  needs no operator as a parameter; that each function exists and unfolds is shown the
  same way (`TotalsUnfold`, `StackedUnfolds`).
* That the panels of one group do not overlap among themselves is assumed of a board
  (`WellFormed`), because it is data of the nine builders: TLC checks it for each of them.

### Only model-checked

Liveness (`CallsReturn`, `StopsWhenAsked`, `SilenceEnds`, `EveryCallEnds`,
`AcceptedIsSettled`, `ReplicasFollowLoad`) needs fairness and ENABLED, out of the
prover's reach. Every invariant and every action property of the passing runs is also a
theorem.

## 5. Not modelled, and why

* The text of log lines, attributes, spans, panel titles, thresholds and queries
  (`plain_app_logs.py`, `plain_stdout_formatter.py`, `metric_definitions.py`, much of
  `azure_logger.py` and of the builders): data without behaviour.
* The distributions of the generator, what the judge answers, and what a regular
  expression matches below the level of a token: not told apart by any property.
* `observability/envelope.py` and `semantic_conventions.py`: a record constructor and
  names. `function_app.py` calls `run_one_batch` once per timer event.
* The log store's queries, `/metrics`, `/telemetry/logs/raw` and `/demo`, `/readyz` and
  `/status`: single reads that change nothing.
* `setup_telemetry_project.py` (a scaffold that writes embedded files),
  `scripts/`, `validation/`, `infra/`, `azure/`: run once by an operator, I/O in a
  straight line, with no state between two steps.

## 6. Where to go on

1. The runner composed with its audit threads: what a clean exit leaves behind on the
   threads nobody joins (each side is modelled; the composition is not).
2. An abstract specification of the audit trail (a record is pending, then filed or
   given up) that `PromptAudit` implements, as the publisher and the log store have one.
3. The remaining builders' text: which metrics the queries of a dashboard name, against
   those the runner exports.
