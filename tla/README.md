# TLA+ models of the North Star data platform

The platform replays public taxi records as a live stream and answers the same
questions twice: a *hot path* keeps window metrics up to date while events
arrive, a *cold path* recomputes daily metrics from a data lake, and a model
quotes fares for the trips that arrive. This directory holds TLA+ models of the
parts whose correctness depends on ordering, failure and restart, the TLC
configurations that check them on small instances, and TLAPS proofs that every
invariant so checked, and the refinement of the hot path, hold for every value
of the constants. Liveness is checked and not proved.

1. [The system's parts](#the-systems-parts)
2. [The modules](#the-modules)
3. [The hot path](#the-hot-path-hotpath), [ingestion](#ingestion-ingest),
   [the fare model](#the-fare-model-predictor-and-dailyeval),
   [the cold path](#the-cold-path-coldpath),
   [files and adapters](#files-and-adapters-sources-and-adapters),
   [the dashboard](#the-dashboard-dashboard-and-alerts)
4. [What the runs show](#what-the-runs-show), and
   [where code and documentation disagree](#where-code-and-documentation-disagree)
5. [Met while modelling](#met-while-modelling): divergences no run is about
6. [What is proved](#what-is-proved), [what is not](#what-is-only-model-checked)
7. [What is not modelled](#what-is-not-modelled), and [the plan](#plan)

## The system's parts

| part | state it keeps | operations | talks to |
|---|---|---|---|
| simulator (`simulator/replay.py`) | position in the month files (memory) | read a month in pickup order, POST a row, retry on a transport error | gateway over HTTP |
| gateway (`gateway/`) | librdkafka's local queue (memory) | validate and adapt a row to a canonical trip, derive its event id, enqueue it, answer 202/422; flush on shutdown | topic `tlc-raw-events` |
| hot path (`hot_path/`) | open windows, watermark, last offsets (memory); table `trip_window_metrics`; committed offsets | poll, aggregate, finalize, liveness flush, commit, shut down | topic, PostgreSQL |
| fare model (`ml/train.py`) | two artifact files | sample the lake, fit, write the model, then its metadata | lake, predictor through the files |
| predictor (`ml/predictor.py`) | loaded model, batch (memory); table `fare_predictions`; committed offsets | load, poll, batch, score, upsert by event id, commit | topic, PostgreSQL |
| daily evaluation (`ml/sql/evaluate_daily.sql`) | table `ml_daily_eval` | recompute the errors of every quoted day | PostgreSQL |
| lake writers (`batch_jobs/jobs/bulk_load.py`, `stream_to_lake.py`) | day partitions of the lake | overwrite the partitions of the days they own: up to the cutoff from files, after it from the topic | raw files, topic, lake |
| daily aggregation (`aggregate_daily.py`, `sql/merge_daily.sql`) | one staging table, table of daily metrics | aggregate the lake into staging, merge staging into serving | lake, PostgreSQL |
| orchestration (`orchestration/dags`) | DAG runs, task states | backfill DAG, incremental DAG, daily evaluation DAG, each with retries | the jobs above |
| dashboard (`dashboard/`) | cached query results, the range a page was drawn with, what its fragments show | read, and evaluate alert rules | PostgreSQL |
| data fetcher (`data_fetcher/fetch.py`) | downloaded files and a `.part` | download months, skipping those present, with retries; report which failed | the web |

Three kinds of shared state connect them. The *topic* has one writer (the
gateway) and three readers: the hot path and the predictor, each with committed
offsets, and `stream_to_lake`, which reads it from the beginning. *Tables* are
written by upserts whose keys are meant to make redelivery harmless. *Files*
(lake partitions, the model's two files) are replaced in place without a lock.

What is hard in each, and what makes it correct:

* **Simulator and gateway.** A request may time out while the gateway still
  processes it; 202 is answered before delivery; the local queue is bounded and
  dies with the process. Correct means: what is accepted is delivered unless
  something was lost, in pickup order unless a request timed out, and
  the simulator's verdict on a row is the gateway's.
* **Hot path.** The open windows are in memory only; finalization, transaction
  and commit are separate steps and the process may end between any two.
  Correct means: the commit point never passes a window that is still open, a
  restart rebuilds windows in full, final rows are exact and stay, and
  everything becomes visible.
* **Predictor, trainer, evaluation.** Two files make one model; scoring, upsert
  and commit are separate; re-scoring rewrites quotes while they are evaluated.
  Correct means: committed trips have quotes, quotes name their model,
  re-scoring completes, published errors settle.
* **Cold path.** Two DAGs share the lake, its readers and one staging table.
  Correct means: no writer removes what another wrote, nothing is counted twice,
  a day's total is the sum of its zones, a finished backfill is visible, and the
  stream's days are shown in the end.
* **Files and adapters.** A fetcher may be killed anywhere, and everybody else
  recognizes a month by its file's name. Two adapters, one behind JSON and one
  in Spark, decide what a valid trip is. Correct means: files are whole, the
  exit code is true, a replay is a global sort, the paths agree on every record,
  each trip has one lake writer, and nothing learned is scored.
* **Dashboard.** It looks at tables that move, through caches and through a page
  that is drawn once and then only partly; charts that sit side by side come from
  queries made one after the other. Correct means: such charts do not contradict
  each other, and agree once the tables rest, an alert means what it says, and
  following live follows.

## The modules

| module | models | uses |
|---|---|---|
| `HotPath` | `consumer.py`, `windows.py`, `db.py` | |
| `Ingest` | `replay.py`, `producer.py`, the gateway's endpoint | |
| `Predictor` | `train.py` (its files), `predictor.py` | |
| `DailyEval` | `evaluate_daily.sql` beside all of `Predictor` | extends `Predictor` |
| `ColdPath` | both cold-path DAGs, the lake writers, aggregation and merge | |
| `LiveMetrics` | what the hot path promises a reader of its table | |
| `HotPathRefinement` | `HotPath` implements `LiveMetrics` | extends `HotPath`, instantiates `LiveMetrics` |
| `Adapters` | `clean_row`, `TLCTripInput`, `adapt_tlc`, `adapt_tlc_batch` as functions | |
| `Sources` | `fetch.py`, the order of `replay.py`, `bulk_load.py`, `stream_to_lake.py` and the sample of `train.py` over the same files | extends `Adapters` |
| `Alerts` | `alerts.py` as functions | |
| `Dashboard` | the queries, caches and page of `dashboard/` over what the other components write | extends `LiveMetrics`, `Alerts` |
| `HotPathProofs`, `IngestProofs`, `PredictorProofs`, `ColdPathProofs`, `LiveMetricsProofs`, `SourcesProofs`, `DashboardProofs` | theorems and proofs | extend the module they name (`DashboardProofs` `LiveMetricsProofs`, too) |
| `HotPathRefinementProofs` | theorems about the hot path on one ordered partition, the refinement among them | extends `HotPathRefinement`, `HotPathProofs` |
| `MCHotPath`, `MCIngest`, `MCDailyEval`, `MCColdPath`, `MCSources`, `MCDashboard` | small instances for TLC | extend the module they name (`MCHotPath` through `HotPathRefinement`) |

`Ingest` and `HotPath` meet at the topic: what `Ingest` shows of the topic's
order is what `HotPath` takes as `MaxDisorder`, the furthest a trip
may arrive behind an earlier one. `ordered` runs set it to 0, which
`OnlyTimeoutsReorder` justifies as long as no request times out.

In every module `Init` is the first start of an empty deployment, faults are
actions with a counter each, and the counters' limits are named `Max...` and
commented `bound:` at their declaration. Operators commented `Mutant:` are
variants of the definition that follows them with a plausible mistake in them;
no action uses one. Replacing the definition by its mutant makes TLC reject a
property, which shows that the property depends on that definition.

## The hot path: `HotPath`

Three variables are durable: `log` (the topic), `committed` (the group's
offsets), `table` (the rows of `trip_window_metrics`). The others are the
process's memory and are lost by `Exit`.

| variable | in the code |
|---|---|
| `windows` | `WindowStore._windows`: start -> cells and `min_offsets` |
| `watermark`, `last_offsets`, `late_events` | the fields of `WindowStore` of these names |
| `closing` | the list `closed` of `main()`: evicted from memory, not yet written |
| `position` | the consumer's fetch position |
| `pc` | where the loop stands: between iterations (`poll`), before `sink.write(closed)` (`finalize`), before `_commit` (`commit`), and the two halves of `finally` (`stopwrite`, `stopcommit`) |

Each action is one thing the outside can tell apart. A poll and the eviction
that follows it in the same iteration are one step (`PollTrip`, `PollLate`,
`PollPoison`, `PollNothing`): no other process can see the state in between.
The transaction (`WriteClosed`, `Flush`, `StopWrite`) and the commit (`Commit`,
`StopCommit`) are steps of their own, and `Crash` may come between any two. A
refused transaction (`...Fails`) raises out of the loop into `finally`, as in
the code. A commit request may succeed for any subset of the partitions. A
connection that breaks during a transaction that had succeeded is `WriteClosed`
followed by `Crash`: the second write of `finally` fails too and nothing is
committed.

A cell of a window is modelled by how often each message was added to it. Every
metric the code keeps is a sum over the events of the cell, so a loss is a 0, a
double count a 2, and no property needs the amounts.

*Bounds.* Three or four messages suffice for two windows that overlap within
the grace and a later event that closes the first; two stops for a crash during
the recovery from a crash; `Hour = 4` with times to 5 crosses an hour. Two
partitions with two messages each let one lag behind the other and one commit
fail alone.

*Fairness.* Weak fairness on the steps of the loop: the process polls, its
writes and commits return, the flush timer expires, and `restart:
unless-stopped` starts a stopped container. Producing and failing have none.

*A limit worth knowing.* `FinalRowsNeverChange` is checked within one life of
the process. A crash between the finalization transaction and the commit
redelivers the window, whose row is provisional again until it is rebuilt;
`PassedWindowsBecomeFinal` shows that it becomes final again, and
`FinalRowsExact` that it then has the same content, if events arrive in order.

*The promise.* `LiveMetrics` is the hot path as its readers may see it: somebody
reads the topic, now and then shows some windows, each as a count from scratch
of what was read, and after a restart goes back, but never before a trip that is
not yet in the final rows of its zone and of the city. There are no windows in
memory, no transactions and no commits in it. `HotPathRefinement` maps `read` to
the consumer's fetch position and the table to itself; `hot_ordered` checks
`ImplementsLiveMetrics` under every pattern of stops and lost commits, and
`HotPathRefines` proves it. The premises are those of that run: one partition,
pickup order, trips with a zone, no refused transaction. Without the second
`hot_rebuild`, and without the last `hot_failed_write`, show steps that
`LiveMetrics` does not have.

## Ingestion: `Ingest`

| variable | in the code |
|---|---|
| `row`, `attempt`, `waiting`, `outcome` | the replay loop's row, `post_row`'s attempt, whether a response is awaited, the counters of `main()` by row |
| `requests` | POSTs on their way: received, `full` between the two calls of `produce`, or answered |
| `gateway`, `queue` | the gateway's process (up, draining, down) and librdkafka's local queue |
| `topic` | what was delivered |
| `timeouts`, `gracefulStops`, ... | what went wrong so far, by kind |

The simulator sends one request at a time, but a timeout abandons a request
that the gateway goes on processing: `requests` may then hold several, and that
is the only way a row can pass another. A full queue is tried a second time
after a poll, as in `producer.py`. Delivery callbacks, which the code serves
from `poll`, are abstracted to the room that a delivery frees. The gateway may
shut down (its flush may run out of time), be killed, and be started again.

*Bounds.* Four rows (the second invalid) with two attempts each and a queue of
two let two timed-out requests overtake a retry and fill the queue; one of each
other fault, in any combination. *Fairness.* Each side's own steps, the
delivery of queued messages, and the restart of the gateway.

## The fare model: `Predictor` and `DailyEval`

| variable | in the code |
|---|---|
| `artifact`, `metadata` | `fare_model.joblib` and `fare_model.json`: absent, torn, or a model's number |
| `trainer`, `trained` | where `train()` is between its two writes; how many trainings began |
| `pc`, `running`, `loaded`, `described`, `position`, `batch` | the predictor's loop and memory: `loaded` is the model, `described` the one whose metadata named the version |
| `committed`, `table` | the group's offsets, `fare_predictions` by event id |
| `scores` (`DailyEval`) | `ml_daily_eval` by date and version |

Opening a file truncates it, so that each write is two steps, and a trainer may
die at any of them. The upsert of a batch runs in autocommit mode and may leave
any prefix behind (`WriteFails`). `ResetOffsets` is the documented way to
re-score history and needs a group without members. `DailyEval` adds the
statement of `evaluate_daily.sql` at any moment. Averages are modelled by their
sums: the number of summands is among the columns compared, so that one moves
exactly when the other does. The statement compares five of the seven columns
it writes; `ErrorsSettle` is about those five, as the two means may stay behind
when all five happen to be equal.

*Bounds.* A trip from before the cutoff and two after it, a log of two, batches
of two, two trainings, one of which dies, two ends of the predictor and one
reset. *Fairness.* A training that began goes on and, while a further one is
allowed, a failed one is followed by another; the predictor restarts and its
steps happen; the evaluation runs on its schedule. `EveryTripIsQuoted` and
`RescoringCompletes` have the premise that a complete model stays on disk: a
trainer that dies half way leaves none, and no quote can then be made.

## The cold path: `ColdPath`

A trip is its natural key; the lake is a number of copies of each. A rollup row
is how often it counts each trip, since all its metrics are functions of that.

| variable | in the code |
|---|---|
| `topic` | what retention has left of the topic |
| `lake`, `writing`, `recount` | the partitions; the days each writer has yet to replace; the rows `stream_to_lake` is writing |
| `loads`, `attempts` | the mapped `bulk_load` tasks and their retries |
| `pc` | the task each DAG is at |
| `staging`, `unstaged` | the staging table, and the rows an aggregation has yet to insert into it |
| `serving`, `created` | the table of daily metrics, and whether it exists |
| `published`, `shared` | auxiliary: the last backfill succeeded; both DAGs were between an aggregation and its merge at once |

The two DAGs interleave at every step. Four things are taken from how Spark
behaves under the calls the code makes, outside the repository: partitions are
replaced one after the other, each at once (`WriteStreamDay`, `WriteMonthDay`);
the staging table is dropped and recreated *before* the lake is read, because
the write is what starts the lazy read (`CreateStaging`, `Scan`); its rows are
inserted by several transactions (`Stage`, one per grouping here); and a file
that was listed and then replaced fails the job (`ScanFails`). The merge is
refused when it would touch a row twice, which is how PostgreSQL answers a
staging table that holds two rows for one key. `ensure_schema` is delayed to
just before the merge, the only task that looks at the table it creates.

`CutoffEndsItsDay` is an assumption that nothing in the code checks: the cutoff
is the last instant of its day. Otherwise the two writers would own the same
day and each would erase the other's half of it.

*Bounds.* Five trips: three of the history, one of them on the instant of the cutoff, in
two months, and two on the day after it, in one zone; raw files with a stray of
the other month and a trip past the cutoff; two messages from either side of it; one retry of a month, one fault more (a task that dies, a
message removed by retention, or a fresh volume), one backfill. The DAGs share
the staging table in most behaviours, so that the conditions `~shared` are
premises that are both met and broken. *Fairness.* The scheduler starts
incremental runs and runs the tasks of both DAGs; nobody need trigger a
backfill.

Behaviours that are modelled and not properties: the merge never deletes, so a
streamed day that retention shortens keeps rows of zones that are gone, which is
why `DayTotalsAgree` and `EventuallyShown` are about an untrimmed topic; a trip
without a zone is a second row for the key of its day's total, and the merge
refuses it. No run has such a trip, as the only source requires a zone.

## Files and adapters: `Sources` and `Adapters`

`Adapters` gives each column of a raw record a number, a null, a NaN, or nothing
because its file has no such column, and has the two ways to an event: through
`clean_row`, JSON, `TLCTripInput`, `adapt_tlc` and `TripEvent`, and through the
columns, casts and conditions of the Spark adapter. A column stands for itself
where a decision depends on it; the two timestamps are one column, the duration;
fields that are only copied, and units, are left out.

Amounts and codes are any integers, and surcharges are summed (`Total`) before
they are judged, as both sides do.

`Sources` has everybody who takes trips from the monthly files. A sorted table
is the function from places to rows, a row's place being one past the number of
rows before it (`Place`), which is what a stable sort by pickup time makes:

| variable | in the code |
|---|---|
| `published` | what the web has under each month: rows with a pickup time, in the order of the file, strays of other months included |
| `file`, `part` | each month's file and `.part`: none, `cut` (the first chunks of a parquet file), `junk`, `whole` |
| `fetcher` | `main()` and `download_month`: range, month, attempt, whether a body is being received, failures |
| `replay` | `main()` and `iter_records`: start, limit, the files found at its start, those to come, the rows of the open one, the rows emitted |
| `topic` | rows that got 202 |
| `lake`, `loaded` | the rows of either writer; auxiliary: the months that were loaded |
| `model` | the rows the trainer may have sampled |

`Receive`, `Complete` and `Fail` are the three outcomes of a request, `Skip` the
month that is there. A rename is atomic, and httpx reports a body that ends too
early as an error; both are outside the repository. Lost and repeated requests
are `Ingest`'s subject and the writers' failures `ColdPath`'s, so that here a
post, a load and a recount are one step each. Only whole files are loaded: Spark
refuses a parquet file without its footer.

`CutoffEndsAMonth` is an assumption nothing checks: `train.py` takes months whose
first instant is not past the cutoff, and its comment says that this is enough.

*Bounds.* Two months of two rows out of order, the first with a record that may
be refused and a stray; two attempts, one kill, starts at the cutoff and after
it, a limit inside the second month. In the run's other half nothing moves: the
one published row differs from a normal one in any two columns, each over all
values that some condition tells apart, which includes every pair of surcharges
(they are summed before they are judged). No property here is about progress.

## The dashboard: `Dashboard` and `Alerts`

`Alerts` translates the rules of `alerts.py` to functions of the query results;
medians are compared doubled, ratios by cross-multiplication. The trips of a row
are the messages it counts, since an absolute upsert counts none twice
(`Counted`), and a day's sum of them is the number of pairs of a row and a
message (`HotTrips`). `Dashboard` takes
the hot path as `LiveMetrics`, which it extends, and the cold path as what
`ColdPath` shows of a live day: its distinct trips, recounted now and then.

| variable | in the code |
|---|---|
| `log`, `read`, `table` | `LiveMetrics` |
| `cold` | the citywide counts by day; a backfilled day keeps its count |
| `recon` | the cached answer of `reconciliation()`, or none |
| `quotes`, `scored`, `age` | `fare_predictions`, the predictor's position, the age of the newest quote |
| `evaluation` | `ml_daily_eval` by day and version |
| `page`, `feed` | start, end and mode the running page was drawn with; the trips of the feed |
| `windowsKept`, `zonesKept` | the cached answers of `hot_windows()` and `hot_top_zones()`, by range |
| `panel` | what the hot panel shows: its range, the windows of its chart, the zones beside it, and whether it still waits for its second query |

`DrawPage` is a run of the script, from top to bottom, on opening or touching
the page; `FeedRefreshes` is the fragment alone, every ten seconds, with the
arguments of the last full run. The range of the sidebar is any range within
the scored days, or today's date when its query found none (or had found none
when its answer was cached).

The hot panel is a fragment of its own. It asks first for the windows of its
chart and then for the zones of the latest one, and each answer may come from a
cache of five seconds, one entry for each range: `PanelReadsWindows` and
`PanelReadsZones` are two steps, an entry of either cache may expire at any
moment (`WindowsExpire`, `ZonesExpire`), and the hot path flushes and restarts in
between. Answers of the other queries that are cached for seconds are not
variables, as a page drawn that much earlier shows the same.

`MCDashboard` splits the state in sections (layers, feed, evaluation, and the
hot panel once with a bounded range and once following live) and checks them in
one run; a behaviour moves the tables and the readers of one section. This loses
no violation: each property speaks of one reader, and the readers change nothing
that another one reads.

*Bounds.* Times 0 to 4 in days of two minutes, the first of them before the live
era; five trips at four times, two of them in the same minute, and one may be sent
twice; three messages; one restart; up to three days of two versions of the model
with four errors; a feed of one. `DivergenceWarn` is 60 percent instead of 5,
since a day of so few trips would be flagged for each trip sent twice: a day
with one trip, sent twice, is past the threshold, and one of two trips, one of
which was sent twice, is below it. The panel's chart has room for two of the three
windows that get rows, so that it is below its limit and at it, and its bounded
range leaves out a window at the end.

*Fairness.* The hot path reads and flushes, the incremental DAG comes round,
cached answers expire, each in its turn, and both fragments run every ten
seconds. The replay ends (`MaxLog`), and nobody need draw the page again.

## What the runs show

| run | instance | shows |
|---|---|---|
| `hot_ordered` | 1 partition, 2 zones, 3 messages at times 0..5 in ascending order, windows of 2 with grace 1, 2 stops, fairness | open windows are complete (`OpenWindowsComplete`), final rows exact (`FinalRowsExact`), nothing committed past is missing from them (`CommittedTripsAreFinal`); the consumer implements `LiveMetrics`; every trip becomes and stays visible, passed windows become and stay final |
| `hot_session` | 1 partition, 4 messages in any order, no stop | every trip is in one place or counted late, nothing is late when the disorder is within the grace, final rows stand |
| `hot_faults` | 2 partitions of 2 messages in any order, 1 stop, 1 refused transaction | the commit floor holds and commits never go back |
| `ingest_faults` | 4 rows, 2 attempts, queue of 2, every kind of fault, fairness | only timeouts reorder; the simulator's verdict is the gateway's; what was sent is delivered |
| `predictor_faults` | 3 trips, 2 trainings, 1 dying trainer, 2 stops, 1 reset, evaluations at any time, fairness | committed trips are quoted, a label never leads, every trip is quoted, re-scoring completes, published errors settle |
| `cold_faults` | both DAGs, 5 trips, 2 months, 2 messages, 1 retry, 1 fault, 1 backfill, fairness | the lake keeps its trips, no trip is counted twice, day totals and published history are right unless the staging table was shared, the stream's days end up shown |
| `sources` | 2 months, a fetcher with 2 attempts, 1 kill, any interleaving with loads, replays and training; and every record that differs from a normal one in two columns | files are whole (`FilesAreWhole`), exit code 0 means every month is there (`ExitCodeIsTruth`), a replay is a beginning of the global sort and complete when done (`ReplayIsGloballySorted`), the two paths take the same records and make the same of them (`PathsAgree`), no trip has two lake writers and, once loaded and replayed, none has no writer (`EachTripHasOneWriter`), the model has seen nothing after the cutoff (`NothingLearnedIsScored`) |
| `dashboard` | 3 days, 5 trips, 3 messages, 1 restart, 2 model versions, a chart of 2, fairness | the zones beside the hot panel's chart are of one window, which the chart has or could not have, whatever happens between the two queries (`ZonesStandByWindows`), no more than half of the days of one model are accused (`TypicalDaysAreNotAccused`), after the replay the divergence alert names just the live days with enough trips sent twice, whatever was cached or rebuilt, and the two charts of the hot panel are about the same window (`PageSettles`), a feed that follows live gets to show every quote or newer ones (`FollowLiveShowsScored`) |
| `hot_failed_write`, `hot_rebuild`, `predictor_mislabelled`, `cold_shared` | the smallest instance of each | a statement of the documentation that the code does not keep |

The passing runs check their properties together because they ask about the
same faults. `CHECK_DEADLOCK FALSE` stands where the system may stop: a replay
ends, and a predictor that is idle at the end of a bounded topic has nothing to
do.

## Where code and documentation disagree

| run | what the code does | what is written |
|---|---|---|
| `hot_failed_write` | after a refused finalization the shutdown path commits past the evicted windows (`consumer.py:198-199`) | "offsets must not advance past a failed write" (`db.py:121-122`) |
| `hot_rebuild` | events out of order within the grace make a restart rebuild a finalized window from its last events, and overwrite the complete row | consumption "rebuilds it in full" (`windows.py:32-35`) |
| `predictor_mislabelled` | a predictor that starts between the trainer's two writes labels the new model's quotes with the old version (`predictor.py:101`) | `model_version` is "which model produced the quote" (`ml/sql/schema.sql:38-40`) |
| `cold_shared` | a backfill beside the incremental DAG may succeed and leave its months out of the serving store, since both use one staging table (`aggregate_daily.py:143`) | the loads and "this DAG's final tasks" run together so that no month is absent (`cold_path_backfill.py:20-22`); the race "fails the full-lake aggregation" (`README.md:158-159`) |

The last one concerns the mitigations too. Pausing the incremental DAG, as the
repository's README asks, avoids it. A pool that serializes the Spark tasks
would not, as the staging table has to be protected from the aggregation to the
merge, which is not a Spark task.

## Met while modelling

Places where the code does less, or other, than a text beside it says, and no
run is about it; each is either the premise of a property or outside one.

* *Order.* A POST that timed out may be published after the rows that follow it
  (`replay.py:223`); `producer.py:88-90` has the pickup order preserved. This is
  the premise of `OnlyTimeoutsReorder`.
* *The baseline.* A batch delivered again after a crash is requoted by the model
  trained meanwhile, and the next evaluation replaces the old version's score by
  one of fewer trips (`evaluate_daily.sql:63`), which the new version's label was
  to prevent (`train.py:72-74`).
* *NaN.* The comment at `tlc_batch_adapter.py:117-121` takes NaNs for nulls. The
  simulator does send a NaN as null, and the gateway then refuses it or takes a
  code as unknown; Spark has it neither null nor below zero, and casts a NaN code
  to 0. `PathsAgree` has the premise `NaNsAreLate`.
* *Event ids.* The docstring of `_event_id` (`tlc_batch_adapter.py:267-270`)
  calls the gateway's id random; it is derived from six fields now.
* *Following live.* A page opened before the first quote has today as the start
  of its range and stays empty while 2026 is replayed (`app.py:112`), although
  following live shows trips "as they are scored" (`app.py:122`). The
  premise `page.start <= t.time` of `FollowLiveShowsScored` leaves such pages out.
* *Retraining.* `alerts.py:66-67` says that the rule of the model's error keeps
  working if the model is retrained. Rows of both versions then count as days,
  and if the new errors are half the old ones every old day is accused. This is
  the premise `OneModel` of `TypicalDaysAreNotAccused`. For the same reason the
  last row by date (`app.py:327`) is one of several.
* *Divergence.* `alerts.py:128-130` calls a large gap genuinely wrong. During a
  replay the hot path is minutes ahead and the current day has one; a day that
  only one layer has is not compared at all. `DivergenceSettles`, the first
  part of `PageSettles`, is about the end of the replay; a gap below the
  threshold stays unsaid then too, as the docstring has it. Alerts are evaluated when a page is drawn, not by its fragments.
* *The latest window.* `queries.py:89-92` has it that the two queries of the hot
  panel "have to agree on which window latest means". They use the same bounds, but
  run one after the other and are cached apart (`app.py:175`, `:205`): a flush in
  between, or an older cached answer of either, leaves the zones of one window
  under a headline that names another (`app.py:196`, `:207`), until the panel's
  next run or the one after. `ZonesStandByWindows` says what holds all the same,
  and `PanelSettles` that it passes when the table rests.
* *Gaps.* The simulator replays the files it finds; a month the fetcher gave up
  on is skipped without a word (`replay.py:69`).
* *The cutoff.* 23:59:59 is at or before the cutoff and 23:59:59.5 is past it,
  though still of the day and month that end there. TLC's times are whole
  seconds, as the source's are.

## What is proved

For every value of the constants that meets the named assumptions of the
module, in particular any number of trips, partitions, messages, files and
faults. A premise in the last column is an assumption of the theorem alone.

| theorem | states | premise |
|---|---|---|
| `HotPathProofs!TypeCorrect` | `[]TypeOK` | |
| `HotPathProofs!CommitFloorHolds` | `[]CommitFloor`: no committed offset is past the first event of an open window | |
| `HotPathProofs!CommitMonotone` | `CommittedNeverGoesBack` | |
| `HotPathProofs!NothingIsLateHolds` | `[]NothingIsLate` | one partition |
| `HotPathProofs!FinalRowsAreFinal` | `FinalRowsNeverChange` | `OneLife` |
| `HotPathProofs!EveryTripIsAccountedFor` | `[]EveryTripAccountedFor` | `OneLife`, finitely many partitions |
| `HotPathRefinementProofs!OpenWindowsAreComplete` | `[]OpenWindowsComplete` | `OneOrderedPartition` |
| `HotPathRefinementProofs!FinalRowsAreExactCounts` | `[]FinalRowsExact` | `OneOrderedPartition` |
| `HotPathRefinementProofs!CommittedTripsStayFinal` | `[]CommittedTripsAreFinal` | `OneOrderedPartition`, `NothingRefused` |
| `HotPathRefinementProofs!HotPathRefines` | `ImplementsLiveMetrics` | `OneOrderedPartition`, `NothingRefused` |
| `LiveMetricsProofs!LiveFinalRowsAreExact` | `LiveSpec => []FinalRowsAreExact` | |
| `IngestProofs!IngestTypes` | `[]TypeOK` | |
| `IngestProofs!OrderHolds` | `[]OnlyTimeoutsReorder` | |
| `IngestProofs!VerdictIsTrue` | `[]OutcomeIsTruth` | |
| `IngestProofs!SentRowsArePublished` | `[]SentIsPublished`: what was counted as sent is on the topic or in the queue, unless the queue was lost | |
| `PredictorProofs!PredictorTypes` | `[]TypeOK` | |
| `PredictorProofs!PredictorInvariant` | `[]PredictorInv` | |
| `PredictorProofs!CommittedTripsHaveQuotes` | `[]CommittedTripsAreQuoted` | |
| `PredictorProofs!LabelsNeverLead` | `[]LabelNeverLeads` | |
| `ColdPathProofs!ColdPathTypes` | `[]TypeOK` | |
| `ColdPathProofs!LakeInvariant` | `[]LakeInv` | |
| `ColdPathProofs!LakeIsKept` | `LakeKeepsItsTrips` | |
| `ColdPathProofs!NothingIsCountedTwice` | `[]CountedOnce` | |
| `ColdPathProofs!DaysAreTheirZones` | `[]DayTotalsAgree` | |
| `ColdPathProofs!BackfillIsPublished` | `[]LoneBackfillPublishes` | |
| `SourcesProofs!SourcesTypes` | `[]TypeOK` | |
| `SourcesProofs!FilesStayWhole` | `[]FilesAreWhole` | |
| `SourcesProofs!ExitCodeHolds` | `[]ExitCodeIsTruth` | |
| `SourcesProofs!ReplaySorts` | `[]ReplayIsGloballySorted` | |
| `SourcesProofs!PathsAlwaysAgree` | `[]PathsAgree` | |
| `SourcesProofs!OneWriterPerTrip` | `[]EachTripHasOneWriter` | |
| `SourcesProofs!TrainingStopsAtTheCutoff` | `[]NothingLearnedIsScored` | |
| `DashboardProofs!DashboardTypes` | `[]TypeOK` | |
| `DashboardProofs!HotPartIsLive` | `Spec => LiveSpec` | |
| `DashboardProofs!ZonesAlwaysStandByWindows` | `[]ZonesStandByWindows` | `TripsHaveZones` |
| `DashboardProofs!TypicalDaysAreSafe` | `[]TypicalDaysAreNotAccused` | |

*The premises* are what the deployment gives, or what a property is about.
`docker-compose.yml` configures one partition; `ReplaySorts` and `OrderHolds`
give pickup order while no request times out; `TLCTripInput` requires a pickup
zone: these are `OneOrderedPartition` and `TripsHaveZones`. `NothingRefused`
leaves out the failed write of which `hot_failed_write` shows that it breaks the
promise. `OneLife`, in which the process neither stops nor has a write refused,
is what `FinalRowsNeverChange` and `EveryTripAccountedFor` speak of: what is
counted in memory begins anew with the process. Each premise is met by
the run that checks the property. `NothingIsLateHolds` allows crashes and refused
writes, which its run `hot_session` does not have.

### The hot path

*The commit floor* alone is not inductive, since the next commit is computed
from `last_offsets` and the open windows. `CommitInv` adds that the fetch
position is at or past the committed offset, that `last_offsets` is one behind
it, and that every window was fed from in between. The same invariant gives
monotonicity. This is independent of arrival order and of refused transactions,
and it is about open windows only: a window that was evicted and whose write was
refused is in memory no more, and the commit of the shutdown passes it, as
`hot_failed_write` shows. That nothing unwritten is ever passed is
`CommittedTripsAreFinal`, which therefore has the premise `NothingRefused`.

*Late trips.* The watermark is the pickup time of a message before the fetch
position (`WatermarkIsRead`); a trip within the grace of it is in a window that
has not been passed.

*One life.* A final row is not written again because its window was passed, a
passed window is not opened again, and the watermark never falls (`LifeInv`).
So a trip's own window is open, evicted or final and never two of these, and
each step moves one trip, or one window's trips, from one count of the balance
to another (`AccountInv`).

*Rebuilding.* `OrderInv` is why a restart loses nothing on an ordered topic. An
open or evicted window holds each of its trips from its first one up to the
fetch position, once (`Complete`), and `min_offsets` names its first; a trip that was read is in an
open window or in one that was left behind for a later one. From this it follows
that each commit falls between two windows: no window has trips on both sides of
it (`CommittedIsLeft`). A restart reads from the commit, and so counts each window
from its beginning or not at all. Final rows are exact since a window is only
evicted when a later trip has passed it, after which, in pickup order, none of
its trips can arrive; one rebuilt after a crash is passed again only once it is
complete.

*Committing is forgetting.* `FinalInv` adds to `OrderInv` that every committed
trip is in final rows, which needs that a transaction precedes each commit and
none is refused. The *refinement* then goes action by action: a poll is `Read`,
the three writes are `Show` of the windows written, a start is `FallBack` to the
committed offset, which `FinalInv` allows, and all else stutters.

*Final rows of the promise.* In `LiveMetrics` every row is empty or the count of
a beginning of the topic; a row is final only if a trip past the window's end and
the grace was in that beginning, so that in pickup order no trip of the window
comes after it.

### Ingestion

While nothing has timed out there is one request at a time, the one the client
waits for, and no row past the client's was published (`OrderInv`). The verdict
is about rows that have one; `TruthInv` extends it to the row in between, which
is published from the moment the gateway has decided on 202, before the client
knows. `SentInv` needs neither: an answer 202 that is still on its way is already
of a published row, across timeouts, retries and stops of the gateway.

### The fare model

*The quotes.* `QuotedInv` says that while the loop runs, a scorable trip before
the position has a quote or is in the batch, and that before a commit the whole
batch has quotes; a step from the batch to the table and one from the position
to the committed offset preserve it. *The labels* follow from the order of four
accesses: the trainer writes the artifact before the metadata (`FilesInv`), the
predictor reads the metadata before the artifact (`LabelInv`). A torn artifact
makes the load fail, which is why `FilesInv` orders them only when it is whole.

### The cold path

*The lake.* `LakeKeepsItsTrips` is about a step; `LakeInv` is why it holds:
each writer is only ever about to replace days on its own side of the cutoff
(`WritersApart`, from `CutoffEndsItsDay`), a backfilled day holds nothing its
month's file does not, and while retention removed nothing a streamed day holds
no more than the recount about to replace it. *The numbers* follow from the lake
holding at most one copy of each trip, carried through the rows an aggregation
is about to insert, the staging table and the serving table (`NumbersInv`).

*Totals and backfills* need to know what a merge merges. As long as the DAGs have
not met at the staging table (`AloneInv`), the rows in it and those to come are
the rollups of one state of the lake, that of the DAG's own scan (`Snapshot`),
although other tasks go on writing the lake. That state had nothing which the
lake has lost since and had everything which is published, so that a merge of
all its rollups makes each day agree with its zones; and what a backfill has
scanned stays what the lake has of the history, since no month is loaded until
the next backfill (`LoadsInv`). `ColdPathTypes` needs one thing more, that a load
that has not failed has an attempt left.

### Files and adapters

`FilesAreWhole` is inductive as soon as the file's contents are restricted to
it, because only `Complete` writes a name. The exit code needs the fetcher's
progress (`FetchInv`): each month it has passed is there or among the failures.

*The global sort.* `ReplayInv` says that the rows that were sent, followed by
those of the open month that are to come, are in the places they have among all
wanted rows of the months opened so far, and that this is all of them or as many
as the limit allows. Opening the next month appends rows which all come after
(`MonthsFollow`, since strays are dropped and months do not overlap), and so
leaves the places of the others as they are (`LaterRowsFollow`). That a sort has
a row for each place (`SortIsSorted`) rests on counting the rows before one.

*The paths* are compared record by record: with no NaN outside the columns
added late, the columns that reach either decision are the same numbers and
nulls, and what is summed is the same five summands. *The writers* never share a
trip since one takes those up to the cutoff and the other those past it; that no
valid trip is without a writer needs that a finished replay has sent all of its
months' rows, which the sort gives, and that what the gateway accepts is what
Spark accepts, which the paths give. *The training* stops where it should because
a month that begins at or before the cutoff ends there or before
(`CutoffEndsAMonth`).

### The dashboard

*Panels.* In every state a window has a citywide row just when it has one of a
zone (`PairInv`): a flush writes windows, all their cells at once, and each trip
feeds one of either kind. A row never vanishes (`WindowsStay`), so that an answer
kept from an earlier state is still about windows that have rows, if not about
all of them. `PanelInv` says so of both caches and of the panel, and that any two
answers for a range that are kept go together: a new list of windows has all
there are, or the newest of them, so that any window of older zones is in it or
older than all of it (`NewChartBesideZones`); new zones are of the newest window
there is, which an older list has, or is too old for (`NewZonesBesideChart`).

*The alert on typical days.* There is one row for
each day and version (`EvalInv`). Of the accused days take one with the least
error: it is worse than the lower median of the others (`AccusedAreWorse`), so
that none of the days up to that median is accused, and they are at least half of
the others (`HalfAreNotAccused`). That a median exists, whatever errors are equal,
is proved by taking the least error with enough days up to it (`PlacesHaveMaes`). *Types* use that
the trips of a day can be counted, and that the feed is drawn from the quotes.

## What is only model-checked

Liveness under fairness and `ENABLED` are beyond the prover used here:
`EveryTripBecomesVisible`, `PassedWindowsBecomeFinal`, `SentIsDelivered`,
`EveryTripIsQuoted`, `RescoringCompletes`, `ErrorsSettle`, `EventuallyShown`,
`PageSettles` and `FollowLiveShowsScored` stay with TLC. So do the four runs that
show a statement violated, whose business is a counterexample. Sorts and sums are
proved as they are modelled, by places and by cardinalities; that Arrow's
sort is stable and SQL's sum adds is taken for granted.

## What is not modelled

* How an event id and a natural key are computed: they are equal for equal trips.
  Malformed messages on the topic are dropped by both readers of canonical trips
  and appear as `Poison` and `Malformed`; in the cold path they are left out.
* Waiting for the gateway at start, which only delays a replay.
* Numbers: fares, distances, the learning, the features. No property depends on
  an amount, except that the errors of `DailyEval` distinguish quotes, and the
  signs of amounts decide what the adapters refuse.
* Start-up retries against Kafka and PostgreSQL, which change no state.
* Pausing a DAG, and several trainers at once.
* Of the dashboard: charts, tables and styles, the queries behind them that read
  one table once, and their caches of a few seconds.
* Deployment, which is configuration, and the adapters' conformance test, which
  is a test of what `PathsAgree` is about.

## Plan

All invariants, action properties and the refinement that the runs check are
proved. What is left:

1. The safety halves of the liveness properties that have one: that a trip which
   is visible in final rows stays so (`EveryTripBecomesVisible`), that an upsert of
   a quote never takes a later version back (`RescoringCompletes`), that a quiet
   evaluation changes no score (`ErrorsSettle`), and that a merge of an untrimmed
   topic shows no trip less than before (`EventuallyShown`).
2. Weaker premises: `CommittedTripsAreFinal` while the transactions refused so far
   are those of `Flush`, which hold no evicted window.
