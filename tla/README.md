# A verification development for llm-telemetry-engine

TLA+ models of the parts of the engine that keep state across processes, TLC
runs on small instances of them, and proofs, checked by TLAPS, of the
properties that matter most for every value of the constants.

Paths below are relative to the repository's root; `te/` stands for
`src/telemetry_engine/` and `ch/` for `schemas/clickhouse/`.

## 1. The system

LLM gateways emit spans. An OpenTelemetry collector batches them into a Redpanda
topic; ClickHouse's Kafka engine reads the topic and two materialized views split
each block between `spans_raw` (48 h) and a dead-letter table. A second view,
triggered by the insert into `spans_raw`, counts each span in `spans_1m` (7 days)
under keys that a dictionary of allowed values bounds; a third feeds `spans_1h`
(90 days). Before the raw rows expire, an exporter copies them into a lake of
Parquet files which DuckDB reads. Operators drive all of it with one command
line; no command takes a lock, and ClickHouse has no transaction around two
requests. Nearly every hard behaviour comes from those two facts.

| component | state | operations | interacts with | hard | correct means |
|---|---|---|---|---|---|
| cold-tier exporter (`te/coldtier/export.py`, `layout.py`) | files, staging file, a run's locals | `run_export`, `export_window`, `--since`, `health` | `spans_raw` and its TTL, the watermark table, the lake | seven requests per window with the TTL and late rows between them, crashes, retries, rewinds | nothing below the watermark depends on the hot tier; no row twice; no silent loss |
| watermark table (`ch/130`, `140`) | one row per source | read FINAL, insert, delete | exporter, migration 140 | rebuilt under a running exporter | never lost, never ahead of the lake |
| lake and its reader (`te/coldtier/query.py`, `layout.py`) | a file and a staging file per window | `open_lake`, queries | exporters | two exporters on one staging name; a lake that changes between listings | all listed files are read, each whole |
| migration runner (`te/storage/migrations.py`) | `schema_migrations`, a run's snapshot of it | `apply_all`, `discover` | the schema, the repository's checkout | half-applied files, two runs, edited files | recorded means built; in order; converges when run again |
| schema (`ch/*.sql`) | tables, views, a dictionary | 15 files of statements | everything | 110 and 140 replace objects in several statements | each file finds what the ones before it made |
| cardinality guard (`te/cardinality/guard.py`, `registry.py`, `ch/060`, `110`) | `dim_allowlist`, the dictionary, `dimensions.yaml` | `sync` in five requests | rollup view, traffic, operators | dictionary behind the table, overlapping syncs, drifting traffic | few keys, and `__other__` only for what nobody registered |
| rollups and backfill (`te/storage/rollups.py`, `te/cli.py`) | `spans_1m`, its view, a backfill's window | `plan`, `backfill` | ingest, migrations, two TTLs | late rows, a plan in two queries, interruption, overlap | each row counted once; no hole hidden |
| emitters (`te/emitters/`) | worker processes, credit, the SDK's queue, the result queue | `run_load`, `generate_trace`, `RateLimiter` | collector | a worker that dies before it reports; a queue that overflows; a clock looked at late | counts complete; rate kept; spans nest |
| collector (`deploy/otelcol/config.yaml`, external) | queue, retry state, counters | batch, retry, drop | emitters, Redpanda | full queue, expiring retries, restart | every drop is counted |
| Kafka ingest (`ch/010`-`050`) | offsets, a block, two tables | poll, insert through two views, commit | Redpanda, rollups | at-least-once delivery, retention | one of the two tables, no silent loss |
| lag reader and monitor (`te/ingest/lag.py`) | offsets read so far | `read_lag`, `read_collector`, `record` | Redpanda, collector | offsets read at several times, missing answers | lag never understated |
| backpressure experiment (`te/experiments/backpressure.py`) | phases, samples, the result | `run_experiment`, `validate` | all of the pipeline | sampler and probe threads, restarts, a paused ClickHouse | a run that proves nothing is not reported as valid |
| topic reconciler (`te/ingest/topics.py`) | partition counts it has listed | `reconcile` | Redpanda | two reconcilers, topics made by others | what it reports is so |
| command line and stack scripts (`te/cli.py`, `tasks.py`, `te/common/health.py`, `te/storage/client.py`) | a command's step | `up`, `bootstrap`, `nuke`, waits | all services | a service that goes down half way | exit code 0 means usable |
| latency, dashboards, webdash, configuration, logging | none that outlives a call | read or generate | | | |

### Interactions that the models keep

* The **exporter** shares the watermark table with **migration 140**. Each model
  treats the other as an environment: `Migrations!MoveWatermark` is the
  exporter's write, and `ColdExport` reads and writes the table as 140 leaves it
  (a ReplacingMergeTree versioned by the watermark itself, so the largest wins).
* **`Lake`** takes what `ColdExport` holds to be one step, the writing of a file,
  apart into its batches, with a second exporter and a reader beside it.
* The **guard** and the **rollup view** share the dictionary: `CardinalityGuard`
  has the view's key computation as the action `Land`, `Rollups` leaves keys out
  and keeps how often each row is counted.
* **Migration 110** drops and creates the view under traffic: in `Migrations` as
  two statements, in `Rollups` as `DropView` and `CreateView` with rows landing
  between them.
* `spans_raw`'s **TTL** is a process of its own in `ColdExport` and `Rollups`.
* **`LoadRun`** composes the trace generator and the rate limiter (`Workload`)
  with worker processes and their parent. What leaves a worker's queue is where
  `Backpressure` begins.
* **`Backpressure`** composes the experiment and its two threads with the
  pipeline: SDK, collector, topic, ClickHouse.
* **`Ingest`** composes collector, topic, Kafka engine and the lag reader, with
  batches and the messages they are sent as where `Backpressure` counts spans.
* **`Bootstrap`** composes compose, waits, reconciler, migrations and dimension
  sync, each of the last two one step: their own modules take them apart.

There is no product of all of them: the components meet in one table, topic or
file each, never in a protocol of more than two, and each meeting is in a model.

## 2. Modules

| module | models | code it stands for |
|---|---|---|
| `Archive` | what a cold tier promises, with no files, windows or clocks | (abstract) |
| `ColdExport` | the exporter, a rewind, loss of files, `health`'s alarm | `export.py`, `layout.py`, 030, 130, 140 |
| `Lake` | several exporters and a reader on one lake | `export.py`, `layout.py`, `query.py` |
| `Schema` | the 15 shipped files as sequences of statements | `ch/*.sql` |
| `Migrations` | `apply_all`, over any catalogue of files | `migrations.py` |
| `CardinalityGuard` | registry, `sync`, dictionary, the view's keys | `guard.py`, `registry.py`, 060, 110 |
| `Rollups` | rows, view, TTLs, `plan`, `rollup-backfill` | `rollups.py`, `cli.py`, 070, 080, 110 |
| `Workload` | traces, load profiles, rate limiter | `workload.py` |
| `LoadRun` | workers, exporter queue, parent | `load.py`, `otlp.py`, `workload.py` |
| `Delivery` | what the way of a batch into ClickHouse promises | (abstract) |
| `Ingest` | collector, topic, Kafka engine, two views, lag reader | `config.yaml`, `topics.yaml`, 010-050, `lag.py` |
| `Backpressure` | the experiment, its threads, its checks, the pipeline | `backpressure.py`, `lag.py` |
| `Bootstrap` | bringing a stack up, by several operators at once | `tasks.py`, `cli.py`, `topics.py`, `health.py`, `client.py` |
| `MC*` | instances for TLC | |
| `*Proofs` | theorems and their lemmas; `PipelineProofs` is about `Workload`, `LoadRun` and `Ingest` | |

`PROJECT.json` maps each definition to the lines it was translated from.

### How the state corresponds to the code

**ColdExport.** `ts`, `hot`, `gone` are `spans_raw` and what its TTL has taken;
`lake` is the set of row copies in committed files, each with the window in its
file's name and the values it holds; `watermark` is what `read_watermark` would
return (`None` = no row). Of a row's 25 columns the model has what the
fingerprint tells apart (`Values`): `tokens` stands for the three summed columns,
`trace` for the two whose distinct values are counted, `rest` says whether all
the others, `ts` among them, are as they were. `Fingerprint` is
`_source_fingerprint`: the count, the sum, the number of distinct identifiers.
`pc`, `cursor`, `horizon`, `counted`, `staged` are the locals of one
`run_export`. Each request or file operation is one action: `ReadStart`
(`read_watermark`, or the oldest row, or `Epoch`, 1970-01-01, when the table is
empty), `Plan` (`plan_windows`; windows abut, so the plan is its first cursor and
its horizon), `Count`, `Stream`, `Verify` (counts, then the file's fingerprint
against that of a fresh query), `Commit` (the rename), `Mark` (`write_watermark`).
An empty window skips from `Count` to `Mark`, a failed verification ends the run,
as in the code. `StreamMangled` is a stream that puts any values whatever into the
file. `RewindDelete` and `RewindWrite` are the two requests of `--since`, which may
also point forward or come before any run. `LoseFiles` is an operator deleting part
of the lake or restoring an older one. `origin` (where the archive begins: the
first run's start, or `--since`) and `spent` are history variables.

**Lake.** `staging[w]` and `final[w]` are the contents of a window's two files as
a number of batches, or `Mixed` when two exporters have written one. `Open`
truncates the staging file, whatever another exporter has in it; `Write` adds a
batch (to the committed file, if another exporter has renamed the staging file
meanwhile: the handle stays open), then `Close`, `Verify`, `Rename`. `List`,
`CrossCheck` and `Query` are `parquet_files`, DuckDB's own listing and the
query's. `shared` is history.

**Migrations.** A file is a sequence of statements, a statement its effect on
`server` and the objects it needs. A run is `Start`, the bootstrap file's
statements, `Snapshot` and `Bookkeep`, then per file `Pass` (already recorded)
or `Execute` per statement and `Record`. A checksum is a revision number; it is
read again when a file is recorded, as the code does.

**CardinalityGuard.** `registry` is `dimensions.yaml`, `allowlist` the table,
`dict` the server's copy of it, `seen` the keys of the current minute. A sync is
`Begin` (load and validate against `Stored`, all columns of `spans_1m`, as
`rollup_columns` lists them), `SyncStatic`, `ComputeTopK` and `InsertTopK` per
dimension, `Reload`. `TopKRaises` is the query on a column that `spans_1m` has,
such as a count, and `spans_raw` has not.

**Rollups.** `rolled[r]` is how often `spans_1m` counts row r: states merge, so
it is a number and not a set. `ReadRaw` and `ReadRollup` are `plan`'s two
queries, the second together with the window the command computes; between it
and the first `Chunk` lies the confirmation prompt. `Chunk` is one
INSERT ... SELECT. The earliest minute of an empty table is `Epoch`.

**Workload, LoadRun.** A trace is its root and children with start, duration and
status; random draws are any value of a small set. `Loops` builds the agent
loop call by call (`Then` advances the cursor). `credit`, `allowance` and
`spans` are the worker's locals, `buffer` the SDK's queue, in which a span has a
place or is dropped. `Acquire` is one turn of `_run_worker`'s loop after a delay
of any `dt`; `Emit` a whole trace; `Flush` the `finally`. The parent is `Spawn`,
`Get` or `Timeout`, `Join`; a parent that raises takes its daemons with it.

**Ingest.** A message is one trace of a batch (`partition_traces_by_id`):
`BatchOf` and `PartitionOf` are constants. Receiver and queue deal with whole
batches (`Enqueue`, `GiveUp`), the broker with messages: `Send` may have sent part
of a batch when the rest fails, and `Retry` then sends all of it again. `stage[m]`
is where the collector has a message; `log`, `logStart`, `committed` the topic and
the group's offsets; `block` the engine's block with the views it has been
through; `table` what each view has stored. `reading` is `read_lag`: all committed
offsets first, then one high watermark at a time.

**Backpressure.** Spans are counted stage by stage. `pc` is the line of
`run_experiment`; `before`, `delta`, `rowsDelta`, `generated`, `probes` are
fields of its result. A sample is `SampleBegin` (its time is taken), `SampleLag`
(`read_lag`, or the empty snapshot it returns without metadata) and `SampleTake`
(`read_collector`; the sample is appended), with anything in between, and it may
be appended after `StopThreads`, whose join has a timeout. Samples are folded as
they are taken into what `validate` reads of them: the last counters, whether one
ever fell, whether lag was high. Probes go on from the threads' start to their
stop, and those begun outside the two windows are counted as such. Any step may
`Raise`, the process may be killed (`Kill`), and the unpause of `Finally` may
fail unnoticed. `exact`, `lost`, `extra` are history: what really happened, to
hold the verdict against.

**Bootstrap.** `step[o]` is the line of operator o's command; `existing[o]` the
counts its reconciler listed before its loop; `service`, `partitions`, `config`,
`schema`, `allowlist` the stack. `Create`, `Grow`, `KeepPartitions`, `Compare`,
`Alter` are the branches of `reconcile`'s loop, each with the request it makes.

### Assumptions about what is outside the repository

* One ClickHouse request is one atomic step (an INSERT ... SELECT of one block,
  a DDL statement, a SELECT). A failing request has no effect.
* The TTL drops rows one by one, at any time after they have expired, or never.
* `min()` of an empty table is 1970-01-01 00:00:00, the default value of a column
  that is not Nullable: no setting under `deploy/` turns on
  `aggregate_functions_null_for_empty`. A `datetime` is true in Python, so
  `rollup_min or raw_max` and `read_watermark(conn) or default_start(conn)` never
  fall through to what `cli.py:385-392` and `default_start` are written for.
* `os.replace` is atomic and durable; a crash loses the staging file or leaves it
  where the next run overwrites it.
* A row's timestamp is at most `MaxLate` older than its arrival. The code relies
  on it through `DEFAULT_LAG_MARGIN`.
* In the guard, a dimension's name is its column, as in the shipped
  `dimensions.yaml`.
* The collector drops from a full queue and after `max_elapsed_time`, and counts
  both; its queue and counters are in memory. The broker may take a batch whose
  answer is lost. The Kafka engine commits after both views have their rows.
* `create_partitions` fails unless the count grows; `create_topics` fails on a
  topic that exists; `alter_configs` sets a topic's whole config.

## 3. Runs

Bounds are named constants of the modules. Ticks are abstract: only the order of
Hour, Day, TTL, Margin matters.

| run | bounds | checks |
|---|---|---|
| `cold_export` | 2 rows, 7 instants, hours of 2, days of 4, TTL 4, margin 1, a crash, a rewind or forward `--since`, a damaged file or a loss of lake files, or a crash and a damaged file, fairness; 0.73M states | `TypeOK`, `Coverage`, `FilesMatchTheirRows`, `NoFileStraddlesWatermark`, `OneCopyUnlessInterrupted`, `NoSilentLoss`, `EventuallyArchived`, `ImplementsArchive` |
| `lake` | 2 exporters, 2 windows of 2 batches, a reader, cuts anywhere; 0.34M states | `QueryIsHonest` (its `TypeOK` is proved) |
| `migrations` | the shipped 15 files, released as 11, 14 or 15 files; one runner, one crash, one edit, one exporter write; 0.27M states | `RecordedInOrder`, `WatermarkSurvives`, `UndisturbedRunsSucceed`, `AppliedOnce`, `RecordedMeansBuilt`, `EventuallyMigrated` (its `TypeOK` is proved) |
| `guard` | 2 key columns, one that is stored and no key, one that does not exist, 2 values, 3 registries, 2 syncs, 1 crash; 0.13M states | `TypeOK`, `NoOrphanDimension`, `OtherMeansUnregistered`, `EventuallyVisible` |
| `rollups` | 3 rows, 2 operators, 6 instants, minutes and hours of 2, TTLs 3 and 5, one drop of the view, one crash; 0.95M states | `TypeOK`, `CountedOnce`, `FilledSoFar`, `PlanIsRight` |
| `loadrun` | 2 workers, 3 ticks, delays up to 2, a burst, agent loops of 2 calls, a queue of 3 spans, one failure; 0.13M states | `LoadTypeOK`, `TallyIsWhole`, `Paced`, `TraceNests` |
| `ingest` | 3 messages of 2 batches, one batch over both partitions, one message unreadable, a queue of 1, 1 mishap, fairness; 0.36M states | `TypeOK`, `LagCoversBacklog`, `ImplementsDelivery`, `EachIsDecided` |
| `backpressure` | one span per phase, one probe, one old message in the topic, recovered means an empty one, one mishap, raising or killed anywhere; 2.0M states | `TypeOK`, `LossIsClaimed`, `RecoveryIsReal` |
| `bootstrap` | 2 operators, 2 versions of `topics.yaml` with 2 topics and 2 keys, 1 outage; 2.4M states | `SuccessIsUsable` (its `TypeOK` is proved) |

Three more runs each check one sentence of the repository's text, and TLC finds it
violated: `cold_rewind_overwrites` (one rewind), `migrations_rerun` (one crash) and
`guard_budget` (one dimension, three values, two syncs). They are discussed below.

Why the bounds are enough to be interesting: the clock outlasts the TTL, a
midnight and several hours, so rows expire before, while and after they are
exported, windows are cut by all three limits (hour, midnight, horizon), and a
rewind can land inside an old file. Two rows are what a duplicate, an overwrite
or a half-lost file needs, and what a damage needs to keep the sum of a column;
the sums take two values, the identifiers one. With windows of an hour a file
cannot cross midnight unless the hour does not divide the day, so that no file
does, whatever the widths, is left to a proof (`FileInOneDayHolds`).
Two rows sharing a backfill window and one outside show every way a chunk can
count wrongly; two operators overlap at every point.
In `guard`, one registry names a missing column, one a column that is no key, two
disagree about a static value. In `ingest` the queue is smaller than the load, a
batch can be sent in part and again, block and retention overlap, one block can
hold a readable message and an unreadable one, and the reader's offsets are read
on both sides of a send and of a commit. In `backpressure` the tolerance of a fifth
lies between no span and one of four, an earlier run has left a message in the
topic, a restart can hit before, between and after samples, a sample can straddle
the release, and a run can be valid, so no implication is vacuous.
In `bootstrap` one checkout has grown a topic, changed its config and added
another. In `lake` every overlap of two exporters on a window's staging name is
reached. In `loadrun` a queue of three overflows with one trace.

Every property of a passing run is shown to be able to fail: a mutation of the
code (dropped margin, windows cut off the hour, unchecked values, a missing reload,
a commit after one view, a sample timed at its end, ...) violates it in the same
run. The mutated definitions stand next to the originals, marked `Mutant of`.

`cold_rewind_overwrites`, `rollups`, `lake`, `loadrun` and `bootstrap` use symmetry
over rows, operators, windows, exporters or workers, which no definition tells
apart (the rows of `ColdExport`'s instances all hold the same values); runs with
liveness or a refinement do not.

Deadlock is checked except in `backpressure`, `loadrun` and `ingest`, whose
systems end: a run of the experiment or of the load is over, or every batch has
arrived. Elsewhere an operator may always start again.

### Fairness

* `ColdExport!FairSpec`: a run that has begun goes on (`WF(Exporter)`), and so
  does the clock. Nothing in the repository starts runs on a schedule, so `Start`
  has no fairness; `EventuallyArchived` has the premise that runs keep being
  started. Crashes are bounded by the budget, rows may land at will, the TTL is
  never forced.
* `Migrations!FairSpec`: a run that has begun goes on. `EventuallyMigrated` has
  the premise that the command is run again and again, and promises all files
  where no run is cut short, else those before the first that cannot be run again
  after any part of it. `Rerunnable` works out from the statements which these
  are; of the shipped files only 140 is not (see `HalfAppliedIsSafe`).
* `CardinalityGuard!FairSpec`: only the server's own refresh of the dictionary
  (`LIFETIME(MIN 60 MAX 120)`, 060) is sure to happen; a sync may stop for ever.
* `Ingest!FairSpec`: the collector sends what it has queued or gives it up, which
  `max_elapsed_time` forces; the engine polls, inserts and commits. Restarts, lost
  answers, retention and the reader have none. `EachIsDecided`, every batch is
  stored or given up, needs it; `ImplementsDelivery` needs none.

The other runs check safety only.

### What the violated properties show

Each of these three runs checks one sentence of the repository, which
`PROJECT.json` quotes; TLC's counterexample is a behaviour of the code.

1. `cold_rewind_overwrites`, **`ReexportIsSafe`**: after `--since`, a window whose
   rows have partly expired is exported from what is left, verifies against what is
   left, and replaces the complete file.
2. `migrations_rerun`, **`HalfAppliedIsSafe`**: 140, cut between its DROP and its
   RENAME, fails at its copy statement for ever after. (The watermark itself
   survives, `WatermarkSurvives`, in the table that has not been renamed.)
3. `guard_budget`, **`WithinBudget`**: a sync only adds to `dim_allowlist`; under
   shifting traffic a dimension exceeds its budget at the second sync.
   `BudgetPerSync` is what is left of the bound, and a theorem.

### Other sentences that the code does not keep

These are in the modules as well, under "What the repository's text says and the
code does not do". Each is false already within the bounds of the run named: put
in its cfg, as an INVARIANT or PROPERTY, it gives the behaviour described.

| claim | says | what happens |
|---|---|---|
| `FilesAreFaithful` (`cold_export`) | export.py:281 "Aggregates that prove the exported VALUES match the source", and "will not agree by accident" | three sums and two distinct counts say nothing of `ts` and the other columns, nor of values swapped between rows: such a file is committed, passed, and never written again |
| `RetryDoesNotDuplicate` (`cold_export`) | export.py:15-16 "File names are deterministic, so a retry overwrites rather than duplicates" | after a crash between the rename and the watermark the retry plans a later end for the window the horizon had cut; its file has another name, and the rows are in both |
| `LakeLossIsAnnounced` (`cold_export`) | export.py:558-562: `watermark_without_data` tells when the lake "is deleted or restored from an older backup" | the check is for an empty lake; with some files lost and not all, the TTL takes what they held and nothing is red |
| `NoHalfWrittenFile` (`lake`) | layout.py:99-101 "A reader globbing the lake must never see a half-written file" | of two exporters of one window, one renames the staging file the other has just truncated |
| `MarkMovesForward` (`migrations`) | 140:16-17 "the watermark only ever moves forward", runbook.md:146-147 | a watermark the exporter writes between 140's copy and its DROP is dropped with the old table |
| `CanResume` (`rollups`) | rollups.py:16 "it can be resumed after a failure" | a backfill's first chunk moves the rollup's earliest row to the start of its window, where every later window of the command ends |
| `EmptyRollupIsFilled` (`rollups`) | cli.py:385-390 means `raw_max` for an empty rollup | the earliest minute of no rows is 1970 and not NULL; the window ends there, and the command raises |
| `NothingCountedTwice` (`rollups`) | cli.py:367-369 "it cannot overlap what the view already covers" | a span that lands inside the window after it was computed is counted by the view and by its chunk |
| `GapIsSeen` (`rollups`) | rollups.py:47 missing_spans are "Spans present in raw but not represented in the rollup" | it compares 48 hours of raw with 7 days of the rollup: rows that were counted and have expired make up for rows that were missed |
| `GapIsReachable` (`rollups`) | cli.py:353-355 answers a gap with "run: telemetry-engine rollup-backfill" | a row that lands between 110's DROP and CREATE lies behind the rollup's earliest row, where every window ends |
| `ResetInvalidates` (`backpressure`) | backpressure.py:15-16, 25-26: a restart of the collector in mid-run invalidates the run | one before the first sample, after the last (the settle window), or between two with the counters caught up, leaves the run valid |
| `UpstreamLossInvalidates` (`backpressure`) | backpressure.py:27-28, 531-533: spans lost upstream of Redpanda invalidate it | what the collector drops before sending is in neither term of `unaccounted` |
| `RecoveryIsMeasured` (`backpressure`) | lag.py:153-154: no "fabricated data that reads as measurement" | without the topic's metadata `read_lag` returns a total lag of 0, and it is taken for the recovery |
| `NeverLeftFrozen` (`backpressure`) | backpressure.py:759 "Never leave the stack frozen because a run failed midway" | the unpause is the one command of the run with `check=False`, and it may fail unseen; a killed process never reaches it |

### What modelling has shown besides

The models allow the following, too, and no text of the repository says otherwise;
each is a thing to know when operating the engine.

* Rows are in the lake twice after a crash (`RetryDoesNotDuplicate`), a rewind into
  the middle of an old file, or two exporters at once whose horizons differ.
  `OneCopyUnlessInterrupted` excludes the first two by its premise; `ColdExport` has
  one exporter, and `Lake`, which has two, has no horizons.
* A first run over an empty `spans_raw` starts in 1970 and plans, counts and marks
  every hour since: slow, and harmless.
* A forward `--since` makes the archive begin there: what lies before is never
  exported. Hence `origin` in `Coverage` and `NoSilentLoss`.
* A file edited while a run is applying it is recorded with the checksum of the
  new text, because `Migration.sql` reads the file again at that moment: the
  drift is never reported. `AppliedOnce` says that it is not applied again either.
* Between a sync's insert and its reload spans still fall to `__other__`;
  `OtherMeansUnregistered` speaks of what a *finished* sync has reported.
* Two backfills at once count their common window twice. `backfill`'s docstring
  leaves that to the caller, and so does `CountedOnce`.
* A file committed between `open_lake`'s listing and its count raises a mismatch
  though nothing is wrong; one committed after the check is read unchecked.
* A worker that dies makes `run_load` raise, and what the others have sent is not
  reported. `TallyIsWhole` says only that it returns no partial sum.
* The rate limiter grants spans, whole traces are emitted, and the excess is
  never debited: a worker may exceed its rate by almost a trace for every
  allowance (`Paced`).
* `record` writes the lag of an empty snapshot into `pipeline_health` as 0. Hence
  `LagCoversBacklog` speaks of partitions that were read.
* A file need not begin where the watermark stands or end there: after a crash
  before the first watermark, a late row older than the oldest makes the next run
  begin earlier, and with a margin of three ticks and an hour of four a file of
  the first run is passed with its start inside a window of the second. What
  holds, and `NoFileStraddlesWatermark` says, is that the watermark never stands
  inside a file.
* The view of 110 and the watermark table are the only objects a run that is cut
  short can leave missing while everything before is recorded: the proof of
  `UndisturbedRunsSucceed` had to name exactly these two (`MayBeDropped`).
* Rows that are delivered twice hide as many lost spans from `spans_accounted`
  (`extra` in `LossIsClaimed`); rebalances after the baseline are not looked at.
* `reconcile` exits 0 when it refuses to shrink a topic, and altering a config
  puts every key the file leaves out back to its default, those of another
  checkout's file included. `SuccessIsUsable` therefore asks for a config of
  *some* file that was applied.

## 4. Proofs

TLAPS checks every theorem for all values of the constants that satisfy the
modules' ASSUMEs. Each safety theorem has the same three steps: the invariant
holds initially, every action preserves it (one step per action), it implies the
property.

Two techniques recur. A module that keeps a bound on a counter or an arithmetic
window has its arithmetic in lemmas of its own, so that the proofs of actions see
facts and not formulas. And where a property is about a recursive function or a
fold (`Loops`, `SumFunction`, `Replay`), the library's induction theorems cannot
be used, since they take operators as parameters. The proofs induct by hand:
`Smallest` (every set of numbers has a least one, from `NatLessThanWellFounded`)
gives `Upwards` (a set of numbers with 0 and closed under successor is all of
them), and each induction is stated as the set of the numbers it holds for.
That a recursive definition means what it says (`LoopsByCalls`, `SumByParts`,
`ReplayByFiles`, `FoldsExist`) is proved the same way: a function that satisfies
the equation exists for each bound.

**ColdExportProofs.** `TypeCorrect`; `CoverageHolds` and `LossIsNeverSilent`, which
say of a row that some file was made from it and nothing of that file's values,
assume `MaxLate <= Margin`, which is what the lag margin is for. `Coverage` alone
is not inductive: between `Plan` and `Mark` it depends on the run's locals.
`CoverageInv` adds that files lie within their windows (`FilesFitWindows`),
that no row can land below a run's horizon any more (`Settled`), and, per
program counter, what the window in hand has established so far (`Progress`): a
counted window has at least the rows that are still hot, a verified staging file
has as many rows as were counted and so all of them, a committed one is in the lake.
`FilesMatchHolds` is about the values: a file that is committed has the
fingerprint of its own rows (`Matching`), whatever the stream has made of them.
The staged file was compared with a fresh query, not with its rows as they were
when they were streamed; that the two are the same rows follows from the counts
and from `CoverageInv`'s reason, that none is added below the horizon. It assumes
as much of lateness. `FileInOneDayHolds` and
`OneCopyHolds` need no assumption on lateness. Their invariant `FilesInv` says
that a file's rows are its window's and its window ends by midnight (`FilesFit`),
and that without a crash or a rewind a run's cursor is the watermark and every
file ends by it, but the one just committed (`RunsAbut`): so a new file begins
where all others have ended (`FilesApart`).
`NoFileStraddlesHolds` allows crashes, so files of several runs overlap. It
assumes `Width = Hour`: every run plans with `DEFAULT_WINDOW` (export.py:523),
and no command sets another. Then a window is cut by a multiple of the hour, by
a midnight or by the horizon (`PlanEndIsCut`), and an instant before that cut has
no later cut itself (`CutFact`); a file ends by the cut of its
start and by every later run's horizon (`FilesEnd`), and so a window that begins
before a file's end and moves the watermark past the file's start moves it past
its end (`MarkKeepsStraddle`).
`ArchiveImplemented` is the refinement: assuming `MaxLate <= Margin`, each step but
the two in which an operator interferes from outside (`Interferes`: the delete of
`--since`, a loss of files) is one of `Archive` or a stutter (`StepIsOfAnArchive`),
for any number of rewinds and losses before and after it; rows arrive above the
archive's horizon (`LandArrives`), a `Mark` passes only rows that `CoverageInv` says
are kept (`MarkPasses`), and so does the insert of `--since` (`RewindWritePasses`).

**MigrationsProofs.** `MigrationsTypeCorrect`; `RecordedInOrderHolds` for any
catalogue and *any number of overlapping runs*, which TLC cannot afford: records
are never withdrawn and each run has recorded all files before the one in hand
(`OrderInv`). `AppliedOnceHolds`: while no two runs overlap, the snapshot of the
run under way is still the table (`SnapshotsHold`), and each execution beyond
the record is accounted for by a crash (`Accounted`).
The other three are about the files themselves and assume `Catalogue = Shipped`
and the exporter's table: the catalogue that ships, and any number of releases of
it, runners, crashes and edits. `WatermarkSurvivesHolds` from `KeptInv`: the old or
the new watermark table holds what was found, and a run about to DROP the old one
has it in the new. `UndisturbedRunsSucceedHolds` from `BuiltInv`: no object is
there before its file's turn (`InTurn`), what recorded files make is there, except
what 110 and 140 may have dropped (`Made`, `MayBeDropped`), one of the two
watermark tables is there throughout the engine change (`OneOfTwo`), and a run has
made what precedes its statement in the file in hand (`SoFar`).
`RecordedMeansBuiltHolds` uses the same invariant on one side (`AllMade`), and on
the other computes what an undisturbed run makes of an empty server, file by file
and statement by statement (`ObjectsAreHomes`).

**CardinalityGuardProofs.** `GuardTypeCorrect`; `OtherMeansUnregisteredHolds`
from `Visible` (what a sync reported is in the dictionary, and the dictionary in
the table: inserts only add, so an older dictionary is never reloaded);
`NoOrphanDimensionHolds` from `ValidRegistry` (what a sync has loaded names only
columns, whatever happens to the file later); `BudgetPerSyncHolds` from
`Bounded`, by cardinalities: each insert adds at most a budget to the table, and
the minute's keys are values of the table and the two sentinels. No run checks
`BudgetPerSync`: a small instance has hardly more values than the bound allows.

**RollupsProofs.** `RollupsTypeCorrect`, with the window arithmetic in lemmas
(`WindowEndFact`, `ChunkFact`). `CountedOnceHolds`: what a backfill has yet to
read of its window is not in the rollup (`Ahead`). It is so when the window is
computed, because the window ends at or before every counted row, whatever
landed between `plan`'s two queries; it stays so because rows that land later
are `late` and no other backfill is under way (`Alone`). `FilledSoFarHolds` needs
only that a row in `spans_raw` has not expired (`FilledInv`): it holds for
overlapping backfills too. `PlanIsRightHolds`: between `plan`'s queries rows land,
expire and are counted, but what the first found is still at most the number of
rows that ever landed (`Planned`); and a sum of counts is at least the number of
rows counted, exactly that when none is counted twice (`SumFact`, by induction
over the number of rows). So a smaller sum means a row that is not counted.

**LakeProofs.** `LakeTypeCorrect`; `QueryIsHonestHolds` for any number of
exporters, windows and batches: an exporter that shares its window with nobody
is alone with its staging file (`Alone`), which is there until it is renamed, holds
no mixture, and is whole once it is verified (`Staged`), so a committed one is (`Committed`), and committed files are
never taken away again, which is why a listing is still good when the query
reads (`Reader`).

**PipelineProofs.** Of the traces, `TraceNestsHolds` for loops of any number of
calls: each call or tool begins at the cursor and moves it to its end
(`ThenInOrder`), by induction over the calls (`AllLoopsInOrder`). Of the workers,
`LoadTypeOKHolds` and `PacedHolds` for any rates and delays: `LoadInv` has
the bound of a worker's credit, and that what it has emitted, may still emit and
keeps as credit is no more than `Highest` times its age plus the overrun of one
trace for each allowance used up (`Spends`); whatever the profile, the rate is at
most `Highest` (`RateIsBounded`). Of the parent, `TallyIsWholeHolds`: where it is, a worker has
been started (`Workplaces`); what it has collected has exited (`Collected`); a
worker that reports has nothing in its queue (`Flushed`); what it has reported is
what it has sent (`Reported`).
Of the way to the tables, `IngestTypeOK` and `LagCoversBacklogHolds` from
`IngestInv`: a block begins where the group stands, or where retention has let it
begin (`BlockFits`), and the rows of the views it has been through are in the
tables (`BlockStored`); the offset the reader has of a partition and the backlog it
had when the reading began are together no more than the high watermark it has
read, or is yet to read (`ReadingCovers`).
`DeliveryImplemented`: every step is one of `Delivery` or a stutter, an action at
a time (`SendKeepsAll`, `InsertStores`, `CommitSettles`, `ExpireLoses`, ...).

**BackpressureProofs.** `BackpressureTypeCorrect`, and the two other properties of
the run for any length of load, any number of mishaps and any thresholds.
`RecoveryIsRealHolds` from `Running`: ClickHouse is frozen only between the stall
and the release, or once the run has failed, and the sample in hand has a late
time only if it was begun after the release. A sample begun earlier keeps its
earlier time, however late its two requests are answered, so that it never is the
recovery. `LossIsClaimedHolds` from `Balanced`: what the collector has sent since
the scrape is in rows, in the topic or lost (`Behind`), up to what is `extra`.

**BootstrapProofs.** `BootstrapTypeCorrect`; `SuccessIsUsableHolds` for any
number of operators, any versions of `topics.yaml` and any outages. `Good(o)`:
the topics a reconciler is past are as its file wants them, and what it has
listed is no more than there is. Every step of anybody but a nuke is `Steady`:
topics only grow, and a config is only replaced by one of a file that was
loaded. So what one operator has established no other takes back.

### Model-checked only

* Liveness: `EventuallyArchived`, `EventuallyMigrated`, `EventuallyVisible`,
  `EachIsDecided`. Fairness and ENABLED are out of this prover's reach.
* The violated claims, whose refutation is a counterexample.

Every other property of the passing runs is a theorem. Some theorems have no run:
`FileInOneDayHolds` (windows wider than an hour), `BudgetPerSyncHolds`, and the
types of `Migrations`, `Lake` and `Bootstrap`, whose runs have deeper things to do.
That two `migrate` commands or two syncs overlap is in the theorems alone, too:
they allow any number of `Runners` and `Syncers`, the runs have one.

### What the theorems assume

| theorem | assumes | because |
|---|---|---|
| `CoverageHolds`, `LossIsNeverSilent`, `FilesMatchHolds`, `ArchiveImplemented` | `MaxLate <= Margin` | it is what `DEFAULT_LAG_MARGIN` is for; with a smaller margin `Coverage` is false |
| `NoFileStraddlesHolds` | `Width = Hour` | `DEFAULT_WINDOW`, the only width a command plans with |
| the three theorems on the shipped files | `Catalogue = Shipped`, the watermark table's name | they are about what is in the files |

The others hold for all constants that satisfy the modules' ASSUMEs.

## 5. Not modelled

* **Latency measurement, dashboards, web dashboard**: queries over what is
  stored, and generated JSON; no state, and their correctness is a query's.
* **Configuration, logging**: read once, formatted.
* **Emitters**: token counts, tenant mixes and the pool of the KV cache are
  draws and arithmetic of floats that no other component reads; the HTTP endpoint
  is a sleep per request (the experiment's probe of it is in `Backpressure`);
  with one worker `run_load` calls `_run_worker` itself, without the queue.
* **Backpressure**: `_integrate_target` (a numeric integral, kept as the spans a
  phase is to produce) and the percentiles of the probes.
* **Lake**: arithmetic of `stats` and `duplication`, path formatting.
* **Rollups**: aggregate columns; `spans_1h`, which no command writes.
* **Guard and registry**: parsing, forbidden attributes and duplicate names are
  checks at load time of a pure function.
* **Collector**: the batch processor's timer and the metrics' exposition.
* **Stack scripts**: lint, tests and other targets without an effect on a stack.

Known simplifications: of a row's 25 columns in a file the exporter's model keeps
one that is summed, one whose distinct values are counted and whether the rest is
as it was; columns and types of tables are left out of `Schema`;
`--hours` is a whole number of ticks; the top-K window is an ageing counter per
value; a pause of ClickHouse stops its consumer and not its other clients; rates
and credits are whole numbers of `Unit`s.

What would come next: two runners in `migrations` and two syncers in `guard` (the
proofs allow any number, the runs have one), two exporters whose horizons differ
in one model with a reader, the shipped files' theorems for files added later, which
need a condition on a file instead of the list, and a bound on what
`OneCopyUnlessInterrupted` leaves open, how often a row can be in the lake after a
number of crashes.
