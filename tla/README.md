# AgentBrain in TLA+

AgentBrain copies the objects of a source system (Salesforce, or a plugin) into
Delta tables on S3. A cron scheduler starts syncs; a sync connects to the
source, loads its state from S3, plans every object (full, incremental or
skipped), extracts and writes the objects concurrently, commits each of them to
its table's transaction log, validates what it extracted, and saves the state at
the end. Backups, checkpoints, plugins, health checks, profiles and metrics stand
around it.

This directory holds TLA+ models of that program, the TLC configurations that
check them, and proofs that TLAPS checks. Everything is translated from the Go
source; a comment at the head of each module names the files. The map from
definitions to source lines, the list of hazards, runs, findings and theorems is
in `PROJECT.json`.

    tlc -config DeltaTable_single.cfg MC_DeltaTable.tla
    tlapm DeltaTable_proofs.tla

## The system's parts

| part | source (under `src/internal`) | state it keeps | operations | hard behaviour |
|---|---|---|---|---|
| Delta table | `storage/delta/{log,table,checkpoint,actions}.go` | log entries, checkpoints and `_last_checkpoint` on S3 | Initialize, Commit, Snapshot, MaybeCheckpoint | PUT with no precondition, uploads reported as failed, retries, crashes between writes |
| retry library | `retry/*.go` | state, count and time of each breaker; metrics | Execute, canExecute, recordResult, Reset, record... | unlock between two looks at the state, late results, callbacks that chain |
| recovery manager | `sync/recovery.go`, `sync/errors.go` | one breaker, recovery states on S3 | ExecuteWithRetry, ResumeFailedSyncs | objects share the breaker, states survive restarts |
| sync engine | `sync/engine.go` | state in memory, error aggregator | Run, syncObject | workers under a semaphore, map without lock, one save for many commits |
| planner, schemas, state file | `sync/{planner,state}.go`, `schema/*.go` | `sync_state.json`, `schema_history/` on S3 | Plan, Diff, Load, Save, SaveSchemaVersion | three writes for one fact, errors taken for absence |
| sync scheduler | `scheduler/scheduler.go` | cron entries, context | AddJob, Start, Stop | runs that overlap, Stop while an entry fires |
| S3 client, Parquet writer | `storage/*.go` | the client's breaker | Upload, Download, Exists, Delete, List, WriteRecords | ambiguous results, a breaker that every operation shares |
| checkpoint manager, table validation | `storage/delta/{checkpoint_manager,validation}.go` | checkpoints, the marker | MaybeCheckpoint, CreateManualCheckpoint, Validate..., cleanup | frequency decided by a marker that may be lost or set back |
| consistency tracker | `sync/consistency.go` | reports on S3 | ValidateSync | staleness of what no longer runs, an early return before the save |
| state migration | `sync/state_migrator.go`, `migration/` | versioned states | Load, Save, MigrateData | releases forwards and back over one file, a failing step |
| Salesforce connector | `connector/salesforce/` | token, bulk jobs | DescribeObject, BulkQuery, RESTQuery | producer goroutine and channels, polling, retried POSTs |
| connector registry | `connector/registry.go` | two maps behind one lock | Register, Create, Unregister | - |
| backup | `backup/` | backups, manifests, schedules | CreateBackup, DeleteBackup, Validate..., Restore, Schedule, Start, Stop | stages and crashes, a lock held while waiting |
| plugins | `plugin/` | plugin table, watchers, processes | Start, Stop, Load, Unload, Reload, CheckHealth, StartPlugin... | watcher against lock, start after stop, processes and their entries |
| health monitor, alerting | `monitoring/{health_monitor,alerting,...}.go` | rules, alert states | Start, Stop, performHealthCheck, ProcessAlert | channels closed twice, cooldown against delivery |
| validation, drift | `validation/*.go`, the validation stage of `sync/engine.go` | results of the run, a window of snapshots per field | ValidateBatch, GenerateReport, UpdateStats, DetectDrift, Save/Load | retried attempts, unlocked map, a mean of zero |
| runtime monitor | `security/runtime.go` | events, counts, metrics | RecordEvent, Start, Stop, report | cleanup without lock, a report under three locks |
| profiler | `profiler/*.go` | operations, samples | TrackOperation, PerformCleanup, report | recursive read lock, one call recorded in two steps |
| contracts, scanners, SDK, builder, metrics analyzer, observability, config | same names | reports, files | - | sequential; see "Not modelled" |

How they interact. `Scheduler` calls `Engine.Run` in a goroutine per activation.
`Run` calls the recovery manager for connect, discovery and every object, which
calls `syncObject` through its breaker; `syncObject` starts the connector's
producer goroutine, reads its channels, validates every batch, and calls the
Delta table, whose commit goes through `retry` with a second breaker, and the S3
client, which has a third one. At its end `Run` makes the validation report,
asks the consistency tracker, and saves the state. The backup engine opens
tables of its own on the same bucket. All state that outlives the process is on
S3; nothing locks anything there. The main program that wires these parts is not
in the repository (`cmd/` holds the plugin builder only), so where wiring matters
the models take the most general one the code allows. Several parts are built by
no other part: the checkpoint manager, the migrating state store, the plugin
manager, the sandbox and the profiler are constructed in tests only. They are
modelled as what they offer to a caller.

What makes each part correct, in one line each:

- the log has no holes and keeps what Commit acknowledged;
- an open breaker is left only after quiet time and a breaker never wedges;
- the retry budget survives restarts;
- a watermark never passes data that was not committed, and success means success;
- versions follow schemas and files stay readable together;
- nothing runs after Stop, and Stop returns;
- what an extraction commits is the whole answer to its query;
- a completed backup has every file of its snapshot, and both validators agree on it;
- a reader never has to replay a log that grows without end;
- staleness is reported, and a state file is never forgotten by an upgrade;
- a health condition that lasts is reported again and again;
- reports and metrics agree with what happened, whatever ran while they were made.

## Modules

| module | role |
|---|---|
| `AppendOnlyLog` | abstract specification: a log that only grows at its end and acknowledgements that stay true |
| `DeltaTable` | the Delta table and the writers that sync an object into it |
| `CircuitBreaker` | `retry.CircuitBreaker` with concurrent callers |
| `S3Client` | extends `CircuitBreaker`: the operations of `storage/s3.go`, retried around it |
| `SyncBreaker` | the other breaker, `sync.CircuitBreaker`, one operator per stretch under one lock |
| `Recovery` | the recovery manager; extends `SyncBreaker` and drives it from several objects at once |
| `SyncEngine` | `Engine.Run` with its workers, source, tables and state file |
| `SchemaTracking` | plans, schema versions, history and metadata of one object |
| `Extraction` | one query: producer, channels, a plugin's forwarding goroutine, the worker |
| `BackupEngine` | CreateBackup, DeleteBackup, the validators and restore |
| `BackupScheduler` | extends `BackupEngine`: jobs, Start, Stop, cleanup goroutines |
| `Scheduler` | the sync scheduler over cron |
| `CheckpointManager` | a table with its own checkpoint manager, an operator and cleanups |
| `Consistency` | the consistency tracker over many runs and hours |
| `StateMigration` | the state file across releases |
| `Upkeep` | composes the last four |
| `PluginManager`, `Sandbox` | the plugin manager with watchers and health checks; the processes |
| `Plugins` | composes these two |
| `HealthMonitor` | the monitor's loop, Start and Stop, the alert manager |
| `Validation` | rules, batches, results and report of one run |
| `DriftDetector` | the window of snapshots, its stored history, the three comparisons |
| `RuntimeMonitor` | events, checks, metrics and report of `security/runtime.go` |
| `Profiler` | tracked operations, samples, cleanup and report |
| `RetryMetrics` | retry metrics, instrumented policies, breaker metrics |
| `Observation` | composes the last six |
| `MC_*` | instances for TLC: symmetry sets and structured constants |
| `*_proofs` | theorems and proofs of the modules they extend: `DeltaTable_proofs`, `Requests_proofs` (breaker, S3 client, extraction), `Recovery_proofs`, `SyncEngine_proofs`, `SchemaTracking_proofs`, `Backup_proofs` (engine and scheduler), `Upkeep_proofs` (scheduler, migration, checkpoints, sandbox), `Observation_proofs` (validation, drift, runtime monitor, profiler, metrics) |

No module uses RECURSIVE operators.

`Upkeep`, `Plugins` and `Observation` put parts that share no variable in the
code side by side. A variable `part`, chosen in the initial state, says which of
them a behaviour is about; the others stay as they began. Interleaving them would
multiply the states and show nothing, because no step of one reads or writes what
another one has. Parts that do share state are composed for real: `S3Client` over
`CircuitBreaker`, `Recovery` over `SyncBreaker`, `BackupScheduler` over
`BackupEngine`, the producer, wrapper and worker of `Extraction`, the watchers,
the health checker and the manager of `PluginManager`, the workers of
`Validation` with the engine that retries them.

### DeltaTable

`log`, `checkpoint` and `marker` are the objects under `_delta_log/`; `pc`,
`adds`, `latest` and `attempt` the locals of each `syncObject` in progress.
Listing the log and writing an entry are two steps, as they are two requests.
Every PUT has three outcomes: applied and reported, applied and reported as
failed, not applied. `Retry` is the error path of `retry.Execute`, which starts
`commitOp` again at its listing. Whether an error is retryable depends on its
text, so both are allowed. An entry is the set of files its Add actions name: no
caller emits Remove actions, and replay adds by path. `UploadCheckpoint` is the
snapshot and the upload in one step: the versions it reads were all written
before, and with one writer they do not change any more (the property
`MarkerSound` is claimed for one writer). The S3 client's own retries of an
upload repeat the same bytes under the same key and add no outcome.

`Initialize` is skipped by the code when a plan has no schema; the connector in
the repository always gives one, and the model always initialises.

### CircuitBreaker, S3Client, SyncBreaker and Recovery

Time is one bit, `elapsed`: whether the reset timeout has passed since the last
failure. A failure clears it; an action of the environment sets it again. The
read of the state and of the clock under one read lock is one step; every unlock
is a step boundary. `CircuitBreaker.Reset`, which only the registry calls
(`circuit_breaker.go:307`), is part of `Next` and of the proofs; `S3Client` drives
the breaker and has no caller of it.

`S3Client` gives each caller an operation, a step in it and an attempt count.
`Attempt` is `canExecute`'s first look, `PromoteCall` its second, `Answered`,
`NoSuchKey` and `Failed` the three ways a request ends, `Wait` the pause between
attempts. What the key holds is one of four values: absent, what this caller
wanted, something older, cut short. A download of a key that is not there counts
as a failure of the breaker; `Delete` goes around executor and breaker.

`Recovery` has one `ExecuteWithRetry` per object at a time (the engine plans an
object once per run). A recovery state is its attempt count and whether
`NextRetry` has passed. `due` becomes true with the second attempt's delay only
by an action of the environment; after the first attempt the delay is zero. The
clock's granularity is not modelled: `CanRetry` asks `time.Now().After` of a
moment taken a few instructions earlier, which Go's nanosecond clock lets
succeed. `runs` and `lost` are history: the operations run since the last
success or resume, and those of them that no recovery state counts.

### SyncEngine

The k-th change of an object is the number k and a moment is the number of changes
so far, so watermarks, query results and table contents are numbers and sets of
numbers. The moment a query is answered (`asked`) and the moment the watermark is
taken (`mark`) are two steps, and `Change` may come in between. The assignment to
`state.Objects` begins with the step that takes the watermark and ends with
`StoreState`; two workers inside it race, which may lose one of the writes or end
the process (the Go runtime detects some of these races), and the model allows both.
Any error of the state read gives an empty state, as `StateStore.Load` does. `sem`
is the number of tokens in the semaphore's channel: `Acquire` sends one, which
blocks while the channel is full, and `Release` are the deferred calls at the end of
the goroutine, which every way through `syncObject` leads to. The capacity is chosen
in the initial state. Connect and discovery change nothing when they fail, so a run
that fails there is a run that did not start. `SkipFailedObjects` makes the recovery
manager report a refused object as done. The consistency check is only the early
return it may cause. With `SkipFailedObjects` a refused discovery yields no objects
at all; `StartRun` covers it with a plan that skips every object. Parts that other
modules model in detail are abstracted here to what their properties promise: a
commit that may be applied though it failed, a bounded number of attempts, a mode,
an answer that is whole or an error.

### SchemaTracking

A schema is its set of fields (name and type); the hash covers names and types
(`schema.go`, `ComputeHash`), so equal hashes are equal sets, and
`Diff(...).IsBreaking` is that an old field is missing from the new set. The
constant `Evolution` is the sequence of schemas the source goes through, in the
runs one that adds a field, changes the type of another and then goes back to
the first. `LoadMayFail` and `MayStop` switch the failures on, because what holds
depends on them: versions follow schemas only while the state file can be read.
`strayed` is history: a run has ended without the schema of the newest files
being the saved one, and from then on the next plan compares with the wrong one.

### Extraction

A batch is its number in the server's answer, so "whole" is the sequence 1..n.
`producer` walks through the goroutine of `bulk.go` or `rest.go`: describe, the
POST with its retries, the poll loop, the result pages, one send per batch, and
the two `close` calls in the code's order, errors first. `records` and `error` are
what is in the channels' buffers. `worker` is `syncObject`: it ranges over the
records, writes each batch, then looks for an error, then commits. `wrapper` is the
goroutine of `plugin/connector.go` that forwards a plugin's channels; it stands
in between when `path = "plugin"`. `body` is the one `strings.Reader` that all
attempts of a POST share (`bulk.go:38`, `client.go:172`): the first attempt that
sends empties it, and what arrives afterwards is empty and refused, which is the
reason why retries leave one job and not several.

### BackupEngine and BackupScheduler

`manifest[b]` and `stored[b]` are what S3 holds under a backup's prefix; `snapshot[b]`
is what `Snapshot` returned when it was made. `holder`, `step`, `todo`, `files` and
`failed` are the one `CreateBackup` that has the engine's mutex. `CopyLog` and
`CopyData` copy one object each (the data files in any order, as the code's workers
do), `PutManifest`, `PutChecksum` and the final save follow; each PUT is refused,
applied, or applied and reported as failed. `DeleteBackup` snapshots the keys of
a backup and `DeleteKey` removes them one by one, with no lock. The engine opens
tables with a log prefix that has no `/` at its end (`backup.go:121`), so that the
entries the sync engine writes are listed and cannot be read; both kinds of log
are in the model (`slashed`, `joined`). `RestorabilityErrors` is
`ValidateRestorability` with its three checks, `Restorable` what `ValidateRestore`
accepts, and `RestoreFromBackup` what a restore may have uploaded when it returns.

`BackupScheduler` adds the cron job, whose goroutine waits for the engine and then
for the scheduler's mutex to record its result; Stop, which keeps that mutex while
it waits (`scheduler.go:139-160`), for the jobs or for its timer; and a cleanup
goroutine per Start, none of which Stop ends.

### PluginManager and Sandbox

A method that holds `Manager.mu` from its first line to its last is one step;
`Start` (which loads one file after the other), `Stop` (which closes the watchers,
then stops the health checker, then unloads) and `CheckHealth` (which holds the
checker's own lock and asks the manager) are several. The version of a file is its
modification time; `opened` keeps what `plugin.Open` has loaded under a path for
ever, as Go does. `watcher[w]` has one remembered `LastModified` for all files, as
`manager.go:485` has. A second close of a channel sets `panicked`.

`Sandbox` is one plugin name: its table entry, its processes, and callers that
start, stop and restart it, several at once, as the handlers of `api.go:261-288`
do. There is no lock to model: a call is as many steps as others can fall between.
`StartPlugin` checks, `Launch` starts the process and writes the entry, `Launched`
marks it as running; `StopPlugin` marks, `WaitReturns` or `WaitTimesOut` (ten
seconds) removes whatever entry the name has by then; the restart handler goes
through both with the context of its request. An orphan is a live process that is
in no entry, was not killed and is waited for by nobody. Calls that overlap do
leave orphans: `OrphansNeedOverlap` says that only they do (`alone` is history: the
callers no other call has overlapped), and that a process some stop took on is
never one, whatever is called at the same time. The monitors of resources, which
only log, are left out.

### CheckpointManager, Consistency and StateMigration

A commit is a sequence of actions that add and remove files, `checkpoints` what the
checkpoint files hold and `marker` the version `_last_checkpoint` names. The writer
and an operator each have a job that snapshots, uploads and marks in three steps,
any of which may fail or be cut off. `FindValidCheckpoint` skips a checkpoint whose
lookup or download fails (`validation.go:343`, `352`) and goes on to an older one,
which cleanup may have given up; its argument `unread` is the set of those, and
`CheckpointsRecover` quantifies over all such sets: a checkpoint that was given up
is found only if at least `MaxCheckpoints` newer ones could not be read.
`CleanupOldCheckpoints` declares checkpoints deleted and deletes none, because
`deleteCheckpointFile` is a stub that reports success: neither `MaxCheckpoints` nor
the retention has an effect, whatever `docs/checkpoint-management.md:28` says. A
request for version -1 writes a checkpoint named -1. After a checkpoint failed at a
fixed frequency, the next one is due a whole frequency later: hence the two bounds
in `BacklogBounded`.

`Consistency` keeps the age of each object's state. Planned objects are synced or
not, the four rules compare ages with windows and with one another, and with
FailOnViolation the run returns before it saves (`engine.go:452`), so that one
object past four times its window blocks every later save. An object without
state counts as synced now (`consistency.go:167`) and one that is quiet as stale,
whereas `docs/consistency-validation.md:56` speaks of objects that have not been
synced; `StalenessReported` is claimed of objects with a state.

`StateMigration` lets releases follow one another in both directions over one
file. Release 0 uses the plain `StateStore`, as this commit's engine does; later
ones use `MigratableStateStore` with the migrations up to their version, in the
three validation modes. Strict validation compares a map with a `*SyncState` and
refuses every real migration; a wrapped file read by release 0 gives a state with
a nil map, into which the engine assigns (`engine.go:665`) or which it saves under
an empty source. `misread` marks runs that could not read the file.

### HealthMonitor

`loop` is the monitor's goroutine, `stopClosed` and `doneClosed` its two channels,
which are made once; `stop[c]` is where each caller of Stop is. A check hands what
fires to the alert manager one alert at a time; the cooldown starts before the
notification goes out (`alerting.go:94`). `collectMetrics` returns the same figures on
every check, so the thresholds of the rules decide: `reading` is on which side
of them the figure is. A second Start after Stop, and two Stops at once
(`health_monitor.go:261`), close a channel twice, and the process is `crashed`.
`reachable` is the set of channels whose endpoint answers.

### Validation and DriftDetector

A record maps fields to values, of which the model keeps Go type, number and the
form of a text. `ValidateRecord`, the three built-in rules and the custom rules are
operators; `Validate` is one batch of one attempt, sampled as the code samples, and
counted by `AggregateFieldMetrics`. `ValidationAssumption` says that every record is
sampled, because the engine sets a rate of 1.0 (`engine.go:200`): with less, the
errors of a report are those of a sample and the property would compare two
different things. An attempt that fails leaves what it wrote and
is started again by the recovery manager with new results; `Commit` hands the
results over, and `SaveReport` grades them.

`DriftDetector` is the detector of one object. A snapshot has a population rate,
shares of types and a mean, or none; averages stay sums, so that a change over
nothing is above every threshold and nothing over nothing is not. Save, load, merge
(one snapshot a second) and a restart are actions. `InOrder` is the sort by time of
`mergeHistory`, said by its result. `DriftAssumption` has the thresholds where the
code has them, below the change of a whole. `DetectDrift` is called by nothing in
the engine (`docs/data-validation.md:279` promises alerts from it): the property is
about what it would say.

### RuntimeMonitor, Profiler and RetryMetrics

`RuntimeMonitor`: an event is counted and put into the buffer under one lock; the
check records what it finds step by step; `ReadBuffer` and `ReplaceBuffer` are
`cleanupOldData`, which takes no lock, so an event may be lost between them, and
either its reading of the slice or its assignment may be torn by what runs at the
same time: then the monitor is `broken`, and nothing is claimed of it any more. The
report's three readings are three steps.

`Profiler`: a percentile is read off sorted durations; `Ranked` names the k-th
smallest without sorting. `pending` are the goroutines that wait for the analytics'
write lock. The report holds the read lock and takes it again (`analytics.go:235`,
`219`), and Go's RWMutex keeps new readers out while a writer waits:
`TrackedCallsReturn` is stated up to that one deadlock. Stop never returns
(`profiler.go:97`, `107`, `159`).

`RetryMetrics`: a policy's OnRetry chain is the sequence `hooks`; executions and
their records are separate steps, and `Elapsed` is how long an execution may have
taken when it is recorded; `Reset` may come at any time. Callers of a breaker report
the states they saw in any order, because each does so on its own after its call.
`GetHealthStatus` takes the lock twice (`metrics.go:250-251`) and is two steps,
`GetRetryMetrics` and `GetBreakerMetrics`, between which anything may be recorded or
reset; `health` keeps its verdict and whether the outcomes deserved it when the
retries were read. The counts and rates of a breaker, which the verdict does not
look at, are left out. In a behaviour of `Observation` the collector serves either
the retries or the breakers; `OneAtATime` keeps, in the second case, one execution
at a time. Only TLC is bounded so; the theorem is about `RetrySpec`, where both are
fed at once.

### Scheduler

Cron is external: an entry fires at any time while the loop runs, in a goroutine
of its own. A run is a sync of the source the job is named after. AddJob of a name
that is there leaves the old entry firing.

## Runs and what they show

Each property of a passing run has a mutant of the code that breaks it, kept in
the module beside the definition it changes.

| run | instance | distinct states | shows |
|---|---|---|---|
| `delta_single` | 1 writer, 5 files, versions 0..7, 3 attempts, checkpoint every 2 | 163 thousand | versions that share a file are copies, the marker is sound, refinement of `AppendOnlyLog` (no holes, acknowledged commits stay, entries never change) |
| `delta_two` | 2 writers, 2 files, versions 0..3, 3 attempts | 15 thousand | version 0 keeps describing the table and every sync returns; what is lost with two writers is absent here on purpose (see below) |
| `s3` | 2 callers, limit 3, 3 attempts of an upload and 2 of a download | 118 thousand | an acknowledged upload is stored whole, operations return, open is left only after a quiet period, the breaker recovers once calls stop failing |
| `recovery` | 2 objects, 2 retries, threshold 2, one lost record each | 486 thousand | retry budget, no start while open, every call returns |
| `engine` | 2 objects, 2 changes each, 2 attempts, 1 or 2 slots | 1.52 million | a watermark skips only what changed between query and watermark; nil means synced; a run returns, because every worker gives its slot back |
| `schema` | 4 schemas, 4 commits, crashes and lost or ambiguous writes | 12 thousand | versions move exactly with schemas; incremental files stay compatible until a run ends with the schema of its files unsaved |
| `upkeep` | scheduler: 2 names, 3 entries, 2 runs each; checkpoints: frequency 2, versions 0..4, 1 kept, 1 request, 2 attempts; consistency: 2 objects, ages to 5, window 1, drift limits 1 to 4; migration: releases 0..2, 2 objects | 550 thousand | Stop returns and nothing runs after it; the log behind a checkpoint stays short and the checkpoint found is the table, whichever others cannot be read; staleness becomes critical; a state file survives releases |
| `backup` | 1 table, 1 id, 1 job, 1 operator, 1 file, 1 log entry, 1 cleaner | 426 thousand | a completed backup is whole, both validators agree, scheduled jobs end |
| `extraction` | answers of up to 5 batches, buffer 4, 3 attempts | 32 thousand | what is committed is the whole answer, one job per query, both goroutines end |
| `plugins` | 1 plugin, 2 starts, 2 writes of its file; 2 callers of the sandbox, 2 processes | 220 thousand | calls return, watchers end, only overlapping calls forget a live process |
| `observation` | see below | 498 thousand | Stop of the monitor returns, lasting conditions alert again; a report matches what was committed; drift is judged in order; the security report never flatters; profiles agree with themselves and tracked calls return; metrics add up and no verdict of healthy was undeserved |

In `observation` the health monitor has 2 rules, 2 callers of Stop and a cooldown of
2; the validation 2 objects, batches from a set of 2, 2 batches and 2 attempts each;
the runtime monitor 3 types of event, 2 events by callers and a buffer of 1; the
profiler 1 worker with 2 calls beside cleanups and a report, 2 samples; the drift
detector 1 field with 3 kinds of statistics, a window of 3, 4 batches, 3 seconds;
the retry metrics 2 executors, 2 names, 2 attempts and 2 instrumentations; the
breakers' metrics 1 breaker and a clock up to 2.

Why the bounds are enough. The retry bound is the one the code uses in `DeltaTable`
and in uploads (three attempts) and covers "first", "again" and "last" elsewhere.
Two versions between checkpoints give versions before, at and after one; with eight
versions three checkpoints follow one another, and five files let four syncs commit
while one is half-way, or one be copied. Two objects are the fewest that share a
breaker, a map or a semaphore: with one slot a worker waits until the other has
given it back, and for ever if it does not; with two both are in the shared map at
once. Five batches over a buffer of four make the producer block; the window, the
buffers of events and of samples are smaller than what is put into them. One backup
id is enough because ids are not used twice and a backup's directory is its own; the
theorems cover any number. Two starts of the plugin manager are what it takes to
overwrite a watcher. `MaxCount`, `MaxFailures`, `MaxLost`, `MaxVersion`,
`MaxChanges`, `MaxCommits`, `MaxEntries`, `MaxRuns`, `MaxBatches`, `MaxTime`,
`MaxStarts`, `MaxPid`, `MaxEvents`, `MaxCalls`, `MaxTaken`, `MaxSecond`, `MaxHooks`,
`MaxRecords`, `MaxRequests`, `MaxAge` and `MaxRelease` are the bounds of otherwise
unbounded counters and sit in guards; `MaxAttempts`, `MaxRetries`, `MaxTries`,
`MaxCheckpoints` and, of `CircuitBreaker`, `MaxFailures` are the code's own limits.
The theorems hold for every value of them. Limits that the code counts in hours,
megabytes or hundreds are scaled down with what they are compared with.

Deadlock is checked except in `upkeep`, `extraction`, `plugins` and `observation`,
where the system really ends: a scheduler or monitor that has been stopped, a
query that is over, a process that has panicked.

### What the repository says and the code does not do

One run is refuted by TLC, and is the finding in `PROJECT.json`:

| run | property | what happens |
|---|---|---|
| `engine_watermark` | `AtLeastOnce` | a change between the query and the end of the commit is never copied (`engine.go:651` against `README.md:148`) |

Four more statements have a configuration of their own, outside the list of runs;
TLC refutes each in a few seconds:

| configuration | property | what happens |
|---|---|---|
| `Recovery_resume.cfg` | `ResumesAll` | exhausted objects are not resumed, and are refused for ever (`recovery.go:407`) |
| `SyncEngine_stale.cfg` | `OnlyThisRunsFailures` | a run reports an earlier run's failures (`engine.go:506`) |
| `SyncEngine_mutex.cfg` | `MapProtected` | two workers assign to the state map at once (`engine.go:665`, `docs/sync-engine.md:85`) |
| `SchemaTracking_mixed.cfg` | `BreakingChangesResync` | after a lost save an incremental sync adds files that contradict the others |

The following are definitions in their modules, each with the sentence it comes
from; none of them holds, and none is in a run:

| property | what happens |
|---|---|
| `CircuitBreaker.OpenRejectsCalls` | an operation starts while the breaker is open: the second look's result is ignored (`circuit_breaker.go:104`) |
| `Recovery.RefusedOnlyWhileOpen` | a caller is refused because the breaker is open when another one has just closed it (`recovery.go:92`) |
| `Recovery.GivesUpOnlyWhenExhausted` | two attempts are made, also where three are configured (`MaxRetries = 3`): the loop condition leaves no time for the wait inside (`recovery.go:290`) |
| `Scheduler.SingleWriterAssumed` | two syncs of one source run at once (`docs/delta-protocol.md:291`) |
| `SchemaTracking.VersionsIncrease` | with `LoadMayFail`, a failed state read puts the schema version back to 1 (`state.go:61`) |
| `SchemaTracking.AuditTrailKept` | a schema in the history is overwritten after a crash (`engine.go:668`) |
| `SchemaTracking.AuditTrailComplete` | the first schema never enters the history (`planner.go:74`) |
| `SchemaTracking.MetadataFollowsSchema` | the table's metadata keeps the first schema (`table.go:73`) |
| `SchemaTracking.FullSyncReplaces` | a full resync removes nothing (`engine.go:636`) |
| `S3Client.RefusedOnlyInTrouble` | reading keys that are not there opens the breaker (`docs/error-handling.md:82`) |
| `BackupScheduler.LatestIsRestorable` | a backup at version -1 has no log (`backup.go:153`; `backup/integration_test.go:99-102` creates one so) |
| `Extraction.PluginCommitsAll` | a plugin's batches are lost without an error when its context ends, or its error channel is closed while records are in the other one (`connector.go:181-184`) |
| `Extraction.PluginReturns` | the worker of a plugin's query may wait for ever: forwarding an error blocks, a connector that could not be made leaves a nil channel (`connector.go:161`) |
| `Plugins.ReloadedIsCurrent` | the watcher calls LoadPlugin, which refuses an active plugin (`manager.go:165`, `docs/plugin-system.md:227-236`) |
| `Plugins.RestartedIsLeftAlive` | a process restarted over the API is killed with the request's context (`docs/plugin-system.md:105`) |
| `Plugins.StoppedIsEmpty` | LoadPlugin works on a manager that is stopped, and nothing unloads what it loads |
| `StateMigration.LoadsAgain` | a source whose migration was refused stays unreadable in every later run |

All objects of a source also go through one breaker, so one object's failures use
up another's attempts (`recovery.go:317`), although `docs/architecture.md:114`
says that a failed object does not block others; `Recovery` models it, and no
property states it. The scheduler does not keep syncs of a source apart, and with
two writers a Delta table keeps neither acknowledged commits nor immutable
entries, which is why `delta_single` and the theorems about it assume one writer.

## Fairness

Safety is checked without fairness. For liveness: a goroutine that can go on is
scheduled by the Go runtime, and requests return, because they run under contexts
and clients with timeouts. This is weak fairness of each writer's, caller's or
worker's next step; never of beginning a call, of crashing, of a cancellation or of
a particular outcome. With a crash always possible the properties say "returns or
dies"; a restart is a return to `idle`.

- `S3Client`: time passes (`Pause`) and each operation that has begun goes on. That
  calls keep coming and stop failing are hypotheses of `RecoversOnceHealthy`, not of
  the specification.
- `DeltaTable`, `Recovery`, `SyncEngine`: each call's next step.
- `Scheduler`: Stop goes on, and a run ends once its context is cancelled.
- `Upkeep`: the scheduler's, and time passes.
- `BackupScheduler`: the backup goes on, a failed job takes its result, Stop's timer
  fires; strong fairness for the two steps that need a mutex others hold in
  between, which Go's starvation mode hands to a waiter in the end.
- `Extraction`: producer, wrapper and worker go on. Nothing makes the context end.
- `Plugins`: Start and Stop of the manager go on (of the sandbox only safety is
  claimed); strong fairness for taking the health checker's lock, and for a
  watcher's exit out of a `select`, which picks among ready cases at random.
- `Observation`: the monitor's loop likewise (strong, for the two cases of its
  select), its alerts and Stop's steps go on, time passes; tracked calls and
  reports go on. Channels are HTTP clients with a timeout of ten seconds;
  `smtp.SendMail` has none, so nothing is claimed of a monitor with an email channel.

## Proofs

All theorems are of the form `Spec => []Inv`, `Spec => [][A]_vars` or
`Spec => OtherSpec`, and hold for every value of the constants that satisfies the
named assumptions of the modules. Types are proved and not run; so are
`NoGaps`, `AckedDurable`, `EntriesImmutable` (which `delta_single` also implies,
as the refinement says more), `ClosedIffBelowLimit`, `ClosedBelowThreshold`,
`WatermarksAdvance`, `AttemptsKept` and `RestoresHaveALog`.

- `DeltaTable_proofs`: for any number of writers, `TypeCorrect` and `LogHasNoGaps`.
  The invariant `GInv` is needed because NoGaps alone does not say that a writer
  about to PUT at version `latest + 1` has seen every version up to `latest`. With
  `SingleWriter` the invariant `SInv` adds that `latest` is still the end of the
  log, and that a checkpoint equals the replay at its version;
  `AckedCommitsSurvive`, `EntriesNeverReplaced`, `MarkerAlwaysSound` and the
  refinement `TableIsAppendOnlyLog` follow. Two writers refute the first two. For
  any number of writers again, `CopiesAlwaysExact` rests on `FInv`, which says whose
  each data file is before it is in the log, and `VersionZeroKept` on `KInv`, which
  says that whoever is past `Initialize` has seen version 0.
- `Requests_proofs`, the breaker: `BInv` adds to the type that an open or half-open
  breaker has counted at least the limit. `OpenLeftAfterQuietPeriod` holds of every
  behaviour, with Reset as the one exception the property names.
- `Requests_proofs`, the S3 client: `S3UsesTheBreaker` is the refinement that carries
  both results over to the client (`S3OpensAtLimit`, `S3QuietPeriod`). `S3Inv` says
  that a caller is inside the breaker exactly while it is in a call, that nobody makes
  more attempts than the policy has, and that what is acknowledged is stored;
  `S3AckedUploadStored` holds for any number of callers and attempts, because only a
  request that put the whole object ends an upload with success, and nothing the
  caller does afterwards under the same operation touches it.
- `Requests_proofs`, the extraction: in `XInv`, `Cursor` says where the producer is in
  the answer, `Job` that there is no job as long as the body of the POST is unread,
  `Direct` that what was written and what is in the channel are what was sent, in
  order, and that the channels close after the last batch or after the error.
  `CommitsAreComplete` and `RetriesLeaveOneJob` follow.
- `Recovery_proofs`: `RInv` relates, at each point of the loop, the runs of an
  object to the attempts in its local state and to those on S3 plus the lost ones;
  the retry budget is its consequence. `OpenBlocks` needs no more than the guards
  of the three ways to start.
- `SyncEngine_proofs`: `EInv` says per object that what is saved, in memory and
  about to be stored is covered by the table and the window, at each label of the
  worker. `NilReallyMeansSynced` assumes `~SkipFailedObjects`. `SlotsCounted` says that
  the tokens in the semaphore are as many as the workers between `Acquire` and
  `Release`, and `EngineTypeCorrect` with it that they are within the capacity.
- `SchemaTracking_proofs`: both theorems assume `~LoadMayFail`; a read that fails
  puts the version back to 1. `FromSaved` says at each label how the state in memory
  and the plan come from the saved state; `LastCommitKnown`, that until a run strays
  the saved schema is that of the newest files. `SchemaTracking_mixed.cfg` shows
  that the exception is needed.
- `Backup_proofs`: `SchedulerUsesTheEngine` shows that every step of the scheduler
  is a step of the engine or leaves it alone (`Cleanups`: a cleaner deletes what it
  found expired), so that what holds of `EngineSpec` holds of scheduled backups.
  `EInv` follows `CreateBackup` from stage to stage: `Mutex` ties the stage to the
  caller that holds the engine, `Progress` says for each stage which files of the
  snapshot are copied, `Once` that a backup is not complete before its last stage,
  `Deletes` that only backups somebody asked to delete lose objects.
  `CompletedBackupsAreWhole` is its last conjunct; `ValidatorsAlwaysAgree` needs
  only the types and that version 0 is the one log entry both validators ask for,
  and `RestoresStartWithTheLog` follows from what `Restorable` demands.
- `Upkeep_proofs`, the scheduler: types and `NothingRunsAfterStop` come from the order
  of Stop's three steps (`SInv`: a stopped loop fires nothing, so that from then on
  the number of runs only falls); `UpkeepStops` is the same beside the other parts.
- `Upkeep_proofs`, the state file: `MigrationInv` says that a file has the shape of its
  version (`FileHasItsShape`) and that what a run works on holds every object of the
  file, unless the run could not read it (`WorkIsFaithful`).
- `Upkeep_proofs`, the checkpoints: `CheckpointInv` ties each of the two jobs to the
  log at every stage (`JobMatchesLog`), a checkpoint file to the log at its version
  (`FilesMatchLog`) and what cleanup gave up to `MaxCheckpoints` newer ones
  (`ExpiredIsOld`). The backlog needs one part per mode: `AdaptiveKeepsUp` counts
  from the marker, `FixedKeepsUp` says that until something fails every multiple of
  the frequency has its checkpoint. `BacklogStaysBounded` and
  `CheckpointsAreTheTable` follow.
- `Upkeep_proofs`, the sandbox: `OrphansComeFromOverlap` holds for any number of
  goroutines that call it. `SandboxInv` says that a process which was taken on is
  waited for, dead or killed (`TakenOnIsTended`), that one in the table which is not
  running is in the hands of some call (`EntryIsTended`), and that a call which is
  alone works on what the table has (`AloneKnows`).
- `Observation_proofs`, the runtime monitor: `AllCounted` says that no event is in the
  buffer without being counted. Hence the counts only grow while the report reads
  them, and the score, read before them, is no better than they are (`ScoreIsNoBetter`).
- `Observation_proofs`, the metrics: `ChainsOK` says which names an OnRetry chain may
  report to, `RetriesCounted` relates a policy's counters to its executions, begun,
  ended and recorded, with every Reset in between. `RatesAreDeserved` compares the
  counters with the outcomes, and `VerdictDeserved` carries that over from the first
  reading of a verdict to its end (`VerdictKept`). The time a breaker was open has an
  invariant of its own.
- `Observation_proofs`, the profiler: `MeasuresOK` relates count, total, extremes and
  samples of each operation, and `ReportOK` keeps of a finished report what its
  readers use. Percentiles rest on a lemma about the k-th smallest duration.
- `Observation_proofs`, the drift detector: `HistoriesOK` says that histories, in memory
  and stored, rise in time and agree on the snapshots they share, so that the two
  halves of a window that are compared are an earlier and a later one.
- `Observation_proofs`, the validation: `ValidationInv` says per worker that its results
  are those of the batches of its current attempt and nobody else's, and of the
  engine that it holds the results of exactly the commits that succeeded
  (`CommitsKept`). `ReportIsCounted` then adds up batches of records into the
  report's totals.

The observers count and sum, and an induction theorem cannot be applied to a
predicate here. `Observation_proofs` (and, for its logs, `Upkeep_proofs`) therefore
says induction with sets: the set of numbers, or of finite sets, for which a fact
fails has no least element, by the well-foundedness of `<` on the natural numbers.
From that come the facts about the folds: the recursive function behind
`SumFunction` exists and is unique, a sum over a set is the sum over the rest plus
one element, a larger function has a larger sum. Operators the prover cannot
unfold (`SelectSeq`, `SortSeq`, `@@`) do not occur in what is proved about: counts are
cardinalities of sets of positions, and sorting is said by its result.

Model-checked only: the liveness properties, because TLAPS proves nothing about
fairness and ENABLED. They are `SyncReturns`, `RecoversOnceHealthy`,
`OperationsReturn`, `CallsReturn`, `RunReturns`, `StopTerminates`, `StalenessReported`,
`ScheduledJobsEnd`, `QueriesEnd`, `PluginCallsReturn`, `WatchersEnd`,
`MonitorStopReturns`, `ConditionsAlert` and `TrackedCallsReturn`. Every invariant and
every action property of a passing run is a theorem. Nothing is proved yet about
`PluginManager`, `HealthMonitor` and `Consistency`, of which the runs check liveness.

## Not modelled, and what could follow

Whole parts that are left out:

- *Contracts* (`contracts/`): checks of recorded HTTP exchanges for tests, sequential
  and called by nothing else.
- *Security scanners* (`security/{scanner,dependency_audit,...}.go`): they match text
  and write reports; no state relates to the rest. The runtime monitor is modelled.
- *Metrics analyzer* (`monitoring/`): floating-point statistics over samples that
  nothing collects.
- *Observability and configuration*: input and output.
- *Plugin SDK and builder* (`pkg/plugin`, `cmd/plugin-builder`): a library for plugin
  authors and a code generator.

Within the parts that are modelled:

- overlapping `ExecuteWithRetry` calls of one object (two runs of one source), and
  the composition of `Scheduler` with `DeltaTable` that would show the missing
  exclusion and the lost commits in one run;
- schemas that change between the two descriptions of one sync; an object that
  cannot be described is skipped with a warning and the run may still return nil,
  which `docs/schema-evolution.md` says, and so does the model;
- `ExecuteBatch`, `ExecuteWithStats` and the retryable wrapper, which nothing uses,
  and `SetRetryConfig` of the S3 client and of the engine, which nothing calls;
- the rules `SchemaDriftRule` and `ValidationErrorRateRule` (`monitoring/rules.go`),
  placeholders that are never constructed, the error pattern tracker, which nothing
  feeds, and `GetHealthStatus`, which changes nothing;
- range and quality rules of records, which nothing registers, and the fields
  Required, format and pattern of custom rules, which the code ignores;
- trend data, alerts and recommendations of the runtime monitor, profile files and
  goroutine samples of the profiler, the sampling of a sandbox's resources;
- the bytes: Parquet encoding, checksums (what is stored is what was uploaded), the
  wording of errors, metrics, traces and logs; a breaker's own metrics; the login
  and the mapping of types in the Salesforce connector; the HTTP handlers of the
  plugin API, which call what `PluginManager` and `Sandbox` model.

Worth doing next: the `ScheduledSync` composition above; theorems about the locks of
`PluginManager` and the channels of `HealthMonitor`, where safety is what keeps a
second close from happening; and runs for the statements of the second table,
should the program be changed to keep them.
