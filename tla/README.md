# Verification of nestjs-catalog

TLA+ models of the parts of nestjs-catalog that decide what readers of a
catalog get: the snapshot lifecycle of a warehouse store, the runs that load a
type through it, alone or fanned out to several stores, the sweep that takes old
snapshots away, the versions of a workflow's graph, and the scheduler that starts
its runs. TLC checks them on small instances; TLAPS proves, for every instance, the
safety properties the runs check: of two stores, connector runs, workflow runs, the
fan-out and its journal on file, the sweep, versions and the scheduler. Paths below are under `src/packages/`.

## The system

nestjs-catalog keeps *object types*, loads their rows from sources, and serves
them. A load writes a *snapshot* (a set of batches under one id); `commit` makes
it the one ordinary reads get; old snapshots are dropped, their record staying
as a *tombstone*. An incremental load first `carryForward`s the rows its batches
do not replace from the snapshot served before. Loads run as durable workflows,
so every step may be made again, and several processes may be at it.

| Component | State it keeps | Operations | What is hard | What makes it correct |
|---|---|---|---|---|
| DuckDB store (`store-duckdb`) | Parquet objects, one record per snapshot, the served pointer | `write`, `commit`, `dropSnapshot`, `carryForward`, `read` | each call is a sequence of awaits on object storage, with no lock and no transaction; a crash between any two; a replay of any call | the served snapshot is committed and has its rows; tombstones are final; counts are of what is there; a merge takes from blessed loads only and covers the whole load |
| MikroORM store (`store-mikro-orm`) | one table of rows, snapshot rows, pointer in the type's row | the same contract | statements that are not one transaction, an identity map flushed later; locks in `commit` and `dropSnapshot` only | the same contract, with calls that overlap |
| ClickHouse store | tables, snapshot rows, pointer | the same contract | as DuckDB, over another engine | the same contract |
| Connector runs (`pipeline/connector-*`) | the connector's `state` (watermark), the run ledger | fetch, append, carry, commit, save state, finish | retries under one snapshot id; a source that moves; two connectors into one type | nothing behind a watermark is missing from what readers get |
| Publishing (`publish.service`, `load-expectations`) | none of its own | append, carry, commit on behalf of a principal, plausibility bounds | check then act across awaits | an implausible load is not served |
| Source fetchers (`sources.ts`) | none | bounded reads, watermark | ties, types and order of the watermark | no silent under-read |
| Workflow runner (`workflow-run*`) | staged edges, node watermarks | plan, run node, sink, finish | durable replay, stale stage tails, busy callees | same as a connector run, per graph |
| Fan-out (`store-fanout`) | journal of debts, last commit marks | every store stage on a primary and followers, replay | partial failure, debts read before an await, the file journal's crashes | whatever a follower misses the journal names; a debt about rows is paid, never forgotten |
| Eviction and archive | archives | plan, verify, drop | plan and drop are far apart | no rows are dropped without a verified archive |
| Pipeline store (`pipeline.store.ts`) | workflow rows, releases, the connector of a workflow, runs | save, publish, unpublish, release, set live, schedule, start and finish a run | each call reads, awaits and writes the columns it changed; a canvas saves by itself | a version names one graph; what is ready can run; the connector is one and agrees with its workflow |
| Run reconciliation | run ledger | close abandoned runs | a listing that is stale when used | a finished run keeps its outcome |
| Scheduler | settled windows | tick, fire | windows against runs that outlast them | a window is started once, and is not lost |
| Secrets, environments, registry, audit, query side, dashboard, UI | caches, rows, sessions | CRUD and pure functions mostly | cache expiry | listed in `PROJECT.json`, not modelled |

Components call each other as follows: the scheduler starts a durable run; the
run calls its step; the step calls the connector runner; the runner calls
`PublishService`, which calls the store (a single one, or the fan-out over
several); eviction calls the same store from outside the runs.

## Modules

| Module | Models | Notes |
|---|---|---|
| `SnapshotContract` | `CatalogWriteStore` (`catalog/src/catalog.store.ts`) | the abstract specification: a snapshot is open, committed, dropped; one is served |
| `DuckDbStore` | `DuckDbWarehouseStore` with `SnapshotCatalog` and `ObjectStore` | one action per storage access |
| `MikroOrmStore` | the SQL warehouse store (`store-mikro-orm/src/warehouse.store.ts`) | one action per statement or transaction |
| `Warehouse` | the store as loaders meet it, through `PublishService` | one action per call, no interleaving within a call |
| `ConnectorRun` | `ConnectorRunnerService.run` under `ConnectorRunSteps` and `ConnectorRunWorkflow` | extends `Warehouse` |
| `WorkflowRun` | `WorkflowRunWorkflow` and `WorkflowRunnerService` over a graph of nodes | the store seen per call |
| `Fanout` | `FanoutWarehouseStore`, the replay of `migration.ts`, a loader and an operator | the journal as a set, each store seen per call |
| `FileFanoutJournal` | the journal on file | one action per await |
| `Eviction` | retention plan, sweep, archive, beside loads and commits | the store as `MikroOrmStore` has it |
| `WorkflowVersions` | `saveWorkflow`, `publishWorkflow`, `releaseWorkflow`, `setLiveWorkflowVersion`, and what a run reads of them | a read and a flush per call |
| `Scheduler` | `ConnectorScheduler` over the workflow, its connector and its runs | a clock; one action per await of a tick |
| `MC...` | - | values of constants, bounds on calls and events, ghost variables |
| `DuckDbStoreProofs` | - | theorems of `DuckDbStore` |
| `MikroOrmStoreProofs` | - | theorems of `MikroOrmStore` |
| `EvictionProofs` | - | theorems of `Eviction` |
| `ConnectorRunProofs` | - | theorems of `ConnectorRun` over `Warehouse` |
| `FanoutProofs` | - | theorems of `Fanout`, and of `MCFanout` with its ghost |
| `FileFanoutJournalProofs` | - | theorems of `FileFanoutJournal` |
| `WorkflowProofs` | - | theorems of `WorkflowRun` and of `WorkflowVersions` |
| `SchedulerProofs` | - | theorems of `Scheduler` |

Both stores implement `SnapshotContract` (a refinement checked and proved for
each). What the modules that load (`ConnectorRun`, `WorkflowRun`, `Fanout`,
`Eviction`) take from a store is what the two store modules show to hold call by
call.

### DuckDbStore

A *client* is one call in progress. `pc` says before which await it stands, `tgt`
which snapshot it is about, `saw` the record it has read, `local` the rest of
what it remembers; all of it goes when the call returns or dies. `objects` and
`rows` are the Parquet objects and what they hold, `ref` the JSON records,
`current` the pointer.

| Code | Actions |
|---|---|
| `write` (279-395), `recordWrittenBatch` (455-486) | `CopyBatch`, `FindWritten`, `RecordWrittenBatch` |
| `commit` (551-602) | `FindCommitted`, `CountCommitted`, `PutCommitted`, `SetCurrent` |
| `dropSnapshot` (780-816) | `FindDropped`, `RefuseServed`, `CountDropped`, `ListDropped`, `DeleteObject`, `PutTombstone` |
| `carryForward` (1591-1707) | `StartCarry`, `ResolvePrevious`, `ListSides`, `FindCarried`, `WriteMergedCarryObject` or `ClearCarryObject` or `RefuseCarry`, `CountCarried`, `PutCarried` |
| a throw or a dying process | `Crash` |

A row is its key and the load it came from (the provenance columns travel with a
carried row); its other values play no part. Labels a caller adds are one
nondeterministic bit, whether the batch brings new ones. `createdAt` is the
number of records there are when the call reads the clock, so that two calls at
work together may read the same time; ties are then broken either way, where the
code breaks them by id. Accesses kept as one: a listing of the records (read one
by one in the code), a count (list, then query), the merge statement with the
key checks before it. (Reading the pointer and reading its record, in
`currentSnapshot`, stay two.) `archive` and the principal are left out. Objects of
a prefix are deleted in any order, which covers both a recursive remove on disk
and batched deletes on S3.

`Exclusive` says whether two calls about one snapshot may overlap. Nothing in the
store forbids it, so the model can be run both ways. What comes close to
ensuring it is outside: a snapshot id is a durable run's id, the run is one step
at a time, and retention works on snapshots other than the newest. Whatever is
claimed under `Exclusive` holds for callers that keep to this, and the run
`store_tombstone` shows what happens to the ones that do not. Calls about
*different* snapshots interleave freely in both cases.

### Warehouse and ConnectorRun

`held` are the rows staged per snapshot with their batch numbers, `rec` the
records, `served` the pointer; `Commit` includes the refusal of `PublishService`
for a load that came to nothing (`Implausible`). The bounds on growth and
shrinkage start at a hundred rows by default and are left out, as is the label
that acknowledges a shrinking load; the check and the commit are one step. Drops
are not in this module.

| Code | Actions |
|---|---|
| the durable engine starts a run (`connector-run.workflow.ts`) | `StartRun` |
| `fetch` and the bounded statement (`sources.ts`) | `Read` |
| `appendBatches` (646-691), one `flush` | `AppendBatch` |
| `carryForwardAsSystem` (288-305) | `CarryRest` |
| `commitAsSystem` (307) | `CommitRun` |
| `saveConnectorState` (326-332) | `SaveConnectorState` |
| `finishRun` (353-361), the step returns | `FinishRun` |
| `catch` (362-406), the step throws and is retried (`@Step retries: 3`) | `Refused`, `Retry` |
| the process dies, the step is run again | `Crash`, `Retry` |
| `executionTimeout` | `TimedOut` |
| the upstream database | `SourceWrite`, `SourceDelete` (external) |

Each change of the source takes a new value of the watermark column, so `>`
never meets a tie (the tie is a hazard listed without a property). The read is
atomic, and rows come in key order, as from a query that states one. `Moving`
says whether the source may change once a run has read it, `SerializedByType`
whether runs into one type take turns; the code serialises per connector only,
so this is an assumption on the deployment (one connector per type); what happens
without it is under "Further disagreements". Deletions in an incremental source are invisible to
it and are left to full loads, as in the code; `WatermarkCovered` is therefore
about keys that are there.

### MikroOrmStore

As `DuckDbStore`, a client is a call in progress; `saw` is the record in its
identity map. `rows` is the type's one table (batch, row), `rec` the snapshot
rows, `current` the pointer in the type's row.

| Code (`warehouse.store.ts`) | Actions |
|---|---|
| `write` (480-546) | `DeleteBatch`, `InsertBatch`, `FindWritten`, `CountWritten` (of a committed snapshot), `FlushWritten` |
| `carryForward` (587-753) | `FindOwn`, `FindPrevious`, `DeleteCarried`, `InsertCarried`, `CountCarried`, `FlushCarried` |
| `commit` (799-935) | `FindCommitted`, `CountCommitted`, `Publish` (the transaction that asks again about the drop) |
| `dropSnapshot` (1002-1070) | `LockDropped`, `CommitDropped` |
| an error, a death, a rollback | `Fails` |

A flush writes the columns that differ from what was read (`Flushed`), labels as
one column. `dropSnapshot` holds its two locks from `LockDropped` to
`CommitDropped`; whoever writes those rows meanwhile waits. `commit` takes the
lock on its record and, through its update, on the type's row, in one step. There
is no assumption on callers: any two calls may overlap on one snapshot.

### Fanout

`rows`, `status`, `served` and `shape` are the stores, primary and followers, as
their calls change them; `journal` is the set of debts, `mark` the snapshot last
committed on the primary. Two actors: the loader (a load, a schema change or a
drop at a time) and an operator's replay; `call` is the call each has in progress
and what it remembers across awaits.

| Code | Actions |
|---|---|
| `ensureType`, `write`, `carryForward`, `commit`, `dropSnapshot` on the primary | `PrimaryEnsures`, `PrimaryWrites`, `PrimaryCarries`, `Ask` then `PrimaryCommits` then `MarkCommitted`, `PrimaryDrops` then `Forget` |
| `attempt` (944-1031): record as pending, try, resolve or record as failed | `Announce`; `FollowerEnsures`, `FollowerWrites`, `FollowerCarries`, `FollowerCommits`, `FollowerDrops`, `FollowerFails` or `FollowerRefuses`; `Settle` |
| `holdBack`, `supersede`, `refuseOnRequired` | `HoldBack`, `Supersede`, `Return` |
| `replay` (`migration.ts` 341-461) | `StartReplay`, `ReplayEnsured`, `ClearFollowerCopy`, `CopyPage`, `CopiedAll`, `ClearDebt`, then the commit through `attempt` |
| the loader, its retries, a death | `StartLoad`, `Advance`, `AttemptEnds`, `AdminEnds`, `ReplayEnds` |

A follower may fail before, in the middle of (rows deleted, not inserted) or after
doing what it was asked; a lost answer is a failure after. Batch `b` brings key
`b`; a page of a replay is one key. `MaxFaults` bounds failures and deaths
together; a refusal that follows from the state costs none. `ReplayAlone` keeps
replays and loads apart, `Shrinking` lets a retried attempt bring fewer batches.

A follower's merge is judged by what the primary's merge answered: the base it took and
the total it came to (`mergeForward`). A best-effort follower may come to the same two with
other rows: its base has the primary's name and other rows, or a batch of the load is
missing there and the row it should replace survives in its stead. Such a merge is taken
for right. `MCFanout` notes these merges in `misled`, a ghost, and the properties about
followers excuse them for best-effort followers; without the excuse they fail ("Further
disagreements").

### FileFanoutJournal

`file` is the sequence of lines, `partial` a last line without its end; `entries`,
`mark`, `loaded` and `lines` are the process's memory. One mutation is at work at
a time (`mutate` chains them, actions `Mutate` to `AppendLine` and `Rename`), and
beside it a question that reads the file (`Ask`, `AskRead`, `AskFold`); a question that
finds it read or being read answers from memory and changes nothing. The two overlap as
they like: `load` sets `loaded` before it reads, so whoever comes second goes on with
what memory holds by then. A read may fail, which `load` takes for a file that is not
there (`Reads`), and an append, the temporary file or the rename may be refused
(`Refused`): the caller is told, memory stays changed and the next mutation has its turn.
`Crash` opens the file in a new process, `Tear` dies in the middle of a line. A line
appended behind a torn one is garbled with it, as in the code; a journal call that garbles
*its own* line that way has returned, and the property excuses exactly that line.

`promised`, `forgiven` and `blessed` are ghosts, what calls have returned for, and `blind`
notes that a process could not read the file, or changed memory while it was being read.
What such a process answers is not held to the file, and when its compaction puts its
memory in the place of the file, what the file no longer says can no longer be held to be
kept (`Rewritten`). "Further disagreements" says what that costs.
What a file means (`FoldedEntries`, `FoldedMark`) is stated in one go: a debt is owed when
the last line about it adds it. The code folds line by line; that the two agree is an
assumption TLC evaluates over all short files (`FoldsLineByLine`, `MCFileFanoutJournal`).

### Eviction

`rows`, `rec`, `current` are the store; `part` and `manifest` the two objects of
an archive, `archiving` the copy under way; a sweep is `pc`, the candidates
`todo`, the one in hand `tgt` and its record as found `found`. A row has a batch and a
value, so that a batch that is sent again may have other rows and as many. A tombstone is
counted no more, an open load is counted when it is asked after (`Counted`), a committed
one when a batch lands (`Recounted`).

| Code | Actions |
|---|---|
| `planSnapshotEviction`, `selectSnapshotsToEvict` | `ListLive`, `Plan` |
| `evictSnapshot` (532-592) | `Find`, `Ask`, `Shortcut`, `Verify`, `Record`, `DropVerified` |
| `evictSnapshots` (614-655) | `Take`, `Skip`, `SweepEnds` |
| `archiveSnapshot` and the host that records the reference | `ArchivePart`, `ArchiveManifest`, `RecordArchive`, `ArchiveFails` |
| loads and commits, rollbacks included; the bucket; a death | `Load`, `Commit`; `Rot`; `SweepDies` |

Batches land, are replaced and are emptied at any moment, on committed loads and on
tombstones too; commits and rollbacks come at any moment, also between a sweep's question
and its shortcut, which then drops rows that nothing has verified. The ghost `unseen`
notes a load whose rows changed, or went, where no check of an eviction looks: after the
sweep has read the record's count, by replacing rows that had been copied (there may be as
many as before), or by the shortcut. A copy taken afterwards, with no sweep at work on the
load, clears it.

Two actions are coarser than the code. `Load` is one step, where `write` deletes, inserts
and flushes in statements of their own (`MikroOrmStore` has those); and `ArchivePart` reads
the rows in one step, which is the read-only transaction of `streamSnapshot`, but also
takes the count with them, where the host reads the reference before.

### WorkflowRun

A graph is nodes, wires in their order, the kind of each node and which sources
and sinks are full. `order` and `at` are the plan and the node in turn; `outcome`
and `ref` what the durable body remembers of each node; `stage` the staged batches;
`cells`, `kept` and `live` the run's snapshot of each sink's type, what was served
before, and whether the run has committed it; `mark` the committed and pending
watermark of each source.

| Code | Actions |
|---|---|
| `validateWorkflow` and its `collectNodesById`, `checkEdges`, `checkNodeWiring`, `checkBranches`, `checkReachability` (`catalog.pipeline.ts` 5643-6686) | operators of the same names; `findCycle` is `Acyclic` |
| `workflowRunOrder` (6700-6738), `workflowNodeRuns` (6822-6842) | operators of the same names |
| `stageRefsFor` (`workflow-runner.service.ts` 2678) | operator of the same name |
| the loop of `WorkflowRunWorkflow.run` | `StartRun`, `SkipUnlessLive`, `Dispatch`, `Return`, `Finish` |
| `runSource` (1249-1356) | `Fetch`, `Settle` |
| `runIf`, `runFilter` | `Branch`, `Pass` |
| `runSink` (2160-2230) | `AppendBatch`, `NothingReached`, `CarryRest`, `FullLoad`, `Commit` |
| `promoteWatermarks` | `Promote` per source, `Promoted` |
| step retries, a failed node, a death, the execution timeout | `AttemptFails`, `EmptyRefused`, `Crash`, `Cancel` |
| upstream | `Arrive` (external) |

`WorkflowAssumption` says which graphs there are: those that `validateWorkflow` has no
issue with. That there is no cycle is stated as what it means (of any nodes, one waits
for none of the others) and not as Kahn's algorithm; the plan is Kahn's algorithm, as
the code has it, queue and all. `Plan` is the function of that operator, evaluated once
per graph.

Batches hold one row. Filter, rename, aggregate, transform, lookup and merge all
pass their input on, in wire order; which way an `if` goes is nondeterministic.
Every source has a connector of its own, runs of one workflow take turns (the
mutex is per connector), and a stage is written in one step, so the sweep of stale
stage tails has nothing to do (readers ask for the batches the reference counts in
any case). Nodes that call another workflow and the mark of a merge gone stale
are left out.

### WorkflowVersions

`row` is the workflow row (status, version, graph), `liveVersion` its live version,
`releases` the archive. A tab (`edit`) saves by itself, a person (`call`) publishes
or releases; each remembers the row as it read it. `run` is what a run carries, its
version, and the graphs its steps have executed.

| Code | Actions |
|---|---|
| `saveWorkflow` (1201-1278) | `BeginSave` (read, refusal of what a ready graph may not become), `FlushSave` |
| `publishWorkflow`, `unpublishWorkflow` | `BeginPublish`, `FlushPublish`; `Unpublish` |
| `releaseWorkflow`, `setLiveWorkflowVersion` | `BeginRelease`, `FlushRelease`; `SetLiveVersion` |
| `fire`, `launch` (which version a run is of) | `StartScheduled`, `StartNamed` |
| `requireWorkflowAt`, asked by the plan and by every node | `Step` |

A flush writes the columns that differ from what was read, so two calls overwrite
each other only where both changed something. Two graphs are the same when their
hashes are. Deletion, the sealing of secrets, names and descriptions are left out.

### Scheduler

`now` is the clock; a cron is the set of moments at which it fires, a window one of
them. `flow` and `conn` are the workflow row and the connectors minted for it, with
the moment each was last touched; `call` a call of the pipeline store in progress;
`tick` a replica's tick in progress and `settled` the fingerprint of the window it
last decided. `runs` are the runs there ever were, `open` the queue of a connector,
whose head is at work once it is `planned`. `cronAt` is a ghost: when the cron was
set.

| Code | Actions |
|---|---|
| `tick` (249-284), `fire` (313-345) | `Tick`, where a window is not settled yet |
| `connectorFor`, the comparison with `updatedAt` (354-387) | `Ask` |
| `runSchedules` (422-444) and the singleton of `workflow-run.workflow.ts` | `Start`, `StartRefused` (queue full), `StartFails` (with the run started or not) |
| a read that throws; a restart | `TickFails`; `ReplicaRestarts` |
| `startRun`, `finishRun` (the connector's `updatedAt`) | `RunStarts`, `RunEnds`; `RunExpires` without the last |
| `publishWorkflow` with `mintConnectorFor` | `BeginPublish`, `FlushReady`, `FindMinted`, `Mint` |
| `unpublishWorkflow` | `BeginUnpublish`, `DisableCopy`, `FlushDraft` |
| `saveWorkflowSchedule` | `BeginSchedule`, `WriteCopy`, `FlushSchedule` |
| `saveWorkflow`, `setLiveWorkflowVersion` | `Edit` |
| the clock, a process that dies in a call | `Advance`, `UserDies` |

Times are compared as the code compares milliseconds: what happens at a moment is
not before the window that opens at it, as a poll or a finish a little after it is
not. A cron fires at moment 0, which stands for the past, so there always is a
window. A native update leaves `updatedAt` as it is, as the code's own comments
have it. The queue of one is the engine's in `own` mode; in `attach` mode there is
none. Polls and runs take any time. One
workflow; manual runs, the parsing of crons and what is logged are left out.

## Runs

| Run | Instance | Question |
|---|---|---|
| `store_calls` | 3 snapshots, 1 batch, 1 key, 2 clients, 4 calls, exclusive | contract, tombstones, counts, where a carry takes its rows from |
| `store_tombstone` | 2 snapshots, 2 clients, 4 calls, not exclusive | finding: a served tombstone |
| `mikro_store` | 2 snapshots, 1 batch, 1 key, 2 clients, 5 calls that overlap | the same contract from transactions |
| `connector_loads` | 1 full and 1 incremental connector, 3 runs, 2 keys, batches of 1, 1 retry, 2 changes, quiet source, serialised | loads with retries |
| `workflow` | merge, diamond behind an `if`, gate, full load; 2 sources, 1 sink, 2 rows each, 1 retry, 3 faults | watermarks, sinks and progress over a graph |
| `workflow_watermark` | one source into two sinks | finding: rows promised away |
| `workflow_branch` | an `if` with a sink on each branch, the `else` one fed by another source too; 1 row each | finding: rows on a branch not taken |
| `fanout` | 1 required and 1 best-effort follower, 2 loads, 2 batches, 1 replay, 2 faults, replay alone | debts and what followers serve |
| `journal` | 2 debts, 1 commit mark, compaction at 2 lines, 4 lines, 1 torn line, 1 crash, any number of failed reads and writes | the journal on file |
| `eviction` | 3 snapshots, 1 batch of at most one row, 2 values, 2 sweeps of at least 2 loads, keep 2, 3 events (commits, copies, lost files, batches after a load's first) | retention and archive |
| `workflow_versions` | 3 graphs, 2 of them runnable, 1 tab, 2 people, 2 runs of 3 steps, 3 versions | which graph a version names |
| `schedule` | 2 replicas, 1 user, 1 connector, 2 crons, 4 moments, 2 calls, 2 faults, 5 of these in all | windows started once, settled when decided, started when due |

The bounds are `MaxCalls`, `LastSnapshot`, `MaxRetries`, `MaxChanges`, `MaxRows`,
`Retries`, `MaxFaults`, `LastBatch`, `MaxReplays`, `MaxLines`, `MaxTears`,
`MaxCrashes`, `MaxEvents`, `MaxSweeps`, `MaxVersion`, `MaxTime` and `Steps`. They are as small as the behaviour
allows: a wrong merge source takes two earlier loads besides the one being built
(three snapshots); a commit overlapping a drop takes two calls, and preparing it
two more; a run that loses a row takes one run before it and one after (three
ids); a follower that merges from another base takes a load it missed and the
next; a replay that loses a page takes two keys; a compaction that loses a line
takes one dead and one live line, and the threshold of 512 lines is reduced to
`CompactAt`; a row that a later run cannot make up for takes two rows of a source;
`Keep` of 2 beside a rollback takes three snapshots; an archive that is out of date takes
a batch, a copy and a batch that empties or changes it (`MCBatches`), a drop that the
shortcut makes a copy and two commits, on three loads whose first batches are not
counted; a run of two graphs takes two
steps and a version saved over in between; a full queue takes three windows, and so
four moments; a tick that never hands back its turn stops the scheduler only when it
happens to every replica, which takes two faults; with one user there never is a second
connector (`OneConnector`, the first part of `Lone`). Every call may stop at every
await and every attempt at every step, and runs reach between 10^4 and 10^7
states. The fan-out was also run once with three loads, where a merge can take a base that
was itself merged, each time with another part left out: one follower (required, then
best-effort) with a replay; two followers with loads of one batch and a replay; two
followers with loads of two batches and no replay. All properties hold there, in up to
12.7 million states. Deadlock is not checked: with the bounded number of calls, runs or events
used up the system has nothing left to do, and it may also rest before that.
Symmetry is used where snapshots, clients, sweepers, batches and keys are model
values and only safety is checked.

Properties, by what they guard against:

- *Served data.* `ServedIsCommitted`, `ServedCountAtCommit`, `ServedIsLive`,
  `ViewMovesAtCommit`.
- *Drops.* `TombstoneKeepsCount`; that a tombstone is final is part of the contract.
- *Merges.* `MergesOnlyBlessed`, `ServedCarryKeepsOrigin`, `MergeCoversBatches`,
  `OneRowPerKey`, `ReplayNeverRefused`.
- *Counts.* `CountIsOfRows`.
- *Loads.* `WatermarkCovered` (behind the watermark nothing is missing, per
  connector and per type), `FullLoadIsWhatWasRead`, `CommitsWhatReachesIt` (a sink
  commits what its sources sent through live wires, once).
- *Followers.* `FinishedIsFollowedOrOwed`, `FollowerServesWhole`, `RowDebtIsPaid`,
  `RequiredHoldsAll`.
- *Journal.* `KeepsWhatReturned`, `FileIsBounded`.
- *Retention.* `EvictedIsArchived`, `KeepRemains`.
- *Versions.* `RunsOneGraph` (a run executes one graph), `HeadIsItsRelease` (row and
  archive agree on a version), `EditsNeverDeploy` (what a deployed workflow runs moves
  with its live version only).
- *Windows.* `WindowsStartOnce`, `SettledIsDecided` (a window that is no longer asked
  about has a run, or the pipeline was touched since it opened).
- *Contract.* `ImplementsContract`: every storage access, seen through the
  records and the pointer, is a step of `SnapshotContract` or none. It implies
  `TombstonesAreFinal`, which is proved on its own and has no run.
- *Progress.* `RunEnds`, `RowsAreServed`, `DueIsStarted`.

Types are checked where the run is also the instance the proof was tried on
(`ConnectorRun`, `WorkflowRun`, `Fanout`, the journal).

`ViewMovesAtCommit` and `FullLoadIsWhatWasRead` are checked for a source that is
quiet once read. A retry after the commit re-sends batches into the snapshot
already served, which the store interface acknowledges
(`catalog/src/catalog.store.ts` 225-240): with a quiet source it re-sends what is
there and nobody can tell, with a moving one readers see the rows change.

`MergeCoversBatches` excludes snapshots on which a batch write died between its
object and its record: the merge is then out of date without a mark, and the
caller, whose call has failed, owes the batch again. This is the state that
needs the ghost variable `torn`.

`FinishedIsFollowedOrOwed` and `FollowerServesWhole` allow "on record as owed":
the fan-out never promises that a best-effort follower is complete, it promises
that the journal says so when it is not. `RowDebtIsPaid` is the other half: a debt
about rows leaves the journal only when the rows are there, or the follower has
moved past them.

`KeepRemains` excuses two sweeps that planned across each other: each spares
`Keep` of what it saw, and together they may spare fewer.

`EvictedIsArchived` excuses what is `unseen`, `KeepsWhatReturned` and `FileIsBounded` what
is `blind`: in these cases the code does lose rows or debts, and "Further disagreements"
has the traces. What is left is what the checks of the code are there for: an archive made
before the last batch, a file that is missing, rotten or not the one the reference or the
manifest is about; a line torn, a write refused, a process dead between two awaits.

**Fairness.** `FairSpec` of `ConnectorRun` has weak fairness of each connector's
own progress, and `FairSpec` of `WorkflowRun` weak fairness of `Advance` (the next
step of a run under way) and of `StartRun` (the scheduler starts the next run),
because the durable engine recovers a run until its step returns or its retries
are spent, and the scheduler fires again. There is no fairness for sources,
crashes or cancellation, whose number `MaxFaults` and `MaxRetries` bound: without
a bound only `executionTimeout` would end a run, and a run that dies for ever
serves nothing. `FairSpec` of `Scheduler` has weak fairness of each replica's polling,
since an interval timer keeps ticking and a tick that throws hands back its turn, and
of each connector's runs, since the engine recovers them; calls of users and the clock
have none, and faults are bounded by `MaxFaults`. The other runs check safety only.

## Findings

Each is shown by a run whose counterexample TLC prints; `PROJECT.json` has the
quoted sentences.

1. `store_tombstone` - a commit that passes its tombstone check before a
   concurrent drop writes the tombstone, or a drop that passes its pointer check
   before a commit moves the pointer, leaves readers on a snapshot whose rows
   are gone. The `read()` docblock calls this impossible by construction. The
   MikroORM store has the locks that make it so (`ServedAlwaysLive`).
2. `workflow_watermark` - the commit of one sink promotes the watermark of every
   source of the run; a run that ends before its other sinks have committed has
   promised their rows away.
3. `workflow_branch` - a node that runs is handed the stages of everything wired into
   it, also over a branch that was not taken. A sink on the `else` branch that another
   source feeds as well commits the rows that the `if` sent to `then`. Nothing in
   `validateWorkflow` refuses the graph.

### Further disagreements

Each of these is a counterexample of TLC on the modules as they stand, with the
constants given; no run is kept for them.

- `CommitsWhatReachesIt` (`MCWorkflowRun`; source, `if`, the `then` branch through a pipe
  and the `else` branch straight into one sink): the same with one source. When the `if`
  takes `then` the sink gets the rows from the pipe and over the straight wire, and
  commits each of them twice, where `checkEdges` refuses two wires between two nodes
  because the second "would receive the same rows twice and silently double its input"
  (`catalog.pipeline.ts` 5904).
- `WatermarkCovered` (`MCWorkflowRun`; sources `a` and `b`, one sink fed by `a` and, through
  the `then` branch of an `if` and a pipe, by `b`; no fault): the `if` takes `else`, the
  sink commits `a`'s rows, and `promoteWatermarks` promotes `b`'s watermark too, over rows
  that went nowhere and are not read again, where alone behind its `if` `b` would be read
  again by the next run (`workflow-runner.service.ts` 2220, 2617).
- `ServedKeysSurviveCarry` (`MCDuckDbStore`; 2 snapshots, 2 batches of a key each,
  1 client, 7 calls): a drop that died half-way leaves a live record; a carry
  replayed on the served snapshot merges what is left of its origin and takes keys
  away from readers (`duckdb-warehouse.store.ts` 764-766, 800, 1632).
- `WatermarkCovered` (`ConnectorRun`; one incremental connector, `MaxRetries = 1`,
  `MaxChanges = 3`, `Moving = TRUE`): an attempt that dies after saving the
  watermark is retried from the new watermark and replaces the first batch of a
  snapshot already served (`connector-runner.service.ts` 316-332).
- `FullLoadIsWhatWasRead` (`ConnectorRun`; one full connector, the same): a retry
  that reads fewer rows leaves the later batches of the earlier attempt in the
  snapshot it commits (`connector-runner.service.ts` 653).
- `WatermarkCovered` (`ConnectorRun`; two incremental connectors, no retry,
  `Moving = TRUE`, `SerializedByType = FALSE`): runs are singletons per connector,
  and two connectors into one type undo each other's load, where the comment at
  `workflow-run.workflow.ts` 540-542 says that "is exactly the case that must not
  overlap".
- `ReplayIsNotRefused` (`Fanout`): the replay drops the follower's copy to clear it,
  which leaves a tombstone in a store that keeps one, and the follower then refuses
  the commit of the snapshot just repaired (`migration.ts` 339, 617).
- `ReplayRepointsForward` (`Fanout`, `ReplayAlone = FALSE`): a replay that started
  before the primary moved on takes the follower back to the older snapshot
  (`migration.ts` 328). With loads under way during a replay `RowDebtIsPaid`,
  `FollowerServesWhole` and `FinishedIsFollowedOrOwed` fail as well, and with
  `Shrinking = TRUE` so do the last two and `RequiredHoldsAll`: a retried load
  that brings fewer batches is compared by its debts, and the follower may hold a
  batch the primary has replaced by less.
- `AnswerIsComplete`, that a process that has asked answers with every debt on file
  (`FileFanoutJournal`; one debt, no failed read): two first calls of a process overlap,
  and the second answers from a journal marked loaded whose file is being read
  (`journal.ts` 315-319), where line 130 promises "Everything
  still owed".
- `KeepsWhatReturned` without its excuse for `blind` (`FileFanoutJournal`, the constants of
  the run): a read fails, and `load` goes on with an empty journal that it never reads
  again. The process answers that nothing is owed, and its next compaction overwrites every
  debt on file with the little it knows (`journal.ts` 320-326, 355-373). The comment has it
  that telling "missing" from "unreadable" "would buy nothing: both are repaired by the same
  act", and the head of the file (11-12) that "every interaction with a follower leaves a
  durable trace". Without a failed read it takes a mutation that meets the question that
  reads the file: what was read before the append is folded over it, a debt just resolved
  is owed again in memory, one just recorded is not, and a compaction makes it so on file.
- `FinishedIsFollowedOrOwed`, `FollowerServesWhole` and `RowDebtIsPaid` without the excuse
  for misled merges (`MCFanout`; one best-effort follower, `LastBatch = 2`,
  `LastSnapshot = 3`, `MaxReplays = 0`): load 2 is committed on both stores and its
  attempt dies; the retry tears a batch on the follower, whose carry brings the stale row
  from load 1 with the same base and the same total. Load 3 merges from load 2 on both,
  the totals agree, the commit goes through, and `supersede` drops the debts about load 2:
  nothing is owed and the follower serves a wrong row. The docblock has it that
  "Comparing `from` catches that at the moment it happens" (`fanout.store.ts` 493-498,
  505-552). A required follower is safe: its debt stops the next load.
- The same properties when only the base of such a merge is excused (one best-effort follower,
  `LastBatch = 1`, `LastSnapshot = 2`, `MaxReplays = 0`, `MaxFaults = 4`): the attempt of load 2
  dies after its commit, the next tears the batch on the follower, whose carry then keeps the
  row of load 1 that the batch was to replace, with the same base and the same total; the
  attempt dies, and the one after it writes the batch, which pays the debt, and is given up
  before its carry. The follower serves two rows of one key and nothing is owed about it.
- `RefusalPublishedNothing` (`MCFanout`; one required follower, 1 load): a commit that
  reached the primary and failed, or died, at a required follower leaves a debt of the
  commit stage, and that debt refuses every retry of the commit, with the message that
  the snapshot "was not committed anywhere" (`fanout.store.ts` 611-626).
- `EvictedIsArchived` without its excuse for `unseen` (`MCEviction`, the constants of the
  run), in three ways:
  - `evictSnapshot` drops the snapshot it believes to be served, expecting a refusal
    (`snapshot-eviction.ts` 574); after a commit in between, the store drops it, and the
    rows go unverified. The failed verification then says (720) that "Nothing has been
    deleted". The docblock calls the interleaving "reachable rather than theoretical"
    (525) and answers it with the locks of the store, which this order of calls passes.
  - A batch is sent again after the archive was made, with as many rows of other values.
    The count agrees, file, manifest and reference hash alike, since all are of the old
    rows, and the new ones are dropped, where 658 has "prove it is this snapshot, whole,
    before anything is deleted".
  - A batch lands after the sweep has read the record, and is dropped with the rest: the
    record is not read again before the drop.
- `RunsOneGraph` (`MCWorkflowVersions`; two tabs): `saveWorkflow` counts the version up
  from the row it read (`pipeline.store.ts` 1274): two saves that overlap store two
  graphs under one version, and a run of that version executes the first and then the
  second, where `workflow-runner.service.ts` 437 has it "pinned to the version it
  started on **for its whole life**".
- `ReadyIsRunnable` (`MCWorkflowVersions`; one tab, one person): a save that read a
  draft and a publication that read a runnable graph pass each other
  (`pipeline.store.ts` 1224, 1324), and the workflow is ready and cannot run.
- `EditedCronWaits` (`MCScheduler`, two crons): editing a schedule does not move the
  connector's timestamp (`pipeline.store.ts` 1525), so a cron edited to one with a
  window in the past fires for it at once, where `connector-scheduler.service.ts`
  366-369 counts on the timestamp to prevent that.
- `CopyAgrees` (`MCScheduler`; two users): a publication writes `enabled` as it read it
  onto the connector (`pipeline.store.ts` 1430), over what a schedule change wrote in
  between, and the two rows disagree for good.
- `OneConnector`, and with it `WindowsStartOnce` (`MCScheduler`; two users, two
  connectors): two publications that overlap both find no connector and mint one each
  (`pipeline.store.ts` 1404); each then starts the window.
- A window that opens while the connector's previous run is at work counts as decided
  once that run ends and moves `updatedAt` (`connector-scheduler.service.ts` 379). If no
  poll saw it before, it is never run. `SettledIsDecided` and `DueIsStarted` allow this:
  they say "or the connector was touched".
- A sweep that comes upon a tombstone verifies its archive again
  (`snapshot-eviction.ts` 549-565) and, when it has rotted, reports with the same
  sentence that "Nothing has been deleted" and the snapshot "still has its rows".
  No property is about what that message says.

## What is proved

### DuckDbStore

For every finite set of snapshots, batches and keys, every choice of what the
batches hold and every set of clients (`FiniteAssumption`, `BatchRowsAssumption`,
`SentinelAssumption`, `NoRefAssumption`, `ExclusiveAssumption`: sets are finite,
sentinel values differ from the values they stand beside).

| Theorem | Says |
|---|---|
| `TypeCorrect` | `Spec => []TypeOK` |
| `PointerAlwaysHasRecord` | `Spec => []PointerHasRecord`, calls overlapping or not |
| `StoreInvariant` | `Spec => []StoreInv`, exclusive calls |
| `ServedAlwaysCommitted`, `MergesAlwaysBlessed` | the invariants `ServedIsCommitted`, `MergesOnlyBlessed`, exclusive calls |
| `MergesCoverBatches` | the invariant `MergeCoversBatches` of `MCSpec`, exclusive calls |
| `ServedCarryKeepsItsOrigin` | the action property `ServedCarryKeepsOrigin`, exclusive calls |
| `TombstonesStay`, `TombstoneCountStays`, `CommitCountIsServed` | the action properties `TombstonesAreFinal`, `TombstoneKeepsCount`, `ServedCountAtCommit`, exclusive calls |
| `Implementation` | `Spec => ImplementsContract`, exclusive calls |

`TypeOK` is proved with `TypeInv`, which adds that a call in progress has a
snapshot and a call at rest has none.

`ServedIsCommitted` is not inductive: it says nothing of a commit that has put
its record and is about to move the pointer, or of a drop about to leave its
tombstone. `StoreInv` adds, for each call in progress (`CallSound`), that the
record it holds is still the one stored (`RecordSound`, from `Exclusion`), that a
commit is not about a tombstone and is recorded before it serves (`CommitSound`),
that its count is still the count (`CountSound`), that a drop past its refusal is
not about the served snapshot (`DropSound`), that it records the committed count
(`TombstoneSound`), and that a carry's source has been committed
(`SourceSound`). The proof goes call by call: the calls other than the one that
moves are about other snapshots (`OthersSound`), the one that moves relies on
what it read and wrote (`StartSound`, `StepSound`), and only four accesses write
a record (`RecordEffect`), one moves the pointer (`PointerChange`). The
implementation proof reads the same facts: a put changes a status as one of
`Open`, `Bless`, `Drop` or not at all (`PutImplements`), and moving the pointer is
`Serve`.

`MergeCoversBatches` speaks of snapshots no call is about. `MergeSound` says what holds
meanwhile: a merge that is recorded and not marked covers the load unless a write is under
way on it, and a carry about to record its merge is right. A write may end a merge's
validity with its first access and marks the record with its last; one that dies in
between is what `torn` keeps. `ServedCarryKeepsOrigin` needs that a carry about the served
snapshot knows it is (`ReplayKnown`): it read the pointer first, and under `Exclusive`
nobody else commits that snapshot while it works.

### MikroOrmStore

For every finite set of snapshots, batches and keys and every set of clients
(`MikroAssumption`, `MikroFiniteness`, `NoRecAssumption`), and with calls that
overlap as they like: `TypeCorrect`, `ServedAlwaysLive` (`ServedIsLive`),
`TombstonesStay` (`TombstonesAreFinal`) and `Implementation` (`ImplementsContract`); and of
`MCSpec`, for any number of calls, `CountsAreOfRows` (`CountIsOfRows`) and
`MergesCoverBatches` (`MergeCoversBatches`).

The inductive invariant is `StoreInv`: well-typedness, with two facts about what a
call remembers (`SawStays`: a record once read is still there, perhaps changed,
because none is ever deleted; `SourceFound`: a carry about to insert has a merge
source), `ServedIsLive`, and `DropSound`: a drop inside its
transaction is not about the served snapshot. `ServedIsLive` alone is not
inductive, since a drop that has looked at the pointer writes its tombstone a step
later; `DropSound` holds in between because whoever would move the pointer waits
for the lock. That is where the two stores part: for the DuckDB store the same
conclusion needs `Exclusive`.

The last two are about snapshots on which calls took turns and no call died half-way,
which the ghosts `mixed` and `torn` tell from the others; rows and record change in
different statements, so neither is inductive. `OrderlyInv` adds that a call is alone on
such a snapshot (`Lone`), that rows and record agree whenever no call has changed one and
not yet the other (`Settled`), and what a call in between remembers of both
(`Remembers`).

### ConnectorRun

For all connectors, a finite set of keys, any batch size and any bounds on runs, retries
and changes (`ConnectorAssumption`, `SentinelAssumption`):

| Theorem | Says | With |
|---|---|---|
| `TypeCorrect` | `Spec => []TypeOK` | no condition |
| `ReplayNeverRefusedHolds` | `ReplayNeverRefused` | `SerializedByType` |
| `OneRowPerKeyHolds`, `WatermarkCoveredHolds` | the invariants `OneRowPerKey`, `WatermarkCovered` | `SerializedByType`, `~Moving` |
| `ViewMovesAtCommitHolds`, `FullLoadIsWhatWasReadHolds` | the action properties `ViewMovesAtCommit`, `FullLoadIsWhatWasRead` | `SerializedByType`, `~Moving` |

The conditions are the ones the run has; without each of them TLC has a counterexample
("Further disagreements").

`TypeOK` is proved with `Numbered` (a run reads each key once, so its batches are no more
than the keys) and `Dated` (records are dated by how many there were), from which follows
that a carry always finds one newest source. `SerialInv` is what taking turns gives: one
run is on, and it has the latest snapshot (`OneAtWork`); records come in the order of runs
(`InOrder`); readers get the last committed one (`ServedIsLast`); and a carry made again
would take the source the record names (`LabelStands`), since that source is the last
committed snapshot besides the run's own, served or not (`SourceIsLast`). `StillInv` adds
what holds of the rows of a run under way, over deaths and new attempts: its batches are
the ones of what was read and its carried rows the survivors of its source (`RunStands`),
committed loads have one row per key (`OneCopy`), and what lies behind a watermark is
served (`Covered`). `WatermarkCovered` alone says nothing of what a run under way is about
to commit.

### Fanout

For every list of followers, any of them required, any numbers of batches, loads, replays
and failures (`FanoutAssumption`): `TypeCorrect` (`TypeOK`), with no condition, and
`RequiredHold` (`RequiredHoldsAll`), `ServedWhole` (`FollowerServesWhole`),
`FinishedIsFollowed` (`FinishedIsFollowedOrOwed`) and `DebtsArePaid` (`RowDebtIsPaid`) with
`ReplayAlone` and without `Shrinking`, as the run has it; "Further disagreements" says
which of them fail without the one or the other. The last three are of `MCSpec`, which adds the ghost `misled`.

`RequiredHoldsAll` speaks of the one step that moves the primary's pointer, after a load
of many calls, each made of several attempts. `LoadInv` is what carries over from call to
call. Nothing is stored under the snapshots of later loads (`Future`). Of a snapshot
committed on both, a required follower holds nothing the primary does not (`AllHeld`), and
neither does a replay that copies (`Copied`). The load at work (`Work`) has its own batches
only (`Pure`), those behind it everywhere they are required (`Due`), the batch or the merge
in hand on the primary and on the followers that have answered (`Writing`, `Carrying`,
`Followed`), and once committed it can be made again with the same outcome (`Committed`). A
call goes back to the loader only when no required follower failed (`Pace`).

A merge is where this could go wrong: follower and primary may take different bases, and
a base of the same name may hold less on the follower. The call compares the base and the
total. With the same batches and the same base, what survives on the follower is part of
what survives on the primary (`SurvivorsHeld`, from `AllHeld`), and with the same total it
is all of it (`SurvivorsSame`); so the comparison of two numbers is enough for required
followers, and it is not for best-effort ones (`misled`). A retry begins at the first batch
and finds what it left, each batch written over itself (`FullBrought`, `WorkRetry`); with
`Shrinking` that is false. TLC checks `LoadInv` as an invariant on the constants of the run
and on one required follower with three loads (2,517,441 states).

What every follower serves rests on `LoadInv` and on what is owed. `FollowInv` says it in
ten parts. A step towards a follower is on record before it is tried (`Announced`).
Followers serve what the primary has committed (`ServedKnown`), and what it has dropped
since only if they are on record for the drop (`DropOwed`). Of a load that is over, what a
follower serves is the primary's, or rows of it are owed, or it merged others (`Standing`,
which is what the theorems ask for); of the load in hand, each batch and the merge behind
it is held or on record, follower by follower (`Mended`, and `Mending` for one), so that
`Mended` turns into `Standing` when the load ends, however it ends (`StandingEnds`).
`LoaderCalls` says how far a commit or a drop has come: each follower that has had its
turn has done it or is on record (`Placing`, `Dropping`), which is why taking off a
follower's debts about other snapshots is safe: it serves the one in hand. `Returned`
keeps what `Placing` has reached once the load is over.

A replay is the other way out of a debt. Its pages are written under the number of keys
below theirs (`Page`), so what a replay that was cut short left there is overwritten or
is the same page: a copy under way holds rows of the primary only, each under its page
(`Copying`), what is left of it under a tombstone still does (`Tombs`), and when no key is
left the copy is the primary's (`CopiedIsSame`). A follower that will not drop what it
serves is copied to only if it holds nothing of it, and then it owes the rows
(`EmptyOwes`, since a committed snapshot is of at least one batch, `NotEmpty`).

The step that matters is the merge. A follower's merge is taken for right when base and
total agree, and `CarryIsTaken` shows that it then is the primary's, or that it is noted
in `misled`: with the same batches and the same rows under the base, what survives is the
same. That is what the note has to say, no more, and proving it is how the second way to
a wrong merge was found ("Further disagreements"). TLC checks `FollowInv` as an invariant
on the constants of the run (1,649,863 states) and on one follower with two replays or
four failures (up to 860,437 states).

### FileFanoutJournal

For every finite set of debts, all commit marks, any compaction threshold but 0, and any
bounds on lines, torn lines and crashes (`JournalAssumption`): `TypeCorrect`,
`AcknowledgedIsKept` (`KeepsWhatReturned`) and `FileStaysBounded` (`FileIsBounded`), with
questions and mutations that overlap, failed reads and refused writes. With a threshold of
0 an empty file is neither below the threshold nor below four times nothing; the code's is
512.

`KeepsWhatReturned` counts: what a call returned for and the file does not say is no more
than the torn lines. It is not inductive, since a torn line costs the next one and memory
is ahead of the file while a line is appended. `JournalInv` has of the file, whatever
memory says, that it is wrong about no more than the torn lines, one fewer while a line
without its end waits for its victim (`FileWrong + Tearing <= tears`). The rest is about a
process that is not `blind`: nobody changes memory while a question reads, and what has been
read is the file as it is (`Turns`); memory is empty until the file has been read (`Fresh`); a mutation is
in memory before it is in the file and a rename puts what memory holds (`Mutating`); and
memory that was read is wrong about no more than the torn lines and counts no fewer lines
than there are (`MemoryKept`). The step that matters is the rename of a process that is
blind: the file is a new one then, and `Rewritten` leaves held to it what it says. The
lemmas about folding are what an appended line changes, and that compaction folds to what
it was made from.

### Eviction

For every finite set of snapshots and of rows and every set of sweepers
(`EvictionAssumption`, `EvictionFiniteness`, `NoRecAssumption`), with batches, commits and
rollbacks at any moment: `TypeCorrect`, `EvictedAlwaysArchived` (`EvictedIsArchived`) and,
of `MCSpec`, `LatestRemain` (`KeepRemains`).

`EvictedIsArchived` is not inductive: nothing in it says why the reference a sweep
verified is of all the rows it then drops. `SweepInv` adds, of loads that are not `unseen`,
that a copy in the archive is of rows the load has (`CopySound`), that what a sweep found
counts them still (`FoundSound`), that past its verification it holds the name of an
archive of everything, and no smaller copy is under way (`VerifiedSound`), and the same of
tombstones (`TombstoneSound`); and of all loads, that a record that is committed or a
tombstone counts the rows its load holds or held (`CountSound`), and that candidates have
records (`TodoRecorded`). The step that matters is the verification: a copy that is part
of the rows and as many as the record counts is all of them (`WholeCopy`). Since loads
write while they are archived, a copy that an earlier, shorter count matched stays in the
archive; the count found by the sweep is what tells it from a whole one, and that is what
the mutant drops. A batch that lands must leave the load `unseen` or every part true
(`LoadKeeps`), which is how the two cases of `Unnoticed` were found to be all there are.

`KeepRemains` says nothing of the drops a plan has ahead of it. `KeepInv` does, as long as
no two sweeps have planned across each other (`~crossed`): one sweep is under way
(`OneSweep`), what it listed before its second await lives (`ListedLive`), and what lives
beside what it may still drop is `Keep` loads, or it may drop none (`RoomAhead`). The step
that matters is the plan (`PlanLeavesRoom`): it spares the newest `Keep` of a list that
loads and commits have outrun, and those are enough (`NewestAreEnough`).

### WorkflowRun

For every set of graphs that validate, of any size, and any bounds
(`WorkflowAssumption`): `PlanOrders` and `RunTypeCorrect` (`TypeOK`); for graphs whose
branches are whole and whose rows arrive once, `RunCommitsWhatReaches`
(`CommitsWhatReachesIt`); and for graphs that are together, `RunWatermarkCovered`
(`WatermarkCovered`).

The hypotheses are conditions on graphs, which the code does not check. They are what
the properties need, not what the proofs need:

- `BranchesAreWhole`: the wire of a branch is the only one into its node. Without it
  `CommitsWhatReachesIt` fails (`workflow_branch`).
- `RowsArriveOnce`: whichever way the ifs go, the rows of a source come to a node over
  one wire. A source wired into a sink and into a pipe before that sink is committed
  twice by any code that passes rows on.
- `Together`: one sink, full only where every source is, which every source reaches
  whenever one does. With two sinks `WatermarkCovered` fails (`workflow_watermark`),
  since `promoteWatermarks` promotes every source of the graph after any commit; with
  one sink and a source that an `if` keeps from it, the commit of the other source's
  rows promotes the watermark of rows that went nowhere.

TLC evaluates that the graphs of `workflow` meet all three (`OneSinkIsTogether`).

*The plan.* `PlanOrders` says that Kahn's queue is a plan (`IsPlan`): every node once,
after all that feed it. The queue is defined by recursion over the nodes taken off it,
and that there is such a function (`ReadyExists`) and what it holds after n nodes goes
by the least n that has none. The queue never names a node twice, because a node is
freed by the last of its feeders and by no other; it holds every node, because of the nodes
left out one would wait for none of the others (`Acyclic`) and so would have been freed.

*Along the plan.* Induction over the plan is the same move again: of the nodes of which
something fails, take the first; it holds of its feeders (`AlongPlan`). The invariant
`RunInv` says of a state what can be so carried along:

- `TypeInv`: types, where each `pc` puts the run in its plan (`Control`), and that no
  watermark is ahead of its source (`Marks`);
- `Settled`: a node the run has passed has run if and only if it had a live wire, and
  refers to its own stage, an `if` to that of its input, a sink to none; a node not
  reached refers to nothing; what a pipe staged is what its inputs hand it;
- `Loads`: what is in the snapshot of a sink at work is a part of the batches it is
  handed, numbered through, all of them when it commits, and what it carried is the rest
  of what was served;
- `Spread`: what is staged at a source is rows of its own, one after the other, a batch
  each.

From `Settled`, along the plan: a node has run if and only if a source reaches it over
taken wires (`RunsReached`), and what it refers to holds the rows of those sources
(`RefsHanded`, `RowsReached`). `Taken` speaks of how the ifs went in this run,
`Reach` is the least set closed under such wires (`ReachSteps`), and an `if` not yet
reached may be given either answer, as no path through it has been taken
(`WaysAgree`). `RefsApart` uses the two conditions on graphs: no row is in two of the
batches a node is handed, so the count in the theorem is exact (`LoadOnce`).

*The watermark.* `WatermarkCovered` speaks of runs that are over and says nothing of
what is pending. `Reads` adds that a source read in this run holds every row between its
committed and its pending watermark in its stage (`Pending`), and `Covered` that in every
state a row behind a committed watermark is in what readers get. The step that matters is
the promotion: all that is pending then is served (`PendingServed`), because a sink that
one source reaches is reached by every source, so each has been read before it ran, and
it serves what they staged. A crash between the commit and the promotion puts the same
rows under the same numbers again; a run that ends in between leaves what is pending
behind, for the next read to overwrite, or to leave when it finds nothing, since it then
marks no row that is not behind the committed one (`Marks`).

TLC checked these invariants, for the constants of the runs, before they were proved.

### WorkflowVersions

For every set of graphs, tabs, people and runs and every bound
(`VersionsAssumption`): `VersionsTypeCorrect`; and, with one tab (`OneEditor`),
`OneGraphPerRun` (`RunsOneGraph`), `HeadMatchesRelease` (`HeadIsItsRelease`) and
`EditsDoNotDeploy` (`EditsNeverDeploy`).

A run's steps read the row or the archive, so that they agree is a fact about every
place that speaks of a version: the row, the archive, a release or a publication
under way, the graphs a run has executed. `Claim` is "someone speaks of version v as
graph g", and the inductive invariant is that two claims about a version name the
same graph (`VersionsNameGraphs`), that a save under way read the row as it still is
but for its status (`EditsAreCurrent`, which one tab ensures), and that a run that
has made no step has executed nothing (`RunsStartFresh`). Only a save makes a new
claim, about a version nobody has spoken of (`NoNewClaim` is what every other step
shows). With two tabs `EditsAreCurrent` fails, as "Further disagreements"
shows.

### Scheduler

For every set of replicas, users and connectors, every number of moments and every
crons (`SchedulerAssumption`, `NoneAssumption`): `TypeCorrect` and `SettledForGood`
(`SettledIsDecided`); and, with one user (`OneUser`), `StartedOnce`
(`WindowsStartOnce`).

`TypeOK` is proved with `MintedOnly`, since only connectors that exist are kept, asked
about and run, and `Counted`, since a version is one of the calls and nothing is
touched ahead of the clock. That there is a window at every moment (`WindowThereIs`)
is the well-foundedness of the naturals. `SettledIsDecided` rests on decisions that
stay: a run is never forgotten (`RunsAdded`) and a connector is minted for good and
never touched back in time (`TouchedForward`), which is why settling on the answer is
safe. `WindowsStartOnce` is not inductive: two runs of one window have different ids
if they have different connectors. `Lone` adds that there is one connector at most,
none while a publication is about to mint one, that runs are of connectors that
exist, and that ids are unique. With two users the second part fails, as
"Further disagreements" shows.

### Model-checked only

Liveness under fairness (`RunEnds`, `RowsAreServed`, `DueIsStarted`), which is out of the
prover's reach.

## Plan

Done: both stores and their theorems, connector runs, workflow runs, the fan-out,
its replay and its journal on file, retention, workflow versions, the scheduler.
Left, in this order:

1. Workflow nodes that call another workflow, and the mark of a merge gone stale.
2. The run ledger with `RunReconciler`, beside the runs of `Scheduler`.
3. The ClickHouse store as a third implementation of the contract.

The data-key cache, token renewal and the registry's refresh follow if they hold
anything worth a model.

## Not modelled

Reads (pure, though a drop may take objects away under one, a listed hazard),
SQL and Parquet themselves, drivers and HTTP, transforms, grants and audit, the
run ledger with its reconciliation, deletion of workflows and connectors, bundles and promotion between
environments, the console and the dashboard. `PROJECT.json` gives the reason for
each component left out.

Most of the repository's lines are the console, drivers, query building, validation of
graphs and the types of the read side: they keep no state that two actors share, and
are left to tests. The modules cover the code in which the order of steps decides what
readers get, which is a small part of the lines.

## Running

    tlc -workers 2 -config store_calls.cfg MCDuckDbStore.tla
    tlc -workers 2 -config mikro_store.cfg MCMikroOrmStore.tla
    tlc -workers 2 -config connector_loads.cfg ConnectorRun.tla
    tlc -workers 2 -config workflow.cfg MCWorkflowRun.tla
    tlc -workers 2 -config fanout.cfg MCFanout.tla
    tlc -workers 2 -config journal.cfg MCFileFanoutJournal.tla
    tlc -workers 2 -config eviction.cfg MCEviction.tla
    tlc -workers 2 -config workflow_versions.cfg MCWorkflowVersions.tla
    tlc -workers 2 -config schedule.cfg MCScheduler.tla
    tlapm DuckDbStoreProofs.tla
    tlapm MikroOrmStoreProofs.tla
    tlapm EvictionProofs.tla
    tlapm ConnectorRunProofs.tla
    tlapm FanoutProofs.tla
    tlapm FileFanoutJournalProofs.tla
    tlapm WorkflowProofs.tla
    tlapm SchedulerProofs.tla
