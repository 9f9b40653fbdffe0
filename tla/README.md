# GeminiTS: a TLA+ model of partitions, their writes and query admission

GeminiTS (openGemini) is a distributed time-series database.  Three kinds of
processes make up a cluster: **ts-meta** nodes keep the replicated meta data
(hashicorp/raft) and run the cluster's controllers on their leader, **ts-store**
nodes hold the data, **ts-sql** nodes plan queries and route writes.  A database
is cut into *partitions* (PTs); a PT is owned by one store at a time.  This
project models what decides whether a PT is served, by whom, what happens to the
requests inside it when it moves or is dropped, how a store admits queries, how a
shard keeps what it acknowledged, and how a replicated PT keeps its raft log and
applies it.

## 1. Inventory

| Component | State it keeps | Operations | Interacts with |
|---|---|---|---|
| Partition (`engine/partition.go`, `engine_ha.go`, `engine_ddl.go`) | `exeCount`, `offloading`, `ch`, `preload`, shards, `Engine.DBPartitions`, `Engine.mu` | ref, unref, markOffload, unMarkOffload, offload, drop, assign | requests, migration commands, DDL |
| Migrate state machine (`ts-meta/meta/migrate_state_machine.go`, `assign_event.go`, `move_event.go`) | running or stopped, `eventMap`, retry queue, event objects with their state | execute, process, send, answer, retry, delete, recover | meta data (raft proposals), stores (commands), cluster manager (failed events) |
| Cluster manager (`cluster_manager.go`, `member_event_handler.go`) | `memberIds`, `eventMap`, running or stopped | join and failed handlers, takeover, resend, restart | serf gossip, meta data, migrate state machine |
| Meta data (`lib/util/lifted/influx/meta/data.go`) | `PtView`, `MigrateEvents`, `DataNodes`, databases, shard groups ... | commands applied by raft | everybody |
| Migration commands in ts-store (`handler/migration.go`, `engine_ha.go`) | the PT in each engine, `migratingDbPT` | PreOffload, RollbackPreOffload, PreAssign, Offload, Assign | migrate state machine |
| Balancer (`balance_manager.go`, `balance_store.go`) | none | choose moves | migrate state machine |
| Replica groups (`meta/replication.go`) | replica groups, peers, master | elect, promote | cluster manager |
| Raft log (`lib/raftlog`) | entry files of slots, hard state, SnapshotIndex and snapshot in the meta file | save with conflicts, rotate, delete, snapshot, open | raft node |
| Raft node (`lib/raftconn`, `partition_raft.go`) | applied index, `DataCommittedC`, SnapShotter | start and replay, serve, apply, snapshot after flush, clear; write request | raft library, raft log, shards |
| Shard write path (`engine/shard.go`, `ts_storage.go`, `wal.go`, `log_writer.go`) | active and snapshot memtable, immutable files, WAL files, memory tokens | write, switch, flush, remove log files, open and replay, close | partition, memory bucket |
| Resource buckets (`lib/bucket`, `lib/resourceallocator`) | free tokens, waiters, broadcast channel; `aliveCount` | get, release, alloc, free | queries, index scans, writes (memory) |
| Spdy sessions (`engine/executor/spdy`) | session state, ack window | open, send, ack, close | RPC |
| Query executor, indexes, compaction, meta client, services | data | | |

**What is hard.**  A PT's state is spread over four places (raft, the leader's
memory, the commands in flight, the stores), each updated in its own step.
Between any two steps a store may die or come back, a command may time out and
still be carried out, the meta leadership may move, and the same PT may be wanted
by a move and by a takeover.  Inside a store, requests are counted in and out
while an offload waits for them under a timeout, below a reader/writer lock that
a drop keeps while it waits.  A row is in a table, in a log file or in an immutable
file, and moves between them in steps a crash may separate; a raft entry lives in
files that conflicts truncate, rotations split and other replicas' proposals
delete.  PROJECT.json lists these hazards at their lines.

**What makes it correct.**  No request has a closed PT pinned, none panics;
a cancelled offload leaves no trace; no operation waits for ever.  At most one
store has a PT loaded; a PT that is Online is loaded by its owner and runs its
background tasks; an Offline PT is always being taken care of; a persisted event
is driven by the leader; every event waits for exactly one command; the PT is
served in the end.  Whatever a query takes and reports it gives back, whoever could have
what it waits for is woken, and queries do not wait for each other in a circle.
An acknowledged write survives a crash, can be read and hides what was written
before it; memory tokens balance; writes, flushes, open and close do not wait for
each other for ever.  Committed raft entries stay where they were committed, are
taken for the shards once across restarts, and are cleared only when no peer needs
them; a write request is answered, and with the truth.

## 2. Modules

| Module | Models | Lines of code |
|---|---|---|
| `PtOffload` | one partition in one engine: requests of five kinds, one migration, one drop, the engine lock | `partition.go`, `engine.go`, `engine_ha.go`, `engine_ddl.go`, `engine_downsample.go` |
| `MCPtOffload` | its instance for TLC | |
| `PtOffloadProofs` | its inductive invariant and theorems | |
| `PtMigration` | one PT across the cluster: meta data, migrate state machine, cluster manager, commands, stores | `migrate_state_machine.go`, `assign_event.go`, `move_event.go`, `migrate_event.go`, `cluster_manager.go`, `member_event_handler.go`, `data.go`, `migration.go`, `engine_ha.go` |
| `MCPtMigration` | one budget of faults per run | |
| `PtMigrationProofs` | its inductive invariants, one per assumption on the faults, and theorems | |
| `ResourceBucket` | a bucket of tokens with a broadcast channel and timers | `bucket.go` |
| `ResourceBucketProofs` | its inductive invariant and theorems | |
| `QueryResources` | queries that take parallelism, shards and series; two instances of `ResourceBucket` | `resource_allocator.go`, `select.go`, `iterators.go`, `mergeset_index.go` |
| `MCQueryResources` | its instance for TLC | |
| `QueryResourcesProofs` | its inductive invariant, its refinements and theorems | |
| `ShardWal` | one shard of the row store: writes, two flushes, WAL, open with replay, close, crash | `shard.go`, `ts_storage.go`, `wal.go`, `log_writer.go` |
| `MCShardWal` | its instances for TLC | |
| `ShardWalProofs` | its inductive invariant and theorems | |
| `ShardWalOrderProofs` | every WAL partition keeps the order of its writes; extends `ShardWalProofs` | |
| `RaftLog` | the entry log as a data structure: pure operators | `entrylog.go`, `log.go`, `storage.go` |
| `RaftLogProofs` | lemmas: what these operators compute on a log without gaps | |
| `RaftStorage` | abstract: what the raft library relies on in a storage | |
| `RaftNode` | one replica: storage, serveChannels, apply, snapshot, clear, restart; extends `RaftLog`, refines `RaftStorage` | `storage.go`, `meta.go`, `snapshotter.go`, `node.go`, `partition_raft.go`, `engine_replication.go`, `ts_storage.go` |
| `MCRaftNode` | its instances for TLC | |
| `RaftNodeProofs` | its inductive invariant, its refinement and theorems; extends `RaftLogProofs` | |
| `RaftPropose` | write requests on a replicated PT and who answers them | `engine.go`, `node.go`, `partition_raft.go` |
| `MCRaftPropose` | its instance for TLC | |

### PtOffload

State: `exeCount`, `offloading`, `ch` are the fields of `DBPTInfo`; `holders`
says which requests have a pin (a ghost of the call stacks), `bare` which use a
shard without one; `present` is membership in `Engine.DBPartitions`; `done[c]` is
the channel caller `c` waits on; `pc`, `readers`, `writer` are where `offloadDbPT`
and `DeleteDatabase` are and who holds `Engine.mu`.  `markOffload`,
`unMarkOffload`, `ref` and `unref` are one step each because `dbPT.mu` makes them
so.  `unref` looks the partition up by name, as `unrefDBPT` does, and a partition
that is gone is the fault "pt not found".

Requests differ in what they do with the pin and with `Engine.mu` (`Kind`):

| Kind | Code | Pin | `Engine.mu.RLock` |
|---|---|---|---|
| request | index searches, `CreateShard`, `DeleteShard`, `DropMeasurement`, ... | while it works | for ref and for unref |
| sweep | `ForceFlush`, `GetShardDownSamplePolicyInfos` | while it works | from ref to unref |
| write | `getShard` of `WriteRows` and `WriteRec` | until `getShard` returns; the write follows without it | for ref and for unref |
| raft | `checkAndGetDBPTInfo` of `WriteToRaft` | until it returns; the proposal follows without it | from ref, and once more inside `unrefDBPT` |
| select | `Engine.GetShard` | none | for the lookup |

So the wait of an offload covers pins, and not the writes and selects that go on
with a shard they were handed: `NoUseAfterClose` is about the former, and what
happens to the latter is in the model (`bare`) and below (`MCPtBareUse.cfg`).
`GetShardDownSamplePolicyInfos` returns from its loop without unref when a shard
cannot be opened or ts-meta cannot be told: such a pin is never given back
(`forgotten`) and every offload of the partition then ends by its timeout.

`Engine.mu` is modelled as Go's `RWMutex`: one writer at a time announces itself
and blocks new readers, those included that hold the read side already; the other
writers queue on its inner mutex.  This matters twice.  `DeleteDatabase` waits for
the pins while it holds the read side, and a request needs the read side to leave:
only the 15 s timeout breaks the circle.  And `checkAndGetDBPTInfo` takes the read
side twice: with a writer in between, request and writer wait for each other for
ever (`Stuck`), and everybody who needs `Engine.mu` behind them.  The liveness
properties say that nothing else can hold an operation or a request up.

That ts-meta never runs a drop and a migration of one database together
(`checkMigrateConflict`, `checkDDLConflict`) is an assumption of this module,
written as guards of `BeginOffload` and `BeginDelete`.

### PtMigration

State: `ptView`, `stored`, `dn` are the raft-replicated meta data; `ev`,
`inMap`, `msm`, `leader` the migrate state machine; `cm`, `members`, `handler`,
`failed` the cluster manager; `reqs` the commands in flight; `up`, `conn`,
`eng`, `clock` the stores.  One action per handler of an event, per raft
proposal within it, per half of a member-event handler (record the status;
take the PTs over), per delivery, execution and answer of a command.

Abstractions, all in the data:

* One PT, the shared-storage policy.  The write-available-first and replication
  policies, sql nodes, segregation of nodes, `forceExecuteEvent` and the answer
  channel of a user command are left out; `needIsolate` is never set in the code.
* A registration's connection id is counted per node, not globally; ids are only
  compared for equality.  An opId is an unused number instead of `MaxEventOpId +
  1`; opIds too are only compared for equality.
* Member events of one node are handled in order; the Lamport times that
  restore the order belong to the planned module `ClusterManager`.  `members`
  survives a change of the leader because every meta node hears the gossip.
* A store is reported failed only if it is down; partitions of the network are
  not modelled.  The old leader has stepped down before the next one starts.
* `createMigrateEvent` and the read of its opId are one step, and a persisted
  event's own copy of the PT is a value, not an alias of an object in memory.
* The fence of the default build does nothing (`engine/fence.go`) and is left out.

Faults are bounded by `Budget`, one number per kind, spent in the guards of the
fault actions.  The spec allows any budget; the theorems hold for all of them, but
for the kinds that a hypothesis of theirs rules out (section 4).

### ResourceBucket and QueryResources

`freeResource` and `blockExecutor` are fields of `Int64bucket`; `pc[p]` is where
goroutine `p` is in `getResImpl` or `ReleaseResource`, `cost[p]` what it asked
for.  A channel is only told apart by what will happen to it, so `chan[p]` is the
current one, the one that goroutine `q` has taken away and will close, or a closed
one.  Steps under the lock are one action (`Try`, `ReleaseResource`); the close of
the old channel and the fall of the counter come after the lock and are actions of
their own (`Close`, `Wake`, `TimeOut`).  `BucketSpec` lets goroutines give back
exactly what they took, or 0.

`QueryResources` extends it (that bucket holds the series) and instantiates it
once more (`Shards`).  `BucketSpec` is also the abstract specification here: that
queries, through all error paths, use the shards properly is the refinement
`ShardsRefined`.  The series are not used that way: `SearchSeriesWithOpts` may report
fewer series than it took (`SeriesReported`: none over the series limit, the number of
groups for a group by except), and what it reports is given back.  `leaked` counts the
difference; `QueriesReturnAll` and `SomebodyRuns` are stated with it, so that they say
that nothing else is lost.  A query scans one shard at a time in the
model; in the code its cursors may be created in parallel.  How many series a scan
finds is a choice from `Costs`.  `Halved` is the loop of `gradientDescAllocation`,
as a recursive function of what is asked for.

### ShardWal

State: `active`, `snap`, `files` are the two memory tables and the immutable files;
`disk`, `fileSeq`, `names`, `writeReq` the write-ahead log on disk and in
`LogWriter` (`disk[p]` maps the numbers of partition `p`'s files to their records;
`names[p]` lists the numbers since the last switch); `rnames`, `replay` are
`LogReplay` and the replay under way; `fl` the two callers of `writeSnapshot` (the
Snapshot goroutine, `ForceFlush`); `free` the bucket `nodeMutableLimit`; `phase` the
life of the shard object, which also says who holds `s.mu`; `pc` where each write
is, `part` the WAL partition that its record went to.  A write is a step per lock or
wait (enter, tokens, index, table, log); a flush per effect on disk (switch, commit,
each removed file, end); `OpenAndEnable` per record; `Close` per effect.

`Switch` and `Replay` return their files partition after partition, in the order in
which the partitions' goroutines end; such a list is a record of that order and of
each partition's names, and `IsFirst` says whose file is removed next.

Abstractions in the data:

* All writes update one point, the case in which their order matters; a write is
  its identity, and `prec` remembers which writes were acknowledged before it
  began.  A row costs one token.  A log file is full after `RecsPerFile` records.
* The immutable files are the sequence of the rows in them, of which the last copy
  counts; how files merge is not modelled.
* A crash ends the process and keeps what the operating system was given: the
  default configuration syncs the log in the background.
* Replay is synchronous and serial (`wal-replay-async = false`,
  `wal-replay-parallel = false`).
* `MaxNames` bounds how often `OpenAndEnable` may fail and be called again on one
  object, which appends the file names each time.

A replayed record may fail without tokens taken, or be refused by the memory table
after its size was added to it (`ReplayRecordFails`).  When `Close` returns an error in
the middle, the shard stays as it is then, with `cacheClosed` set: a behaviour of the
model in which no further step of `Close` is taken.

### RaftLog, RaftStorage, RaftNode

`RaftLog` has the entry log as a record of full files and a current one, each the
sequence of its used slots, and the code's own searches on it (`slotGe` over files
and slots, with its -1s).  Rotation happens after `MaxNumEntries` slots or for an
entry of `Large` behind other data; an entry above 32 MB, for which an empty file
would be rotated too, is assumed away (a write is at most `max-body-size`, 25 MB unless
it is raised).  Loops over slots and files (`Filter`, `Joined`)
are recursive functions.  `ZeroedTail` is what the zeroing write of
`AddEntries` really covers.

`RaftNode` is one replica.  `log`, `commit`, `meta` are on disk; `sv`, `ap`, `sg`,
`fl` are the goroutines `serveChannels`, `readCommitFromRaft`, `snapshotAfterFlush`
and the shards' `writeSnapshot`, with `cindex` and `flag` between them; `replay` is
what waits in `ReplayC`.  A start only fills that channel; `Assign` lists the
partition (`AddDBPTInfo`, before which no raft message finds the node, so nothing
new is appended or committed) and then writes the replayed rows (`ReadReplay`) while
`readCommitFromRaft` writes what is committed meanwhile.  `chosen`, `given`,
`cleared` are histories.  The raft library is external: in a `Ready` it appends
behind a stored entry, may rewrite uncommitted ones under another term, moves the
commit index within the log and hands out committed entries in order, all or the
next one, from the first index after a restart.  A crash may come anywhere, also
between two writes of a save (`CrashInSave`) and between the two halves of
`StoreSnapshot`.

`deleteEntryLog` reads `isLeader` and then the peers' `Progress`.  If the leadership is
lost in between, `Progress` is empty and the lowest match stays `math.MaxUint64`:
`PrepareDeleteEntryLog` may be given that index, and so may the ClearEntryLogs of other
nodes (`Datas`).  Applied, such an entry deletes every full file, committed or not
(`Overcleared`).  That the lowest `Match` of the group is at most the commit index this
node has saved is an assumption on the raft library.

Abstractions: the node starts after its bootstrap; entries of one `Ready` share a
term; a proposal to clear up to index 0 or 1 deletes nothing and is left out;
a disk that loses what it was given, conf changes, `MsgSnap` and the rows
themselves are not modelled.

`RaftStorage` is the abstraction: a set of (index, term) without gaps in which
nothing at or below the commit index changes except by clearing a committed
prefix.  `StorageRefined` maps the files onto it.

### RaftPropose

`pc`, `answer` are a request in `WriteToRaft`; `chans` the keys of
`DataCommittedC`; `proposing`, `inRaft` the goroutine `proposals` and the library;
`ap` is `readCommitFromRaft`.  The lock of `DataCommittedC` is held across a step
only by `RetCommittedDataC`, which sends with it held (`Locked`).  Requests, the
timer and the loss of a proposal interleave freely.

## 3. Runs

| Run | Instance | Shows |
|---|---|---|
| `offload` | 1 request of each kind, 2 goroutines wanting the lock, 1 failed close, 1 forgotten pin | `NoUseAfterClose`, `NoPanic`, `MarkTakenBack`, `IInv`; every operation and every request comes to its end unless the recursive lock has stopped it (`OperationsReturn`, `RequestsLeave`) |
| `migration` | 3 stores; 1 crash, 2 timeouts, 1 refusal, 2 moves | `AtMostOneLoaded`, `OnlineIsLoaded`, `BackgroundRestored`, `LoadedByOwner`, `EventuallyServed` under one leader |
| `restart` | 2 stores; 1 crash, 1 restart, 1 late command, 1 full memory | `OfflineIsHandled` |
| `leaders` | 2 stores; 1 crash, 1 loss of leadership, 1 move | `StoredIsDriven`, `OneCommand`, `OnlineKeepsOwner` |
| `queries` | 3 queries of 1 or 3 shards, 3 shards and 3 series in all, scans of 0, 2 or 3 series, a series limit of 2, group by except | `NoLostWakeup`, `BucketInv`, `ShardsKept`, `QueriesReturnAll`, `ParallelismInRange`, `SomebodyRuns`, `ShardsRefined` |
| `shard_wal` | 2 writes, 1 WAL partition, files of 1 record, memory for 2 rows | `Durable`, `Readable`, `PartitionOrder`, `TokensKept`; every call returns (`CallsReturn`), what was acknowledged is flushed (`AckedIsFlushed`) |
| `raft_node` | 4 entries, 2 terms, files of 2 slots, entry 2 large, 1 shard, 1 clear | `CommittedKept`, `GivenOnce`, `SnapshotTaken`, `ReplayReads`, `PeersKept`, `StorageRefined` |
| `takeover`, `double_load`, `wal_order`, `raft_truncate`, `raft_stuck` | see below | what the code does not guarantee |

**Why the bounds are enough.** Two pins suffice for every race of the counter with
the mark (one that leaves last, one that comes in late); with one request of each
kind four can hold pins at once, and each kind meets each other.  Two goroutines
that want the lock show a queue behind an announced writer.  Three stores are the
least with which a takeover has a choice beside the old owner; three event slots
hold a move, a takeover and a recovered event at once.  Each fault is allowed once
or twice because each interesting scenario needs one of a kind between two given
steps; the combinations are split over runs since restart and leadership together
are beyond TLC. No run allows a lost connection to a live store (`noconn`), and only
`restart` lets a command arrive after its session is closed: PROJECT.json says,
under the hazards, what the model shows beyond these budgets.  In `queries`, two
scans of 2 do not fit together, one of 3 takes everything, and three queries let one
wait, one release and one overtake; a request of 3 shards overdraws the pool when 1
is taken, and 3 is halved below the minimum of 2.  A scan of 3 exceeds the series
limit and leaks all it took, one of 2 any part.

In `shard_wal`, two writes are the least with an order, one record per file makes
every removal of files partial, and memory for two rows lets both tables and a
failed replay hold tokens while a write waits; there is no bound on flushes,
closes or crashes.  With one WAL partition `PartitionOrder` says of the instance what
`LastWriteWins` does; the proof has it for every number of partitions, and with two
`LastWriteWins` is lost (`wal_order`).  In `raft_node`, files of two slots and a large entry
give three files of different fill with four entries; the second term gives
conflicts in the current and in an earlier file; `MaxExtra = 1` is a limit of the
code and not of TLC, since a crash while two files are being deleted in ascending
order leaves a hole.  One clear at a time is enough for it to be stale, or too wide,
and crashes and restarts are not bounded.  The largest runs are `raft_node` (about
694,000 states) and `shard_wal` (216,000, with liveness).

Deadlock is not checked for PtMigration, which stops when the PT is served and no
fault is left, nor for RaftPropose, whose requests end, nor for PtOffload, which may
stand still by its recursive lock (`OperationsReturn` and `RequestsLeave` say when); it
is checked for QueryResources, ShardWal and RaftNode.

**Fairness.**  PtOffload: goroutines run; a reader of `RWMutex` that waits
behind a writer enters before the next writer does, and Go's mutex starvation
mode gives every queued writer its turn (strong fairness for `Lock`).  Requests
end, and one that leaves gets the read lock between two writers (strong fairness
for `Unref`).  PtMigration: the leader's goroutines run, a store takes and finishes the
commands that reach it or the connection breaks, gossip reports what happened to
a store, a leader is elected when there is none.  No fault has to happen.
ShardWal: goroutines run; a write that waits for tokens has a timer; whoever calls
`OpenAndEnable` or `Close` runs it to its end.  Strong fairness only for the wait
on `s.mu` (a released `RWMutex` lets the waiting side in) and on `snapshotWg`
(which releases its waiters at zero).  No write, close, forced flush, open or crash
has to begin.  RaftPropose: goroutines run, timers fire and the library's `Propose`
returns; strong fairness for a request, since the lock is free again and again; the
library need not commit anything.

### What the code does not guarantee

Five runs expect a violation.  Each is a sequence of legal steps of the model
that ends in what a comment of the code rules out.

* `takeover`: the leadership moves after a failed store was recorded as Failed
  and before its PT was taken over.  The next leader, which got the same event as
  a follower, finds its Lamport time in the meta data and skips it; the PT stays
  Offline.  (`checkFailedNode` helps only when the event is not in `eventMap`.)
* `double_load`: an assignment recovered after it wrote its target as the owner
  gives up with PtChanged and is assigned again, possibly to another store, while
  the first one still loads the PT.
* `wal_order`: with more than one WAL partition a crash while log files are being
  removed leaves an older record behind after the newer one is gone; replay writes
  it on top of the newer row, although serial replay is there to keep that order.
* `raft_truncate`: a conflict in an earlier entry file zeroes its slots with a
  write that starts with a length of its own and so reaches four bytes into the
  data: the first entry of that file, which may be committed, reads as empty.
  (Index and term are intact, so `CommittedKept` and `StorageRefined` hold.)
* `raft_stuck`: the timer of a write fires while `RetCommittedDataC` holds the
  lock to tell it its commit; the request needs that lock to leave and no longer
  receives.  Both wait for ever, and behind them the apply loop and every later
  write of the PT.

The following are shown by a cfg of their own, with the properties named; they are
not among the runs of PROJECT.json:

* `MCPtRecoveredMove.cfg` (`OfflineIsHandled`): a move that has made its PT Offline
  is recovered by the next leader with connection id 0, is refused, rolls back and
  ends without asking for a reassignment.
* `MCPtClock.cfg` (`ClockIncreases`): a failed event refreshes owner and status but
  not the version; the takeover that follows loads the PT with an old logical clock.
* `MCPtQuickRestart.cfg` (`OnlineIsLoaded`): the target of a move loads the PT, dies
  and joins again before the leader marks the PT Online; owner and status are as
  before, so it goes Online on a store that has not loaded it.
* `MCPtTwoCrashes.cfg` (`AtMostOneLoaded`): source and target of a move die and the PT is
  taken over twice, by the failure of the source and by the failed move.  `deleteEvent`
  takes the first assign event out of `eventMap` before it removes what is persisted, so
  the second one starts in between; it names the same store, `CreateMigrateEvent` accepts
  it as the one that is persisted, and the removal then takes its opId away.  Its store
  loads the PT, its next state cannot be persisted any more, and the PT is assigned to
  another store while this one has it loaded.
* `MCPtRecursiveLock.cfg` (`NeverStuck`): a replicated write is inside
  `checkAndGetDBPTInfo` when another goroutine asks for `Engine.mu.Lock`; the deferred
  `unrefDBPT` then waits behind that writer for the read lock, and the writer for the
  read lock the request holds.
* `MCPtBareUse.cfg` (`NoBareUseAfterClose`): a write that got its shard from `getShard`,
  or a select, is still using it when an offload, which saw no pins, closes it.  (The
  shard answers such a write with `ErrShardClosed`.)
* `MCSeriesLeak.cfg` (`SeriesReturned`): `SearchSeriesWithOpts` reports fewer series
  than it took when there are more than the limit, or when the query groups by
  except; the deferred `FreeRes` gives back what it reports.
* `MCRaftAck.cfg` (`AckedIsWritten`): `defer retCommittedDataC(node, dataWrapper,
  err)` in `partition_raft.go` evaluates `err` before the rows are written, so a
  write that fails on the replica is answered with success.
* `MCRaftOverclear.cfg` (`ClearsCommitted`): a ClearEntryLog of `math.MaxUint64`, made by
  a leader that lost the leadership between `isLeader` and `Status`, deletes the full
  files with entries that are not committed, or that a slow peer needs.
* `MCRaftReplayOrder.cfg` (`ReplayedFirst`): after a restart the rows of a newly committed
  entry are written before older rows that still wait in `ReplayC`, which then come on
  top of them.
* `MCRaftReplayLost.cfg` (`ReplayNotCovered`): a snapshot with the index of such an entry
  is stored while older rows wait in `ReplayC`; the next start does not replay them.

Read in the code and outside the models: `WriteToRaft` recovers the panic of a send
on a closed `proposeC` and returns nil (`TestEngine_WriteToRaft_Panic` asserts it);
an asynchronous replay that `Close` cancels returns file names it has not read, which
are then removed; the snapshot index of a replica is stored before the table it
stands for is flushed, and one index serves all shards of the PT.

## 4. Proofs

TLAPS proves, for every value of the constants:

* **PtOffloadProofs** - `Spec => []IInv`, and from it `TypeOK`, `NoUseAfterClose`,
  `NoPanic` and `MarkTakenBack`, for any finite set of requests of any kinds, any
  set of other goroutines and any number of failed closes and forgotten pins.
  `NoUseAfterClose` is not inductive by itself: one has to know that `exeCount` is
  the number of requests with a pin and of forgotten pins, that a channel exists
  exactly while a marked partition has any, that only the caller in its waiting
  phase owns it, that the two operations exclude each other, and that the partition
  is marked in every phase from the mark to the removal.  `IInv` adds these; the
  proof goes action by action, with a lemma each for adding to and removing from
  `holders` (cardinality).
* **PtMigrationProofs** - four invariants, one on top of the other, for any finite set
  of stores and of event slots; each needs more of the environment and says more.

  `Spec => []IInv`, and from it `TypeOK` and `OneCommand`, for any budget of faults.
  Types alone are not inductive: `Offloaded` writes the event's source as the owner,
  and an assign event has none, so one has to know that an assign event stays within
  its four states (`WellFormed`); and that a recovered move has a source (the part
  of `EventInv` about `stored`).  `OneCommand` ties the mode of an event to the
  untagged requests.  The invariant is split into parts by what the steps disturb
  together; `SendStep`, `AnswerStep`, `ReplyStep`, `QuietEvent` and `LeaveStep` say
  what the building blocks of the actions do to them, and there is one lemma per
  action.  That there always is an unused opId (`FreshOpType`) is a counting
  argument.  `StoredIsDriven` holds for any budget too: `DriveInv` adds that a
  leader's state machine runs and that what is persisted has an opId, which an event
  keeps from `createMigrateEvent` to its end (`OpsKept`).

  `OfflineIsHandled` and `OnlineKeepsOwner` have the hypothesis `StableLeader` (no leader
  is deposed; any other fault, any number of times): with a change of the leader
  `OfflineIsHandled` is false (`MCPtRecoveredMove.cfg`), and a change of the leader leaves
  two generations of events at work.  `SInv` says that one event is active, in which phase
  it is (`InPhase`), and what it may rely on about the PT although it read it some steps
  ago (`Sees`): an assign event finds it Offline, a move until it has offloaded it still
  has the source as owner, and whoever waits for an assign command has given it to its
  target.  That an Offline PT has somebody who cares (`Handled`) then depends on member
  events: a store that has the command but failed was noticed, or will be, because a
  store that is up and Failed has registered again (`RegInv`, `NoticedInv`).

  `LoadedByOwner` has the hypothesis `NoReturn`: besides, stores that die stay down, no
  command outlives its session and stores that are up can be reached (any number of
  crashes, timeouts, refusals, full memories and moves).  A command that is carried out
  after the event has gone on would load a PT that was given away; `QInv` says that there is
  none: every request, also one whose answer nobody waits for, is a command of the
  active event in its present state, and at most one is being carried out.

  `AtMostOneLoaded`, `OnlineIsLoaded` and `BackgroundRestored` need `OneCrash`
  besides: at most one store dies and memory does not run short, with any number of
  timeouts, refusals and moves.  `MCPtTwoCrashes.cfg` is a counterexample with two
  crashes, and `MCPtQuickRestart.cfg` one with a restart.  `WInv` says in each state
  of each event who has the PT loaded and whether its background tasks run (`Busy`;
  `Idle` without an event), that a takeover is only ever asked for the PT of the
  dead store (`TasksInv`), and, what fails with two crashes, that no two events
  share the persisted one (`OpsInv`).

* **ResourceBucketProofs** - `BucketSpec => []FullInv`, and from it `BucketInv`,
  `BucketTypeOK`, `NoLostWakeup` and `AllBack`, for any finite set of goroutines, any
  costs and any total.  `ReleaseResource` wakes nobody when it reads 0 in
  `blockExecutor`, so that the counter is exact (`BlockInv`) is what the absence of
  lost wakeups rests on; the counter changes outside the lock, but in the same
  step in which a goroutine stops waiting.  That the tokens balance needs a sum over
  the goroutines that hold some, which the provers have no theory for: a token is
  written as a pair of its holder and a number up to what the holder took, and the
  sum is the cardinality of that set (`Tokens`; `TokensAdded` and `TokensRemoved` say
  how it changes with one goroutine).
* **QueryResourcesProofs** - `Spec => []IInv`, for any number of queries, any
  requests and any limits: both buckets' invariants, where every query is in either
  bucket at each of its own steps (`QCtl`), and what `aliveCount` counts.  From it
  that queries use the shards as a bucket is used (`ShardsRefined`: every step of a
  query is a step of `BucketSpec` or a stutter), `ShardsKept`, `NoLostWakeup` of the
  series, `ParallelismInRange`, `QueriesReturnAll` and `SomebodyRuns`, with or
  without series limit and group by except.  The account of the series is kept with
  what has leaked: free tokens, those held and `leaked` make up the total
  (`SeriesInv`).  `SomebodyRuns` is the absence of a circular wait: who waits for
  shards does so while they are overdrawn, so some query holds shards; that one
  waits for series at worst, and whoever holds series runs.  If none did, the series
  would all be free but the leaked ones and by `NoLostWakeup` nobody would wait for
  them.  That `gradientDescAllocation` halves a request into its bounds is proved of
  the recursive function without induction: `LeastElement` (the natural numbers are
  well ordered, from the library) picks the least request that would be a
  counterexample, and half of it is one too.
* **ShardWalProofs** - `Spec => []IInv`, and from it `TypeOK`, `TokensKept`,
  `Durable` and `Readable`, for any finite set of writes, any number of WAL partitions,
  any size of a log file and of the memory.  `Durable` says that an acknowledged write
  is in the immutable files or in a log file; that a log file may be *removed* is what
  has to be known, and that depends on where its rows are.  `CoverInv` follows them:
  the records of `LogWriter`'s current files are in the active table; those of the
  files a flush has switched are in the snapshot table, and once it is committed in
  the files; those of files being replayed are in one of the three or still to be
  read.  This needs the log's bookkeeping (`LogInv`: the current names are on disk,
  apart from the ones being removed, and a new file has a number above all on disk,
  so that a removal by name never hits it), that a snapshot table has a flush which owns
  it (`SnapInv`), that at most one flush is between the switch and its end and which
  phases of the shard allow one (`CtlInv`), and that a write which is not yet
  acknowledged holds `s.mu` and keeps the table alive between its row and its record
  (`WriteInv`).  `Readable` is about the opened shard's tables and files.  There is one
  lemma per action; flushes share lemmas about what each of their steps moves.
* **ShardWalOrderProofs** - `Spec => [](IInv /\ OInv)`, and from it
  `PartitionOrder`, for any number of WAL partitions.  (`LastWriteWins`, the order
  across partitions, is what the code does not keep: run `wal_order`.)  `OInv` is
  one invariant per partition, `PInv(b)`: the partitions share the tables and files
  but each orders only its own writes, so every step is shown to keep `PInv(b)` for
  the partition it works on and, more easily, for the others.  `Hides(s, w, v)` says
  that in the sequence `s` of rows `w` comes after every copy of `v`.  A later write
  has to hide an earlier one in the files followed by the tables (`ShownInOrder`),
  but a crash takes the tables away and a replay reads the log once more on top of
  files that may hold its rows already, so this alone is not inductive.  A write
  whose record is gone must hide the earlier ones in the files, and also in the
  files with the tables on top (`Settled`); while records are read, either what is
  yet to be read decides, or it has neither write (`ReadInOrder`); what a flush is
  about to remove is in order in the files and its table (`DoomedInOrder`), and a
  committed table that is still there adds nothing (`Absorbed`).  A record may only
  go after those of all earlier writes (`RecordInv`), which holds because log files
  are written, listed and removed in the order of their numbers, in a flush, in a
  replay, and in a replay that takes up the names an earlier one left (`FileInv`,
  `InTurn`).  `OwnInv` says who may have writes and log files at all: only an object
  whose Snapshot goroutine runs.
* **RaftNodeProofs**, on the lemmas of **RaftLogProofs** -
  `Spec => [](Overcleared \/ IInv)`, and from
  it `TypeOK`, `CommittedKept`, `GivenOnce`, `SnapshotTaken`, `ReplayReads`, the
  action property `PeersKept` and the refinement `StorageRefined`, for any number of
  entries, terms, slots in a file, files, shards and proposals, and any number of
  crashes and restarts.  All have the hypothesis `OneExtraFile` (`MaxExtra <= 1`: a
  conflict deletes at most one file beside the one it cuts), which the run `raft_node`
  has too: without it they are false, because the code deletes the extra files in
  ascending order and a crash in between leaves a gap.  And all hold until a ClearEntryLog
  that names no entry is applied (`Overcleared`): the theorems about states are
  `[](Overcleared \/ ...)`, and the two about steps have the same exception in the
  property.  After that the node may be without the entries raft needs, and what the
  library does then is open.

  What all rests on is the structure of the log: `Wf` says that only the current
  file may be empty and that indexes rise by one through the slots and from file to
  file.  With it the searches of the code find what they should: `RaftLogProofs`
  shows that `SlotGe` is the place of an index, that `FirstIndex` and `LastIndex`
  are the ends, that `AllEntries` is exactly the range asked for, and what
  discarding, rotating, writing, deleting files and opening the files after a crash
  keep (`Keeps`: up to an index, every slot of the new log is a slot of the old one,
  or that slot with its data zeroed).  `LogInv` adds that the log reaches from
  before the applied entries over the commit index and holds committed entries under
  the terms they were chosen with.  `CommittedKept` and `PeersKept` depend on what
  is *deleted*, so the invariant follows each `ClearEntryLog` from the proposal
  through the log, the handed-out entries and the apply queue: it is about indexes
  before its own and either names what the slowest peer has or a file that starts at
  or below it (`Harmless`, with `PeerSafe`).  `GivenOnce` needs that what the
  library hands out follows what it handed out before (`ServeInv`, `ApplyInv`), and
  that the rows in `ReplayC` are below it; `SnapshotTaken` and `ReplayReads` that
  the snapshot index stays behind what is applied in every goroutine that carries it
  (`SnapInv`); and all that nothing is left running in a node that is down
  (`DownInv`).  What a recursive function computes is proved without induction, with
  `LeastElement` again; that the stored indexes have no gap (`Sound` of RaftStorage
  compares a cardinality with a maximum) by a bijection onto the interval.

Assumptions: finite `Users`; finite, non-empty `Nodes` and `EvIds`; `NoNode` is
no node, `NoEvent` no event; budgets are natural numbers; finite `Procs`, natural
`Costs`, `Total`, shard numbers and thresholds, of which the minimum of an allocation
is positive; finite `Writes`, at least one WAL partition and at least one record in a
log file; at least one slot in an entry file, a positive last index, natural bounds of
RaftNode.  TLC evaluates all of them on the instances of the runs.  `OneExtraFile`,
`StableLeader`, `NoReturn` and `OneCrash` are hypotheses of the theorems that need them.
The run `raft_node` satisfies the first, `migration` the other three, with the faults that
they leave open, and `restart` satisfies `StableLeader`.  The run `leaders` checks
`OnlineKeepsOwner` beyond its theorem's hypothesis, with one change of the leader.

Only model-checked:

* Liveness (`OperationsReturn`, `RequestsLeave`, `EventuallyServed`, `CallsReturn`,
  `AckedIsFlushed`), which is out of the prover's reach.
* `OnlineKeepsOwner` of PtMigration when the leader changes, within the budget of the run
  `leaders`.
* In `raft_node`, `TypeOK`, `CommittedKept`, `GivenOnce`, `SnapshotTaken` and
  `ReplayReads` also after a ClearEntryLog that names no entry, within its bounds.
* RaftPropose, whose run is about a deadlock.

## 5. Plan

Modelled first because a PT nobody or two stores serve is the worst that can
happen: PtOffload and PtMigration; then ResourceBucket, which every query and
write of a store goes through; then what must not lose data, ShardWal and the raft
modules.  Proved in the order PtOffload, PtMigration, ResourceBucket, ShardWal,
QueryResources, RaftNode and the order of writes in ShardWal.  Next, in this order:

1. Proofs about RaftPropose (who may be in `chans`).
2. `ClusterManager`: member events with Lamport times, `eventMap`, goroutines
   that overtake each other, resend and `checkFailedNode`; refines the orderly
   member events of PtMigration.
3. `ReplicaGroup`: replica groups, `electRgMaster`, `processReplication`; one
   master per group, the master is a live peer.
4. The column store's tokens (`cs_storage.go`; two hazards wait for it) and
   asynchronous replay, as variants of ShardWal; the rows of a replica's shards, by
   composing RaftNode with ShardWal's tables.
5. The DDL marks of the meta data (`checkMigrateConflict`, `checkDDLConflict`),
   which discharge PtOffload's assumption; the balancer's choice as pure operators.
6. Spdy's session machine and the ack window.

## 6. Not modelled

The repository has over 300,000 lines, most of them about data: the query
executor, the query language, indexes, codecs and file formats.  This project
covers the control of the stores and of their controllers, a small share of the
lines.

* hashicorp/raft, etcd/raft and serf are vendored: of the first, the model takes
  that a leader's proposals are applied one at a time and anybody else's refused;
  of the second, what RaftNode says above.
* Of the shard: the column store, asynchronous and parallel replay, read-only
  shards, dropped measurements, downsampling, compaction.
* Of the raft node: membership changes after the bootstrap, snapshots sent to a
  follower (`MsgSnap`; the unsigned difference in `entriesToApply` would then
  matter), `TransferLeadership`, propose ids that start again at 0 after a restart.
* Services (downsample, stream, continuous queries) are periodic jobs on top of the
  engine; the meta client is a cache with retries.

PROJECT.json gives the reason for each component.
