# Kestrel: a TLA+ verification project

Kestrel is a Redis-compatible in-memory server in Go. Its dataset is split into
databases and shards; every change is propagated as a canonical effect to an
append log; the log is compacted by snapshots taken while writers run; the same
log feeds replicas. This project models the parts of that machinery in which the
order of steps of several goroutines, a failed system call or a crash decides
whether data survives, model-checks them with TLC on small instances, and proves
the most important properties with TLAPS for every instance.

All source paths below are relative to `src/kestrel/`.

## The system

### Components, their state and operations

| Component | State | Operations | What is hard |
|---|---|---|---|
| Log segment, `persist/log.go` | staging buffer, offsets, sticky error, fsync policy, `flushing`, `waiters` | Append, AppendRaw, flush, drain, sync loop, SetFsync, Close | group commit writes with the mutex released; several waiters per batch; failures part-way |
| Segmented log, `persist/segments.go` | list of segments, `closed`, wake-up channel | Append, Roll, Prune, Reset, Close, Segments | a roll between two appends; unlink and create fail or are cut by a crash |
| Follower, `persist/follow.go`, `reader.go` | position, open file | Follow, seek, Next | reads files another goroutine rolls and prunes; must not sleep through a record |
| Write dispatch, `command/dispatch.go`, `engine/order.go` | per-shard ordering locks `prop` | Execute, resolve, runAndPropagate, propagate | log order must be execution order; lock order |
| Fuzzy snapshot, `engine/snapshot.go`, `command/snapshot.go`, `persist/snapshot.go` | one anchor and one image per shard, `snapshotGuard` | SnapshotWindow, SnapshotShard, WriteSnapshot, Commit, Abort | each shard is taken at a different offset while writers run |
| Recovery, `persist/recover.go`, `command/replay.go`, `server/persistence.go` | files on disk | restore, LoadSnapshot, Recover, Replayer.Apply | the log's tail must be applied to exactly the shards that lack it |
| Transactions, `command/transaction.go` | queue, watched keys, dirty flag | MULTI, EXEC, DISCARD, WATCH | EXEC takes every ordering lock |
| Keyspace, `engine/keyspace.go` and the object files | databases, shards, `barrier`, memory estimate | lookup, FLUSHALL, SWAPDB, counters | SWAPDB exchanges shard arrays under other goroutines |
| Expiry and eviction, `engine/expire.go`, `engine/evict.go` | expires dictionaries, sampling | active and lazy expiry, evictOne | both delete and log under ordering locks from odd places |
| Replication, `server/replication.go`, `server/replica.go`, `command/replication.go` | replica ids, offsets, link state, acknowledgements | PSYNC, full and partial resynchronisation, stream application, promotion, WAIT | links drop and crashes strike between the files' switch-over steps |
| Blocking commands, `command/blocking.go` | waiter lists per key | blockUntil, wake, timeout, Yield | a timeout or disconnect racing the hand-off |
| Pub/Sub and MONITOR, `command/pubsub.go`, `command/monitor.go` | registries, bounded outboxes | subscribe, publish, deliver, close | a slow subscriber must not hold up a publisher |
| Dictionary, `engine/dict.go` | two tables, rehash position | get, set, delete, rehash, scan | a cursor held across resizes |
| Data structures, `engine/list.go`, `set.go`, `hash.go`, `zset.go`, `skiplist.go`, `listpack.go`, ... | values | the commands' operations | ranks, spans and index arithmetic |
| ACL, configuration, connections, lifecycle | tables, atomic configuration snapshots, connections | CONFIG SET, ACL SETUSER, serve, shutdown | shutdown order, configuration changed under readers |
| RESP codec, command table, INFO, metrics, command-line client | none of their own | encode, decode, format | nothing a model checker reaches |

### How they interact

A write command runs as: refuse if persistence has failed, take the read side of
`snapshotGuard` if the command is cross-shard, take the ordering locks of the
shards of its keys in ascending order, run the handler (which takes the shards'
data locks), append every effect to the log, release the locks, reply.
A transaction takes every ordering lock once and runs its commands under them.
A snapshot pass takes the write side of `snapshotGuard`, visits the shards in
order (ordering lock, read the log's offset, data lock, release the ordering
lock, walk), renames its file into place, rolls the log and prunes it.
A log append stages its record in the current segment under the shared side of
the log's mutex and returns when some goroutine has written its batch. Followers
read the segment files and sleep on a channel that each append closes.
A restart loads the snapshot and replays the log over it, each record to the
shards whose anchor it is not before.
A change of a key calls a hook, with the data lock held, that breaks the WATCH of
every client watching it and wakes every client blocked on it; a blocked client
gives its ordering locks back while it waits and retries under them.
A leader answers PSYNC by resuming its log at the replica's offset or by sending the
snapshot and the log from its first anchor; the replica applies the records through
the same per-shard filter as recovery, writes them to a log of its own at the same
offsets, and acknowledges.
A connection is a command loop and, once it subscribes or monitors, a delivery
goroutine; publishers put messages into its bounded outbox and never wait.

## Modules

| Module | Models | Proofs |
|---|---|---|
| `GroupCommit` | one segment of the log | `GroupCommitProofs` |
| `SegmentLog` | the directory of segments and its followers | `SegmentLogProofs` |
| `FuzzySnapshot` | writes, transactions, the log as a sequence, snapshots, crash and recovery | `FuzzySnapshotProofs` |
| `LockOrder` | the four layers of locks as every part of the server takes them | `LockOrderProofs` |
| `Sessions` | WATCH, MULTI, EXEC, the blocking pops, hang-ups and shutdown | `SessionsProofs` |
| `ReplicatedCopy` | abstract specification of replication: a copy that holds the leader's log up to its position | |
| `Replication` | leader and replica, the stream, the replica's files and restarts; implements `ReplicatedCopy` | `ReplicationProofs` |
| `Connection` | command loop, delivery goroutine, outbox, subscriptions, shutdown | `ConnectionProofs` |
| `Selection` | one operator: records applied one after the other, those of a set only | in `ReplicationProofs` (lemmas) |
| `Dict` | the hash table, incremental rehash, SCAN over shards | |
| `SortedSet` | the two encodings of a sorted set and the skiplist | |
| `Keyspace`, `StringOps`, `CollectionOps` | lookup, expiry, store, signals; the operations and handlers of the types (operators only) | |
| `Effects` | a keyspace running the write commands beside a copy that replays what they log | `EffectsProofs` |
| `MC*` | instances for TLC | |

The modules are layered. `SegmentLog` takes one append as one step; `GroupCommit`
shows why it may: an append that returns left its record at the offset it was
told, and nothing is staged or in flight while the log's exclusive lock is held.
`FuzzySnapshot` takes the log as one sequence with an oldest offset, which is
what `SegmentLog` shows of the directory. It knows of the ordering locks, the data
locks and the guard only what writers and the snapshotter do with them;
`LockOrder` puts every user of every lock side by side and forgets the data.
`Sessions` and `Replication` rest on these: the first takes the locks of a command in
one step, because `LockOrder` is about the order, and the second takes a snapshot as
its anchors, because `FuzzySnapshot` shows what the shards then hold. `Effects` is
where `FuzzySnapshot`'s `NewValue` is filled in: it runs the commands themselves and
shows that the effects they log are safe to replay.

### GroupCommit

`mu`, `pending`, `assigned`, `offset`, `flushing`, `waiters`, `dirty`, `err` and
the policy are the fields of `segment`. A thread's `pc` says where it is in
`stageLocked`, `flushLocked`, `drainLocked`, `syncLoop` or `Close`. A record is
named by the offset it was given and is one unit long, so the file is right when
its i-th record is `Base + i - 1`; a short write leaves `Torn` at the end. The two
system calls of a flush, the write and the fsync, are steps of their own with the
mutex released. The exclusive side of `Log.mu` is what `Closer` waits for.
`file` and `synced` are the operating system's, `acked`, `promised` and `forced`
are history.

### SegmentLog

`files` is the directory, `segs` the log's own list, by segment number. `Roll` is close, create,
header: three steps, because a crash or an error may fall between them.
`Prune` unlinks one file per step. A follower's steps are the lines of `Next`
between which another goroutine may run; the wake-up channel is the set of
followers whose copy of it has been closed since they took it.

### FuzzySnapshot

The dataset is one contents per shard (`live`), and what a command does is the
parameter `NewValue`: nothing is assumed about it but that a shard-local command
computes each shard's new contents from that shard alone. The shards of all
databases are numbered in the order in which they are locked and walked. A
client's steps are the guard, each ordering lock, the handler, the append of its
effect and the reply. `past[n]` is the dataset after `n` records, a history
variable.

The file is `log`, what the segment's offset counts, followed by `tail`, what a failed
batch left past it. `PropagateFails` is an append that returns an error, and has the
outcomes of `flushLocked`: the record is lost; it is in the file past the offset,
because the write was cut; or it is in the file and counted, because the offset is
advanced before the force that fails. The error sticks, and the appenders who wait
for the same batch (`mates`) share it. The handler's change stays in the keyspace
(`broken`) and the client gets its normal reply (`unlogged`, `AckMeansLogged`). A process
crash keeps the file, whatever the offset said; a machine crash keeps a prefix of it that
contains the forced part. `tainted` says that a snapshot was committed over a keyspace or
a log in that condition: `snapshotDue` looks at the failure, `SAVE` does not.

Abstractions: a command logs one effect (the code appends a command's several
effects one after the other under the same locks); expiry and eviction are
one-shard writes, which is what they do under the ordering lock; a command that
changes nothing logs nothing and is left out; how an entry is rendered as rebuild
commands in the snapshot file is the contents themselves; whether the process
that restarts is a replica is left to the replication module.

### LockOrder

An operation is a script, the sequence of lock operations its code performs, with
the shard changes and log appends between them. There is one operator per function
(`OrderWrites`, `LockKeys`, `EvictOne`, `ExpirePass`, `SnapshotShard`, ...), and
the scripts of commands are put together from them as the code calls them. An
action runs one step of one thread's script. `prop` and `mu` are the two mutexes
of each shard, `readers` and `writer` the two `RWMutex`es, in which a waiting
writer keeps new readers out as Go's does. A database is an index into the slices
of shards, which SWAPDB exchanges; a thread remembers the slice it saw, because the
code looks `db.shards` up before it waits for a lock and goes on with what it found.
`unlogged` is a history variable: who changed a shard and has not logged that yet.
`Disciplined` says of a workload what each script does by itself: change a shard only
with its ordering lock taken through the slice looked up last, and log before giving it
back. `InLockOrder` says how each script waits: ordering locks in ascending order and
before data locks, data locks in ascending order within a slice (COPY across databases,
which takes one of another slice, has the first ordering lock to itself), `snapshotGuard`
before everything, `barrier` never with a data lock held, and nothing waited for while
`barrier` is shut; and, where anybody shuts `barrier`, that those who do came through
`snapshotGuard` and those who take an ordering lock inside `barrier` have shut the guard.
Both speak of one script at a time. TLC evaluates them for the workloads of the passing
run when it starts (`SoundAssumption`), and the theorems about `LockOrder` have them as
their hypotheses: a function that takes its locks in another order, as `ExpirePass` would
with `barrier` first, fails the assumption before any state is explored.

`Workloads` says which scripts run beside one another. The passing run takes those
of `Sound`. Four pairings are left out of it because they break a property:

- eviction beside FLUSHALL: `evictOne` holds `barrier` and waits for an ordering
  lock, FLUSHALL holds them all and waits for `barrier` (`EvictAndFlush`);
- FLUSHALL or FLUSHDB inside EXEC beside a snapshot, in the same way
  (`FlushInExec`): without the guard nothing keeps the two apart;
- SWAPDB beside another command that takes every ordering lock (`SwapAndCopy`):
  `OrderAllWrites` reads each database's slice when its turn comes, and after an
  exchange meets a slice it has locked already;
- SWAPDB beside two writers of one shard (`SwapAndWrite`): a writer that looked its
  shard up before the exchange orders itself on one shard and changes another.

Giving `Workloads` one of these values in `MCLockOrder.cfg` shows the counterexample.
The fifth, eviction inside EXEC, is the run `lock_exec`.

### Sessions

A client's `pc` follows `Execute`, `blockUntil` and `cmdExec`: the attempt under the
locks, the registration, the second attempt, the wait with the locks given back, the
locks retaken, and for EXEC the locks, the check of `watchBroken`, the queue one
command at a time and the unwatching. A name is a key of a database and stands for
its ordering lock. The hook that breaks watches and wakes waiters runs with the data
lock held, so a change and its signal are one step. `got` and `changed` are history:
who popped which element, and which watched names changed since WATCH. FLUSHALL,
FLUSHDB and SWAPDB do not call the hook; with `SilentWrites` false they happen only
when nobody watches or waits for what they change.

### Replication and ReplicatedCopy

Offsets count records and a shard is the sequence of records applied to it, so a
record lost, doubled or reordered shows. A shard after a stretch of a log is `Select` of
that log, which both `Replication` and `ReplicatedCopy` use and which recovery's loop is. `phase` is where `replicaSession` is: PSYNC
answered by CONTINUE or by FULLRESYNC, the body loaded, the log reset, the snapshot
renamed, the leader recorded, the stream. `filter` is the per-shard anchor the stream
goes through until it has passed the snapshot's window. A promoted replica
writes records of its own and may follow again.

`Log.Reset` is the steps of the code: the segments go one by one, oldest first
(`UnlinkSegment`, `UnlinkLast`), a file is created and its header written; `rfile` says
what is there in between. A full resynchronisation runs it, and so does a start-up that
finds its files incomplete (phase `wiping`). `Restore` is the start-up code; it refuses a
segment without a header and a log that begins too late, and begins a log where there is
none. A crash may fall between any two steps, but where the code does not survive it:
from the first unlink to the rename of the snapshot, unless the log is gone just then,
which is the case `switch`. A machine that crashes is taken to keep the unlinks and
creations it has seen in their order.

`rfailed` is the sticky error of the replica's log. `ApplyFails` is `ApplyStreamed` with an
`AppendRaw` that fails: the record has been applied, is in the file or not, and the
offset stays; the next session asks for it again and applies it again, and so does every
one until the process ends, because the log takes nothing any more and `Log.Reset`, which
a full resynchronisation needs, begins with a `Close` that reports the same error.
`SwitchFails` is an error of the reset or the rename. After either, what the process holds in
memory is nothing the properties vouch for; its files are, and the next process must find
them right. An error in start-up's own reset ends the start-up and is left out.
`Copy` in `Replication` instantiates `ReplicatedCopy` with the replica's offset and
shards while it streams past the window, and with `Detached` otherwise; the run checks
that every step is a step of the abstract copy or a stutter. A replica whose log has
failed is detached.

`Hard` lists five cases the code does not survive; each breaks a property and is
left out of the passing run (see below).

### Connection

`loop` is where the connection's goroutine is in `serveConn` and its loop, `pusher`
where the delivery goroutine is. The loop takes `wmu` around a command only when
there is a delivery goroutine, which it starts itself after the command that first
needs one. `Deliver` is the non-blocking send: room, or the client is marked. The
read deadline has two writers, the client timeout and the shutdown, and is `none`,
`future` or `past`. `out` is what the socket was given, `accepted` is history.

A command may also block: a RESP3 subscriber or a MONITOR client may run BLPOP, and
`execute` holds `wmu` for all of it. `HandlerBlocks` is the wait in `blockUntil`; another
client's push or the command's timeout ends it (`HandlerServed`, which nothing obliges to
happen, as nothing does with timeout 0), or a shutdown (`HandlerReleased`). While it lasts
nothing is delivered, and `EventuallyPushed` is about connections that are not blocked for
ever.

### Dict

Bucket heads, the dense overflow arena and its compaction, the two tables of a rehash
and the cursor are those of the code, with sizes scaled down and named (`MinBuckets`,
`ShrinkAt`, `EmptyBudget`, `ScanBudget`, `Batch`). One operation is one step: the
shard's mutex is held. `due` is history: keys present since the iteration began and
not yet returned.

### SortedSet

A node is named by its member; a skiplist is each node's score, back pointer and
`(next, span)` per level. `Search` is the descent every operation shares.
`randomLevel` is left free, so the run covers every shape the generator could give.
`ref` is history, the score last given to each member. Scores pass through the
listpack as text that parses back to the same value and are kept as numbers. A write
that empties the set removes its key, so the next one starts from `newZSet`.

### Keyspace, StringOps, CollectionOps, Effects

The three operator modules translate engine operations and the handlers above them:
a call takes a keyspace with a mode and a clock and gives the new keyspace, the reply
and the effects to log. Values are small sequences, sets of members and maps from
members to scores. `Effects` runs every write command on `db`, applies what it logs to
`copy` in loading mode with the clock far ahead, as recovery does, keeps `seen` (what
a client knows that rereads a key only when it is signalled) and `ideal` (a keyspace
that removes each key at its instant), and lets the clock tick, the expiry cycle reap
and eviction strike between any two commands. The clock is the code's: an instant that a
ticker moves and each lookup reads anew (`Reading`). It may tick in the middle of a
command, and `Clocks` says where that tells: before the lookup of the second key, so that a
source and a destination are seen at different instants, and, with `SplitReadings`,
between two readings for the same key. `StringCommands` to `ZSetCommands` are the
commands a client can send, `Execute` the one step they all take, and the `...Handler`
operators the table that leads from a name to its handler. Integers are bounded by
`MaxInt`, where INCR overflows.

## What the runs check

| Run | Instance | Shows |
|---|---|---|
| `group_commit` | 2 appenders, 2 records, failing I/O, fairness | every safety property of a segment; appends and Close return |
| `segments` | 2 writers, 1 follower, 3 records, 3 files, failing writes and creations, fairness | contiguity, retention, follower position, no missed wake-up; a follower reaches every record |
| `snapshot` | 2 shards, 2 clients, 2 records, five kinds of effect, 1 crash | log order, exact anchors, clean window, exact recovery |
| `snapshot_crash` | 1 record, fsync always, a machine crash, failing I/O, fair mutexes | the directory loads, unless its snapshot was taken of a failed log; every effect an answered command has logged stays in place; commands and passes end |
| `lock_order` | 2 databases of 2 shards, 2 connections, the expiry or rehash cycle, the snapshotter; three workloads | no deadlock; a shard's changes reach the log in order |
| `sessions` | 2 clients, 2 keys in 2 databases, RPUSH, a BLPOP of two keys, a BLMOVE, 2 elements, 5 requests, fairness | compare-and-set, isolation of EXEC, no lost wake-up, one owner per element, no stale registration; the blocked are served and a shutdown ends every command |
| `replication` | 2 shards, 3 records, 2 snapshots, drops, I/O errors, crashes, restarts or REPLICAOFs, fairness; `Hard = {}` | until the log fails, and in the process after it: faithful stream, own log at the leader's offsets, true acknowledgements, the replica catches up; a restart is not refused after any crash but those of `switch`; `ReplicatedCopy` is implemented |
| `connection` | a channel and a pattern, an outbox of 2, 2 messages, 2 commands, fairness | replies and pushes never mix or overtake, nothing accepted is lost or silently dropped, no ghost in the registry; queued messages are written, unless the connection's own command blocks for ever, and a shutdown ends both goroutines |
| `dict` | 6 keys in 2 shards under two hash functions, tables of 2 to 8 buckets, SCAN with and without a MATCH | chains and arena intact, no key twice, rehash keeps up, lookups current, SCAN complete and always forward |
| `sorted_set` | 4 members, one too long for a listpack, 2 scores, 3 levels, a listpack of 2 | listpack, skiplist and map agree; spans, ranks and range ends are exact |
| `effects` | 2 keys, 2 elements, at most 4 elements and expiries in all, integers to 2, two instants of the clock and one after them; `SplitReadings = FALSE` | effects replay to the same dataset if the readings a command makes for one key agree, the TTL index is exact, no empty collection, every change signalled, expired is absent |
| `lock_exec` | a transaction that has to evict | a deadlock the code's comment warns of |

The instances are small because the hazards are: two appenders, the syncer and the
closer are enough for one to flush while another stages and a third drains (and the
safety properties are proved for any number); two rolls make a middle segment; two shards make a window
with a record inside it, before it and after it; two clients make an order that
could be swapped. Two clients make a waiter and a pusher, or a watcher and a writer, and two keys a
priority list and a move; three records put one before, one inside and one after a
snapshot's window, and two faults allow one during the recovery from another; an outbox
of two lets one message be in hand, one queued and one refused; tables of two to eight
buckets make a cursor meet a table that has grown twice and one that has shrunk; four
members make a node between two others at every level. Clients are interchangeable and `snapshot` uses that symmetry; the
runs with liveness properties use none. Two databases of two shards are what it takes
for locks to be taken in two orders and for SWAPDB to move one. In `lock_order` threads
never stop and TLC checks deadlock; in the other runs it does not,
since a run in which every bound is used up has stopped, and a process may simply
be idle; the liveness properties show that nobody is stuck in the middle of something.

Where several invariants describe one thing a run checks their conjunction, and the
module keeps them as named parts: `FlagsHonest` (the dirty flag, wake-ups), `LogIntact`
(type, contiguity, retention), `FollowerSafe` (position, wake-up), `BlockingSafe`,
`ReplicaSound`, `DeliverySafe`, `TablesSound`, `ScanSound`, `StructuresAgree`,
`SkiplistSound` and `KeyspaceSound`. The type invariants of `GroupCommit` and
`FuzzySnapshot` are theorems and no run repeats them.

Every property has a mutant, a conjunction one for most of its parts: a definition of
the model replaced by the form a plausible bug would give it, named after it with a
suffix (`dropOverflow_HeadOnly`) and defined just before it, under which TLC finds the
property violated.

### Fairness

Goroutines that can run do run. Go's `sync.Mutex` and `sync.RWMutex` hand the
lock to a waiter that has been passed over for long enough, so a lock that is
free again and again is eventually taken: strong fairness per client and for
the snapshotter in `FuzzySnapshot`, for taking `mu` in `GroupCommit`, for the
steps of a command in `Sessions` and for the two goroutines of `Connection`. In
`Replication` the replica's loop reconnects for ever and a server that died is started
again: weak fairness of the session. In `Connection` time passes and a drain goes on
once begun. Nothing obliges anyone to send or start a command, a snapshot, a roll or
a close, to push an element, or an I/O error, a drop or a timeout to happen.

## What disagrees with the code's own statements

One run, `lock_exec`, expects a violation: eviction is said to run "before Execute
takes any lock", or it "would deadlock against itself" (`dispatch.go:243`), but EXEC
resolves each queued command with every ordering lock held, and does.

The passing runs and the theorems leave out what breaks a property by a constant
that is named for it. Changing it as the table says makes TLC show the counterexample
(for a property in brackets, check it as an invariant of the instance).

| Statement | What happens | Shown by |
|---|---|---|
| a segment that will not delete is "not a correctness problem" (`segments.go:350`) | Prune keeps it and deletes a later one; the gap makes recovery refuse the directory | `SegmentLog`, `RemoveErrors` |
| a crash between rename and unlink leaves only segments recovery skips (`server/persistence.go:290`) | Roll creates a file and then writes its header; a crash in between leaves one that is refused | `SegmentLog` [`CrashLeavesLoadableLog`] |
| a failed Roll is compacted by the next attempt (`server/persistence.go:331`) | the old segment is closed already, so the log never accepts a record again | `SegmentLog` [`FailedRollIsRetryable`] |
| no cross-shard effect in a snapshot's window (`engine/keyspace.go:330`) | EXEC does not take the guard | `FuzzySnapshot`, `CrossInExec` |
| everysec: "a crash loses at most a second" (`README.md:37`) | the snapshot is forced before the log it is anchored in; the restart is refused | `FuzzySnapshot`, `MachineCrash` without `FsyncAlways` |
| "A write that cannot reach the log must not be acknowledged." (`dispatch.go:226`) | the write whose own append fails is answered normally; later ones are refused. `AckedSurvives` is about what was logged and does not exclude it | `FuzzySnapshot`, `IOErrors` [`AckMeansLogged`] |
| a snapshot and the log beside it always load (`server/persistence.go:290`) | `SAVE` goes on although the log has failed (only `snapshotDue` looks), and its anchors may count a record that was written and never forced; after a machine crash the restart is refused | `FuzzySnapshot`, the instance of `snapshot_crash` [`RestartSucceeds` without `=> tainted`] |
| a crash between resetting the log and renaming the snapshot "leaves the old snapshot with no log, which the startup check reads as unusable and resynchronises" (`replica.go:258`) | only where the log is gone: with some segments unlinked, with a segment that has no header yet or with one that begins at the new snapshot's first anchor, start-up refuses the directory | `Replication`, `Hard = {"switch"}` |
| a resumed link continues where it stopped (`replication.go:135`) | the history id is taken over before the body is complete, or before the switch to the new files has succeeded; the filter is lost when the link drops inside the window; a snapshot of the replica's own inside the window has the wrong anchors, and so has a `SAVE` on a failed log; a promoted replica that wrote and follows again is resumed | `Replication`, `Hard` = `body`, `window`, `ownSnapshot`, `promoted` |
| "Carrying on would widen the gap silently" (`replica.go:349`), so a record that does not apply ends the session | a record that was applied and could not be appended ends it too, with the offset unmoved: every reconnection applies the record once more, until the process ends | `Replication` [`StreamFaithful`] |
| WATCH notices every change of a key | FLUSHALL, FLUSHDB and SWAPDB never call the hook | `Sessions`, `SilentWrites` |
| a drain wakes every parked connection (`server.go`) | a loop that clears the deadline after CONFIG SET timeout 0 clears the drain's too | `Connection`, `TimeoutCleared` |
| the arguments of a verbatim command are "already deterministic and replay-safe" (`table.go:75`) | the clock may tick between two lookups: in SUNIONSTORE k k a, SORT k STORE k and ZRANGESTORE k k the source k is alive and the destination k has expired (`set.go:571`, `collection.go:174`, `zset.go:659`), so that DEL k is logged before a command that reads k, and the replay stores something else than the leader. GETEX compares its instant with the clock twice (`string.go:102`, and `string.go:395` of `command`): it may keep a key that is already due and log a DEL, which no reader can tell apart | `Effects`, `SplitReadings` [`ReplaySafe`] |
| the leader's DEL deletes an expired key on a replica (`keyspace.go:256`, `663`) | the lookup that serves the DEL hides the expired key, so it stays | `Effects`, `CopyMode = "replica"` [`ReplicaDeletes`] |
| the memory estimate follows what is stored (`engine/memory.go`) | `finishWrite` measures the old size after the value has changed in place, and setting a TTL is not charged | `Effects`, `Accounting` [`MemoryExact`] |

Met while modelling, without a definition of its own:

- a follower that checks `Closed` just before `Close` replaces the wake-up channel, and
  takes the channel just after, sleeps until its context is cancelled, though `Appended`
  (`segments.go:270`) promises a closed channel;
- a subscriber in RESP3 or a MONITOR client that waits in BLPOP keeps the lock its delivery
  goroutine needs (`server/conn.go:340`), so its messages wait, and are dropped once the
  outbox is full, until the command ends;
- a client killed while blocked in BLPOP is served by the next push all the same: its
  goroutine notices the closed socket only when it writes (`server/conn.go:417`);
- the reply to a framing error is written without `wmu` (`handleReadError`), and
  `Overflowed` is looked at only after a command (`conn.go:255`);
- `monitor.go:45` says RESET stops MONITOR; `cmdReset` does not call `Remove`;
- several accepts may pass the `maxclients` check before one registers (`conn.go:142`);
- HINCRBYFLOAT of a missing key by an infinity fails after it has created the hash, which stays
  empty (`hash.go:439`); `NoEmptyCollection` is checked and proved with finite increments,
  which is what `Deltas \subseteq 0..MaxInt` in `EffectsAssumption` says;
- `evictOne` looks at the object's identity and not at its TTL again, so a key made
  permanent after it was sampled is evicted under a volatile policy;
- ACL SETUSER and DELUSER do not reach connections authenticated before
  (`command/connection.go:151`).

## What is proved

Every theorem is about any number of clients, threads, shards, records and faults: the
bounds of the runs are constants of which the proofs know at most that they are
natural numbers. Where a theorem leaves a case out it does so by the constant the table
above names for it, and that case does break the property in the code; nothing else is
assumed of a constant but what its module's ASSUME says and TLC evaluates.

| Module | Theorem | Shows | Assumes |
|---|---|---|---|
| `GroupCommitProofs` | `TypeCorrect`, `OffsetExact`, `AckedIsWritten`, `AckedIsForced`, `CloseIsDurable`, `FlagsAreHonest` | every safety property of the run `group_commit` | |
| `SegmentLogProofs` | `TypeCorrect`, `NeededIsKept`, `SleepersWake` | types, retention, no missed wake-up | |
| | `LogStaysIntact`, `FollowersAreSafe` | every safety property of `segments` | unlinking does not fail |
| `FuzzySnapshotProofs` | `TypeCorrect` | types and who holds which lock | |
| | `WritesAreOrdered` | log order is execution order, until an append fails and again after the restart | no cross-shard command in a transaction |
| | `AnchorsAreExact`, `WindowIsClean`, `RecoveryIsExact` | the snapshot and its recovery are exact, if no append had failed when it was taken | the same |
| | `RestartAlwaysSucceeds`, `AckedIsDurable` | a restart loads unless its snapshot is tainted; every effect an answered command has logged stays in place | besides, a machine crash only under fsync always |
| `LockOrderProofs` | `LogOrderIsExecutionOrder` | the same log order, with every user of the locks | `Disciplined` workloads |
| | `LockOrderPreventsDeadlock` | never does everybody wait | `InLockOrder` workloads |
| `SessionsProofs` | `TypeCorrect`, `NoStaleRegistrations`, `ElementsAreOnce`, `ExecIsIsolated` | registrations end, one owner per element, EXEC is isolated | |
| | `WatchIsSound`, `BlockingIsSafe` | compare-and-set, no lost wake-up | no FLUSHALL, FLUSHDB or SWAPDB of a key somebody watches or waits for |
| `ConnectionProofs` | `TypeCorrect`, `DeliveryIsSafe`, `DroppedMessagesMark` | every safety property of `connection` | |
| `ReplicationProofs` | `TypeCorrect`, `StreamingIsSound`, `AlwaysStarts`, `ImplementsAttachedCopy` | every safety property of `replication`, and the refinement | `Hard = {}` |
| `EffectsProofs` | `LeaderSound`, `SignalsHold` | every change is signalled; the keyspace stays well formed, whatever the copy does | `~SplitReadings` |
| | `CopySound`, `ReplayHolds`, `KeyspaceHolds` | with these, every safety property of `effects` | besides, the copy loads the log |

### The arguments

None of the properties is inductive as it stands. What each proof adds:

*GroupCommit.* Who may hold the mutex at which step; that at most one flush is in
progress and its batch sits between the file and the staging buffer, so that file, batch
and buffer together are the consecutive offsets from the base to `assigned` as long as no
error has stuck; that what a waiter waits for is in one of the three; and that whoever
sleeps sleeps on a flush in progress.

*SegmentLog.* `ListInv` (the list says what the files say), `MeetInv` (segment after
segment, unlinked ones included, the files hold the stream up to the offset), `NextInv`
(beyond the current segment there is at most the empty file of a Roll, and while it is
there nothing is appended) and `KeptInv` (only what ends below the anchor is unlinked)
hold whatever fails. `PrefixInv`, that Prune has removed the oldest segments first, is
what a failing unlink breaks; with it the remaining segments are consecutive, and the
file a follower was given still holds its stretch of the stream (`PlaceInv`).

*FuzzySnapshot.*

- `LockInv`: a client that runs or logs holds the locks it needs; a free one none;
- `GuardInv`: the guard separates cross-shard commands from the snapshot's window;
- `TailInv`: something lies past the offset only once the log has failed, and a
  server starts with a log that has not;
- `PastInv`: the history is what applying the file record by record gives, its tail
  included, so that a restart that finds the tail finds a dataset of the history;
- `LiveInv`: until an append fails a shard is what the log says, or what its one
  writer in flight makes of that;
- `WalkInv`: shards already walked are exact at their anchors, the one being
  walked does not change, anchors ascend;
- `DiskInv`, `WindowInv`: the same of the committed snapshot, and of the records
  in its window;
- `ReplayInv`: during replay a shard holds the dataset at the larger of its anchor
  and the replay position.

That a restart loads and keeps what was answered is a second invariant, `RestartInv`:
`Kept` is what a crash cannot take, the file or the forced part of it; an untainted
snapshot's anchors and every effect that was logged lie within it, and the log reaches
back to the first anchor.

`ReplayInv` is where the argument is: a shard-local record in the window may be
split because each shard's new contents depend on that shard alone, and a
cross-shard record is outside it, where every shard is at the same instant.

*LockOrder.* `TraceInv`: a thread is at some step of a script of its workload, and its
slice, the ordering locks it has and the changes it has still to log are those its script
has left behind by then. By `Disciplined` a change still to log is then under the lock
its script took for it, which nobody else can have. A workload with SWAPDB is covered
only where nobody changes a shard: beside writers the code does break the property.

For deadlock, `HeldInv` makes that exact: a thread holds just the locks its script has
taken and not given back, and none between scripts. Suppose everybody busy waits. Nobody
waits for a data lock: within a slice the one who waits for the highest would wait for
somebody who waits for a higher, and the one thread that may cross slices is known by the
first ordering lock. Then nobody waits for `barrier`: its writer waits for nothing, and a
reader can only wait for an ordering lock, with the guard shut, while whoever wants to
shut `barrier` is inside the guard. Then nobody waits for an ordering lock, by the greatest
again, first of the slices and then of the shards, and all wait for `snapshotGuard`, which
nobody has. The argument takes no finite number of threads.

*Sessions.* `LockInv` and `WaitInv` tie a client's locks and registrations to where it is
in `Execute`, `blockUntil` and `cmdExec`. With them every step is of one of three kinds:
it changes no list, or it changes lists and has called the hook for each, or it is one of
the silent writes. `MarkInv` (a changed watched key has broken the watch) and the sleepers'
invariant follow from the kinds; `OnceInv` says where each element is, and its step is one
lemma about lists that are cut and exchanged.

*Connection.* `MutexInv` says who writes, `ShapeInv` what is queued, `NameInv` that a name
subscribed to, queued for or in hand has its confirmation on the wire or about to be
written by the loop that holds the lock, `EndInv` how a connection is forgotten.

*Replication.* `LogInv` and `DataInv`: as long as the history id the replica would quote
is the leader's (`Known`), its log is the leader's from its base on, and every shard is
the leader's log up to the larger of the offset and the shard's filter (`Upto`).
`BodyInv` and `SwitchInv` follow a received snapshot through the switch of files;
`DiskInv` says the same of the files as `LogInv` and `DataInv` of the process, and says it
through a failed append too, so that a restart finds what a crash left whatever became of
the memory before it. `FileInv` says when the log's files are not whole, inside a reset or
with a failed log, and that they are when a crash has been survived; `StartInv` that a
whole log on disk never begins after the point a restart begins from. `WindowInv`, that no link breaks off inside a snapshot's
window, is what three of the `Hard` cases break. The refinement maps the replica to the
abstract copy by `At` and `Data` and shows each action to be an attachment, the next
record, a detachment or a stutter.

*Effects.* The proof is in two halves. The first knows nothing of the run: every command
a client can send is `Safe` (`CommandsSafe`). From any well-formed table, it changes only
keys it signals and leaves every key well formed, and what it has logged, loaded into the
same table after the deletions of the keys it reaped, makes the same objects of it;
and from two tables that differ in expired keys only it makes two that do. A command on one
key is safe because the object found there decides what it does (`OneKeySafe`), one on two
keys because the two objects do (`TwoKeysSafe`); SPOP, the pops and the GET, KEEPTTL and
INCR options are where the effect logged is not the command sent. Each handler then
needs what its operation does to each object it can find (the lemmas ending in `Does`) and
what its effect does when loaded (those ending in `Redone`).

The second half is the run. `LeaderInv` says that the tables of `db` and `ideal` are well
formed (`GoodTable`: types, no empty collection, an exact TTL index), that `seen` is
`db.obj` and that what `db` shows is `ideal`; it needs nothing of the copy. `CopyInv` adds
that the copy has the leader's objects. `Replayed` is followed along the log by a least
position where the tables differ: first the deletions of the reaped keys, then the effect.
`ReplayHolds` and `KeyspaceHolds` assume `CopyMode = "loading"`: a replica in service only
hides an expired key, and its table differs from the leader's, as `ReplicaDeletes` shows.
All five assume `~SplitReadings`, so that the readings of a key within one command agree
(`Stills`); readings for different keys may differ, and `AlikeLater` and `AlikeEarlier` carry
what the keyspace shows from the instant before the command to the last one it read.
`ReplayHolds` fails without it, as the table above says; the other four are not proved
without it.

Facts about every length (`Select`, a replayed log) are proved from a least
counterexample, a set of numbers, where the library's induction theorem would need an
operator; `LeastNat` is the principle. `Select`, `Replayed` and the operators of
`CollectionOps` are recursive or closed-form functions rather than `SelectSeq`, `FoldLeft`
or `SetToSortSeq` because the prover can unfold those.

### Model-checked only

Liveness, which is beyond the prover. `NoDeadlock` with SWAPDB, where the slice a thread
holds locks of is no longer the one its script names; that a workload is `Disciplined` and
`InLockOrder`, which is evaluated, not proved, because scripts are built by folds. All of
`Dict` and `SortedSet`, whose operations follow chains and levels by recursion over the
structure, so that every fact about them is an induction over data. The violation run.

## What is not modelled, and the plan

Left out for good: byte-level encoding of RESP and of records, INFO and metrics
formatting, static tables and counters, parsing of ACL rules, configuration and
arguments, the command-line client. Left out of the modules that exist: `TruncateTo`
and statistics of the log, adoption of a pre-segment log file, damage in the middle of
the log (recovery reports it and stops), reads, the encodings of lists, sets and
hashes, the scores by which a policy picks its victim, more than one replica or
subscriber at a time, and start-up order.

What could follow:

1. Proofs: deadlock freedom of `LockOrder` beside SWAPDB; `AlwaysStarts` with the `Hard`
   cases other than `switch`.
2. `Replication` with two replicas and WAIT's count.
3. The quicklist's node splits and merges, as `SortedSet` does for the skiplist.
