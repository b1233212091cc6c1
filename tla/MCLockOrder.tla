---------------------------- MODULE MCLockOrder ----------------------------
(***************************************************************************)
(* Instances of LockOrder for TLC: what the two connections, the expiry    *)
(* cycle and the snapshotter run beside one another.                       *)
(***************************************************************************)
EXTENDS LockOrder

CONSTANTS Conn1, Conn2, Cycle, Snapshotter

Workload(one, two, cycle, snap) ==
  [t \in Threads |-> CASE t = Conn1 -> one
                       [] t = Conn2 -> two
                       [] t = Cycle -> cycle
                       [] t = Snapshotter -> snap]

\* Writes of one key and of several, cross-shard commands, FLUSHALL and
\* transactions, with no memory limit.
Ordinary ==
  Workload({Write(0, Idx), CrossShard(Flush(Dbs)), Exec(<<WriteKeys(0, {0}), ReadKeys(1, {0})>>)},
           {Write(0, {NShards - 1}), CrossShard(CopyAcross(1, 0, 0, 0))},
           {ExpirePass}, {SnapshotWindow})

\* Eviction, beside shard-local writes.
MaxMemory ==
  Workload({Resolve(0, 0) \o Write(0, Idx)}, {Write(0, {0}), WalkShards(0)},
           {ExpirePass}, {SnapshotWindow})

\* SWAPDB, beside reads and rehashing.
Swapped ==
  Workload({CrossShard(SwapDB(0, 1))}, {ReadKeys(0, Idx)}, {RehashPass}, {SnapshotWindow})

Sound == {Ordinary, MaxMemory, Swapped}

\* The scripts of these workloads do as their code means to.
ASSUME SoundAssumption ==
  /\ \A w \in Sound : Disciplined(w)
  /\ InLockOrder(Ordinary) /\ InLockOrder(MaxMemory)

\* A transaction that has to make room for one of its writes.
EvictInExec ==
  {Workload({Exec(<<Resolve(0, 0) \o WriteKeys(0, {0})>>)},
            {Write(0, {0}), Write(1, Idx)}, {ExpirePass}, {})}

\* Four more pairings that Sound leaves out, each of which breaks a property:
\* eviction beside FLUSHALL and FLUSHALL in a transaction beside a snapshot
\* (NoDeadlock), SWAPDB beside a command that takes every ordering lock
\* (NoDeadlock) or beside two writers of one shard (WritesStayOrdered).
EvictAndFlush ==
  {Workload({Resolve(0, 0) \o Write(0, {0})}, {CrossShard(Flush(Dbs))}, {}, {})}
FlushInExec ==
  {Workload({Exec(<<Flush({0})>>)}, {}, {}, {SnapshotWindow})}
SwapAndCopy ==
  {Workload({CrossShard(SwapDB(0, 1))}, {CrossShard(CopyAcross(0, 0, 1, 0))}, {}, {})}
SwapAndWrite ==
  {Workload({CrossShard(SwapDB(0, 1)), Write(0, {0})}, {Write(0, {0})}, {Write(0, {0})}, {})}
=============================================================================
