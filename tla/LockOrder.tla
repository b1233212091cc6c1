----------------------------- MODULE LockOrder -----------------------------
(***************************************************************************)
(* The keyspace's four layers of locks (engine/keyspace.go, order.go,      *)
(* snapshot.go, evict.go, expire.go) as commands, transactions, eviction,  *)
(* the expiry cycle and the snapshotter take them.                         *)
(*                                                                         *)
(* An operation is a script: the sequence of lock operations its code      *)
(* performs, with the shard changes and the log appends between them.      *)
(* The scripts are built from one operator per function of the code; the   *)
(* actions below run one step of one thread's script.                      *)
(*                                                                         *)
(* A database is a slice of shards, and SWAPDB exchanges two slices.  Code *)
(* that reads db.shards holds on to the shards it saw, so a step See(d)    *)
(* remembers the slice, and the locks that follow are of its shards.       *)
(***************************************************************************)
EXTENDS Integers, Sequences, FiniteSets, SequencesExt

CONSTANTS
  Threads,       \* connections, the expiry cycle, the snapshotter
  Nobody,        \* holder of a lock that is free
  NDbs,          \* databases
  NShards,       \* shards in each
  Workloads      \* each gives every thread the scripts it runs, in any order

ASSUME LockOrderAssumption ==
  /\ NDbs \in Nat \ {0} /\ NShards \in Nat \ {0}
  /\ Nobody \notin Threads

Dbs == 0 .. NDbs - 1
Idx == 0 .. NShards - 1
Shards == Dbs \X Idx
RWLocks == {"snapshotGuard", "barrier"}

VARIABLES
  workload,   \* the one being run
  script,     \* what each thread has still to do
  slice,      \* the slice of shards each thread saw last
  shards,     \* DB.shards: the slice of each database
  prop, mu,   \* holders of the shards' two mutexes
  readers, writer,  \* holders of the two RWMutexes
  unlogged    \* per shard: threads that changed it and have not logged that

vars == <<workload, script, slice, shards, prop, mu, readers, writer, unlogged>>

TypeOK ==
  /\ workload \in Workloads
  /\ DOMAIN script = Threads
  /\ slice \in [Threads -> Dbs]
  /\ shards \in [Dbs -> Dbs]
  /\ prop \in [Shards -> Threads \cup {Nobody}]
  /\ mu \in [Shards -> Threads \cup {Nobody}]
  /\ readers \in [RWLocks -> SUBSET Threads]
  /\ writer \in [RWLocks -> Threads \cup {Nobody}]
  /\ unlogged \in [Shards -> SUBSET Threads]

Init ==
  /\ workload \in Workloads
  /\ script = [t \in Threads |-> << >>]
  /\ slice = [t \in Threads |-> 0]
  /\ shards = [d \in Dbs |-> d]
  /\ prop = [s \in Shards |-> Nobody]
  /\ mu = [s \in Shards |-> Nobody]
  /\ readers = [l \in RWLocks |-> {}]
  /\ writer = [l \in RWLocks |-> Nobody]
  /\ unlogged = [s \in Shards |-> {}]

-----------------------------------------------------------------------------
(***************************************************************************)
(* Steps.                                                                  *)
(***************************************************************************)
See(d) == [op |-> "see", db |-> d]
LockProp(i) == [op |-> "prop", i |-> i]
LockMu(i) == [op |-> "mu", i |-> i]
RLock(l) == [op |-> "rlock", lock |-> l]
Lock(l) == [op |-> "lock", lock |-> l]
Unlock(l) == [op |-> "unlock", lock |-> l]
UnlockProp == [op |-> "unprop"]
UnlockMu == [op |-> "unmu"]
Change(is) == [op |-> "change", is |-> is]
Swap(i, j) == [op |-> "swap", i |-> i, j |-> j]
LogEffects == [op |-> "log"]

\* One script after another, for the elements of a set of numbers in order.
Each(S, body(_)) ==
  LET order == SetToSortSeq(S, <) IN FlattenSeq([n \in DOMAIN order |-> body(order[n])])

-----------------------------------------------------------------------------
(***************************************************************************)
(* The engine.                                                             *)
(***************************************************************************)
\* DB.OrderWrites: ascending, each shard looked up and then locked, without
\* the barrier.
OrderWrites(d, K) == Each(K, LAMBDA i : <<See(d), LockProp(i)>>)

\* Keyspace.OrderAllWrites: a database's slice is read when its turn comes.
OrderAllWrites ==
  Each(Dbs, LAMBDA d : <<See(d)>> \o Each(Idx, LAMBDA i : <<LockProp(i)>>))

\* DB.lockKey, DB.lockKeys and DB.lockAll.
LockKeys(d, K) ==
  <<RLock("barrier"), See(d)>> \o Each(K, LAMBDA i : <<LockMu(i)>>)

UnlockShards == <<UnlockMu, Unlock("barrier")>>

\* A handler that reads, or changes, keys of one database.
ReadKeys(d, K) == LockKeys(d, K) \o UnlockShards
WriteKeys(d, K) == LockKeys(d, K) \o <<Change(K)>> \o UnlockShards

\* DB.Copy into another database: both shards under one hold of the barrier.
CopyAcross(d, i, e, j) ==
  <<RLock("barrier"), See(d), LockMu(i), See(e), LockMu(j), Change({j})>>
    \o UnlockShards

\* DB.Keys, Scan, RandomKey and MemoryEstimate: one shard at a time.
WalkShards(d) ==
  <<RLock("barrier"), See(d)>> \o Each(Idx, LAMBDA i : <<LockMu(i), UnlockMu>>)
    \o <<Unlock("barrier")>>

\* DB.Flush of one database, Keyspace.FlushAll of all.
Flush(D) ==
  <<Lock("barrier")>> \o Each(D, LAMBDA d : <<See(d), Change(Idx)>>)
    \o <<Unlock("barrier")>>

\* Keyspace.SwapDB.
SwapDB(i, j) == <<Lock("barrier"), Swap(i, j), Unlock("barrier")>>

\* Keyspace.evictOne with a victim in shard i of database d.  The walk over
\* the shards, which stops at enough samples, is the visit to that one; the
\* DEL is logged before the data lock is released.
EvictOne(d, i) ==
  <<RLock("barrier"), See(d), LockMu(i), UnlockMu, LockProp(i), LockMu(i),
    Change({i}), LogEffects, UnlockMu, UnlockProp, Unlock("barrier")>>

\* The part of ExpirePass for one shard, with expireSample: reaped keys are
\* logged from inside the sample.
ExpireShard(i) ==
  <<LockProp(i), RLock("barrier"), LockMu(i), Change({i}), LogEffects, UnlockMu,
    Unlock("barrier"), UnlockProp>>

\* Keyspace.ExpirePass: a database's slice is read when its turn comes.
ExpirePass == Each(Dbs, LAMBDA d : <<See(d)>> \o Each(Idx, ExpireShard))

\* Keyspace.RehashPass: no effect, so no ordering lock.
RehashPass ==
  Each(Dbs, LAMBDA d : <<See(d)>> \o
    Each(Idx, LAMBDA i : <<RLock("barrier"), LockMu(i), UnlockMu, Unlock("barrier")>>))

\* DB.SnapshotShard: the data lock is taken before the ordering lock goes.
SnapshotShard(d, i) ==
  <<See(d), RLock("barrier"), LockProp(i), LockMu(i), UnlockProp, UnlockMu,
    Unlock("barrier")>>

\* Keyspace.SnapshotWindow around command.WriteSnapshot.
SnapshotWindow ==
  <<Lock("snapshotGuard")>>
    \o Each(Dbs, LAMBDA d : Each(Idx, LAMBDA i : SnapshotShard(d, i)))
    \o <<Unlock("snapshotGuard")>>

-----------------------------------------------------------------------------
(***************************************************************************)
(* The command layer.                                                      *)
(***************************************************************************)
\* Execute for a shard-local write of keys in the shards K of database d.
Write(d, K) ==
  OrderWrites(d, K) \o WriteKeys(d, K) \o <<LogEffects, UnlockProp>>

\* Execute for a cross-shard command.
CrossShard(handler) ==
  <<RLock("snapshotGuard")>> \o OrderAllWrites \o handler
    \o <<LogEffects, UnlockProp, Unlock("snapshotGuard")>>

\* cmdExec, with what resolve and the handler of each queued command do.
Exec(bodies) ==
  OrderAllWrites \o FlattenSeq([n \in DOMAIN bodies |-> bodies[n] \o <<LogEffects>>])
    \o <<UnlockProp>>

\* resolve makes room before a write that may need memory: a measurement of
\* every database, and a victim.
Resolve(d, i) == Each(Dbs, WalkShards) \o EvictOne(d, i)

-----------------------------------------------------------------------------
(***************************************************************************)
(* What the code keeps to, script by script: whoever changes a shard has   *)
(* taken its ordering lock before and gives it back after logging.         *)
(***************************************************************************)
LockSteps ==
  [op : {"see"}, db : Dbs] \cup [op : {"prop", "mu"}, i : Idx]
    \cup [op : {"rlock", "lock", "unlock"}, lock : RWLocks]
    \cup [op : {"change"}, is : SUBSET Idx] \cup [op : {"swap"}, i : Dbs, j : Dbs]
    \cup [op : {"unprop", "unmu", "log"}]

\* The slice that script p looked up last before its n-th step is d's.
Sees(p, n, d) ==
  \E m \in 1 .. n - 1 :
    p[m].op = "see" /\ p[m].db = d /\ \A l \in m + 1 .. n - 1 : p[l].op # "see"

\* p has taken the ordering lock of shard i of d's slice and has it at step n.
Holds(p, n, d, i) ==
  \E m \in 1 .. n - 1 :
    /\ p[m].op = "prop" /\ p[m].i = i /\ Sees(p, m, d)
    /\ \A l \in m .. n - 1 : p[l].op # "unprop"

Ordered(p) ==
  \A n \in DOMAIN p : p[n].op = "change" =>
    /\ \E d \in Dbs : Sees(p, n, d) /\ \A i \in p[n].is : Holds(p, n, d, i)
    /\ \E l \in n + 1 .. Len(p) :
         p[l].op = "log" /\ \A k \in n .. l : p[k].op # "unprop"

Does(p, op) == \E n \in DOMAIN p : p[n].op = op

\* A workload whose scripts are Ordered, with SWAPDB, which moves the shards
\* under the names, only where nobody changes them.
Disciplined(w) ==
  /\ \A t \in Threads : w[t] \subseteq Seq(LockSteps) /\ \A p \in w[t] : Ordered(p)
  /\ \/ \A t \in Threads : \A p \in w[t] : ~Does(p, "swap")
     \/ \A t \in Threads : \A p \in w[t] : ~Does(p, "change")

\* A data lock, and an RWMutex taken for reading or for writing, likewise.
HoldsMu(p, n, d, i) ==
  \E m \in 1 .. n - 1 :
    /\ p[m].op = "mu" /\ p[m].i = i /\ Sees(p, m, d)
    /\ \A l \in m .. n - 1 : p[l].op # "unmu"

HoldsRW(p, n, op, lock) ==
  \E m \in 1 .. n - 1 :
    /\ p[m].op = op /\ p[m].lock = lock
    /\ \A l \in m .. n - 1 : ~(p[l].op = "unlock" /\ p[l].lock = lock)

NoProp(p, n) == \A d \in Dbs, i \in Idx : ~Holds(p, n, d, i)
NoMu(p, n) == \A d \in Dbs, i \in Idx : ~HoldsMu(p, n, d, i)
NoRW(p, n, lock) == ~HoldsRW(p, n, "rlock", lock) /\ ~HoldsRW(p, n, "lock", lock)

\* A script takes ordering locks in ascending order and before data locks, and
\* data locks in ascending order within a slice; one of another slice it takes
\* only as COPY does, with the first ordering lock to itself.  It never takes
\* an RWMutex twice, snapshotGuard only first, barrier never with a data lock
\* held, and waits for nothing while it keeps everybody out of barrier.
WaitsInOrder(p) ==
  /\ \A n \in DOMAIN p :
       /\ p[n].op = "prop" =>
            /\ \E d \in Dbs :
                 /\ Sees(p, n, d)
                 /\ \A e \in Dbs, j \in Idx : Holds(p, n, e, j) => e < d \/ (e = d /\ j < p[n].i)
            /\ NoMu(p, n) /\ ~HoldsRW(p, n, "lock", "barrier")
       /\ p[n].op = "mu" =>
            /\ \E d \in Dbs :
                 /\ Sees(p, n, d)
                 /\ \A e \in Dbs, j \in Idx : HoldsMu(p, n, e, j) =>
                      IF e = d THEN j < p[n].i ELSE Holds(p, n, 0, 0)
            /\ ~HoldsRW(p, n, "lock", "barrier")
       /\ p[n].op \in {"rlock", "lock"} =>
            /\ NoMu(p, n) /\ NoRW(p, n, p[n].lock)
            /\ p[n].lock = "snapshotGuard" => NoProp(p, n) /\ NoRW(p, n, "barrier")
  /\ NoProp(p, Len(p) + 1) /\ NoMu(p, Len(p) + 1)
  /\ \A l \in RWLocks : NoRW(p, Len(p) + 1, l)

\* Whoever keeps everybody out of barrier comes through snapshotGuard, and
\* whoever takes an ordering lock inside barrier has shut that.
BarrierGuarded(p) ==
  \A n \in DOMAIN p :
    /\ p[n].op = "lock" /\ p[n].lock = "barrier" => HoldsRW(p, n, "rlock", "snapshotGuard")
    /\ p[n].op = "prop" /\ HoldsRW(p, n, "rlock", "barrier") => HoldsRW(p, n, "lock", "snapshotGuard")

\* A workload of such scripts, which take barrier exclusively only if all of
\* them are BarrierGuarded.
InLockOrder(w) ==
  /\ \A t \in Threads : w[t] \subseteq Seq(LockSteps)
  /\ \A t \in Threads : \A p \in w[t] : WaitsInOrder(p) /\ ~Does(p, "swap")
  /\ \/ \A t \in Threads : \A p \in w[t] : BarrierGuarded(p)
     \/ \A t \in Threads : \A p \in w[t] : \A n \in DOMAIN p :
          ~(p[n].op = "lock" /\ p[n].lock = "barrier")

-----------------------------------------------------------------------------
(***************************************************************************)
(* Running a script.                                                       *)
(***************************************************************************)
Busy(t) == script[t] # << >>
Step(t) == Head(script[t])
At(t, op) == Busy(t) /\ Step(t).op = op
Shard(t) == <<slice[t], Step(t).i>>
Done(t) == script' = [script EXCEPT ![t] = Tail(@)] /\ UNCHANGED workload

\* sync.RWMutex: a writer that waits keeps new readers out.  A thread is taken
\* to wait from the moment Lock is its next step.
Wanted(l) == \E u \in Threads : At(u, "lock") /\ Step(u).lock = l

CanRLock(l) == writer[l] = Nobody /\ ~Wanted(l)
CanLock(l) == writer[l] = Nobody /\ readers[l] = {}

Begin(t) ==
  /\ ~Busy(t)
  /\ \E p \in workload[t] : script' = [script EXCEPT ![t] = p]
  /\ UNCHANGED <<workload, slice, shards, prop, mu, readers, writer, unlogged>>

\* A bug: databases are counted from one.
SeeSlice_FromOne(t) ==
  /\ At(t, "see")
  /\ slice' = [slice EXCEPT ![t] = shards[Step(t).db] + 1]
  /\ Done(t)
  /\ UNCHANGED <<shards, prop, mu, readers, writer, unlogged>>

SeeSlice(t) ==
  /\ At(t, "see")
  /\ slice' = [slice EXCEPT ![t] = shards[Step(t).db]]
  /\ Done(t)
  /\ UNCHANGED <<shards, prop, mu, readers, writer, unlogged>>

TakeProp(t) ==
  /\ At(t, "prop")
  /\ prop[Shard(t)] = Nobody
  /\ prop' = [prop EXCEPT ![Shard(t)] = t]
  /\ Done(t)
  /\ UNCHANGED <<slice, shards, mu, readers, writer, unlogged>>

TakeMu(t) ==
  /\ At(t, "mu")
  /\ mu[Shard(t)] = Nobody
  /\ mu' = [mu EXCEPT ![Shard(t)] = t]
  /\ Done(t)
  /\ UNCHANGED <<slice, shards, prop, readers, writer, unlogged>>

TakeRead(t) ==
  /\ At(t, "rlock")
  /\ CanRLock(Step(t).lock)
  /\ readers' = [readers EXCEPT ![Step(t).lock] = @ \cup {t}]
  /\ Done(t)
  /\ UNCHANGED <<slice, shards, prop, mu, writer, unlogged>>

TakeWrite(t) ==
  /\ At(t, "lock")
  /\ CanLock(Step(t).lock)
  /\ writer' = [writer EXCEPT ![Step(t).lock] = t]
  /\ Done(t)
  /\ UNCHANGED <<slice, shards, prop, mu, readers, unlogged>>

Freed(lock, t) == [s \in Shards |-> IF lock[s] = t THEN Nobody ELSE lock[s]]

\* A bug: every ordering lock is given back, other writers' too.
ReleaseProp_Everybody(t) ==
  /\ At(t, "unprop")
  /\ prop' = [s \in Shards |-> Nobody]
  /\ Done(t)
  /\ UNCHANGED <<slice, shards, mu, readers, writer, unlogged>>

\* A bug: the loop over the shards stops one short of the first.
ReleaseProp_AllButFirst(t) ==
  LET Before(r, s) == r[1] < s[1] \/ (r[1] = s[1] /\ r[2] < s[2])
  IN /\ At(t, "unprop")
     /\ prop' = [s \in Shards |->
                   IF prop[s] = t /\ \E r \in Shards : prop[r] = t /\ Before(r, s)
                     THEN Nobody ELSE prop[s]]
     /\ Done(t)
     /\ UNCHANGED <<slice, shards, mu, readers, writer, unlogged>>

ReleaseProp(t) ==
  /\ At(t, "unprop")
  /\ prop' = Freed(prop, t)
  /\ Done(t)
  /\ UNCHANGED <<slice, shards, mu, readers, writer, unlogged>>

ReleaseMu(t) ==
  /\ At(t, "unmu")
  /\ mu' = Freed(mu, t)
  /\ Done(t)
  /\ UNCHANGED <<slice, shards, prop, readers, writer, unlogged>>

ReleaseRW(t) ==
  /\ At(t, "unlock")
  /\ LET l == Step(t).lock
     IN /\ readers' = [readers EXCEPT ![l] = @ \ {t}]
        /\ writer' = [writer EXCEPT ![l] = IF @ = t THEN Nobody ELSE @]
  /\ Done(t)
  /\ UNCHANGED <<slice, shards, prop, mu, unlogged>>

ChangeShards(t) ==
  /\ At(t, "change")
  /\ unlogged' = [s \in Shards |->
                    IF s \in {slice[t]} \X Step(t).is THEN unlogged[s] \cup {t}
                                                      ELSE unlogged[s]]
  /\ Done(t)
  /\ UNCHANGED <<slice, shards, prop, mu, readers, writer>>

SwapSlices(t) ==
  /\ At(t, "swap")
  /\ shards' = [shards EXCEPT ![Step(t).i] = shards[Step(t).j],
                              ![Step(t).j] = shards[Step(t).i]]
  /\ Done(t)
  /\ UNCHANGED <<slice, prop, mu, readers, writer, unlogged>>

AppendEffects(t) ==
  /\ At(t, "log")
  /\ unlogged' = [s \in Shards |-> unlogged[s] \ {t}]
  /\ Done(t)
  /\ UNCHANGED <<slice, shards, prop, mu, readers, writer>>

Run(t) ==
  \/ SeeSlice(t) \/ TakeProp(t) \/ TakeMu(t) \/ TakeRead(t) \/ TakeWrite(t)
  \/ ReleaseProp(t) \/ ReleaseMu(t) \/ ReleaseRW(t) \/ ChangeShards(t)
  \/ SwapSlices(t) \/ AppendEffects(t)

Next == \E t \in Threads : Begin(t) \/ Run(t)

Spec == Init /\ [][Next]_vars

-----------------------------------------------------------------------------
(***************************************************************************)
(* What makes it correct.                                                  *)
(***************************************************************************)
Blocked(t) ==
  \/ At(t, "prop") /\ prop[Shard(t)] # Nobody
  \/ At(t, "mu") /\ mu[Shard(t)] # Nobody
  \/ At(t, "rlock") /\ ~CanRLock(Step(t).lock)
  \/ At(t, "lock") /\ ~CanLock(Step(t).lock)

\* Two changes of a shard reach the log in the order they were made: no thread
\* changes a shard while another has a change of it still to log.
WritesStayOrdered ==
  TypeOK /\ \A s \in Shards : Cardinality(unlogged[s]) <= 1

\* Whoever is in the middle of an operation can be waited for: never do all of
\* them wait for one another.  Scripts end, so a few threads in a cycle of waits
\* would be found here as soon as the others are between operations.
NoDeadlock == (\E t \in Threads : Busy(t)) => \E t \in Threads : Busy(t) /\ ~Blocked(t)

=============================================================================
