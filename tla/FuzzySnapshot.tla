--------------------------- MODULE FuzzySnapshot ---------------------------
(***************************************************************************)
(* Writes, the log they are propagated to, the fuzzy snapshot that is      *)
(* taken while they run, and the recovery that puts the two together       *)
(* again (engine/order.go, engine/snapshot.go, command/dispatch.go,        *)
(* command/transaction.go, command/replay.go, command/snapshot.go,         *)
(* persist/recover.go, persist/snapshot.go, server/persistence.go).        *)
(*                                                                         *)
(* Once a write or a force of the log has failed every append fails, but   *)
(* what was being written may be in the file all the same, counted in the  *)
(* offset or past it; a restart then finds it there.                       *)
(*                                                                         *)
(* The dataset is one contents per shard.  What a command does to a shard  *)
(* is the parameter NewValue; which shards it names, reads and writes is   *)
(* in its effect.  The log is a sequence of effects and its offset is its  *)
(* length.  A command that changes nothing propagates nothing and is left  *)
(* out; expiry and eviction delete a key under the shard's ordering lock   *)
(* and log the deletion there, as a one-shard write does.                  *)
(***************************************************************************)
EXTENDS Integers, Sequences, FiniteSets

CONSTANTS
  NShards,        \* shards, numbered in the order they are locked and walked
  Clients,        \* connections that write
  Snapshotter,    \* the goroutine running persistence.Snapshot
  Nobody,         \* holder of a lock that is free
  Effects,        \* effects commands propagate
  Empty,          \* a shard with no keys
  NewValue(_, _, _),  \* contents of a shard after an effect that saw a view
  QueueLimit,     \* bound: commands in one transaction
  MaxLog,         \* bound: records logged
  MaxCrashes,     \* bound: crashes
  CrossInExec,    \* may a transaction hold a cross-shard command?
  MachineCrash,   \* does a crash lose what has not been forced?
  FsyncAlways,    \* appendfsync always
  IOErrors        \* may the log fail?

Shards == 0 .. NShards - 1
LastShard == NShards - 1

(***************************************************************************)
(* An effect names the shards of its keys, those it reads besides the ones *)
(* it writes, and those it writes.  A shard-local effect treats its keys   *)
(* independently (DEL, UNLINK, MSET and every one-key write); a            *)
(* cross-shard one (RENAME, COPY, LMOVE, the STORE family, FLUSHALL,       *)
(* SWAPDB) does not, and may have no keys at all.                          *)
(***************************************************************************)
ASSUME FuzzySnapshotAssumption ==
  /\ NShards \in Nat \ {0}
  /\ QueueLimit \in Nat \ {0}
  /\ MaxLog \in Nat
  /\ MaxCrashes \in Nat
  /\ CrossInExec \in BOOLEAN /\ MachineCrash \in BOOLEAN
  /\ FsyncAlways \in BOOLEAN /\ IOErrors \in BOOLEAN
  /\ Snapshotter \notin Clients /\ Nobody \notin Clients /\ Nobody # Snapshotter
  /\ \A e \in Effects :
       /\ e.cross \in BOOLEAN
       /\ e.keys \subseteq Shards /\ e.reads \subseteq Shards
       /\ e.writes \subseteq Shards
       /\ ~e.cross => e.writes = e.keys /\ e.reads = {} /\ e.keys # {}

VARIABLES
  log,        \* the append log, from offset 0
  tail,       \* what a failed write left in the file past the log's offset
  oldest,     \* the oldest offset a segment still holds
  forced,     \* records known to be on stable storage
  past,       \* history: past[n] is the dataset after n records
  live,       \* the keyspace
  prop,       \* shard.prop: who holds each shard's ordering lock
  walking,    \* shards whose data lock the snapshotter holds
  crossing,   \* clients on the read side of snapshotGuard
  cpc,        \* each client: idle, guard, lock, run, log
  queue,      \* each client: the commands it has still to run
  need,       \* each client: the shards whose ordering locks it takes
  txn,        \* clients inside EXEC
  unlogged,   \* clients one of whose appends has failed
  mates,      \* clients that were appending when the log failed
  wrote,      \* each client: what its command has logged, and where
  acked,      \* history: what commands that have replied had logged, and where
  spc,        \* the snapshotter
  shard,      \* the shard it is at
  anchor, image,          \* the snapshot being written, per shard
  saved,                  \* is there a committed snapshot?
  diskAnchor, diskImage,  \* the committed snapshot, per shard
  tainted,    \* history: an append had failed, or fsync always not forced it
              \* all, when it was committed
  mode,       \* serving, load, replay, refused
  rpos,       \* replay: offset of the next record
  failed,     \* persistence.failed, or the log's own sticky error
  broken,     \* history: the keyspace holds an effect whose append failed
  crashes

logVars == <<log, tail, oldest, forced, past>>
lockVars == <<prop, walking, crossing>>
ackVars == <<unlogged, mates, wrote, acked>>
clientVars == <<cpc, queue, need, txn, ackVars>>
snapVars == <<spc, shard, anchor, image>>
diskVars == <<saved, diskAnchor, diskImage, tainted>>
modeVars == <<mode, rpos, failed, broken, crashes>>
vars == <<logVars, live, lockVars, clientVars, snapVars, diskVars, modeVars>>

TypeOK ==
  /\ log \in Seq(Effects) /\ tail \in Seq(Effects)
  /\ oldest \in Nat /\ forced \in Nat /\ rpos \in Nat
  /\ DOMAIN past = 0 .. Len(log) + Len(tail)
  /\ DOMAIN live = Shards
  /\ prop \in [Shards -> Clients \cup {Snapshotter, Nobody}]
  /\ walking \subseteq Shards
  /\ crossing \subseteq Clients /\ txn \subseteq Clients
  /\ unlogged \subseteq Clients /\ mates \subseteq Clients
  /\ wrote \in [Clients -> SUBSET (Nat \X Effects)] /\ acked \subseteq Nat \X Effects
  /\ cpc \in [Clients -> {"idle", "guard", "lock", "run", "log"}]
  /\ queue \in [Clients -> Seq(Effects)]
  /\ need \in [Clients -> SUBSET Shards]
  /\ spc \in {"idle", "guard", "prop", "anchor", "walk", "commit", "roll", "prune"}
  /\ shard \in Shards
  /\ anchor \in [Shards -> Nat] /\ diskAnchor \in [Shards -> Nat]
  /\ DOMAIN image = Shards /\ DOMAIN diskImage = Shards
  /\ mode \in {"serving", "load", "replay", "refused"}
  /\ saved \in BOOLEAN /\ tainted \in BOOLEAN
  /\ failed \in BOOLEAN /\ broken \in BOOLEAN
  /\ crashes \in 0 .. MaxCrashes

Fresh == [s \in Shards |-> Empty]
NoAnchors == [s \in Shards |-> 0]

Init ==
  /\ log = << >> /\ tail = << >> /\ oldest = 0 /\ forced = 0
  /\ past = [n \in {0} |-> Fresh]
  /\ live = Fresh
  /\ prop = [s \in Shards |-> Nobody]
  /\ walking = {} /\ crossing = {}
  /\ cpc = [c \in Clients |-> "idle"]
  /\ queue = [c \in Clients |-> << >>]
  /\ need = [c \in Clients |-> {}]
  /\ txn = {} /\ unlogged = {} /\ mates = {}
  /\ wrote = [c \in Clients |-> {}] /\ acked = {}
  /\ spc = "idle" /\ shard = 0 /\ anchor = NoAnchors /\ image = Fresh
  /\ saved = FALSE /\ diskAnchor = NoAnchors /\ diskImage = Fresh /\ tainted = FALSE
  /\ mode = "serving" /\ rpos = 0
  /\ failed = FALSE /\ broken = FALSE /\ crashes = 0

Offset == Len(log)
File == log \o tail

\* What an effect makes of one shard of a dataset.
After(e, s, st) == NewValue(e, s, [r \in e.reads \cup {s} |-> st[r]])

\* What a handler does to a dataset, restricted to some of its written shards.
ApplyTo(e, st, to) ==
  [s \in Shards |-> IF s \in e.writes \cap to THEN After(e, s, st) ELSE st[s]]

\* One more record in the file.
Extends(e) ==
  past' = [n \in 0 .. Len(File) + 1 |->
             IF n <= Len(File) THEN past[n] ELSE ApplyTo(e, past[Len(File)], Shards)]

\* The log's error is sticky; those who are appending may share the batch.
Appending == {c \in Clients : cpc[c] = "log"}
LogFails ==
  /\ failed' = TRUE
  /\ mates' = IF failed THEN mates ELSE Appending

-----------------------------------------------------------------------------
(***************************************************************************)
(* A write command (Execute) or a transaction (EXEC).                      *)
(***************************************************************************)
\* resolve refuses a write once the log has failed.
BeginWrite(c, e) ==
  /\ mode = "serving"
  /\ cpc[c] = "idle"
  /\ ~failed
  /\ Offset < MaxLog
  /\ queue' = [queue EXCEPT ![c] = <<e>>]
  /\ need' = [need EXCEPT ![c] = IF e.cross THEN Shards ELSE e.keys]
  /\ cpc' = [cpc EXCEPT ![c] = IF e.cross THEN "guard" ELSE "lock"]
  /\ UNCHANGED <<logVars, live, lockVars, txn, ackVars, snapVars,
                 diskVars, modeVars>>

Transactions == UNION {[1 .. n -> Effects] : n \in 1 .. QueueLimit}

\* EXEC takes every ordering lock, and not the snapshot guard.
BeginExec(c, q) ==
  /\ mode = "serving"
  /\ cpc[c] = "idle"
  /\ Offset < MaxLog
  /\ CrossInExec \/ \A i \in DOMAIN q : ~q[i].cross
  /\ queue' = [queue EXCEPT ![c] = q]
  /\ need' = [need EXCEPT ![c] = Shards]
  /\ txn' = txn \cup {c}
  /\ cpc' = [cpc EXCEPT ![c] = "lock"]
  /\ UNCHANGED <<logVars, live, lockVars, ackVars, snapVars, diskVars,
                 modeVars>>

\* A bug: a cross-shard command does not take the guard.
EnterGuard_Skipped(c) ==
  /\ cpc[c] = "guard"
  /\ cpc' = [cpc EXCEPT ![c] = "lock"]
  /\ UNCHANGED <<logVars, live, lockVars, queue, need, txn, ackVars,
                 snapVars, diskVars, modeVars>>

\* BeginCrossShard.  A waiting writer of an RWMutex holds up new readers.
EnterGuard(c) ==
  /\ cpc[c] = "guard"
  /\ spc \notin {"guard", "prop", "anchor", "walk"}
  /\ crossing' = crossing \cup {c}
  /\ cpc' = [cpc EXCEPT ![c] = "lock"]
  /\ UNCHANGED <<logVars, live, prop, walking, queue, need, txn, ackVars,
                 snapVars, diskVars, modeVars>>

Missing(c) == {s \in need[c] : prop[s] # c}

TakeLock(c, s) ==
  /\ cpc[c] = "lock"
  /\ prop[s] = Nobody
  /\ prop' = [prop EXCEPT ![s] = c]
  /\ cpc' = [cpc EXCEPT ![c] = IF Missing(c) = {s} THEN "run" ELSE "lock"]
  /\ UNCHANGED <<logVars, live, walking, crossing, queue, need, txn, ackVars,
                 snapVars, diskVars, modeVars>>

\* A bug: locks are taken in the order the keys were given.
Lock_AnyOrder(c) == \E s \in Missing(c) : TakeLock(c, s)

\* OrderWrites and OrderAllWrites take the locks in ascending shard order.
Lock(c) == \E s \in Missing(c) : /\ \A t \in Missing(c) : s <= t
                                 /\ TakeLock(c, s)

Release(c) == [s \in Shards |-> IF prop[s] = c THEN Nobody ELSE prop[s]]

\* A bug: the ordering locks go when the handler is done.
Run_ReleasesEarly(c) ==
  /\ cpc[c] = "run"
  /\ queue[c] # << >>
  /\ ~(c \in txn /\ failed)
  /\ LET e == Head(queue[c])
     IN /\ walking \cap (e.writes \cup e.reads) = {}
        /\ live' = ApplyTo(e, live, Shards)
  /\ cpc' = [cpc EXCEPT ![c] = "log"]
  /\ prop' = Release(c)
  /\ UNCHANGED <<logVars, walking, crossing, queue, need, txn, ackVars,
                 snapVars, diskVars, modeVars>>

\* The handler, under the data locks of every shard it touches.  A command of
\* a transaction is resolved once more first (RunRefused).
Run(c) ==
  /\ cpc[c] = "run"
  /\ queue[c] # << >>
  /\ ~(c \in txn /\ failed)
  /\ LET e == Head(queue[c])
     IN /\ walking \cap (e.writes \cup e.reads) = {}
        /\ live' = ApplyTo(e, live, Shards)
  /\ cpc' = [cpc EXCEPT ![c] = "log"]
  /\ UNCHANGED <<logVars, lockVars, queue, need, txn, ackVars, snapVars,
                 diskVars, modeVars>>

\* runQueued resolves every command of a transaction once more.
RunRefused(c) ==
  /\ cpc[c] = "run"
  /\ queue[c] # << >>
  /\ c \in txn /\ failed
  /\ queue' = [queue EXCEPT ![c] = Tail(@)]
  /\ UNCHANGED <<logVars, live, lockVars, cpc, need, txn, ackVars,
                 snapVars, diskVars, modeVars>>

\* A bug: under fsync always the append does not wait for the force.
Propagate_Unforced(c) ==
  /\ cpc[c] = "log"
  /\ ~failed
  /\ LET e == Head(queue[c])
     IN /\ log' = Append(log, e)
        /\ Extends(e)
        /\ wrote' = [wrote EXCEPT ![c] = @ \cup {<<Offset + 1, e>>}]
  /\ queue' = [queue EXCEPT ![c] = Tail(@)]
  /\ cpc' = [cpc EXCEPT ![c] = "run"]
  /\ UNCHANGED <<tail, oldest, forced, live, lockVars, need, txn, unlogged, mates,
                 acked, snapVars, diskVars, modeVars>>

\* propagate: the effect reaches the log, and under fsync always the disk.
Propagate(c) ==
  /\ cpc[c] = "log"
  /\ ~failed
  /\ LET e == Head(queue[c])
     IN /\ log' = Append(log, e)
        /\ Extends(e)
        /\ wrote' = [wrote EXCEPT ![c] = @ \cup {<<Offset + 1, e>>}]
  /\ forced' = IF FsyncAlways THEN Offset + 1 ELSE forced
  /\ queue' = [queue EXCEPT ![c] = Tail(@)]
  /\ cpc' = [cpc EXCEPT ![c] = "run"]
  /\ UNCHANGED <<tail, oldest, live, lockVars, need, txn, unlogged, mates, acked,
                 snapVars, diskVars, modeVars>>

\* persistence.Append fails, or had failed, and nobody tells the command.  Its
\* record is lost; or what was written of the failed batch holds it, past the
\* offset; or the batch was written and counted, and it is the force that
\* failed, the batch's own or the next one.
PropagateFails(c) ==
  /\ cpc[c] = "log"
  /\ failed \/ IOErrors
  /\ failed' = TRUE /\ broken' = TRUE
  /\ mates' = (IF failed THEN mates ELSE Appending) \ {c}
  /\ unlogged' = unlogged \cup {c}
  /\ LET e == Head(queue[c])
     IN \/ UNCHANGED <<log, tail, past>>
        \/ /\ failed => c \in mates
           /\ tail' = Append(tail, e) /\ UNCHANGED log
           /\ Extends(e)
        \/ /\ IF failed THEN c \in mates ELSE FsyncAlways
           /\ tail = << >>
           /\ log' = Append(log, e) /\ UNCHANGED tail
           /\ Extends(e)
  /\ queue' = [queue EXCEPT ![c] = Tail(@)]
  /\ cpc' = [cpc EXCEPT ![c] = "run"]
  /\ UNCHANGED <<oldest, forced, live, lockVars, need, txn, wrote, acked, snapVars,
                 diskVars, mode, rpos, crashes>>

\* Locks are released, then the handler's reply is written.
Reply(c) ==
  /\ cpc[c] = "run"
  /\ queue[c] = << >>
  /\ prop' = Release(c)
  /\ crossing' = crossing \ {c}
  /\ txn' = txn \ {c}
  /\ unlogged' = unlogged \ {c}
  /\ need' = [need EXCEPT ![c] = {}]
  /\ acked' = acked \cup wrote[c]
  /\ wrote' = [wrote EXCEPT ![c] = {}]
  /\ cpc' = [cpc EXCEPT ![c] = "idle"]
  /\ UNCHANGED <<logVars, live, walking, queue, mates, snapVars, diskVars, modeVars>>

\* syncLoop: once a second, and only under fsync everysec.
BackgroundSync ==
  /\ mode = "serving"
  /\ ~FsyncAlways
  /\ ~failed /\ forced < Offset
  /\ \/ forced' = Offset /\ UNCHANGED <<failed, mates>>
     \/ IOErrors /\ LogFails /\ UNCHANGED forced
  /\ UNCHANGED <<log, tail, oldest, past, live, lockVars, cpc, queue, need, txn,
                 unlogged, wrote, acked, snapVars, diskVars, mode, rpos, broken, crashes>>

-----------------------------------------------------------------------------
(***************************************************************************)
(* persistence.Snapshot: the guard, every shard in order, the commit, then *)
(* the log rolled and pruned.                                              *)
(***************************************************************************)
\* Nothing is left of the pass once its file is in place or has been removed.
Discard == shard' = 0 /\ anchor' = NoAnchors /\ image' = Fresh

SnapStart ==
  /\ mode = "serving"
  /\ spc = "idle"
  /\ spc' = "guard"
  /\ UNCHANGED <<logVars, live, lockVars, clientVars, shard, anchor, image,
                 diskVars, modeVars>>

\* SnapshotWindow: the write side of the guard.
SnapWindow ==
  /\ spc = "guard"
  /\ crossing = {}
  /\ spc' = "prop"
  /\ UNCHANGED <<logVars, live, lockVars, clientVars, shard, anchor, image,
                 diskVars, modeVars>>

\* A bug: the anchor is read without the ordering lock.
SnapProp_NoLock ==
  /\ spc = "prop"
  /\ spc' = "anchor"
  /\ UNCHANGED <<logVars, live, lockVars, clientVars, shard, anchor, image,
                 diskVars, modeVars>>

SnapProp ==
  /\ spc = "prop"
  /\ prop[shard] = Nobody
  /\ prop' = [prop EXCEPT ![shard] = Snapshotter]
  /\ spc' = "anchor"
  /\ UNCHANGED <<logVars, live, walking, crossing, clientVars, shard, anchor,
                 image, diskVars, modeVars>>

\* anchorAt(), then the data lock, then the ordering lock is let go.
SnapAnchor ==
  /\ spc = "anchor"
  /\ anchor' = [anchor EXCEPT ![shard] = Offset]
  /\ walking' = {shard}
  /\ prop' = Release(Snapshotter)
  /\ spc' = "walk"
  /\ UNCHANGED <<logVars, live, crossing, clientVars, shard, image, diskVars,
                 modeVars>>

\* A bug: the loop runs one shard too far.
SnapWalk_OneMore ==
  /\ spc = "walk"
  /\ image' = [image EXCEPT ![shard] = live[shard]]
  /\ walking' = {}
  /\ IF shard = NShards
     THEN spc' = "commit" /\ UNCHANGED shard
     ELSE spc' = "prop" /\ shard' = shard + 1
  /\ UNCHANGED <<logVars, live, prop, crossing, clientVars, anchor, diskVars,
                 modeVars>>

\* The walk; after the last shard the guard is released.
SnapWalk ==
  /\ spc = "walk"
  /\ image' = [image EXCEPT ![shard] = live[shard]]
  /\ walking' = {}
  /\ IF shard = LastShard
     THEN spc' = "commit" /\ UNCHANGED shard
     ELSE spc' = "prop" /\ shard' = shard + 1
  /\ UNCHANGED <<logVars, live, prop, crossing, clientVars, anchor, diskVars,
                 modeVars>>

\* The temporary file is renamed over the previous snapshot.  If forcing the
\* directory then fails, the pass ends there with the new snapshot in place.
SnapCommit ==
  /\ spc = "commit"
  /\ saved' = TRUE /\ diskAnchor' = anchor /\ diskImage' = image
  /\ tainted' = (broken \/ (FsyncAlways /\ forced < Offset))
  /\ Discard
  /\ \/ spc' = "roll"
     \/ IOErrors /\ spc' = "idle"
  /\ UNCHANGED <<logVars, live, lockVars, clientVars, modeVars>>

\* Writing, forcing or renaming the temporary file fails.
SnapAbort ==
  /\ spc = "commit"
  /\ IOErrors
  /\ Discard
  /\ spc' = "idle"
  /\ UNCHANGED <<logVars, live, lockVars, clientVars, diskVars, modeVars>>

\* Roll forces the segment it closes.  If it fails the log is unusable.
SnapRoll ==
  /\ spc = "roll"
  /\ \/ ~failed /\ forced' = Offset /\ spc' = "prune" /\ UNCHANGED <<failed, mates>>
     \/ (failed \/ IOErrors) /\ LogFails /\ spc' = "idle" /\ UNCHANGED forced
  /\ UNCHANGED <<log, tail, oldest, past, live, lockVars, cpc, queue, need, txn,
                 unlogged, wrote, acked, shard, anchor, image, diskVars, mode, rpos,
                 broken, crashes>>

\* A bug: the window's end, not its beginning, bounds what is redundant.
SnapPrune_ToLast ==
  /\ spc = "prune"
  /\ \E o \in oldest .. diskAnchor[LastShard] : oldest' = o
  /\ spc' = "idle"
  /\ UNCHANGED <<log, tail, forced, past, live, lockVars, clientVars, shard, anchor,
                 image, diskVars, modeVars>>

\* Prune(info.First): whole segments, so up to some offset at or before it.
SnapPrune ==
  /\ spc = "prune"
  /\ \E o \in oldest .. diskAnchor[0] : oldest' = o
  /\ spc' = "idle"
  /\ UNCHANGED <<log, tail, forced, past, live, lockVars, clientVars, shard, anchor,
                 image, diskVars, modeVars>>

-----------------------------------------------------------------------------
(***************************************************************************)
(* Crash, and restore.                                                     *)
(***************************************************************************)
\* The next start finds the whole file, counted or not, or what had been
\* forced of it and some more.  It rebuilds the keyspace from the files, so
\* what is wrong with it is what is wrong with the snapshot.
Crash ==
  /\ mode # "refused"
  /\ crashes < MaxCrashes
  /\ \E n \in (IF MachineCrash THEN forced .. Len(File) ELSE {Len(File)}) :
       /\ log' = SubSeq(File, 1, n) /\ tail' = << >>
       /\ past' = [m \in 0 .. n |-> past[m]]
  /\ live' = Fresh
  /\ prop' = [s \in Shards |-> Nobody] /\ walking' = {} /\ crossing' = {}
  /\ cpc' = [c \in Clients |-> "idle"] /\ queue' = [c \in Clients |-> << >>]
  /\ need' = [c \in Clients |-> {}] /\ txn' = {} /\ unlogged' = {} /\ mates' = {}
  /\ wrote' = [c \in Clients |-> {}]
  /\ spc' = "idle" /\ Discard
  /\ mode' = "load" /\ rpos' = 0
  /\ failed' = FALSE /\ broken' = tainted
  /\ crashes' = crashes + 1
  /\ UNCHANGED <<oldest, forced, acked, diskVars>>

\* LoadSnapshot, and Recover's check that the log reaches back far enough.
Load ==
  /\ mode = "load"
  /\ live' = IF saved THEN diskImage ELSE Fresh
  /\ rpos' = IF saved THEN diskAnchor[0] ELSE 0
  /\ mode' = IF oldest > rpos' THEN "refused" ELSE "replay"
  /\ UNCHANGED <<logVars, lockVars, clientVars, snapVars, diskVars, failed,
                 broken, crashes>>

\* A bug: a shard is taken to hold the record its anchor points at.
Wants_Strictly(s, at) == saved => at > diskAnchor[s]

\* Does the shard still need the record at this offset?
Wants(s, at) == saved => at >= diskAnchor[s]

\* narrow and splitKeys: the whole record, nothing, the keys whose shards
\* still need it, or an error when the command cannot be split.
Replay ==
  /\ mode = "replay"
  /\ rpos < Offset
  /\ LET e == log[rpos + 1]
         wanted == {s \in e.keys : Wants(s, rpos)}
     IN \/ /\ wanted = e.keys
           /\ live' = ApplyTo(e, live, Shards)
           /\ UNCHANGED mode
        \/ /\ wanted # e.keys
           /\ ~e.cross \/ wanted = {}
           /\ live' = ApplyTo(e, live, wanted)
           /\ UNCHANGED mode
        \/ /\ wanted # e.keys
           /\ e.cross /\ wanted # {}
           /\ mode' = "refused"
           /\ UNCHANGED live
  /\ rpos' = rpos + 1
  /\ UNCHANGED <<logVars, lockVars, clientVars, snapVars, diskVars, failed,
                 broken, crashes>>

\* The snapshot's window must end within the log.
Serve ==
  /\ mode = "replay"
  /\ rpos >= Offset
  /\ mode' = IF saved /\ Offset < diskAnchor[LastShard] THEN "refused" ELSE "serving"
  /\ rpos' = 0
  /\ UNCHANGED <<logVars, live, lockVars, clientVars, snapVars, diskVars, failed,
                 broken, crashes>>

-----------------------------------------------------------------------------
Client(c) ==
  \/ \E e \in Effects : BeginWrite(c, e)
  \/ \E q \in Transactions : BeginExec(c, q)
  \/ EnterGuard(c) \/ Lock(c) \/ Run(c) \/ RunRefused(c) \/ Propagate(c)
  \/ PropagateFails(c) \/ Reply(c)

Snapshot ==
  SnapStart \/ SnapWindow \/ SnapProp \/ SnapAnchor \/ SnapWalk \/ SnapCommit
  \/ SnapAbort \/ SnapRoll \/ SnapPrune

Restore == Load \/ Replay \/ Serve

Next == (\E c \in Clients : Client(c)) \/ Snapshot \/ BackgroundSync
        \/ Crash \/ Restore

Spec == Init /\ [][Next]_vars

(***************************************************************************)
(* Go's mutexes hand a lock to a waiter that has starved, so taking a lock *)
(* that is free again and again eventually succeeds; a goroutine that can  *)
(* step does.                                                              *)
(***************************************************************************)
Fairness ==
  /\ \A c \in Clients :
       SF_vars(EnterGuard(c) \/ Lock(c) \/ Run(c) \/ RunRefused(c)
               \/ Propagate(c) \/ PropagateFails(c) \/ Reply(c))
  /\ SF_vars(SnapWindow \/ SnapProp \/ SnapAnchor \/ SnapWalk \/ SnapCommit
             \/ SnapRoll \/ SnapPrune)

FairSpec == Spec /\ Fairness

-----------------------------------------------------------------------------
(***************************************************************************)
(* What makes it correct.                                                  *)
(***************************************************************************)
Logged == past[Offset]

\* Some command has changed the shard and has not logged its effect yet.
InFlight(s) == \E c \in Clients : cpc[c] = "log" /\ s \in Head(queue[c]).writes

\* Every shard no command is in the middle of writing holds what replaying the
\* log from its beginning would give it: concurrent writers, transactions and
\* restarts have kept the order of the log the order of the changes.
LiveMatchesLog ==
  (mode = "serving" /\ ~broken) =>
    \A s \in Shards : ~InFlight(s) => live[s] = Logged[s]

\* A shard in a committed snapshot holds exactly the effects of the records
\* before its anchor, though writers ran all through the walk, if no append had
\* failed when it was taken.
AnchorExact ==
  (saved /\ ~tainted) =>
    \A s \in Shards : diskAnchor[s] <= Offset =>
      diskImage[s] = past[diskAnchor[s]][s]

\* No effect that reads one shard and writes another has an offset inside the
\* window a committed snapshot's anchors span.
NoCrossInWindow ==
  saved => \A i \in DOMAIN log :
    (diskAnchor[0] < i /\ i <= diskAnchor[LastShard]) => ~log[i].cross

\* Replaying the log's tail over a fuzzy snapshot, each record to the shards
\* that lack it, ends at the dataset the whole log describes.
RecoveryRebuildsDataset ==
  (mode = "replay" /\ rpos >= Offset /\ ~broken
     /\ (saved => diskAnchor[LastShard] <= Offset)) =>
    \A s \in Shards : live[s] = Logged[s]

\* Whatever moment a crash chooses, and whatever a failed append has left in
\* the file, the data directory loads, unless its snapshot is tainted: a SAVE
\* goes on though the log has failed, and its anchors may then count a record
\* that was written and never forced.
RestartSucceeds == mode = "refused" => tainted

\* What a command has logged is still in the log, at its place, once the
\* command has been answered, before and after a crash.  (It says nothing of a
\* command that was answered although its append failed: see AckMeansLogged.)
AckedSurvives == \A a \in acked : a[1] \in DOMAIN log /\ log[a[1]] = a[2]

\* Liveness: a command is answered, whatever else is locking shards.
WriteReturns == \A c \in Clients : cpc[c] # "idle" ~> cpc[c] = "idle"

\* Liveness: writers cannot hold up a snapshot for ever.
SnapshotEnds == spc # "idle" ~> spc = "idle"

\* "A write that cannot reach the log must not be acknowledged."
AckMeansLogged ==
  \A c \in Clients : (cpc[c] = "run" /\ queue[c] = << >>) => c \notin unlogged
=============================================================================
