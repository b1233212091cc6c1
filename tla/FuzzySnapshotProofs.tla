------------------------ MODULE FuzzySnapshotProofs ------------------------
(***************************************************************************)
(* Proofs about FuzzySnapshot, for any number of shards and clients, any   *)
(* set of effects and any meaning NewValue gives them.                     *)
(*                                                                         *)
(* The inductive invariant is built in layers: who holds which lock        *)
(* (LockInv), what is left of an append that failed (TailInv), what the    *)
(* file's history says (PastInv, LiveInv), what the snapshot in progress   *)
(* and the committed one say (WalkInv, DiskInv, WindowInv), what replay    *)
(* has rebuilt so far (ReplayInv), and why a restart succeeds              *)
(* (RestartInv).                                                           *)
(***************************************************************************)
EXTENDS FuzzySnapshot, TLAPS

Active == {"lock", "run", "log"}
Walking == {"prop", "anchor", "walk"}

\* An ordering lock is held by a client that needs it.
HeldIsNeeded ==
  \A c \in Clients, s \in Shards :
    prop[s] = c => cpc[c] \in Active /\ s \in need[c]

\* A client that is running holds every lock it needs.
RunnerHoldsAll ==
  \A c \in Clients : cpc[c] \in {"run", "log"} => \A s \in need[c] : prop[s] = c

\* What a client will touch is among the shards it locks.
TouchesNeeded ==
  \A c \in Clients : \A i \in 1 .. Len(queue[c]) :
    /\ queue[c][i].writes \subseteq need[c]
    /\ queue[c][i].reads \subseteq need[c]

\* The snapshotter's own locks, and where it can be when.
SnapLocks ==
  /\ \A s \in Shards : prop[s] = Snapshotter <=> (spc = "anchor" /\ s = shard)
  /\ walking = IF spc = "walk" THEN {shard} ELSE {}
  /\ spc \in {"idle", "guard", "roll", "prune"} => shard = 0

LockInv ==
  /\ HeldIsNeeded
  /\ RunnerHoldsAll
  /\ \A c \in Clients : cpc[c] = "log" => queue[c] # << >>
  /\ TouchesNeeded
  /\ SnapLocks
  /\ mode # "serving" => /\ \A c \in Clients : cpc[c] = "idle"
                         /\ spc = "idle"

\* Cross-shard commands run on the read side of the guard, and a snapshot in
\* progress excludes them.
GuardInv ==
  /\ \A c \in Clients : cpc[c] \in Active =>
       \A i \in 1 .. Len(queue[c]) : queue[c][i].cross => c \in crossing
  /\ \A c \in crossing : cpc[c] \in Active
  /\ spc \in Walking => crossing = {}

\* Something lies past the log's offset only once the log has failed; a server
\* starts with a log that has not, over a keyspace as good as its snapshot.
TailInv ==
  /\ tail # << >> => failed
  /\ mode # "serving" => ~failed /\ (broken <=> tainted)

\* past is what replaying the file from nothing gives, record by record.
PastInv ==
  /\ past[0] = Fresh
  /\ \A n \in 0 .. Len(File) - 1 : past[n + 1] = ApplyTo(File[n + 1], past[n], Shards)

\* The keyspace is the log's dataset plus the effects in flight, each of which
\* saw the log's dataset on every shard it read.
LiveInv ==
  (mode = "serving" /\ ~broken) =>
    /\ \A s \in Shards : ~InFlight(s) => live[s] = Logged[s]
    /\ \A c \in Clients : cpc[c] = "log" =>
         \A s \in Head(queue[c]).writes :
           live[s] = After(Head(queue[c]), s, Logged)

Done(s) == spc = "commit" \/ (spc \in Walking /\ s < shard)
AnchorSet(s) == Done(s) \/ (spc = "walk" /\ s = shard)

\* The snapshot in progress: anchors ascend, and each names the moment the
\* shard's image is of.
WalkInv ==
  /\ \A s \in Shards : AnchorSet(s) => anchor[s] <= Offset
  /\ \A s, t \in Shards : AnchorSet(s) /\ AnchorSet(t) /\ s <= t =>
       anchor[s] <= anchor[t]
  /\ ~broken => \A s \in Shards : Done(s) => image[s] = past[anchor[s]][s]
  /\ ~broken /\ spc = "walk" => live[shard] = past[anchor[shard]][shard]

\* The committed snapshot; a server that serves has a log that reaches the
\* end of its window.
DiskInv ==
  saved =>
    /\ \A s, t \in Shards : s <= t => diskAnchor[s] <= diskAnchor[t]
    /\ mode = "serving" => \A s \in Shards : diskAnchor[s] <= Offset
    /\ ~tainted => \A s \in Shards : diskAnchor[s] <= Offset =>
         diskImage[s] = past[diskAnchor[s]][s]

\* While the walk lasts nothing cross-shard is logged after the first anchor.
WalkClean ==
  (spc \in Walking /\ AnchorSet(0)) =>
    \A i \in 1 .. Offset : anchor[0] < i => ~log[i].cross

\* Nothing cross-shard is logged between the first anchor and the last, in the
\* snapshot about to be committed and in the one that is.
WindowInv ==
  /\ NoCrossInWindow
  /\ WalkClean
  /\ spc = "commit" =>
       \A i \in 1 .. Offset :
         (anchor[0] < i /\ i <= anchor[LastShard]) => ~log[i].cross

\* Replay starts at the first anchor and stays within the log.
ReplayPos ==
  mode = "replay" =>
    /\ saved => diskAnchor[0] <= rpos
    /\ rpos <= Offset \/ (saved /\ rpos = diskAnchor[0])

\* Replay: a shard whose anchor is ahead is as the snapshot left it, any other
\* is as the log describes it up to here.
ReplayShards ==
  (mode = "replay" /\ ~broken) =>
    \A s \in Shards :
      /\ (saved /\ rpos < diskAnchor[s]) => live[s] = diskImage[s]
      /\ ((saved => diskAnchor[s] <= rpos) /\ rpos <= Offset) =>
           live[s] = past[rpos][s]

ReplayInv == ReplayPos /\ ReplayShards

Inv == TypeOK /\ LockInv /\ GuardInv /\ TailInv /\ PastInv /\ LiveInv /\ WalkInv
       /\ DiskInv /\ WindowInv /\ ReplayInv

USE FuzzySnapshotAssumption

-----------------------------------------------------------------------------
\* The shards are a non-empty initial segment of the naturals.
LEMMA ShardFacts ==
  /\ Shards \subseteq Nat
  /\ 0 \in Shards /\ LastShard \in Shards
  /\ \A s \in Shards : 0 <= s /\ s <= LastShard
BY DEF Shards, LastShard

\* The commands left to run after the first are among those left before.
LEMMA TailFacts ==
  ASSUME NEW q \in Seq(Effects), q # << >>
  PROVE  /\ Head(q) \in Effects /\ Tail(q) \in Seq(Effects)
         /\ Len(Tail(q)) = Len(q) - 1 /\ Len(q) \in Nat /\ Len(q) >= 1
         /\ Head(q) = q[1]
         /\ \A i \in 1 .. Len(Tail(q)) : Tail(q)[i] = q[i + 1]
OBVIOUS

\* A transaction's queue is a sequence of effects.
LEMMA TransactionIsSeq ==
  ASSUME NEW q \in Transactions
  PROVE  q \in Seq(Effects) /\ DOMAIN q = 1 .. Len(q)
BY DEF Transactions

\* A log cut short is a log, and keeps what it keeps.
LEMMA CutFacts ==
  ASSUME NEW q \in Seq(Effects), NEW n \in 0 .. Len(q)
  PROVE  /\ SubSeq(q, 1, n) \in Seq(Effects)
         /\ Len(SubSeq(q, 1, n)) = n
         /\ \A i \in 1 .. n : SubSeq(q, 1, n)[i] = q[i]
OBVIOUS

\* A log one record longer is a log, and keeps what it had.
LEMMA AppendFacts ==
  ASSUME NEW q \in Seq(Effects), NEW e \in Effects
  PROVE  /\ Append(q, e) \in Seq(Effects)
         /\ Len(Append(q, e)) = Len(q) + 1 /\ Len(q) \in Nat
         /\ Append(q, e)[Len(q) + 1] = e
         /\ \A i \in 1 .. Len(q) : Append(q, e)[i] = q[i]
OBVIOUS

\* The file is the log and what a failed write left past it.
LEMMA FileFacts ==
  ASSUME TypeOK
  PROVE  /\ File \in Seq(Effects) /\ Offset \in Nat /\ Len(tail) \in Nat
         /\ Len(File) = Offset + Len(tail) /\ Len(File) \in Nat
         /\ DOMAIN log = 1 .. Offset
         /\ \A i \in 1 .. Offset : File[i] = log[i]
         /\ tail = << >> => File = log
BY DEF TypeOK, File, Offset

\* A crash keeps a prefix of the file, and of its history.
LEMMA CrashCuts ==
  ASSUME TypeOK, Crash
  PROVE  \E n \in 0 .. Len(File) :
           /\ log' = SubSeq(File, 1, n) /\ tail' = << >>
           /\ past' = [m \in 0 .. n |-> past[m]]
           /\ log' \in Seq(Effects) /\ Offset' = n /\ DOMAIN log' = 1 .. n
           /\ \A i \in 1 .. n : log'[i] = File[i]
           /\ IF MachineCrash THEN forced <= n ELSE n = Len(File)
<1>1. Len(File) \in Nat /\ File \in Seq(Effects)
  BY FileFacts
<1>2. (IF MachineCrash THEN forced .. Len(File) ELSE {Len(File)}) \subseteq 0 .. Len(File)
  BY <1>1 DEF TypeOK
<1>3. PICK n \in (IF MachineCrash THEN forced .. Len(File) ELSE {Len(File)}) :
        /\ log' = SubSeq(File, 1, n) /\ tail' = << >>
        /\ past' = [m \in 0 .. n |-> past[m]]
  BY Zenon DEF Crash
<1>4. n \in 0 .. Len(File)
  BY <1>2, <1>3
<1>5. /\ SubSeq(File, 1, n) \in Seq(Effects) /\ Len(SubSeq(File, 1, n)) = n
      /\ \A i \in 1 .. n : SubSeq(File, 1, n)[i] = File[i]
  BY <1>1, <1>4, CutFacts
<1>6. DOMAIN log' = 1 .. n
  BY <1>3, <1>5
<1>7. IF MachineCrash THEN forced <= n ELSE n = Len(File)
  BY <1>1, <1>3 DEF TypeOK
<1> QED BY <1>3, <1>4, <1>5, <1>6, <1>7 DEF Offset

\* A record more, in the log or past it, keeps the types and the history's length.
LEMMA GrowTypes ==
  ASSUME TypeOK, NEW e \in Effects, Extends(e),
         \/ log' = Append(log, e) /\ tail' = tail
         \/ tail' = Append(tail, e) /\ log' = log
  PROVE  /\ log' \in Seq(Effects) /\ tail' \in Seq(Effects)
         /\ DOMAIN past' = 0 .. Len(log') + Len(tail')
<1>1. /\ log \in Seq(Effects) /\ tail \in Seq(Effects) /\ Len(log) \in Nat
      /\ Len(tail) \in Nat /\ Len(File) = Len(log) + Len(tail)
  BY FileFacts DEF TypeOK, Offset
<1>2. DOMAIN past' = 0 .. Len(File) + 1
  BY DEF Extends
<1>3. CASE log' = Append(log, e) /\ tail' = tail
  BY <1>1, <1>2, <1>3, AppendFacts
<1>4. CASE tail' = Append(tail, e) /\ log' = log
  BY <1>1, <1>2, <1>4, AppendFacts
<1> QED BY <1>3, <1>4

-----------------------------------------------------------------------------
\* A step keeps every variable in its type, given that a client about to log
\* has an effect to log.
LEMMA TypeStep ==
  ASSUME TypeOK, LockInv, [Next]_vars
  PROVE  TypeOK'
<1> USE DEF TypeOK, ackVars, logVars, lockVars, clientVars, snapVars, diskVars, modeVars
<1>1. ASSUME NEW c \in Clients, NEW e \in Effects, BeginWrite(c, e) PROVE TypeOK'
  <2>1. <<e>> \in Seq(Effects)
    OBVIOUS
  <2> QED BY <1>1, <2>1 DEF BeginWrite
<1>2. ASSUME NEW c \in Clients, NEW q \in Transactions, BeginExec(c, q) PROVE TypeOK'
  BY <1>2, TransactionIsSeq DEF BeginExec
<1>3. ASSUME NEW c \in Clients, EnterGuard(c) PROVE TypeOK'
  BY <1>3 DEF EnterGuard
<1>4. ASSUME NEW c \in Clients, Lock(c) PROVE TypeOK'
  BY <1>4 DEF Lock, TakeLock, Missing
<1>5. ASSUME NEW c \in Clients, Run(c) PROVE TypeOK'
  BY <1>5 DEF Run, ApplyTo
<1>6. ASSUME NEW c \in Clients, RunRefused(c) PROVE TypeOK'
  BY <1>6, TailFacts DEF RunRefused
<1>7. ASSUME NEW c \in Clients, Propagate(c) PROVE TypeOK'
  <2>1. queue[c] \in Seq(Effects) /\ queue[c] # << >>
    BY <1>7 DEF Propagate, LockInv
  <2>2. Head(queue[c]) \in Effects /\ Tail(queue[c]) \in Seq(Effects)
    BY <2>1, TailFacts
  <2>3. /\ log' \in Seq(Effects) /\ tail' \in Seq(Effects)
        /\ DOMAIN past' = 0 .. Len(log') + Len(tail')
    <3> HIDE DEF TypeOK
    <3>1. PICK e \in Effects : e = Head(queue[c])
      BY <2>2
    <3>2. log' = Append(log, e) /\ tail' = tail /\ Extends(e)
      BY <1>7, <3>1, Zenon DEF Propagate
    <3> QED BY <3>2, GrowTypes
  <2>4. wrote' \in [Clients -> SUBSET (Nat \X Effects)]
    <3>1. <<Offset + 1, Head(queue[c])>> \in Nat \X Effects
      BY <2>2, FileFacts
    <3> QED BY <1>7, <3>1 DEF Propagate
  <2>5. /\ queue' \in [Clients -> Seq(Effects)]
        /\ cpc' \in [Clients -> {"idle", "guard", "lock", "run", "log"}]
    BY <1>7, <2>2 DEF Propagate
  <2>6. forced' \in Nat
    <3>1. forced \in Nat /\ Offset + 1 \in Nat
      BY DEF Offset
    <3>2. forced' = forced \/ forced' = Offset + 1
      BY <1>7, Zenon DEF Propagate
    <3> QED BY <3>1, <3>2, Zenon
  <2>7. UNCHANGED <<tail, oldest, live, lockVars, need, txn, unlogged, mates, acked,
                    snapVars, diskVars, modeVars>>
    BY <1>7 DEF Propagate
  <2> QED BY <2>3, <2>4, <2>5, <2>6, <2>7
<1>8. ASSUME NEW c \in Clients, PropagateFails(c) PROVE TypeOK'
  <2>1. queue[c] \in Seq(Effects) /\ queue[c] # << >>
    BY <1>8 DEF PropagateFails, LockInv
  <2>2. Head(queue[c]) \in Effects /\ Tail(queue[c]) \in Seq(Effects)
    BY <2>1, TailFacts
  <2>3. /\ log' \in Seq(Effects) /\ tail' \in Seq(Effects)
        /\ DOMAIN past' = 0 .. Len(log') + Len(tail')
    <3>1. CASE UNCHANGED <<log, tail, past>>
      BY <3>1
    <3>2. CASE ~UNCHANGED <<log, tail, past>>
      <4> HIDE DEF TypeOK
      <4>1. PICK e \in Effects : e = Head(queue[c])
        BY <2>2
      <4>2. /\ Extends(e)
            /\ \/ log' = Append(log, e) /\ tail' = tail
               \/ tail' = Append(tail, e) /\ log' = log
        BY <1>8, <3>2, <4>1, Zenon DEF PropagateFails
      <4> QED BY <4>2, GrowTypes
    <3> QED BY <3>1, <3>2
  <2>4. /\ queue' \in [Clients -> Seq(Effects)]
        /\ cpc' \in [Clients -> {"idle", "guard", "lock", "run", "log"}]
    BY <1>8, <2>2 DEF PropagateFails
  <2>5. mates' \subseteq Clients /\ unlogged' \subseteq Clients
    BY <1>8 DEF PropagateFails, Appending
  <2>6. failed' \in BOOLEAN /\ broken' \in BOOLEAN
    BY <1>8, Zenon DEF PropagateFails
  <2>7. UNCHANGED <<oldest, forced, live, lockVars, need, txn, wrote, acked,
                    snapVars, diskVars, mode, rpos, crashes>>
    BY <1>8, Zenon DEF PropagateFails
  <2> QED BY <2>3, <2>4, <2>5, <2>6, <2>7
<1>9. ASSUME NEW c \in Clients, Reply(c) PROVE TypeOK'
  BY <1>9 DEF Reply, Release
<1>10. ASSUME SnapStart PROVE TypeOK'
  BY <1>10, ShardFacts DEF SnapStart
<1>11. ASSUME SnapWindow PROVE TypeOK'
  BY <1>11, ShardFacts DEF SnapWindow
<1>12. ASSUME SnapProp PROVE TypeOK'
  BY <1>12, ShardFacts DEF SnapProp
<1>13. ASSUME SnapAnchor PROVE TypeOK'
  BY SMTT(30), <1>13, ShardFacts DEF SnapAnchor, Release, Offset
<1>14. ASSUME SnapWalk PROVE TypeOK'
  <2>1. shard' \in Shards
    BY SMTT(30), <1>14 DEF SnapWalk, LastShard, Shards
  <2>2. spc' \in {"commit", "prop"}
    BY <1>14 DEF SnapWalk
  <2> QED BY <1>14, <2>1, <2>2 DEF SnapWalk
<1>15. ASSUME SnapCommit PROVE TypeOK'
  <2>1. saved' \in BOOLEAN /\ tainted' \in BOOLEAN
    BY <1>15, Zenon DEF SnapCommit
  <2>2. /\ shard' \in Shards /\ anchor' \in [Shards -> Nat] /\ DOMAIN image' = Shards
        /\ diskAnchor' = anchor /\ diskImage' = image /\ spc' \in {"roll", "idle"}
        /\ UNCHANGED <<logVars, live, lockVars, clientVars, modeVars>>
    BY <1>15, ShardFacts DEF SnapCommit, Discard, NoAnchors, Fresh
  <2> QED BY <2>1, <2>2
<1>16. ASSUME SnapAbort PROVE TypeOK'
  BY <1>16, ShardFacts DEF SnapAbort, Discard, NoAnchors, Fresh
<1>17. ASSUME SnapRoll PROVE TypeOK'
  <2>1. forced' \in Nat
    BY <1>17 DEF SnapRoll, Offset
  <2>2. failed' \in BOOLEAN /\ mates' \subseteq Clients
    BY <1>17, Zenon DEF SnapRoll, LogFails, Appending
  <2>3. spc' \in {"idle", "prune"}
    BY <1>17 DEF SnapRoll
  <2> QED BY <1>17, <2>1, <2>2, <2>3 DEF SnapRoll
<1>18. ASSUME SnapPrune PROVE TypeOK'
  <2>1. oldest' \in Nat
    <3>1. 0 \in Shards /\ diskAnchor[0] \in Nat
      BY ShardFacts
    <3> QED BY <1>18, <3>1 DEF SnapPrune
  <2> QED BY <1>18, <2>1 DEF SnapPrune
<1>19. ASSUME BackgroundSync PROVE TypeOK'
  <2>1. forced' \in Nat
    BY <1>19 DEF BackgroundSync, Offset
  <2>2. failed' \in BOOLEAN /\ mates' \subseteq Clients
    BY <1>19, Zenon DEF BackgroundSync, LogFails, Appending
  <2> QED BY <1>19, <2>1, <2>2 DEF BackgroundSync
<1>20. ASSUME Crash PROVE TypeOK'
  <2>1. PICK n \in 0 .. Len(File) :
          /\ log' \in Seq(Effects) /\ tail' = << >> /\ Offset' = n
          /\ past' = [m \in 0 .. n |-> past[m]]
    BY <1>20, CrashCuts
  <2>2. /\ log' \in Seq(Effects) /\ tail' \in Seq(Effects)
        /\ DOMAIN past' = 0 .. Len(log') + Len(tail')
    BY <2>1, FileFacts DEF Offset
  <2>3. << >> \in Seq(Effects)
    OBVIOUS
  <2>4. /\ prop' \in [Shards -> Clients \cup {Snapshotter, Nobody}]
        /\ cpc' \in [Clients -> {"idle", "guard", "lock", "run", "log"}]
        /\ queue' \in [Clients -> Seq(Effects)]
        /\ need' \in [Clients -> SUBSET Shards]
        /\ wrote' \in [Clients -> SUBSET (Nat \X Effects)]
    BY <1>20, <2>3 DEF Crash
  <2>5. /\ shard' \in Shards /\ anchor' \in [Shards -> Nat]
        /\ DOMAIN image' = Shards /\ DOMAIN live' = Shards
    BY <1>20, ShardFacts DEF Crash, Discard, NoAnchors, Fresh
  <2>6. crashes' \in 0 .. MaxCrashes
    BY <1>20 DEF Crash
  <2>7. /\ walking' = {} /\ crossing' = {} /\ txn' = {} /\ unlogged' = {} /\ mates' = {}
        /\ spc' = "idle" /\ mode' = "load" /\ rpos' = 0
    BY <1>20, Zenon DEF Crash
  <2>8. failed' \in BOOLEAN /\ broken' \in BOOLEAN
    BY <1>20, Zenon DEF Crash
  <2>9. UNCHANGED <<oldest, forced, acked, diskVars>>
    BY <1>20 DEF Crash
  <2> QED BY <2>2, <2>4, <2>5, <2>6, <2>7, <2>8, <2>9
<1>21. ASSUME Load PROVE TypeOK'
  BY <1>21, ShardFacts DEF Load, Fresh
<1>22. ASSUME Replay PROVE TypeOK'
  <2>1. DOMAIN live' = Shards
    BY <1>22 DEF Replay, ApplyTo
  <2>2. mode' \in {"replay", "refused"}
    BY <1>22 DEF Replay
  <2> QED BY <1>22, <2>1, <2>2 DEF Replay
<1>23. ASSUME Serve PROVE TypeOK'
  BY <1>23, ShardFacts DEF Serve
<1>24. ASSUME UNCHANGED vars PROVE TypeOK'
  BY <1>24 DEF vars
<1> QED BY <1>1, <1>2, <1>3, <1>4, <1>5, <1>6, <1>7, <1>8, <1>9, <1>10, <1>11,
           <1>12, <1>13, <1>14, <1>15, <1>16, <1>17, <1>18, <1>19, <1>20,
           <1>21, <1>22, <1>23, <1>24 DEF Next, Client, Snapshot, Restore

-----------------------------------------------------------------------------
\* A step keeps the locks in order.
LEMMA LockStep ==
  ASSUME TypeOK, LockInv, [Next]_vars
  PROVE  LockInv'
<1> USE DEF TypeOK, LockInv, HeldIsNeeded, RunnerHoldsAll, TouchesNeeded, SnapLocks, Active, ackVars, logVars, lockVars, clientVars, snapVars, diskVars, modeVars
<1>1. ASSUME NEW c \in Clients, NEW e \in Effects, BeginWrite(c, e) PROVE LockInv'
  BY <1>1 DEF BeginWrite
<1>2. ASSUME NEW c \in Clients, NEW q \in Transactions, BeginExec(c, q) PROVE LockInv'
  BY <1>2, TransactionIsSeq DEF BeginExec
<1>3. ASSUME NEW c \in Clients, EnterGuard(c) PROVE LockInv'
  BY <1>3 DEF EnterGuard
<1>4. ASSUME NEW c \in Clients, Lock(c) PROVE LockInv'
  BY <1>4 DEF Lock, TakeLock, Missing
<1>5. ASSUME NEW c \in Clients, Run(c) PROVE LockInv'
  BY <1>5 DEF Run
<1>6. ASSUME NEW c \in Clients, RunRefused(c) PROVE LockInv'
  BY <1>6, TailFacts DEF RunRefused
<1>7. ASSUME NEW c \in Clients, Propagate(c) PROVE LockInv'
  BY <1>7, TailFacts DEF Propagate
<1>8. ASSUME NEW c \in Clients, PropagateFails(c) PROVE LockInv'
  BY <1>8, TailFacts DEF PropagateFails
<1>9. ASSUME NEW c \in Clients, Reply(c) PROVE LockInv'
  <2>1. /\ cpc' = [cpc EXCEPT ![c] = "idle"] /\ need' = [need EXCEPT ![c] = {}]
        /\ cpc[c] = "run" /\ queue[c] = << >> /\ c \in Clients
        /\ \A s \in Shards : prop'[s] = IF prop[s] = c THEN Nobody ELSE prop[s]
        /\ UNCHANGED <<queue, walking, spc, shard, mode>>
    BY <1>9 DEF Reply, Release
  <2>2. HeldIsNeeded'
    BY <2>1
  <2>3. RunnerHoldsAll'
    BY <2>1
  <2>4. TouchesNeeded'
    BY <2>1
  <2>5. SnapLocks'
    BY <2>1
  <2>6. mode # "serving" => \A d \in Clients : cpc'[d] = "idle"
    BY <2>1
  <2> HIDE DEF HeldIsNeeded, RunnerHoldsAll, TouchesNeeded, SnapLocks
  <2> QED BY <2>1, <2>2, <2>3, <2>4, <2>5, <2>6
<1>10. ASSUME SnapStart PROVE LockInv'
  BY <1>10 DEF SnapStart
<1>11. ASSUME SnapWindow PROVE LockInv'
  BY <1>11 DEF SnapWindow
<1>12. ASSUME SnapProp PROVE LockInv'
  BY <1>12 DEF SnapProp
<1>13. ASSUME SnapAnchor PROVE LockInv'
  BY <1>13 DEF SnapAnchor, Release
<1>14. ASSUME SnapWalk PROVE LockInv'
  BY <1>14 DEF SnapWalk
<1>15. ASSUME SnapCommit PROVE LockInv'
  BY <1>15 DEF SnapCommit, Discard
<1>16. ASSUME SnapAbort PROVE LockInv'
  BY <1>16 DEF SnapAbort, Discard
<1>17. ASSUME SnapRoll PROVE LockInv'
  BY <1>17 DEF SnapRoll
<1>18. ASSUME SnapPrune PROVE LockInv'
  BY <1>18 DEF SnapPrune
<1>19. ASSUME BackgroundSync PROVE LockInv'
  BY <1>19 DEF BackgroundSync
<1>20. ASSUME Crash PROVE LockInv'
  BY <1>20 DEF Crash, Discard
<1>21. ASSUME Load PROVE LockInv'
  BY <1>21 DEF Load
<1>22. ASSUME Replay PROVE LockInv'
  BY <1>22 DEF Replay
<1>23. ASSUME Serve PROVE LockInv'
  BY <1>23 DEF Serve
<1>24. ASSUME UNCHANGED vars PROVE LockInv'
  BY <1>24 DEF vars
<1> QED BY <1>1, <1>2, <1>3, <1>4, <1>5, <1>6, <1>7, <1>8, <1>9, <1>10, <1>11,
           <1>12, <1>13, <1>14, <1>15, <1>16, <1>17, <1>18, <1>19, <1>20,
           <1>21, <1>22, <1>23, <1>24 DEF Next, Client, Snapshot, Restore

\* A step keeps cross-shard commands behind the guard.
LEMMA GuardStep ==
  ASSUME ~CrossInExec, TypeOK, LockInv, GuardInv, [Next]_vars
  PROVE  GuardInv'
<1> USE DEF TypeOK, LockInv, GuardInv, Active, Walking, ackVars, logVars, lockVars, clientVars, snapVars, diskVars, modeVars
<1>1. ASSUME NEW c \in Clients, NEW e \in Effects, BeginWrite(c, e) PROVE GuardInv'
  BY <1>1 DEF BeginWrite
<1>2. ASSUME NEW c \in Clients, NEW q \in Transactions, BeginExec(c, q) PROVE GuardInv'
  BY <1>2, TransactionIsSeq DEF BeginExec
<1>3. ASSUME NEW c \in Clients, EnterGuard(c) PROVE GuardInv'
  BY <1>3 DEF EnterGuard
<1>4. ASSUME NEW c \in Clients, Lock(c) PROVE GuardInv'
  BY <1>4 DEF Lock, TakeLock, Missing
<1>5. ASSUME NEW c \in Clients, Run(c) PROVE GuardInv'
  BY <1>5 DEF Run
<1>6. ASSUME NEW c \in Clients, RunRefused(c) PROVE GuardInv'
  BY <1>6, TailFacts DEF RunRefused
<1>7. ASSUME NEW c \in Clients, Propagate(c) PROVE GuardInv'
  BY <1>7, TailFacts DEF Propagate
<1>8. ASSUME NEW c \in Clients, PropagateFails(c) PROVE GuardInv'
  BY <1>8, TailFacts DEF PropagateFails
<1>9. ASSUME NEW c \in Clients, Reply(c) PROVE GuardInv'
  BY <1>9 DEF Reply, Release
<1>10. ASSUME SnapStart PROVE GuardInv'
  BY <1>10 DEF SnapStart
<1>11. ASSUME SnapWindow PROVE GuardInv'
  BY <1>11 DEF SnapWindow
<1>12. ASSUME SnapProp PROVE GuardInv'
  BY <1>12 DEF SnapProp
<1>13. ASSUME SnapAnchor PROVE GuardInv'
  BY <1>13 DEF SnapAnchor, Release
<1>14. ASSUME SnapWalk PROVE GuardInv'
  BY <1>14 DEF SnapWalk
<1>15. ASSUME SnapCommit PROVE GuardInv'
  BY <1>15 DEF SnapCommit, Discard
<1>16. ASSUME SnapAbort PROVE GuardInv'
  BY <1>16 DEF SnapAbort, Discard
<1>17. ASSUME SnapRoll PROVE GuardInv'
  BY <1>17 DEF SnapRoll
<1>18. ASSUME SnapPrune PROVE GuardInv'
  BY <1>18 DEF SnapPrune
<1>19. ASSUME BackgroundSync PROVE GuardInv'
  BY <1>19 DEF BackgroundSync
<1>20. ASSUME Crash PROVE GuardInv'
  BY <1>20 DEF Crash, Discard
<1>21. ASSUME Load PROVE GuardInv'
  BY <1>21 DEF Load
<1>22. ASSUME Replay PROVE GuardInv'
  BY <1>22 DEF Replay
<1>23. ASSUME Serve PROVE GuardInv'
  BY <1>23 DEF Serve
<1>24. ASSUME UNCHANGED vars PROVE GuardInv'
  BY <1>24 DEF vars
<1> QED BY <1>1, <1>2, <1>3, <1>4, <1>5, <1>6, <1>7, <1>8, <1>9, <1>10, <1>11,
           <1>12, <1>13, <1>14, <1>15, <1>16, <1>17, <1>18, <1>19, <1>20,
           <1>21, <1>22, <1>23, <1>24 DEF Next, Client, Snapshot, Restore

\* A step keeps the log's error where its remains are, and the keyspace's worth
\* that of the snapshot until the server serves.
LEMMA TailStep ==
  ASSUME TypeOK, LockInv, TailInv, [Next]_vars
  PROVE  TailInv'
<1> USE DEF TailInv, ackVars, logVars, lockVars, clientVars, snapVars, diskVars, modeVars
<1>1. ASSUME NEW c \in Clients, NEW e \in Effects, BeginWrite(c, e) PROVE TailInv'
  BY <1>1 DEF BeginWrite
<1>2. ASSUME NEW c \in Clients, NEW q \in Transactions, BeginExec(c, q) PROVE TailInv'
  BY <1>2 DEF BeginExec
<1>3. ASSUME NEW c \in Clients, EnterGuard(c) PROVE TailInv'
  BY <1>3 DEF EnterGuard
<1>4. ASSUME NEW c \in Clients, Lock(c) PROVE TailInv'
  BY <1>4 DEF Lock, TakeLock
<1>5. ASSUME NEW c \in Clients, Run(c) PROVE TailInv'
  BY <1>5 DEF Run
<1>6. ASSUME NEW c \in Clients, RunRefused(c) PROVE TailInv'
  BY <1>6 DEF RunRefused
<1>7. ASSUME NEW c \in Clients, Propagate(c) PROVE TailInv'
  BY <1>7 DEF Propagate
<1>8. ASSUME NEW c \in Clients, PropagateFails(c) PROVE TailInv'
  BY <1>8 DEF PropagateFails, LockInv
<1>9. ASSUME NEW c \in Clients, Reply(c) PROVE TailInv'
  BY <1>9 DEF Reply
<1>10. ASSUME SnapStart PROVE TailInv'
  BY <1>10 DEF SnapStart
<1>11. ASSUME SnapWindow PROVE TailInv'
  BY <1>11 DEF SnapWindow
<1>12. ASSUME SnapProp PROVE TailInv'
  BY <1>12 DEF SnapProp
<1>13. ASSUME SnapAnchor PROVE TailInv'
  BY <1>13 DEF SnapAnchor
<1>14. ASSUME SnapWalk PROVE TailInv'
  BY <1>14 DEF SnapWalk
<1>15. ASSUME SnapCommit PROVE TailInv'
  BY <1>15 DEF SnapCommit, LockInv
<1>16. ASSUME SnapAbort PROVE TailInv'
  BY <1>16 DEF SnapAbort
<1>17. ASSUME SnapRoll PROVE TailInv'
  BY <1>17 DEF SnapRoll, LogFails, LockInv
<1>18. ASSUME SnapPrune PROVE TailInv'
  BY <1>18 DEF SnapPrune
<1>19. ASSUME BackgroundSync PROVE TailInv'
  BY <1>19 DEF BackgroundSync, LogFails
<1>20. ASSUME Crash PROVE TailInv'
  BY <1>20 DEF Crash
<1>21. ASSUME Load PROVE TailInv'
  BY <1>21 DEF Load
<1>22. ASSUME Replay PROVE TailInv'
  BY <1>22 DEF Replay
<1>23. ASSUME Serve PROVE TailInv'
  BY <1>23 DEF Serve
<1>24. ASSUME UNCHANGED vars PROVE TailInv'
  BY <1>24 DEF vars
<1> QED BY <1>1, <1>2, <1>3, <1>4, <1>5, <1>6, <1>7, <1>8, <1>9, <1>10, <1>11,
           <1>12, <1>13, <1>14, <1>15, <1>16, <1>17, <1>18, <1>19, <1>20,
           <1>21, <1>22, <1>23, <1>24 DEF Next, Client, Snapshot, Restore

\* What a running client will do next touches only shards it has locked.
LEMMA HeadTouches ==
  ASSUME TypeOK, LockInv, NEW c \in Clients, queue[c] # << >>
  PROVE  /\ Head(queue[c]) \in Effects
         /\ Head(queue[c]).writes \subseteq need[c]
         /\ Head(queue[c]).reads \subseteq need[c]
         /\ need[c] \subseteq Shards
<1>1. queue[c] \in Seq(Effects) /\ need[c] \subseteq Shards
  BY DEF TypeOK
<1>2. Head(queue[c]) \in Effects
  BY <1>1, TailFacts
<1>3. Head(queue[c]) = queue[c][1] /\ 1 \in 1 .. Len(queue[c])
  BY <1>1
<1>4. queue[c][1].writes \subseteq need[c] /\ queue[c][1].reads \subseteq need[c]
  BY <1>3 DEF LockInv, TouchesNeeded
<1> QED BY <1>1, <1>2, <1>3, <1>4

\* A record more, in the log or past it, is one more at the end of the file.
LEMMA GrowFile ==
  ASSUME TypeOK, NEW e \in Effects,
         \/ log' = Append(log, e) /\ tail' = tail /\ tail = << >>
         \/ tail' = Append(tail, e) /\ log' = log
  PROVE  /\ Len(File') = Len(File) + 1 /\ File'[Len(File) + 1] = e
         /\ \A i \in 1 .. Len(File) : File'[i] = File[i]
<1>1. log \in Seq(Effects) /\ tail \in Seq(Effects)
  BY DEF TypeOK
<1>2. CASE log' = Append(log, e) /\ tail' = tail /\ tail = << >>
  BY <1>1, <1>2 DEF File
<1>3. CASE tail' = Append(tail, e) /\ log' = log
  BY <1>1, <1>3 DEF File
<1> QED BY <1>2, <1>3

\* The history of a file one record longer is one dataset longer.
LEMMA GrowPast ==
  ASSUME TypeOK, PastInv, NEW e \in Effects, Extends(e),
         Len(File') = Len(File) + 1, File'[Len(File) + 1] = e,
         \A i \in 1 .. Len(File) : File'[i] = File[i]
  PROVE  PastInv'
<1>1. Len(File) \in Nat
  BY FileFacts
<1>2. /\ \A n \in 0 .. Len(File) : past'[n] = past[n]
      /\ past'[Len(File) + 1] = ApplyTo(e, past[Len(File)], Shards)
  BY <1>1 DEF Extends
<1>3. \A n \in 0 .. Len(File) - 1 : past'[n + 1] = ApplyTo(File'[n + 1], past'[n], Shards)
  BY <1>1, <1>2 DEF PastInv
<1>4. \A n \in 0 .. Len(File') - 1 : n \in 0 .. Len(File) - 1 \/ n = Len(File)
  BY <1>1
<1> QED BY <1>1, <1>2, <1>3, <1>4 DEF PastInv

\* A step keeps the history that of the file.
LEMMA PastStep ==
  ASSUME TypeOK, LockInv, TailInv, PastInv, [Next]_vars
  PROVE  PastInv'
<1> USE DEF PastInv, File, ackVars, logVars, lockVars, clientVars, snapVars, diskVars, modeVars
<1>1. ASSUME NEW c \in Clients, NEW e \in Effects, BeginWrite(c, e) PROVE PastInv'
  BY <1>1 DEF BeginWrite
<1>2. ASSUME NEW c \in Clients, NEW q \in Transactions, BeginExec(c, q) PROVE PastInv'
  BY <1>2 DEF BeginExec
<1>3. ASSUME NEW c \in Clients, EnterGuard(c) PROVE PastInv'
  BY <1>3 DEF EnterGuard
<1>4. ASSUME NEW c \in Clients, Lock(c) PROVE PastInv'
  BY <1>4 DEF Lock, TakeLock, Missing
<1>5. ASSUME NEW c \in Clients, Run(c) PROVE PastInv'
  BY <1>5 DEF Run
<1>6. ASSUME NEW c \in Clients, RunRefused(c) PROVE PastInv'
  BY <1>6 DEF RunRefused
<1>7. ASSUME NEW c \in Clients, Propagate(c) PROVE PastInv'
  <2> HIDE DEF PastInv, File
  <2>1. PICK e \in Effects : e = Head(queue[c])
    BY <1>7, HeadTouches DEF Propagate, LockInv
  <2>2. log' = Append(log, e) /\ tail' = tail /\ tail = << >> /\ Extends(e)
    BY <1>7, <2>1 DEF Propagate, TailInv
  <2> QED BY ONLY <2>2, TypeOK, PastInv, GrowFile, GrowPast
<1>8. ASSUME NEW c \in Clients, PropagateFails(c) PROVE PastInv'
  <2>1. CASE UNCHANGED <<log, tail, past>>
    BY <2>1
  <2>2. CASE ~UNCHANGED <<log, tail, past>>
    <3> HIDE DEF PastInv, File
    <3>1. PICK e \in Effects : e = Head(queue[c])
      BY <1>8, HeadTouches DEF PropagateFails, LockInv
    <3>2. /\ Extends(e)
          /\ \/ log' = Append(log, e) /\ tail' = tail /\ tail = << >>
             \/ tail' = Append(tail, e) /\ log' = log
      BY <1>8, <2>2, <3>1, Zenon DEF PropagateFails
    <3> QED BY ONLY <3>2, TypeOK, PastInv, GrowFile, GrowPast
  <2> QED BY <2>1, <2>2
<1>9. ASSUME NEW c \in Clients, Reply(c) PROVE PastInv'
  BY <1>9 DEF Reply, Release
<1>10. ASSUME SnapStart PROVE PastInv'
  BY <1>10 DEF SnapStart
<1>11. ASSUME SnapWindow PROVE PastInv'
  BY <1>11 DEF SnapWindow
<1>12. ASSUME SnapProp PROVE PastInv'
  BY <1>12 DEF SnapProp
<1>13. ASSUME SnapAnchor PROVE PastInv'
  BY <1>13 DEF SnapAnchor, Release
<1>14. ASSUME SnapWalk PROVE PastInv'
  BY <1>14 DEF SnapWalk
<1>15. ASSUME SnapCommit PROVE PastInv'
  BY <1>15 DEF SnapCommit, Discard
<1>16. ASSUME SnapAbort PROVE PastInv'
  BY <1>16 DEF SnapAbort, Discard
<1>17. ASSUME SnapRoll PROVE PastInv'
  BY <1>17 DEF SnapRoll
<1>18. ASSUME SnapPrune PROVE PastInv'
  BY <1>18 DEF SnapPrune
<1>19. ASSUME BackgroundSync PROVE PastInv'
  BY <1>19 DEF BackgroundSync
<1>20. ASSUME Crash PROVE PastInv'
  <2> HIDE DEF File
  <2>1. PICK n \in 0 .. Len(File) :
          /\ tail' = << >> /\ past' = [m \in 0 .. n |-> past[m]]
          /\ log' \in Seq(Effects) /\ Offset' = n
          /\ \A i \in 1 .. n : log'[i] = File[i]
    BY <1>20, CrashCuts
  <2>2. Len(log') = n /\ Len(File) \in Nat
    BY <2>1, FileFacts DEF Offset
  <2>3. File' = log'
    BY <2>1 DEF File
  <2>4. past'[0] = Fresh /\ \A m \in 0 .. n - 1 : past'[m + 1] = past[m + 1] /\ past'[m] = past[m]
    BY <2>1, <2>2
  <2>5. \A m \in 0 .. n - 1 : past'[m + 1] = ApplyTo(log'[m + 1], past'[m], Shards)
    BY <2>1, <2>2, <2>4
  <2> QED BY <2>2, <2>3, <2>4, <2>5
<1>21. ASSUME Load PROVE PastInv'
  BY <1>21 DEF Load
<1>22. ASSUME Replay PROVE PastInv'
  BY <1>22 DEF Replay
<1>23. ASSUME Serve PROVE PastInv'
  BY <1>23 DEF Serve
<1>24. ASSUME UNCHANGED vars PROVE PastInv'
  BY <1>24 DEF vars
<1> QED BY <1>1, <1>2, <1>3, <1>4, <1>5, <1>6, <1>7, <1>8, <1>9, <1>10, <1>11,
           <1>12, <1>13, <1>14, <1>15, <1>16, <1>17, <1>18, <1>19, <1>20,
           <1>21, <1>22, <1>23, <1>24 DEF Next, Client, Snapshot, Restore

-----------------------------------------------------------------------------
\* Two running clients have no shard in common.
LEMMA RunnersApart ==
  ASSUME TypeOK, LockInv, NEW c \in Clients, NEW d \in Clients, c # d,
         cpc[c] \in {"run", "log"}, cpc[d] \in {"run", "log"}
  PROVE  need[c] \cap need[d] = {}
BY DEF TypeOK, LockInv, RunnerHoldsAll

\* An effect makes the same of a shard whatever else has changed, as long as
\* what it reads is the same.
LEMMA SameView ==
  ASSUME NEW e, NEW s, NEW f, NEW g, \A r \in e.reads \cup {s} : f[r] = g[r]
  PROVE  After(e, s, f) = After(e, s, g)
<1>1. [r \in e.reads \cup {s} |-> f[r]] = [r \in e.reads \cup {s} |-> g[r]]
  OBVIOUS
<1> QED BY <1>1, Zenon DEF After

\* LiveInv says nothing of the variables of the snapshot, nor of clients that
\* are not about to log.
LEMMA LiveFrame ==
  ASSUME LiveInv, UNCHANGED <<live, log, past, mode>>, ~broken' => ~broken,
         \A d \in Clients : cpc'[d] = "log" <=> cpc[d] = "log",
         \A d \in Clients : cpc[d] = "log" => queue'[d] = queue[d]
  PROVE  LiveInv'
<1>1. Logged' = Logged
  BY DEF Logged, Offset
<1>2. \A s \in Shards : InFlight(s)' <=> InFlight(s)
  BY DEF InFlight
<1> QED BY <1>1, <1>2 DEF LiveInv

\* Replay that has reached the end of the log, and of the snapshot's window,
\* has rebuilt the log's dataset.
LEMMA ReplayDone ==
  ASSUME TypeOK, DiskInv, ReplayInv, mode = "replay", ~broken, rpos >= Offset,
         saved => diskAnchor[LastShard] <= Offset
  PROVE  \A s \in Shards : live[s] = Logged[s]
<1>1. rpos = Offset
  BY ShardFacts DEF TypeOK, DiskInv, ReplayInv, ReplayPos, Offset
<1>2. \A s \in Shards : saved => diskAnchor[s] <= rpos
  BY <1>1, ShardFacts DEF TypeOK, DiskInv, Offset
<1> QED BY <1>1, <1>2 DEF ReplayInv, ReplayShards, Logged, TypeOK, Offset

\* A step keeps the keyspace that of the log and the effects in flight.
LEMMA LiveStep ==
  ASSUME TypeOK, LockInv, TailInv, DiskInv, ReplayInv, LiveInv, [Next]_vars
  PROVE  LiveInv'
<1> USE DEF TypeOK, ackVars, logVars, lockVars, clientVars, snapVars, diskVars, modeVars
<1>1. ASSUME NEW c \in Clients, NEW e \in Effects, BeginWrite(c, e) PROVE LiveInv'
  BY <1>1, LiveFrame DEF BeginWrite
<1>2. ASSUME NEW c \in Clients, NEW q \in Transactions, BeginExec(c, q) PROVE LiveInv'
  BY <1>2, LiveFrame DEF BeginExec
<1>3. ASSUME NEW c \in Clients, EnterGuard(c) PROVE LiveInv'
  BY <1>3, LiveFrame DEF EnterGuard
<1>4. ASSUME NEW c \in Clients, Lock(c) PROVE LiveInv'
  BY <1>4, LiveFrame DEF Lock, TakeLock, Missing
<1>5. ASSUME NEW c \in Clients, Run(c) PROVE LiveInv'
  <2> USE DEF LiveInv, InFlight, Logged, Offset
  <2>0. SUFFICES ASSUME mode = "serving", ~broken PROVE LiveInv'
    BY <1>5 DEF Run
  <2> DEFINE e == Head(queue[c])
  <2>1. /\ e \in Effects /\ e.writes \subseteq need[c] /\ e.reads \subseteq need[c]
        /\ need[c] \subseteq Shards /\ cpc[c] = "run"
    BY <1>5, HeadTouches DEF Run
  <2>2. \A s \in need[c] : ~InFlight(s)
    <3> SUFFICES ASSUME NEW s \in need[c], NEW d \in Clients, cpc[d] = "log",
                        s \in Head(queue[d]).writes
                 PROVE  FALSE
      OBVIOUS
    <3>1. s \in need[d]
      BY HeadTouches DEF LockInv
    <3> QED BY <2>1, <3>1, RunnersApart
  <2>3. \A s \in need[c] : live[s] = Logged[s]
    BY <2>0, <2>1, <2>2
  <2>4. ASSUME NEW s \in e.writes
        PROVE  live'[s] = After(e, s, Logged)
    <3>0. \A r \in e.reads \cup {s} : live[r] = Logged[r]
      BY <2>1, <2>3, <2>4
    <3>1. After(e, s, live) = After(e, s, Logged)
      <4> HIDE DEF e, Logged, TypeOK
      <4> QED BY ONLY <3>0, SameView
    <3>2. live'[s] = After(e, s, live)
      BY <1>5, <2>1, <2>4 DEF Run, ApplyTo
    <3> QED BY <3>1, <3>2
  <2>5. \A s \in Shards : s \notin e.writes => live'[s] = live[s]
    BY <1>5 DEF Run, ApplyTo
  <2>6. cpc' = [cpc EXCEPT ![c] = "log"] /\ UNCHANGED <<logVars, queue, mode, broken>>
    BY <1>5 DEF Run
  <2>7. ASSUME NEW s \in Shards, ~InFlight(s)' PROVE live'[s] = Logged'[s]
    <3>1. s \notin e.writes /\ ~InFlight(s)
      BY <2>6, <2>7, <2>1
    <3> QED BY <2>0, <2>5, <2>6, <3>1
  <2>8. ASSUME NEW d \in Clients, cpc'[d] = "log", NEW s \in Head(queue[d]).writes
        PROVE  live'[s] = After(Head(queue[d]), s, Logged)
    <3>1. CASE d = c
      BY <3>1, <2>4, <2>8
    <3>2. CASE d # c
      <4>1. cpc[d] = "log"
        BY <2>6, <2>8, <3>2
      <4>2. s \in need[d] /\ s \in Shards
        BY <4>1, <2>8, HeadTouches DEF LockInv
      <4>3. s \notin e.writes
        BY <4>1, <4>2, <2>1, <3>2, RunnersApart
      <4> QED BY <2>0, <4>1, <4>2, <4>3, <2>5, <2>8
    <3> QED BY <3>1, <3>2
  <2>9. Logged' = Logged /\ queue' = queue
    BY <2>6
  <2> QED BY <2>7, <2>8, <2>9, <2>6 DEF LiveInv
<1>6. ASSUME NEW c \in Clients, RunRefused(c) PROVE LiveInv'
  BY <1>6, LiveFrame DEF RunRefused
<1>7. ASSUME NEW c \in Clients, Propagate(c) PROVE LiveInv'
  <2> USE DEF LiveInv, InFlight, Logged, Offset
  <2>0. SUFFICES ASSUME mode = "serving", ~broken PROVE LiveInv'
    BY <1>7 DEF Propagate
  <2> DEFINE e == Head(queue[c])
  <2>1. /\ e \in Effects /\ e.writes \subseteq need[c] /\ e.reads \subseteq need[c]
        /\ need[c] \subseteq Shards /\ cpc[c] = "log"
    BY <1>7, HeadTouches DEF Propagate, LockInv
  <2>2. Logged' = ApplyTo(e, Logged, Shards)
    <3> HIDE DEF Offset, TypeOK
    <3>1. log' = Append(log, e) /\ Extends(e) /\ tail = << >>
      BY <1>7 DEF Propagate, TailInv
    <3>2. Len(File) = Offset /\ Offset \in Nat
      BY <3>1, FileFacts
    <3>3. Offset' = Offset + 1
      BY <2>1, <3>1, AppendFacts DEF Offset, TypeOK
    <3>4. past'[Offset + 1] = ApplyTo(e, past[Offset], Shards)
      BY <3>1, <3>2 DEF Extends
    <3> QED BY <3>3, <3>4
  <2>3. \A s \in Shards : s \notin e.writes => Logged'[s] = Logged[s]
    BY <2>2 DEF ApplyTo
  <2>4. \A s \in e.writes : Logged'[s] = live[s]
    <3> SUFFICES ASSUME NEW s \in e.writes PROVE Logged'[s] = live[s]
      OBVIOUS
    <3>1. Logged'[s] = After(e, s, Logged)
      BY <2>1, <2>2 DEF ApplyTo
    <3> QED BY <2>0, <2>1, <3>1
  <2>5. /\ cpc' = [cpc EXCEPT ![c] = "run"] /\ queue' = [queue EXCEPT ![c] = Tail(@)]
        /\ UNCHANGED <<live, mode, broken>>
    BY <1>7 DEF Propagate
  <2>6. \A d \in Clients : cpc'[d] = "log" => d # c /\ cpc[d] = "log" /\ queue'[d] = queue[d]
    BY <2>5
  <2>7. ASSUME NEW s \in Shards, ~InFlight(s)' PROVE live[s] = Logged'[s]
    <3>1. CASE s \in e.writes
      BY <3>1, <2>4
    <3>2. CASE s \notin e.writes
      <4>1. ~InFlight(s)
        <5> SUFFICES ASSUME NEW d \in Clients, cpc[d] = "log",
                            s \in Head(queue[d]).writes
                     PROVE  FALSE
          OBVIOUS
        <5> QED BY <2>5, <2>7, <3>2
      <4> QED BY <2>0, <2>3, <3>2, <4>1
    <3> QED BY <3>1, <3>2
  <2>8. ASSUME NEW d \in Clients, cpc'[d] = "log", NEW s \in Head(queue[d]).writes
        PROVE  live[s] = After(Head(queue[d]), s, Logged')
    <3> DEFINE f == Head(queue[d])
    <3>1. d # c /\ cpc[d] = "log"
      BY <2>6, <2>8
    <3>2. f.writes \subseteq need[d] /\ f.reads \subseteq need[d] /\ need[d] \subseteq Shards
      BY <3>1, HeadTouches DEF LockInv
    <3>3. need[c] \cap need[d] = {}
      BY <3>1, <2>1, RunnersApart
    <3>4. \A r \in f.reads \cup {s} : Logged'[r] = Logged[r]
      BY <3>2, <3>3, <2>1, <2>3, <2>8
    <3>5. After(f, s, Logged') = After(f, s, Logged)
      <4> HIDE DEF f, Logged
      <4> DEFINE before == Logged
                 now == Logged'
      <4>1. \A r \in f.reads \cup {s} : now[r] = before[r]
        BY <3>4
      <4> HIDE DEF before, now
      <4>2. After(f, s, now) = After(f, s, before)
        BY <4>1, SameView
      <4> QED BY <4>2 DEF before, now
    <3>6. live[s] = After(f, s, Logged)
      BY <2>0, <2>8, <3>1
    <3> QED BY <3>5, <3>6
  <2> QED BY <2>5, <2>6, <2>7, <2>8 DEF LiveInv
<1>8. ASSUME NEW c \in Clients, PropagateFails(c) PROVE LiveInv'
  <2>1. broken' = TRUE
    BY <1>8 DEF PropagateFails
  <2> QED BY <2>1 DEF LiveInv
<1>9. ASSUME NEW c \in Clients, Reply(c) PROVE LiveInv'
  BY <1>9, LiveFrame DEF Reply, Release
<1>10. ASSUME SnapStart PROVE LiveInv'
  BY <1>10, LiveFrame DEF SnapStart
<1>11. ASSUME SnapWindow PROVE LiveInv'
  BY <1>11, LiveFrame DEF SnapWindow
<1>12. ASSUME SnapProp PROVE LiveInv'
  BY <1>12, LiveFrame DEF SnapProp
<1>13. ASSUME SnapAnchor PROVE LiveInv'
  BY <1>13, LiveFrame DEF SnapAnchor, Release
<1>14. ASSUME SnapWalk PROVE LiveInv'
  BY <1>14, LiveFrame DEF SnapWalk
<1>15. ASSUME SnapCommit PROVE LiveInv'
  BY <1>15, LiveFrame DEF SnapCommit, Discard
<1>16. ASSUME SnapAbort PROVE LiveInv'
  BY <1>16, LiveFrame DEF SnapAbort, Discard
<1>17. ASSUME SnapRoll PROVE LiveInv'
  BY <1>17, LiveFrame DEF SnapRoll
<1>18. ASSUME SnapPrune PROVE LiveInv'
  BY <1>18, LiveFrame DEF SnapPrune
<1>19. ASSUME BackgroundSync PROVE LiveInv'
  BY <1>19, LiveFrame DEF BackgroundSync
<1>20. ASSUME Crash PROVE LiveInv'
  <2>1. mode' # "serving"
    BY <1>20 DEF Crash
  <2> QED BY <2>1 DEF LiveInv
<1>21. ASSUME Load PROVE LiveInv'
  <2>1. mode' # "serving"
    BY <1>21 DEF Load
  <2> QED BY <2>1 DEF LiveInv
<1>22. ASSUME Replay PROVE LiveInv'
  <2>1. mode' # "serving"
    BY <1>22 DEF Replay
  <2> QED BY <2>1 DEF LiveInv
<1>23. ASSUME Serve PROVE LiveInv'
  <2>1. SUFFICES ASSUME mode' = "serving", ~broken PROVE LiveInv'
    BY <1>23 DEF Serve, LiveInv
  <2>2. \A s \in Shards : live[s] = Logged[s]
    <3>1. mode = "replay" /\ rpos >= Offset
      BY <1>23 DEF Serve
    <3>2. saved => diskAnchor[LastShard] <= Offset
      BY <1>23, <2>1, ShardFacts DEF Serve, Offset
    <3> QED BY <2>1, <3>1, <3>2, ReplayDone
  <2>3. \A d \in Clients : cpc[d] = "idle"
    BY <1>23 DEF Serve, LockInv
  <2>4. Logged' = Logged /\ UNCHANGED <<live, cpc>>
    BY <1>23 DEF Serve, Logged, Offset
  <2> QED BY <2>2, <2>3, <2>4 DEF LiveInv
<1>24. ASSUME UNCHANGED vars PROVE LiveInv'
  BY <1>24, LiveFrame DEF vars
<1> QED BY <1>1, <1>2, <1>3, <1>4, <1>5, <1>6, <1>7, <1>8, <1>9, <1>10, <1>11,
           <1>12, <1>13, <1>14, <1>15, <1>16, <1>17, <1>18, <1>19, <1>20,
           <1>21, <1>22, <1>23, <1>24 DEF Next, Client, Snapshot, Restore

-----------------------------------------------------------------------------
\* Logging one more record leaves what the log and its history said before.
LEMMA PropagateExtends ==
  ASSUME TypeOK, LockInv, NEW c \in Clients, Propagate(c) \/ PropagateFails(c)
  PROVE  /\ Offset \in Nat /\ DOMAIN log = 1 .. Offset
         /\ Offset' \in {Offset, Offset + 1} /\ DOMAIN log' = 1 .. Offset'
         /\ Propagate(c) => Offset' = Offset + 1
         /\ \A n \in 0 .. Offset : past'[n] = past[n]
         /\ \A i \in 1 .. Offset : log'[i] = log[i]
         /\ Offset' = Offset + 1 => log'[Offset + 1] = Head(queue[c])
<1>1. PICK e \in Effects : e = Head(queue[c])
  BY HeadTouches DEF Propagate, PropagateFails, LockInv
<1>2. /\ \/ log' = Append(log, e) /\ Extends(e)
         \/ log' = log /\ (past' = past \/ Extends(e))
      /\ Propagate(c) => log' = Append(log, e)
  BY <1>1, Zenon DEF Propagate, PropagateFails
<1>3. /\ log \in Seq(Effects) /\ Offset \in Nat /\ DOMAIN log = 1 .. Offset
      /\ Len(File) \in Nat /\ Offset <= Len(File)
  BY FileFacts DEF TypeOK
<1>4. Extends(e) => \A n \in 0 .. Offset : past'[n] = past[n]
  BY <1>3 DEF Extends
<1>5. /\ Append(log, e) \in Seq(Effects) /\ Len(Append(log, e)) = Offset + 1
      /\ Append(log, e)[Offset + 1] = e
      /\ \A i \in 1 .. Offset : Append(log, e)[i] = log[i]
  BY <1>3, AppendFacts DEF Offset
<1>6. CASE log' = Append(log, e) /\ Extends(e)
  BY <1>1, <1>3, <1>4, <1>5, <1>6 DEF Offset
<1>7. CASE log' = log /\ (past' = past \/ Extends(e))
  <2>1. Offset' = Offset
    BY <1>7 DEF Offset
  <2>2. Append(log, e) # log
    <3>1. PICK r : r = Append(log, e)
      OBVIOUS
    <3>2. Len(r) = Len(log) + 1 /\ Len(log) \in Nat
      BY ONLY <1>3, <1>5, <3>1, Zenon DEF Offset
    <3>3. Len(r) # Len(log)
      BY ONLY <3>2
    <3> QED BY ONLY <3>1, <3>3, Zenon
  <2> QED BY <1>2, <1>3, <1>4, <1>7, <2>1, <2>2
<1> QED BY <1>2, <1>6, <1>7

\* The shard whose ordering lock the snapshotter holds is in nobody's flight.
LEMMA NoFlightAtAnchor ==
  ASSUME TypeOK, LockInv, spc = "anchor"
  PROVE  ~InFlight(shard)
<1> SUFFICES ASSUME NEW d \in Clients, cpc[d] = "log", shard \in Head(queue[d]).writes
             PROVE  FALSE
  BY DEF InFlight
<1>1. shard \in need[d]
  BY HeadTouches DEF LockInv
<1> QED BY <1>1 DEF TypeOK, LockInv, RunnerHoldsAll, SnapLocks

\* WalkInv says nothing of the clients, the locks or the committed snapshot.
LEMMA WalkFrame ==
  ASSUME WalkInv, UNCHANGED <<log, past, live, spc, shard, anchor, image>>,
         ~broken' => ~broken
  PROVE  WalkInv'
<1>1. Offset' = Offset
  BY DEF Offset
<1>2. \A s \in Shards : (AnchorSet(s)' <=> AnchorSet(s)) /\ (Done(s)' <=> Done(s))
  BY DEF AnchorSet, Done
<1> QED BY <1>1, <1>2 DEF WalkInv

\* A record more lies past every anchor.
LEMMA WalkGrows ==
  ASSUME TypeOK, LockInv, WalkInv, NEW c \in Clients, Propagate(c) \/ PropagateFails(c)
  PROVE  WalkInv'
<1>1. UNCHANGED <<live, spc, shard, anchor, image>> /\ (~broken' => ~broken)
  BY DEF Propagate, PropagateFails, snapVars, modeVars
<1>2. /\ Offset \in Nat /\ Offset' \in {Offset, Offset + 1}
      /\ \A n \in 0 .. Offset : past'[n] = past[n]
  BY PropagateExtends
<1>3. anchor \in [Shards -> Nat] /\ shard \in Shards
  BY DEF TypeOK
<1>4. \A s \in Shards : (AnchorSet(s)' <=> AnchorSet(s)) /\ (Done(s)' <=> Done(s))
  BY <1>1 DEF AnchorSet, Done
<1>5. \A s \in Shards : AnchorSet(s) =>
        anchor[s] <= Offset' /\ past'[anchor[s]] = past[anchor[s]]
  BY <1>2, <1>3 DEF WalkInv
<1>6. \A s \in Shards : Done(s) => AnchorSet(s)
  BY DEF AnchorSet
<1>7. spc = "walk" => AnchorSet(shard)
  BY DEF AnchorSet
<1> QED BY <1>1, <1>3, <1>4, <1>5, <1>6, <1>7 DEF WalkInv

\* Nor does it say anything when no shard has been reached.
LEMMA WalkIdle ==
  ASSUME \/ spc' \notin Walking \cup {"commit"}
         \/ spc' \in {"prop", "anchor"} /\ shard' = 0
  PROVE  WalkInv'
<1>1. \A s \in Shards : ~Done(s)' /\ ~AnchorSet(s)'
  BY ShardFacts DEF Done, AnchorSet, Walking
<1>2. spc' # "walk"
  BY DEF Walking
<1> QED BY <1>1, <1>2 DEF WalkInv

\* A step keeps the anchors of the snapshot in progress exact.
LEMMA WalkStep ==
  ASSUME TypeOK, LockInv, LiveInv, WalkInv, [Next]_vars
  PROVE  WalkInv'
<1> USE DEF TypeOK, ackVars, logVars, lockVars, clientVars, snapVars, diskVars, modeVars
<1>1. ASSUME NEW c \in Clients, NEW e \in Effects, BeginWrite(c, e) PROVE WalkInv'
  BY <1>1, WalkFrame DEF BeginWrite
<1>2. ASSUME NEW c \in Clients, NEW q \in Transactions, BeginExec(c, q) PROVE WalkInv'
  BY <1>2, WalkFrame DEF BeginExec
<1>3. ASSUME NEW c \in Clients, EnterGuard(c) PROVE WalkInv'
  BY <1>3, WalkFrame DEF EnterGuard
<1>4. ASSUME NEW c \in Clients, Lock(c) PROVE WalkInv'
  BY <1>4, WalkFrame DEF Lock, TakeLock, Missing
<1>5. ASSUME NEW c \in Clients, Run(c) PROVE WalkInv'
  <2>1. spc = "walk" => live'[shard] = live[shard]
    BY <1>5 DEF Run, LockInv, SnapLocks, ApplyTo
  <2>2. UNCHANGED <<log, past, spc, shard, anchor, image, broken>>
    BY <1>5 DEF Run
  <2> QED BY <2>1, <2>2 DEF Offset, WalkInv, Done, AnchorSet
<1>6. ASSUME NEW c \in Clients, RunRefused(c) PROVE WalkInv'
  BY <1>6, WalkFrame DEF RunRefused
<1>7. ASSUME NEW c \in Clients, Propagate(c) PROVE WalkInv'
  BY <1>7, WalkGrows
<1>8. ASSUME NEW c \in Clients, PropagateFails(c) PROVE WalkInv'
  BY <1>8, WalkGrows
<1>9. ASSUME NEW c \in Clients, Reply(c) PROVE WalkInv'
  BY <1>9, WalkFrame DEF Reply, Release
<1>10. ASSUME SnapStart PROVE WalkInv'
  BY <1>10, WalkIdle DEF SnapStart, Walking
<1>11. ASSUME SnapWindow PROVE WalkInv'
  BY <1>11, WalkIdle DEF SnapWindow, LockInv, SnapLocks
<1>12. ASSUME SnapProp PROVE WalkInv'
  <2>1. \A s \in Shards : (AnchorSet(s)' <=> AnchorSet(s)) /\ (Done(s)' <=> Done(s))
    BY <1>12 DEF SnapProp, AnchorSet, Done, Walking
  <2>2. Offset' = Offset
    BY <1>12 DEF SnapProp, Offset
  <2> QED BY <1>12, <2>1, <2>2 DEF SnapProp, WalkInv
<1>13. ASSUME SnapAnchor PROVE WalkInv'
  <2>1. /\ anchor' = [anchor EXCEPT ![shard] = Offset] /\ Offset \in Nat
        /\ spc = "anchor" /\ spc' = "walk" /\ mode = "serving"
        /\ UNCHANGED <<log, past, live, shard, image, broken>>
    BY <1>13 DEF SnapAnchor, Offset, LockInv
  <2>2. ~broken => live[shard] = past[Offset][shard]
    BY <2>1, NoFlightAtAnchor DEF LiveInv, Logged
  <2>3. Offset' = Offset
    BY <2>1 DEF Offset
  <2>4. /\ \A s \in Shards : AnchorSet(s)' => (Done(s) \/ s = shard)
        /\ \A s \in Shards : Done(s)' => Done(s) /\ s # shard
        /\ \A s \in Shards : Done(s) => s < shard
    BY <2>1, ShardFacts DEF AnchorSet, Done, Walking
  <2>5. \A s \in Shards : anchor'[s] = IF s = shard THEN Offset ELSE anchor[s]
    BY <2>1
  <2>6. \A s \in Shards : Done(s) => anchor[s] <= Offset
    BY DEF WalkInv, AnchorSet
  <2>7. \A s \in Shards : AnchorSet(s)' => anchor'[s] <= Offset'
    BY <2>1, <2>3, <2>4, <2>5, <2>6
  <2>8. \A s, t \in Shards : AnchorSet(s)' /\ AnchorSet(t)' /\ s <= t =>
          anchor'[s] <= anchor'[t]
    <3> SUFFICES ASSUME NEW s \in Shards, NEW t \in Shards, AnchorSet(s)',
                        AnchorSet(t)', s <= t
                 PROVE  anchor'[s] <= anchor'[t]
      OBVIOUS
    <3>1. CASE t = shard
      BY <3>1, <2>1, <2>4, <2>5, <2>6
    <3>2. CASE t # shard
      <4>1. Done(t) /\ t < shard
        BY <3>2, <2>4
      <4>2. Done(s) /\ s # shard
        BY <4>1, <2>4, ShardFacts
      <4> QED BY <4>1, <4>2, <3>2, <2>5 DEF WalkInv, AnchorSet
    <3> QED BY <3>1, <3>2
  <2>9. ~broken' => \A s \in Shards : Done(s)' => image'[s] = past'[anchor'[s]][s]
    BY <2>1, <2>4, <2>5 DEF WalkInv
  <2>10. ~broken' => live'[shard'] = past'[anchor'[shard']][shard']
    BY <2>1, <2>2, <2>5
  <2> QED BY <2>7, <2>8, <2>9, <2>10 DEF WalkInv
<1>14. ASSUME SnapWalk PROVE WalkInv'
  <2>1. /\ image' = [image EXCEPT ![shard] = live[shard]] /\ spc = "walk"
        /\ UNCHANGED <<log, past, live, anchor, broken>> /\ Offset' = Offset
        /\ spc' \in {"commit", "prop"}
    BY <1>14 DEF SnapWalk, Offset
  <2>2. \A s \in Shards : AnchorSet(s)' => AnchorSet(s)
    BY SMTT(30), <1>14, ShardFacts DEF SnapWalk, Shards, LastShard, AnchorSet, Done, Walking
  <2>3. \A s \in Shards : Done(s)' => Done(s) \/ s = shard
    BY <1>14, ShardFacts DEF SnapWalk, Shards, LastShard, Done, Walking
  <2> QED BY <2>1, <2>2, <2>3 DEF Offset, WalkInv
<1>15. ASSUME SnapCommit PROVE WalkInv'
  BY <1>15, WalkIdle DEF SnapCommit, Discard, Walking
<1>16. ASSUME SnapAbort PROVE WalkInv'
  BY <1>16, WalkIdle DEF SnapAbort, Discard, Walking
<1>17. ASSUME SnapRoll PROVE WalkInv'
  BY <1>17, WalkIdle DEF SnapRoll, Walking
<1>18. ASSUME SnapPrune PROVE WalkInv'
  BY <1>18, WalkIdle DEF SnapPrune, Walking
<1>19. ASSUME BackgroundSync PROVE WalkInv'
  BY <1>19, WalkFrame DEF BackgroundSync
<1>20. ASSUME Crash PROVE WalkInv'
  BY <1>20, WalkIdle DEF Crash, Discard, Walking
<1>21. ASSUME Load PROVE WalkInv'
  BY <1>21, WalkIdle DEF Load, Walking, LockInv
<1>22. ASSUME Replay PROVE WalkInv'
  BY <1>22, WalkIdle DEF Replay, Walking, LockInv
<1>23. ASSUME Serve PROVE WalkInv'
  BY <1>23, WalkIdle DEF Serve, Walking, LockInv
<1>24. ASSUME UNCHANGED vars PROVE WalkInv'
  BY <1>24, WalkFrame DEF vars
<1> QED BY <1>1, <1>2, <1>3, <1>4, <1>5, <1>6, <1>7, <1>8, <1>9, <1>10, <1>11,
           <1>12, <1>13, <1>14, <1>15, <1>16, <1>17, <1>18, <1>19, <1>20,
           <1>21, <1>22, <1>23, <1>24 DEF Next, Client, Snapshot, Restore

\* DiskInv says nothing of the clients, the locks or the snapshot in progress.
LEMMA DiskFrame ==
  ASSUME DiskInv, UNCHANGED <<log, past, saved, diskAnchor, diskImage, tainted>>,
         mode' = "serving" => mode = "serving"
  PROVE  DiskInv'
<1>1. Offset' = Offset
  BY DEF Offset
<1> QED BY <1>1 DEF DiskInv

\* A record more lies past the committed snapshot's anchors.
LEMMA DiskGrows ==
  ASSUME TypeOK, LockInv, DiskInv, NEW c \in Clients, Propagate(c) \/ PropagateFails(c)
  PROVE  DiskInv'
<1>1. UNCHANGED <<saved, diskAnchor, diskImage, tainted, mode>> /\ mode = "serving"
  BY DEF Propagate, PropagateFails, diskVars, modeVars, LockInv
<1>2. /\ Offset \in Nat /\ Offset' \in {Offset, Offset + 1}
      /\ \A n \in 0 .. Offset : past'[n] = past[n]
  BY PropagateExtends
<1>3. diskAnchor \in [Shards -> Nat]
  BY DEF TypeOK
<1>4. saved => \A s \in Shards : diskAnchor[s] <= Offset
  BY <1>1 DEF DiskInv
<1>5. saved => \A s \in Shards : past'[diskAnchor[s]] = past[diskAnchor[s]]
  BY <1>2, <1>3, <1>4
<1>6. saved => \A s \in Shards : diskAnchor[s] <= Offset'
  BY <1>2, <1>3, <1>4
<1> QED BY <1>1, <1>4, <1>5, <1>6 DEF DiskInv

\* A step keeps the committed snapshot's anchors exact.
LEMMA DiskStep ==
  ASSUME TypeOK, LockInv, TailInv, WalkInv, DiskInv, [Next]_vars
  PROVE  DiskInv'
<1> USE DEF TypeOK, ackVars, logVars, lockVars, clientVars, snapVars, diskVars, modeVars
<1>1. ASSUME NEW c \in Clients, NEW e \in Effects, BeginWrite(c, e) PROVE DiskInv'
  BY <1>1, DiskFrame DEF BeginWrite
<1>2. ASSUME NEW c \in Clients, NEW q \in Transactions, BeginExec(c, q) PROVE DiskInv'
  BY <1>2, DiskFrame DEF BeginExec
<1>3. ASSUME NEW c \in Clients, EnterGuard(c) PROVE DiskInv'
  BY <1>3, DiskFrame DEF EnterGuard
<1>4. ASSUME NEW c \in Clients, Lock(c) PROVE DiskInv'
  BY <1>4, DiskFrame DEF Lock, TakeLock, Missing
<1>5. ASSUME NEW c \in Clients, Run(c) PROVE DiskInv'
  BY <1>5, DiskFrame DEF Run
<1>6. ASSUME NEW c \in Clients, RunRefused(c) PROVE DiskInv'
  BY <1>6, DiskFrame DEF RunRefused
<1>7. ASSUME NEW c \in Clients, Propagate(c) PROVE DiskInv'
  BY <1>7, DiskGrows
<1>8. ASSUME NEW c \in Clients, PropagateFails(c) PROVE DiskInv'
  BY <1>8, DiskGrows
<1>9. ASSUME NEW c \in Clients, Reply(c) PROVE DiskInv'
  BY <1>9, DiskFrame DEF Reply, Release
<1>10. ASSUME SnapStart PROVE DiskInv'
  BY <1>10, DiskFrame DEF SnapStart
<1>11. ASSUME SnapWindow PROVE DiskInv'
  BY <1>11, DiskFrame DEF SnapWindow
<1>12. ASSUME SnapProp PROVE DiskInv'
  BY <1>12, DiskFrame DEF SnapProp
<1>13. ASSUME SnapAnchor PROVE DiskInv'
  BY <1>13, DiskFrame DEF SnapAnchor, Release
<1>14. ASSUME SnapWalk PROVE DiskInv'
  BY <1>14, DiskFrame DEF SnapWalk
<1>15. ASSUME SnapCommit PROVE DiskInv'
  <2>1. /\ diskAnchor' = anchor /\ diskImage' = image /\ spc = "commit"
        /\ UNCHANGED <<log, past, mode>> /\ Offset' = Offset
    BY <1>15 DEF SnapCommit, Offset
  <2>2. ~tainted' => ~broken
    BY <1>15, Zenon DEF SnapCommit
  <2> QED BY <2>1, <2>2 DEF DiskInv, WalkInv, Done, AnchorSet
<1>16. ASSUME SnapAbort PROVE DiskInv'
  BY <1>16, DiskFrame DEF SnapAbort, Discard
<1>17. ASSUME SnapRoll PROVE DiskInv'
  BY <1>17, DiskFrame DEF SnapRoll
<1>18. ASSUME SnapPrune PROVE DiskInv'
  BY <1>18, DiskFrame DEF SnapPrune
<1>19. ASSUME BackgroundSync PROVE DiskInv'
  BY <1>19, DiskFrame DEF BackgroundSync
<1>20. ASSUME Crash PROVE DiskInv'
  <2>1. PICK n \in 0 .. Len(File) : /\ Offset' = n
                                    /\ past' = [m \in 0 .. n |-> past[m]]
    BY <1>20, CrashCuts
  <2>2. mode # "serving" => Len(File) = Offset
    BY FileFacts DEF TailInv
  <2>3. saved => \A s \in Shards : diskAnchor[s] <= n => diskAnchor[s] <= Offset
    <3> HIDE DEF TypeOK
    <3>1. mode = "serving" /\ saved => \A s \in Shards : diskAnchor[s] <= Offset
      BY DEF DiskInv
    <3>2. Offset \in Nat /\ n \in Nat /\ n <= Len(File) /\ Len(File) \in Nat
      BY <2>1, FileFacts
    <3>3. diskAnchor \in [Shards -> Nat]
      BY DEF TypeOK
    <3> QED BY <2>2, <3>1, <3>2, <3>3
  <2>4. mode' = "load" /\ UNCHANGED diskVars
    BY <1>20 DEF Crash
  <2> HIDE DEF TypeOK
  <2>5. diskAnchor \in [Shards -> Nat]
    BY DEF TypeOK
  <2> QED BY <2>1, <2>3, <2>4, <2>5 DEF DiskInv
<1>21. ASSUME Load PROVE DiskInv'
  BY <1>21, DiskFrame DEF Load
<1>22. ASSUME Replay PROVE DiskInv'
  BY <1>22, DiskFrame DEF Replay
<1>23. ASSUME Serve PROVE DiskInv'
  <2>1. UNCHANGED <<log, past, diskVars>> /\ Offset' = Offset /\ Offset \in Nat
    BY <1>23 DEF Serve, Offset
  <2>2. (saved /\ mode' = "serving") => diskAnchor[LastShard] <= Offset
    BY <1>23, <2>1, ShardFacts DEF Serve
  <2>3. ASSUME saved, mode' = "serving", NEW s \in Shards
        PROVE  diskAnchor[s] <= Offset
    <3> HIDE DEF TypeOK
    <3>1. LastShard \in Shards /\ s <= LastShard
      BY ShardFacts
    <3>2. diskAnchor[s] <= diskAnchor[LastShard] /\ diskAnchor[LastShard] <= Offset
      BY <2>2, <2>3, <3>1 DEF DiskInv
    <3>3. diskAnchor[s] \in Nat /\ diskAnchor[LastShard] \in Nat
      BY <3>1 DEF TypeOK
    <3> QED BY <2>1, <3>2, <3>3
  <2> QED BY <2>1, <2>3 DEF DiskInv
<1>24. ASSUME UNCHANGED vars PROVE DiskInv'
  BY <1>24, DiskFrame DEF vars
<1> QED BY <1>1, <1>2, <1>3, <1>4, <1>5, <1>6, <1>7, <1>8, <1>9, <1>10, <1>11,
           <1>12, <1>13, <1>14, <1>15, <1>16, <1>17, <1>18, <1>19, <1>20,
           <1>21, <1>22, <1>23, <1>24 DEF Next, Client, Snapshot, Restore

-----------------------------------------------------------------------------
\* WindowInv says nothing of the clients, the locks or the data.
LEMMA WindowFrame ==
  ASSUME WindowInv, UNCHANGED <<log, spc, shard, anchor, saved, diskAnchor>>
  PROVE  WindowInv'
<1>1. Offset' = Offset /\ (AnchorSet(0)' <=> AnchorSet(0))
  BY DEF Offset, AnchorSet, Done
<1> QED BY <1>1 DEF WindowInv, WalkClean, NoCrossInWindow

\* When no shard has been reached it is about the committed snapshot alone.
LEMMA WindowIdle ==
  ASSUME WindowInv, UNCHANGED <<log, saved, diskAnchor>>,
         \/ spc' \notin Walking \cup {"commit"}
         \/ spc' \in {"prop", "anchor"} /\ shard' = 0
  PROVE  WindowInv'
<1>1. ~(spc' \in Walking /\ AnchorSet(0)')
  BY ShardFacts DEF Done, AnchorSet, Walking
<1>2. spc' # "commit"
  BY DEF Walking
<1> QED BY <1>1, <1>2 DEF WindowInv, WalkClean, NoCrossInWindow

\* An effect logged while a snapshot walks the shards is shard-local.
LEMMA WalkersLogLocal ==
  ASSUME TypeOK, LockInv, GuardInv, NEW c \in Clients, cpc[c] = "log", spc \in Walking
  PROVE  ~Head(queue[c]).cross
BY TailFacts DEF TypeOK, LockInv, GuardInv, Active

\* A record more lies past every window, and while a snapshot walks the shards it
\* is shard-local.
LEMMA WindowGrows ==
  ASSUME TypeOK, LockInv, GuardInv, WalkInv, DiskInv, WindowInv, NEW c \in Clients,
         Propagate(c) \/ PropagateFails(c)
  PROVE  WindowInv'
<1>1. /\ cpc[c] = "log" /\ mode = "serving"
      /\ UNCHANGED <<spc, shard, anchor, saved, diskAnchor>>
  BY DEF Propagate, PropagateFails, LockInv, snapVars, diskVars
<1>2. /\ Offset \in Nat /\ Offset' \in {Offset, Offset + 1}
      /\ \A i \in 1 .. Offset : log'[i] = log[i]
      /\ Offset' = Offset + 1 => log'[Offset + 1] = Head(queue[c])
      /\ DOMAIN log = 1 .. Offset /\ DOMAIN log' = 1 .. Offset'
  BY PropagateExtends
<1>3. anchor \in [Shards -> Nat] /\ diskAnchor \in [Shards -> Nat]
  BY DEF TypeOK
<1>4. NoCrossInWindow'
  <2>1. saved => diskAnchor[LastShard] <= Offset
    BY <1>1, ShardFacts DEF DiskInv
  <2> SUFFICES ASSUME saved, NEW i \in 1 .. Offset', diskAnchor[0] < i,
                      i <= diskAnchor[LastShard]
               PROVE  ~log'[i].cross
    BY <1>1, <1>2 DEF NoCrossInWindow
  <2>2. diskAnchor[LastShard] \in Nat
    BY <1>3, ShardFacts
  <2>3. i \in 1 .. Offset
    BY <1>2, <2>1, <2>2
  <2> QED BY <1>2, <2>3 DEF WindowInv, NoCrossInWindow
<1>5. WalkClean'
  <2>1. SUFFICES ASSUME spc \in Walking, AnchorSet(0),
                        NEW i \in 1 .. Offset', anchor[0] < i
                 PROVE  ~log'[i].cross
    BY <1>1 DEF WalkClean, AnchorSet, Done
  <2>2. CASE i \notin 1 .. Offset
    <3>1. Offset' = Offset + 1 /\ i = Offset + 1
      BY <1>2, <2>2
    <3> QED BY <1>1, <1>2, <2>1, <3>1, WalkersLogLocal
  <2>3. CASE i \in 1 .. Offset
    <3>1. WalkClean
      BY DEF WindowInv
    <3> QED BY <1>2, <2>1, <2>3, <3>1 DEF WalkClean
  <2> QED BY <2>2, <2>3
<1>6. spc' = "commit" =>
        \A i \in 1 .. Offset' :
          (anchor'[0] < i /\ i <= anchor'[LastShard]) => ~log'[i].cross
  <2>1. spc = "commit" => anchor[LastShard] <= Offset
    BY ShardFacts DEF WalkInv, AnchorSet, Done
  <2> QED BY SMTT(30), <1>1, <1>2, <1>3, <2>1, ShardFacts DEF WindowInv
<1> QED BY <1>4, <1>5, <1>6 DEF WindowInv

\* A step keeps the snapshot's window free of cross-shard effects.
LEMMA WindowStep ==
  ASSUME TypeOK, LockInv, GuardInv, TailInv, WalkInv, DiskInv, WindowInv, [Next]_vars
  PROVE  WindowInv'
<1> USE DEF TypeOK, ackVars, logVars, lockVars, clientVars, snapVars, diskVars, modeVars
<1>1. ASSUME NEW c \in Clients, NEW e \in Effects, BeginWrite(c, e) PROVE WindowInv'
  BY <1>1, WindowFrame DEF BeginWrite
<1>2. ASSUME NEW c \in Clients, NEW q \in Transactions, BeginExec(c, q) PROVE WindowInv'
  BY <1>2, WindowFrame DEF BeginExec
<1>3. ASSUME NEW c \in Clients, EnterGuard(c) PROVE WindowInv'
  BY <1>3, WindowFrame DEF EnterGuard
<1>4. ASSUME NEW c \in Clients, Lock(c) PROVE WindowInv'
  BY <1>4, WindowFrame DEF Lock, TakeLock, Missing
<1>5. ASSUME NEW c \in Clients, Run(c) PROVE WindowInv'
  BY <1>5, WindowFrame DEF Run
<1>6. ASSUME NEW c \in Clients, RunRefused(c) PROVE WindowInv'
  BY <1>6, WindowFrame DEF RunRefused
<1>7. ASSUME NEW c \in Clients, Propagate(c) PROVE WindowInv'
  BY <1>7, WindowGrows
<1>8. ASSUME NEW c \in Clients, PropagateFails(c) PROVE WindowInv'
  BY <1>8, WindowGrows
<1>9. ASSUME NEW c \in Clients, Reply(c) PROVE WindowInv'
  BY <1>9, WindowFrame DEF Reply, Release
<1>10. ASSUME SnapStart PROVE WindowInv'
  BY <1>10, WindowIdle DEF SnapStart, Walking
<1>11. ASSUME SnapWindow PROVE WindowInv'
  BY <1>11, WindowIdle DEF SnapWindow, LockInv, SnapLocks
<1>12. ASSUME SnapProp PROVE WindowInv'
  <2>1. AnchorSet(0)' <=> AnchorSet(0)
    BY <1>12 DEF SnapProp, AnchorSet, Done, Walking
  <2>2. Offset' = Offset
    BY <1>12 DEF SnapProp, Offset
  <2> QED BY <1>12, <2>1, <2>2 DEF SnapProp, WindowInv, WalkClean, NoCrossInWindow, Walking
<1>13. ASSUME SnapAnchor PROVE WindowInv'
  <2>1. /\ anchor' = [anchor EXCEPT ![shard] = Offset] /\ Offset \in Nat
        /\ spc = "anchor" /\ spc' = "walk"
        /\ UNCHANGED <<log, shard, saved, diskAnchor>> /\ Offset' = Offset
    BY <1>13 DEF SnapAnchor, Offset
  <2>2. CASE shard = 0
    <3>1. anchor'[0] = Offset
      BY <2>1, <2>2
    <3> QED BY <2>1, <3>1 DEF WindowInv, WalkClean, NoCrossInWindow
  <2>3. CASE shard # 0
    <3>1. anchor'[0] = anchor[0] /\ AnchorSet(0) /\ spc \in Walking
      BY <2>1, <2>3, ShardFacts DEF AnchorSet, Done, Walking
    <3> QED BY <2>1, <3>1 DEF WindowInv, WalkClean, NoCrossInWindow
  <2> QED BY <2>2, <2>3
<1>14. ASSUME SnapWalk PROVE WindowInv'
  <2>1. /\ spc = "walk" /\ spc' \in {"commit", "prop"}
        /\ UNCHANGED <<log, anchor, saved, diskAnchor>> /\ Offset' = Offset
    BY <1>14 DEF SnapWalk, Offset
  <2>2. spc \in Walking /\ AnchorSet(0)
    BY <2>1, ShardFacts DEF AnchorSet, Done, Walking
  <2> QED BY <2>1, <2>2 DEF WindowInv, WalkClean, NoCrossInWindow
<1>15. ASSUME SnapCommit PROVE WindowInv'
  <2>1. /\ diskAnchor' = anchor /\ spc = "commit" /\ spc' \in {"roll", "idle"}
        /\ UNCHANGED log /\ Offset' = Offset /\ DOMAIN log = 1 .. Offset
    BY <1>15 DEF SnapCommit, Offset
  <2>2. spc' \notin Walking /\ spc' # "commit"
    BY <2>1 DEF Walking
  <2> QED BY <2>1, <2>2 DEF WindowInv, WalkClean, NoCrossInWindow
<1>16. ASSUME SnapAbort PROVE WindowInv'
  BY <1>16, WindowIdle DEF SnapAbort, Discard, Walking
<1>17. ASSUME SnapRoll PROVE WindowInv'
  BY <1>17, WindowIdle DEF SnapRoll, Walking
<1>18. ASSUME SnapPrune PROVE WindowInv'
  BY <1>18, WindowIdle DEF SnapPrune, Walking
<1>19. ASSUME BackgroundSync PROVE WindowInv'
  BY <1>19, WindowFrame DEF BackgroundSync
<1>20. ASSUME Crash PROVE WindowInv'
  <2> HIDE DEF TypeOK
  <2>1. PICK n \in 0 .. Len(File) : /\ DOMAIN log' = 1 .. n
                                    /\ \A i \in 1 .. n : log'[i] = File[i]
    BY <1>20, CrashCuts
  <2>2. /\ DOMAIN log = 1 .. Offset /\ Len(File) \in Nat /\ Offset \in Nat
        /\ \A i \in 1 .. Offset : File[i] = log[i]
        /\ mode # "serving" => Len(File) = Offset
    BY FileFacts DEF TailInv
  <2>3. spc' \notin Walking /\ spc' # "commit" /\ UNCHANGED <<saved, diskAnchor>>
    BY <1>20, Zenon DEF Crash, Walking, diskVars
  <2>4. saved /\ mode = "serving" => diskAnchor[LastShard] <= Offset
    BY ShardFacts DEF DiskInv
  <2>5. diskAnchor[LastShard] \in Nat
    BY ShardFacts DEF TypeOK
  <2>6. NoCrossInWindow'
    <3> SUFFICES ASSUME saved, NEW i \in 1 .. n, diskAnchor[0] < i,
                        i <= diskAnchor[LastShard]
                 PROVE  ~log'[i].cross
      BY <2>1, <2>3 DEF NoCrossInWindow
    <3>1. i \in 1 .. Offset
      BY <2>1, <2>2, <2>4, <2>5
    <3> QED BY <2>1, <2>2, <3>1 DEF WindowInv, NoCrossInWindow
  <2> QED BY <2>3, <2>6 DEF WindowInv, WalkClean
<1>21. ASSUME Load PROVE WindowInv'
  BY <1>21, WindowFrame DEF Load
<1>22. ASSUME Replay PROVE WindowInv'
  BY <1>22, WindowFrame DEF Replay
<1>23. ASSUME Serve PROVE WindowInv'
  BY <1>23, WindowFrame DEF Serve
<1>24. ASSUME UNCHANGED vars PROVE WindowInv'
  BY <1>24, WindowFrame DEF vars
<1> QED BY <1>1, <1>2, <1>3, <1>4, <1>5, <1>6, <1>7, <1>8, <1>9, <1>10, <1>11,
           <1>12, <1>13, <1>14, <1>15, <1>16, <1>17, <1>18, <1>19, <1>20,
           <1>21, <1>22, <1>23, <1>24 DEF Next, Client, Snapshot, Restore

-----------------------------------------------------------------------------
\* ReplayInv says nothing of the clients, the locks or the snapshot in progress.
LEMMA ReplayFrame ==
  ASSUME ReplayInv, ~broken' => ~broken,
         UNCHANGED <<log, past, live, mode, rpos, saved, diskAnchor, diskImage>>
  PROVE  ReplayInv'
<1>1. Offset' = Offset
  BY DEF Offset
<1> QED BY <1>1 DEF ReplayInv, ReplayPos, ReplayShards

\* It says nothing at all outside replay.
LEMMA ReplayElsewhere ==
  ASSUME mode' # "replay"
  PROVE  ReplayInv'
BY DEF ReplayInv, ReplayPos, ReplayShards

\* A cross-shard record that replay meets is past every anchor.
LEMMA CrossPastAnchors ==
  ASSUME TypeOK, DiskInv, WindowInv, ReplayPos, mode = "replay", rpos < Offset,
         log[rpos + 1].cross, saved
  PROVE  \A s \in Shards : diskAnchor[s] <= rpos
<1>1. rpos + 1 \in DOMAIN log /\ Offset \in Nat
  BY DEF TypeOK, Offset
<1>2. diskAnchor[0] < rpos + 1
  BY ShardFacts DEF ReplayPos, TypeOK
<1>3. ~(rpos + 1 <= diskAnchor[LastShard])
  BY <1>1, <1>2 DEF WindowInv, NoCrossInWindow
<1>4. \A s \in Shards : diskAnchor[s] <= diskAnchor[LastShard]
  BY ShardFacts DEF DiskInv
<1> QED BY <1>3, <1>4, ShardFacts DEF TypeOK

\* A shard whose anchor is ahead of a record is left alone by its replay.
LEMMA AheadUntouched ==
  ASSUME TypeOK, DiskInv, WindowInv, ReplayPos, Replay, mode' = "replay",
         NEW s \in Shards, saved, rpos < diskAnchor[s]
  PROVE  live'[s] = live[s]
<1> DEFINE e == log[rpos + 1]
           wanted == {r \in e.keys : Wants(r, rpos)}
<1>1. mode = "replay" /\ rpos < Offset /\ rpos \in Nat /\ diskAnchor[s] \in Nat
  BY DEF Replay, TypeOK
<1>2. e \in Effects
  BY <1>1 DEF TypeOK, Offset
<1>3. ~e.cross
  BY <1>1, CrossPastAnchors
<1>4. e.writes = e.keys
  BY <1>2, <1>3
<1>5. s \notin wanted
  BY <1>1 DEF Wants
<1>6. \/ wanted = e.keys /\ live' = ApplyTo(e, live, Shards)
      \/ live' = ApplyTo(e, live, wanted)
  BY <1>1 DEF Replay
<1>7. s \notin wanted => ApplyTo(e, live, wanted)[s] = live[s]
  BY DEF ApplyTo
<1>8. s \notin e.writes => ApplyTo(e, live, Shards)[s] = live[s]
  BY DEF ApplyTo
<1> QED BY <1>4, <1>5, <1>6, <1>7, <1>8

\* A shard that has caught up with a record takes the whole of its effect.
LEMMA CaughtUpTakes ==
  ASSUME TypeOK, DiskInv, WindowInv, ReplayInv, Replay, mode' = "replay", ~broken,
         NEW s \in Shards, saved => diskAnchor[s] <= rpos
  PROVE  live'[s] = ApplyTo(log[rpos + 1], past[rpos], Shards)[s]
<1> DEFINE e == log[rpos + 1]
           wanted == {r \in e.keys : Wants(r, rpos)}
           before == past[rpos]
<1>1. mode = "replay" /\ rpos < Offset /\ rpos \in Nat /\ Offset \in Nat
  BY DEF Replay, TypeOK, Offset
<1>2. e \in Effects
  BY <1>1 DEF TypeOK, Offset
<1>3. \A r \in Shards : (saved => diskAnchor[r] <= rpos) => live[r] = before[r]
  BY <1>1 DEF ReplayInv, ReplayShards
<1>4. \/ wanted = e.keys /\ live' = ApplyTo(e, live, Shards)
      \/ wanted # e.keys /\ live' = ApplyTo(e, live, wanted)
  BY <1>1 DEF Replay
<1>5. e.writes \subseteq Shards /\ e.reads \subseteq Shards /\ e.keys \subseteq Shards
  BY <1>2
<1>6. CASE s \notin e.writes
  <2>1. live'[s] = live[s]
    BY <1>4, <1>6 DEF ApplyTo
  <2>2. ApplyTo(e, before, Shards)[s] = before[s]
    BY <1>6 DEF ApplyTo
  <2> QED BY <1>3, <2>1, <2>2
<1>7. CASE s \in e.writes
  <2>1. ApplyTo(e, before, Shards)[s] = After(e, s, before)
    BY <1>7 DEF ApplyTo
  <2>2. live'[s] = After(e, s, live) /\ \A r \in e.reads \cup {s} : live[r] = before[r]
    <3>1. CASE e.cross
      <4>1. \A r \in Shards : saved => diskAnchor[r] <= rpos
        BY <1>1, <3>1, CrossPastAnchors DEF ReplayInv
      <4>2. wanted = e.keys
        BY <4>1, <1>5 DEF Wants, TypeOK
      <4>3. live' = ApplyTo(e, live, Shards)
        BY <1>4, <4>2
      <4> QED BY <4>1, <4>3, <1>3, <1>5, <1>7 DEF ApplyTo
    <3>2. CASE ~e.cross
      <4>1. e.writes = e.keys /\ e.reads = {}
        BY <1>2, <3>2
      <4>2. s \in wanted
        BY <4>1, <1>7 DEF Wants, TypeOK
      <4>3. live'[s] = After(e, s, live)
        BY <1>4, <1>7, <4>2 DEF ApplyTo
      <4> QED BY <4>1, <4>3, <1>3
    <3> QED BY <3>1, <3>2
  <2>3. After(e, s, live) = After(e, s, before)
    BY <2>2, SameView
  <2> QED BY <2>1, <2>2, <2>3
<1> QED BY <1>6, <1>7

\* A step keeps what replay has rebuilt that of the log.
LEMMA ReplayStep ==
  ASSUME TypeOK, LockInv, TailInv, PastInv, DiskInv, WindowInv, ReplayInv, [Next]_vars
  PROVE  ReplayInv'
<1> USE DEF TypeOK, ackVars, logVars, lockVars, clientVars, snapVars, diskVars, modeVars
<1>1. ASSUME NEW c \in Clients, NEW e \in Effects, BeginWrite(c, e) PROVE ReplayInv'
  BY <1>1, ReplayFrame DEF BeginWrite
<1>2. ASSUME NEW c \in Clients, NEW q \in Transactions, BeginExec(c, q) PROVE ReplayInv'
  BY <1>2, ReplayFrame DEF BeginExec
<1>3. ASSUME NEW c \in Clients, EnterGuard(c) PROVE ReplayInv'
  BY <1>3, ReplayFrame DEF EnterGuard
<1>4. ASSUME NEW c \in Clients, Lock(c) PROVE ReplayInv'
  BY <1>4, ReplayFrame DEF Lock, TakeLock, Missing
<1>5. ASSUME NEW c \in Clients, Run(c) PROVE ReplayInv'
  BY <1>5, ReplayElsewhere DEF Run, LockInv
<1>6. ASSUME NEW c \in Clients, RunRefused(c) PROVE ReplayInv'
  BY <1>6, ReplayFrame DEF RunRefused
<1>7. ASSUME NEW c \in Clients, Propagate(c) PROVE ReplayInv'
  BY <1>7, ReplayElsewhere DEF Propagate, LockInv
<1>8. ASSUME NEW c \in Clients, PropagateFails(c) PROVE ReplayInv'
  BY <1>8, ReplayElsewhere DEF PropagateFails, LockInv
<1>9. ASSUME NEW c \in Clients, Reply(c) PROVE ReplayInv'
  BY <1>9, ReplayFrame DEF Reply, Release
<1>10. ASSUME SnapStart PROVE ReplayInv'
  BY <1>10, ReplayFrame DEF SnapStart
<1>11. ASSUME SnapWindow PROVE ReplayInv'
  BY <1>11, ReplayFrame DEF SnapWindow
<1>12. ASSUME SnapProp PROVE ReplayInv'
  BY <1>12, ReplayFrame DEF SnapProp
<1>13. ASSUME SnapAnchor PROVE ReplayInv'
  BY <1>13, ReplayFrame DEF SnapAnchor, Release
<1>14. ASSUME SnapWalk PROVE ReplayInv'
  BY <1>14, ReplayFrame DEF SnapWalk
<1>15. ASSUME SnapCommit PROVE ReplayInv'
  BY <1>15, ReplayElsewhere DEF SnapCommit, Discard, LockInv
<1>16. ASSUME SnapAbort PROVE ReplayInv'
  BY <1>16, ReplayFrame DEF SnapAbort, Discard
<1>17. ASSUME SnapRoll PROVE ReplayInv'
  BY <1>17, ReplayFrame DEF SnapRoll
<1>18. ASSUME SnapPrune PROVE ReplayInv'
  BY <1>18, ReplayFrame DEF SnapPrune
<1>19. ASSUME BackgroundSync PROVE ReplayInv'
  BY <1>19, ReplayFrame DEF BackgroundSync
<1>20. ASSUME Crash PROVE ReplayInv'
  BY <1>20, ReplayElsewhere DEF Crash, Discard
<1>21. ASSUME Load PROVE ReplayInv'
  <2>1. SUFFICES ASSUME mode' = "replay" PROVE ReplayInv'
    BY ReplayElsewhere
  <2>2. /\ live' = (IF saved THEN diskImage ELSE Fresh)
        /\ rpos' = (IF saved THEN diskAnchor[0] ELSE 0)
        /\ UNCHANGED <<log, past, saved, diskAnchor, diskImage, broken>>
        /\ Offset' = Offset /\ Offset \in Nat
    BY <1>21 DEF Load, Offset
  <2>3. ReplayPos'
    BY <2>2, ShardFacts DEF ReplayPos
  <2>4. CASE saved
    <3>1. \A s \in Shards : diskAnchor[0] <= diskAnchor[s]
      BY <2>4, ShardFacts DEF DiskInv
    <3>2. ~broken => \A s \in Shards :
            (diskAnchor[s] <= diskAnchor[0] /\ diskAnchor[0] <= Offset) =>
               diskImage[s] = past[diskAnchor[0]][s]
      <4>1. \A s \in Shards : diskAnchor[s] <= diskAnchor[0] =>
              diskAnchor[s] = diskAnchor[0]
        BY <3>1, ShardFacts
      <4>2. ~broken => ~tainted
        BY <1>21 DEF Load, TailInv
      <4> QED BY <4>1, <4>2, <2>4 DEF DiskInv
    <3> QED BY <2>2, <2>3, <2>4, <3>2 DEF ReplayInv, ReplayShards
  <2>5. CASE ~saved
    BY <2>2, <2>3, <2>5 DEF ReplayInv, ReplayShards, PastInv
  <2> QED BY <2>4, <2>5
<1>22. ASSUME Replay PROVE ReplayInv'
  <2>1. SUFFICES ASSUME mode' = "replay" PROVE ReplayInv'
    BY ReplayElsewhere
  <2>2. /\ rpos' = rpos + 1 /\ rpos < Offset /\ mode = "replay"
        /\ UNCHANGED <<log, past, saved, diskAnchor, diskImage, broken>>
        /\ Offset' = Offset /\ Offset \in Nat /\ rpos \in Nat
    BY <1>22 DEF Replay, Offset
  <2>3. ReplayPos'
    BY <2>2, ShardFacts DEF ReplayInv, ReplayPos
  <2>4. ASSUME ~broken, NEW s \in Shards, saved, rpos + 1 < diskAnchor[s]
        PROVE  live'[s] = diskImage[s]
    <3>1. rpos < diskAnchor[s]
      BY <2>2, <2>4
    <3>2. live'[s] = live[s]
      BY <1>22, <2>1, <2>4, <3>1, AheadUntouched DEF ReplayInv
    <3> QED BY <2>2, <2>4, <3>1, <3>2 DEF ReplayInv, ReplayShards
  <2>5. past[rpos + 1] = ApplyTo(log[rpos + 1], past[rpos], Shards)
    BY <2>2, FileFacts DEF PastInv
  <2>6. ASSUME ~broken, NEW s \in Shards, saved => diskAnchor[s] <= rpos + 1
        PROVE  live'[s] = past[rpos + 1][s]
    <3>1. CASE saved => diskAnchor[s] <= rpos
      BY <1>22, <2>1, <2>5, <2>6, <3>1, CaughtUpTakes
    <3>2. CASE saved /\ rpos < diskAnchor[s]
      <4>1. diskAnchor[s] = rpos + 1 /\ diskAnchor[s] <= Offset
        BY <2>2, <2>6, <3>2
      <4>2. live'[s] = live[s]
        BY <1>22, <2>1, <3>2, AheadUntouched DEF ReplayInv
      <4>3. live[s] = diskImage[s]
        BY <2>2, <2>6, <3>2 DEF ReplayInv, ReplayShards
      <4>4. diskImage[s] = past[diskAnchor[s]][s]
        <5>1. ~tainted
          BY <2>2, <2>6 DEF TailInv
        <5> QED BY <5>1, <3>2, <4>1 DEF DiskInv
      <4> QED BY <4>1, <4>2, <4>3, <4>4
    <3> QED BY <3>1, <3>2, <2>2
  <2> QED BY <2>2, <2>3, <2>4, <2>6 DEF ReplayInv, ReplayShards
<1>23. ASSUME Serve PROVE ReplayInv'
  BY <1>23, ReplayElsewhere DEF Serve
<1>24. ASSUME UNCHANGED vars PROVE ReplayInv'
  BY <1>24, ReplayFrame DEF vars
<1> QED BY <1>1, <1>2, <1>3, <1>4, <1>5, <1>6, <1>7, <1>8, <1>9, <1>10, <1>11,
           <1>12, <1>13, <1>14, <1>15, <1>16, <1>17, <1>18, <1>19, <1>20,
           <1>21, <1>22, <1>23, <1>24 DEF Next, Client, Snapshot, Restore

-----------------------------------------------------------------------------
\* A server starts on an empty log with nothing locked.
LEMMA InitInv ==
  ASSUME Init
  PROVE  Inv
<1> USE DEF Init
<1>1. TypeOK
  <2>1. /\ log \in Seq(Effects) /\ tail \in Seq(Effects)
        /\ DOMAIN past = 0 .. Len(log) + Len(tail)
        /\ queue \in [Clients -> Seq(Effects)]
    <3>1. << >> \in Seq(Effects) /\ Len(<< >>) = 0 /\ 0 .. 0 = {0}
      OBVIOUS
    <3> QED BY <3>1
  <2>2. /\ saved \in BOOLEAN /\ failed \in BOOLEAN /\ broken \in BOOLEAN
        /\ tainted \in BOOLEAN
    BY Zenon
  <2>3. /\ shard \in Shards /\ oldest \in Nat /\ forced \in Nat
        /\ rpos \in Nat /\ crashes \in 0 .. MaxCrashes
    BY ShardFacts
  <2>4. /\ DOMAIN live = Shards /\ DOMAIN image = Shards /\ DOMAIN diskImage = Shards
        /\ anchor \in [Shards -> Nat] /\ diskAnchor \in [Shards -> Nat]
        /\ prop \in [Shards -> Clients \cup {Snapshotter, Nobody}]
        /\ need \in [Clients -> SUBSET Shards]
        /\ wrote \in [Clients -> SUBSET (Nat \X Effects)]
        /\ cpc \in [Clients -> {"idle", "guard", "lock", "run", "log"}]
    BY DEF Fresh, NoAnchors
  <2> QED BY <2>1, <2>2, <2>3, <2>4 DEF TypeOK
<1>2. LockInv
  BY DEF LockInv, HeldIsNeeded, RunnerHoldsAll, TouchesNeeded, SnapLocks, Active
<1>3. GuardInv
  BY DEF GuardInv, Active, Walking
<1>4. Offset = 0 /\ Len(File) = 0
  BY DEF Offset, File
<1>5. PastInv
  BY <1>4 DEF PastInv
<1>11. TailInv
  BY DEF TailInv
<1>6. LiveInv
  BY <1>4 DEF LiveInv, Logged
<1>7. WalkInv
  BY ShardFacts DEF WalkInv, Done, AnchorSet, Walking
<1>8. DiskInv
  BY DEF DiskInv
<1>9. WindowInv
  BY DEF WindowInv, WalkClean, NoCrossInWindow, Walking
<1>10. ReplayInv
  BY DEF ReplayInv, ReplayPos, ReplayShards
<1> QED BY <1>1, <1>2, <1>3, <1>5, <1>6, <1>7, <1>8, <1>9, <1>10,
           <1>11 DEF Inv

\* Every state keeps its variables in their types, its locks in order and its
\* keyspace, snapshots and replay in step with the log.
LEMMA InvHolds ==
  ASSUME ~CrossInExec
  PROVE  Spec => []Inv
<1>1. Inv /\ [Next]_vars => Inv'
  BY TypeStep, LockStep, GuardStep, TailStep, PastStep, LiveStep, WalkStep, DiskStep,
     WindowStep, ReplayStep DEF Inv
<1> QED BY <1>1, InitInv, PTL DEF Spec

\* Every variable keeps its type, whatever transactions hold.
THEOREM TypeCorrect == Spec => []TypeOK
<1>1. Init => TypeOK /\ LockInv
  BY InitInv DEF Inv
<1>2. TypeOK /\ LockInv /\ [Next]_vars => TypeOK' /\ LockInv'
  BY TypeStep, LockStep
<1> QED BY <1>1, <1>2, PTL DEF Spec

\* A shard nobody is in the middle of writing holds what the log says it holds:
\* the ordering locks keep propagation order equal to execution order, through
\* transactions, snapshots and restarts.
THEOREM WritesAreOrdered ==
  ASSUME ~CrossInExec
  PROVE  Spec => []LiveMatchesLog
<1>1. Inv => LiveMatchesLog
  BY DEF Inv, LiveInv, LiveMatchesLog
<1> QED BY <1>1, InvHolds, PTL

\* A committed snapshot holds of each shard the state at exactly its anchor.
THEOREM AnchorsAreExact ==
  ASSUME ~CrossInExec
  PROVE  Spec => []AnchorExact
<1>1. Inv => AnchorExact
  BY DEF Inv, DiskInv, AnchorExact
<1> QED BY <1>1, InvHolds, PTL

\* As long as transactions hold no cross-shard command, none is logged inside
\* a committed snapshot's window.
THEOREM WindowIsClean ==
  ASSUME ~CrossInExec
  PROVE  Spec => []NoCrossInWindow
<1>1. Inv => NoCrossInWindow
  BY DEF Inv, WindowInv
<1> QED BY <1>1, InvHolds, PTL

\* Replaying the log's tail over the fuzzy snapshot rebuilds the dataset.
THEOREM RecoveryIsExact ==
  ASSUME ~CrossInExec
  PROVE  Spec => []RecoveryRebuildsDataset
<1>1. Inv => RecoveryRebuildsDataset
  BY ReplayDone DEF Inv, RecoveryRebuildsDataset
<1> QED BY <1>1, InvHolds, PTL

-----------------------------------------------------------------------------
\* What a crash cannot take from the log.
Kept == IF MachineCrash THEN forced ELSE Offset

\* A record logged and kept: what a command logged is where it logged it.
IsKept(a) == a[1] \in 1 .. Kept /\ log[a[1]] = a[2]

\* The committed snapshot stays within what a crash keeps, unless it is
\* tainted; the log reaches back to the snapshot; what has been logged is kept.
RestartInv ==
  /\ forced <= Offset
  /\ saved /\ ~tainted => \A s \in Shards : diskAnchor[s] <= Kept
  /\ oldest <= IF saved THEN diskAnchor[0] ELSE 0
  /\ AnchorSet(0) => oldest <= anchor[0]
  /\ spc \in {"roll", "prune"} => saved
  /\ \A a \in acked : IsKept(a)
  /\ \A c \in Clients : \A a \in wrote[c] : IsKept(a)
  /\ RestartSucceeds

\* RestartInv is about the log and the two snapshots alone.
LEMMA RestartFrame ==
  ASSUME RestartInv, UNCHANGED <<log, oldest, forced, spc, shard, anchor, saved,
                                 diskAnchor, tainted, wrote, acked, mode>>
  PROVE  RestartInv'
<1>1. /\ Offset' = Offset /\ Kept' = Kept /\ (AnchorSet(0)' <=> AnchorSet(0))
      /\ \A a : IsKept(a)' <=> IsKept(a)
  BY DEF Offset, Kept, IsKept, AnchorSet, Done
<1> QED BY <1>1 DEF RestartInv, RestartSucceeds

\* When no shard has been reached it is about the committed snapshot alone.
LEMMA RestartIdle ==
  ASSUME RestartInv, UNCHANGED <<log, oldest, forced, saved, diskAnchor, tainted,
                                 wrote, acked, mode>>,
         \/ spc' \in {"idle", "guard"}
         \/ spc' \in {"prop", "anchor"} /\ shard' = 0
  PROVE  RestartInv'
<1>1. ~AnchorSet(0)' /\ Offset' = Offset
  BY ShardFacts DEF Done, AnchorSet, Walking, Offset
<1>2. Kept' = Kept /\ \A a : IsKept(a)' <=> IsKept(a)
  BY <1>1 DEF Kept, IsKept
<1> QED BY <1>1, <1>2 DEF RestartInv, RestartSucceeds

\* What is kept stays kept, and where it was, when the log grows.
LEMMA KeptGrows ==
  ASSUME TypeOK, LockInv, RestartInv, NEW c \in Clients, Propagate(c) \/ PropagateFails(c),
         Kept <= Kept'
  PROVE  \A a : IsKept(a) => IsKept(a)'
<1>1. /\ Offset \in Nat /\ Offset' \in {Offset, Offset + 1}
      /\ \A i \in 1 .. Offset : log'[i] = log[i]
  BY PropagateExtends
<1>2. forced \in Nat /\ forced' \in Nat /\ Kept \in Nat /\ Kept <= Offset
  <2>1. forced' = forced \/ forced' = Offset + 1
    BY Zenon DEF Propagate, PropagateFails
  <2> QED BY <1>1, <2>1 DEF TypeOK, Kept, RestartInv
<1>3. Kept' \in Nat
  BY <1>1, <1>2 DEF Kept
<1> QED BY <1>1, <1>2, <1>3 DEF IsKept

\* Logging, or failing to, leaves the snapshots and the start as they were.
LEMMA RestartGrows ==
  ASSUME TypeOK, RestartInv, Kept \in Nat, Kept' \in Nat, Kept <= Kept',
         forced' <= Offset',
         UNCHANGED <<oldest, spc, shard, anchor, saved, diskAnchor, tainted, acked, mode>>,
         \A a : IsKept(a) => IsKept(a)',
         \A d \in Clients : \A a \in wrote'[d] : IsKept(a)'
  PROVE  RestartInv'
<1>1. AnchorSet(0)' <=> AnchorSet(0)
  BY DEF AnchorSet, Done
<1>2. saved /\ ~tainted => \A s \in Shards : diskAnchor[s] <= Kept'
  BY DEF RestartInv, TypeOK
<1> QED BY <1>1, <1>2 DEF RestartInv, RestartSucceeds

\* So does forcing the log.
LEMMA RestartForced ==
  ASSUME TypeOK, RestartInv, forced' \in {forced, Offset},
         UNCHANGED <<log, oldest, anchor, saved, diskAnchor, tainted, wrote, acked, mode>>,
         AnchorSet(0)' => AnchorSet(0),
         spc' \in {"roll", "prune"} => saved
  PROVE  RestartInv'
<1>1. Offset \in Nat /\ Offset' = Offset /\ forced \in Nat /\ forced <= Offset
  BY DEF TypeOK, Offset, RestartInv
<1>2. Kept \in Nat /\ Kept' \in Nat /\ Kept <= Kept' /\ forced' <= Offset'
  BY <1>1 DEF Kept
<1>3. \A a : IsKept(a) => IsKept(a)'
  BY <1>2 DEF IsKept
<1>4. saved /\ ~tainted => \A s \in Shards : diskAnchor[s] <= Kept'
  BY <1>2 DEF RestartInv, TypeOK
<1> QED BY <1>2, <1>3, <1>4 DEF RestartInv, RestartSucceeds

\* A step keeps the data directory one that loads.
LEMMA RestartStep ==
  ASSUME ~MachineCrash \/ FsyncAlways, TypeOK, LockInv, WalkInv, DiskInv, WindowInv, ReplayInv,
         RestartInv, [Next]_vars
  PROVE  RestartInv'
<1> USE DEF TypeOK, ackVars, logVars, lockVars, clientVars, snapVars, diskVars, modeVars
<1>1. ASSUME NEW c \in Clients, NEW e \in Effects, BeginWrite(c, e) PROVE RestartInv'
  BY <1>1, RestartFrame DEF BeginWrite
<1>2. ASSUME NEW c \in Clients, NEW q \in Transactions, BeginExec(c, q) PROVE RestartInv'
  BY <1>2, RestartFrame DEF BeginExec
<1>3. ASSUME NEW c \in Clients, EnterGuard(c) PROVE RestartInv'
  BY <1>3, RestartFrame DEF EnterGuard
<1>4. ASSUME NEW c \in Clients, Lock(c) PROVE RestartInv'
  BY <1>4, RestartFrame DEF Lock, TakeLock, Missing
<1>5. ASSUME NEW c \in Clients, Run(c) PROVE RestartInv'
  BY <1>5, RestartFrame DEF Run
<1>6. ASSUME NEW c \in Clients, RunRefused(c) PROVE RestartInv'
  BY <1>6, RestartFrame DEF RunRefused
<1>7. ASSUME NEW c \in Clients, Propagate(c) PROVE RestartInv'
  <2>1. /\ Kept \in Nat /\ Kept' \in Nat /\ Kept <= Kept' /\ forced' <= Offset'
        /\ UNCHANGED <<oldest, spc, shard, anchor, saved, diskAnchor, tainted, acked, mode>>
    <3>1. /\ forced' = (IF FsyncAlways THEN Offset + 1 ELSE forced)
          /\ UNCHANGED <<oldest, spc, shard, anchor, saved, diskAnchor, tainted, acked, mode>>
      BY <1>7 DEF Propagate
    <3>2. Offset \in Nat /\ Offset' = Offset + 1 /\ forced \in Nat /\ forced <= Offset
      BY <1>7, PropagateExtends DEF RestartInv
    <3> QED BY <3>1, <3>2 DEF Kept
  <2>2. /\ Kept' = Offset' /\ Offset' = Offset + 1 /\ Offset \in Nat
        /\ log'[Offset + 1] = Head(queue[c])
    <3>1. FsyncAlways => forced' = Offset + 1
      BY <1>7 DEF Propagate
    <3> QED BY <1>7, <3>1, PropagateExtends DEF Kept
  <2>3. \A a : IsKept(a) => IsKept(a)'
    BY <1>7, <2>1, KeptGrows
  <2>4. ASSUME NEW d \in Clients, NEW a \in wrote'[d] PROVE IsKept(a)'
    <3>1. a \in wrote[d] \/ a = <<Offset + 1, Head(queue[c])>>
      BY <1>7, <2>4 DEF Propagate
    <3>2. CASE a \in wrote[d]
      BY <2>3, <3>2 DEF RestartInv
    <3>3. CASE a = <<Offset + 1, Head(queue[c])>>
      BY <2>2, <3>3 DEF IsKept
    <3> QED BY <3>1, <3>2, <3>3
  <2> QED BY ONLY RestartInv, RestartGrows, <2>1, <2>3, <2>4, TypeOK
<1>8. ASSUME NEW c \in Clients, PropagateFails(c) PROVE RestartInv'
  <2>1. /\ UNCHANGED <<oldest, forced, spc, shard, anchor, saved, diskAnchor, tainted,
                       wrote, acked, mode>>
    BY <1>8 DEF PropagateFails
  <2>2. Kept \in Nat /\ Kept' \in Nat /\ Kept <= Kept' /\ forced' <= Offset'
    <3>1. Offset \in Nat /\ Offset' \in {Offset, Offset + 1} /\ forced \in Nat /\ forced <= Offset
      BY <1>8, PropagateExtends DEF RestartInv
    <3> QED BY <2>1, <3>1 DEF Kept
  <2>3. \A a : IsKept(a) => IsKept(a)'
    BY <1>8, <2>2, KeptGrows
  <2>4. ASSUME NEW d \in Clients, NEW a \in wrote'[d] PROVE IsKept(a)'
    BY <2>1, <2>3, <2>4 DEF RestartInv
  <2> QED BY ONLY RestartInv, RestartGrows, <2>1, <2>2, <2>3, <2>4, TypeOK
<1>9. ASSUME NEW c \in Clients, Reply(c) PROVE RestartInv'
  <2>1. /\ Offset' = Offset
        /\ UNCHANGED <<log, oldest, forced, spc, shard, anchor, saved, diskAnchor,
                       tainted, mode>>
    BY <1>9 DEF Reply, Offset
  <2>2. (AnchorSet(0)' <=> AnchorSet(0)) /\ Kept' = Kept /\ \A a : IsKept(a)' <=> IsKept(a)
    BY <2>1 DEF AnchorSet, Done, Kept, IsKept
  <2>3. /\ acked' = acked \cup wrote[c]
        /\ \A d \in Clients : wrote'[d] \subseteq wrote[d]
    BY <1>9 DEF Reply
  <2> QED BY <2>1, <2>2, <2>3 DEF RestartInv, RestartSucceeds
<1>10. ASSUME SnapStart PROVE RestartInv'
  BY <1>10, RestartIdle DEF SnapStart, Walking
<1>11. ASSUME SnapWindow PROVE RestartInv'
  BY <1>11, RestartIdle DEF SnapWindow, LockInv, SnapLocks
<1>12. ASSUME SnapProp PROVE RestartInv'
  <2>1. AnchorSet(0)' <=> AnchorSet(0)
    BY <1>12 DEF SnapProp, AnchorSet, Done, Walking
  <2>2. /\ Offset' = Offset /\ Kept' = Kept /\ \A a : IsKept(a)' <=> IsKept(a)
        /\ UNCHANGED <<oldest, forced, anchor, saved, diskAnchor, tainted, wrote, acked, mode>>
        /\ spc' = "anchor"
    BY <1>12 DEF SnapProp, Offset, Kept, IsKept
  <2> QED BY <2>1, <2>2 DEF RestartInv, RestartSucceeds
<1>13. ASSUME SnapAnchor PROVE RestartInv'
  <2>1. /\ anchor' = [anchor EXCEPT ![shard] = Offset] /\ Offset \in Nat
        /\ spc = "anchor" /\ spc' = "walk" /\ Offset' = Offset
        /\ UNCHANGED <<oldest, forced, saved, diskAnchor, tainted, wrote, acked, mode>>
        /\ Kept' = Kept /\ \A a : IsKept(a)' <=> IsKept(a)
    BY <1>13 DEF SnapAnchor, Offset, Kept, IsKept
  <2>2. oldest <= Offset
    BY <2>1, ShardFacts DEF RestartInv, DiskInv, LockInv
  <2>3. oldest <= anchor'[0]
    <3>1. CASE shard = 0
      BY <2>1, <2>2, <3>1
    <3>2. CASE shard # 0
      <4>1. anchor'[0] = anchor[0] /\ AnchorSet(0)
        BY <2>1, <3>2, ShardFacts DEF AnchorSet, Done, Walking
      <4> QED BY <4>1 DEF RestartInv
    <3> QED BY <3>1, <3>2
  <2> QED BY <2>1, <2>3 DEF RestartInv, RestartSucceeds
<1>14. ASSUME SnapWalk PROVE RestartInv'
  <2>1. /\ UNCHANGED <<anchor, oldest, forced, saved, diskAnchor, tainted, wrote, acked, mode>>
        /\ spc = "walk" /\ spc' \in {"commit", "prop"} /\ Offset' = Offset
        /\ Kept' = Kept /\ \A a : IsKept(a)' <=> IsKept(a)
    BY <1>14 DEF SnapWalk, Offset, Kept, IsKept
  <2>2. AnchorSet(0)
    BY <2>1, ShardFacts DEF AnchorSet, Done, Walking
  <2> QED BY <2>1, <2>2 DEF RestartInv, RestartSucceeds
<1>15. ASSUME SnapCommit PROVE RestartInv'
  <2>1. /\ diskAnchor' = anchor /\ saved' = TRUE /\ spc = "commit" /\ spc' \in {"roll", "idle"}
        /\ UNCHANGED <<oldest, forced, wrote, acked, mode>> /\ Offset' = Offset
        /\ Kept' = Kept /\ \A a : IsKept(a)' <=> IsKept(a)
    BY <1>15 DEF SnapCommit, Offset, Kept, IsKept
  <2>2. \A s \in Shards : AnchorSet(s) /\ anchor[s] <= Offset
    BY <2>1 DEF WalkInv, AnchorSet, Done
  <2>3. oldest <= anchor[0]
    BY <2>2, ShardFacts DEF RestartInv
  <2>4. ~AnchorSet(0)'
    BY <2>1 DEF AnchorSet, Done, Walking
  <2>5. ~tainted' => Offset <= Kept
    <3>1. FsyncAlways /\ ~tainted' => ~(forced < Offset)
      BY <1>15, Zenon DEF SnapCommit
    <3>2. Offset \in Nat /\ forced \in Nat
      BY DEF Offset
    <3> QED BY <3>1, <3>2 DEF Kept
  <2>6. ~tainted' => \A s \in Shards : diskAnchor'[s] <= Kept
    <3>1. Offset \in Nat /\ Kept \in Nat /\ anchor \in [Shards -> Nat]
      BY DEF Offset, Kept
    <3> QED BY <2>1, <2>2, <2>5, <3>1
  <2>7. mode = "serving"
    BY <2>1 DEF LockInv
  <2> QED BY <2>1, <2>3, <2>4, <2>6, <2>7 DEF RestartInv, RestartSucceeds
<1>16. ASSUME SnapAbort PROVE RestartInv'
  BY <1>16, RestartIdle DEF SnapAbort, Discard, Walking
<1>17. ASSUME SnapRoll PROVE RestartInv'
  <2>1. /\ forced' \in {forced, Offset} /\ spc' \in {"idle", "prune"} /\ spc = "roll"
        /\ UNCHANGED <<log, oldest, anchor, saved, diskAnchor, tainted, wrote, acked, mode>>
    BY <1>17 DEF SnapRoll
  <2>2. ~AnchorSet(0)' /\ saved
    BY <2>1 DEF AnchorSet, Done, Walking, RestartInv
  <2> HIDE DEF TypeOK
  <2> QED BY <2>1, <2>2, RestartForced
<1>18. ASSUME SnapPrune PROVE RestartInv'
  <2>1. /\ spc = "prune" /\ spc' = "idle" /\ oldest' <= diskAnchor[0]
        /\ UNCHANGED <<forced, saved, diskAnchor, tainted, wrote, acked, mode>> /\ Offset' = Offset
        /\ Kept' = Kept /\ \A a : IsKept(a)' <=> IsKept(a)
    BY <1>18, ShardFacts DEF SnapPrune, Offset, Kept, IsKept
  <2>2. ~AnchorSet(0)'
    BY <2>1 DEF AnchorSet, Done, Walking
  <2>3. saved
    BY <2>1 DEF RestartInv
  <2> QED BY <2>1, <2>2, <2>3 DEF RestartInv, RestartSucceeds
<1>19. ASSUME BackgroundSync PROVE RestartInv'
  <2>1. /\ forced' \in {forced, Offset}
        /\ UNCHANGED <<log, oldest, spc, shard, anchor, saved, diskAnchor, tainted,
                       wrote, acked, mode>>
    BY <1>19 DEF BackgroundSync
  <2>2. AnchorSet(0)' => AnchorSet(0)
    BY <2>1 DEF AnchorSet, Done
  <2>3. spc' \in {"roll", "prune"} => saved
    BY <2>1 DEF RestartInv
  <2> HIDE DEF TypeOK
  <2> QED BY <2>1, <2>2, <2>3, RestartForced
<1>20. ASSUME Crash PROVE RestartInv'
  <2> HIDE DEF TypeOK
  <2>1. PICK n \in 0 .. Len(File) :
          /\ Offset' = n /\ \A i \in 1 .. n : log'[i] = File[i]
          /\ IF MachineCrash THEN forced <= n ELSE n = Len(File)
    BY <1>20, CrashCuts
  <2>2. /\ Len(File) \in Nat /\ Offset \in Nat /\ Offset <= Len(File)
        /\ \A i \in 1 .. Offset : File[i] = log[i]
    BY FileFacts
  <2>3. /\ spc' = "idle" /\ mode' = "load"
        /\ UNCHANGED <<oldest, forced, acked, saved, diskAnchor, tainted>>
        /\ \A c \in Clients : wrote'[c] = {}
    BY <1>20 DEF Crash
  <2>4. ~AnchorSet(0)'
    BY <2>3 DEF AnchorSet, Done, Walking
  <2>5. forced \in Nat /\ forced <= Offset
    BY DEF RestartInv, TypeOK
  <2>6. forced <= n /\ Kept <= Offset /\ Kept \in Nat /\ Kept' \in Nat /\ Kept <= Kept' /\ Kept <= n
    BY <2>1, <2>2, <2>3, <2>5 DEF Kept
  <2>7. \A a : IsKept(a) => IsKept(a)'
    BY <2>1, <2>2, <2>6 DEF IsKept
  <2>8. saved /\ ~tainted => \A s \in Shards : diskAnchor[s] <= Kept'
    <3>1. diskAnchor \in [Shards -> Nat]
      BY DEF TypeOK
    <3> QED BY <2>6, <3>1 DEF RestartInv
  <2> QED BY <2>1, <2>3, <2>4, <2>6, <2>7, <2>8 DEF RestartInv, RestartSucceeds
<1>21. ASSUME Load PROVE RestartInv'
  <2>1. /\ UNCHANGED <<log, oldest, forced, spc, shard, anchor, saved, diskAnchor, tainted,
                       wrote, acked>>
        /\ Offset' = Offset /\ Kept' = Kept /\ \A a : IsKept(a)' <=> IsKept(a)
    BY <1>21 DEF Load, Offset, Kept, IsKept
  <2>2. AnchorSet(0)' <=> AnchorSet(0)
    BY <2>1 DEF AnchorSet, Done
  <2>3. mode' # "refused"
    BY <1>21, ShardFacts DEF Load, RestartInv
  <2> QED BY <2>1, <2>2, <2>3 DEF RestartInv, RestartSucceeds
<1>22. ASSUME Replay PROVE RestartInv'
  <2>1. /\ UNCHANGED <<log, oldest, forced, spc, shard, anchor, saved, diskAnchor, tainted,
                       wrote, acked>>
        /\ Offset' = Offset /\ Kept' = Kept /\ \A a : IsKept(a)' <=> IsKept(a)
    BY <1>22 DEF Replay, Offset, Kept, IsKept
  <2>2. AnchorSet(0)' <=> AnchorSet(0)
    BY <2>1 DEF AnchorSet, Done
  <2>3. mode' # "refused"
    <3> SUFFICES ASSUME mode' = "refused" PROVE FALSE
      OBVIOUS
    <3> DEFINE e == log[rpos + 1]
    <3>1. /\ mode = "replay" /\ rpos < Offset /\ e.cross
          /\ {s \in e.keys : Wants(s, rpos)} # e.keys
      BY <1>22 DEF Replay
    <3>2. e.keys \subseteq Shards
      BY <3>1 DEF Offset
    <3>3. PICK s \in Shards : saved /\ ~(rpos >= diskAnchor[s])
      BY <3>1, <3>2 DEF Wants
    <3>4. diskAnchor[s] <= rpos
      BY <3>1, <3>3, CrossPastAnchors DEF ReplayInv
    <3> QED BY <3>3, <3>4
  <2> QED BY <2>1, <2>2, <2>3 DEF RestartInv, RestartSucceeds
<1>23. ASSUME Serve PROVE RestartInv'
  <2>1. /\ UNCHANGED <<log, oldest, forced, spc, shard, anchor, saved, diskAnchor, tainted,
                       wrote, acked>>
        /\ Offset' = Offset /\ Offset \in Nat /\ Kept' = Kept
        /\ \A a : IsKept(a)' <=> IsKept(a)
    BY <1>23 DEF Serve, Offset, Kept, IsKept
  <2>2. AnchorSet(0)' <=> AnchorSet(0)
    BY <2>1 DEF AnchorSet, Done
  <2>3. saved /\ ~tainted => ~(Offset < diskAnchor[LastShard])
    BY <2>1, ShardFacts DEF RestartInv, Kept
  <2>4. mode' = "refused" => tainted
    BY <1>23, <2>3 DEF Serve
  <2> QED BY <2>1, <2>2, <2>4 DEF RestartInv, RestartSucceeds
<1>24. ASSUME UNCHANGED vars PROVE RestartInv'
  BY <1>24, RestartFrame DEF vars
<1> QED BY <1>1, <1>2, <1>3, <1>4, <1>5, <1>6, <1>7, <1>8, <1>9, <1>10, <1>11,
           <1>12, <1>13, <1>14, <1>15, <1>16, <1>17, <1>18, <1>19, <1>20,
           <1>21, <1>22, <1>23, <1>24 DEF Next, Client, Snapshot, Restore

\* Where a crash loses nothing that is in the log, RestartInv always holds.
LEMMA RestartHolds ==
  ASSUME ~CrossInExec, ~MachineCrash \/ FsyncAlways
  PROVE  Spec => []RestartInv
<1>1. Init => RestartInv
  <2> SUFFICES ASSUME Init PROVE RestartInv
    OBVIOUS
  <2>1. Offset = 0
    BY DEF Init, Offset
  <2>2. ~AnchorSet(0)
    BY DEF Init, AnchorSet, Done, Walking
  <2>3. acked = {} /\ \A c \in Clients : wrote[c] = {}
    BY DEF Init
  <2> QED BY <2>1, <2>2, <2>3 DEF Init, RestartInv, RestartSucceeds
<1>2. Inv /\ RestartInv /\ [Next]_vars => RestartInv'
  BY RestartStep DEF Inv
<1> QED BY <1>1, <1>2, InvHolds, PTL DEF Spec

\* A leader restarts whatever moment a crash chose and whatever a failed append
\* left in its file, unless its snapshot is tainted: a process crash, or under
\* fsync always a machine crash.
THEOREM RestartAlwaysSucceeds ==
  ASSUME ~CrossInExec, ~MachineCrash \/ FsyncAlways
  PROVE  Spec => []RestartSucceeds
<1>1. RestartInv => RestartSucceeds
  BY DEF RestartInv
<1> QED BY <1>1, RestartHolds, PTL

\* Every effect an answered command has logged is in the log where it was logged,
\* before a crash and after it: a process crash, or under fsync always a machine
\* crash.
THEOREM AckedIsDurable ==
  ASSUME ~CrossInExec, ~MachineCrash \/ FsyncAlways
  PROVE  Spec => []AckedSurvives
<1>1. TypeOK /\ RestartInv => AckedSurvives
  <2> SUFFICES ASSUME TypeOK, RestartInv, NEW a \in acked
               PROVE  a[1] \in DOMAIN log /\ log[a[1]] = a[2]
    BY DEF AckedSurvives
  <2>1. /\ DOMAIN log = 1 .. Offset /\ Offset \in Nat /\ forced \in Nat
        /\ forced <= Offset
    BY FileFacts DEF TypeOK, RestartInv
  <2>2. IsKept(a)
    BY DEF RestartInv
  <2> QED BY <2>1, <2>2 DEF Kept, IsKept
<1>2. Inv => TypeOK
  BY DEF Inv
<1> QED BY <1>1, <1>2, InvHolds, RestartHolds, PTL
=============================================================================
