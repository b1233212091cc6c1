---------------------------- MODULE GroupCommit ----------------------------
(***************************************************************************)
(* One segment of the append log (persist/log.go): concurrent appenders    *)
(* stage records in a shared buffer, one of them writes the whole batch    *)
(* with the mutex released, and everyone whose record it carried returns.  *)
(*                                                                         *)
(* A record is named by the stream offset it was assigned, and every       *)
(* record is one unit long, so "the record Append(a) was told is at offset *)
(* n" is the number n and the file is right when its i-th record is        *)
(* Base + i - 1.  A record cut short by a failed write is Torn.            *)
(*                                                                         *)
(* The mutex mu is explicit.  A step that does not hold it is a system     *)
(* call, a wake-up or the atomic store of SetFsync.                        *)
(***************************************************************************)
EXTENDS Integers, Sequences, FiniteSets

CONSTANTS
  Appenders,   \* goroutines inside Log.Append / Log.AppendRaw
  Syncer,      \* the syncLoop goroutine
  Closer,      \* the goroutine that closes the segment (Roll, Reset, Close)
  NoThread,    \* "nobody"
  Base,        \* stream offset of the segment's first record
  MaxRecords,  \* bound: records staged
  IOErrors     \* may a write or an fsync fail?

Threads == Appenders \cup {Syncer, Closer}

ASSUME ThreadsAssumption ==
  /\ Syncer \notin Appenders
  /\ Closer \notin Appenders
  /\ Syncer # Closer
  /\ NoThread \notin Threads

ASSUME BoundsAssumption ==
  /\ Base \in Nat
  /\ MaxRecords \in Nat
  /\ IOErrors \in BOOLEAN

Policies == {"always", "everysec", "no"}
Torn == -1

VARIABLES
  mu,        \* holder of segment.mu
  pc,        \* where each thread is
  pending,   \* records staged and not yet taken into a batch
  assigned,  \* offset the next record gets
  offset,    \* offset just past the last record that reached the file
  batch,     \* the batch being written
  flusher,   \* the thread in flushLocked; flushing == flusher # NoThread
  fpolicy,   \* the policy that flush read
  fresult,   \* how its system calls went so far
  waiters,   \* threads counted by segment.waiters
  at,        \* offset assigned to each appender's record
  dirty,     \* written to the OS and not yet forced
  err,       \* the sticky error
  policy,    \* segment.fsync
  stopped,   \* segment.stop is closed
  file,      \* the file's contents as the OS has them
  synced,    \* how many records of the file are on stable storage
  acked,     \* offsets returned to a caller without an error
  promised,  \* appenders whose record was staged under "always", unchanged since
  forced     \* offsets acknowledged to an appender in "promised"

segmentVars == <<pending, assigned, offset, batch, flusher, fpolicy, fresult,
                 waiters, dirty, err>>
diskVars == <<file, synced>>
historyVars == <<acked, promised, forced>>
vars == <<mu, pc, pending, assigned, offset, batch, flusher, fpolicy, fresult,
          waiters, at, dirty, err, policy, stopped, file, synced, acked,
          promised, forced>>

flushing == flusher # NoThread

\* The length of the file that offset and the file's own length agree on.
Written == offset - Base

TypeOK ==
  /\ mu \in Threads \cup {NoThread}
  /\ pc \in [Threads -> {"idle", "loop", "write", "fsync", "relock",
                         "asleep", "woken", "want", "join", "done"}]
  /\ pending \in Seq(Nat)
  /\ assigned \in Nat
  /\ offset \in Nat
  /\ batch \in Seq(Nat)
  /\ flusher \in Threads \cup {NoThread}
  /\ fpolicy \in Policies
  /\ fresult \in {"ok", "writeErr", "syncErr"}
  /\ waiters \in SUBSET Threads
  /\ at \in [Appenders -> Nat]
  /\ dirty \in BOOLEAN
  /\ err \in {"none", "io", "closed"}
  /\ policy \in Policies
  /\ stopped \in BOOLEAN
  /\ file \in Seq(Nat \cup {Torn})
  /\ synced \in Nat
  /\ acked \in SUBSET Nat
  /\ promised \in SUBSET Appenders
  /\ forced \in SUBSET Nat

\* createSegment / startSegment: an empty file whose header has been forced.
Init ==
  /\ mu = NoThread
  /\ pc = [t \in Threads |-> "idle"]
  /\ pending = <<>>
  /\ assigned = Base
  /\ offset = Base
  /\ batch = <<>>
  /\ flusher = NoThread
  /\ fpolicy = "no"
  /\ fresult = "ok"
  /\ waiters = {}
  /\ at = [a \in Appenders |-> 0]
  /\ dirty = FALSE
  /\ err = "none"
  /\ policy \in Policies
  /\ stopped = FALSE
  /\ file = <<>>
  /\ synced = 0
  /\ acked = {}
  /\ promised = {}
  /\ forced = {}

-----------------------------------------------------------------------------
(***************************************************************************)
(* Log.mu.  Append and AppendRaw hold it shared from before the segment is *)
(* chosen until its append returned; Roll, Reset and Close take it         *)
(* exclusively, and a waiting writer holds new readers back.               *)
(***************************************************************************)
InAppend(a) == pc[a] # "idle"
ExclusiveWanted == pc[Closer] # "idle"
Quiescent == \A a \in Appenders : ~InAppend(a)

\* A bug: the buffers are not swapped, so a batch is staged again.
BeginFlush_KeepsPending(t) ==
  /\ batch' = pending
  /\ flusher' = t
  /\ fpolicy' = policy
  /\ fresult' = "ok"
  /\ pc' = [pc EXCEPT ![t] = "write"]
  /\ mu' = NoThread
  /\ UNCHANGED <<pending, assigned, offset, waiters, dirty, err>>

\* l.mu.Unlock() in flushLocked and the start of its system calls.
BeginFlush(t) ==
  /\ batch' = pending
  /\ pending' = <<>>
  /\ flusher' = t
  /\ fpolicy' = policy
  /\ fresult' = "ok"
  /\ pc' = [pc EXCEPT ![t] = "write"]
  /\ mu' = NoThread
  /\ UNCHANGED <<assigned, offset, waiters, dirty, err>>

\* l.waiters++; l.flushWait.Wait(): registered, asleep, mutex released.
Sleep(t) ==
  /\ waiters' = waiters \cup {t}
  /\ pc' = [pc EXCEPT ![t] = "asleep"]
  /\ mu' = NoThread
  /\ UNCHANGED <<pending, assigned, offset, batch, flusher, fpolicy, fresult,
                 dirty, err>>

(***************************************************************************)
(* Append, AppendRaw and the head of stageLocked: the sticky error is      *)
(* checked, then the record is staged at the offset it is assigned.        *)
(***************************************************************************)
StartAppend(a) ==
  /\ pc[a] = "idle"
  /\ mu = NoThread
  /\ ~ExclusiveWanted
  /\ err = "none"
  /\ assigned < Base + MaxRecords
  /\ mu' = a
  /\ pc' = [pc EXCEPT ![a] = "loop"]
  /\ at' = [at EXCEPT ![a] = assigned]
  /\ pending' = Append(pending, assigned)
  /\ assigned' = assigned + 1
  /\ promised' = IF policy = "always" THEN promised \cup {a}
                                      ELSE promised \ {a}
  /\ UNCHANGED <<offset, batch, flusher, fpolicy, fresult, waiters, dirty,
                 err, policy, stopped, file, synced, acked, forced>>

\* stageLocked returns at: the caller may acknowledge the write.
ReturnOK(a) ==
  /\ acked' = acked \cup {at[a]}
  /\ forced' = IF a \in promised THEN forced \cup {at[a]} ELSE forced
  /\ pc' = [pc EXCEPT ![a] = "idle"]
  /\ mu' = NoThread
  /\ UNCHANGED segmentVars

\* stageLocked returns the sticky error.
ReturnErr(a) ==
  /\ pc' = [pc EXCEPT ![a] = "idle"]
  /\ mu' = NoThread
  /\ UNCHANGED <<segmentVars, acked, forced>>

(***************************************************************************)
(* One turn of stageLocked's loop, mutex held.  The fast path above the    *)
(* loop takes the same branches: a thread that has just staged its record  *)
(* flushes unless somebody else is flushing.                               *)
(***************************************************************************)
StageLoop(a) ==
  /\ pc[a] = "loop"
  /\ mu = a
  /\ \/ err # "none" /\ ReturnErr(a)
     \/ err = "none" /\ offset >= at[a] + 1 /\ ReturnOK(a)
     \/ /\ err = "none" /\ offset < at[a] + 1 /\ flushing
        /\ Sleep(a)
        /\ UNCHANGED <<acked, forced>>
     \/ /\ err = "none" /\ offset < at[a] + 1 /\ ~flushing
        /\ BeginFlush(a)
        /\ UNCHANGED <<acked, forced>>
  /\ UNCHANGED <<at, policy, stopped, diskVars, promised>>

-----------------------------------------------------------------------------
(***************************************************************************)
(* flushLocked between its Unlock and its Lock.                            *)
(***************************************************************************)
\* _, writeErr := l.f.Write(batch).  A failed write may leave any proper
\* prefix of the batch in the file, the last record of it cut short.
WriteBatch(t) ==
  /\ pc[t] = "write"
  /\ \/ /\ file' = file \o batch
        /\ pc' = [pc EXCEPT ![t] = IF fpolicy = "always" THEN "fsync"
                                                        ELSE "relock"]
        /\ UNCHANGED fresult
     \/ /\ IOErrors
        /\ \E k \in 0 .. Len(batch) - 1, cut \in {<<>>, <<Torn>>} :
             file' = file \o SubSeq(batch, 1, k) \o cut
        /\ fresult' = "writeErr"
        /\ pc' = [pc EXCEPT ![t] = "relock"]
  /\ UNCHANGED <<mu, pending, assigned, offset, batch, flusher, fpolicy,
                 waiters, at, dirty, err, policy, stopped, synced, historyVars>>

\* A bug: the result of the fsync under always is dropped.
SyncBatch_ErrorDropped(t) ==
  /\ pc[t] = "fsync"
  /\ pc' = [pc EXCEPT ![t] = "relock"]
  /\ synced' = Len(file) \/ (IOErrors /\ UNCHANGED synced)
  /\ UNCHANGED <<mu, pending, assigned, offset, batch, flusher, fpolicy,
                 fresult, waiters, at, dirty, err, policy, stopped, file,
                 historyVars>>

\* syncErr = l.f.Sync(), only under always and after a write that succeeded.
SyncBatch(t) ==
  /\ pc[t] = "fsync"
  /\ pc' = [pc EXCEPT ![t] = "relock"]
  /\ \/ synced' = Len(file) /\ UNCHANGED fresult
     \/ IOErrors /\ fresult' = "syncErr" /\ UNCHANGED synced
  /\ UNCHANGED <<mu, pending, assigned, offset, batch, flusher, fpolicy,
                 waiters, at, dirty, err, policy, stopped, file, historyVars>>

\* A bug: the offset moves over the batch before the write's error is seen.
FlushOutcome_CountsFailedWrite ==
  /\ offset' = offset + Len(batch)
  /\ err' = IF fresult = "ok" \/ err # "none" THEN err ELSE "io"
  /\ dirty' = CASE fresult # "ok" -> dirty
                [] OTHER -> fpolicy # "always"

\* A bug: a failed batch is taken off the offset it was never added to.
FlushOutcome_RollsBack ==
  /\ offset' = IF fresult = "writeErr" THEN offset - Len(batch)
                                       ELSE offset + Len(batch)
  /\ err' = IF fresult = "ok" \/ err # "none" THEN err ELSE "io"
  /\ dirty' = CASE fresult # "ok" -> dirty
                [] OTHER -> fpolicy # "always"

\* A bug: the policy is read again after the flush, when it may have changed.
FlushOutcome_RereadsPolicy ==
  /\ offset' = IF fresult = "writeErr" THEN offset ELSE offset + Len(batch)
  /\ err' = IF fresult = "ok" \/ err # "none" THEN err ELSE "io"
  /\ dirty' = CASE fresult # "ok" -> dirty
                [] OTHER -> policy # "always"

\* The offset, the error and the dirty flag a flush leaves behind.
FlushOutcome ==
  /\ offset' = IF fresult = "writeErr" THEN offset ELSE offset + Len(batch)
  /\ err' = IF fresult = "ok" \/ err # "none" THEN err ELSE "io"
  /\ dirty' = CASE fresult # "ok" -> dirty
                [] OTHER -> fpolicy # "always"

\* A bug: the broadcast is after the early return on a failed write.
FinishFlush_SilentOnError(t) ==
  /\ pc[t] = "relock"
  /\ mu = NoThread
  /\ mu' = t
  /\ flusher' = NoThread
  /\ batch' = <<>>
  /\ FlushOutcome
  /\ pc' = [u \in Threads |->
              CASE u = t -> "loop"
                [] u # t /\ pc[u] = "asleep" /\ fresult = "ok" -> "woken"
                [] OTHER -> pc[u]]
  /\ UNCHANGED <<pending, assigned, fpolicy, fresult, waiters, at, policy,
                 stopped, diskVars, historyVars>>

\* flushLocked after its Lock.  The broadcast happens only if somebody is
\* counted in waiters, and it wakes every thread on the condition variable.
FinishFlush(t) ==
  /\ pc[t] = "relock"
  /\ mu = NoThread
  /\ mu' = t
  /\ flusher' = NoThread
  /\ batch' = <<>>
  /\ FlushOutcome
  /\ pc' = [u \in Threads |->
              CASE u = t -> "loop"
                [] u # t /\ pc[u] = "asleep" /\ waiters # {} -> "woken"
                [] OTHER -> pc[u]]
  /\ UNCHANGED <<pending, assigned, fpolicy, fresult, waiters, at, policy,
                 stopped, diskVars, historyVars>>

\* flushWait.Wait() returns with the mutex; l.waiters--; continue.
Wake(t) ==
  /\ pc[t] = "woken"
  /\ mu = NoThread
  /\ mu' = t
  /\ waiters' = waiters \ {t}
  /\ pc' = [pc EXCEPT ![t] = "loop"]
  /\ UNCHANGED <<pending, assigned, offset, batch, flusher, fpolicy, fresult,
                 at, dirty, err, policy, stopped, diskVars, historyVars>>

-----------------------------------------------------------------------------
(***************************************************************************)
(* syncLocked and drainLocked, run by syncLoop once a second and by Close. *)
(***************************************************************************)
\* syncLocked returns to its caller e; Close then closes the file and
\* leaves the sticky error "log is closed" behind if there was none.
LeaveSync(t, e) ==
  /\ mu' = NoThread
  /\ pc' = [pc EXCEPT ![t] = IF t = Closer THEN "done" ELSE "idle"]
  /\ err' = IF t = Closer /\ e = "none" THEN "closed" ELSE e

\* A bug: appendfsync no is taken to mean that not even a close forces.
ForceFile_NotUnderNo(t) ==
  /\ \/ /\ ~dirty \/ policy = "no"
        /\ LeaveSync(t, err)
        /\ UNCHANGED <<dirty, synced>>
     \/ /\ dirty
        /\ dirty' = FALSE
        /\ synced' = Len(file)
        /\ LeaveSync(t, err)
  /\ UNCHANGED <<pending, assigned, offset, batch, flusher, fpolicy, fresult,
                 waiters>>

\* The drainer finds nothing staged and nothing in flight: force the file.
ForceFile(t) ==
  /\ \/ ~dirty /\ LeaveSync(t, err) /\ UNCHANGED <<dirty, synced>>
     \/ /\ dirty
        /\ dirty' = FALSE
        /\ synced' = Len(file)
        /\ LeaveSync(t, err)
     \/ /\ dirty /\ IOErrors
        /\ LeaveSync(t, "io")
        /\ UNCHANGED <<dirty, synced>>
  /\ UNCHANGED <<pending, assigned, offset, batch, flusher, fpolicy, fresult,
                 waiters>>

\* A bug: a drainer that sleeps without registering as a waiter.
DrainSleep_Unregistered(t) ==
  /\ pc' = [pc EXCEPT ![t] = "asleep"]
  /\ mu' = NoThread
  /\ UNCHANGED segmentVars

\* drainLocked waits like an appender does, counted in waiters.
DrainSleep(t) == Sleep(t)

\* One turn of drainLocked's loop and, when it is through, the rest of
\* syncLocked.  f.Sync() runs with the mutex held here.
DrainLoop(t) ==
  /\ t \in {Syncer, Closer}
  /\ pc[t] = "loop"
  /\ mu = t
  /\ \/ /\ err # "none"
        /\ LeaveSync(t, err)
        /\ UNCHANGED <<pending, assigned, offset, batch, flusher, fpolicy,
                       fresult, waiters, dirty, synced>>
     \/ err = "none" /\ flushing /\ DrainSleep(t) /\ UNCHANGED synced
     \/ /\ err = "none" /\ ~flushing /\ pending # <<>>
        /\ BeginFlush(t)
        /\ UNCHANGED synced
     \/ err = "none" /\ ~flushing /\ pending = <<>> /\ ForceFile(t)
  /\ UNCHANGED <<at, policy, stopped, file, historyVars>>

\* The ticker fires while the policy is everysec; the mutex comes next, as it
\* does to a thread that has been woken.
SyncTick ==
  /\ pc[Syncer] = "idle"
  /\ policy = "everysec"
  /\ pc' = [pc EXCEPT ![Syncer] = "woken"]
  /\ UNCHANGED <<mu, segmentVars, at, policy, stopped, diskVars, historyVars>>

\* syncLoop sees stop closed and returns.  A tick may be chosen over it.
SyncStop ==
  /\ pc[Syncer] = "idle"
  /\ stopped
  /\ pc' = [pc EXCEPT ![Syncer] = "done"]
  /\ UNCHANGED <<mu, segmentVars, at, policy, stopped, diskVars, historyVars>>

-----------------------------------------------------------------------------
(***************************************************************************)
(* Close, as Roll, Reset and Log.Close call it with Log.mu exclusive.      *)
(***************************************************************************)
CloseRequest ==
  /\ pc[Closer] = "idle"
  /\ pc' = [pc EXCEPT ![Closer] = "want"]
  /\ UNCHANGED <<mu, segmentVars, at, policy, stopped, diskVars, historyVars>>

\* The exclusive lock is granted; stopOnce closes stop.
CloseStop ==
  /\ pc[Closer] = "want"
  /\ Quiescent
  /\ stopped' = TRUE
  /\ pc' = [pc EXCEPT ![Closer] = "join"]
  /\ UNCHANGED <<mu, segmentVars, at, policy, diskVars, historyVars>>

\* wg.Wait() returns and Close takes the mutex.
CloseJoin ==
  /\ pc[Closer] = "join"
  /\ pc[Syncer] = "done"
  /\ mu = NoThread
  /\ mu' = Closer
  /\ pc' = [pc EXCEPT ![Closer] = "loop"]
  /\ UNCHANGED <<segmentVars, at, policy, stopped, diskVars, historyVars>>

\* CONFIG SET appendfsync: an atomic store, with Log.mu held shared.
SetFsync(p) ==
  /\ ~ExclusiveWanted
  /\ policy # p
  /\ policy' = p
  /\ promised' = IF p = "always" THEN promised ELSE {}
  /\ UNCHANGED <<mu, pc, segmentVars, at, stopped, diskVars, acked, forced>>

-----------------------------------------------------------------------------
FlushStep(t) == WriteBatch(t) \/ SyncBatch(t) \/ FinishFlush(t) \/ Wake(t)

Next ==
  \/ \E a \in Appenders : StartAppend(a) \/ StageLoop(a)
  \/ \E t \in Threads : FlushStep(t)
  \/ \E t \in {Syncer, Closer} : DrainLoop(t)
  \/ SyncTick
  \/ SyncStop
  \/ CloseRequest
  \/ CloseStop
  \/ CloseJoin
  \/ \E p \in Policies : SetFsync(p)

Spec == Init /\ [][Next]_vars

(***************************************************************************)
(* A goroutine that can run does run, a system call returns, and           *)
(* sync.Mutex does not starve a goroutine that keeps asking for it (after  *)
(* a millisecond it switches to hand-off), so a thread's next step, which  *)
(* may take mu, is strongly fair.  Nothing makes a client append, a ticker *)
(* be configured or an operator close the log.                             *)
(***************************************************************************)
Fairness ==
  /\ \A a \in Appenders : SF_vars(StageLoop(a) \/ FlushStep(a))
  /\ \A t \in {Syncer, Closer} : SF_vars(DrainLoop(t) \/ FlushStep(t))
  /\ SF_vars(SyncStop)
  /\ WF_vars(CloseStop)
  /\ SF_vars(CloseJoin)

FairSpec == Spec /\ Fairness

-----------------------------------------------------------------------------
(***************************************************************************)
(* Properties.                                                             *)
(***************************************************************************)
\* The i-th record of the file is the one that was assigned that position.
InPlace(n) == \A i \in 1 .. n : file[i] = Base + i - 1

\* Log.Offset counts whole records in stream order only, so a follower or a
\* snapshot anchor that stops at it never meets a staged record, a torn one
\* or one from a batch that failed (Follower's comment in follow.go).
OffsetCountsWholeRecords ==
  /\ Written <= Len(file)
  /\ InPlace(Written)

\* An append that returned without error left its record in the file, at the
\* offset it was told, whatever became of the batches around it.
AckedWritten ==
  \A r \in acked :
    /\ r >= Base
    /\ r - Base < Len(file)
    /\ file[r - Base + 1] = r

\* An acknowledged record staged under appendfsync always, with the policy
\* left alone until the acknowledgement, is on stable storage.
AckedForced == \A r \in forced : r - Base < synced

\* A segment that closed cleanly holds exactly the acknowledged stream and
\* all of it has been forced: nothing was left staged, in flight or dirty.
CleanCloseIsDurable ==
  err = "closed" =>
    /\ pending = <<>>
    /\ Written = Len(file)
    /\ synced = Len(file)
    /\ assigned = offset

\* The dirty flag never claims more than the disk does: a log that thinks it
\* is clean, and is not writing, has nothing left to force.
CleanMeansForced ==
  (~dirty /\ ~flushing /\ err = "none") => synced = Len(file)

\* Nobody sleeps on the condition variable with no flush left to wake it.
NoLostWakeup == \A t \in Threads : pc[t] = "asleep" => flushing /\ waiters # {}

\* The two flags other goroutines act on are honest: dirty, which decides
\* whether anything is forced, and waiters, which decides whether a flush
\* broadcasts.
FlagsHonest == CleanMeansForced /\ NoLostWakeup

\* Every append returns, to a success or to the sticky error.
AppendReturns == \A a \in Appenders : pc[a] = "loop" ~> pc[a] = "idle"

\* Close gets through: draining never wedges Roll, and with it every append.
CloseReturns == (pc[Closer] = "want") ~> (pc[Closer] = "done")
=============================================================================
