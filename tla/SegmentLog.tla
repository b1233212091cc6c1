----------------------------- MODULE SegmentLog -----------------------------
(***************************************************************************)
(* The append log as a directory of segments (persist/segments.go) and the *)
(* followers that feed replicas from it (persist/follow.go).               *)
(*                                                                         *)
(* Offsets count records.  A segment's own group commit is one step here:  *)
(* GroupCommit shows that an append that returns has left its record at    *)
(* the offset it was told, and that nothing is staged while the log's      *)
(* exclusive lock is held.  What remains is the log's RWMutex, the order   *)
(* in which files are created and unlinked, and the wake-up channel.       *)
(***************************************************************************)
EXTENDS Integers, Sequences, FiniteSets, SequencesExt

CONSTANTS
  Writers,       \* goroutines that append
  Followers,     \* one per replica link
  MaxOffset,     \* bound: records appended
  MaxSegs,       \* bound: segment files ever created
  IOErrors,      \* may a write or the creation of a file fail?
  RemoveErrors   \* may the unlinking of a segment fail?

ASSUME SegmentLogAssumption ==
  /\ MaxOffset \in Nat
  /\ MaxSegs \in Nat \ {0}
  /\ IOErrors \in BOOLEAN
  /\ RemoveErrors \in BOOLEAN

VARIABLES
  files,      \* per sequence number: the file on disk
  segs,       \* Log.segs by sequence number: what the log believes it spans
  offset,     \* Log.Offset()
  err,        \* the sticky error of the current segment
  closed,     \* Log.closed
  wpc,        \* each writer
  cpc,        \* the compactor: persistence.Snapshot calling Roll then Prune
  todo,       \* segments Prune has still to unlink
  needed,     \* the oldest offset a committed snapshot still needs
  fpc, off, limit, fseg,   \* each follower: control, position, bound, open file
  signalled   \* followers whose copy of the channel has been closed since taken

logVars == <<files, segs, offset, err, closed>>
compactVars == <<cpc, todo, needed>>
followVars == <<fpc, off, limit, fseg>>
vars == <<files, segs, offset, err, closed, wpc, cpc, todo, needed,
          fpc, off, limit, fseg, signalled>>

\* "bare" is a file that exists without its header.
FileState == {"none", "bare", "ready", "gone"}

TypeOK ==
  /\ files \in [1 .. MaxSegs -> [st : FileState, base : 0 .. MaxOffset,
                                 size : 0 .. MaxOffset + 1]]
  /\ DOMAIN segs \subseteq 1 .. MaxSegs /\ DOMAIN segs # {}
  /\ segs \in [DOMAIN segs -> [base : 0 .. MaxOffset, end : 0 .. MaxOffset]]
  /\ offset \in 0 .. MaxOffset
  /\ err \in {"none", "io", "closed"}
  /\ closed \in BOOLEAN
  /\ wpc \in [Writers -> {"idle", "wake"}]
  /\ cpc \in {"idle", "create", "header", "rolled", "prune"}
  /\ todo \subseteq 1 .. MaxSegs
  /\ needed \in 0 .. MaxOffset
  /\ fpc \in [Followers -> {"off", "next", "read", "seek", "open", "closed?",
                            "take", "recheck", "select", "behind", "lost",
                            "ended"}]
  /\ off \in [Followers -> 0 .. MaxOffset]
  /\ limit \in [Followers -> 0 .. MaxOffset]
  /\ fseg \in [Followers -> 1 .. MaxSegs]
  /\ signalled \subseteq Followers

\* OpenLog on an empty directory: startSegmentLocked(1, 0).
Init ==
  /\ files = [i \in 1 .. MaxSegs |->
                [st |-> IF i = 1 THEN "ready" ELSE "none", base |-> 0, size |-> 0]]
  /\ segs = [q \in {1} |-> [base |-> 0, end |-> 0]]
  /\ offset = 0
  /\ err = "none"
  /\ closed = FALSE
  /\ wpc = [w \in Writers |-> "idle"]
  /\ cpc = "idle"
  /\ todo = {}
  /\ needed = 0
  /\ fpc = [f \in Followers |-> "off"]
  /\ off = [f \in Followers |-> 0]
  /\ limit = [f \in Followers |-> 0]
  /\ fseg = [f \in Followers |-> 1]
  /\ signalled = {}

\* Roll and Prune hold Log.mu exclusively while they are under way.
Exclusive == cpc \in {"create", "header", "prune"}

\* The ends of the slice: the segment being written and the oldest one.
Cur == Max(DOMAIN segs)
Oldest == Min(DOMAIN segs)

\* wake: the channel is closed, which every follower holding it sees, and
\* replaced, which is what a follower takes from then on.
WakeAll == signalled' = Followers

-----------------------------------------------------------------------------
(***************************************************************************)
(* Append and AppendRaw: the record reaches the file under the shared      *)
(* lock; the lock is released; then the followers are woken.               *)
(***************************************************************************)
LogAppend(w) ==
  /\ wpc[w] = "idle"
  /\ ~Exclusive
  /\ err = "none"
  /\ offset < MaxOffset
  /\ files' = [files EXCEPT ![Cur].size = @ + 1]
  /\ offset' = offset + 1
  /\ wpc' = [wpc EXCEPT ![w] = "wake"]
  /\ UNCHANGED <<segs, err, closed, signalled, compactVars, followVars>>

\* The write fails, perhaps part-way: the offset stays and the error sticks.
LogAppendFails(w) ==
  /\ IOErrors
  /\ wpc[w] = "idle"
  /\ ~Exclusive
  /\ err = "none"
  /\ \E extra \in 0 .. 1 : files' = [files EXCEPT ![Cur].size = @ + extra]
  /\ err' = "io"
  /\ UNCHANGED <<segs, offset, closed, signalled, wpc, compactVars, followVars>>

\* l.wake(), after the shared lock has been released.
LogWake(w) ==
  /\ wpc[w] = "wake"
  /\ WakeAll
  /\ wpc' = [wpc EXCEPT ![w] = "idle"]
  /\ UNCHANGED <<files, segs, offset, err, closed, compactVars, followVars>>

\* Log.Close: followers are woken, the current segment is closed.
LogClose ==
  /\ ~Exclusive
  /\ ~closed
  /\ closed' = TRUE
  /\ WakeAll
  /\ err' = IF err = "none" THEN "closed" ELSE err
  /\ UNCHANGED <<files, segs, offset, wpc, compactVars, followVars>>

-----------------------------------------------------------------------------
(***************************************************************************)
(* Roll, after a snapshot has been committed.                              *)
(***************************************************************************)
\* A bug: the error of closing the old segment is not looked at.
RollClose_IgnoresError ==
  /\ cpc = "idle"
  /\ Cur < MaxSegs
  /\ segs' = [segs EXCEPT ![Cur].end = offset]
  /\ err' = "closed"
  /\ cpc' = "create"
  /\ UNCHANGED <<files, offset, closed, signalled, wpc, todo, needed,
                 followVars>>

\* The old segment is forced and closed and its end fixed at the offset.
RollClose ==
  /\ cpc = "idle"
  /\ err = "none"
  /\ Cur < MaxSegs
  /\ segs' = [segs EXCEPT ![Cur].end = offset]
  /\ err' = "closed"
  /\ cpc' = "create"
  /\ UNCHANGED <<files, offset, closed, signalled, wpc, todo, needed,
                 followVars>>

\* createSegment: open with O_CREATE|O_EXCL.
RollCreate ==
  /\ cpc = "create"
  /\ files' = [files EXCEPT ![Cur + 1] =
                 [st |-> "bare", base |-> offset, size |-> 0]]
  /\ cpc' = "header"
  /\ UNCHANGED <<segs, offset, err, closed, signalled, wpc, todo,
                 needed, followVars>>

\* createSegment fails: Roll returns with the old segment closed, and every
\* later append meets its "log is closed".
RollCreateFails ==
  /\ cpc = "create"
  /\ IOErrors
  /\ WakeAll
  /\ cpc' = "idle"
  /\ UNCHANGED <<files, segs, offset, err, closed, wpc, todo, needed,
                 followVars>>

\* The header and the directory entry are forced; the segment is in use.
RollHeader ==
  /\ cpc = "header"
  /\ files' = [files EXCEPT ![Cur + 1].st = "ready"]
  /\ segs' = [q \in DOMAIN segs \cup {Cur + 1} |->
                IF q = Cur + 1 THEN [base |-> offset, end |-> offset] ELSE segs[q]]
  /\ err' = "none"
  /\ WakeAll
  /\ cpc' = "rolled"
  /\ UNCHANGED <<offset, closed, wpc, todo, needed, followVars>>

\* Writing or forcing the header fails, or forcing the directory does: the
\* file stays behind, headed or not, and the log never refers to it.
RollHeaderFails ==
  /\ cpc = "header"
  /\ IOErrors
  /\ \/ files' = [files EXCEPT ![Cur + 1].st = "ready"]
     \/ UNCHANGED files
  /\ WakeAll
  /\ cpc' = "idle"
  /\ UNCHANGED <<segs, offset, err, closed, wpc, todo, needed, followVars>>

(***************************************************************************)
(* Prune(below), below being the committed snapshot's first anchor.  The   *)
(* segment being written is never deleted.                                 *)
(***************************************************************************)
\* A bug: a segment is redundant as soon as it begins before the anchor.
PruneBegin_ByBase(below) ==
  /\ cpc = "rolled"
  /\ needed' = below
  /\ todo' = {q \in DOMAIN segs \ {Cur} : segs[q].base < below}
  /\ cpc' = "prune"
  /\ UNCHANGED <<logVars, wpc, followVars, signalled>>

PruneBegin(below) ==
  /\ cpc = "rolled"
  /\ needed' = below
  /\ todo' = {q \in DOMAIN segs \ {Cur} : segs[q].end <= below}
  /\ cpc' = "prune"
  /\ UNCHANGED <<logVars, wpc, followVars, signalled>>

\* Segments are tried oldest first; one that will not delete is kept.
PruneUnlink ==
  /\ cpc = "prune"
  /\ todo # {}
  /\ LET s == Min(todo)
     IN /\ todo' = todo \ {s}
        /\ \/ files' = [files EXCEPT ![s].st = "gone"]
           \/ RemoveErrors /\ UNCHANGED files
  /\ UNCHANGED <<segs, offset, err, closed, signalled, wpc, cpc, needed, followVars>>

PruneEnd ==
  /\ cpc = "prune"
  /\ todo = {}
  /\ segs' = Restrict(segs, {q \in DOMAIN segs : files[q].st # "gone"})
  /\ cpc' = "idle"
  /\ UNCHANGED <<files, offset, err, closed, signalled, wpc, todo,
                 needed, followVars>>

\* The log has failed, so closing the segment fails and Roll gives up.
RollRefused ==
  /\ cpc = "idle"
  /\ err # "none"
  /\ WakeAll
  /\ UNCHANGED <<logVars, wpc, compactVars, followVars>>

-----------------------------------------------------------------------------
(***************************************************************************)
(* A follower: Follow, then Next in a loop.                                *)
(***************************************************************************)
Goto(f, l) == fpc' = [fpc EXCEPT ![f] = l]

FollowStart(f) ==
  /\ fpc[f] = "off"
  /\ \E from \in 0 .. offset : off' = [off EXCEPT ![f] = from]
  /\ Goto(f, "seek")
  /\ UNCHANGED <<logVars, wpc, compactVars, limit, fseg, signalled>>

\* A bug: the search stops at the first segment that does not end before off.
FollowSeek_EndInclusive(f) ==
  /\ fpc[f] = "seek"
  /\ ~Exclusive
  /\ LET holds(q) == q = Cur \/ off[f] <= segs[q].end
         first == Min({q \in DOMAIN segs : holds(q)})
     IN \/ /\ off[f] < segs[Oldest].base
           /\ Goto(f, "behind")
           /\ UNCHANGED fseg
        \/ /\ off[f] >= segs[Oldest].base
           /\ fseg' = [fseg EXCEPT ![f] = first]
           /\ Goto(f, "open")
  /\ UNCHANGED <<logVars, wpc, compactVars, off, limit, signalled>>

\* A bug: the segment being written is taken to hold every offset.
FollowSeek_Newest(f) ==
  /\ fpc[f] = "seek"
  /\ ~Exclusive
  /\ \/ off[f] < segs[Oldest].base /\ Goto(f, "behind") /\ UNCHANGED fseg
     \/ /\ off[f] >= segs[Oldest].base
        /\ fseg' = [fseg EXCEPT ![f] = Cur]
        /\ Goto(f, "open")
  /\ UNCHANGED <<logVars, wpc, compactVars, off, limit, signalled>>

\* seek: Log.Segments() under the shared lock, and the segment holding off.
\* The end of the segment being written is read from it at that moment.
FollowSeek(f) ==
  /\ fpc[f] = "seek"
  /\ ~Exclusive
  /\ LET holds(q) == q = Cur \/ off[f] < segs[q].end
         first == Min({q \in DOMAIN segs : holds(q)})
     IN \/ /\ off[f] < segs[Oldest].base
           /\ Goto(f, "behind")
           /\ UNCHANGED fseg
        \/ /\ off[f] >= segs[Oldest].base
           /\ fseg' = [fseg EXCEPT ![f] = first]
           /\ Goto(f, "open")
  /\ UNCHANGED <<logVars, wpc, compactVars, off, limit, signalled>>

\* OpenReaderAt: the file may have been unlinked since it was listed.
FollowOpen(f) ==
  /\ fpc[f] = "open"
  /\ Goto(f, IF files[fseg[f]].st = "ready" THEN "next" ELSE "lost")
  /\ UNCHANGED <<logVars, wpc, compactVars, off, limit, fseg, signalled>>

\* A bug: the file's length, not the log's offset, bounds what may be read.
FollowLimit_FileSize(f) ==
  /\ fpc[f] = "next"
  /\ ~Exclusive
  /\ LET end == files[fseg[f]].base + files[fseg[f]].size
     IN /\ limit' = [limit EXCEPT ![f] = offset]
        /\ Goto(f, IF off[f] < end THEN "read" ELSE "closed?")
  /\ UNCHANGED <<logVars, wpc, compactVars, off, fseg, signalled>>

\* limit := f.log.Offset()
FollowLimit(f) ==
  /\ fpc[f] = "next"
  /\ ~Exclusive
  /\ limit' = [limit EXCEPT ![f] = offset]
  /\ Goto(f, IF off[f] < offset THEN "read" ELSE "closed?")
  /\ UNCHANGED <<logVars, wpc, compactVars, off, fseg, signalled>>

\* read: one record, or the clean end of this file, which off < limit turns
\* into a seek.  An unlinked file that is still open reads like any other.
FollowRead(f) ==
  /\ fpc[f] = "read"
  /\ LET file == files[fseg[f]]
     IN \/ /\ off[f] < file.base + file.size
           /\ off' = [off EXCEPT ![f] = @ + 1]
           /\ Goto(f, "next")
        \/ /\ off[f] >= file.base + file.size
           /\ Goto(f, "seek")
           /\ UNCHANGED off
  /\ UNCHANGED <<logVars, wpc, compactVars, limit, fseg, signalled>>

\* if f.log.Closed()
FollowClosed(f) ==
  /\ fpc[f] = "closed?"
  /\ ~Exclusive
  /\ Goto(f, IF closed THEN "ended" ELSE "take")
  /\ UNCHANGED <<logVars, wpc, compactVars, off, limit, fseg, signalled>>

\* wait := f.log.Appended()
FollowTake(f) ==
  /\ fpc[f] = "take"
  /\ signalled' = signalled \ {f}
  /\ Goto(f, "recheck")
  /\ UNCHANGED <<logVars, wpc, compactVars, off, limit, fseg>>

\* A bug: the offset is not looked at again once the channel has been taken.
FollowRecheck_Dropped(f) ==
  /\ fpc[f] = "recheck"
  /\ ~Exclusive
  /\ Goto(f, "select")
  /\ UNCHANGED <<logVars, wpc, compactVars, off, limit, fseg, signalled>>

\* if f.log.Offset() > f.off
FollowRecheck(f) ==
  /\ fpc[f] = "recheck"
  /\ ~Exclusive
  /\ Goto(f, IF offset > off[f] THEN "next" ELSE "select")
  /\ UNCHANGED <<logVars, wpc, compactVars, off, limit, fseg, signalled>>

\* case <-wait
FollowWoken(f) ==
  /\ fpc[f] = "select"
  /\ f \in signalled
  /\ Goto(f, "next")
  /\ UNCHANGED <<logVars, wpc, compactVars, off, limit, fseg, signalled>>

\* case <-ctx.Done(): the link to the replica is being torn down.
FollowCancelled(f) ==
  /\ fpc[f] = "select"
  /\ Goto(f, "ended")
  /\ UNCHANGED <<logVars, wpc, compactVars, off, limit, fseg, signalled>>

-----------------------------------------------------------------------------
AppendStep == \E w \in Writers : LogAppend(w) \/ LogAppendFails(w) \/ LogWake(w)

Roll == RollClose \/ RollCreate \/ RollCreateFails \/ RollHeader
        \/ RollHeaderFails \/ RollRefused

Prune == \/ \E below \in needed .. segs[Cur].base : PruneBegin(below)
         \/ PruneUnlink \/ PruneEnd

Follow(f) ==
  \/ FollowStart(f) \/ FollowSeek(f) \/ FollowOpen(f) \/ FollowLimit(f)
  \/ FollowRead(f) \/ FollowClosed(f) \/ FollowTake(f) \/ FollowRecheck(f)
  \/ FollowWoken(f) \/ FollowCancelled(f)

Next == AppendStep \/ LogClose \/ Roll \/ Prune \/ \E f \in Followers : Follow(f)

Spec == Init /\ [][Next]_vars

(***************************************************************************)
(* Goroutines that can run do run, and Log.mu is fair: an append that has  *)
(* written its record goes on to wake, a Roll or a Prune under way         *)
(* finishes, a follower keeps stepping.  Nothing obliges anyone to append, *)
(* to roll, to close, or to cancel a follower.                             *)
(***************************************************************************)
Fairness ==
  /\ \A w \in Writers : WF_vars(LogWake(w))
  /\ WF_vars(RollCreate \/ RollHeader \/ RollHeaderFails)
  /\ WF_vars(Prune)
  /\ \A f \in Followers :
       WF_vars(FollowSeek(f) \/ FollowOpen(f) \/ FollowLimit(f) \/ FollowRead(f)
               \/ FollowClosed(f) \/ FollowTake(f) \/ FollowRecheck(f)
               \/ FollowWoken(f))

FairSpec == Spec /\ Fairness

-----------------------------------------------------------------------------
(***************************************************************************)
(* What makes it correct.                                                  *)
(***************************************************************************)
Linked(i) == files[i].st \in {"bare", "ready"}
Headed(i) == files[i].st = "ready"
End(i) == files[i].base + files[i].size

\* Whatever the order of appends, rolls, failed writes and prunes, and at any
\* moment a crash may strike, consecutive segments on disk meet: each begins
\* where the one before ends, which is what Segments(dir) insists on.
ContiguousStream ==
  \A i, j \in 1 .. MaxSegs :
    (i < j /\ Headed(i) /\ Headed(j) /\ \A k \in i + 1 .. j - 1 : ~Headed(k))
      => End(i) = files[j].base

\* Every record a committed snapshot still needs, from its first anchor to the
\* end of the log, is in a file that is still linked.
NeededKept ==
  \A n \in needed .. offset - 1 :
    \E i \in 1 .. MaxSegs : Headed(i) /\ files[i].base <= n /\ n < End(i)

\* A follower that may read holds a file that covers its position, however
\* many rolls and prunes have happened since it listed the segments, and has
\* never gone past the log's own offset into a torn tail.
FollowerPositioned ==
  \A f \in Followers :
    /\ off[f] <= offset
    /\ fpc[f] \in {"next", "read"} =>
         files[fseg[f]].base <= off[f] /\ off[f] <= End(fseg[f])

\* A follower that sleeps with a record available has a wake-up coming: its
\* channel is closed already or an appender is about to close it.
SleeperWillWake ==
  \A f \in Followers :
    (fpc[f] = "select" /\ off[f] < offset) =>
      f \in signalled \/ \E w \in Writers : wpc[w] = "wake"

\* The directory as recovery and compaction need it: segments meet, and what a
\* snapshot needs is still there.
LogIntact == TypeOK /\ ContiguousStream /\ NeededKept

\* A follower is where it thinks it is and does not sleep through a record.
FollowerSafe == FollowerPositioned /\ SleeperWillWake

\* Liveness: a follower reaches every record written, unless it falls behind
\* what compaction keeps or its link goes away.
CatchesUp ==
  \A f \in Followers, n \in 1 .. MaxOffset :
    (fpc[f] # "off" /\ offset >= n) ~>
      (off[f] >= n \/ fpc[f] \in {"behind", "lost", "ended"})

-----------------------------------------------------------------------------
(***************************************************************************)
(* What the comments say and the code does not do.                         *)
(***************************************************************************)
\* Segments(dir) loads the directory as it stands: every segment file on it
\* has a header.  A crash may strike in any state.
CrashLeavesLoadableLog == \A i \in 1 .. MaxSegs : Linked(i) => Headed(i)

\* A compaction that fails can be tried again: unless the log has been closed
\* or a write has failed, the current segment accepts records.
FailedRollIsRetryable == (cpc = "idle" /\ ~closed) => err # "closed"
=============================================================================
