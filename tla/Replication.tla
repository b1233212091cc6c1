---------------------------- MODULE Replication ----------------------------
(***************************************************************************)
(* A leader and one replica: PSYNC, partial and full resynchronisation,    *)
(* the filtered record stream, acknowledgements (server/replication.go,    *)
(* server/replica.go), the replica's own files and its restart             *)
(* (server/persistence.go), and REPLICAOF.                                 *)
(*                                                                         *)
(* Offsets count records.  A shard is the sequence of the records applied  *)
(* to it, so that a record applied twice, not at all or out of order shows.*)
(* The leader's dataset is its log; a snapshot is its anchors, the shards  *)
(* being what the log says at each anchor.  How the leader takes one       *)
(* beside writes is the subject of FuzzySnapshot.                          *)
(***************************************************************************)
EXTENDS Selection, SequencesExt, FiniteSetsExt

CONSTANTS
  Shards,
  NoId,         \* no replication history, "?" in PSYNC
  None,         \* no file, no filter
  MaxLog,       \* records the leader writes in a run
  MaxEvents,    \* snapshots, drops, I/O errors, crashes and REPLICAOFs in a run
  Hard,         \* which of the cases below may happen
  Detached      \* of ReplicatedCopy

\* Cases the code does not survive: a full resynchronisation ends before the
\* dataset and the offset belong to the history it has noted; the link drops
\* inside the snapshot's window; the replica takes a snapshot of its own inside
\* the window, or of shards its failed log does not match; it crashes inside
\* the reset of its log, but not where the log is gone, or before the snapshot
\* is renamed; a promoted replica that has written follows its leader again.
Cases == {"body", "window", "ownSnapshot", "switch", "promoted"}

VARIABLES
  log,        \* the leader's log, from offset 0
  oldest,     \* where the segments it still has begin
  snap,       \* its snapshot: the anchor of each shard, or None
  runid,      \* command.RunID: new with every process
  ks,         \* the replica's shards
  replID, offset,    \* replicaState.replID and offset
  rfailed,    \* the sticky error of the replica's log
  phase,      \* where replicaSession is
  conn,       \* the connection is up
  incoming,   \* the snapshot received
  filter,     \* Replayer.anchorOf
  rsnap,      \* the replica's snapshot file: anchors and shards
  rbase, rlog,       \* its log
  rfile,      \* what of the log's files there is
  leaderID,   \* its kestrel.leader file
  own,        \* it has written records of its own
  ack,        \* replicaLink.ack on the leader
  events

leader == <<log, oldest, snap, runid>>
memory == <<ks, replID, offset, filter, rfailed>>
files == <<rsnap, rbase, rlog, rfile, leaderID>>
vars == <<leader, memory, phase, conn, incoming, files, own, ack, events>>

Positions == 0 .. MaxLog
Anchors == [Shards -> Positions]
\* A record: its shard, and the position and the process that wrote it, which
\* together name the write.
Records == [shard : Shards, pos : Nat, run : Nat]
Snapshots == [anchors : Anchors, shards : [Shards -> Seq(Records)]]

ASSUME ReplicationAssumption ==
  /\ MaxLog \in Nat /\ MaxEvents \in Nat
  /\ Hard \subseteq Cases
  /\ Shards # {}
  /\ NoId \notin Nat /\ Detached \notin Nat
  /\ None \notin Anchors /\ None \notin Snapshots

FirstAnchor(a) == Min({a[s] : s \in Shards})
LastAnchor(a) == Max({a[s] : s \in Shards})
After(lg, s, n) == Select(<< >>, lg, {i \in 1 .. n : lg[i].shard = s}, n)
Contents(a) == [s \in Shards |-> After(log, s, a[s])]
Empty == [s \in Shards |-> << >>]
LogEnd == rbase + Len(rlog)

TypeOK ==
  /\ log \in Seq(Records) /\ Len(log) <= MaxLog
  /\ oldest \in 0 .. Len(log)
  /\ snap \in Anchors \cup {None}
  /\ runid \in Nat
  /\ ks \in [Shards -> Seq(Records)]
  /\ replID \in Nat \cup {NoId} /\ offset \in Nat
  /\ phase \in {"down", "body", "loaded", "reset", "renamed", "stream",
                "crashed", "wiping", "wiped", "refused", "leader"}
  /\ conn \in BOOLEAN
  /\ incoming \in Anchors \cup {None} /\ filter \in Anchors \cup {None}
  /\ rsnap \in Snapshots \cup {None}
  /\ rbase \in Positions /\ rlog \in Seq(Records)
  /\ rfile \in {"whole", "cut", "none", "headless"} /\ rfailed \in BOOLEAN
  /\ leaderID \in Nat \cup {NoId}
  /\ own \in BOOLEAN /\ ack \in Nat /\ events \in 0 .. MaxEvents

Init ==
  /\ log = << >> /\ oldest = 0 /\ snap = None /\ runid = 1
  /\ ks = Empty /\ replID = NoId /\ offset = 0 /\ filter = None
  /\ phase = "down" /\ conn = FALSE /\ incoming = None
  /\ rsnap = None /\ rbase = 0 /\ rlog = << >> /\ leaderID = NoId
  /\ rfile = "whole" /\ rfailed = FALSE
  /\ own = FALSE /\ ack = 0 /\ events = 0

Event == events < MaxEvents /\ events' = events + 1
InWindow == filter # None /\ offset < LastAnchor(filter)
ComingWindow ==
  phase \in {"loaded", "reset", "renamed"} /\ FirstAnchor(incoming) < LastAnchor(incoming)

-----------------------------------------------------------------------------
(***************************************************************************)
(* The leader.                                                             *)
(***************************************************************************)
LeaderWrite ==
  /\ Len(log) < MaxLog
  /\ \E s \in Shards :
       log' = Append(log, [shard |-> s, pos |-> Len(log), run |-> runid])
  /\ UNCHANGED <<oldest, snap, runid, memory, phase, conn, incoming, files, own, ack, events>>

\* A bug: pruning goes one record past the end of the log.
LeaderSnapshot_PrunesAll ==
  /\ Event
  /\ snap' = [s \in Shards |-> Len(log)] /\ oldest' = Len(log) + 1
  /\ UNCHANGED <<log, runid, memory, phase, conn, incoming, files, own, ack>>

\* persistence.Snapshot: every shard at some recent offset, then Prune, which
\* removes the segments that lie wholly below the first anchor.
LeaderSnapshot ==
  /\ Event
  /\ \E a \in Anchors :
       /\ \A s \in Shards : a[s] \in (IF snap = None THEN 0 ELSE LastAnchor(snap)) .. Len(log)
       /\ a # snap
       /\ snap' = a
       /\ oldest' \in {oldest, FirstAnchor(a)}
  /\ UNCHANGED <<log, runid, memory, phase, conn, incoming, files, own, ack>>

\* The leader dies and comes back with a new RunID, perhaps without a tail it
\* had not forced to disk, and never without what its snapshot covers.
LeaderRestart ==
  /\ Event
  /\ \E n \in (IF snap = None THEN oldest ELSE LastAnchor(snap)) .. Len(log) :
       log' = SubSeq(log, 1, n)
  /\ runid' = runid + 1
  /\ conn' = FALSE /\ ack' = 0
  /\ UNCHANGED <<oldest, snap, memory, phase, incoming, files, own>>

-----------------------------------------------------------------------------
(***************************************************************************)
(* The replica's session.                                                  *)
(***************************************************************************)
\* What PSYNC offers: the history and offset in memory, or those on disk.
Offered ==
  IF replID # NoId THEN [id |-> replID, at |-> offset]
  ELSE IF leaderID # NoId THEN [id |-> leaderID, at |-> LogEnd]
  ELSE [id |-> NoId, at |-> 0]

\* A bug: the history the offset belongs to is not compared.
Resumable_AnyHistory == Offered.at \in oldest .. Len(log) /\ Offered.id # NoId

\* beginSync: everything the replica misses is still on disk.
Resumable == Offered.id = runid /\ Offered.at \in oldest .. Len(log)

\* +CONTINUE: the stream goes on where it was, and no filter is installed.
Continue ==
  /\ phase = "down" /\ Resumable
  /\ conn' = TRUE
  /\ offset' = Offered.at
  /\ filter' = None
  /\ phase' = "stream" /\ ack' = 0
  /\ UNCHANGED <<leader, ks, replID, rfailed, incoming, files, own, events>>

\* +FULLRESYNC: the leader sends its snapshot, which it takes first if it has
\* none; the replica notes the history before it reads the body.
FullResync ==
  /\ phase = "down" /\ ~Resumable
  /\ conn' = TRUE
  /\ snap' = IF snap = None THEN [s \in Shards |-> Len(log)] ELSE snap
  /\ incoming' = snap'
  /\ replID' = runid
  /\ phase' = "body" /\ ack' = 0
  /\ UNCHANGED <<log, oldest, runid, ks, offset, filter, rfailed, files, own, events>>

\* The body arrives whole, is written to a file, and replaces the keyspace.
LoadBody ==
  /\ phase = "body" /\ conn
  /\ ks' = Contents(incoming)
  /\ phase' = "loaded"
  /\ UNCHANGED <<leader, replID, offset, filter, rfailed, conn, incoming, files, own, ack, events>>

\* Log.Reset is run by a full resynchronisation, and by a start-up that finds
\* its files incomplete.  Its Close reports the log's sticky error and ends it.
Resetting == (phase = "loaded" /\ ~rfailed) \/ phase = "wiping"

\* The segments are unlinked one by one, the oldest first.
UnlinkSegment ==
  /\ Resetting /\ rfile \in {"whole", "cut"}
  /\ \E n \in 1 .. Len(rlog) :
       rbase' = rbase + n /\ rlog' = SubSeq(rlog, n + 1, Len(rlog))
  /\ rfile' = "cut"
  /\ UNCHANGED <<leader, memory, phase, conn, incoming, rsnap, leaderID, own, ack, events>>

\* The last one goes; a start-up that finds none begins a log at offset 0.
UnlinkLast ==
  /\ Resetting /\ rfile \in {"whole", "cut"}
  /\ rbase' = 0 /\ rlog' = << >> /\ rfile' = "none"
  /\ UNCHANGED <<leader, memory, phase, conn, incoming, rsnap, leaderID, own, ack, events>>

\* startSegmentLocked creates the new file, and then writes its header.
CreateSegment ==
  /\ Resetting /\ rfile = "none"
  /\ rfile' = "headless"
  /\ UNCHANGED <<leader, memory, phase, conn, incoming, rsnap, rbase, rlog, leaderID, own, ack, events>>

\* The new log begins at the snapshot's first anchor, after a wipe at 0.
WriteHeader ==
  /\ Resetting /\ rfile = "headless"
  /\ rfile' = "whole"
  /\ \/ phase = "loaded" /\ phase' = "reset" /\ rbase' = FirstAnchor(incoming)
     \/ phase = "wiping" /\ phase' = "wiped" /\ rbase' = 0
  /\ UNCHANGED <<leader, memory, conn, incoming, rsnap, rlog, leaderID, own, ack, events>>

\* An I/O error ends the session: in the reset, which leaves the log closed for
\* good, or in what follows it.
SwitchFails ==
  /\ Event
  /\ \/ phase = "loaded" /\ rfailed' = TRUE
     \/ phase \in {"reset", "renamed"} /\ "body" \in Hard /\ UNCHANGED rfailed
  /\ phase' = "down" /\ conn' = FALSE /\ ack' = 0
  /\ filter' = None /\ incoming' = None
  /\ UNCHANGED <<leader, ks, replID, offset, files, own>>

RenameSnapshot ==
  /\ phase = "reset"
  /\ rsnap' = [anchors |-> incoming, shards |-> ks]
  /\ phase' = "renamed"
  /\ UNCHANGED <<leader, memory, conn, incoming, rbase, rlog, rfile, leaderID, own, ack, events>>

\* setLeaderID, and the stream from the first anchor, filtered by the anchors.
StartStream ==
  /\ phase = "renamed"
  /\ leaderID' = replID
  /\ offset' = FirstAnchor(incoming)
  /\ filter' = incoming /\ incoming' = None
  /\ phase' = "stream" /\ own' = FALSE
  /\ UNCHANGED <<leader, ks, replID, rfailed, conn, rsnap, rbase, rlog, rfile, ack, events>>

\* Replayer.narrow: a shard takes a record from its anchor onwards.
Wanted(flt, pos, s) == flt = None \/ pos >= flt[s]

\* A bug: a record the filter leaves out is not written to the local log.
ApplyStreamed_SkipsLog ==
  /\ phase = "stream" /\ conn /\ ~rfailed /\ offset \in oldest .. Len(log) - 1
  /\ LET r == log[offset + 1]
         w == Wanted(filter, offset, r.shard)
     IN /\ ks' = IF w THEN [ks EXCEPT ![r.shard] = Append(@, r)] ELSE ks
        /\ rlog' = IF w THEN Append(rlog, r) ELSE rlog
  /\ offset' = offset + 1
  /\ UNCHANGED <<leader, replID, filter, rfailed, phase, conn, incoming, rsnap, rbase, rfile, leaderID, own, ack, events>>

\* applyStream: one record, applied where the filter wants it and appended to
\* the local log, under the record's ordering locks.
ApplyStreamed ==
  /\ phase = "stream" /\ conn /\ ~rfailed /\ offset \in oldest .. Len(log) - 1
  /\ LET r == log[offset + 1]
     IN /\ ks' = IF Wanted(filter, offset, r.shard)
                   THEN [ks EXCEPT ![r.shard] = Append(@, r)] ELSE ks
        /\ rlog' = Append(rlog, r)
  /\ offset' = offset + 1
  /\ UNCHANGED <<leader, replID, filter, rfailed, phase, conn, incoming, rsnap, rbase, rfile, leaderID, own, ack, events>>

\* The record is applied and AppendRaw fails: the session ends with the offset
\* where it was.  The first failure may leave the record in the file; after it
\* the log accepts nothing, and every session applies the record again.
ApplyFails ==
  /\ phase = "stream" /\ conn /\ offset \in oldest .. Len(log) - 1 /\ Event
  /\ LET r == log[offset + 1]
     IN /\ ks' = IF Wanted(filter, offset, r.shard)
                   THEN [ks EXCEPT ![r.shard] = Append(@, r)] ELSE ks
        /\ rlog' \in IF rfailed THEN {rlog} ELSE {rlog, Append(rlog, r)}
  /\ rfailed' = TRUE /\ conn' = FALSE
  /\ UNCHANGED <<leader, replID, offset, filter, phase, incoming, rsnap, rbase, rfile, leaderID, own, ack>>

\* A bug: the acknowledgement counts what the leader has sent.
Ack_Sent ==
  /\ phase = "stream" /\ conn /\ ack # Len(log)
  /\ ack' = Len(log)
  /\ UNCHANGED <<leader, memory, phase, conn, incoming, files, own, events>>

\* REPLCONF ACK, stored by readReplicaAcks and read by WAIT.
Ack ==
  /\ phase = "stream" /\ conn /\ ack # offset
  /\ ack' = offset
  /\ UNCHANGED <<leader, memory, phase, conn, incoming, files, own, events>>

-----------------------------------------------------------------------------
(***************************************************************************)
(* What can go wrong, and REPLICAOF.                                       *)
(***************************************************************************)
\* The replica's shards and log are what the leader's log says at its offset.
Faithful ==
  /\ offset <= Len(log)
  /\ \A s \in Shards : ks[s] = After(log, s, offset)
  /\ LogEnd = offset /\ IsPrefix(rlog, SubSeq(log, rbase + 1, Len(log)))

Drop ==
  /\ conn /\ Event
  /\ phase = "body" => "body" \in Hard \/ Faithful
  /\ InWindow \/ ComingWindow => "window" \in Hard
  /\ conn' = FALSE
  /\ UNCHANGED <<leader, memory, phase, incoming, files, own, ack>>

\* The session's end: the connection is gone, the leader has pruned what it
\* should send next, or the log that failed cannot be reset.
SessionOver ==
  \/ ~conn /\ phase \in {"body", "stream"}
  \/ rfailed /\ phase = "loaded"
  \/ phase = "stream" /\ offset < oldest

\* A bug: the loop ends with the first session.
LinkLost_Once ==
  /\ SessionOver
  /\ phase' = "refused" /\ ack' = 0 /\ conn' = FALSE
  /\ filter' = None /\ incoming' = None
  /\ UNCHANGED <<leader, ks, replID, offset, rfailed, files, own, events>>

\* replicaSession returns, and replicaLoop will try again.
LinkLost ==
  /\ SessionOver
  /\ conn' = FALSE
  /\ phase' = "down" /\ ack' = 0
  /\ filter' = None /\ incoming' = None
  /\ UNCHANGED <<leader, ks, replID, offset, rfailed, files, own, events>>

\* A bug: the log is pruned and the snapshot is not there yet.
OwnSnapshot_PrunesFirst ==
  /\ phase \in {"stream", "leader"} /\ Event
  /\ rbase' = LogEnd /\ rlog' = << >>
  /\ UNCHANGED <<leader, memory, phase, conn, incoming, rsnap, rfile, leaderID, own, ack>>

\* The replica's maintenance takes a snapshot of its own and prunes its log.
OwnSnapshot ==
  /\ phase \in {"stream", "leader"} /\ Event
  /\ InWindow \/ rfailed => "ownSnapshot" \in Hard
  /\ rsnap' = [anchors |-> [s \in Shards |-> LogEnd], shards |-> ks]
  /\ rsnap' # rsnap
  /\ \/ ~rfailed /\ rbase' = LogEnd /\ rlog' = << >>
     \/ UNCHANGED <<rbase, rlog>>
  /\ UNCHANGED <<leader, memory, phase, conn, incoming, rfile, leaderID, own, ack>>

\* The replica dies, with a tail of its log not forced to disk.
Crash ==
  /\ phase \notin {"crashed", "refused"} /\ Event
  /\ phase = "reset" \/ rfile \in {"cut", "headless"} => "switch" \in Hard
  /\ own => "promoted" \in Hard \/ leaderID # runid
  /\ \E n \in 0 .. Len(rlog) : rlog' = SubSeq(rlog, 1, n)
  /\ ks' = Empty /\ replID' = NoId /\ offset' = 0 /\ filter' = None /\ rfailed' = FALSE
  /\ phase' = "crashed" /\ conn' = FALSE /\ ack' = 0 /\ incoming' = None
  /\ UNCHANGED <<leader, rsnap, rbase, rfile, leaderID, own>>

\* persist.Recover: the snapshot's shard and, one after the other, the records
\* of the local log that it still needs.
Restored(s) ==
  LET flt == IF rsnap = None THEN None ELSE rsnap.anchors
  IN Select(IF rsnap = None THEN << >> ELSE rsnap.shards[s], rlog,
            {i \in 1 .. Len(rlog) : rlog[i].shard = s /\ Wanted(flt, rbase + i - 1, s)},
            Len(rlog))

\* Recover refuses a segment without a header, and a log that begins after the
\* point it must start from.
RestoreRefused ==
  rfile = "headless" \/ rbase > (IF rsnap = None THEN 0 ELSE FirstAnchor(rsnap.anchors))

\* A bug: the end of the snapshot's window is not compared with the log's end.
Incomplete_Never == FALSE

\* restore: the log ends inside the snapshot's window.
Incomplete == rsnap # None /\ LogEnd < LastAnchor(rsnap.anchors)

\* Server.restore with replicaof configured.  openLog begins a log where there
\* is none; files that are incomplete are wiped.
Restore ==
  /\ phase = "crashed"
  /\ IF RestoreRefused THEN phase' = "refused" /\ UNCHANGED <<ks, rfile>>
     ELSE IF Incomplete THEN phase' = "wiping" /\ UNCHANGED <<ks, rfile>>
     ELSE /\ phase' = "down" /\ rfile' = "whole"
          /\ ks' = [s \in Shards |-> Restored(s)]
  /\ UNCHANGED <<leader, replID, offset, filter, rfailed, conn, incoming, rsnap, rbase, rlog, leaderID, own, ack, events>>

\* restore's setLeaderID(""), once the log has been reset.
ForgetLeader ==
  /\ phase = "wiped"
  /\ leaderID' = NoId /\ phase' = "down"
  /\ UNCHANGED <<leader, memory, conn, incoming, rsnap, rbase, rlog, rfile, own, ack, events>>

\* REPLICAOF NO ONE: the link stops first; kestrel.leader is kept.
Promote ==
  /\ phase \in {"down", "stream"} /\ Event
  /\ InWindow => "window" \in Hard
  /\ phase' = "leader" /\ conn' = FALSE /\ ack' = 0
  /\ replID' = NoId /\ offset' = 0 /\ filter' = None
  /\ UNCHANGED <<leader, ks, rfailed, incoming, files, own>>

\* A client's write to the promoted replica; a failed log refuses them.
OwnWrite ==
  /\ phase = "leader" /\ ~rfailed /\ LogEnd < MaxLog
  /\ \E s \in Shards :
       LET r == [shard |-> s, pos |-> LogEnd, run |-> 0]
       IN ks' = [ks EXCEPT ![s] = Append(@, r)] /\ rlog' = Append(rlog, r)
  /\ own' = TRUE
  /\ UNCHANGED <<leader, replID, offset, filter, rfailed, phase, conn, incoming, rsnap, rbase, rfile, leaderID, ack, events>>

\* REPLICAOF the leader again: a fresh replicaState.
Follow ==
  /\ phase = "leader" /\ Event
  /\ own => "promoted" \in Hard \/ leaderID # runid
  /\ phase' = "down"
  /\ UNCHANGED <<leader, memory, conn, incoming, files, own, ack>>

Session ==
  \/ Continue \/ FullResync \/ LoadBody
  \/ UnlinkSegment \/ UnlinkLast \/ CreateSegment \/ WriteHeader
  \/ RenameSnapshot \/ StartStream
  \/ ApplyStreamed \/ Ack \/ LinkLost \/ Restore \/ ForgetLeader

Next ==
  \/ LeaderWrite \/ LeaderSnapshot \/ LeaderRestart
  \/ Session
  \/ Drop \/ ApplyFails \/ SwitchFails \/ OwnSnapshot \/ Crash \/ Promote \/ OwnWrite \/ Follow

Spec == Init /\ [][Next]_vars

\* The replication goroutine runs, reconnects for ever, and a server that died
\* is started again.
FairSpec == Spec /\ WF_vars(Session)

-----------------------------------------------------------------------------
(***************************************************************************)
(* What makes it correct.                                                  *)
(***************************************************************************)
\* While records stream in, every shard holds exactly what the leader's log
\* says, up to the offset or, inside the snapshot's window, up to its anchor:
\* no record is lost, repeated or reordered by any resynchronisation.
StreamFaithful ==
  phase = "stream" /\ conn =>
    \A s \in Shards :
      ks[s] = After(log, s, IF filter = None THEN offset ELSE Max({offset, filter[s]}))

\* The replica's own log is the leader's, record for record and at the
\* leader's offsets, so that its end can be quoted after a restart.
LogMatchesLeader ==
  phase = "stream" /\ conn =>
    LogEnd = offset /\ \A i \in 1 .. Len(rlog) : rlog[i] = log[rbase + i]

\* What WAIT counts: a replica that has acknowledged an offset holds every
\* record before it.
AckSound ==
  phase = "stream" /\ conn => \A s \in Shards : IsPrefix(After(log, s, ack), ks[s])

\* A replica that crashed starts again, by itself: with its log whole or cut
\* short, gone or begun anew, before, after or without a snapshot of its own.
\* The crashes it does not survive are the case "switch", left out: those from
\* the first unlink of a reset on, where the log is not gone, until the header
\* is written or, in a full resynchronisation, the snapshot renamed.
NeverRefusesToStart == phase # "refused"

\* Liveness: once faults and writes stop, the replica has caught up with its
\* leader, unless it was promoted or its log has failed.
CatchesUp ==
  <>[](phase = "leader" \/ rfailed \/ (phase = "stream" /\ conn /\ offset = Len(log)))

\* Replication implements the attached copy: attached means streaming past the
\* snapshot's window, with a log that takes what is applied.
InStep == phase = "stream" /\ conn /\ ~InWindow /\ ~rfailed
Copy == INSTANCE ReplicatedCopy WITH
  at <- IF InStep THEN offset ELSE Detached,
  data <- IF InStep THEN ks ELSE Empty
CopyIsAttached == Copy!Spec

\* What a replica in the stream is, in memory, on disk and to WAIT, unless its
\* log has failed: then a record is applied at every reconnection, until the
\* process ends, and the next one must find files that are right again.
ReplicaSound ==
  TypeOK /\ (~rfailed => StreamFaithful /\ LogMatchesLeader /\ AckSound)
=============================================================================
