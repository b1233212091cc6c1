--------------------------- MODULE ReplicatedCopy ---------------------------
(***************************************************************************)
(* What replication promises: a leader writes a log, and a copy of it is   *)
(* either detached, and then nothing is said of it, or attached at a       *)
(* position, and then it holds for every shard exactly the records before  *)
(* that position, in the log's order.                                      *)
(***************************************************************************)
EXTENDS Selection, SequencesExt

CONSTANTS Shards, Detached

VARIABLES
  log,     \* the leader's records: which shard, and which write
  at,      \* the copy's position, or Detached
  data     \* the copy's shards

\* A shard after the first n records of a log.
After(lg, s, n) == Select(<< >>, lg, {i \in 1 .. n : lg[i].shard = s}, n)
StateAt(lg, n) == [s \in Shards |-> After(lg, s, n)]

Init == log = << >> /\ at = Detached /\ data = StateAt(<< >>, 0)

Write ==
  /\ Len(log') = Len(log) + 1 /\ IsPrefix(log, log')
  /\ UNCHANGED <<at, data>>

\* The leader comes back without the records it had not made durable.
Restart ==
  /\ IsPrefix(log', log)
  /\ at' = Detached /\ data' = StateAt(<< >>, 0)

Advance ==
  /\ at # Detached /\ at < Len(log)
  /\ at' = at + 1
  /\ LET r == log[at + 1] IN data' = [data EXCEPT ![r.shard] = Append(@, r)]
  /\ UNCHANGED log

Detach ==
  /\ at' = Detached /\ data' = StateAt(<< >>, 0)
  /\ UNCHANGED log

Attach ==
  /\ at = Detached
  /\ at' \in 0 .. Len(log) /\ data' = StateAt(log, at')
  /\ UNCHANGED log

Next == Write \/ Restart \/ Advance \/ Detach \/ Attach
Spec == Init /\ [][Next]_<<log, at, data>>
=============================================================================
