------------------------- MODULE GroupCommitProofs -------------------------
(***************************************************************************)
(* What GroupCommit promises, for any number of appenders, any base and    *)
(* any number of records.  The three parts of the inductive invariant say  *)
(* who holds what, where every record is, and what is on stable storage;   *)
(* each is proved on top of the one before.                                *)
(***************************************************************************)
EXTENDS GroupCommit, TLAPS

\* A thread runs stageLocked or drainLocked with the mutex, and flushes
\* without it; no flush outlives the sticky error.
ControlInv ==
  /\ \A t \in Threads : pc[t] = "loop" <=> mu = t
  /\ \A t \in Threads : pc[t] \in {"write", "fsync", "relock"} <=> flusher = t
  /\ flusher = NoThread => batch = <<>>
  /\ err # "none" => flusher = NoThread
  /\ \A t \in Threads : pc[t] = "write" => fresult = "ok"
  /\ \A t \in Threads : pc[t] = "fsync" => fresult = "ok" /\ fpolicy = "always"

\* Offsets are handed out once, in order: file, batch and pending hold
\* consecutive stretches of the stream.
StreamInv ==
  /\ offset >= Base
  /\ OffsetCountsWholeRecords
  /\ \A r \in acked : Base <= r /\ r < offset
  /\ err = "none" =>
       /\ assigned = offset + Len(batch) + Len(pending)
       /\ \A i \in 1 .. Len(batch) : batch[i] = offset + i - 1
       /\ \A i \in 1 .. Len(pending) : pending[i] = offset + Len(batch) + i - 1
       /\ flusher = NoThread => Len(file) = Written
       /\ \A a \in Appenders : pc[a] # "idle" => Base <= at[a] /\ at[a] < assigned
  /\ \A t \in Threads :
       /\ pc[t] = "write" => Len(file) = Written
       /\ pc[t] = "fsync" \/ (pc[t] = "relock" /\ fresult # "writeErr") =>
            /\ Len(file) = Written + Len(batch)
            /\ InPlace(Written + Len(batch))

\* What was promised under "always" is in a batch that will be forced, or has
\* been.
ForceInv ==
  /\ synced <= Len(file)
  /\ \A t \in Threads :
       pc[t] = "relock" /\ fresult = "ok" /\ fpolicy = "always" =>
         synced = Len(file)
  /\ CleanMeansForced
  /\ CleanCloseIsDurable
  /\ promised # {} => policy = "always"
  /\ \A a \in promised :
       pc[a] # "idle" /\ err = "none" =>
         /\ at[a] < offset => at[a] - Base < synced
         /\ flushing /\ offset <= at[a] /\ at[a] < offset + Len(batch)
              => fpolicy = "always"
  /\ AckedForced

\* Whoever sleeps on the condition variable is counted by itself, and a flush
\* is still to come to its broadcast.
WakeInv == \A t \in Threads : pc[t] = "asleep" => flushing /\ t \in waiters

-----------------------------------------------------------------------------
\* Facts about sequences that the file's type rests on.
LEMMA SeqMonotone ==
  ASSUME NEW S, NEW T, S \subseteq T, NEW s \in Seq(S)
  PROVE  s \in Seq(T)
OBVIOUS

\* Sequences over one set, joined.
LEMMA ConcatType ==
  ASSUME NEW S, NEW s \in Seq(S), NEW u \in Seq(S)
  PROVE  s \o u \in Seq(S)
OBVIOUS

\* What is joined on leaves the beginning as it was.
LEMMA ConcatPrefix ==
  ASSUME NEW S, NEW s \in Seq(S), NEW u \in Seq(S), NEW v \in Seq(S)
  PROVE  /\ Len((s \o u) \o v) >= Len(s)
         /\ \A i \in 1 .. Len(s) : ((s \o u) \o v)[i] = s[i]
<1>1. (s \o u) \in Seq(S) /\ Len(s \o u) = Len(s) + Len(u)
  OBVIOUS
<1>2. \A i \in 1 .. Len(s) : (s \o u)[i] = s[i]
  OBVIOUS
<1>3. \A i \in 1 .. Len(s \o u) : ((s \o u) \o v)[i] = (s \o u)[i]
  BY <1>1
<1>4. Len((s \o u) \o v) = Len(s \o u) + Len(v)
  BY <1>1
<1>5. Len(s) \in Nat /\ Len(u) \in Nat /\ Len(v) \in Nat
  OBVIOUS
<1>6. QED BY <1>1, <1>2, <1>3, <1>4, <1>5

\* Every step keeps the variables in their types.
LEMMA TypeStep == TypeOK /\ [Next]_vars => TypeOK'
<1>1. QED
  <2> SUFFICES ASSUME TypeOK, [Next]_vars PROVE TypeOK'
    OBVIOUS
  <2> USE ThreadsAssumption, BoundsAssumption DEF TypeOK, Threads
  <2>0. ASSUME NEW t \in Threads, BeginFlush(t) \/ Sleep(t)
        PROVE  /\ mu' \in Threads \cup {NoThread}
               /\ pc' \in [Threads -> {"idle", "loop", "write", "fsync",
                           "relock", "asleep", "woken", "want", "join", "done"}]
               /\ pending' \in Seq(Nat) /\ batch' \in Seq(Nat)
               /\ assigned' \in Nat /\ offset' \in Nat
               /\ flusher' \in Threads \cup {NoThread}
               /\ fpolicy' \in Policies
               /\ fresult' \in {"ok", "writeErr", "syncErr"}
               /\ waiters' \in SUBSET Threads
               /\ dirty' = dirty /\ err' = err
    <3>1. CASE BeginFlush(t)
      <4>1. <<>> \in Seq(Nat)
        OBVIOUS
      <4>2. QED BY <3>1, <4>1 DEF BeginFlush
    <3>2. CASE Sleep(t)
      BY <3>2 DEF Sleep
    <3>3. QED BY <2>0, <3>1, <3>2
  <2>1. ASSUME NEW a \in Appenders, StartAppend(a) PROVE TypeOK'
    BY <2>1 DEF StartAppend
  <2>2. ASSUME NEW a \in Appenders, StageLoop(a) PROVE TypeOK'
    <3>1. CASE BeginFlush(a) \/ Sleep(a)
      <4>1. UNCHANGED <<at, policy, stopped, diskVars, promised, acked, forced>>
        BY <2>2, <3>1 DEF StageLoop, ReturnOK, ReturnErr, BeginFlush, Sleep,
                          segmentVars
      <4>2. QED BY <2>0, <3>1, <4>1 DEF diskVars
    <3>2. CASE ReturnErr(a)
      BY <2>2, <3>2 DEF StageLoop, ReturnErr, segmentVars, diskVars
    <3>3. CASE ReturnOK(a)
      BY <2>2, <3>3 DEF StageLoop, ReturnOK, segmentVars, diskVars
    <3>4. QED BY <2>2, <3>1, <3>2, <3>3 DEF StageLoop
  <2>3. ASSUME NEW t \in Threads, WriteBatch(t) PROVE TypeOK'
    <3>0. batch \in Seq(Nat \cup {Torn})
      BY SeqMonotone
    <3>1. file' \in Seq(Nat \cup {Torn})
      <4>1. CASE file' = file \o batch
        BY <3>0, <4>1, ConcatType
      <4>2. ASSUME NEW k \in 0 .. Len(batch) - 1, NEW cut \in {<<>>, <<Torn>>},
                   file' = file \o SubSeq(batch, 1, k) \o cut
            PROVE  file' \in Seq(Nat \cup {Torn})
        <5>1. SubSeq(batch, 1, k) \in Seq(Nat \cup {Torn})
          BY <3>0
        <5>2. cut \in Seq(Nat \cup {Torn})
          <6>1. <<>> \in Seq(Nat \cup {Torn})
            OBVIOUS
          <6>2. Torn \in Nat \cup {Torn} /\ <<Torn>> \in Seq(Nat \cup {Torn})
            BY DEF Torn
          <6>3. QED BY <4>2, <6>1, <6>2
        <5>3. file \o SubSeq(batch, 1, k) \in Seq(Nat \cup {Torn})
          BY <5>1, ConcatType
        <5>4. QED BY <4>2, <5>2, <5>3, ConcatType
      <4>3. QED BY <2>3, <4>1, <4>2 DEF WriteBatch
    <3>3. QED BY ZenonT(40), <2>3, <3>1 DEF WriteBatch, historyVars
  <2>4. ASSUME NEW t \in Threads, SyncBatch(t) PROVE TypeOK'
    BY <2>4 DEF SyncBatch, historyVars
  <2>5. ASSUME NEW t \in Threads, FinishFlush(t) PROVE TypeOK'
    <3>1. offset' \in Nat /\ err' \in {"none", "io", "closed"}
      BY <2>5 DEF FinishFlush, FlushOutcome
    <3>2. dirty' \in BOOLEAN
      BY <2>5 DEF FinishFlush, FlushOutcome
    <3>3. pc' \in [Threads -> {"idle", "loop", "write", "fsync", "relock",
                              "asleep", "woken", "want", "join", "done"}]
      BY <2>5 DEF FinishFlush
    <3>4. batch' \in Seq(Nat)
      BY <2>5 DEF FinishFlush
    <3>5. QED BY <2>5, <3>1, <3>2, <3>3, <3>4
              DEF FinishFlush, diskVars, historyVars
  <2>6. ASSUME NEW t \in Threads, Wake(t) PROVE TypeOK'
    BY <2>6 DEF Wake, diskVars, historyVars
  <2>7. ASSUME NEW t \in {Syncer, Closer}, DrainLoop(t) PROVE TypeOK'
    <3>1. CASE BeginFlush(t) \/ Sleep(t)
      <4>1. UNCHANGED <<at, policy, stopped, file, synced, historyVars>>
        BY <2>7, <3>1 DEF DrainLoop, DrainSleep, ForceFile, LeaveSync,
                          BeginFlush, Sleep
      <4>2. QED BY <2>0, <3>1, <4>1 DEF historyVars
    <3>2. CASE err # "none" /\ LeaveSync(t, err)
      BY <2>7, <3>2 DEF DrainLoop, LeaveSync, historyVars
    <3>3. CASE err = "none" /\ ForceFile(t)
      <4>1. dirty' \in BOOLEAN
        BY <2>7, <3>3, Zenon DEF DrainLoop, ForceFile
      <4>0. synced' \in Nat
        BY <2>7, <3>3 DEF DrainLoop, ForceFile
      <4>2. \E e \in {"none", "io", "closed"} : LeaveSync(t, e)
        BY <2>7, <3>3 DEF DrainLoop, ForceFile
      <4>3. /\ mu' \in Threads \cup {NoThread}
            /\ pc' \in [Threads -> {"idle", "loop", "write", "fsync", "relock",
                              "asleep", "woken", "want", "join", "done"}]
            /\ err' \in {"none", "io", "closed"}
        BY <4>2 DEF LeaveSync
      <4>4. QED BY <2>7, <3>3, <4>0, <4>1, <4>3 DEF DrainLoop, ForceFile, historyVars
    <3>4. QED BY <2>7, <3>1, <3>2, <3>3 DEF DrainLoop, DrainSleep
  <2>8. CASE SyncTick
    BY <2>8 DEF SyncTick, segmentVars, diskVars, historyVars
  <2>9. CASE SyncStop
    BY <2>9 DEF SyncStop, segmentVars, diskVars, historyVars
  <2>10. CASE CloseRequest
    BY <2>10 DEF CloseRequest, segmentVars, diskVars, historyVars
  <2>11. CASE CloseStop
    BY <2>11 DEF CloseStop, segmentVars, diskVars, historyVars
  <2>12. CASE CloseJoin
    BY <2>12 DEF CloseJoin, segmentVars, diskVars, historyVars
  <2>13. ASSUME NEW p \in Policies, SetFsync(p) PROVE TypeOK'
    BY <2>13 DEF SetFsync, segmentVars, diskVars
  <2>14. CASE UNCHANGED vars
    BY <2>14 DEF vars
  <2>15. QED
    BY <2>1, <2>2, <2>3, <2>4, <2>5, <2>6, <2>7, <2>8, <2>9, <2>10, <2>11,
       <2>12, <2>13, <2>14 DEF Next, FlushStep

\* The variables have their types in every reachable state of the segment.
THEOREM TypeCorrect == Spec => []TypeOK
<1>1. Init => TypeOK
  <2>1. Init => dirty \in BOOLEAN /\ stopped \in BOOLEAN
    BY DEF Init
  <2>2. Init => /\ pending \in Seq(Nat) /\ batch \in Seq(Nat)
                /\ file \in Seq(Nat \cup {Torn})
    BY DEF Init
  <2>3. QED BY <2>1, <2>2, BoundsAssumption DEF Init, TypeOK, Policies
<1>3. QED BY <1>1, TypeStep, PTL DEF Spec

-----------------------------------------------------------------------------
\* Mutex and flush ownership: at most one thread flushes, it does so without
\* the mutex, and a log that has failed is not flushing.
LEMMA ControlCorrect == Spec => []ControlInv
<1>1. Init => ControlInv
  BY ThreadsAssumption DEF Init, ControlInv
<1>2. TypeOK /\ ControlInv /\ [Next]_vars => ControlInv'
  <2> SUFFICES ASSUME TypeOK, ControlInv, [Next]_vars PROVE ControlInv'
    OBVIOUS
  <2> USE ThreadsAssumption DEF TypeOK, ControlInv, Threads, flushing
  <2>1. ASSUME NEW a \in Appenders, StartAppend(a) PROVE ControlInv'
    BY <2>1 DEF StartAppend
  <2>2. ASSUME NEW a \in Appenders, StageLoop(a) PROVE ControlInv'
    <3>1. CASE ReturnOK(a) \/ ReturnErr(a)
      <4>1. /\ pc' = [pc EXCEPT ![a] = "idle"] /\ mu' = NoThread
            /\ UNCHANGED <<batch, flusher, fpolicy, fresult, err>>
        BY <3>1 DEF ReturnOK, ReturnErr, segmentVars
      <4>2. mu = a /\ pc[a] = "loop"
        BY <2>2 DEF StageLoop
      <4>3. QED BY <4>1, <4>2
    <3>2. CASE Sleep(a)
      BY <2>2, <3>2 DEF StageLoop, Sleep
    <3>3. CASE err = "none" /\ ~flushing /\ BeginFlush(a)
      BY <2>2, <3>3 DEF StageLoop, BeginFlush
    <3>4. QED BY <2>2, <3>1, <3>2, <3>3 DEF StageLoop
  <2>3. ASSUME NEW t \in Threads, WriteBatch(t) PROVE ControlInv'
    BY ZenonT(40), <2>3 DEF WriteBatch
  <2>4. ASSUME NEW t \in Threads, SyncBatch(t) PROVE ControlInv'
    BY <2>4 DEF SyncBatch
  <2>5. ASSUME NEW t \in Threads, FinishFlush(t) PROVE ControlInv'
    BY <2>5 DEF FinishFlush
  <2>6. ASSUME NEW t \in Threads, Wake(t) PROVE ControlInv'
    BY <2>6 DEF Wake
  <2>7. ASSUME NEW t \in {Syncer, Closer}, DrainLoop(t) PROVE ControlInv'
    <3>1. CASE err # "none" /\ LeaveSync(t, err)
      BY <2>7, <3>1 DEF DrainLoop, LeaveSync, Sleep, DrainSleep, BeginFlush
    <3>2. CASE err = "none" /\ flushing /\ Sleep(t)
      BY <2>7, <3>2 DEF DrainLoop, Sleep
    <3>3. CASE err = "none" /\ ~flushing /\ BeginFlush(t)
      BY <2>7, <3>3 DEF DrainLoop, BeginFlush
    <3>4. CASE err = "none" /\ ~flushing /\ ForceFile(t)
      <4>1. mu' = NoThread /\ pc' = [pc EXCEPT ![t] =
                                     IF t = Closer THEN "done" ELSE "idle"]
        BY <3>4 DEF ForceFile, LeaveSync
      <4>2. UNCHANGED <<batch, flusher, fpolicy, fresult>>
        BY <3>4 DEF ForceFile
      <4>3. QED BY <2>7, <3>4, <4>1, <4>2 DEF DrainLoop
    <3>5. QED BY <2>7, <3>1, <3>2, <3>3, <3>4 DEF DrainLoop, DrainSleep
  <2>8. CASE SyncTick
    BY <2>8 DEF SyncTick, segmentVars
  <2>9. CASE SyncStop \/ CloseRequest \/ CloseStop
    BY <2>9 DEF SyncStop, CloseRequest, CloseStop, segmentVars
  <2>10. CASE CloseJoin
    BY <2>10 DEF CloseJoin, segmentVars
  <2>11. ASSUME NEW p \in Policies, SetFsync(p) PROVE ControlInv'
    BY <2>11 DEF SetFsync, segmentVars
  <2>12. CASE UNCHANGED vars
    BY <2>12 DEF vars
  <2>13. QED
    BY <2>1, <2>2, <2>3, <2>4, <2>5, <2>6, <2>7, <2>8, <2>9, <2>10, <2>11,
       <2>12 DEF Next, FlushStep
<1>3. QED BY <1>1, <1>2, TypeCorrect, PTL DEF Spec

-----------------------------------------------------------------------------
\* Taking the pending records as the next batch keeps every record where the
\* stream says it is.
LEMMA BeginFlushStream ==
  ASSUME TypeOK, ControlInv, StreamInv, err = "none", ~flushing,
         NEW t \in Threads, mu = t, BeginFlush(t),
         UNCHANGED <<file, acked, at>>
  PROVE  StreamInv'
<1> USE ThreadsAssumption, BoundsAssumption
    DEF TypeOK, ControlInv, BeginFlush, flushing
<1>1. Len(batch) = 0 /\ Len(batch') = Len(pending) /\ Len(pending') = 0
  OBVIOUS
<1>2. pc'[t] = "write" /\ \A u \in Threads : u # t => pc'[u] = pc[u]
  OBVIOUS
<1>3. \A u \in Threads : pc[u] \notin {"write", "fsync", "relock"}
  OBVIOUS
<1>4. OffsetCountsWholeRecords'
  BY DEF StreamInv, OffsetCountsWholeRecords, InPlace, Written
<1>5. \A u \in Threads : /\ pc'[u] = "write" => Len(file') = Written'
                        /\ pc'[u] # "fsync" /\ pc'[u] # "relock"
  BY <1>2, <1>3 DEF StreamInv, Written
<1>6. /\ assigned' = offset' + Len(batch') + Len(pending')
      /\ \A i \in 1 .. Len(batch') : batch'[i] = offset' + i - 1
  BY <1>1 DEF StreamInv
<1>7. \A a \in Appenders : pc'[a] # "idle" => Base <= at'[a] /\ at'[a] < assigned'
  BY <1>2 DEF StreamInv, Threads
<1>8. flusher' # NoThread
  BY DEF Threads
<1>9. QED BY <1>1, <1>4, <1>5, <1>6, <1>7, <1>8 DEF StreamInv

\* Writing the batch, or failing half-way, leaves what the offset counts alone.
LEMMA WriteBatchStream ==
  ASSUME TypeOK, ControlInv, StreamInv, NEW t \in Threads, WriteBatch(t)
  PROVE  StreamInv'
<1> USE ThreadsAssumption, BoundsAssumption DEF TypeOK, ControlInv
<1>0. /\ pc[t] = "write" /\ flusher = t /\ err = "none"
      /\ UNCHANGED <<pending, assigned, offset, batch, flusher, err, at, acked>>
  BY DEF WriteBatch, historyVars
<1>1. Len(file) = offset - Base /\ InPlace(Len(file))
  <2>1. Len(file) = Written
    BY <1>0 DEF StreamInv
  <2>2. InPlace(Written)
    BY DEF StreamInv, OffsetCountsWholeRecords
  <2>3. QED BY <2>1, <2>2 DEF InPlace, Written
<1>2. \A u \in Threads : u # t => pc'[u] = pc[u]
  BY DEF WriteBatch
<1>3. \A u \in Threads : u # t => pc[u] \notin {"write", "fsync", "relock"}
  BY <1>0
<1>4. Len(batch) \in Nat /\ Len(file) \in Nat /\ offset >= Base
  BY DEF StreamInv
<1>5. /\ OffsetCountsWholeRecords'
      /\ pc'[t] = "fsync" \/ (pc'[t] = "relock" /\ fresult' # "writeErr") =>
            /\ Len(file') = Written' + Len(batch')
            /\ InPlace(Written + Len(batch))'
      /\ pc'[t] # "write"
  <2>1. CASE file' = file \o batch /\ pc'[t] \in {"fsync", "relock"}
    <3>1. Len(file') = Len(file) + Len(batch)
      BY <2>1
    <3>2. \A i \in 1 .. Len(file') : file'[i] = Base + i - 1
      <4> SUFFICES ASSUME NEW i \in 1 .. Len(file) + Len(batch)
                   PROVE  file'[i] = Base + i - 1
        BY <3>1
      <4>1. CASE i <= Len(file)
        BY SMTT(30), <2>1, <1>1, <1>4, <4>1 DEF InPlace
      <4>2. CASE i > Len(file)
        <5>1. i - Len(file) \in 1 .. Len(batch)
          BY <1>4, <4>2
        <5>2. batch[i - Len(file)] = offset + (i - Len(file)) - 1
          BY <1>0, <5>1 DEF StreamInv
        <5>3. file'[i] = batch[i - Len(file)]
          BY <2>1, <4>2, <1>4
        <5>4. QED BY <5>2, <5>3, <1>1, <1>4
      <4>3. QED BY <1>4, <4>1, <4>2
    <3>3. QED BY SMTT(30), <2>1, <3>1, <3>2, <1>0, <1>1, <1>4
              DEF OffsetCountsWholeRecords, InPlace, Written
  <2>2. ASSUME NEW k \in 0 .. Len(batch) - 1, NEW cut \in {<<>>, <<Torn>>},
               file' = file \o SubSeq(batch, 1, k) \o cut,
               fresult' = "writeErr", pc'[t] = "relock"
        PROVE  /\ Len(file') >= Len(file)
               /\ \A i \in 1 .. Len(file) : file'[i] = file[i]
    <3>1. SubSeq(batch, 1, k) \in Seq(Nat)
      OBVIOUS
    <3>2. cut \in Seq(Int)
      <4>1. <<>> \in Seq(Int) /\ <<Torn>> \in Seq(Int)
        BY DEF Torn
      <4>2. QED BY <2>2, <4>1
    <3>3. PICK rest : rest = SubSeq(batch, 1, k)
      OBVIOUS
    <3>4. file \in Seq(Int) /\ rest \in Seq(Int)
      BY <3>1, <3>3, SeqMonotone DEF Torn
    <3>5. file' = (file \o rest) \o cut
      BY <2>2, <3>3
    <3>6. QED BY <3>2, <3>4, <3>5, ConcatPrefix, ConcatType
  <2>3. QED BY ZenonT(40), <2>1, <2>2, <1>0, <1>1, <1>4
            DEF WriteBatch, OffsetCountsWholeRecords, InPlace, Written
<1>6. QED BY <1>0, <1>2, <1>3, <1>5 DEF StreamInv, Threads

\* A finished flush moves the offset over exactly the batch it wrote.
LEMMA FinishFlushStream ==
  ASSUME TypeOK, ControlInv, StreamInv, NEW t \in Threads, FinishFlush(t)
  PROVE  StreamInv'
<1> USE ThreadsAssumption, BoundsAssumption DEF TypeOK, ControlInv
<1>0. /\ pc[t] = "relock" /\ flusher = t /\ err = "none"
      /\ UNCHANGED <<pending, assigned, at, file, acked>>
      /\ batch' = <<>> /\ flusher' = NoThread
  BY DEF FinishFlush, diskVars, historyVars
<1>1. \A u \in Threads : pc'[u] \notin {"write", "fsync", "relock"}
  BY <1>0 DEF FinishFlush
<1>2. \A a \in Appenders : pc'[a] # "idle" => pc[a] # "idle"
  BY <1>0 DEF FinishFlush, Threads
<1>3. Len(batch) \in Nat /\ Len(pending) \in Nat /\ Len(file) \in Nat
  OBVIOUS
<1>4. CASE fresult = "writeErr"
  <2>1. offset' = offset /\ err' = "io"
    BY <1>0, <1>4 DEF FinishFlush, FlushOutcome
  <2>2. OffsetCountsWholeRecords'
    BY <1>0, <2>1 DEF StreamInv, OffsetCountsWholeRecords, InPlace, Written
  <2>3. QED BY <1>0, <1>1, <2>1, <2>2 DEF StreamInv
<1>5. CASE fresult # "writeErr"
  <2>1. offset' = offset + Len(batch)
    BY <1>5 DEF FinishFlush, FlushOutcome
  <2>2. Len(file) = Written + Len(batch) /\ InPlace(Written + Len(batch))
    BY <1>0, <1>5 DEF StreamInv
  <2>3. Written' = Written + Len(batch) /\ Written' = Len(file')
    BY <1>0, <1>3, <2>1, <2>2 DEF Written
  <2>4. OffsetCountsWholeRecords'
    BY <1>0, <1>3, <2>2, <2>3 DEF OffsetCountsWholeRecords, InPlace
  <2>5. \A r \in acked' : Base <= r /\ r < offset'
    BY <1>0, <1>3, <2>1 DEF StreamInv
  <2>6. /\ assigned' = offset' + Len(batch') + Len(pending')
        /\ Len(batch') = 0
        /\ \A i \in 1 .. Len(pending') : pending'[i] = offset' + Len(batch') + i - 1
    BY <1>0, <1>3, <2>1 DEF StreamInv
  <2>7. \A a \in Appenders : pc'[a] # "idle" => Base <= at'[a] /\ at'[a] < assigned'
    BY <1>0, <1>2 DEF StreamInv
  <2>8. offset' >= Base
    BY <1>3, <2>1 DEF StreamInv
  <2>9. \A i \in 1 .. Len(batch') : batch'[i] = offset' + i - 1
    BY <2>6
  <2>10. \A u \in Threads : pc'[u] # "write" /\ pc'[u] # "fsync" /\ pc'[u] # "relock"
    BY <1>1
  <2>11. QED BY <2>3, <2>4, <2>5, <2>6, <2>7, <2>8, <2>9, <2>10 DEF StreamInv
<1>6. QED BY <1>4, <1>5

\* Every record is where its offset says, in the file, the batch or pending.
LEMMA StreamCorrect == Spec => []StreamInv
<1>1. Init => StreamInv
  <2> SUFFICES ASSUME Init PROVE StreamInv
    OBVIOUS
  <2>1. Len(file) = 0 /\ Len(batch) = 0 /\ Len(pending) = 0 /\ Written = 0
    BY BoundsAssumption DEF Init, Written
  <2>2. OffsetCountsWholeRecords
    BY <2>1 DEF OffsetCountsWholeRecords, InPlace
  <2>3. \A t \in Threads : pc[t] = "idle"
    BY DEF Init
  <2>4. QED BY <2>1, <2>2, <2>3, BoundsAssumption DEF Init, StreamInv, Threads
<1>2. TypeOK /\ ControlInv /\ StreamInv /\ [Next]_vars => StreamInv'
  <2> SUFFICES ASSUME TypeOK, ControlInv, StreamInv, [Next]_vars PROVE StreamInv'
    OBVIOUS
  <2>a. \A a \in Appenders : a \in Threads
    BY DEF Threads
  <2>0. ASSUME UNCHANGED <<pending, assigned, offset, batch, flusher, fresult,
                           at, file>>,
               err' = err \/ err' # "none",
               \A r \in acked' : Base <= r /\ r < offset,
               \A a \in Appenders : pc'[a] # "idle" => pc[a] # "idle",
               \A u \in Threads : pc'[u] \in {"write", "fsync", "relock"} =>
                                    pc'[u] = pc[u]
        PROVE  StreamInv'
    BY <2>0, <2>a DEF StreamInv, OffsetCountsWholeRecords, InPlace, Written
  <2>1. ASSUME NEW a \in Appenders, StartAppend(a) PROVE StreamInv'
    <3> USE ThreadsAssumption, BoundsAssumption DEF TypeOK, ControlInv
    <3>1. /\ Len(pending') = Len(pending) + 1
          /\ pending'[Len(pending) + 1] = assigned
          /\ \A i \in 1 .. Len(pending) : pending'[i] = pending[i]
          /\ Len(pending) \in Nat /\ Len(batch) \in Nat
      BY <2>1 DEF StartAppend
    <3>2. \A i \in 1 .. Len(pending') : pending'[i] = offset + Len(batch) + i - 1
      <4>1. /\ assigned = offset + Len(batch) + Len(pending)
            /\ \A i \in 1 .. Len(pending) : pending[i] = offset + Len(batch) + i - 1
        BY <2>1 DEF StartAppend, StreamInv
      <4>2. \A i \in 1 .. Len(pending') : i \in 1 .. Len(pending) \/ i = Len(pending) + 1
        BY <3>1
      <4>3. pending'[Len(pending) + 1] = offset + Len(batch) + (Len(pending) + 1) - 1
        BY <3>1, <4>1
      <4>4. QED BY <3>1, <4>1, <4>2, <4>3
    <3>3. OffsetCountsWholeRecords'
      BY <2>1 DEF StartAppend, StreamInv, OffsetCountsWholeRecords, InPlace, Written
    <3>4. /\ \A u \in Threads : u # a => pc'[u] = pc[u]
          /\ pc'[a] = "loop"
      BY <2>1, <2>a DEF StartAppend
    <3>5. \A b \in Appenders : pc'[b] # "idle" => Base <= at'[b] /\ at'[b] < assigned'
      BY <2>1, <2>a, <3>1, <3>4 DEF StartAppend, StreamInv
    <3>6. \A u \in Threads : pc'[u] \in {"write", "fsync", "relock"} => pc'[u] = pc[u]
      BY <3>4
    <3>7. /\ UNCHANGED <<offset, batch, flusher, fresult, err, file, acked>>
          /\ assigned' = assigned + 1 /\ err = "none"
      BY <2>1 DEF StartAppend
    <3>8. \A u \in Threads :
            /\ pc'[u] = "write" => Len(file') = Written'
            /\ pc'[u] = "fsync" \/ (pc'[u] = "relock" /\ fresult' # "writeErr") =>
                 /\ Len(file') = Written' + Len(batch')
                 /\ InPlace(Written + Len(batch))'
      BY <3>6, <3>7 DEF StreamInv, Written, InPlace
    <3>9. QED BY <3>1, <3>2, <3>3, <3>5, <3>7, <3>8 DEF StreamInv, Written
  <2>2. ASSUME NEW a \in Appenders, StageLoop(a) PROVE StreamInv'
    <3>0. UNCHANGED <<at, file>>
      BY <2>2 DEF StageLoop, diskVars
    <3>9. pc[a] = "loop" /\ mu = a
      BY <2>2 DEF StageLoop
    <3>1. CASE ReturnErr(a) \/ (Sleep(a) /\ UNCHANGED <<acked, forced>>)
      <4>1. /\ UNCHANGED <<pending, assigned, offset, batch, flusher, fresult,
                           err, acked>>
            /\ \E l \in {"idle", "asleep"} : pc' = [pc EXCEPT ![a] = l]
        BY <3>1 DEF ReturnErr, Sleep, segmentVars
      <4>2. \A r \in acked' : Base <= r /\ r < offset
        BY <4>1 DEF StreamInv
      <4>3. QED BY <2>0, <3>0, <3>9, <4>1, <4>2, <2>a DEF TypeOK
    <3>2. CASE err = "none" /\ offset >= at[a] + 1 /\ ReturnOK(a)
      <4>1. \A r \in acked' : Base <= r /\ r < offset
        BY <2>2, <3>2, <2>a, BoundsAssumption
           DEF ReturnOK, StageLoop, StreamInv, TypeOK
      <4>2. QED
        BY <2>0, <3>0, <3>2, <4>1, <2>a DEF ReturnOK, segmentVars, TypeOK
    <3>3. CASE err = "none" /\ ~flushing /\ BeginFlush(a) /\ UNCHANGED <<acked, forced>>
      BY <3>0, <3>3, <3>9, <2>a, BeginFlushStream
    <3>4. QED BY <2>2, <3>1, <3>2, <3>3 DEF StageLoop
  <2>3. ASSUME NEW t \in Threads, WriteBatch(t) PROVE StreamInv'
    BY <2>3, WriteBatchStream
  <2>4. ASSUME NEW t \in Threads, SyncBatch(t) PROVE StreamInv'
    BY <2>4, ThreadsAssumption, <2>a
       DEF SyncBatch, StreamInv, TypeOK, ControlInv, historyVars,
           OffsetCountsWholeRecords, InPlace, Written
  <2>5. ASSUME NEW t \in Threads, FinishFlush(t) PROVE StreamInv'
    BY <2>5, FinishFlushStream
  <2>6. ASSUME NEW t \in Threads, Wake(t) PROVE StreamInv'
    BY <2>0, <2>6, <2>a DEF Wake, diskVars, historyVars, StreamInv, TypeOK
  <2>7. ASSUME NEW t \in {Syncer, Closer}, DrainLoop(t) PROVE StreamInv'
    <3>0. UNCHANGED <<at, file, acked>> /\ t \in Threads
      BY <2>7 DEF DrainLoop, historyVars, Threads
    <3>9. pc[t] = "loop" /\ mu = t
      BY <2>7 DEF DrainLoop
    <3>1. CASE err = "none" /\ ~flushing /\ BeginFlush(t)
      BY <3>0, <3>1, <3>9, BeginFlushStream
    <3>2. CASE Sleep(t)
      BY <2>0, <3>0, <3>2, <3>9, <2>a DEF Sleep, StreamInv, TypeOK
    <3>3. CASE err # "none" /\ LeaveSync(t, err)
      BY <2>0, <3>0, <3>3, <2>7, <2>a, ThreadsAssumption
         DEF LeaveSync, DrainLoop, StreamInv, TypeOK, ControlInv, BeginFlush,
             Sleep, DrainSleep
    <3>4. CASE err = "none" /\ ForceFile(t)
      <4>1. /\ pc' = [pc EXCEPT ![t] = IF t = Closer THEN "done" ELSE "idle"]
            /\ UNCHANGED <<pending, assigned, offset, batch, flusher, fresult>>
            /\ err' = err \/ err' # "none"
        BY <3>4 DEF ForceFile, LeaveSync
      <4>2. QED
        BY <2>0, <3>0, <4>1, <2>7, <2>a, ThreadsAssumption
           DEF DrainLoop, StreamInv, TypeOK, ControlInv
    <3>5. QED BY <2>7, <3>1, <3>2, <3>3, <3>4 DEF DrainLoop, DrainSleep
  <2>8. CASE SyncTick \/ SyncStop \/ CloseRequest \/ CloseStop \/ CloseJoin
    BY ZenonT(40), <2>0, <2>8, <2>a, ThreadsAssumption
       DEF SyncTick, SyncStop, CloseRequest, CloseStop, CloseJoin, segmentVars,
           diskVars, historyVars, StreamInv, TypeOK, Threads
  <2>9. ASSUME NEW p \in Policies, SetFsync(p) PROVE StreamInv'
    BY <2>0, <2>9 DEF SetFsync, segmentVars, diskVars, StreamInv
  <2>10. CASE UNCHANGED vars
    BY <2>0, <2>10 DEF vars, StreamInv
  <2>11. QED
    BY <2>1, <2>2, <2>3, <2>4, <2>5, <2>6, <2>7, <2>8, <2>9, <2>10
       DEF Next, FlushStep
<1>3. QED BY <1>1, <1>2, TypeCorrect, ControlCorrect, PTL DEF Spec

-----------------------------------------------------------------------------
\* A batch begun while a promised record is pending will be forced.
LEMMA BeginFlushForce ==
  ASSUME TypeOK, ControlInv, StreamInv, ForceInv, err = "none", ~flushing,
         NEW t \in Threads, mu = t, BeginFlush(t),
         UNCHANGED <<file, synced, at, policy, promised, forced>>
  PROVE  ForceInv'
<1> USE ThreadsAssumption, BoundsAssumption
    DEF TypeOK, ControlInv, BeginFlush, flushing
<1>1. \A u \in Threads : pc'[u] # "relock"
  OBVIOUS
<1>2. flusher' # NoThread /\ err' = "none"
  BY DEF Threads
<1>3. CleanMeansForced' /\ CleanCloseIsDurable'
  BY <1>2 DEF CleanMeansForced, CleanCloseIsDurable
<1>4. \A a \in promised' :
        pc'[a] # "idle" /\ err' = "none" =>
          /\ at'[a] < offset' => at'[a] - Base < synced'
          /\ fpolicy' = "always"
  <2>1. \A a \in promised : a \in Threads /\ policy = "always"
    BY DEF ForceInv, Threads
  <2>2. \A a \in promised : pc'[a] # "idle" => pc[a] # "idle"
    BY <2>1
  <2>3. QED BY <2>1, <2>2 DEF ForceInv
<1>5. AckedForced'
  BY DEF ForceInv, AckedForced
<1>6. QED BY <1>1, <1>3, <1>4, <1>5 DEF ForceInv

\* A finished flush marks the log clean only if it forced the whole file.
LEMMA FinishFlushForce ==
  ASSUME TypeOK, ControlInv, StreamInv, ForceInv,
         NEW t \in Threads, FinishFlush(t)
  PROVE  ForceInv'
<1> USE ThreadsAssumption, BoundsAssumption DEF TypeOK, ControlInv, flushing
<1>0. /\ pc[t] = "relock" /\ flusher = t /\ err = "none"
      /\ UNCHANGED <<pending, assigned, at, file, synced, policy, promised, forced>>
      /\ flusher' = NoThread
  BY DEF FinishFlush, diskVars, historyVars
<1>1. \A u \in Threads : pc'[u] # "relock"
  BY <1>0 DEF FinishFlush
<1>2. \A a \in Appenders : pc'[a] # "idle" => pc[a] # "idle"
  BY <1>0 DEF FinishFlush, Threads
<1>3. AckedForced'
  BY <1>0 DEF ForceInv, AckedForced
<1>4. err' # "closed" /\ CleanCloseIsDurable'
  BY <1>0 DEF FinishFlush, FlushOutcome, CleanCloseIsDurable
<1>5. CASE fresult # "ok"
  <2>1. err' = "io"
    BY <1>0, <1>5 DEF FinishFlush, FlushOutcome
  <2>2. QED BY <1>0, <1>1, <1>3, <1>4, <2>1 DEF ForceInv, CleanMeansForced
<1>6. CASE fresult = "ok"
  <2>1. offset' = offset + Len(batch) /\ dirty' = (fpolicy # "always")
    BY <1>0, <1>6 DEF FinishFlush, FlushOutcome
  <2>2. fpolicy = "always" => synced = Len(file)
    BY <1>0, <1>6 DEF ForceInv
  <2>3. Len(file) = offset - Base + Len(batch)
    BY <1>0, <1>6 DEF StreamInv, Written
  <2>4. CleanMeansForced'
    BY <1>0, <2>1, <2>2 DEF CleanMeansForced
  <2>5. ASSUME NEW a \in promised', pc'[a] # "idle", at'[a] < offset'
        PROVE  at'[a] - Base < synced'
    <3>1. a \in promised /\ pc[a] # "idle" /\ at'[a] = at[a] /\ a \in Appenders
      BY <1>0, <1>2, <2>5
    <3>2. CASE at[a] < offset
      BY <1>0, <3>1, <3>2 DEF ForceInv
    <3>3. CASE ~(at[a] < offset)
      <4>1. fpolicy = "always"
        <5>1. offset <= at[a] /\ at[a] < offset + Len(batch)
          BY <2>1, <2>5, <3>1, <3>3
        <5>2. flushing /\ err = "none"
          BY <1>0
        <5>3. QED BY <3>1, <5>1, <5>2 DEF ForceInv
      <4>2. QED BY <1>0, <2>1, <2>2, <2>3, <2>5, <3>1, <4>1
    <3>4. QED BY <3>2, <3>3
  <2>6. QED BY <1>0, <1>1, <1>3, <1>4, <2>4, <2>5 DEF ForceInv
<1>7. QED BY <1>5, <1>6

\* The dirty flag and the promises under "always" agree with the disk.
LEMMA ForceCorrect == Spec => []ForceInv
<1>1. Init => ForceInv
  <2> SUFFICES ASSUME Init PROVE ForceInv
    OBVIOUS
  <2>1. Len(file) = 0 /\ synced = 0 /\ promised = {} /\ forced = {} /\ err = "none"
    BY DEF Init
  <2>2. \A t \in Threads : pc[t] = "idle"
    BY DEF Init
  <2>3. QED BY <2>1, <2>2 DEF ForceInv, CleanMeansForced, CleanCloseIsDurable,
                              AckedForced
<1>2. TypeOK /\ ControlInv /\ StreamInv /\ ForceInv /\ [Next]_vars => ForceInv'
  <2> SUFFICES ASSUME TypeOK, ControlInv, StreamInv, ForceInv, [Next]_vars
               PROVE  ForceInv'
    OBVIOUS
  <2>a. \A a \in Appenders : a \in Threads
    BY DEF Threads
  \* Steps that move a thread without touching the log or the disk.
  <2>0. ASSUME UNCHANGED <<pending, assigned, offset, batch, flusher, fpolicy,
                           fresult, at, dirty, err, policy, file, synced,
                           promised>>,
               AckedForced',
               \A a \in Appenders : pc'[a] # "idle" => pc[a] # "idle",
               \A u \in Threads : pc'[u] = "relock" => pc[u] = "relock"
        PROVE  ForceInv'
    <3>1. CleanMeansForced' /\ CleanCloseIsDurable'
      BY <2>0 DEF ForceInv, CleanMeansForced, CleanCloseIsDurable, flushing,
                  Written
    <3>2. QED BY <2>0, <3>1 DEF ForceInv, flushing, TypeOK
  <2>b. forced' = forced /\ synced' = synced => AckedForced'
    BY DEF ForceInv, AckedForced
  <2>1. ASSUME NEW a \in Appenders, StartAppend(a) PROVE ForceInv'
    <3>0. /\ UNCHANGED <<offset, batch, flusher, fpolicy, fresult, dirty, err,
                         policy, file, synced, forced>>
          /\ err = "none"
          /\ promised' = IF policy = "always" THEN promised \cup {a}
                                              ELSE promised \ {a}
          /\ at' = [at EXCEPT ![a] = assigned]
          /\ pc' = [pc EXCEPT ![a] = "loop"]
      BY <2>1 DEF StartAppend
    <3>1. CleanMeansForced' /\ CleanCloseIsDurable' /\ AckedForced'
      BY <2>b, <3>0 DEF ForceInv, CleanMeansForced, CleanCloseIsDurable, flushing
    <3>2. assigned >= offset + Len(batch) /\ Len(batch) \in Nat
      BY <3>0 DEF StreamInv, TypeOK
    <3>3. \A u \in Threads : pc'[u] = "relock" => pc[u] = "relock"
      BY <3>0, <2>a DEF TypeOK
    <3>4. ASSUME NEW b \in promised', pc'[b] # "idle", err' = "none"
          PROVE  /\ at'[b] < offset' => at'[b] - Base < synced'
                 /\ flushing' /\ offset' <= at'[b] /\ at'[b] < offset' + Len(batch')
                      => fpolicy' = "always"
      <4>1. CASE b = a
        BY <3>0, <3>2, <4>1 DEF TypeOK
      <4>2. CASE b # a
        <5>1. b \in promised /\ b \in Appenders /\ pc'[b] = pc[b] /\ at'[b] = at[b]
          BY <3>0, <3>4, <4>2, <2>a DEF TypeOK
        <5>2. QED BY <3>0, <3>4, <5>1 DEF ForceInv, flushing
      <4>3. QED BY <4>1, <4>2
    <3>5. promised' # {} => policy' = "always"
      BY <3>0 DEF ForceInv
    <3>6. QED BY <3>0, <3>1, <3>3, <3>4, <3>5 DEF ForceInv
  <2>2. ASSUME NEW a \in Appenders, StageLoop(a) PROVE ForceInv'
    <3>0. UNCHANGED <<at, policy, file, synced, promised>>
      BY <2>2 DEF StageLoop, diskVars
    <3>9. pc[a] = "loop" /\ mu = a
      BY <2>2 DEF StageLoop
    <3>1. CASE ReturnErr(a) \/ (Sleep(a) /\ UNCHANGED <<acked, forced>>)
      <4>1. /\ UNCHANGED <<pending, assigned, offset, batch, flusher, fpolicy,
                           fresult, dirty, err, forced>>
            /\ \E l \in {"idle", "asleep"} : pc' = [pc EXCEPT ![a] = l]
        BY <3>1 DEF ReturnErr, Sleep, segmentVars
      <4>2. QED BY <2>0, <2>b, <3>0, <3>9, <4>1, <2>a DEF TypeOK
    <3>2. CASE err = "none" /\ offset >= at[a] + 1 /\ ReturnOK(a)
      <4>1. AckedForced'
        <5>1. a \in promised => at[a] - Base < synced
          BY <3>2, <3>9 DEF ForceInv, TypeOK
        <5>2. QED BY <3>0, <3>2, <5>1 DEF ReturnOK, ForceInv, AckedForced
      <4>2. QED BY <2>0, <3>0, <3>2, <3>9, <4>1, <2>a
                DEF ReturnOK, segmentVars, TypeOK
    <3>3. CASE err = "none" /\ ~flushing /\ BeginFlush(a) /\ UNCHANGED <<acked, forced>>
      BY <3>0, <3>3, <3>9, <2>a, BeginFlushForce
    <3>4. QED BY <2>2, <3>1, <3>2, <3>3 DEF StageLoop
  <2>3. ASSUME NEW t \in Threads, WriteBatch(t) PROVE ForceInv'
    <3>0. /\ pc[t] = "write" /\ flusher = t /\ fresult = "ok" /\ err = "none"
          /\ UNCHANGED <<pending, assigned, offset, batch, flusher, fpolicy, at,
                         dirty, err, policy, synced, promised, forced>>
      BY <2>3, ThreadsAssumption DEF WriteBatch, ControlInv, historyVars
    <3>1. flushing /\ flushing'
      BY <3>0, ThreadsAssumption DEF flushing, Threads
    <3>2. /\ \A u \in Threads : u # t => pc'[u] = pc[u] /\ pc[u] # "relock"
          /\ pc'[t] = "relock" => (fresult' = "writeErr" \/ fpolicy # "always")
      BY <2>3, <3>0 DEF WriteBatch, TypeOK, ControlInv
    <3>3. Len(file') >= Len(file)
      <4>1. Len(file) = Written
        BY <3>0 DEF StreamInv
      <4>2. StreamInv'
        BY <2>3, WriteBatchStream
      <4>3. Written' <= Len(file') /\ Written' = Written
        BY <3>0, <4>2 DEF StreamInv, OffsetCountsWholeRecords, Written
      <4>4. QED BY <4>1, <4>3
    <3>4. synced' <= Len(file')
      <4>1. Len(file') \in Nat /\ Len(file) \in Nat
        <5>1. TypeOK'
          BY <2>3, TypeStep DEF Next, FlushStep
        <5>2. QED BY <5>1 DEF TypeOK
      <4>2. QED BY <3>0, <3>3, <4>1 DEF ForceInv, TypeOK
    <3>5. CleanMeansForced' /\ CleanCloseIsDurable' /\ AckedForced'
      BY <2>b, <3>0, <3>1 DEF CleanMeansForced, CleanCloseIsDurable
    <3>6. \A a \in promised : pc'[a] # "idle" => pc[a] # "idle"
      BY <3>0, <3>2, <2>a DEF TypeOK
    <3>7. QED BY <3>0, <3>1, <3>2, <3>4, <3>5, <3>6 DEF ForceInv
  <2>4. ASSUME NEW t \in Threads, SyncBatch(t) PROVE ForceInv'
    <3>0. /\ pc[t] = "fsync" /\ flusher = t /\ fresult = "ok" /\ err = "none"
          /\ UNCHANGED <<pending, assigned, offset, batch, flusher, fpolicy, at,
                         dirty, err, policy, file, promised, forced>>
          /\ (synced' = Len(file) /\ fresult' = fresult)
               \/ (synced' = synced /\ fresult' = "syncErr")
      BY <2>4, ThreadsAssumption DEF SyncBatch, ControlInv, historyVars
    <3>1. flushing'
      BY <3>0, ThreadsAssumption DEF flushing, Threads
    <3>2. /\ \A u \in Threads : u # t => pc'[u] = pc[u] /\ pc[u] # "relock"
      BY <2>4, <3>0 DEF SyncBatch, TypeOK, ControlInv
    <3>3. synced' >= synced /\ synced' <= Len(file') /\ synced \in Nat /\ synced' \in Nat
      BY <3>0 DEF ForceInv, TypeOK
    <3>4. CleanMeansForced' /\ CleanCloseIsDurable'
      BY <3>0, <3>1 DEF CleanMeansForced, CleanCloseIsDurable
    <3>5. AckedForced'
      <4>1. \A r \in forced : r \in Int /\ r - Base < synced
        BY DEF ForceInv, AckedForced, TypeOK
      <4>2. QED BY <3>0, <3>3, <4>1, BoundsAssumption DEF AckedForced
    <3>6. \A a \in promised : pc'[a] # "idle" => pc[a] # "idle"
      BY <3>0, <3>2, <2>a DEF TypeOK
    <3>7. \A a \in promised : at[a] \in Nat
      BY DEF TypeOK
    <3>8. QED BY <3>0, <3>1, <3>2, <3>3, <3>4, <3>5, <3>6, <3>7, BoundsAssumption
              DEF ForceInv, flushing
  <2>5. ASSUME NEW t \in Threads, FinishFlush(t) PROVE ForceInv'
    BY <2>5, FinishFlushForce
  <2>6. ASSUME NEW t \in Threads, Wake(t) PROVE ForceInv'
    BY <2>0, <2>b, <2>6, <2>a DEF Wake, diskVars, historyVars, TypeOK
  <2>7. ASSUME NEW t \in {Syncer, Closer}, DrainLoop(t) PROVE ForceInv'
    <3>0. UNCHANGED <<at, policy, file, promised, forced>> /\ t \in Threads
      BY <2>7 DEF DrainLoop, historyVars, Threads
    <3>9. pc[t] = "loop" /\ mu = t /\ t \notin Appenders
      BY <2>7, ThreadsAssumption DEF DrainLoop
    <3>1. CASE err = "none" /\ ~flushing /\ BeginFlush(t) /\ UNCHANGED synced
      BY <3>0, <3>1, <3>9, BeginFlushForce
    <3>2. CASE Sleep(t) /\ UNCHANGED synced
      BY <2>0, <2>b, <3>0, <3>2, <3>9, <2>a DEF Sleep, TypeOK
    <3>3. CASE /\ err # "none" /\ LeaveSync(t, err)
               /\ UNCHANGED <<pending, assigned, offset, batch, flusher, fpolicy,
                              fresult, waiters, dirty, synced>>
      BY <2>0, <2>b, <3>0, <3>3, <3>9, <2>a DEF LeaveSync, TypeOK
    <3>4. CASE err = "none" /\ ~flushing /\ pending = <<>> /\ ForceFile(t)
      <4>1. /\ pc' = [pc EXCEPT ![t] = IF t = Closer THEN "done" ELSE "idle"]
            /\ UNCHANGED <<pending, assigned, offset, batch, flusher, fpolicy,
                           fresult>>
        BY <3>4 DEF ForceFile, LeaveSync
      <4>2. /\ Len(file) = Written /\ assigned = offset
            /\ synced <= Len(file)
        <5>1. flusher = NoThread /\ batch = <<>> /\ Len(pending) = 0 /\ Len(batch) = 0
          BY <3>4 DEF ControlInv, flushing
        <5>2. QED BY <3>4, <5>1 DEF StreamInv, ForceInv, TypeOK
      <4>3. \/ synced' = Len(file) /\ (err' = err \/ err' = "closed")
            \/ synced' = synced /\ err' = "io"
        BY <3>4, <4>2 DEF ForceFile, LeaveSync, ForceInv, CleanMeansForced
      <4>4. CleanMeansForced' /\ CleanCloseIsDurable'
        BY <3>0, <3>4, <4>1, <4>2, <4>3
           DEF CleanMeansForced, CleanCloseIsDurable, Written
      <4>5. synced' >= synced /\ synced' \in Nat /\ synced \in Nat /\ synced' <= Len(file')
        BY <3>0, <4>2, <4>3 DEF TypeOK
      <4>6. AckedForced'
        <5>1. \A r \in forced : r \in Int /\ r - Base < synced
          BY DEF ForceInv, AckedForced, TypeOK
        <5>2. QED BY <3>0, <4>5, <5>1, BoundsAssumption DEF AckedForced
      <4>7. /\ \A a \in promised : pc'[a] = pc[a] /\ at[a] \in Nat
            /\ \A u \in Threads : pc'[u] # "relock"
        <5>1. \A u \in Threads : pc[u] # "relock"
          BY <3>4, ThreadsAssumption DEF ControlInv, flushing
        <5>2. \A u \in Threads : u # t => pc'[u] = pc[u]
          BY <4>1 DEF TypeOK
        <5>3. pc'[t] # "relock"
          BY <3>0, <4>1 DEF TypeOK
        <5>4. \A a \in promised : a \in Threads /\ a # t /\ at[a] \in Nat
          BY <3>9, <2>a DEF TypeOK
        <5>5. QED BY <5>1, <5>2, <5>3, <5>4
      <4>8. ASSUME NEW a \in promised', pc'[a] # "idle", err' = "none"
            PROVE  /\ at'[a] < offset' => at'[a] - Base < synced'
                   /\ ~flushing'
        BY <3>0, <3>4, <4>1, <4>5, <4>7, <4>8, BoundsAssumption
           DEF ForceInv, flushing
      <4>9. QED BY <3>0, <4>4, <4>5, <4>6, <4>7, <4>8 DEF ForceInv
    <3>5. QED BY <2>7, <3>1, <3>2, <3>3, <3>4 DEF DrainLoop, DrainSleep
  <2>8. CASE SyncTick \/ SyncStop \/ CloseRequest \/ CloseStop \/ CloseJoin
    BY <2>0, <2>b, <2>8, <2>a, ThreadsAssumption
       DEF SyncTick, SyncStop, CloseRequest, CloseStop, CloseJoin, segmentVars,
           diskVars, historyVars, TypeOK, Threads
  <2>9. ASSUME NEW p \in Policies, SetFsync(p) PROVE ForceInv'
    <3>1. /\ UNCHANGED <<pc, pending, assigned, offset, batch, flusher, fpolicy,
                         fresult, at, dirty, err, file, synced, forced>>
          /\ promised' \subseteq promised
          /\ promised' # {} => policy' = "always"
      BY <2>9 DEF SetFsync, segmentVars, diskVars
    <3>2. CleanMeansForced' /\ CleanCloseIsDurable' /\ AckedForced'
      BY <2>b, <3>1 DEF ForceInv, CleanMeansForced, CleanCloseIsDurable,
                        flushing, Written
    <3>3. QED BY <3>1, <3>2 DEF ForceInv, flushing
  <2>10. CASE UNCHANGED vars
    BY <2>0, <2>b, <2>10 DEF vars
  <2>11. QED
    BY <2>1, <2>2, <2>3, <2>4, <2>5, <2>6, <2>7, <2>8, <2>9, <2>10
       DEF Next, FlushStep
<1>3. QED BY <1>1, <1>2, TypeCorrect, ControlCorrect, StreamCorrect, PTL DEF Spec

-----------------------------------------------------------------------------
\* Log.Offset never counts a record that is staged, torn or out of order.
THEOREM OffsetExact == Spec => []OffsetCountsWholeRecords
<1>1. StreamInv => OffsetCountsWholeRecords
  BY DEF StreamInv
<1>2. QED BY <1>1, StreamCorrect, PTL

\* Every acknowledged append is in the file at the offset it returned.
THEOREM AckedIsWritten == Spec => []AckedWritten
<1>1. TypeOK /\ StreamInv => AckedWritten
  <2> SUFFICES ASSUME TypeOK, StreamInv, NEW r \in acked
               PROVE  /\ r >= Base
                      /\ r - Base < Len(file)
                      /\ file[r - Base + 1] = r
    BY DEF AckedWritten
  <2> USE BoundsAssumption DEF TypeOK
  <2>1. r \in Nat /\ Base <= r /\ r < offset
    BY DEF StreamInv
  <2>2. offset - Base <= Len(file) /\ Len(file) \in Nat
    BY DEF StreamInv, OffsetCountsWholeRecords, Written
  <2>3. r - Base + 1 \in 1 .. (offset - Base)
    BY <2>1
  <2>4. \A i \in 1 .. (offset - Base) : file[i] = Base + i - 1
    BY DEF StreamInv, OffsetCountsWholeRecords, InPlace, Written
  <2>5. file[r - Base + 1] = Base + (r - Base + 1) - 1
    BY <2>3, <2>4
  <2>6. QED BY <2>1, <2>2, <2>5
<1>2. QED BY <1>1, TypeCorrect, StreamCorrect, PTL

\* Under appendfsync always an acknowledged append is on stable storage.
THEOREM AckedIsForced == Spec => []AckedForced
<1>1. ForceInv => AckedForced
  BY DEF ForceInv
<1>2. QED BY <1>1, ForceCorrect, PTL

\* A clean close leaves the whole acknowledged stream on stable storage, and a
\* log that believes it is clean is.
THEOREM CloseIsDurable == Spec => [](CleanCloseIsDurable /\ CleanMeansForced)
<1>1. ForceInv => CleanCloseIsDurable /\ CleanMeansForced
  BY DEF ForceInv
<1>2. QED BY <1>1, ForceCorrect, PTL
-----------------------------------------------------------------------------
\* A sleeper stays counted until it has been woken, and only the end of a flush,
\* which wakes every sleeper, leaves nobody flushing.
LEMMA WakeCorrect == Spec => []WakeInv
<1>1. Init => WakeInv
  BY DEF Init, WakeInv
<1>2. TypeOK /\ ControlInv /\ WakeInv /\ [Next]_vars => WakeInv'
  <2> SUFFICES ASSUME TypeOK, ControlInv, WakeInv, [Next]_vars PROVE WakeInv'
    OBVIOUS
  <2> USE ThreadsAssumption DEF TypeOK, WakeInv, Threads, flushing
  <2>1. ASSUME NEW a \in Appenders, StartAppend(a) PROVE WakeInv'
    BY <2>1 DEF StartAppend
  <2>2. ASSUME NEW a \in Appenders, StageLoop(a) PROVE WakeInv'
    <3>1. CASE ReturnOK(a) \/ ReturnErr(a)
      BY <3>1 DEF ReturnOK, ReturnErr, segmentVars
    <3>2. CASE flushing /\ Sleep(a)
      BY <3>2 DEF Sleep
    <3>3. CASE BeginFlush(a)
      BY <3>3 DEF BeginFlush
    <3>4. QED BY <2>2, <3>1, <3>2, <3>3 DEF StageLoop
  <2>3. ASSUME NEW t \in Threads, WriteBatch(t) PROVE WakeInv'
    BY ZenonT(40), <2>3 DEF WriteBatch
  <2>4. ASSUME NEW t \in Threads, SyncBatch(t) PROVE WakeInv'
    BY <2>4 DEF SyncBatch
  <2>5. ASSUME NEW t \in Threads, FinishFlush(t) PROVE WakeInv'
    BY <2>5 DEF FinishFlush
  <2>6. ASSUME NEW t \in Threads, Wake(t) PROVE WakeInv'
    BY <2>6 DEF Wake
  <2>7. ASSUME NEW t \in {Syncer, Closer}, DrainLoop(t) PROVE WakeInv'
    <3>1. CASE err # "none" /\ LeaveSync(t, err)
      BY <2>7, <3>1 DEF DrainLoop, LeaveSync
    <3>2. CASE flushing /\ Sleep(t)
      BY <3>2 DEF Sleep
    <3>3. CASE BeginFlush(t)
      BY <3>3 DEF BeginFlush
    <3>4. CASE ForceFile(t)
      <4>1. pc' = [pc EXCEPT ![t] = IF t = Closer THEN "done" ELSE "idle"]
        BY <3>4 DEF ForceFile, LeaveSync
      <4>2. UNCHANGED <<flusher, waiters>>
        BY <3>4 DEF ForceFile
      <4>3. QED BY <4>1, <4>2
    <3>5. QED BY <2>7, <3>1, <3>2, <3>3, <3>4 DEF DrainLoop, DrainSleep
  <2>8. CASE SyncTick \/ SyncStop \/ CloseRequest \/ CloseStop \/ CloseJoin
    BY <2>8 DEF SyncTick, SyncStop, CloseRequest, CloseStop, CloseJoin, segmentVars
  <2>9. ASSUME NEW p \in Policies, SetFsync(p) PROVE WakeInv'
    BY <2>9 DEF SetFsync, segmentVars
  <2>10. CASE UNCHANGED vars
    BY <2>10 DEF vars
  <2>11. QED
    BY <2>1, <2>2, <2>3, <2>4, <2>5, <2>6, <2>7, <2>8, <2>9, <2>10
       DEF Next, FlushStep
<1>3. QED BY <1>1, <1>2, TypeCorrect, ControlCorrect, PTL DEF Spec

\* The dirty flag and the waiter count never mislead a goroutine that acts on
\* them: a clean log is forced, and no wake-up of flushLocked is ever lost.
THEOREM FlagsAreHonest == Spec => []FlagsHonest
<1>1. ForceInv /\ WakeInv => FlagsHonest
  BY DEF ForceInv, WakeInv, FlagsHonest, NoLostWakeup
<1>2. QED BY <1>1, ForceCorrect, WakeCorrect, PTL
=============================================================================
