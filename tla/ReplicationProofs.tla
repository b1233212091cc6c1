------------------------- MODULE ReplicationProofs -------------------------
(***************************************************************************)
(* Proofs about Replication where none of the hard cases happens: what a   *)
(* streaming replica holds, that a replica which crashed starts again, and *)
(* that replication implements the attached copy.                          *)
(*                                                                         *)
(* The argument follows the offset the replica would quote to PSYNC.  As   *)
(* long as the leader that answers is the process the offset belongs to    *)
(* (Known), the replica's log is a stretch of that leader's log that ends  *)
(* there, and its shards are what the leader's log says at that point;     *)
(* when the process is another one the offset is never accepted, and       *)
(* nothing is claimed.  Nor is anything of the memory of a process whose    *)
(* log has failed; its files stay right, and the next process finds them.  *)
(***************************************************************************)
EXTENDS Replication, WellFoundedInduction, TLAPS

\* The history the replica would quote is the one the leader is writing.
Known == Offered.id = runid

\* The phases in which memory and the log go by that history.
Kept ==
  /\ ~rfailed
  /\ \/ phase \in {"down", "stream"}
     \/ phase = "leader" /\ ~own
     \/ phase = "body" /\ ~conn

Receiving == phase \in {"body", "loaded", "reset", "renamed"}

\* Histories only get newer, and the one on disk is not the newer one.
IdInv ==
  /\ replID # NoId => replID <= runid
  /\ leaderID # NoId => leaderID <= runid
  /\ replID # NoId /\ leaderID # NoId => leaderID <= replID

\* Where the session is, and what that leaves standing.
PhaseInv ==
  /\ conn => Known /\ (Receiving \/ phase = "stream")
  /\ Receiving => replID # NoId /\ incoming # None
  /\ phase \in {"leader", "crashed", "wiping", "wiped"} => replID = NoId
  /\ filter # None => phase = "stream" /\ replID # NoId
  /\ own /\ leaderID = runid => phase = "leader"
  /\ phase # "refused"

\* The leader's snapshot lies between where its log begins and where it ends.
LeaderInv ==
  /\ snap = None => oldest = 0
  /\ snap # None => \A s \in Shards : snap[s] \in oldest .. Len(log)

\* An acknowledgement is of the session in progress.
AckInv == ack <= offset /\ (phase # "stream" => ack = 0)

Matches == LogEnd <= Len(log) /\ \A i \in 1 .. Len(rlog) : rlog[i] = log[rbase + i]

\* The replica's log is the leader's, and the offset is its end.
LogInv ==
  Kept /\ Known => Matches /\ (phase = "stream" \/ replID # NoId => offset = LogEnd)

\* How far a shard has come: a shard with a later anchor is ahead of the log.
Upto(s) == IF filter = None \/ filter[s] <= LogEnd THEN LogEnd ELSE filter[s]

\* The shards are what the leader's log says, unless the leader has pruned its
\* log past the replica, which it then never lets resume.
DataInv ==
  Kept /\ Known /\ (LogEnd >= oldest \/ phase = "stream") =>
    \A s \in Shards : Upto(s) <= Len(log) /\ ks[s] = After(log, s, Upto(s))

\* A received snapshot is one of the leader's, and replaces the keyspace.
BodyInv ==
  Receiving /\ replID = runid =>
    /\ \A s \in Shards : incoming[s] <= Len(log)
    /\ phase # "body" => ks = Contents(incoming)

SwitchInv ==
  /\ phase \in {"reset", "renamed"} => rbase = FirstAnchor(incoming) /\ rlog = << >>
  /\ phase = "renamed" => rsnap = [anchors |-> incoming, shards |-> ks]

\* Where the log's files are not whole: inside a reset, or with a failed log.
FileInv ==
  /\ rfile # "whole" => rfailed \/ phase \in {"loaded", "crashed", "wiping"}
  /\ phase = "crashed" => rfile \in {"whole", "none"}
  /\ rfile \in {"none", "headless"} => rbase = 0 /\ rlog = << >>

\* Nothing breaks off inside a snapshot's window.
WindowInv == ~conn /\ Known /\ ~rfailed => ~InWindow /\ ~ComingWindow

\* What is on disk goes by the history it is filed under.
DiskInv ==
  leaderID = runid /\ ~own /\ phase # "reset" =>
    /\ Matches
    /\ rsnap # None /\ (LogEnd >= oldest \/ (phase = "stream" /\ ~rfailed)) =>
         \A s \in Shards : /\ rsnap.anchors[s] <= Len(log)
                           /\ rsnap.shards[s] = After(log, s, rsnap.anchors[s])

\* The log on disk never begins after the point a restart begins from.
StartInv == phase # "reset" /\ rfile \in {"whole", "none"} => ~RestoreRefused

EndInv == LogEnd <= MaxLog /\ offset <= MaxLog

IInv ==
  /\ TypeOK /\ EndInv /\ IdInv /\ PhaseInv /\ LeaderInv /\ AckInv /\ LogInv /\ DataInv
  /\ BodyInv /\ SwitchInv /\ FileInv /\ WindowInv /\ DiskInv /\ StartInv

-----------------------------------------------------------------------------
(***************************************************************************)
(* What Select computes, for every sequence: its value at 0 and at n + 1,  *)
(* and what follows by taking a least position where a claim fails.        *)
(***************************************************************************)
\* A nonempty set of numbers has a least element.
LEMMA LeastNat ==
  ASSUME NEW T, T \subseteq Nat, T # {}
  PROVE  \E x \in T : \A y \in T : x <= y
<1> DEFINE R == OpToRel(<, Nat)
<1>1. IsWellFoundedOn(R, Nat)
  BY NatLessThanWellFounded
<1>2. R = {ss \in Nat \X Nat : ss[1] < ss[2]}
  BY Zenon DEF OpToRel
<1> HIDE DEF R
<1>3. PICK x \in T : \A y \in T : ~(<<y, x>> \in R)
  BY <1>1, WFMin, Zenon
<1>4. ASSUME NEW y \in T PROVE x <= y
  <2>1. x \in Nat /\ y \in Nat
    OBVIOUS
  <2>2. <<y, x>> \in Nat \X Nat /\ <<y, x>>[1] = y /\ <<y, x>>[2] = x
    BY <2>1
  <2>3. ~(y < x)
    BY <1>2, <1>3, <1>4, <2>2
  <2>4. QED BY <2>1, <2>3
<1>5. QED BY <1>4

\* A set of naturals with 0 and with the successor of each of its members.
LEMMA Induction ==
  ASSUME NEW T, 0 \in T, \A n \in Nat : n \in T => n + 1 \in T
  PROVE  Nat \subseteq T
<1> SUFFICES ASSUME Nat \ T # {} PROVE FALSE
  OBVIOUS
<1>1. PICK n \in Nat \ T : \A m \in Nat \ T : n <= m
  BY LeastNat
<1>2. n # 0 /\ n - 1 \in Nat
  BY <1>1
<1>3. n - 1 \in T
  BY <1>1, <1>2
<1>4. (n - 1) + 1 \in T
  BY <1>2, <1>3
<1>5. QED BY <1>1, <1>4

\* The function of Select's definition: the value at each position.
Steps(f, start, sq, D, n) ==
  f = [i \in 0 .. n |->
         IF i = 0 THEN start
         ELSE IF i \in D THEN Append(f[i - 1], sq[i]) ELSE f[i - 1]]

\* What a function with Steps satisfies, point by point.
LEMMA StepsAre ==
  ASSUME NEW f, NEW start, NEW sq, NEW D, NEW n \in Nat, Steps(f, start, sq, D, n)
  PROVE  /\ f[0] = start
         /\ \A i \in 1 .. n : f[i] = IF i \in D THEN Append(f[i - 1], sq[i]) ELSE f[i - 1]
<1> DEFINE h == [i \in 0 .. n |->
                   IF i = 0 THEN start
                   ELSE IF i \in D THEN Append(f[i - 1], sq[i]) ELSE f[i - 1]]
<1>1. /\ h[0] = start
      /\ \A i \in 1 .. n : h[i] = IF i \in D THEN Append(f[i - 1], sq[i]) ELSE f[i - 1]
  OBVIOUS
<1>2. f = h
  BY DEF Steps
<1> HIDE DEF h
<1>3. f[0] = h[0] /\ \A i \in 1 .. n : f[i] = h[i]
  BY <1>2
<1>4. QED BY <1>1, <1>3

\* There is such a function, of any length.
LEMMA StepsExist ==
  ASSUME NEW start, NEW sq, NEW D
  PROVE  \A n \in Nat : \E f : Steps(f, start, sq, D, n)
<1> DEFINE T == {n \in Nat : \E f : Steps(f, start, sq, D, n)}
<1>1. 0 \in T
  <2>1. Steps([i \in 0 .. 0 |-> start], start, sq, D, 0)
    BY DEF Steps
  <2>2. QED BY <2>1
<1>2. ASSUME NEW n \in Nat, n \in T PROVE n + 1 \in T
  <2>1. PICK f : Steps(f, start, sq, D, n)
    BY <1>2
  <2> DEFINE g == [i \in 0 .. n + 1 |->
                     IF i <= n THEN f[i]
                     ELSE IF i \in D THEN Append(f[n], sq[i]) ELSE f[n]]
  <2>2. ASSUME NEW i \in 0 .. n + 1
        PROVE  g[i] = IF i = 0 THEN start
                      ELSE IF i \in D THEN Append(g[i - 1], sq[i]) ELSE g[i - 1]
    <3>1. CASE i = 0
      BY <2>1, <3>1, StepsAre
    <3>2. CASE i \in 1 .. n
      <4>1. f[i] = IF i \in D THEN Append(f[i - 1], sq[i]) ELSE f[i - 1]
        BY <2>1, <3>2, StepsAre
      <4>2. g[i] = f[i] /\ g[i - 1] = f[i - 1] /\ i # 0
        BY <3>2
      <4>3. QED BY <4>1, <4>2
    <3>3. CASE i = n + 1
      <4>1. i - 1 = n /\ ~(i <= n) /\ i # 0 /\ g[n] = f[n]
        BY <3>3
      <4>2. QED BY <4>1
    <3>4. QED BY <3>1, <3>2, <3>3
  <2>3. Steps(g, start, sq, D, n + 1)
    <3> HIDE DEF g
    <3>1. g = [i \in 0 .. n + 1 |-> g[i]]
      BY DEF g
    <3>2. QED BY <2>2, <3>1 DEF Steps
  <2>4. QED BY <2>3
<1>3. Nat \subseteq T
  <2> HIDE DEF T
  <2>1. QED BY <1>1, <1>2, Induction
<1>4. QED BY <1>3

\* Two of them agree as far as both go.
LEMMA StepsAgree ==
  ASSUME NEW start, NEW sq, NEW D, NEW n \in Nat, NEW m \in Nat, n <= m,
         NEW f, Steps(f, start, sq, D, n), NEW g, Steps(g, start, sq, D, m)
  PROVE  f[n] = g[n]
<1> DEFINE T == {i \in Nat : i <= n => f[i] = g[i]}
<1>1. 0 \in T
  BY StepsAre
<1>2. ASSUME NEW i \in Nat, i \in T PROVE i + 1 \in T
  <2> SUFFICES ASSUME i + 1 <= n PROVE f[i + 1] = g[i + 1]
    OBVIOUS
  <2>1. i + 1 \in 1 .. n /\ i + 1 \in 1 .. m /\ f[i] = g[i] /\ (i + 1) - 1 = i
    BY <1>2
  <2>2. f[i + 1] = IF i + 1 \in D THEN Append(f[(i + 1) - 1], sq[i + 1]) ELSE f[(i + 1) - 1]
    BY <2>1, StepsAre
  <2>3. g[i + 1] = IF i + 1 \in D THEN Append(g[(i + 1) - 1], sq[i + 1]) ELSE g[(i + 1) - 1]
    BY <2>1, StepsAre
  <2>4. QED BY <2>1, <2>2, <2>3
<1>3. Nat \subseteq T
  <2> HIDE DEF T
  <2>1. QED BY <1>1, <1>2, Induction
<1>4. QED BY <1>3

\* Select is the last value of one.
LEMMA SelectIs ==
  ASSUME NEW start, NEW sq, NEW D, NEW n \in Nat
  PROVE  \E f : Steps(f, start, sq, D, n) /\ Select(start, sq, D, n) = f[n]
<1> DEFINE f == CHOOSE f : Steps(f, start, sq, D, n)
<1>1. Select(start, sq, D, n) = f[n]
  BY Zenon DEF Select, Steps
<1>2. Steps(f, start, sq, D, n)
  BY StepsExist, Zenon
<1>3. QED BY <1>1, <1>2

-----------------------------------------------------------------------------
(***************************************************************************)
(* The laws of Select.                                                     *)
(***************************************************************************)
LEMMA SelectNone ==
  ASSUME NEW start, NEW sq, NEW D
  PROVE  Select(start, sq, D, 0) = start
BY SelectIs, StepsAre

\* Select unfolds from its end.
LEMMA SelectNext ==
  ASSUME NEW start, NEW sq, NEW D, NEW n \in Nat
  PROVE  Select(start, sq, D, n + 1) =
           IF n + 1 \in D THEN Append(Select(start, sq, D, n), sq[n + 1])
           ELSE Select(start, sq, D, n)
<1>1. PICK f : Steps(f, start, sq, D, n) /\ Select(start, sq, D, n) = f[n]
  BY SelectIs
<1>2. PICK g : Steps(g, start, sq, D, n + 1) /\ Select(start, sq, D, n + 1) = g[n + 1]
  BY SelectIs
<1>3. f[n] = g[n]
  BY <1>1, <1>2, StepsAgree
<1>4. n + 1 \in 1 .. n + 1 /\ (n + 1) - 1 = n /\ n + 1 \in Nat
  OBVIOUS
<1>5. g[n + 1] = IF n + 1 \in D THEN Append(g[(n + 1) - 1], sq[n + 1]) ELSE g[(n + 1) - 1]
  BY <1>2, <1>4, StepsAre
<1>6. QED BY <1>1, <1>2, <1>3, <1>4, <1>5

\* The same as two cases.
LEMMA SelectOneMore ==
  ASSUME NEW start, NEW sq, NEW D, NEW n \in Nat
  PROVE  \/ n + 1 \notin D /\ Select(start, sq, D, n + 1) = Select(start, sq, D, n)
         \/ /\ n + 1 \in D
            /\ Select(start, sq, D, n + 1) = Append(Select(start, sq, D, n), sq[n + 1])
<1>1. CASE n + 1 \in D
  BY <1>1, SelectNext, ZenonT(30)
<1>2. CASE n + 1 \notin D
  BY <1>2, SelectNext
<1>3. QED BY <1>1, <1>2

\* A prefix stays one when the longer sequence grows.
LEMMA AppendKeeps ==
  ASSUME NEW S, NEW u \in Seq(S), NEW v \in Seq(S), NEW e \in S,
         Len(u) <= Len(v), \A i \in 1 .. Len(u) : u[i] = v[i]
  PROVE  Len(u) <= Len(Append(v, e)) /\ \A i \in 1 .. Len(u) : u[i] = Append(v, e)[i]
<1>1. Len(u) \in Nat /\ Len(v) \in Nat /\ Len(Append(v, e)) = Len(v) + 1
  OBVIOUS
<1>2. \A i \in 1 .. Len(v) : Append(v, e)[i] = v[i]
  OBVIOUS
<1>3. QED BY <1>1, <1>2

\* Select is a sequence of the elements it takes.
LEMMA SelectType ==
  ASSUME NEW S, NEW start \in Seq(S), NEW sq, NEW D, NEW n \in Nat,
         \A i \in D \cap (1 .. n) : sq[i] \in S
  PROVE  Select(start, sq, D, n) \in Seq(S)
<1> DEFINE T == {m \in Nat : m <= n => Select(start, sq, D, m) \in Seq(S)}
<1>1. 0 \in T
  BY SelectNone
<1>2. ASSUME NEW m \in Nat, m \in T PROVE m + 1 \in T
  <2> SUFFICES ASSUME m + 1 <= n PROVE Select(start, sq, D, m + 1) \in Seq(S)
    OBVIOUS
  <2>1. Select(start, sq, D, m) \in Seq(S) /\ m + 1 \in 1 .. n
    BY <1>2
  <2>2. PICK u : u = Select(start, sq, D, m)
    OBVIOUS
  <2>3. \/ Select(start, sq, D, m + 1) = u
        \/ m + 1 \in D /\ Select(start, sq, D, m + 1) = Append(u, sq[m + 1])
    BY <2>2, SelectOneMore, Zenon
  <2>4. m + 1 \in D => sq[m + 1] \in S
    BY <2>1
  <2>5. QED BY <2>1, <2>2, <2>3, <2>4, SMTT(30)
<1>3. Nat \subseteq T
  <2> HIDE DEF T
  <2>1. QED BY <1>1, <1>2, Induction
<1>4. QED BY <1>3

\* Select looks at no position after the n-th.
LEMMA SelectSame ==
  ASSUME NEW start, NEW sq, NEW tq, NEW D, NEW E, NEW n \in Nat,
         \A i \in 1 .. n : sq[i] = tq[i] /\ (i \in D <=> i \in E)
  PROVE  Select(start, sq, D, n) = Select(start, tq, E, n)
<1> DEFINE T == {m \in Nat : m <= n => Select(start, sq, D, m) = Select(start, tq, E, m)}
<1>1. 0 \in T
  BY SelectNone
<1>2. ASSUME NEW m \in Nat, m \in T PROVE m + 1 \in T
  <2> SUFFICES ASSUME m + 1 <= n
               PROVE  Select(start, sq, D, m + 1) = Select(start, tq, E, m + 1)
    OBVIOUS
  <2>1. /\ Select(start, sq, D, m) = Select(start, tq, E, m)
        /\ sq[m + 1] = tq[m + 1] /\ (m + 1 \in D <=> m + 1 \in E)
    BY <1>2
  <2>2. Select(start, sq, D, m + 1) =
          IF m + 1 \in D THEN Append(Select(start, sq, D, m), sq[m + 1])
          ELSE Select(start, sq, D, m)
    BY SelectNext
  <2>3. Select(start, tq, E, m + 1) =
          IF m + 1 \in E THEN Append(Select(start, tq, E, m), tq[m + 1])
          ELSE Select(start, tq, E, m)
    BY SelectNext
  <2>4. QED BY <2>1, <2>2, <2>3
<1>3. Nat \subseteq T
  <2> HIDE DEF T
  <2>1. QED BY <1>1, <1>2, Induction
<1>4. QED BY <1>3

\* The relation "begins with", without SubSeq.
LEMMA PrefixMeans ==
  ASSUME NEW S, NEW s \in Seq(S), NEW t \in Seq(S)
  PROVE  IsPrefix(s, t) <=> Len(s) <= Len(t) /\ \A i \in 1 .. Len(s) : s[i] = t[i]
<1>1. CASE Len(s) <= Len(t)
  <2>1. SubSeq(s, 1, Len(s)) = s
    OBVIOUS
  <2>2. /\ SubSeq(t, 1, Len(s)) \in Seq(S) /\ Len(SubSeq(t, 1, Len(s))) = Len(s)
        /\ \A i \in 1 .. Len(s) : SubSeq(t, 1, Len(s))[i] = t[i]
    BY <1>1
  <2>3. s = SubSeq(t, 1, Len(s)) <=> \A i \in 1 .. Len(s) : s[i] = t[i]
    BY <2>2
  <2>4. QED BY <1>1, <2>1, <2>3 DEF IsPrefix
<1>2. CASE ~(Len(s) <= Len(t))
  BY <1>2 DEF IsPrefix
<1>3. QED BY <1>1, <1>2

\* What is selected by n records is a beginning of what is selected by more.
LEMMA SelectGrows ==
  ASSUME NEW S, NEW start \in Seq(S), NEW sq, NEW D, NEW n \in Nat, NEW m \in Nat, n <= m,
         \A i \in D \cap (1 .. m) : sq[i] \in S
  PROVE  IsPrefix(Select(start, sq, D, n), Select(start, sq, D, m))
<1> DEFINE V(k) == Select(start, sq, D, k)
           T == {k \in Nat : k \in n .. m =>
                   Len(V(n)) <= Len(V(k)) /\ \A i \in 1 .. Len(V(n)) : V(n)[i] = V(k)[i]}
<1>1. \A k \in 0 .. m : V(k) \in Seq(S)
  BY SelectType
<1>2. 0 \in T
  <2>1. 0 \in n .. m => n = 0
    OBVIOUS
  <2>2. Len(V(n)) \in Nat
    BY <1>1
  <2> HIDE DEF V
  <2>3. QED BY <2>1, <2>2
<1>3. ASSUME NEW k \in Nat, k \in T PROVE k + 1 \in T
  <2> SUFFICES ASSUME k + 1 \in n .. m
               PROVE  /\ Len(V(n)) <= Len(V(k + 1))
                      /\ \A i \in 1 .. Len(V(n)) : V(n)[i] = V(k + 1)[i]
    BY DEF T
  <2>1. CASE k + 1 = n
    <3>1. Len(V(n)) \in Nat
      BY <1>1
    <3> HIDE DEF V
    <3>2. QED BY <2>1, <3>1
  <2>2. CASE k + 1 # n
    <3>1. k \in n .. m
      BY <2>2
    <3>2. Len(V(n)) <= Len(V(k)) /\ \A i \in 1 .. Len(V(n)) : V(n)[i] = V(k)[i]
      BY <1>3, <3>1
    <3>3. V(k + 1) = V(k) \/ (k + 1 \in D /\ V(k + 1) = Append(V(k), sq[k + 1]))
      BY SelectOneMore, Zenon
    <3>4. V(k) \in Seq(S) /\ V(n) \in Seq(S) /\ (k + 1 \in D => sq[k + 1] \in S)
      BY <1>1, <3>1, SMTT(30)
    <3> HIDE DEF V
    <3>5. PICK u, v, w : u = V(n) /\ v = V(k) /\ w = V(k + 1)
      OBVIOUS
    <3>6. /\ u \in Seq(S) /\ v \in Seq(S) /\ Len(u) <= Len(v)
          /\ \A i \in 1 .. Len(u) : u[i] = v[i]
          /\ w = v \/ \E e \in S : w = Append(v, e)
      BY <3>2, <3>3, <3>4, <3>5
    <3>7. Len(u) <= Len(w) /\ \A i \in 1 .. Len(u) : u[i] = w[i]
      <4>1. CASE w = v
        BY <3>6, <4>1
      <4>2. ASSUME NEW e \in S, w = Append(v, e)
            PROVE  Len(u) <= Len(w) /\ \A i \in 1 .. Len(u) : u[i] = w[i]
        BY <3>6, <4>2, AppendKeeps
      <4>3. QED BY <3>6, <4>1, <4>2
    <3>8. QED BY <3>5, <3>7
  <2>3. QED BY <2>1, <2>2
<1>4. Nat \subseteq T
  <2> HIDE DEF T
  <2>1. QED BY <1>2, <1>3, Induction
<1>5. m \in T /\ n \in 0 .. m /\ m \in 0 .. m /\ m \in n .. m
  BY <1>4
<1>6. V(n) \in Seq(S) /\ V(m) \in Seq(S)
  BY <1>1, <1>5
<1>7. Len(V(n)) <= Len(V(m)) /\ \A i \in 1 .. Len(V(n)) : V(n)[i] = V(m)[i]
  BY <1>5 DEF T
<1> HIDE DEF V
<1>8. IsPrefix(V(n), V(m))
  BY <1>6, <1>7, PrefixMeans
<1>9. QED BY <1>8 DEF V

-----------------------------------------------------------------------------
(***************************************************************************)
(* Anchors, and what a shard is after some of a log's records.             *)
(***************************************************************************)
LEMMA AnchorBounds ==
  ASSUME NEW a \in Anchors
  PROVE  /\ FirstAnchor(a) \in Positions /\ LastAnchor(a) \in Positions
         /\ \A s \in Shards : FirstAnchor(a) <= a[s] /\ a[s] <= LastAnchor(a)
         /\ \E s \in Shards : FirstAnchor(a) = a[s]
<1> DEFINE S == {a[s] : s \in Shards}
<1>1. S \subseteq 0 .. MaxLog /\ S # {} /\ MaxLog \in Nat
  BY ReplicationAssumption DEF Anchors, Positions
<1> HIDE DEF S
<1>0. S \subseteq Nat
  BY <1>1
<1>2. Min(S) \in S /\ \A y \in S : Min(S) <= y
  <2>1. \E x \in S : \A y \in S : x <= y
    BY <1>0, <1>1, LeastNat
  <2>2. QED BY <2>1 DEF Min
<1>3. Max(S) \in S /\ \A y \in S : Max(S) >= y
  <2> DEFINE T == {n \in Nat : \A y \in S : y <= n}
  <2>1. MaxLog \in T
    BY <1>1
  <2>2. PICK x \in T : \A y \in T : x <= y
    BY <2>1, LeastNat
  <2>3. x \in S
    <3> SUFFICES ASSUME x \notin S PROVE FALSE
      OBVIOUS
    <3>1. \A y \in S : y <= x - 1 /\ y \in Nat
      BY <1>1
    <3>2. x - 1 \in Nat
      <4>1. PICK y \in S : y <= x - 1 /\ y \in Nat
        BY <1>1, <3>1
      <4>2. x \in Nat
        OBVIOUS
      <4>3. QED BY <4>1, <4>2
    <3>3. x - 1 \in T
      BY <3>1, <3>2
    <3>4. QED BY <2>2, <3>3
  <2>4. \A y \in S : x >= y
    BY <1>1
  <2>5. QED BY <2>3, <2>4 DEF Max
<1>4. QED
  <2>1. FirstAnchor(a) = Min(S) /\ LastAnchor(a) = Max(S)
    BY DEF FirstAnchor, LastAnchor, S
  <2>2. \A s \in Shards : a[s] \in S
    BY DEF S
  <2>3. \E s \in Shards : Min(S) = a[s]
    BY <1>2 DEF S
  <2>4. \A s \in Shards : Min(S) <= a[s] /\ a[s] <= Max(S)
    BY <1>1, <1>2, <1>3, <2>2
  <2>5. QED BY <1>1, <1>2, <1>3, <2>1, <2>3, <2>4 DEF Positions

\* No record applied leaves a shard empty.
LEMMA AfterNone ==
  ASSUME NEW lg, NEW s
  PROVE  After(lg, s, 0) = << >>
BY SelectNone DEF After

\* Logs that agree up to n give the same shard at n.
LEMMA AfterSame ==
  ASSUME NEW lg, NEW mg, NEW s, NEW n \in Nat, \A i \in 1 .. n : lg[i] = mg[i]
  PROVE  After(lg, s, n) = After(mg, s, n)
<1> DEFINE D == {i \in 1 .. n : lg[i].shard = s}
           E == {i \in 1 .. n : mg[i].shard = s}
<1>1. \A i \in 1 .. n : lg[i] = mg[i] /\ (i \in D <=> i \in E)
  OBVIOUS
<1> HIDE DEF D, E
<1>2. Select(<< >>, lg, D, n) = Select(<< >>, mg, E, n)
  BY <1>1, SelectSame
<1>3. QED BY <1>2 DEF After, D, E

\* The records a shard takes among the first m, when it stops after n of them.
LEMMA AfterWithin ==
  ASSUME NEW lg, NEW s, NEW n \in Nat, NEW m \in Nat, n <= m
  PROVE  After(lg, s, n) = Select(<< >>, lg, {i \in 1 .. m : lg[i].shard = s}, n)
<1> DEFINE D == {i \in 1 .. n : lg[i].shard = s}
           E == {i \in 1 .. m : lg[i].shard = s}
<1>1. \A i \in 1 .. n : lg[i] = lg[i] /\ (i \in D <=> i \in E)
  OBVIOUS
<1> HIDE DEF D, E
<1>2. Select(<< >>, lg, D, n) = Select(<< >>, lg, E, n)
  BY <1>1, SelectSame
<1>3. QED BY <1>2 DEF After, D, E

\* One more record of the log is one more step of replay.
LEMMA AfterNext ==
  ASSUME NEW lg, NEW s, NEW n \in Nat
  PROVE  After(lg, s, n + 1) =
           IF lg[n + 1].shard = s THEN Append(After(lg, s, n), lg[n + 1])
           ELSE After(lg, s, n)
<1> DEFINE E == {i \in 1 .. n + 1 : lg[i].shard = s}
<1>1. After(lg, s, n) = Select(<< >>, lg, E, n)
  BY AfterWithin
<1>2. n + 1 \in E <=> lg[n + 1].shard = s
  OBVIOUS
<1>3. After(lg, s, n + 1) = Select(<< >>, lg, E, n + 1)
  BY DEF After
<1> HIDE DEF E
<1>4. Select(<< >>, lg, E, n + 1) =
        IF n + 1 \in E THEN Append(Select(<< >>, lg, E, n), lg[n + 1])
        ELSE Select(<< >>, lg, E, n)
  BY SelectNext
<1>5. QED BY <1>1, <1>2, <1>3, <1>4

\* A shard is a sequence of records.
LEMMA AfterType ==
  ASSUME NEW S, NEW lg \in Seq(S), NEW s, NEW n \in Nat, n <= Len(lg)
  PROVE  After(lg, s, n) \in Seq(S)
<1> DEFINE D == {i \in 1 .. n : lg[i].shard = s}
<1>1. \A i \in D \cap (1 .. n) : lg[i] \in S
  OBVIOUS
<1>2. << >> \in Seq(S)
  OBVIOUS
<1> HIDE DEF D
<1>3. Select(<< >>, lg, D, n) \in Seq(S)
  BY <1>1, <1>2, SelectType
<1>4. QED BY <1>3 DEF After, D

\* Shards only grow: an earlier state is a prefix of a later one.
LEMMA AfterGrows ==
  ASSUME NEW S, NEW lg \in Seq(S), NEW s, NEW n \in Nat, NEW m \in Nat,
         n <= m, m <= Len(lg)
  PROVE  IsPrefix(After(lg, s, n), After(lg, s, m))
<1> DEFINE D == {i \in 1 .. m : lg[i].shard = s}
<1>1. \A i \in D \cap (1 .. m) : lg[i] \in S
  OBVIOUS
<1>2. << >> \in Seq(S)
  OBVIOUS
<1>3. After(lg, s, n) = Select(<< >>, lg, D, n) /\ After(lg, s, m) = Select(<< >>, lg, D, m)
  BY AfterWithin
<1> HIDE DEF D
<1>4. QED BY <1>1, <1>2, <1>3, SelectGrows

Stretch(sq, lg, b) == \A i \in 1 .. Len(sq) : sq[i] = lg[b + i]
TakenFrom(D, sq, s, b, a) ==
  \A i \in 1 .. Len(sq) : i \in D <=> sq[i].shard = s /\ b + i - 1 >= a

\* Recovery: a shard as it was at an anchor, and then the records of a stretch
\* of the log that are at the anchor or after it, in order.
LEMMA Replay ==
  ASSUME NEW S, NEW lg \in Seq(S), NEW sq \in Seq(S), NEW s, NEW D,
         NEW b \in Nat, NEW a \in Nat, b <= a, a <= b + Len(sq),
         Stretch(sq, lg, b), TakenFrom(D, sq, s, b, a)
  PROVE  Select(After(lg, s, a), sq, D, Len(sq)) = After(lg, s, b + Len(sq))
<1> DEFINE P(j) == Select(After(lg, s, a), sq, D, j)
                     = After(lg, s, IF b + j <= a THEN a ELSE b + j)
           T == {j \in Nat : j <= Len(sq) => P(j)}
<1>1. 0 \in T
  BY SelectNone
<1>2. ASSUME NEW j \in Nat, j \in T PROVE j + 1 \in T
  <2> SUFFICES ASSUME j + 1 <= Len(sq) PROVE P(j + 1)
    OBVIOUS
  <2>1. j + 1 \in 1 .. Len(sq) /\ P(j)
    BY <1>2
  <2>2. /\ sq[j + 1] = lg[b + (j + 1)]
        /\ j + 1 \in D <=> sq[j + 1].shard = s /\ b + (j + 1) - 1 >= a
    BY <2>1 DEF Stretch, TakenFrom
  <2>3. Select(After(lg, s, a), sq, D, j + 1) =
          IF j + 1 \in D THEN Append(Select(After(lg, s, a), sq, D, j), sq[j + 1])
          ELSE Select(After(lg, s, a), sq, D, j)
    BY SelectNext
  <2>4. CASE b + j < a
    <3>1. j + 1 \notin D /\ b + j <= a /\ b + (j + 1) <= a
      BY <2>2, <2>4
    <3>2. QED BY <2>1, <2>3, <3>1
  <2>5. CASE ~(b + j < a)
    <3>1. b + (j + 1) = (b + j) + 1 /\ b + j \in Nat /\ ~(b + (j + 1) <= a)
      BY <2>5
    <3>2. j + 1 \in D <=> lg[(b + j) + 1].shard = s
      BY <2>2, <2>5, <3>1
    <3>3. Select(After(lg, s, a), sq, D, j) = After(lg, s, b + j)
      <4>1. b + j <= a => b + j = a
        BY <2>5
      <4>2. QED BY <2>1, <4>1
    <3>4. After(lg, s, (b + j) + 1) =
            IF lg[(b + j) + 1].shard = s THEN Append(After(lg, s, b + j), lg[(b + j) + 1])
            ELSE After(lg, s, b + j)
      BY <3>1, AfterNext
    <3>5. QED BY <2>2, <2>3, <3>1, <3>2, <3>3, <3>4
  <2>6. QED BY <2>4, <2>5
<1>3. Nat \subseteq T
  <2> HIDE DEF T
  <2>1. QED BY <1>1, <1>2, Induction
<1>4. P(Len(sq))
  BY <1>3
<1>5. b + Len(sq) <= a => b + Len(sq) = a
  OBVIOUS
<1>6. QED BY <1>4, <1>5

-----------------------------------------------------------------------------
(***************************************************************************)
(* Types, histories and phases.                                            *)
(***************************************************************************)
LEMMA Longer ==
  ASSUME NEW S, NEW t \in Seq(S), NEW e \in S
  PROVE  /\ Append(t, e) \in Seq(S) /\ Len(Append(t, e)) = Len(t) + 1
         /\ \A i \in 1 .. Len(t) : Append(t, e)[i] = t[i]
         /\ Append(t, e)[Len(t) + 1] = e
OBVIOUS

\* What PSYNC offers, of whichever history.
LEMMA OfferIs ==
  /\ replID # NoId => Offered.id = replID /\ Offered.at = offset
  /\ replID = NoId /\ leaderID # NoId => Offered.id = leaderID /\ Offered.at = LogEnd
  /\ replID = NoId /\ leaderID = NoId => Offered.id = NoId /\ Offered.at = 0
BY DEF Offered

\* The replica and its leader share a history when the id it would quote is
\* the one running.
LEMMA KnownIs ==
  ASSUME TypeOK
  PROVE  Known <=> replID = runid \/ (replID = NoId /\ leaderID = runid)
<1>1. replID \in Nat \cup {NoId} /\ leaderID \in Nat \cup {NoId} /\ runid \in Nat /\ NoId \notin Nat
  BY ReplicationAssumption DEF TypeOK
<1>2. CASE replID # NoId
  BY <1>2, OfferIs DEF Known
<1>3. CASE replID = NoId /\ leaderID # NoId
  BY <1>1, <1>3, OfferIs DEF Known
<1>4. CASE replID = NoId /\ leaderID = NoId
  BY <1>1, <1>4, OfferIs DEF Known
<1>5. QED BY <1>2, <1>3, <1>4

\* Where the replica's log ends.
LEMMA EndIs ==
  ASSUME TypeOK
  PROVE  LogEnd \in Nat /\ Len(rlog) \in Nat /\ rbase \in Nat /\ LogEnd = rbase + Len(rlog)
BY ReplicationAssumption DEF TypeOK, LogEnd, Positions

\* A snapshot's contents are shards.
LEMMA ContentsType ==
  ASSUME TypeOK, NEW a \in Anchors, \A s \in Shards : a[s] <= Len(log)
  PROVE  Contents(a) \in [Shards -> Seq(Records)]
<1>1. \A s \in Shards : a[s] \in Nat
  BY ReplicationAssumption DEF Anchors, Positions
<1>2. log \in Seq(Records)
  BY DEF TypeOK
<1>3. \A s \in Shards : After(log, s, a[s]) \in Seq(Records)
  BY <1>1, <1>2, AfterType
<1>4. QED BY <1>3 DEF Contents

\* What a restart rebuilds is a shard.
LEMMA RestoredType ==
  ASSUME TypeOK, NEW s \in Shards
  PROVE  Restored(s) \in Seq(Records)
<1> DEFINE flt == IF rsnap = None THEN None ELSE rsnap.anchors
           D == {i \in 1 .. Len(rlog) : rlog[i].shard = s /\ Wanted(flt, rbase + i - 1, s)}
           start == IF rsnap = None THEN << >> ELSE rsnap.shards[s]
<1>1. start \in Seq(Records)
  BY DEF TypeOK, Snapshots
<1>2. rlog \in Seq(Records) /\ Len(rlog) \in Nat
  BY DEF TypeOK
<1>3. \A i \in D \cap (1 .. Len(rlog)) : rlog[i] \in Records
  BY <1>2
<1>4. Restored(s) = Select(start, rlog, D, Len(rlog))
  BY DEF Restored
<1> HIDE DEF start, D
<1>5. QED BY <1>1, <1>2, <1>3, <1>4, SelectType

\* So is the empty keyspace.
LEMMA EmptyType == Empty \in [Shards -> Seq(Records)]
BY DEF Empty

\* The initial state has the types.
LEMMA TypeStart == Init => TypeOK /\ EndInv
<1> SUFFICES ASSUME Init PROVE TypeOK /\ EndInv
  OBVIOUS
<1>1. MaxLog \in Nat /\ MaxEvents \in Nat /\ << >> \in Seq(Records) /\ Len(<< >>) = 0
  BY ReplicationAssumption
<1>2. TypeOK
  <2>1. /\ log \in Seq(Records) /\ Len(log) <= MaxLog /\ oldest \in 0 .. Len(log)
        /\ rbase \in Positions /\ rlog \in Seq(Records)
        /\ runid \in Nat /\ offset \in Nat /\ ack \in Nat /\ events \in 0 .. MaxEvents
    BY <1>1 DEF Init, Positions
  <2>2. ks \in [Shards -> Seq(Records)]
    BY EmptyType DEF Init
  <2>3. /\ snap \in Anchors \cup {None} /\ incoming \in Anchors \cup {None}
        /\ filter \in Anchors \cup {None} /\ rsnap \in Snapshots \cup {None}
        /\ replID \in Nat \cup {NoId} /\ leaderID \in Nat \cup {NoId}
    BY DEF Init
  <2>4. phase = "down" /\ conn \in BOOLEAN /\ own \in BOOLEAN
    BY Zenon DEF Init
  <2>5. rfile = "whole" /\ rfailed \in BOOLEAN
    BY Zenon DEF Init
  <2>6. QED BY <2>1, <2>2, <2>3, <2>4, <2>5 DEF TypeOK
<1>3. QED BY <1>1, <1>2 DEF Init, EndInv, LogEnd

\* The history of a body, and of a stream, that is still coming in.
LEMMA Connected ==
  ASSUME TypeOK, PhaseInv, conn
  PROVE  /\ Known /\ (Receiving => replID = runid)
         /\ phase = "stream" /\ ~rfailed => Kept
<1>1. Known /\ (Receiving => replID # NoId)
  BY DEF PhaseInv
<1>2. Receiving => replID = runid
  BY <1>1, KnownIs
<1>3. QED BY <1>1, <1>2 DEF Kept

\* What a restarted leader has left covers its snapshot.
LEMMA RestartLength ==
  ASSUME TypeOK, LeaderInv, LeaderRestart
  PROVE  \E n \in 0 .. Len(log) : log' = SubSeq(log, 1, n) /\ oldest <= n
<1>1. PICK n \in (IF snap = None THEN oldest ELSE LastAnchor(snap)) .. Len(log) :
        log' = SubSeq(log, 1, n)
  BY DEF LeaderRestart
<1>2. oldest \in Nat /\ Len(log) \in Nat
  BY DEF TypeOK
<1>3. CASE snap = None
  BY <1>1, <1>2, <1>3
<1>4. CASE snap # None
  <2>1. snap \in Anchors
    BY <1>4 DEF TypeOK
  <2>2. PICK s \in Shards : TRUE
    BY ReplicationAssumption
  <2>3. /\ snap[s] \in Nat /\ LastAnchor(snap) \in Nat
        /\ oldest <= snap[s] /\ snap[s] <= LastAnchor(snap)
    BY <1>4, <2>1, AnchorBounds, ReplicationAssumption DEF LeaderInv, Anchors, Positions
  <2>4. n \in LastAnchor(snap) .. Len(log)
    BY <1>1, <1>4
  <2>5. n \in 0 .. Len(log) /\ oldest <= n
    BY <1>2, <2>3, <2>4
  <2>6. QED BY <1>1, <2>5
<1>5. QED BY <1>3, <1>4

\* The steps of Log.Reset, and what they leave alone.
Resets == UnlinkSegment \/ UnlinkLast \/ CreateSegment \/ WriteHeader

LEMMA ResetIs ==
  ASSUME Resets
  PROVE  /\ UNCHANGED <<log, oldest, snap, runid, ks, replID, offset, filter, rfailed, conn>>
         /\ UNCHANGED <<incoming, rsnap, leaderID, own, ack, events>>
         /\ \/ phase = "loaded" /\ phase' \in {"loaded", "reset"}
            \/ phase = "wiping" /\ phase' \in {"wiping", "wiped"}
<1> USE DEF leader, memory, Resetting
<1>1. CASE UnlinkSegment
  BY <1>1 DEF UnlinkSegment
<1>2. CASE UnlinkLast
  BY <1>2 DEF UnlinkLast
<1>3. CASE CreateSegment
  BY <1>3 DEF CreateSegment
<1>4. CASE WriteHeader
  BY <1>4 DEF WriteHeader
<1>5. QED BY <1>1, <1>2, <1>3, <1>4 DEF Resets

\* What they do to the log: its oldest records go, then all of it; the header
\* then says where the new one begins.
LEMMA ResetLog ==
  ASSUME TypeOK, FileInv, Resets
  PROVE  \/ /\ phase' = phase /\ rfile' = "cut" /\ LogEnd' = LogEnd
            /\ \E n \in 1 .. Len(rlog) :
                 rbase' = rbase + n /\ rlog' = SubSeq(rlog, n + 1, Len(rlog))
         \/ phase' = phase /\ rfile' \in {"none", "headless"} /\ rbase' = 0 /\ rlog' = << >>
         \/ phase' = "reset" /\ rfile' = "whole" /\ rbase' = FirstAnchor(incoming) /\ rlog' = << >>
         \/ phase' = "wiped" /\ rfile' = "whole" /\ rbase' = 0 /\ rlog' = << >>
<1>0. Len(rlog) \in Nat /\ rbase \in Nat /\ rlog \in Seq(Records)
  BY EndIs DEF TypeOK
<1>1. CASE UnlinkSegment
  <2>1. PICK n \in 1 .. Len(rlog) :
          rbase' = rbase + n /\ rlog' = SubSeq(rlog, n + 1, Len(rlog))
    BY <1>1 DEF UnlinkSegment
  <2>2. Len(rlog') = Len(rlog) - n /\ n \in Nat /\ rbase' = rbase + n
    BY <1>0, <2>1
  <2>3. LogEnd' = LogEnd
    BY <1>0, <2>2 DEF LogEnd
  <2>4. QED BY <1>1, <2>1, <2>3 DEF UnlinkSegment
<1>2. CASE UnlinkLast
  BY <1>2 DEF UnlinkLast
<1>3. CASE CreateSegment
  BY <1>3 DEF CreateSegment, FileInv
<1>4. CASE WriteHeader
  BY <1>4 DEF WriteHeader, FileInv
<1>5. QED BY <1>1, <1>2, <1>3, <1>4 DEF Resets

\* Every step keeps the types and the bounds of the replica's log.
LEMMA TypeStep ==
  ASSUME TypeOK, EndInv, PhaseInv, LeaderInv, LogInv, BodyInv, FileInv, Next
  PROVE  TypeOK' /\ EndInv'
<1> USE DEF leader, memory, files
<1>0. /\ MaxLog \in Nat /\ MaxEvents \in Nat /\ << >> \in Seq(Records) /\ Len(<< >>) = 0
      /\ log \in Seq(Records) /\ Len(log) \in Nat /\ Len(log) <= MaxLog
      /\ rlog \in Seq(Records) /\ Len(rlog) \in Nat /\ rbase \in Nat /\ rbase + Len(rlog) <= MaxLog
      /\ offset \in Nat /\ offset <= MaxLog
  BY ReplicationAssumption DEF TypeOK, EndInv, LogEnd, Positions
<1>1. Event => events' \in 0 .. MaxEvents
  BY <1>0 DEF Event, TypeOK
<1>2. CASE LeaderWrite
  <2>1. PICK s \in Shards : log' = Append(log, [shard |-> s, pos |-> Len(log), run |-> runid])
    BY <1>2 DEF LeaderWrite
  <2>2. [shard |-> s, pos |-> Len(log), run |-> runid] \in Records
    BY <1>0 DEF Records, TypeOK
  <2>3. log' \in Seq(Records) /\ Len(log') = Len(log) + 1
    BY <1>0, <2>1, <2>2, Longer
  <2>4. QED BY <1>0, <1>2, <2>3 DEF LeaderWrite, TypeOK, EndInv, LogEnd
<1>3. CASE LeaderSnapshot
  <2>1. PICK a \in Anchors :
          /\ \A s \in Shards : a[s] \in (IF snap = None THEN 0 ELSE LastAnchor(snap)) .. Len(log)
          /\ snap' = a /\ oldest' \in {oldest, FirstAnchor(a)}
    BY <1>3 DEF LeaderSnapshot
  <2>2. FirstAnchor(a) \in 0 .. Len(log)
    <3>1. PICK s \in Shards : FirstAnchor(a) = a[s]
      BY AnchorBounds
    <3>2. FirstAnchor(a) \in Nat /\ a[s] <= Len(log)
      BY <2>1, AnchorBounds, <1>0 DEF Positions
    <3>3. QED BY <1>0, <3>1, <3>2
  <2>3. oldest' \in 0 .. Len(log)
    BY <2>1, <2>2 DEF TypeOK
  <2>4. QED BY <1>0, <1>1, <1>3, <2>1, <2>3 DEF LeaderSnapshot, TypeOK, EndInv, LogEnd
<1>4. CASE LeaderRestart
  <2>1. PICK n \in 0 .. Len(log) : log' = SubSeq(log, 1, n) /\ oldest <= n
    BY <1>4, RestartLength
  <2>2. n \in 0 .. Len(log) /\ oldest <= n
    BY <2>1
  <2>3. log' \in Seq(Records) /\ Len(log') = n
    BY <1>0, <2>1, <2>2
  <2>4. oldest' \in 0 .. Len(log') /\ Len(log') <= MaxLog
    BY <1>0, <1>4, <2>2, <2>3 DEF LeaderRestart, TypeOK
  <2>5. runid' \in Nat /\ ack' \in Nat
    BY <1>4 DEF LeaderRestart, TypeOK
  <2>6. conn' \in BOOLEAN
    BY <1>4, Zenon DEF LeaderRestart
  <2>7. QED BY <1>0, <1>1, <1>4, <2>3, <2>4, <2>5, <2>6 DEF LeaderRestart, TypeOK, EndInv, LogEnd
<1>5. CASE Continue
  <2>1. Offered.at \in Nat /\ Offered.at <= MaxLog
    BY <1>0, OfferIs DEF LogEnd
  <2>2. QED BY <1>0, <1>5, <2>1 DEF Continue, TypeOK, EndInv, LogEnd
<1>6. CASE FullResync
  <2>1. [s \in Shards |-> Len(log)] \in Anchors
    BY <1>0 DEF Anchors, Positions
  <2>2. snap' \in Anchors
    BY <1>6, <2>1 DEF FullResync, TypeOK
  <2>3. QED BY <1>0, <1>6, <2>2 DEF FullResync, TypeOK, EndInv, LogEnd
<1>7. CASE LoadBody
  <2>1. conn /\ Receiving
    BY <1>7 DEF LoadBody, Receiving
  <2>2. incoming \in Anchors /\ \A s \in Shards : incoming[s] <= Len(log)
    BY <2>1, Connected DEF BodyInv, PhaseInv, TypeOK
  <2>3. ks' \in [Shards -> Seq(Records)]
    BY <1>7, <2>2, ContentsType DEF LoadBody
  <2>4. QED BY <1>0, <1>7, <2>3 DEF LoadBody, TypeOK, EndInv, LogEnd
<1>8. CASE Resets
  <2>1. phase = "loaded" => FirstAnchor(incoming) \in Positions
    BY AnchorBounds DEF PhaseInv, Receiving, TypeOK
  <2>2. phase' \in {"loaded", "reset", "wiping", "wiped"}
    BY <1>8, ResetIs
  <2>3. rbase' \in Positions /\ rlog' \in Seq(Records) /\ rbase' + Len(rlog') <= MaxLog
        /\ rfile' \in {"whole", "cut", "none", "headless"}
    <3>1. CASE rlog' = << >> /\ rbase' = 0 /\ rfile' \in {"none", "headless", "whole"}
      BY <1>0, <3>1 DEF Positions
    <3>2. CASE /\ phase' = "reset" /\ rfile' = "whole"
               /\ rbase' = FirstAnchor(incoming) /\ rlog' = << >>
      <4>1. phase = "loaded"
        BY <1>8, <3>2, ResetIs
      <4>2. QED BY <1>0, <2>1, <3>2, <4>1 DEF Positions
    <3>3. CASE /\ rfile' = "cut" /\ \E n \in 1 .. Len(rlog) :
                 rbase' = rbase + n /\ rlog' = SubSeq(rlog, n + 1, Len(rlog))
      <4>1. PICK n \in 1 .. Len(rlog) :
              rbase' = rbase + n /\ rlog' = SubSeq(rlog, n + 1, Len(rlog))
        BY <3>3
      <4>2. /\ rlog' \in Seq(Records) /\ Len(rlog') = Len(rlog) - n
            /\ n \in 1 .. Len(rlog) /\ rbase' = rbase + n
        BY <1>0, <4>1
      <4>3. rbase' \in Positions /\ rbase' + Len(rlog') <= MaxLog
        BY <1>0, <4>2 DEF Positions
      <4>4. QED BY <3>3, <4>2, <4>3
    <3>4. QED BY <1>8, <3>1, <3>2, <3>3, ResetLog
  <2>4. QED BY <1>0, <1>8, <2>2, <2>3, ResetIs DEF TypeOK, EndInv, LogEnd
<1>9. CASE RenameSnapshot
  <2>1. incoming \in Anchors /\ ks \in [Shards -> Seq(Records)]
    BY <1>9 DEF RenameSnapshot, PhaseInv, Receiving, TypeOK
  <2>2. rsnap' \in Snapshots
    BY <1>9, <2>1 DEF RenameSnapshot, Snapshots
  <2>3. QED BY <1>0, <1>9, <2>2 DEF RenameSnapshot, TypeOK, EndInv, LogEnd
<1>10. CASE StartStream
  <2>1. FirstAnchor(incoming) \in Positions
    BY <1>10, AnchorBounds DEF StartStream, PhaseInv, Receiving, TypeOK
  <2>2. own' \in BOOLEAN /\ filter' \in Anchors \cup {None} /\ leaderID' \in Nat \cup {NoId}
    BY <1>10 DEF StartStream, TypeOK
  <2>3. offset' \in Nat /\ offset' <= MaxLog /\ incoming' = None /\ phase' = "stream"
    BY <1>0, <1>10, <2>1 DEF StartStream, Positions
  <2>4. QED BY <1>0, <1>10, <2>2, <2>3 DEF StartStream, TypeOK, EndInv, LogEnd
<1>11. CASE ApplyStreamed
  <2>1. conn /\ phase = "stream" /\ offset + 1 \in 1 .. Len(log) /\ LogEnd = offset
    BY <1>0, <1>11, Connected DEF ApplyStreamed, LogInv, TypeOK
  <2>2. PICK r \in Records : r = log[offset + 1]
    BY <1>0, <2>1
  <2>3. rlog' = Append(rlog, r)
    BY <1>11, <2>2 DEF ApplyStreamed
  <2>4. rlog' \in Seq(Records) /\ Len(rlog') = Len(rlog) + 1
    BY <1>0, <2>3, Longer
  <2>5. ks' \in [Shards -> Seq(Records)]
    <3>1. r.shard \in Shards
      BY DEF Records
    <3>2. Append(ks[r.shard], r) \in Seq(Records)
      BY <3>1, Longer DEF TypeOK
    <3>3. ks' = ks \/ ks' = [ks EXCEPT ![r.shard] = Append(@, r)]
      BY <1>11, <2>2 DEF ApplyStreamed
    <3>4. QED BY <3>2, <3>3 DEF TypeOK
  <2>6. rbase + Len(rlog') <= MaxLog /\ offset' <= MaxLog /\ offset' \in Nat
    BY <1>0, <1>11, <2>1, <2>4 DEF ApplyStreamed, LogEnd
  <2>7. QED BY <1>0, <1>11, <2>4, <2>5, <2>6 DEF ApplyStreamed, TypeOK, EndInv, LogEnd
<1>12. CASE Ack
  BY <1>0, <1>12 DEF Ack, TypeOK, EndInv, LogEnd
<1>13. CASE LinkLost
  BY <1>0, <1>13 DEF LinkLost, TypeOK, EndInv, LogEnd
<1>14. CASE Restore
  <2>1. [s \in Shards |-> Restored(s)] \in [Shards -> Seq(Records)]
    BY RestoredType
  <2>2. ks' \in [Shards -> Seq(Records)]
    BY <1>14, <2>1 DEF Restore, TypeOK
  <2>3. rfile' \in {"whole", "cut", "none", "headless"}
    BY <1>14 DEF Restore, TypeOK
  <2>4. phase' \in {"refused", "wiping", "down"}
    BY <1>14 DEF Restore
  <2>5. QED BY <1>0, <1>14, <2>2, <2>3, <2>4 DEF Restore, TypeOK, EndInv, LogEnd
<1>15. CASE Drop
  <2>1. /\ UNCHANGED <<log, oldest, snap, runid, ks, replID, offset, filter, rfailed>>
        /\ UNCHANGED <<phase, incoming, rsnap, rbase, rlog, rfile, leaderID, own, ack>>
        /\ conn' \in BOOLEAN /\ events' \in 0 .. MaxEvents
    BY <1>1, <1>15, Zenon DEF Drop
  <2>2. QED BY <1>0, <2>1 DEF TypeOK, EndInv, LogEnd
<1>16. CASE OwnSnapshot
  <2>1. LogEnd \in Positions
    BY <1>0 DEF LogEnd, Positions
  <2>2. rsnap' \in Snapshots
    BY <1>16, <2>1 DEF OwnSnapshot, Snapshots, Anchors, TypeOK
  <2>3. \/ rbase' = LogEnd /\ rlog' = << >>
        \/ rbase' = rbase /\ rlog' = rlog
    BY <1>16 DEF OwnSnapshot
  <2>4. rbase' \in Positions /\ rlog' \in Seq(Records) /\ rbase' + Len(rlog') <= MaxLog
    <3>1. rbase \in Positions /\ LogEnd \in Nat /\ LogEnd <= MaxLog
      BY <1>0, <2>1 DEF TypeOK, LogEnd
    <3>2. CASE rbase' = LogEnd /\ rlog' = << >>
      BY <1>0, <2>1, <3>1, <3>2
    <3>3. CASE rbase' = rbase /\ rlog' = rlog
      BY <1>0, <3>1, <3>3
    <3>4. QED BY <2>3, <3>2, <3>3
  <2>5. QED BY <1>0, <1>1, <1>16, <2>2, <2>4 DEF OwnSnapshot, TypeOK, EndInv, LogEnd
<1>17. CASE Crash
  <2>1. PICK n \in 0 .. Len(rlog) : rlog' = SubSeq(rlog, 1, n)
    BY <1>17 DEF Crash
  <2>2. rlog' \in Seq(Records) /\ Len(rlog') = n
    BY <1>0, <2>1
  <2>3. rbase + Len(rlog') <= MaxLog
    BY <1>0, <2>2
  <2>4. /\ ks' \in [Shards -> Seq(Records)] /\ conn' \in BOOLEAN
        /\ replID' = NoId /\ filter' = None /\ incoming' = None /\ phase' = "crashed"
        /\ rfailed' \in BOOLEAN
    BY <1>17, EmptyType DEF Crash
  <2>5. offset' = 0 /\ ack' = 0 /\ events' \in 0 .. MaxEvents
    BY <1>1, <1>17 DEF Crash
  <2>6. QED BY <1>0, <1>17, <2>2, <2>3, <2>4, <2>5 DEF Crash, TypeOK, EndInv, LogEnd
<1>18. CASE Promote
  <2>1. conn' \in BOOLEAN /\ replID' = NoId /\ filter' = None /\ phase' = "leader"
    BY <1>18 DEF Promote
  <2>2. offset' = 0 /\ ack' = 0 /\ events' \in 0 .. MaxEvents
    BY <1>1, <1>18 DEF Promote
  <2>3. QED BY <1>0, <1>18, <2>1, <2>2 DEF Promote, TypeOK, EndInv, LogEnd
<1>19. CASE OwnWrite
  <2>1. PICK s \in Shards :
          /\ ks' = [ks EXCEPT ![s] = Append(@, [shard |-> s, pos |-> LogEnd, run |-> 0])]
          /\ rlog' = Append(rlog, [shard |-> s, pos |-> LogEnd, run |-> 0])
    BY <1>19 DEF OwnWrite
  <2>2. [shard |-> s, pos |-> LogEnd, run |-> 0] \in Records
    BY <1>0 DEF Records, LogEnd
  <2>3. rlog' \in Seq(Records) /\ Len(rlog') = Len(rlog) + 1
    BY <1>0, <2>1, <2>2, Longer
  <2>4. ks' \in [Shards -> Seq(Records)]
    <3>1. Append(ks[s], [shard |-> s, pos |-> LogEnd, run |-> 0]) \in Seq(Records)
      BY <2>2, Longer DEF TypeOK
    <3>2. QED BY <2>1, <3>1 DEF TypeOK
  <2>5. rbase + Len(rlog') <= MaxLog
    BY <1>0, <1>19, <2>3 DEF OwnWrite, LogEnd
  <2>6. QED BY <1>0, <1>19, <2>3, <2>4, <2>5 DEF OwnWrite, TypeOK, EndInv, LogEnd
<1>20. CASE Follow
  BY <1>0, <1>1, <1>20 DEF Follow, TypeOK, EndInv, LogEnd
<1>21. CASE ApplyFails
  <2>1. /\ conn /\ phase = "stream" /\ offset \in Nat /\ offset + 1 \in 1 .. Len(log)
        /\ ~rfailed => LogEnd = offset
    BY <1>0, <1>21, Connected DEF ApplyFails, LogInv, TypeOK
  <2>2. PICK r \in Records : r = log[offset + 1]
    BY <1>0, <2>1
  <2>3. rlog' \in Seq(Records) /\ rbase + Len(rlog') <= MaxLog
    <3>1. rlog' = rlog \/ (~rfailed /\ rlog' = Append(rlog, r))
      BY <1>21, <2>2 DEF ApplyFails
    <3>2. Append(rlog, r) \in Seq(Records) /\ Len(Append(rlog, r)) = Len(rlog) + 1
      BY <1>0, Longer
    <3>3. QED BY <1>0, <2>1, <3>1, <3>2 DEF LogEnd
  <2>4. ks' \in [Shards -> Seq(Records)]
    <3>1. r.shard \in Shards
      BY DEF Records
    <3>2. Append(ks[r.shard], r) \in Seq(Records)
      BY <3>1, Longer DEF TypeOK
    <3>3. ks' = ks \/ ks' = [ks EXCEPT ![r.shard] = Append(@, r)]
      BY <1>21, <2>2 DEF ApplyFails
    <3>4. QED BY <3>2, <3>3 DEF TypeOK
  <2>5. rfailed' \in BOOLEAN /\ conn' \in BOOLEAN
    BY <1>21, Zenon DEF ApplyFails
  <2>6. QED BY <1>0, <1>1, <1>21, <2>3, <2>4, <2>5 DEF ApplyFails, TypeOK, EndInv, LogEnd
<1>22. CASE SwitchFails
  <2>1. rfailed' \in BOOLEAN /\ conn' \in BOOLEAN
    BY <1>22, Zenon DEF SwitchFails, TypeOK
  <2>2. ack' = 0 /\ filter' = None /\ incoming' = None /\ phase' = "down"
    BY <1>22 DEF SwitchFails
  <2>3. QED BY <1>0, <1>1, <1>22, <2>1, <2>2 DEF SwitchFails, TypeOK, EndInv, LogEnd
<1>23. CASE ForgetLeader
  BY <1>0, <1>23 DEF ForgetLeader, TypeOK, EndInv, LogEnd
<1>24. QED
  BY <1>2, <1>3, <1>4, <1>5, <1>6, <1>7, <1>8, <1>9, <1>10, <1>11, <1>12, <1>13, <1>14,
     <1>15, <1>16, <1>17, <1>18, <1>19, <1>20, <1>21, <1>22, <1>23 DEF Next, Session, Resets

-----------------------------------------------------------------------------
\* KnownIs of the next state.
LEMMA KnownNext ==
  ASSUME TypeOK'
  PROVE  Known' <=> replID' = runid' \/ (replID' = NoId /\ leaderID' = runid')
<1>1. replID' \in Nat \cup {NoId} /\ leaderID' \in Nat \cup {NoId} /\ runid' \in Nat /\ NoId \notin Nat
  BY ReplicationAssumption DEF TypeOK
<1>2. CASE replID' # NoId
  BY <1>2 DEF Known, Offered
<1>3. CASE replID' = NoId /\ leaderID' # NoId
  BY <1>1, <1>3 DEF Known, Offered
<1>4. CASE replID' = NoId /\ leaderID' = NoId
  BY <1>1, <1>4 DEF Known, Offered
<1>5. QED BY <1>2, <1>3, <1>4

\* Every step keeps the ids in order: a new process has a newer one.
LEMMA IdStep ==
  ASSUME TypeOK, IdInv, PhaseInv, Next
  PROVE  IdInv'
<1> USE DEF leader, memory, files
<1>0. /\ replID \in Nat \cup {NoId} /\ leaderID \in Nat \cup {NoId} /\ runid \in Nat /\ NoId \notin Nat
  BY ReplicationAssumption DEF TypeOK
<1>1. CASE LeaderRestart
  BY <1>0, <1>1 DEF LeaderRestart, IdInv
<1>2. CASE FullResync
  BY <1>0, <1>2 DEF FullResync, IdInv
<1>3. CASE StartStream
  BY <1>0, <1>3 DEF StartStream, IdInv, PhaseInv, Receiving
<1>4. CASE Crash \/ Promote
  BY <1>0, <1>4 DEF Crash, Promote, IdInv
<1>5. CASE ForgetLeader
  BY <1>0, <1>5 DEF ForgetLeader, IdInv
<1>6. CASE UNCHANGED <<replID, leaderID, runid>>
  BY <1>6 DEF IdInv
<1>7. CASE Resets
  BY <1>6, <1>7, ResetIs
<1>8. QED
  BY <1>1, <1>2, <1>3, <1>4, <1>5, <1>6, <1>7 DEF Next, Session, Resets, LeaderWrite,
     LeaderSnapshot, Continue, LoadBody, RenameSnapshot, ApplyStreamed, Ack, LinkLost, Restore,
     Drop, ApplyFails, SwitchFails, OwnSnapshot, OwnWrite, Follow

\* None of the hard cases: what a step of the replica may then not be.
LEMMA Spared ==
  ASSUME Hard = {}
  PROVE  /\ Drop => /\ phase = "body" => Faithful
                    /\ ~InWindow /\ ~ComingWindow
         /\ OwnSnapshot => ~InWindow /\ ~rfailed
         /\ SwitchFails => phase = "loaded" /\ rfailed'
         /\ Crash => /\ phase # "reset" /\ rfile \notin {"cut", "headless"}
                     /\ own => leaderID # runid
         /\ Promote => ~InWindow
         /\ Follow => (own => leaderID # runid)
<1>1. \A c : c \notin Hard
  OBVIOUS
<1>2. QED BY <1>1, Zenon DEF Drop, OwnSnapshot, SwitchFails, Crash, Promote, Follow

\* Every step keeps what the session's phase says.
LEMMA PhaseStep ==
  ASSUME TypeOK, TypeOK', IdInv, PhaseInv, FileInv, StartInv, Next, Hard = {}
  PROVE  PhaseInv'
<1> USE DEF leader, memory, files, Receiving
<1>0. /\ replID \in Nat \cup {NoId} /\ leaderID \in Nat \cup {NoId} /\ runid \in Nat /\ NoId \notin Nat
  BY ReplicationAssumption DEF TypeOK
<1>1. CASE UNCHANGED <<runid, replID, leaderID, phase, conn, filter, own, incoming>>
  BY <1>1, KnownIs, KnownNext DEF PhaseInv
<1>2. CASE LeaderRestart
  <2>1. leaderID # runid'
    BY <1>0, <1>2 DEF LeaderRestart, IdInv
  <2>2. QED BY <1>2, <2>1 DEF LeaderRestart, PhaseInv
<1>3. CASE Continue
  <2>1. Offered.id = runid
    BY <1>3 DEF Continue, Resumable
  <2>2. Known'
    BY <1>3, <2>1, KnownIs, KnownNext DEF Continue, Known
  <2>3. QED BY <1>3, <2>2 DEF Continue, PhaseInv
<1>4. CASE FullResync
  <2>1. Known' /\ replID' = runid
    BY <1>4, KnownNext DEF FullResync
  <2>2. incoming' # None
    <3>1. [s \in Shards |-> Len(log)] \in Anchors
      BY DEF Anchors, Positions, TypeOK
    <3>2. snap' # None
      BY <1>4, <3>1, ReplicationAssumption DEF FullResync
    <3>3. QED BY <1>4, <3>2 DEF FullResync
  <2>3. QED BY <1>0, <1>4, <2>1, <2>2 DEF FullResync, PhaseInv
<1>5. CASE LoadBody \/ (Resets /\ phase = "loaded") \/ RenameSnapshot
  <2>1. UNCHANGED <<runid, replID, leaderID, conn, filter, own, incoming>>
    BY <1>5, ResetIs DEF LoadBody, RenameSnapshot
  <2>2. Receiving /\ Receiving'
    BY <1>5, ResetIs DEF LoadBody, RenameSnapshot
  <2>3. Known' <=> Known
    BY <2>1, KnownIs, KnownNext
  <2>4. phase' \notin {"leader", "crashed", "wiping", "wiped", "refused", "stream"}
    BY <2>2
  <2>5. filter = None /\ ~(own /\ leaderID = runid)
    BY <2>2 DEF PhaseInv
  <2>6. QED BY <2>1, <2>2, <2>3, <2>4, <2>5 DEF PhaseInv
<1>6. CASE StartStream
  <2>1. conn => replID = runid
    BY <1>6, Connected DEF StartStream
  <2>2. conn' => Known'
    BY <1>6, <2>1, KnownNext DEF StartStream
  <2>3. QED BY <1>6, <2>2 DEF StartStream, PhaseInv
<1>7. CASE LinkLost
  BY <1>7 DEF LinkLost, SessionOver, PhaseInv
<1>8. CASE Restore
  <2>1. phase = "crashed" /\ ~RestoreRefused /\ ~conn /\ replID = NoId /\ filter = None
    BY <1>8 DEF Restore, StartInv, FileInv, PhaseInv
  <2>2. /\ phase' \in {"down", "wiping"}
        /\ UNCHANGED <<runid, conn, filter, own, replID, leaderID>>
    BY <1>8, <2>1 DEF Restore
  <2>3. ~(own' /\ leaderID' = runid')
    BY <1>0, <2>1, <2>2 DEF PhaseInv
  <2>4. QED BY <2>1, <2>2, <2>3 DEF PhaseInv
<1>9. CASE Drop
  BY <1>9 DEF Drop, PhaseInv
<1>10. CASE Crash
  BY <1>10, Spared DEF Crash, PhaseInv
<1>11. CASE Promote
  BY <1>11 DEF Promote, PhaseInv
<1>12. CASE OwnWrite
  BY <1>12 DEF OwnWrite, PhaseInv
<1>13. CASE Follow
  <2>1. own => leaderID # runid
    BY <1>13, Spared
  <2>2. QED BY <1>13, <2>1 DEF Follow, PhaseInv
<1>14. CASE Resets /\ phase = "wiping"
  <2>1. /\ UNCHANGED <<runid, replID, leaderID, conn, filter, own, incoming>>
        /\ phase' \in {"wiping", "wiped"}
    BY <1>14, ResetIs
  <2>2. ~conn /\ filter = None /\ replID = NoId /\ ~(own /\ leaderID = runid)
    BY <1>14 DEF PhaseInv
  <2>3. QED BY <2>1, <2>2 DEF PhaseInv
<1>15. CASE ForgetLeader
  BY <1>0, <1>15 DEF ForgetLeader, PhaseInv
<1>16. CASE ApplyFails
  BY <1>16 DEF ApplyFails, PhaseInv
<1>17. CASE SwitchFails
  BY <1>17 DEF SwitchFails, PhaseInv
<1>18. CASE Resets
  BY <1>5, <1>14, <1>18, ResetIs
<1>19. QED
  BY <1>1, <1>2, <1>3, <1>4, <1>5, <1>6, <1>7, <1>8, <1>9, <1>10, <1>11, <1>12, <1>13,
     <1>15, <1>16, <1>17, <1>18
  DEF Next, Session, Resets, LeaderWrite, LeaderSnapshot, ApplyStreamed, Ack, OwnSnapshot

-----------------------------------------------------------------------------
\* The leader's snapshot stays within its log.
LEMMA LeaderStep ==
  ASSUME TypeOK, LeaderInv, Next
  PROVE  LeaderInv'
<1> USE DEF leader, memory, files
<1>0. /\ log \in Seq(Records) /\ Len(log) \in Nat /\ oldest \in Nat /\ oldest <= Len(log)
      /\ snap \in Anchors \cup {None} /\ MaxLog \in Nat
      /\ \A a \in Anchors : a # None /\ LastAnchor(a) \in Nat /\ FirstAnchor(a) \in Nat
                            /\ \A s \in Shards : a[s] \in Nat /\ FirstAnchor(a) <= a[s]
                                                 /\ a[s] <= LastAnchor(a)
  BY ReplicationAssumption, AnchorBounds DEF TypeOK, Anchors, Positions
<1>1. CASE LeaderWrite
  <2>1. PICK r : log' = Append(log, r)
    BY <1>1 DEF LeaderWrite
  <2>2. Len(log') = Len(log) + 1
    BY <1>0, <2>1
  <2>3. QED BY <1>0, <1>1, <2>2 DEF LeaderWrite, LeaderInv
<1>2. CASE LeaderSnapshot
  <2>1. PICK a \in Anchors :
          /\ \A s \in Shards : a[s] \in (IF snap = None THEN 0 ELSE LastAnchor(snap)) .. Len(log)
          /\ snap' = a /\ oldest' \in {oldest, FirstAnchor(a)} /\ log' = log
    BY <1>2 DEF LeaderSnapshot
  <2>2. ASSUME NEW s \in Shards PROVE oldest <= a[s]
    <3>1. CASE snap = None
      BY <1>0, <3>1 DEF LeaderInv
    <3>2. CASE snap # None
      <4>1. snap \in Anchors /\ oldest <= snap[s]
        BY <1>0, <3>2 DEF LeaderInv
      <4>2. LastAnchor(snap) <= a[s] /\ snap[s] <= LastAnchor(snap)
        BY <1>0, <2>1, <3>2, <4>1
      <4>3. LastAnchor(snap) \in Nat /\ a[s] \in Nat /\ snap[s] \in Nat
        BY <1>0, <4>1
      <4>4. QED BY <1>0, <4>1, <4>2, <4>3
    <3>3. QED BY <3>1, <3>2
  <2>3. ASSUME NEW s \in Shards PROVE oldest' <= a[s] /\ a[s] <= Len(log)
    <3>1. a[s] \in (IF snap = None THEN 0 ELSE LastAnchor(snap)) .. Len(log)
      BY <2>1
    <3>2. QED BY <1>0, <2>1, <2>2, <3>1
  <2>4. \A s \in Shards : a[s] \in oldest' .. Len(log')
    BY <1>0, <2>1, <2>3
  <2>5. QED BY <1>0, <2>1, <2>4 DEF LeaderInv
<1>3. CASE LeaderRestart
  <2>1. PICK n \in (IF snap = None THEN oldest ELSE LastAnchor(snap)) .. Len(log) :
          log' = SubSeq(log, 1, n)
    BY <1>3 DEF LeaderRestart
  <2>2. CASE snap = None
    BY <1>3, <2>2 DEF LeaderRestart, LeaderInv
  <2>3. CASE snap # None
    <3>1. snap \in Anchors /\ n \in LastAnchor(snap) .. Len(log)
      BY <1>0, <2>1, <2>3
    <3>2. n \in 0 .. Len(log) /\ LastAnchor(snap) <= n
      BY <1>0, <3>1
    <3>3. Len(log') = n
      BY <1>0, <2>1, <3>2
    <3>4. \A s \in Shards : snap[s] \in oldest .. n
      BY <1>0, <2>3, <3>1, <3>2 DEF LeaderInv
    <3>5. QED BY <1>3, <2>3, <3>3, <3>4 DEF LeaderRestart, LeaderInv
  <2>4. QED BY <2>2, <2>3
<1>4. CASE FullResync
  <2>1. [s \in Shards |-> Len(log)] \in Anchors
    BY <1>0 DEF Anchors, Positions, TypeOK
  <2>2. CASE snap = None
    <3>1. snap' = [s \in Shards |-> Len(log)] /\ log' = log /\ oldest' = oldest
      BY <1>4, <2>2 DEF FullResync
    <3>2. \A s \in Shards : snap'[s] \in oldest' .. Len(log')
      BY <1>0, <3>1
    <3>3. QED BY <1>0, <2>1, <3>1, <3>2 DEF LeaderInv
  <2>3. CASE snap # None
    BY <1>4, <2>3 DEF FullResync, LeaderInv
  <2>4. QED BY <2>2, <2>3
<1>5. CASE UNCHANGED leader
  BY <1>5 DEF LeaderInv
<1>6. CASE Resets
  BY <1>5, <1>6, ResetIs
<1>7. QED
  BY <1>1, <1>2, <1>3, <1>4, <1>5, <1>6 DEF Next, Session, Resets, Continue, LoadBody,
     RenameSnapshot, StartStream, ApplyStreamed, Ack, LinkLost, Restore, ForgetLeader, Drop,
     ApplyFails, SwitchFails, OwnSnapshot, Crash, Promote, OwnWrite, Follow

\* No step acknowledges more than was applied.
LEMMA AckStep ==
  ASSUME TypeOK, TypeOK', AckInv, PhaseInv, Next
  PROVE  AckInv'
<1> USE DEF leader, memory, files
<1>0. ack \in Nat /\ offset \in Nat /\ offset' \in Nat
  BY DEF TypeOK
<1>1. CASE ack' = 0
  BY <1>0, <1>1 DEF AckInv
<1>2. CASE StartStream
  <2>1. ack' = 0
    BY <1>2 DEF StartStream, AckInv
  <2>2. QED BY <1>1, <2>1
<1>3. CASE LoadBody \/ Resets \/ RenameSnapshot \/ Restore \/ ForgetLeader \/ OwnWrite
  <2>1. ack' = ack /\ phase # "stream"
    BY <1>3, ResetIs DEF LoadBody, RenameSnapshot, Restore, ForgetLeader, OwnWrite
  <2>2. ack = 0
    BY <2>1 DEF AckInv
  <2>3. QED BY <1>1, <2>1, <2>2
<1>4. CASE Follow
  BY <1>4 DEF Follow, AckInv
<1>5. CASE ApplyStreamed
  BY <1>0, <1>5 DEF ApplyStreamed, AckInv
<1>6. CASE Ack
  BY <1>0, <1>6 DEF Ack, AckInv
<1>7. CASE UNCHANGED <<ack, offset, phase>>
  BY <1>7 DEF AckInv
<1>8. QED
  BY <1>1, <1>2, <1>3, <1>4, <1>5, <1>6, <1>7 DEF Next, Session, Resets, LeaderWrite,
     LeaderSnapshot, LeaderRestart, Continue, FullResync, LinkLost, Drop, ApplyFails,
     SwitchFails, OwnSnapshot, Crash, Promote

\* The switch of files goes by the snapshot that was received.
LEMMA SwitchStep ==
  ASSUME TypeOK, SwitchInv, FileInv, Next
  PROVE  SwitchInv'
<1> USE DEF leader, memory, files
<1>1. CASE Resets
  <2>1. /\ phase' \in {"loaded", "reset", "wiping", "wiped"} /\ phase # "reset"
        /\ incoming' = incoming
    BY <1>1, ResetIs
  <2>2. FirstAnchor(incoming)' = FirstAnchor(incoming)
    BY <2>1 DEF FirstAnchor
  <2>3. phase' = "reset" => rbase' = FirstAnchor(incoming) /\ rlog' = << >>
    BY <1>1, <2>1, ResetLog
  <2>4. QED BY <2>1, <2>2, <2>3 DEF SwitchInv
<1>2. CASE RenameSnapshot
  BY <1>2 DEF RenameSnapshot, SwitchInv
<1>3. CASE phase' \notin {"reset", "renamed"}
  BY <1>3 DEF SwitchInv
<1>4. CASE UNCHANGED <<phase, rbase, rlog, rsnap, ks, incoming>>
  BY <1>4 DEF SwitchInv
<1>5. CASE Continue \/ FullResync \/ LoadBody \/ StartStream \/ LinkLost \/ ApplyStreamed
           \/ Restore \/ ForgetLeader \/ ApplyFails \/ SwitchFails
           \/ Crash \/ Promote \/ OwnWrite \/ Follow \/ OwnSnapshot
  <2>1. phase' \notin {"reset", "renamed"}
    BY <1>5 DEF Continue, FullResync, LoadBody, StartStream, LinkLost, ApplyStreamed,
       Restore, ForgetLeader, ApplyFails, SwitchFails, Crash, Promote, OwnWrite, Follow,
       OwnSnapshot
  <2>2. QED BY <1>3, <2>1
<1>6. QED
  BY <1>1, <1>2, <1>4, <1>5 DEF Next, Session, Resets, LeaderWrite, LeaderSnapshot,
     LeaderRestart, Ack, Drop

\* The files are whole but inside a reset, and a crash that is survived leaves
\* a log or none.
LEMMA FileStep ==
  ASSUME TypeOK, FileInv, StartInv, Next, Hard = {}
  PROVE  FileInv'
<1> USE DEF leader, memory, files
<1>0. Len(rlog) \in Nat /\ rfile \in {"whole", "cut", "none", "headless"}
  BY EndIs DEF TypeOK
<1>1. CASE Resets
  <2>1. phase' # "crashed" /\ (phase' = phase => phase' \in {"loaded", "wiping"})
    BY <1>1, ResetIs
  <2>2. QED BY <1>1, <2>1, ResetLog DEF FileInv
<1>2. CASE /\ UNCHANGED <<rfile, rbase, rlog>> /\ rfailed' = rfailed
           /\ phase' # "crashed"
           /\ phase \in {"loaded", "crashed", "wiping"} => phase' = phase
  BY <1>2 DEF FileInv
<1>3. CASE /\ UNCHANGED <<rfile, rbase, rlog>> /\ UNCHANGED <<phase, rfailed>>
  BY <1>3 DEF FileInv
<1>4. CASE ApplyStreamed \/ OwnWrite
  <2>1. rfile = "whole" /\ rfile' = "whole" /\ phase' # "crashed"
    BY <1>4 DEF ApplyStreamed, OwnWrite, FileInv
  <2>2. QED BY <2>1 DEF FileInv
<1>5. CASE ApplyFails
  <2>1. rfailed' /\ rfile' = rfile /\ rbase' = rbase /\ phase' # "crashed"
        /\ (rlog' = rlog \/ ~rfailed)
    BY <1>5 DEF ApplyFails
  <2>2. ~rfailed => rfile = "whole"
    BY <1>5 DEF ApplyFails, FileInv
  <2>3. QED BY <2>1, <2>2 DEF FileInv
<1>6. CASE SwitchFails
  <2>1. rfailed' /\ UNCHANGED <<rfile, rbase, rlog>> /\ phase' = "down"
    BY <1>6, Spared DEF SwitchFails
  <2>2. QED BY <2>1 DEF FileInv
<1>7. CASE OwnSnapshot
  <2>1. ~rfailed /\ phase' = phase /\ rfile' = rfile /\ rfile = "whole" /\ phase # "crashed"
    BY <1>7, Spared DEF OwnSnapshot, FileInv
  <2>2. QED BY <2>1 DEF FileInv
<1>8. CASE Crash
  <2>1. rfile' = rfile /\ rfile \in {"whole", "none"} /\ rbase' = rbase /\ phase' = "crashed"
    BY <1>0, <1>8, Spared DEF Crash
  <2>2. PICK n \in 0 .. Len(rlog) : rlog' = SubSeq(rlog, 1, n)
    BY <1>8 DEF Crash
  <2>3. rlog = << >> => rlog' = << >>
    BY <2>2
  <2>4. QED BY <2>1, <2>3 DEF FileInv
<1>9. CASE Restore
  <2>1. phase = "crashed" /\ rfile \in {"whole", "none"} /\ ~RestoreRefused
    BY <1>9 DEF Restore, FileInv, StartInv
  <2>2. CASE Incomplete
    BY <1>9, <2>1, <2>2 DEF Restore, FileInv
  <2>3. CASE ~Incomplete
    BY <1>9, <2>1, <2>3 DEF Restore, FileInv
  <2>4. QED BY <2>2, <2>3
<1>10. CASE LinkLost
  <2>1. UNCHANGED <<rfile, rbase, rlog, rfailed>> /\ phase' = "down"
        /\ (rfailed \/ phase \in {"body", "stream"})
    BY <1>10 DEF LinkLost, SessionOver
  <2>2. QED BY <2>1 DEF FileInv
<1>11. QED
  BY <1>1, <1>2, <1>3, <1>4, <1>5, <1>6, <1>7, <1>8, <1>9, <1>10
  DEF Next, Session, Resets, LeaderWrite, LeaderSnapshot, LeaderRestart, Continue, FullResync,
     LoadBody, RenameSnapshot, StartStream, Ack, ForgetLeader, Drop, Promote, Follow

\* No step leaves a log that begins after its snapshot, the switch apart.
LEMMA StartStep ==
  ASSUME TypeOK, EndInv, PhaseInv, SwitchInv, FileInv, StartInv, Next, Hard = {}
  PROVE  StartInv'
<1> USE DEF leader, memory, files
<1>a. \A a \in Anchors : FirstAnchor(a) \in Nat
  BY ReplicationAssumption, AnchorBounds DEF Positions
<1>0. /\ None \notin Snapshots /\ rbase \in Nat /\ Len(rlog) \in Nat /\ LogEnd = rbase + Len(rlog)
      /\ LogEnd \in Positions
      /\ \A a \in Anchors : FirstAnchor(a) \in Nat
  BY <1>a, EndIs, ReplicationAssumption DEF EndInv, Positions
<1>1. CASE Resets
  <2>1. rsnap' = rsnap
    BY <1>1, ResetIs
  <2>2. phase' = "reset" \/ rfile' \in {"cut", "headless"} \/ (rbase' = 0 /\ rfile' # "headless")
    BY <1>1, ResetLog
  <2>3. rsnap # None => FirstAnchor(rsnap.anchors) \in Nat
    BY <1>0 DEF TypeOK, Snapshots
  <2>4. rbase' = 0 /\ rfile' # "headless" => ~RestoreRefused'
    BY <2>1, <2>3 DEF RestoreRefused
  <2>5. QED BY <2>2, <2>4 DEF StartInv
<1>2. CASE RenameSnapshot
  <2>1. rsnap' = [anchors |-> incoming, shards |-> ks] /\ rbase' = FirstAnchor(incoming)
    BY <1>2 DEF RenameSnapshot, SwitchInv
  <2>2. rsnap' \in Snapshots /\ incoming \in Anchors
    BY <1>2, <2>1 DEF RenameSnapshot, PhaseInv, Receiving, TypeOK, Snapshots
  <2>3. FirstAnchor(rsnap'.anchors) = rbase' /\ rsnap' # None /\ rbase' \in Nat
    BY <1>0, <2>1, <2>2
  <2>4. rfile' = rfile
    BY <1>2 DEF RenameSnapshot
  <2>5. QED BY <2>3, <2>4 DEF StartInv, RestoreRefused
<1>3. CASE Restore
  <2>1. phase = "crashed" /\ ~RestoreRefused
    BY <1>3 DEF Restore, StartInv, FileInv
  <2>2. rbase' = rbase /\ rsnap' = rsnap /\ rfile' \in {rfile, "whole"}
    BY <1>3, <2>1 DEF Restore
  <2>3. QED BY <2>1, <2>2 DEF StartInv, RestoreRefused
<1>4. CASE OwnSnapshot
  <2>1. /\ rsnap' = [anchors |-> [s \in Shards |-> LogEnd], shards |-> ks]
        /\ rbase' = LogEnd \/ rbase' = rbase
    BY <1>4 DEF OwnSnapshot
  <2>2. rsnap' # None /\ rsnap'.anchors \in Anchors
    <3>1. [s \in Shards |-> LogEnd] \in Anchors /\ ks \in [Shards -> Seq(Records)]
      BY <1>0 DEF Anchors, TypeOK
    <3>2. rsnap' \in Snapshots
      BY <2>1, <3>1 DEF Snapshots
    <3>3. QED BY <1>0, <3>2 DEF Snapshots
  <2>3. FirstAnchor(rsnap'.anchors) = LogEnd
    <3>1. PICK s \in Shards : FirstAnchor(rsnap'.anchors) = rsnap'.anchors[s]
      BY <2>2, AnchorBounds
    <3>2. QED BY <2>1, <3>1
  <2>4. rbase' <= LogEnd /\ rbase' \in Nat
    BY <1>0, <2>1
  <2>5. rfile' = rfile /\ rfile # "headless"
    BY <1>4, Spared DEF OwnSnapshot, FileInv
  <2>6. QED BY <1>0, <2>2, <2>3, <2>4, <2>5 DEF StartInv, RestoreRefused
<1>5. CASE UNCHANGED <<rsnap, rbase, rfile>> /\ (phase = "reset" => phase' = "reset")
  BY <1>5 DEF StartInv, RestoreRefused
<1>6. CASE Crash
  BY <1>6, Spared DEF Crash, StartInv, RestoreRefused
<1>7. CASE SwitchFails
  BY <1>5, <1>7, Spared DEF SwitchFails
<1>8. QED
  BY <1>1, <1>2, <1>3, <1>4, <1>5, <1>6, <1>7 DEF Next, Session, Resets, LeaderWrite,
     LeaderSnapshot, LeaderRestart, Continue, FullResync, LoadBody, StartStream, ApplyStreamed,
     Ack, LinkLost, SessionOver, ForgetLeader, Drop, ApplyFails, Promote, OwnWrite, Follow

\* No link breaks off inside a window.
LEMMA WindowStep ==
  ASSUME TypeOK, TypeOK', IdInv, PhaseInv, WindowInv, Next, Hard = {}
  PROVE  WindowInv'
<1> USE DEF leader, memory, files
<1>1. CASE UNCHANGED <<runid, replID, leaderID, phase, conn, filter, offset, incoming, rfailed>>
  <2>1. Known' <=> Known
    BY <1>1, KnownIs, KnownNext
  <2>2. QED BY <1>1, <2>1 DEF WindowInv, InWindow, ComingWindow
<1>2. CASE conn'
  BY <1>2 DEF WindowInv
<1>3. CASE ApplyStreamed \/ Continue \/ FullResync \/ LoadBody
  <2>1. conn'
    BY <1>3 DEF ApplyStreamed, Continue, FullResync, LoadBody
  <2>2. QED BY <1>2, <2>1
<1>4. CASE LeaderRestart
  <2>1. runid' = runid + 1 /\ replID' = replID /\ leaderID' = leaderID
    BY <1>4 DEF LeaderRestart
  <2>2. ~Known'
    BY <2>1, KnownNext, ReplicationAssumption, SMTT(30) DEF IdInv, TypeOK
  <2>3. QED BY <2>2 DEF WindowInv
<1>5. CASE Resets \/ RenameSnapshot
  <2>1. UNCHANGED <<runid, replID, leaderID, conn, filter, offset, incoming, rfailed>>
    BY <1>5, ResetIs DEF RenameSnapshot
  <2>2. ComingWindow' <=> ComingWindow
    <3>1. phase' \in {"loaded", "reset", "renamed"} <=> phase \in {"loaded", "reset", "renamed"}
      BY <1>5, ResetIs DEF RenameSnapshot
    <3>2. QED BY <2>1, <3>1 DEF ComingWindow, FirstAnchor, LastAnchor
  <2>3. Known' <=> Known
    BY <2>1, KnownIs, KnownNext
  <2>4. InWindow' <=> InWindow
    BY <2>1 DEF InWindow
  <2>5. QED BY <2>1, <2>2, <2>3, <2>4 DEF WindowInv
<1>6. CASE StartStream
  <2>1. ASSUME ~conn', Known', ~rfailed' PROVE ~InWindow'
    <3>1. replID = runid /\ ~conn /\ ~rfailed /\ phase = "renamed"
      BY <1>6, <2>1, KnownNext DEF StartStream, PhaseInv, Receiving
    <3>2. ~(FirstAnchor(incoming) < LastAnchor(incoming))
      BY <3>1, KnownIs DEF WindowInv, ComingWindow
    <3>3. QED BY <1>6, <3>2 DEF StartStream, InWindow
  <2>2. ~ComingWindow'
    BY <1>6 DEF StartStream, ComingWindow
  <2>3. QED BY <2>1, <2>2 DEF WindowInv
<1>7. CASE LinkLost \/ Crash \/ Promote
  BY <1>7 DEF LinkLost, Crash, Promote, WindowInv, InWindow, ComingWindow
<1>8. CASE Restore \/ ForgetLeader \/ Follow
  <2>1. filter = None /\ filter' = filter /\ phase' \notin {"loaded", "reset", "renamed"}
    BY <1>8 DEF Restore, ForgetLeader, Follow, PhaseInv
  <2>2. QED BY <2>1 DEF WindowInv, InWindow, ComingWindow
<1>9. CASE Drop
  <2>1. ~InWindow /\ ~ComingWindow
    BY <1>9, Spared
  <2>2. QED BY <1>9, <2>1 DEF Drop, WindowInv, InWindow, ComingWindow
<1>10. CASE ApplyFails \/ SwitchFails
  <2>1. rfailed'
    BY <1>10, Spared DEF ApplyFails
  <2>2. QED BY <2>1 DEF WindowInv
<1>11. QED
  BY <1>1, <1>3, <1>4, <1>5, <1>6, <1>7, <1>8, <1>9, <1>10 DEF Next, Session, Resets,
     LeaderWrite, LeaderSnapshot, Ack, OwnSnapshot, OwnWrite

-----------------------------------------------------------------------------
(***************************************************************************)
(* The replica's log.                                                      *)
(***************************************************************************)
LEMMA LogGrows ==
  ASSUME TypeOK, LeaderWrite
  PROVE  /\ Len(log') = Len(log) + 1
         /\ \A i \in 1 .. Len(log) : log'[i] = log[i]
<1>1. PICK r : log' = Append(log, r)
  BY DEF LeaderWrite
<1>2. log \in Seq(Records)
  BY DEF TypeOK
<1>3. QED BY <1>1, <1>2

\* What matches a log matches a longer one.
LEMMA MatchesMore ==
  ASSUME TypeOK, Matches, UNCHANGED <<rbase, rlog>>, Len(log') \in Nat, Len(log) <= Len(log'),
         \A i \in 1 .. Len(log) : log'[i] = log[i]
  PROVE  Matches'
<1>1. /\ rbase \in Nat /\ Len(rlog) \in Nat /\ Len(log) \in Nat
      /\ LogEnd = rbase + Len(rlog) /\ LogEnd' = LogEnd
  BY EndIs DEF TypeOK, LogEnd
<1>2. LogEnd' <= Len(log')
  BY <1>1 DEF Matches
<1>3. ASSUME NEW i \in 1 .. Len(rlog) PROVE rlog'[i] = log'[rbase' + i]
  <2>1. rlog[i] = log[rbase + i]
    BY DEF Matches
  <2>2. rbase + i \in 1 .. Len(log)
    BY <1>1 DEF Matches
  <2>3. QED BY <2>1, <2>2
<1>4. QED BY <1>2, <1>3 DEF Matches

\* A log filed under the leader's history is the leader's.
LEMMA FaithfulMatches ==
  ASSUME TypeOK, Faithful
  PROVE  Matches
<1>1. /\ rbase \in Nat /\ Len(rlog) \in Nat /\ Len(log) \in Nat /\ LogEnd = rbase + Len(rlog)
      /\ LogEnd <= Len(log) /\ log \in Seq(Records) /\ rlog \in Seq(Records)
  BY EndIs DEF TypeOK, Faithful
<1> DEFINE tail == SubSeq(log, rbase + 1, Len(log))
<1>2. /\ tail \in Seq(Records) /\ Len(tail) = Len(log) - rbase
      /\ \A i \in 1 .. Len(log) - rbase : tail[i] = log[rbase + i]
  BY <1>1
<1>3. IsPrefix(rlog, tail)
  BY DEF Faithful
<1> HIDE DEF tail
<1>4. \A i \in 1 .. Len(rlog) : rlog[i] = tail[i]
  BY <1>1, <1>2, <1>3, PrefixMeans
<1>5. ASSUME NEW i \in 1 .. Len(rlog) PROVE rlog[i] = log[rbase + i]
  <2>1. i \in 1 .. Len(log) - rbase
    BY <1>1
  <2>2. QED BY <1>2, <1>4, <2>1
<1>6. QED BY <1>1, <1>5 DEF Matches

\* A record of the stream, and the start of a log at the first anchor.
LEMMA MatchesNext ==
  ASSUME TypeOK, Matches, LogEnd = offset, offset \in oldest .. Len(log) - 1,
         log' = log, rbase' = rbase, rlog' = Append(rlog, log[offset + 1])
  PROVE  Matches' /\ LogEnd' = LogEnd + 1
<1>1. /\ rbase \in Nat /\ Len(rlog) \in Nat /\ Len(log) \in Nat /\ LogEnd = rbase + Len(rlog)
      /\ log \in Seq(Records) /\ rlog \in Seq(Records) /\ oldest \in Nat
  BY EndIs DEF TypeOK
<1>2. offset \in Nat /\ offset + 1 <= Len(log)
  BY <1>1 DEF TypeOK
<1>3. PICK r \in Records : r = log[offset + 1]
  BY <1>1, <1>2
<1>4. rlog' = Append(rlog, r)
  BY <1>3
<1>5. /\ Len(rlog') = Len(rlog) + 1 /\ rlog'[Len(rlog) + 1] = r
      /\ \A i \in 1 .. Len(rlog) : rlog'[i] = rlog[i]
  BY <1>1, <1>4
<1>6. LogEnd' = LogEnd + 1
  BY <1>1, <1>2, <1>5 DEF LogEnd
<1>7. ASSUME NEW i \in 1 .. Len(rlog') PROVE rlog'[i] = log[rbase + i]
  <2>1. CASE i \in 1 .. Len(rlog)
    BY <1>5, <2>1 DEF Matches
  <2>2. CASE i = Len(rlog) + 1
    <3>1. rbase + i = offset + 1
      BY <1>1, <2>2
    <3>2. rlog'[i] = r
      BY <1>5, <2>2
    <3>3. QED BY <1>3, <3>1, <3>2
  <2>3. QED BY <1>1, <1>5, <2>1, <2>2
<1>8. QED BY <1>1, <1>2, <1>6, <1>7 DEF Matches

LEMMA StreamNext ==
  ASSUME TypeOK, Matches, ApplyStreamed, LogEnd = offset
  PROVE  Matches' /\ LogEnd' = LogEnd + 1 /\ offset' = LogEnd'
<1>1. /\ offset \in oldest .. Len(log) - 1 /\ log' = log /\ rbase' = rbase
      /\ rlog' = Append(rlog, log[offset + 1]) /\ offset' = offset + 1
  BY DEF ApplyStreamed, leader
<1>2. QED BY <1>1, MatchesNext

\* So is the empty log of a replica that has just renamed its snapshot.
LEMMA ResetMatches ==
  ASSUME TypeOK, PhaseInv, BodyInv, SwitchInv, phase = "renamed", replID = runid
  PROVE  Matches /\ LogEnd = FirstAnchor(incoming)
<1>1. incoming \in Anchors
  BY DEF PhaseInv, Receiving, TypeOK
<1>2. PICK s \in Shards : FirstAnchor(incoming) = incoming[s]
  BY <1>1, AnchorBounds
<1>3. FirstAnchor(incoming) <= Len(log) /\ FirstAnchor(incoming) \in Nat
  BY <1>1, <1>2, AnchorBounds, ReplicationAssumption DEF BodyInv, Receiving, Positions
<1>4. rbase = FirstAnchor(incoming) /\ rlog = << >>
  BY DEF SwitchInv
<1>5. LogEnd = FirstAnchor(incoming)
  BY <1>3, <1>4 DEF LogEnd
<1>6. QED BY <1>3, <1>4, <1>5 DEF Matches

\* The histories in memory and on disk cannot part while the newer is served.
LEMMA OnDiskKnown ==
  ASSUME TypeOK, IdInv, leaderID = runid
  PROVE  Known
<1>1. replID \in Nat \cup {NoId} /\ leaderID \in Nat /\ NoId \notin Nat
  BY ReplicationAssumption DEF TypeOK
<1>2. QED BY <1>1, KnownIs DEF IdInv

\* Steps into a phase, a failure or a history of which nothing is claimed.
LEMMA NotKept ==
  ASSUME TypeOK, TypeOK', PhaseInv, Hard = {},
         \/ FullResync \/ LoadBody \/ Resets \/ RenameSnapshot \/ Crash \/ OwnWrite
         \/ ApplyFails \/ SwitchFails \/ ForgetLeader
  PROVE  ~(Kept' /\ Known')
<1> USE DEF leader, memory, files
<1>1. CASE FullResync \/ LoadBody \/ RenameSnapshot \/ Crash \/ OwnWrite
  BY <1>1 DEF FullResync, LoadBody, RenameSnapshot, Crash, OwnWrite, Kept
<1>2. CASE Resets
  BY <1>2, ResetIs DEF Kept
<1>3. CASE ApplyFails \/ SwitchFails
  BY <1>3, Spared DEF ApplyFails, Kept
<1>4. CASE ForgetLeader
  <2>1. replID' = NoId /\ leaderID' = NoId /\ runid' \in Nat /\ NoId \notin Nat
    BY <1>4, ReplicationAssumption DEF ForgetLeader, PhaseInv, TypeOK
  <2>2. QED BY <2>1, KnownNext
<1>5. QED BY <1>1, <1>2, <1>3, <1>4

\* Every step keeps the replica's log the leader's.
LEMMA LogStep ==
  ASSUME TypeOK, TypeOK', IdInv, PhaseInv, LogInv, BodyInv, SwitchInv, FileInv, DiskInv,
         StartInv, Next, Hard = {}
  PROVE  LogInv'
<1> USE DEF leader, memory, files
<1> SUFFICES ASSUME Kept', Known'
             PROVE  Matches' /\ (phase' = "stream" \/ replID' # NoId => offset' = LogEnd')
  BY DEF LogInv
<1>0. NoId \notin Nat /\ runid \in Nat
  BY ReplicationAssumption DEF TypeOK
<1>1. CASE /\ UNCHANGED <<log, runid, replID, leaderID, phase, own, conn, rbase, rlog, offset>>
           /\ rfailed' = rfailed
  BY <1>1, KnownIs, KnownNext DEF LogInv, Kept, Matches, LogEnd
<1>2. CASE LeaderWrite
  <2>1. Known /\ Kept
    BY <1>2, KnownIs, KnownNext DEF LeaderWrite, Kept
  <2>2. Matches'
    <3>1. Len(log) \in Nat
      BY DEF TypeOK
    <3>2. QED BY <1>2, <2>1, <3>1, LogGrows, MatchesMore DEF LeaderWrite, LogInv
  <2>3. QED BY <1>2, <2>1, <2>2 DEF LeaderWrite, LogInv, LogEnd
<1>3. CASE LeaderRestart
  <2>1. runid' = runid + 1 /\ replID' = replID /\ leaderID' = leaderID
    BY <1>3 DEF LeaderRestart
  <2>2. ~Known'
    BY <2>1, KnownNext, ReplicationAssumption, SMTT(30) DEF IdInv, TypeOK
  <2>3. QED BY <2>2
<1>4. CASE Continue
  <2>1. Known /\ Kept
    BY <1>4 DEF Continue, Resumable, Known, Kept
  <2>2. Matches /\ Matches' /\ LogEnd' = LogEnd
    BY <1>4, <2>1 DEF Continue, LogInv, Matches, LogEnd
  <2>3. Offered.at = LogEnd
    BY <1>0, <2>1, OfferIs, KnownIs DEF LogInv
  <2>4. QED BY <1>4, <2>2, <2>3 DEF Continue
<1>5. CASE \/ FullResync \/ LoadBody \/ Resets \/ RenameSnapshot \/ Crash \/ OwnWrite
           \/ ApplyFails \/ SwitchFails \/ ForgetLeader
  <2>1. ~(Kept' /\ Known')
    BY <1>5, NotKept
  <2>2. QED BY <2>1
<1>6. CASE StartStream
  <2>1. phase = "renamed" /\ replID = runid
    BY <1>6, KnownNext DEF StartStream, PhaseInv, Receiving
  <2>2. Matches /\ LogEnd = FirstAnchor(incoming)
    BY <2>1, ResetMatches
  <2>3. QED BY <1>6, <2>2 DEF StartStream, Matches, LogEnd
<1>7. CASE ApplyStreamed
  <2>1. Kept /\ Known
    BY <1>7, Connected DEF ApplyStreamed
  <2>2. Matches /\ LogEnd = offset
    BY <1>7, <2>1 DEF ApplyStreamed, LogInv
  <2>3. QED BY <1>7, <2>2, StreamNext
<1>8. CASE LinkLost
  <2>1. Known /\ Kept
    BY <1>8, KnownIs, KnownNext DEF LinkLost, SessionOver, Kept
  <2>2. QED BY <1>8, <2>1 DEF LinkLost, LogInv, Matches, LogEnd
<1>9. CASE Restore
  <2>1. phase = "crashed" /\ replID = NoId /\ replID' = NoId
    BY <1>9 DEF Restore, PhaseInv
  <2>2. leaderID' = runid /\ leaderID' # NoId
    BY <1>0, <1>9, <2>1, KnownNext DEF Restore
  <2>3. leaderID = runid /\ UNCHANGED <<log, rbase, rlog>> /\ phase' # "stream"
    BY <1>9, <2>1, <2>2 DEF Restore
  <2>4. Matches
    BY <2>1, <2>3 DEF DiskInv, PhaseInv
  <2>5. QED BY <2>1, <2>3, <2>4 DEF Matches, LogEnd
<1>10. CASE Drop
  <2>1. /\ UNCHANGED <<log, runid, replID, leaderID, phase, own, rbase, rlog, offset>>
        /\ conn /\ rfailed' = rfailed
    BY <1>10 DEF Drop
  <2>2. CASE phase = "body"
    <3>1. Faithful
      BY <1>10, <2>2, Spared
    <3>2. Matches /\ LogEnd = offset
      BY <3>1, FaithfulMatches DEF Faithful
    <3>3. QED BY <2>1, <3>2 DEF Matches, LogEnd
  <2>3. CASE phase # "body"
    <3>1. Known /\ Kept
      BY <2>1, <2>3, KnownIs, KnownNext DEF Kept
    <3>2. QED BY <2>1, <3>1 DEF LogInv, Matches, LogEnd
  <2>4. QED BY <2>2, <2>3
<1>11. CASE OwnSnapshot
  <2>1. UNCHANGED <<log, runid, replID, leaderID, phase, own, conn, offset, rfailed>>
    BY <1>11 DEF OwnSnapshot
  <2>2. Known /\ Kept
    BY <2>1, KnownIs, KnownNext DEF Kept
  <2>3. CASE rbase' = LogEnd /\ rlog' = << >>
    <3>1. LogEnd' = LogEnd
      BY <2>3, EndIs DEF LogEnd
    <3>2. QED BY <2>1, <2>2, <2>3, <3>1 DEF LogInv, Matches
  <2>4. CASE UNCHANGED <<rbase, rlog>>
    BY <2>1, <2>2, <2>4 DEF LogInv, Matches, LogEnd
  <2>5. QED BY <1>11, <2>3, <2>4 DEF OwnSnapshot
<1>12. CASE Promote
  <2>1. leaderID = runid /\ ~own
    BY <1>0, <1>12, KnownNext DEF Promote, Kept
  <2>2. Matches
    BY <1>12, <2>1 DEF Promote, DiskInv
  <2>3. QED BY <1>12, <2>2 DEF Promote, Matches, LogEnd
<1>13. CASE Follow
  <2>1. Known
    BY <1>13, KnownIs, KnownNext DEF Follow
  <2>2. Kept
    BY <1>0, <1>13, <2>1, KnownIs, Spared DEF Follow, PhaseInv, Kept
  <2>3. QED BY <1>13, <2>1, <2>2 DEF Follow, LogInv, Matches, LogEnd
<1>14. QED
  BY <1>1, <1>2, <1>3, <1>4, <1>5, <1>6, <1>7, <1>8, <1>9, <1>10, <1>11, <1>12, <1>13
  DEF Next, Session, Resets, LeaderSnapshot, Ack

-----------------------------------------------------------------------------
(***************************************************************************)
(* The replica's shards.                                                   *)
(***************************************************************************)
\* Outside a window nothing is ahead of the log.
LEMMA UptoEnd ==
  ASSUME TypeOK, ~InWindow, phase = "stream" => offset = LogEnd, PhaseInv
  PROVE  \A s \in Shards : Upto(s) = LogEnd
<1>1. CASE filter = None
  BY <1>1 DEF Upto
<1>2. CASE filter # None
  <2>1. filter \in Anchors /\ offset = LogEnd /\ ~(offset < LastAnchor(filter))
    BY <1>2 DEF TypeOK, PhaseInv, InWindow
  <2>2. LastAnchor(filter) \in Nat /\ offset \in Nat
    BY <2>1, AnchorBounds, ReplicationAssumption DEF Positions, TypeOK
  <2>3. ASSUME NEW s \in Shards PROVE filter[s] <= LogEnd
    <3>1. filter[s] \in Nat /\ filter[s] <= LastAnchor(filter)
      BY <2>1, AnchorBounds, ReplicationAssumption DEF Anchors, Positions
    <3>2. QED BY <2>1, <2>2, <3>1
  <2>4. QED BY <2>3 DEF Upto
<1>3. QED BY <1>1, <1>2

\* How far a shard has been applied is an offset.
LEMMA UptoType ==
  ASSUME TypeOK, NEW s \in Shards
  PROVE  Upto(s) \in Nat
<1>1. LogEnd \in Nat
  BY EndIs
<1>2. filter # None => filter[s] \in Nat
  BY ReplicationAssumption DEF TypeOK, Anchors, Positions
<1>3. QED BY <1>1, <1>2 DEF Upto

\* Pruning never gives back what has been removed.
LEMMA OldestGrows ==
  ASSUME TypeOK, LeaderInv, LeaderSnapshot
  PROVE  oldest <= oldest' /\ oldest' \in Nat
<1>1. PICK a \in Anchors :
        /\ \A s \in Shards : a[s] \in (IF snap = None THEN 0 ELSE LastAnchor(snap)) .. Len(log)
        /\ oldest' \in {oldest, FirstAnchor(a)}
  BY DEF LeaderSnapshot
<1>2. PICK s \in Shards : FirstAnchor(a) = a[s]
  BY AnchorBounds
<1>3. oldest \in Nat /\ a[s] \in Nat
  BY ReplicationAssumption DEF TypeOK, Anchors, Positions
<1>4. CASE snap = None
  BY <1>1, <1>2, <1>3, <1>4 DEF LeaderInv
<1>5. CASE snap # None
  <2>1. snap \in Anchors
    BY <1>5 DEF TypeOK
  <2>2. snap[s] \in Nat /\ LastAnchor(snap) \in Nat /\ snap[s] <= LastAnchor(snap)
    BY <2>1, AnchorBounds, ReplicationAssumption DEF Anchors, Positions
  <2>3. oldest <= snap[s]
    BY <1>3, <1>5, <2>2 DEF LeaderInv
  <2>4. LastAnchor(snap) <= a[s]
    <3>1. a[s] \in LastAnchor(snap) .. Len(log)
      BY <1>1, <1>5
    <3>2. QED BY <3>1
  <2>5. QED BY <1>1, <1>2, <1>3, <2>2, <2>3, <2>4
<1>6. QED BY <1>4, <1>5

\* What the log says of a shard does not change when records are added.
LEMMA AfterWrite ==
  ASSUME TypeOK, LeaderWrite, NEW s, NEW n \in Nat, n <= Len(log)
  PROVE  After(log', s, n) = After(log, s, n)
<1>1. \A i \in 1 .. n : log[i] = log'[i]
  <2>1. Len(log) \in Nat
    BY DEF TypeOK
  <2>2. QED BY <2>1, LogGrows
<1>2. QED BY <1>1, AfterSame

\* One record of the stream: a shard behind the log takes it if it is its own,
\* a shard ahead has it already.
LEMMA ApplyKeeps ==
  ASSUME TypeOK, ApplyStreamed, LogEnd = offset, LogEnd' = LogEnd + 1, NEW s \in Shards,
         Upto(s) <= Len(log), ks[s] = After(log, s, Upto(s))
  PROVE  Upto(s)' <= Len(log) /\ ks'[s] = After(log, s, Upto(s)')
<1>0. offset \in Nat /\ Len(log) \in Nat /\ oldest \in Nat /\ log \in Seq(Records)
  BY DEF TypeOK
<1>1. filter' = filter /\ offset + 1 <= Len(log)
  BY <1>0 DEF ApplyStreamed
<1>2. filter # None => filter[s] \in Nat
  BY ReplicationAssumption DEF TypeOK, Anchors, Positions
<1>3. PICK r \in Records : r = log[offset + 1]
  BY <1>0, <1>1
<1>4. r.shard \in Shards
  BY <1>3 DEF Records
<1>5. ks' = IF Wanted(filter, offset, r.shard) THEN [ks EXCEPT ![r.shard] = Append(@, r)] ELSE ks
  BY <1>3 DEF ApplyStreamed
<1>6. ks'[s] = IF r.shard = s /\ Wanted(filter, offset, s) THEN Append(ks[s], r) ELSE ks[s]
  <2>1. CASE r.shard = s
    BY <1>5, <2>1 DEF TypeOK
  <2>2. CASE r.shard # s
    BY <1>4, <1>5, <2>2 DEF TypeOK
  <2>3. QED BY <2>1, <2>2
<1>7. After(log, s, offset + 1) =
        IF r.shard = s THEN Append(After(log, s, offset), r) ELSE After(log, s, offset)
  BY <1>0, <1>3, AfterNext
<1>8. CASE Wanted(filter, offset, s)
  <2>1. filter = None \/ filter[s] <= offset
    BY <1>0, <1>2, <1>8 DEF Wanted
  <2>2. Upto(s) = offset
    BY <2>1 DEF Upto
  <2>3. filter' = None \/ filter'[s] <= LogEnd'
    BY <1>0, <1>1, <1>2, <2>1
  <2>4. Upto(s)' = offset + 1
    BY <2>3 DEF Upto
  <2>5. ks'[s] = After(log, s, offset + 1)
    BY <1>6, <1>7, <1>8, <2>2
  <2>6. QED BY <1>1, <2>4, <2>5
<1>9. CASE ~Wanted(filter, offset, s)
  <2>1. filter # None /\ ~(filter[s] <= offset)
    BY <1>0, <1>2, <1>9 DEF Wanted
  <2>2. Upto(s) = filter[s]
    BY <2>1 DEF Upto
  <2>3. Upto(s)' = filter[s]
    <3>1. filter'[s] <= LogEnd' => filter[s] = LogEnd'
      BY <1>0, <1>1, <1>2, <2>1
    <3>2. QED BY <1>1, <2>1, <3>1 DEF Upto
  <2>4. QED BY <1>6, <1>9, <2>2, <2>3
<1>10. QED BY <1>8, <1>9

\* A restart: the snapshot's shard and what the log adds to it.
LEMMA RestoreKeeps ==
  ASSUME TypeOK, DiskInv, phase = "crashed", ~own, leaderID = runid, LogEnd >= oldest,
         ~RestoreRefused, ~Incomplete, NEW s \in Shards
  PROVE  LogEnd <= Len(log) /\ Restored(s) = After(log, s, LogEnd)
<1>0. /\ rbase \in Nat /\ Len(rlog) \in Nat /\ LogEnd = rbase + Len(rlog) /\ Len(log) \in Nat
      /\ log \in Seq(Records) /\ rlog \in Seq(Records)
  BY EndIs DEF TypeOK
<1>1. LogEnd <= Len(log) /\ \A i \in 1 .. Len(rlog) : rlog[i] = log[rbase + i]
  BY DEF DiskInv, Matches
<1> DEFINE flt == IF rsnap = None THEN None ELSE rsnap.anchors
           a == IF rsnap = None THEN 0 ELSE rsnap.anchors[s]
           D == {i \in 1 .. Len(rlog) : rlog[i].shard = s /\ Wanted(flt, rbase + i - 1, s)}
<1>2. /\ a \in Nat /\ rbase <= a /\ a <= LogEnd
      /\ (IF rsnap = None THEN << >> ELSE rsnap.shards[s]) = After(log, s, a)
  <2>1. CASE rsnap = None
    BY <1>0, <2>1, AfterNone DEF RestoreRefused
  <2>2. CASE rsnap # None
    <3>1. rsnap.anchors \in Anchors /\ rsnap.anchors # None
      BY <2>2, ReplicationAssumption DEF TypeOK, Snapshots
    <3>2. a = rsnap.anchors[s] /\ rsnap.shards[s] = After(log, s, rsnap.anchors[s])
      BY <2>2 DEF DiskInv
    <3>3. /\ FirstAnchor(rsnap.anchors) \in Nat /\ LastAnchor(rsnap.anchors) \in Nat
          /\ FirstAnchor(rsnap.anchors) <= a /\ a <= LastAnchor(rsnap.anchors) /\ a \in Nat
      BY <3>1, <3>2, AnchorBounds, ReplicationAssumption DEF Anchors, Positions
    <3>4. rbase <= FirstAnchor(rsnap.anchors) /\ LastAnchor(rsnap.anchors) <= LogEnd
      BY <1>0, <2>2, <3>3 DEF RestoreRefused, Incomplete
    <3>5. rbase <= a /\ a <= LogEnd
      BY <1>0, <3>3, <3>4
    <3>6. QED BY <2>2, <3>2, <3>3, <3>5
  <2>3. QED BY <2>1, <2>2
<1>3. ASSUME NEW i \in 1 .. Len(rlog)
      PROVE  i \in D <=> rlog[i].shard = s /\ rbase + i - 1 >= a
  <2>1. Wanted(flt, rbase + i - 1, s) <=> rbase + i - 1 >= a
    <3>1. CASE rsnap = None
      BY <1>0, <3>1 DEF Wanted
    <3>2. CASE rsnap # None
      BY <3>2, ReplicationAssumption DEF Wanted, TypeOK, Snapshots
    <3>3. QED BY <3>1, <3>2
  <2>2. QED BY <2>1
<1>4. Restored(s) = Select(After(log, s, a), rlog, D, Len(rlog))
  BY <1>2 DEF Restored
<1> HIDE DEF D, a, flt
<1>5. Select(After(log, s, a), rlog, D, Len(rlog)) = After(log, s, rbase + Len(rlog))
  <2>1. TakenFrom(D, rlog, s, rbase, a)
    BY <1>3, Zenon DEF TakenFrom
  <2>2. Stretch(rlog, log, rbase)
    BY <1>1, Zenon DEF Stretch
  <2>3. a <= rbase + Len(rlog)
    BY <1>0, <1>2
  <2>4. QED BY <1>0, <1>2, <2>1, <2>2, <2>3, Replay
<1>6. QED BY <1>0, <1>1, <1>4, <1>5

\* Outside a window, with the history known, the shards are what the leader's
\* log says at the end of the replica's own.
LEMMA DataAtEnd ==
  ASSUME TypeOK, PhaseInv, LogInv, DataInv, Kept, Known, ~InWindow,
         LogEnd >= oldest \/ phase = "stream"
  PROVE  /\ LogEnd <= Len(log)
         /\ \A s \in Shards : Upto(s) = LogEnd /\ ks[s] = After(log, s, LogEnd)
<1>1. \A s \in Shards : Upto(s) = LogEnd
  BY UptoEnd DEF LogInv
<1>2. \A s \in Shards : Upto(s) <= Len(log) /\ ks[s] = After(log, s, Upto(s))
  BY DEF DataInv
<1>3. LogEnd <= Len(log)
  BY DEF LogInv, Matches
<1>4. QED BY <1>1, <1>2, <1>3

\* Every step keeps each shard what the leader's log says.
LEMMA DataStep ==
  ASSUME TypeOK, TypeOK', IdInv, PhaseInv, LeaderInv, LogInv, DataInv, BodyInv, SwitchInv,
         FileInv, WindowInv, DiskInv, StartInv, Next, Hard = {}
  PROVE  DataInv'
<1> USE DEF leader, memory, files
<1> SUFFICES ASSUME Kept', Known', LogEnd' >= oldest' \/ phase' = "stream", NEW s \in Shards
             PROVE  Upto(s)' <= Len(log') /\ ks'[s] = After(log', s, Upto(s)')
  BY DEF DataInv
<1>0. /\ NoId \notin Nat /\ runid \in Nat /\ LogEnd \in Nat /\ Len(log) \in Nat
      /\ oldest \in Nat /\ offset \in Nat
  BY EndIs, ReplicationAssumption, SMTT(30) DEF TypeOK
<1>1. CASE LeaderWrite
  <2>1. /\ UNCHANGED <<oldest, runid, replID, leaderID, phase, conn, own, ks, filter, rbase, rlog>>
        /\ rfailed' = rfailed /\ LogEnd' = LogEnd /\ Upto(s)' = Upto(s)
    BY <1>1 DEF LeaderWrite, LogEnd, Upto
  <2>2. Known /\ Kept
    BY <2>1, KnownIs, KnownNext DEF Kept
  <2>3. Upto(s) <= Len(log) /\ ks[s] = After(log, s, Upto(s)) /\ Upto(s) \in Nat
    <3>1. Upto(s) \in Nat
      BY UptoType
    <3>2. LogEnd >= oldest \/ phase = "stream"
      BY <2>1
    <3>3. QED BY <2>2, <3>1, <3>2 DEF DataInv
  <2>4. After(log', s, Upto(s)) = After(log, s, Upto(s))
    BY <1>1, <2>3, AfterWrite
  <2>5. Len(log') = Len(log) + 1
    BY <1>1, LogGrows
  <2>6. QED BY <1>0, <2>1, <2>3, <2>4, <2>5
<1>2. CASE LeaderSnapshot
  <2>1. UNCHANGED <<log, runid, replID, leaderID, phase, conn, own, ks, filter, rbase, rlog, rfailed>>
    BY <1>2 DEF LeaderSnapshot
  <2>2. Known /\ Kept /\ Upto(s)' = Upto(s) /\ LogEnd' = LogEnd
    BY <2>1, KnownIs, KnownNext DEF Kept, Upto, LogEnd
  <2>3. LogEnd >= oldest \/ phase = "stream"
    BY <1>0, <1>2, <2>1, <2>2, OldestGrows
  <2>4. QED BY <2>1, <2>2, <2>3 DEF DataInv
<1>3. CASE LeaderRestart
  <2>1. runid' = runid + 1 /\ replID' = replID /\ leaderID' = leaderID
    BY <1>3 DEF LeaderRestart
  <2>2. ~Known'
    BY <2>1, KnownNext, ReplicationAssumption, SMTT(30) DEF IdInv, TypeOK
  <2>3. QED BY <2>2
<1>4. CASE Continue
  <2>1. Known /\ Kept /\ phase = "down" /\ Offered.at >= oldest
    BY <1>0, <1>4 DEF Continue, Resumable, Known, Kept
  <2>2. Offered.at = LogEnd
    BY <1>0, <2>1, OfferIs, KnownIs DEF LogInv
  <2>3. ~InWindow /\ LogEnd >= oldest
    BY <2>1, <2>2 DEF InWindow, PhaseInv
  <2>4. LogEnd <= Len(log) /\ ks[s] = After(log, s, LogEnd)
    BY <2>1, <2>3, DataAtEnd
  <2>5. Upto(s)' = LogEnd /\ ks' = ks /\ log' = log
    BY <1>4 DEF Continue, Upto, LogEnd
  <2>6. QED BY <2>4, <2>5
<1>5. CASE \/ FullResync \/ LoadBody \/ Resets \/ RenameSnapshot \/ Crash \/ OwnWrite
           \/ ApplyFails \/ SwitchFails \/ ForgetLeader
  <2>1. ~(Kept' /\ Known')
    BY <1>5, NotKept
  <2>2. QED BY <2>1
<1>6. CASE StartStream
  <2>1. phase = "renamed" /\ replID = runid
    BY <1>6, KnownNext DEF StartStream, PhaseInv, Receiving
  <2>2. LogEnd = FirstAnchor(incoming) /\ LogEnd' = LogEnd
    BY <1>6, <2>1, ResetMatches DEF StartStream, LogEnd
  <2>3. incoming \in Anchors /\ incoming # None
    BY <2>1 DEF PhaseInv, Receiving, TypeOK
  <2>4. /\ incoming[s] <= Len(log) /\ ks[s] = After(log, s, incoming[s])
    BY <2>1 DEF BodyInv, Receiving, Contents
  <2>5. FirstAnchor(incoming) <= incoming[s] /\ incoming[s] \in Nat
    BY <2>3, AnchorBounds, ReplicationAssumption DEF Anchors, Positions
  <2>6. filter' = incoming /\ ks' = ks /\ log' = log
    BY <1>6 DEF StartStream
  <2>7. Upto(s)' = incoming[s]
    <3>1. incoming[s] <= LogEnd' => incoming[s] = LogEnd'
      BY <1>0, <2>2, <2>5
    <3>2. QED BY <2>3, <2>6, <3>1 DEF Upto
  <2>8. QED BY <2>4, <2>6, <2>7
<1>7. CASE ApplyStreamed
  <2>1. Kept /\ Known /\ phase = "stream" /\ log' = log
    BY <1>7, Connected DEF ApplyStreamed
  <2>2. LogEnd = offset /\ LogEnd' = LogEnd + 1
    BY <1>7, <2>1, StreamNext DEF LogInv
  <2>3. Upto(s) <= Len(log) /\ ks[s] = After(log, s, Upto(s))
    BY <2>1 DEF DataInv
  <2>4. QED BY <1>7, <2>1, <2>2, <2>3, ApplyKeeps
<1>8. CASE LinkLost
  <2>1. Known /\ Kept /\ LogEnd' = LogEnd /\ ~rfailed
    BY <1>8, KnownIs, KnownNext DEF LinkLost, SessionOver, Kept, LogEnd
  <2>2. oldest' = oldest /\ phase' = "down" /\ filter' = None /\ ks' = ks /\ log' = log
    BY <1>8 DEF LinkLost
  <2>3. ~conn
    <3>1. ~(phase = "stream" /\ offset < oldest)
      BY <1>0, <2>1, <2>2 DEF LogInv
    <3>2. QED BY <1>8, <2>1, <3>1 DEF LinkLost, SessionOver
  <2>4. ~InWindow
    BY <2>1, <2>3 DEF WindowInv
  <2>5. LogEnd <= Len(log) /\ ks[s] = After(log, s, LogEnd)
    BY <2>1, <2>2, <2>4, DataAtEnd
  <2>6. Upto(s)' = LogEnd
    BY <2>1, <2>2 DEF Upto
  <2>7. QED BY <2>2, <2>5, <2>6
<1>9. CASE Restore
  <2>1. phase = "crashed" /\ replID = NoId /\ replID' = NoId /\ ~RestoreRefused /\ filter = None
    BY <1>9 DEF Restore, PhaseInv, FileInv, StartInv
  <2>2. leaderID' = runid /\ leaderID' # NoId
    BY <1>0, <1>9, <2>1, KnownNext DEF Restore
  <2>3. /\ leaderID = runid /\ UNCHANGED <<log, oldest, filter, rbase, rlog>>
        /\ phase' = "down" /\ ~Incomplete /\ ks' = [t \in Shards |-> Restored(t)]
    BY <1>9, <2>1, <2>2 DEF Restore, Kept
  <2>4. ~own
    BY <2>1, <2>3 DEF PhaseInv
  <2>5. LogEnd' = LogEnd /\ Upto(s)' = LogEnd /\ LogEnd >= oldest
    BY <2>1, <2>3 DEF LogEnd, Upto
  <2>6. LogEnd <= Len(log) /\ Restored(s) = After(log, s, LogEnd)
    BY <2>1, <2>3, <2>4, <2>5, RestoreKeeps
  <2>7. QED BY <2>3, <2>5, <2>6
<1>10. CASE Drop
  <2>1. /\ UNCHANGED <<log, oldest, runid, replID, leaderID, phase, own, ks, filter, rbase, rlog>>
        /\ conn /\ rfailed' = rfailed
    BY <1>10 DEF Drop
  <2>2. Upto(s)' = Upto(s) /\ LogEnd' = LogEnd
    BY <2>1 DEF Upto, LogEnd
  <2>3. CASE phase = "body"
    <3>1. Faithful
      BY <1>10, <2>3, Spared
    <3>2. filter = None
      BY <2>3 DEF PhaseInv
    <3>3. Upto(s) = LogEnd
      BY <3>2 DEF Upto
    <3>4. LogEnd <= Len(log) /\ ks[s] = After(log, s, LogEnd)
      BY <3>1 DEF Faithful
    <3>5. QED BY <2>1, <2>2, <3>3, <3>4
  <2>4. CASE phase # "body"
    <3>1. Known /\ Kept
      BY <2>1, <2>4, KnownIs, KnownNext DEF Kept
    <3>2. QED BY <2>1, <2>2, <3>1 DEF DataInv
  <2>5. QED BY <2>3, <2>4
<1>11. CASE OwnSnapshot
  <2>1. UNCHANGED <<log, oldest, runid, replID, leaderID, phase, own, conn, ks, filter, rfailed>>
    BY <1>11 DEF OwnSnapshot
  <2>2. Known /\ Kept
    BY <2>1, KnownIs, KnownNext DEF Kept
  <2>3. LogEnd' = LogEnd
    BY <1>11, EndIs DEF OwnSnapshot, LogEnd
  <2>4. Upto(s)' = Upto(s)
    BY <2>1, <2>3 DEF Upto
  <2>5. QED BY <2>1, <2>2, <2>3, <2>4 DEF DataInv
<1>12. CASE Promote
  <2>1. leaderID = runid /\ ~own
    BY <1>0, <1>12, KnownNext DEF Promote, Kept
  <2>2. Known /\ Kept /\ ~InWindow
    BY <1>12, <2>1, OnDiskKnown, Spared DEF Promote, Kept
  <2>3. UNCHANGED <<log, oldest, ks>> /\ LogEnd' = LogEnd /\ filter' = None /\ phase' = "leader"
    BY <1>12 DEF Promote, LogEnd
  <2>4. LogEnd <= Len(log) /\ ks[s] = After(log, s, LogEnd)
    BY <2>2, <2>3, DataAtEnd
  <2>5. Upto(s)' = LogEnd
    BY <2>3 DEF Upto
  <2>6. QED BY <2>3, <2>4, <2>5
<1>13. CASE Follow
  <2>1. Known
    BY <1>13, KnownIs, KnownNext DEF Follow
  <2>2. Kept
    BY <1>0, <1>13, <2>1, KnownIs, Spared DEF Follow, PhaseInv, Kept
  <2>3. /\ UNCHANGED <<log, oldest, ks, filter>> /\ LogEnd' = LogEnd /\ phase' = "down"
        /\ Upto(s)' = Upto(s)
    BY <1>13 DEF Follow, LogEnd, Upto
  <2>4. QED BY <2>1, <2>2, <2>3 DEF DataInv
<1>14. CASE Ack
  <2>1. /\ UNCHANGED <<log, oldest, runid, replID, leaderID, phase, own, conn, ks, filter, rbase, rlog>>
        /\ rfailed' = rfailed
    BY <1>14 DEF Ack
  <2>2. Known /\ Kept /\ Upto(s)' = Upto(s) /\ LogEnd' = LogEnd
    BY <2>1, KnownIs, KnownNext DEF Kept, Upto, LogEnd
  <2>3. QED BY <2>1, <2>2 DEF DataInv
<1>15. QED
  BY <1>1, <1>2, <1>3, <1>4, <1>5, <1>6, <1>7, <1>8, <1>9, <1>10, <1>11, <1>12, <1>13, <1>14
  DEF Next, Session, Resets

-----------------------------------------------------------------------------
(***************************************************************************)
(* The received snapshot, and the replica's files.                         *)
(***************************************************************************)
LEMMA BodyStep ==
  ASSUME TypeOK, TypeOK', IdInv, PhaseInv, LeaderInv', BodyInv, Next
  PROVE  BodyInv'
<1> USE DEF leader, memory, files
<1> SUFFICES ASSUME Receiving', replID' = runid'
             PROVE  /\ \A s \in Shards : incoming'[s] <= Len(log')
                    /\ phase' # "body" => ks' = Contents(incoming)'
  BY DEF BodyInv
<1>0. NoId \notin Nat /\ runid \in Nat /\ Len(log) \in Nat
  BY ReplicationAssumption DEF TypeOK
<1>1. CASE LeaderWrite
  <2>1. /\ Receiving /\ replID = runid /\ UNCHANGED <<incoming, ks, phase>>
    BY <1>1 DEF LeaderWrite, Receiving
  <2>2. incoming \in Anchors
    BY <2>1 DEF PhaseInv, TypeOK
  <2>3. Len(log') = Len(log) + 1
    BY <1>1, LogGrows
  <2>4. ASSUME NEW s \in Shards
        PROVE  /\ incoming[s] <= Len(log')
               /\ After(log', s, incoming[s]) = After(log, s, incoming[s])
    <3>1. incoming[s] \in Nat /\ incoming[s] <= Len(log)
      BY <2>1, <2>2, ReplicationAssumption DEF Anchors, Positions, BodyInv
    <3>2. QED BY <1>0, <1>1, <2>3, <3>1, AfterWrite
  <2>5. phase # "body" => ks = Contents(incoming)
    BY <2>1 DEF BodyInv
  <2>6. Contents(incoming)' = Contents(incoming)
    BY <2>1, <2>4 DEF Contents
  <2>7. QED BY <2>1, <2>4, <2>5, <2>6
<1>2. CASE LeaderRestart
  BY <1>0, <1>2 DEF LeaderRestart, IdInv
<1>3. CASE FullResync
  <2>1. incoming' = snap' /\ phase' = "body" /\ log' = log
    BY <1>3 DEF FullResync
  <2>2. [s \in Shards |-> Len(log)] \in Anchors
    BY <1>0 DEF Anchors, Positions, TypeOK
  <2>3. snap' # None
    BY <1>3, <2>2, ReplicationAssumption DEF FullResync
  <2>4. \A s \in Shards : snap'[s] \in oldest' .. Len(log')
    BY <2>3 DEF LeaderInv
  <2>5. ASSUME NEW s \in Shards PROVE snap'[s] <= Len(log')
    <3>1. snap'[s] \in oldest' .. Len(log')
      BY <2>4
    <3>2. QED BY <3>1
  <2>6. QED BY <2>1, <2>5
<1>4. CASE LoadBody
  <2>1. /\ Receiving /\ replID = runid /\ UNCHANGED <<log, incoming>>
        /\ ks' = Contents(incoming)
    BY <1>4 DEF LoadBody, Receiving
  <2>2. Contents(incoming)' = Contents(incoming)
    BY <2>1 DEF Contents
  <2>3. QED BY <2>1, <2>2 DEF BodyInv
<1>5. CASE Resets \/ RenameSnapshot
  <2>1. /\ Receiving /\ phase # "body" /\ replID = runid /\ UNCHANGED <<log, incoming, ks>>
    BY <1>5, ResetIs DEF RenameSnapshot, Receiving
  <2>2. Contents(incoming)' = Contents(incoming)
    BY <2>1 DEF Contents
  <2>3. QED BY <2>1, <2>2 DEF BodyInv
<1>6. CASE UNCHANGED <<log, runid, replID, phase, incoming, ks>>
  BY <1>6 DEF BodyInv, Receiving, Contents
<1>7. CASE Continue \/ StartStream \/ ApplyStreamed \/ LinkLost \/ Restore \/ Crash
           \/ Promote \/ OwnWrite \/ Follow \/ ForgetLeader \/ ApplyFails \/ SwitchFails
  <2>1. ~Receiving'
    BY <1>7 DEF Continue, StartStream, ApplyStreamed, LinkLost, Restore, Crash, Promote,
       OwnWrite, Follow, ForgetLeader, ApplyFails, SwitchFails, Receiving
  <2>2. QED BY <2>1
<1>8. QED
  BY <1>1, <1>2, <1>3, <1>4, <1>5, <1>6, <1>7 DEF Next, Session, Resets, LeaderSnapshot, Ack,
     Drop, OwnSnapshot

\* A snapshot's shards are what the leader's log says at its anchors.
SnapshotSound(f) ==
  \A s \in Shards : f.anchors[s] <= Len(log) /\ f.shards[s] = After(log, s, f.anchors[s])

\* Every step keeps snapshot and log on disk true to their history.
LEMMA DiskStep ==
  ASSUME TypeOK, TypeOK', IdInv, PhaseInv, LeaderInv, LogInv, DataInv, BodyInv, SwitchInv,
         FileInv, DiskInv, StartInv, Next, Hard = {}
  PROVE  DiskInv'
<1> USE DEF leader, memory, files
<1> SUFFICES ASSUME leaderID' = runid', ~own', phase' # "reset"
             PROVE  /\ Matches'
                    /\ rsnap' # None /\ (LogEnd' >= oldest' \/ (phase' = "stream" /\ ~rfailed')) =>
                         SnapshotSound(rsnap)'
  BY DEF DiskInv, SnapshotSound
<1>0. /\ NoId \notin Nat /\ runid \in Nat /\ LogEnd \in Nat /\ Len(log) \in Nat
      /\ oldest \in Nat /\ offset \in Nat
  BY EndIs, ReplicationAssumption, SMTT(30) DEF TypeOK
<1>1. leaderID = runid /\ ~own /\ phase # "reset" =>
        /\ Matches
        /\ rsnap # None /\ (LogEnd >= oldest \/ (phase = "stream" /\ ~rfailed)) =>
             SnapshotSound(rsnap)
  BY DEF DiskInv, SnapshotSound
\* Steps that leave the files and the log alone, and do not enter the stream.
<1>2. CASE /\ UNCHANGED <<log, oldest, runid, leaderID, own, rsnap, rbase, rlog>>
           /\ phase # "reset"
           /\ phase' = "stream" /\ ~rfailed' => phase = "stream" /\ ~rfailed
  <2>1. LogEnd' = LogEnd
    BY <1>2 DEF LogEnd
  <2>2. QED BY <1>1, <1>2, <2>1 DEF Matches, SnapshotSound
<1>3. CASE LeaderWrite
  <2>1. /\ UNCHANGED <<oldest, runid, leaderID, own, rsnap, rbase, rlog, phase, rfailed>>
        /\ LogEnd' = LogEnd
    BY <1>3 DEF LeaderWrite, LogEnd
  <2>2. Len(log') = Len(log) + 1 /\ \A i \in 1 .. Len(log) : log'[i] = log[i]
    BY <1>3, LogGrows
  <2>3. Matches'
    BY <1>0, <1>1, <2>1, <2>2, MatchesMore
  <2>4. ASSUME rsnap' # None, LogEnd' >= oldest' \/ (phase' = "stream" /\ ~rfailed')
        PROVE  SnapshotSound(rsnap)'
    <3>1. rsnap # None /\ SnapshotSound(rsnap)
      BY <1>1, <2>1, <2>4
    <3>2. ASSUME NEW s \in Shards
          PROVE  /\ rsnap.anchors[s] <= Len(log')
                 /\ rsnap.shards[s] = After(log', s, rsnap.anchors[s])
      <4>1. rsnap.anchors[s] \in Nat
        BY <3>1, ReplicationAssumption DEF TypeOK, Snapshots, Anchors, Positions
      <4>2. rsnap.anchors[s] <= Len(log) /\ rsnap.shards[s] = After(log, s, rsnap.anchors[s])
        BY <3>1 DEF SnapshotSound
      <4>3. After(log', s, rsnap.anchors[s]) = After(log, s, rsnap.anchors[s])
        BY <1>3, <4>1, <4>2, AfterWrite
      <4>4. QED BY <1>0, <2>2, <4>1, <4>2, <4>3
    <3>3. QED BY <2>1, <3>2 DEF SnapshotSound
  <2>5. QED BY <2>3, <2>4
<1>4. CASE LeaderSnapshot
  <2>1. /\ UNCHANGED <<log, runid, leaderID, own, rsnap, rbase, rlog, phase, rfailed>>
        /\ LogEnd' = LogEnd
        /\ oldest <= oldest' /\ oldest' \in Nat
    BY <1>4, OldestGrows DEF LeaderSnapshot, LogEnd
  <2>2. LogEnd' >= oldest' => LogEnd >= oldest
    BY <1>0, <2>1
  <2>3. QED BY <1>1, <2>1, <2>2 DEF Matches, SnapshotSound
<1>5. CASE LeaderRestart
  BY <1>0, <1>5 DEF LeaderRestart, IdInv
<1>6. CASE Continue
  <2>1. CASE rfailed
    BY <1>2, <1>6, <2>1 DEF Continue
  <2>2. CASE ~rfailed
    <3>1. Known /\ Kept /\ Offered.at >= oldest /\ phase = "down"
      BY <1>0, <1>6, <2>2 DEF Continue, Resumable, Known, Kept
    <3>2. Offered.at = LogEnd
      BY <1>0, <3>1, OfferIs, KnownIs DEF LogInv
    <3>3. UNCHANGED <<log, oldest, runid, leaderID, own, rsnap, rbase, rlog>> /\ LogEnd >= oldest
      BY <1>6, <3>1, <3>2 DEF Continue
    <3>4. Matches /\ (rsnap # None => SnapshotSound(rsnap))
      BY <1>1, <3>1, <3>3
    <3>5. QED BY <3>3, <3>4 DEF Matches, SnapshotSound, LogEnd
  <2>3. QED BY <2>1, <2>2
<1>7. CASE FullResync \/ LoadBody \/ Ack \/ Drop
  <2>1. /\ UNCHANGED <<log, oldest, runid, leaderID, own, rsnap, rbase, rlog, rfailed>>
        /\ phase # "reset" /\ (phase' = "stream" => phase = "stream")
    BY <1>7 DEF FullResync, LoadBody, Ack, Drop
  <2>2. QED BY <1>2, <2>1
<1>8. CASE Resets
  <2>1. /\ UNCHANGED <<log, oldest, runid, leaderID, own, rsnap>>
        /\ phase \notin {"reset", "stream"} /\ phase' # "stream"
    BY <1>8, ResetIs
  <2>2. Matches
    BY <1>1, <2>1
  <2>3. CASE rbase' = 0 /\ rlog' = << >>
    <3>1. LogEnd' = 0
      BY <2>3 DEF LogEnd
    <3>2. Matches'
      BY <1>0, <2>1, <2>3, <3>1 DEF Matches
    <3>3. LogEnd' >= oldest' => LogEnd >= oldest
      BY <1>0, <2>1, <3>1
    <3>4. QED BY <1>1, <2>1, <3>2, <3>3 DEF SnapshotSound
  <2>4. CASE /\ LogEnd' = LogEnd
             /\ \E n \in 1 .. Len(rlog) :
                  rbase' = rbase + n /\ rlog' = SubSeq(rlog, n + 1, Len(rlog))
    <3>1. PICK n \in 1 .. Len(rlog) :
            rbase' = rbase + n /\ rlog' = SubSeq(rlog, n + 1, Len(rlog))
      BY <2>4
    <3>2. rlog \in Seq(Records) /\ Len(rlog) \in Nat /\ rbase \in Nat
      BY EndIs DEF TypeOK
    <3>3. Len(rlog') = Len(rlog) - n /\ \A i \in 1 .. Len(rlog) - n : rlog'[i] = rlog[i + n]
      BY <3>1, <3>2
    <3>4. ASSUME NEW i \in 1 .. Len(rlog') PROVE rlog'[i] = log[rbase' + i]
      <4>1. i + n \in 1 .. Len(rlog) /\ rbase' + i = rbase + (i + n)
        BY <3>1, <3>2, <3>3
      <4>2. rlog[i + n] = log[rbase + (i + n)]
        BY <2>2, <4>1 DEF Matches
      <4>3. QED BY <3>3, <4>1, <4>2
    <3>5. Matches'
      BY <2>1, <2>2, <2>4, <3>4 DEF Matches
    <3>6. QED BY <1>1, <2>1, <2>4, <3>5 DEF SnapshotSound
  <2>5. QED BY <1>8, <2>3, <2>4, ResetLog
<1>9. CASE RenameSnapshot
  <2>1. phase = "reset" /\ incoming \in Anchors /\ replID \in Nat
    BY <1>9 DEF RenameSnapshot, PhaseInv, Receiving, TypeOK
  <2>2. leaderID = runid /\ UNCHANGED <<log, rbase, rlog>>
    BY <1>9 DEF RenameSnapshot
  <2>3. replID = runid
    BY <1>0, <2>1, <2>2 DEF IdInv
  <2>4. rsnap' = [anchors |-> incoming, shards |-> ks]
    BY <1>9 DEF RenameSnapshot
  <2>5. /\ \A s \in Shards : incoming[s] <= Len(log)
        /\ ks = Contents(incoming)
    BY <2>1, <2>3 DEF BodyInv, Receiving
  <2>6. SnapshotSound(rsnap)'
    BY <2>2, <2>4, <2>5 DEF SnapshotSound, Contents
  <2>7. Matches'
    <3>1. rbase = FirstAnchor(incoming) /\ rlog = << >>
      BY <2>1 DEF SwitchInv
    <3>2. PICK s \in Shards : FirstAnchor(incoming) = incoming[s]
      BY <2>1, AnchorBounds
    <3>3. FirstAnchor(incoming) <= Len(log) /\ FirstAnchor(incoming) \in Nat
      BY <2>1, <2>5, <3>2, AnchorBounds, ReplicationAssumption DEF Positions
    <3>4. QED BY <2>2, <3>1, <3>3 DEF Matches, LogEnd
  <2>8. QED BY <2>6, <2>7
<1>10. CASE StartStream
  <2>1. phase = "renamed" /\ replID = runid /\ UNCHANGED <<log, rsnap, rbase, rlog>>
    BY <1>10 DEF StartStream
  <2>2. Matches
    BY <2>1, ResetMatches
  <2>3. rsnap = [anchors |-> incoming, shards |-> ks]
    BY <2>1 DEF SwitchInv
  <2>4. SnapshotSound(rsnap)
    BY <2>1, <2>3 DEF BodyInv, Receiving, Contents, SnapshotSound
  <2>5. QED BY <2>1, <2>2, <2>4 DEF Matches, SnapshotSound, LogEnd
<1>11. CASE ApplyStreamed
  <2>1. /\ UNCHANGED <<log, oldest, runid, leaderID, own, rsnap, phase>> /\ phase = "stream"
        /\ Kept /\ Known /\ ~rfailed
    BY <1>11, Connected DEF ApplyStreamed
  <2>2. LogEnd = offset /\ Matches
    BY <2>1 DEF LogInv
  <2>3. Matches'
    BY <1>11, <2>2, StreamNext
  <2>4. QED BY <1>1, <2>1, <2>3 DEF SnapshotSound
<1>12. CASE LinkLost
  <2>1. /\ UNCHANGED <<log, oldest, runid, leaderID, own, rsnap, rbase, rlog>>
        /\ phase # "reset" /\ phase' = "down"
    BY <1>12 DEF LinkLost, SessionOver
  <2>2. QED BY <1>2, <2>1
<1>13. CASE Restore
  <2>1. /\ UNCHANGED <<log, oldest, runid, leaderID, own, rsnap, rbase, rlog>>
        /\ phase = "crashed" /\ phase' # "stream"
    BY <1>13 DEF Restore
  <2>2. QED BY <1>2, <2>1
<1>14. CASE OwnSnapshot
  <2>1. /\ UNCHANGED <<log, oldest, runid, leaderID, own, phase, ks>>
        /\ phase \in {"stream", "leader"} /\ ~InWindow /\ ~rfailed
        /\ rsnap' = [anchors |-> [s \in Shards |-> LogEnd], shards |-> ks]
    BY <1>14, Spared DEF OwnSnapshot
  <2>2. Known /\ Kept
    BY <2>1, OnDiskKnown DEF Kept
  <2>3. LogEnd' = LogEnd
    BY <1>14, EndIs DEF OwnSnapshot, LogEnd
  <2>4. Matches
    BY <1>1, <2>1
  <2>5. Matches'
    <3>1. CASE rbase' = LogEnd /\ rlog' = << >>
      BY <2>1, <2>3, <2>4, <3>1 DEF Matches
    <3>2. CASE UNCHANGED <<rbase, rlog>>
      BY <2>1, <2>3, <2>4, <3>2 DEF Matches
    <3>3. QED BY <1>14, <3>1, <3>2 DEF OwnSnapshot
  <2>6. ASSUME LogEnd' >= oldest' \/ (phase' = "stream" /\ ~rfailed')
        PROVE  SnapshotSound(rsnap)'
    <3>1. LogEnd <= Len(log) /\ \A s \in Shards : ks[s] = After(log, s, LogEnd)
      BY <2>1, <2>2, <2>3, <2>6, DataAtEnd
    <3>2. QED BY <2>1, <3>1 DEF SnapshotSound
  <2>7. QED BY <2>5, <2>6
<1>15. CASE Crash
  <2>1. /\ UNCHANGED <<log, oldest, runid, leaderID, own, rsnap, rbase>>
        /\ phase # "reset" /\ phase' = "crashed"
    BY <1>15, Spared DEF Crash
  <2>2. PICK n \in 0 .. Len(rlog) : rlog' = SubSeq(rlog, 1, n)
    BY <1>15 DEF Crash
  <2>3. rlog \in Seq(Records) /\ Len(rlog) \in Nat /\ rbase \in Nat /\ LogEnd = rbase + Len(rlog)
    BY EndIs DEF TypeOK
  <2>4. Len(rlog') = n /\ \A i \in 1 .. n : rlog'[i] = rlog[i]
    BY <2>2, <2>3
  <2>5. LogEnd' = rbase + n /\ LogEnd' <= LogEnd
    BY <2>1, <2>3, <2>4 DEF LogEnd
  <2>6. Matches
    BY <1>1, <2>1
  <2>7. Matches'
    <3>1. LogEnd' <= Len(log')
      BY <1>0, <2>1, <2>3, <2>5, <2>6 DEF Matches
    <3>2. \A i \in 1 .. Len(rlog') : rlog'[i] = log[rbase + i]
      BY <2>3, <2>4, <2>6, SMTT(30) DEF Matches
    <3>3. QED BY <2>1, <3>1, <3>2 DEF Matches
  <2>8. LogEnd' >= oldest => LogEnd >= oldest
    BY <1>0, <2>3, <2>5
  <2>9. QED BY <1>1, <2>1, <2>7, <2>8 DEF SnapshotSound
<1>16. CASE Promote \/ Follow
  <2>1. /\ UNCHANGED <<log, oldest, runid, leaderID, own, rsnap, rbase, rlog>>
        /\ phase # "reset" /\ phase' # "stream"
    BY <1>16 DEF Promote, Follow
  <2>2. QED BY <1>2, <2>1
<1>17. CASE OwnWrite
  BY <1>17 DEF OwnWrite
<1>18. CASE ApplyFails
  <2>1. /\ UNCHANGED <<log, oldest, runid, leaderID, own, rsnap, rbase, phase>>
        /\ phase = "stream" /\ conn /\ rfailed'
        /\ offset \in oldest .. Len(log) - 1
        /\ rlog' = rlog \/ (~rfailed /\ rlog' = Append(rlog, log[offset + 1]))
    BY <1>18 DEF ApplyFails
  <2>2. CASE rlog' = rlog
    BY <1>2, <2>1, <2>2
  <2>3. CASE ~rfailed /\ rlog' = Append(rlog, log[offset + 1])
    <3>1. LogEnd = offset /\ Matches
      BY <2>1, <2>3, Connected DEF LogInv
    <3>2. Matches'
      BY <2>1, <2>3, <3>1, MatchesNext
    <3>3. QED BY <1>1, <2>1, <2>3, <3>2 DEF SnapshotSound
  <2>4. QED BY <2>1, <2>2, <2>3
<1>19. CASE SwitchFails
  <2>1. /\ UNCHANGED <<log, oldest, runid, leaderID, own, rsnap, rbase, rlog>>
        /\ phase # "reset" /\ phase' # "stream"
    BY <1>19, Spared DEF SwitchFails
  <2>2. QED BY <1>2, <2>1
<1>20. CASE ForgetLeader
  BY <1>0, <1>20 DEF ForgetLeader
<1>21. QED
  BY <1>3, <1>4, <1>5, <1>6, <1>7, <1>8, <1>9, <1>10, <1>11, <1>12, <1>13, <1>14, <1>15,
     <1>16, <1>17, <1>18, <1>19, <1>20 DEF Next, Session, Resets

-----------------------------------------------------------------------------
(***************************************************************************)
(* The invariant, and what follows from it.                                *)
(***************************************************************************)
LEMMA Start == Init => IInv
<1> SUFFICES ASSUME Init PROVE IInv
  OBVIOUS
<1>1. TypeOK /\ EndInv
  BY TypeStart
<1>2. /\ replID = NoId /\ leaderID = NoId /\ ~conn /\ phase = "down" /\ filter = None /\ ~own
      /\ snap = None /\ rsnap = None
  BY Zenon DEF Init
<1>3. runid = 1 /\ oldest = 0 /\ ack = 0 /\ offset = 0 /\ rbase = 0 /\ rfile = "whole" /\ NoId \notin Nat
  BY ReplicationAssumption DEF Init
<1>4. ~Known
  BY <1>1, <1>2, <1>3, KnownIs
<1>5. leaderID # runid
  BY <1>2, <1>3
<1>6. IdInv /\ LeaderInv
  BY <1>2, <1>3 DEF IdInv, LeaderInv
<1>7. PhaseInv /\ BodyInv /\ SwitchInv
  BY <1>2, <1>5 DEF PhaseInv, BodyInv, SwitchInv, Receiving
<1>8. AckInv /\ StartInv /\ FileInv
  BY <1>2, <1>3 DEF AckInv, StartInv, FileInv, RestoreRefused
<1>9. LogInv /\ DataInv /\ WindowInv /\ DiskInv
  BY <1>4, <1>5 DEF LogInv, DataInv, WindowInv, DiskInv
<1>10. QED BY <1>1, <1>6, <1>7, <1>8, <1>9 DEF IInv

\* The whole invariant is preserved.
LEMMA Step ==
  ASSUME Hard = {}, IInv, [Next]_vars
  PROVE  IInv'
<1>1. CASE Next
  <2>1. TypeOK' /\ EndInv'
    BY <1>1, TypeStep DEF IInv
  <2>2. IdInv' /\ PhaseInv'
    BY <1>1, <2>1, IdStep, PhaseStep DEF IInv
  <2>3. LeaderInv' /\ AckInv'
    BY <1>1, <2>1, LeaderStep, AckStep DEF IInv
  <2>4. SwitchInv' /\ FileInv' /\ StartInv' /\ WindowInv'
    BY <1>1, <2>1, SwitchStep, FileStep, StartStep, WindowStep DEF IInv
  <2>5. LogInv' /\ DataInv'
    BY <1>1, <2>1, LogStep, DataStep DEF IInv
  <2>6. BodyInv' /\ DiskInv'
    BY <1>1, <2>1, <2>3, BodyStep, DiskStep DEF IInv
  <2>7. QED BY <2>1, <2>2, <2>3, <2>4, <2>5, <2>6 DEF IInv
<1>2. CASE UNCHANGED vars
  <2> USE <1>2 DEF vars, leader, memory, files
  <2>1. TypeOK' /\ EndInv' /\ IdInv' /\ LeaderInv' /\ AckInv'
    BY DEF IInv, TypeOK, EndInv, IdInv, LeaderInv, AckInv, LogEnd
  <2>2. (Known' <=> Known) /\ (Kept' <=> Kept) /\ (Receiving' <=> Receiving) /\ LogEnd' = LogEnd
    BY <2>1, KnownIs, KnownNext DEF IInv, Kept, Receiving, LogEnd
  <2>3. PhaseInv' /\ SwitchInv' /\ FileInv' /\ StartInv'
    BY <2>2 DEF IInv, PhaseInv, SwitchInv, FileInv, StartInv, RestoreRefused
  <2>4. LogInv' /\ DataInv'
    BY <2>2 DEF IInv, LogInv, DataInv, Matches, Upto
  <2>5. BodyInv' /\ WindowInv' /\ DiskInv'
    BY <2>2 DEF IInv, BodyInv, WindowInv, DiskInv, Contents, InWindow, ComingWindow, Matches
  <2>6. QED BY <2>1, <2>3, <2>4, <2>5 DEF IInv
<1>3. QED BY <1>1, <1>2

\* A stream that is up: the shards, the log and the acknowledgement.
LEMMA InStream ==
  ASSUME IInv, phase = "stream", conn, ~rfailed
  PROVE  /\ LogEnd = offset /\ Matches
         /\ \A s \in Shards : /\ Upto(s) \in Nat /\ Upto(s) <= Len(log) /\ offset <= Upto(s)
                              /\ ks[s] = After(log, s, Upto(s))
<1>1. Known /\ Kept
  BY Connected DEF IInv
<1>2. LogEnd = offset /\ Matches /\ offset \in Nat
  BY <1>1 DEF IInv, LogInv, TypeOK
<1>3. ASSUME NEW s \in Shards
      PROVE  /\ Upto(s) \in Nat /\ Upto(s) <= Len(log) /\ offset <= Upto(s)
             /\ ks[s] = After(log, s, Upto(s))
  <2>1. Upto(s) <= Len(log) /\ ks[s] = After(log, s, Upto(s))
    BY <1>1 DEF IInv, DataInv
  <2>2. Upto(s) \in Nat
    BY UptoType DEF IInv
  <2>3. filter # None => filter[s] \in Nat
    BY ReplicationAssumption DEF IInv, TypeOK, Anchors, Positions
  <2>4. offset <= Upto(s)
    BY <1>2, <2>3 DEF Upto
  <2>5. QED BY <2>1, <2>2, <2>4
<1>4. QED BY <1>2, <1>3

\* The larger of two offsets.
LEMMA MaxOfTwo ==
  ASSUME NEW a \in Nat, NEW b \in Nat
  PROVE  Max({a, b}) = IF b <= a THEN a ELSE b
<1>1. Max({a, b}) \in {a, b} /\ \A y \in {a, b} : Max({a, b}) >= y
  <2>1. \E x \in {a, b} : \A y \in {a, b} : x >= y
    OBVIOUS
  <2>2. QED BY <2>1, Zenon DEF Max
<1>2. QED BY <1>1

\* And it says what makes the replica correct.
LEMMA Sound == IInv => ReplicaSound
<1> SUFFICES ASSUME IInv PROVE ReplicaSound
  OBVIOUS
<1>1. ASSUME ~rfailed PROVE StreamFaithful
  <2> SUFFICES ASSUME phase = "stream", conn, NEW s \in Shards
               PROVE  ks[s] = After(log, s, IF filter = None THEN offset
                                            ELSE Max({offset, filter[s]}))
    BY DEF StreamFaithful
  <2>1. LogEnd = offset /\ ks[s] = After(log, s, Upto(s))
    BY <1>1, InStream
  <2>2. CASE filter = None
    BY <2>1, <2>2 DEF Upto
  <2>3. CASE filter # None
    <3>1. offset \in Nat /\ filter[s] \in Nat
      BY <2>3, ReplicationAssumption DEF IInv, TypeOK, Anchors, Positions
    <3>2. Max({offset, filter[s]}) = Upto(s)
      BY <2>1, <2>3, <3>1, MaxOfTwo DEF Upto
    <3>3. QED BY <2>1, <2>3, <3>2
  <2>4. QED BY <2>2, <2>3
<1>2. ASSUME ~rfailed PROVE LogMatchesLeader
  BY <1>2, InStream DEF LogMatchesLeader, Matches
<1>3. ASSUME ~rfailed PROVE AckSound
  <2> SUFFICES ASSUME phase = "stream", conn, NEW s \in Shards
               PROVE  IsPrefix(After(log, s, ack), ks[s])
    BY DEF AckSound
  <2>1. Upto(s) \in Nat /\ Upto(s) <= Len(log) /\ offset <= Upto(s)
        /\ ks[s] = After(log, s, Upto(s))
    BY <1>3, InStream
  <2>2. ack \in Nat /\ ack <= offset /\ offset \in Nat /\ log \in Seq(Records)
    BY DEF IInv, TypeOK, AckInv
  <2>3. ack <= Upto(s)
    BY <2>1, <2>2
  <2>4. QED BY <2>1, <2>2, <2>3, AfterGrows
<1>4. QED BY <1>1, <1>2, <1>3 DEF IInv, ReplicaSound

\* The variables have their types in every reachable state, snapshots, filters
\* and files included.
THEOREM TypeCorrect ==
  ASSUME Hard = {}
  PROVE  Spec => []TypeOK
<1>1. IInv => TypeOK
  BY DEF IInv
<1>2. QED BY <1>1, Start, Step, PTL DEF Spec

\* A replica in the stream holds exactly the records before its offset, shard by
\* shard and in its log, and has acknowledged no more, as long as the process's
\* log takes what it is given, and again in the process after one whose log
\* failed: for any number of shards, records, snapshots, crashes, I/O errors and
\* reconnections, none of them one of the hard cases.
THEOREM StreamingIsSound ==
  ASSUME Hard = {}
  PROVE  Spec => []ReplicaSound
<1>1. QED BY Sound, Start, Step, PTL DEF Spec

\* Start-up never refuses the replica's files: but inside a reset, whose crashes
\* are the case "switch", the log begins at or before the point its snapshot
\* starts from, or there is none.
THEOREM AlwaysStarts ==
  ASSUME Hard = {}
  PROVE  Spec => []NeverRefusesToStart
<1>1. IInv => NeverRefusesToStart
  BY DEF IInv, PhaseInv, NeverRefusesToStart
<1>2. QED BY <1>1, Start, Step, PTL DEF Spec

-----------------------------------------------------------------------------
(***************************************************************************)
(* Replication implements the attached copy.                               *)
(***************************************************************************)
LEMMA CopyAfter ==
  \A lg, s, n : Copy!After(lg, s, n) = After(lg, s, n)
BY DEF Copy!After, After, Copy!Select, Select

\* The abstract specification's operators are those used here.
LEMMA CopyPrefix ==
  \A u, v : Copy!IsPrefix(u, v) <=> IsPrefix(u, v)
BY DEF Copy!IsPrefix, IsPrefix

\* The abstract state is the shards of the log.
LEMMA CopyState ==
  \A lg, n : Copy!StateAt(lg, n) = [s \in Shards |-> After(lg, s, n)]
BY CopyAfter DEF Copy!StateAt

\* It begins empty.
LEMMA CopyEmpty == \A lg : Copy!StateAt(lg, 0) = Empty
BY CopyState, AfterNone DEF Empty

\* The copy's position and its data, as Replication says them.
At == IF InStep THEN offset ELSE Detached
Data == IF InStep THEN ks ELSE Empty

\* An attached copy is one of the leader's log.
AttachedInv ==
  InStep => /\ LogEnd = offset /\ offset \in 0 .. Len(log)
            /\ ks = Copy!StateAt(log, offset)
            /\ filter # None => \A s \in Shards : filter[s] <= offset

\* An attached replica holds what the abstract copy does.
LEMMA AttachedIs ==
  ASSUME IInv
  PROVE  AttachedInv
<1> SUFFICES ASSUME InStep
             PROVE  /\ LogEnd = offset /\ offset \in 0 .. Len(log)
                    /\ ks = Copy!StateAt(log, offset)
                    /\ filter # None => \A s \in Shards : filter[s] <= offset
  BY DEF AttachedInv
<1>1. phase = "stream" /\ conn /\ ~InWindow /\ ~rfailed
  BY DEF InStep
<1>2. LogEnd = offset /\ Kept /\ Known
  BY <1>1, InStream, Connected DEF IInv
<1>3. LogEnd <= Len(log) /\ \A s \in Shards : Upto(s) = LogEnd /\ ks[s] = After(log, s, LogEnd)
  BY <1>1, <1>2, DataAtEnd DEF IInv
<1>4. ks = [s \in Shards |-> After(log, s, offset)]
  BY <1>2, <1>3 DEF IInv, TypeOK
<1>5. offset \in Nat /\ Len(log) \in Nat
  BY DEF IInv, TypeOK
<1>6. ASSUME NEW s \in Shards, filter # None PROVE filter[s] <= offset
  <2>1. filter \in Anchors /\ ~(offset < LastAnchor(filter))
    BY <1>1, <1>6 DEF InWindow, IInv, TypeOK
  <2>2. LastAnchor(filter) \in Nat /\ filter[s] \in Nat /\ filter[s] <= LastAnchor(filter)
    BY <2>1, AnchorBounds, ReplicationAssumption DEF Anchors, Positions
  <2>3. QED BY <1>5, <2>1, <2>2
<1>7. QED BY <1>2, <1>3, <1>4, <1>5, <1>6, CopyState

\* Initial states map to initial states.
LEMMA CopyStart == Init => Copy!Init
<1> SUFFICES ASSUME Init PROVE Copy!Init
  OBVIOUS
<1>1. log = << >> /\ ~InStep
  BY DEF Init, InStep
<1>2. QED BY <1>1, CopyEmpty DEF Copy!Init

\* A step that writes no log: the copy attaches, detaches, or stays.
LEMMA QuietStep ==
  ASSUME AttachedInv', log' = log, InStep /\ InStep' => offset' = offset /\ ks' = ks
  PROVE  Copy!Next \/ UNCHANGED <<log, At, Data>>
<1>1. CASE ~InStep /\ ~InStep'
  BY <1>1 DEF At, Data, Empty
<1>2. CASE InStep /\ InStep'
  BY <1>2 DEF At, Data
<1>3. CASE InStep /\ ~InStep'
  <2>1. At' = Detached /\ Data' = Empty
    BY <1>3 DEF At, Data, Empty
  <2>2. Copy!Detach
    BY <1>3, <2>1, CopyEmpty DEF Copy!Detach, At, Data
  <2>3. QED BY <2>2 DEF Copy!Next
<1>4. CASE ~InStep /\ InStep'
  <2>1. offset' \in 0 .. Len(log) /\ ks' = Copy!StateAt(log, offset')
    <3>1. offset' \in 0 .. Len(log') /\ ks' = Copy!StateAt(log, offset)'
      BY <1>4 DEF AttachedInv
    <3>2. Copy!StateAt(log, offset)' = Copy!StateAt(log', offset')
      BY DEF Copy!StateAt, Copy!After, Copy!Select
    <3>3. QED BY <3>1, <3>2
  <2>2. Copy!Attach
    BY <1>4, <2>1 DEF Copy!Attach
  <2>3. QED BY <2>2 DEF Copy!Next
<1>5. QED BY <1>1, <1>2, <1>3, <1>4

\* Every step maps to a step of the abstract copy or to none.
LEMMA CopyStep ==
  ASSUME IInv, AttachedInv, AttachedInv', Next
  PROVE  Copy!Next \/ UNCHANGED <<log, At, Data>>
<1> USE DEF leader, memory, files
<1>1. CASE LeaderWrite
  <2>1. UNCHANGED <<At, Data>>
    BY <1>1 DEF LeaderWrite, At, Data, InStep, InWindow, LastAnchor, Empty
  <2>2. Len(log') = Len(log) + 1 /\ \A i \in 1 .. Len(log) : log[i] = log'[i]
    BY <1>1, LogGrows DEF IInv
  <2>3. log \in Seq(Records) /\ log' \in Seq(Records)
    <3>1. PICK s \in Shards : log' = Append(log, [shard |-> s, pos |-> Len(log), run |-> runid])
      BY <1>1 DEF LeaderWrite
    <3>2. log \in Seq(Records) /\ [shard |-> s, pos |-> Len(log), run |-> runid] \in Records
      BY DEF IInv, TypeOK, Records
    <3>3. QED BY <3>1, <3>2
  <2>4. IsPrefix(log, log')
    BY <2>2, <2>3, PrefixMeans
  <2>5. Copy!Write
    BY <2>1, <2>2, <2>4, CopyPrefix DEF Copy!Write, At, Data
  <2>6. QED BY <2>5 DEF Copy!Next
<1>2. CASE LeaderRestart
  <2>1. PICK n \in 0 .. Len(log) : log' = SubSeq(log, 1, n)
    BY <1>2, RestartLength DEF IInv
  <2>2. ~InStep'
    BY <1>2 DEF LeaderRestart, InStep
  <2>3. IsPrefix(log', log)
    <3>1. log \in Seq(Records) /\ Len(log) \in Nat
      BY DEF IInv, TypeOK
    <3>2. log' \in Seq(Records) /\ Len(log') = n /\ \A i \in 1 .. n : log'[i] = log[i]
      BY <2>1, <3>1
    <3>3. QED BY <3>1, <3>2, PrefixMeans
  <2>4. (IF InStep THEN offset ELSE Detached)' = Detached
    BY <2>2
  <2>5. (IF InStep THEN ks ELSE Empty)' = Copy!StateAt(<< >>, 0)
    BY <2>2, CopyEmpty DEF Empty
  <2>6. Copy!Restart
    BY <2>3, <2>4, <2>5, CopyPrefix DEF Copy!Restart
  <2>7. QED BY <2>6 DEF Copy!Next
<1>3. CASE ApplyStreamed
  <2>1. /\ phase = "stream" /\ conn /\ UNCHANGED <<log, phase, conn, filter, rfailed>>
        /\ offset' = offset + 1 /\ offset \in oldest .. Len(log) - 1
    BY <1>3 DEF ApplyStreamed
  <2>2. CASE ~InStep
    BY <2>1, <2>2, QuietStep
  <2>3. CASE InStep
    <3>1. offset \in Nat /\ offset < Len(log) /\ log \in Seq(Records) /\ offset # Detached
      BY <2>1, ReplicationAssumption DEF IInv, TypeOK
    <3>2. PICK r \in Records : r = log[offset + 1]
      BY <3>1
    <3>3. Wanted(filter, offset, r.shard)
      <4>1. r.shard \in Shards
        BY DEF Records
      <4>2. filter # None => filter[r.shard] <= offset /\ filter[r.shard] \in Nat
        BY <2>3, <4>1, ReplicationAssumption
        DEF AttachedInv, IInv, TypeOK, Anchors, Positions
      <4>3. QED BY <3>1, <4>2 DEF Wanted
    <3>4. ks' = [ks EXCEPT ![r.shard] = Append(@, r)]
      BY <1>3, <3>2, <3>3 DEF ApplyStreamed
    <3>5. InStep'
      <4>1. ~InWindow'
        <5>1. CASE filter = None
          BY <2>1, <5>1 DEF InWindow
        <5>2. CASE filter # None
          <6>1. filter \in Anchors /\ ~(offset < LastAnchor(filter))
            BY <2>3, <5>2 DEF InStep, InWindow, IInv, TypeOK
          <6>2. LastAnchor(filter) \in Nat
            BY <6>1, AnchorBounds, ReplicationAssumption DEF Positions
          <6>3. LastAnchor(filter)' = LastAnchor(filter)
            BY <2>1 DEF LastAnchor
          <6>4. QED BY <2>1, <3>1, <6>1, <6>2, <6>3 DEF InWindow
        <5>3. QED BY <5>1, <5>2
      <4>2. QED BY <2>1, <2>3, <4>1 DEF InStep
    <3>6. Copy!Advance
      BY <2>1, <2>3, <3>1, <3>2, <3>4, <3>5 DEF Copy!Advance
    <3>7. QED BY <3>6 DEF Copy!Next
  <2>4. QED BY <2>2, <2>3
<1>4. CASE Continue \/ StartStream
  <2>1. log' = log /\ ~InStep
    BY <1>4 DEF Continue, StartStream, InStep
  <2>2. QED BY <2>1, QuietStep
<1>5. CASE FullResync \/ LoadBody \/ Resets \/ RenameSnapshot \/ LinkLost \/ Restore
           \/ ForgetLeader \/ Drop \/ ApplyFails \/ SwitchFails \/ Crash \/ Promote
           \/ OwnWrite \/ Follow
  <2>1. log' = log /\ ~InStep'
    BY <1>5, ResetIs DEF FullResync, LoadBody, RenameSnapshot, LinkLost, Restore, ForgetLeader,
       Drop, ApplyFails, SwitchFails, Crash, Promote, OwnWrite, Follow, InStep
  <2>2. QED BY <2>1, QuietStep
<1>6. CASE LeaderSnapshot \/ Ack \/ OwnSnapshot
  <2>1. UNCHANGED <<log, offset, ks>>
    BY <1>6 DEF LeaderSnapshot, Ack, OwnSnapshot
  <2>2. QED BY <2>1, QuietStep
<1>7. QED
  BY <1>1, <1>2, <1>3, <1>4, <1>5, <1>6 DEF Next, Session, Resets

\* Replication implements the attached copy: whatever the session, the files and
\* the faults do, the replica is detached or holds the leader's log up to its
\* offset, and it moves only by attaching to such a state, by taking the next
\* record, or by detaching.  A log that fails detaches it until its process ends.
THEOREM ImplementsAttachedCopy ==
  ASSUME Hard = {}
  PROVE  Spec => CopyIsAttached
<1>1. Init => Copy!Init
  BY CopyStart
<1>2. IInv /\ AttachedInv /\ AttachedInv' /\ [Next]_vars =>
        [Copy!Next]_<<log, IF InStep THEN offset ELSE Detached, IF InStep THEN ks ELSE Empty>>
  <2> SUFFICES ASSUME IInv, AttachedInv, AttachedInv', [Next]_vars
               PROVE  Copy!Next \/ UNCHANGED <<log, At, Data>>
    BY DEF At, Data
  <2>1. CASE Next
    BY <2>1, CopyStep
  <2>2. CASE UNCHANGED vars
    BY <2>2, QuietStep DEF vars, leader, memory
  <2>3. QED BY <2>1, <2>2
<1>3. IInv => AttachedInv
  BY AttachedIs
<1>4. QED BY <1>1, <1>2, <1>3, Start, Step, PTL DEF Spec, CopyIsAttached, Copy!Spec
=============================================================================
