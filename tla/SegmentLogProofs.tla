-------------------------- MODULE SegmentLogProofs --------------------------
(***************************************************************************)
(* What SegmentLog promises for any number of writers, followers, records  *)
(* and segments.  DirInv says how the directory, the list of segments and  *)
(* the offset fit together, whatever fails; PrefixInv that what has been   *)
(* unlinked is a prefix of the stream, which holds as long as unlinking    *)
(* does not fail; FollowInv where a follower may be.                       *)
(***************************************************************************)
EXTENDS SegmentLog, WellFoundedInduction, TLAPS

Gone(q) == files[q].st = "gone"

\* Log.segs lists what its files say, the segment being written last.
ListInv ==
  /\ Cur \in DOMAIN segs
  /\ \A q \in DOMAIN segs :
       /\ q <= Cur
       /\ segs[q].base = files[q].base
       /\ q # Cur => segs[q].end = End(q)

\* Segment after segment, unlinked ones included, the files hold the stream up
\* to the offset; only a failed write leaves something beyond it.
MeetInv ==
  /\ files[1].base = 0
  /\ \A q \in 1 .. MaxSegs : q < Cur => End(q) = files[q + 1].base
  /\ \A p, q \in 1 .. MaxSegs : p < q /\ q <= Cur => End(p) <= files[q].base
  /\ files[Cur].base <= offset /\ offset <= End(Cur) /\ End(Cur) <= MaxOffset + 1
  /\ err # "io" => End(Cur) = offset

\* Beyond the current segment there is at most the file of a Roll that is under
\* way or has failed; it is empty, begins at the offset, and while it is there
\* nothing can be appended.
NextInv ==
  /\ \A q \in 1 .. MaxSegs :
       /\ q > Cur + 1 => files[q].st = "none"
       /\ q = Cur + 1 =>
            /\ ~Gone(q)
            /\ files[q].st # "none" =>
                 files[q].base = offset /\ files[q].size = 0 /\ err = "closed"
            /\ cpc = "create" => files[q].st = "none"
            /\ cpc = "header" => files[q].st = "bare"
  /\ cpc \in {"create", "header"} =>
       err = "closed" /\ Cur < MaxSegs /\ segs[Cur].end = offset

\* Only what ends below the committed snapshot's anchor is unlinked, and what
\* is not unlinked is listed.
KeptInv ==
  /\ needed <= files[Cur].base
  /\ \A q \in 1 .. Cur :
       /\ files[q].st \in {"ready", "gone"}
       /\ Gone(q) => End(q) <= needed /\ q # Cur
       /\ ~Gone(q) => q \in DOMAIN segs
       /\ cpc # "prune" /\ q \in DOMAIN segs => ~Gone(q)
  /\ todo \subseteq DOMAIN segs \ {Cur}
  /\ \A q \in todo : End(q) <= needed
  /\ cpc # "prune" => todo = {}

DirInv == ListInv /\ MeetInv /\ NextInv /\ KeptInv

\* Prune works from the oldest segment on.
PrefixInv ==
  /\ \A p, q \in 1 .. Cur : p < q /\ Gone(q) => Gone(p)
  /\ \A q \in todo, p \in 1 .. Cur : p < q => Gone(p) \/ p \in todo

\* A follower reads only what the offset covers.
BoundInv ==
  \A f \in Followers : off[f] <= offset /\ (fpc[f] = "read" => off[f] < offset)

\* The file a follower has been given holds the stretch of the stream it is in.
PlaceInv ==
  \A f \in Followers :
    fpc[f] \in {"open", "next", "read", "closed?", "take", "recheck", "select"} =>
      /\ fseg[f] <= Cur
      /\ files[fseg[f]].base <= off[f] /\ off[f] <= End(fseg[f])

-----------------------------------------------------------------------------
\* A nonempty set of numbers has a least element.
LEMMA LeastNat ==
  ASSUME NEW T, T \subseteq Nat, T # {}
  PROVE  \E x \in T : \A y \in T : x <= y
<1> DEFINE R == OpToRel(<, Nat)
<1>1. IsWellFoundedOn(R, Nat)
  BY NatLessThanWellFounded
<1>2. R = {ss \in Nat \X Nat : ss[1] < ss[2]}
  BY Zenon DEF OpToRel
<1> HIDE DEF R
<1>3. PICK x \in T : \A y \in T : ~(<<y, x>> \in R)
  BY <1>1, WFMin, Zenon
<1>4. ASSUME NEW y \in T PROVE x <= y
  <2>1. x \in Nat /\ y \in Nat
    OBVIOUS
  <2>2. <<y, x>> \in Nat \X Nat /\ <<y, x>>[1] = y /\ <<y, x>>[2] = x
    BY <2>1
  <2>3. ~(y < x)
    BY <1>2, <1>3, <1>4, <2>2
  <2>4. QED BY <2>1, <2>3
<1>5. QED BY <1>4

\* Min of a nonempty set of numbers is its least element.
LEMMA MinIs ==
  ASSUME NEW S, S \subseteq Nat, S # {}
  PROVE  Min(S) \in S /\ \A y \in S : Min(S) <= y
BY LeastNat DEF Min

\* Max of a set that has a greatest element.
LEMMA MaxIs ==
  ASSUME NEW S, S \subseteq Nat, NEW m \in S, \A y \in S : y <= m
  PROVE  Max(S) = m
<1>1. m \in S /\ \A y \in S : m >= y
  OBVIOUS
<1>2. Max(S) \in S /\ \A y \in S : Max(S) >= y
  BY <1>1, Zenon DEF Max
<1>3. Max(S) \in Nat /\ m \in Nat /\ Max(S) >= m /\ m >= Max(S)
  BY <1>1, <1>2
<1>4. QED BY <1>3

\* What a file's state is set to changes nothing else.
LEMMA MarkFile ==
  ASSUME TypeOK, NEW i \in 1 .. MaxSegs, NEW x \in FileState,
         files' = [files EXCEPT ![i].st = x]
  PROVE  /\ files' \in [1 .. MaxSegs -> [st : FileState, base : 0 .. MaxOffset,
                                         size : 0 .. MaxOffset + 1]]
         /\ \A q \in 1 .. MaxSegs :
              /\ files'[q].base = files[q].base /\ files'[q].size = files[q].size
              /\ files'[q].st = IF q = i THEN x ELSE files[q].st
<1> DEFINE N == 1 .. MaxSegs
           S == FileState
           B == 0 .. MaxOffset
           Z == 0 .. MaxOffset + 1
<1>1. files \in [N -> [st : S, base : B, size : Z]] /\ i \in N /\ x \in S
  BY DEF TypeOK
<1> HIDE DEF N, S, B, Z
<1>2. /\ files' \in [N -> [st : S, base : B, size : Z]]
      /\ \A q \in N :
              /\ files'[q].base = files[q].base /\ files'[q].size = files[q].size
              /\ files'[q].st = IF q = i THEN x ELSE files[q].st
  BY <1>1
<1>3. QED BY <1>2 DEF N, S, B, Z

\* Bases and ends are offsets.
LEMMA EndNat == TypeOK => \A q \in 1 .. MaxSegs : End(q) \in Nat /\ files[q].base \in Nat
BY SegmentLogAssumption DEF TypeOK, End

-----------------------------------------------------------------------------
(***************************************************************************)
(* The directory, whatever fails.                                          *)
(***************************************************************************)
LEMMA DirInit == Init => TypeOK /\ DirInv
<1> SUFFICES ASSUME Init PROVE TypeOK /\ DirInv
  OBVIOUS
<1> USE SegmentLogAssumption
<1>1. DOMAIN segs = {1} /\ segs[1] = [base |-> 0, end |-> 0]
  BY DEF Init
<1>2. Cur = 1
  BY <1>1, MaxIs DEF Cur
<1>3. \A q \in 1 .. MaxSegs :
        /\ files[q].base = 0 /\ files[q].size = 0
        /\ files[q].st = IF q = 1 THEN "ready" ELSE "none"
  BY DEF Init
<1>4. TypeOK
  <2>1. closed \in BOOLEAN /\ todo \subseteq 1 .. MaxSegs /\ signalled \subseteq Followers
    BY DEF Init
  <2>2. files \in [1 .. MaxSegs -> [st : FileState, base : 0 .. MaxOffset,
                                    size : 0 .. MaxOffset + 1]]
    <3>1. \A i \in 1 .. MaxSegs : (IF i = 1 THEN "ready" ELSE "none") \in FileState
      BY DEF FileState
    <3>2. 0 \in 0 .. MaxOffset /\ 0 \in 0 .. MaxOffset + 1
      OBVIOUS
    <3>3. QED BY <3>1, <3>2 DEF Init
  <2>3. /\ DOMAIN segs \subseteq 1 .. MaxSegs /\ DOMAIN segs # {}
        /\ segs \in [DOMAIN segs -> [base : 0 .. MaxOffset, end : 0 .. MaxOffset]]
    <3>1. segs \in [{1} -> [base : 0 .. MaxOffset, end : 0 .. MaxOffset]]
      BY DEF Init
    <3>2. {1} \subseteq 1 .. MaxSegs
      OBVIOUS
    <3>3. QED BY <1>1, <3>1, <3>2
  <2>4. QED BY <2>1, <2>2, <2>3 DEF Init, TypeOK
<1>5. ListInv
  <2>1. segs[1].base = 0
    BY DEF Init
  <2>2. 1 \in 1 .. MaxSegs
    OBVIOUS
  <2>3. files[1].base = 0
    BY <1>3, <2>2
  <2>4. QED BY <1>1, <1>2, <2>1, <2>3 DEF ListInv
<1>6. MeetInv
  BY <1>2, <1>3 DEF Init, MeetInv, End
<1>7. NextInv
  BY <1>2, <1>3 DEF Init, NextInv, Gone
<1>8. KeptInv
  BY <1>1, <1>2, <1>3 DEF Init, KeptInv, Gone
<1>9. QED BY <1>4, <1>5, <1>6, <1>7, <1>8 DEF DirInv

\* Nothing else is read by the invariant.
LEMMA DirFrame ==
  ASSUME DirInv, UNCHANGED <<files, segs, offset, err, cpc, todo, needed>>
  PROVE  DirInv'
<1>1. Cur' = Cur
  BY DEF Cur
<1>2. QED
  BY <1>1 DEF DirInv, ListInv, MeetInv, NextInv, KeptInv, End, Gone

\* An append, whole or torn, writes at the end of the current segment only.
LEMMA AppendDir ==
  ASSUME TypeOK, DirInv, NEW w \in Writers, LogAppend(w) \/ LogAppendFails(w)
  PROVE  TypeOK' /\ DirInv'
<1> USE SegmentLogAssumption
<1>1. PICK extra \in 0 .. 1 :
        /\ files' = [files EXCEPT ![Cur].size = @ + extra]
        /\ \/ extra = 1 /\ offset' = offset + 1 /\ offset < MaxOffset /\ err' = err
           \/ offset' = offset /\ err' = "io"
  BY DEF LogAppend, LogAppendFails
<1>2. /\ UNCHANGED <<segs, closed, signalled, cpc, todo, needed, fpc, off, limit, fseg>>
      /\ err = "none" /\ ~Exclusive
      /\ wpc' = wpc \/ wpc' = [wpc EXCEPT ![w] = "wake"]
  BY DEF LogAppend, LogAppendFails, compactVars, followVars
<1>3. Cur' = Cur /\ Cur \in 1 .. MaxSegs
  BY <1>2 DEF Cur, TypeOK, DirInv, ListInv
<1>4. /\ \A q \in 1 .. MaxSegs : q # Cur => files'[q] = files[q]
      /\ files'[Cur].st = files[Cur].st /\ files'[Cur].base = files[Cur].base
      /\ files'[Cur].size = files[Cur].size + extra
  BY <1>1, <1>3 DEF TypeOK
<1>5. files[Cur].base + files[Cur].size = offset
  BY <1>2 DEF DirInv, MeetInv, End
<1>6. TypeOK'
  <2>1. files' \in [1 .. MaxSegs -> [st : FileState, base : 0 .. MaxOffset,
                                     size : 0 .. MaxOffset + 1]]
    <3>1. files[Cur].size + extra \in 0 .. MaxOffset + 1
      BY <1>1, <1>3, <1>5, SMTT(30) DEF TypeOK
    <3>2. QED BY <1>1, <1>3, <3>1, ZenonT(30) DEF TypeOK
  <2>2. closed' \in BOOLEAN /\ wpc' \in [Writers -> {"idle", "wake"}]
    BY <1>2 DEF TypeOK
  <2>3. offset' \in 0 .. MaxOffset /\ err' \in {"none", "io", "closed"}
    BY <1>1, <1>2 DEF TypeOK
  <2>4. QED BY <1>2, <2>1, <2>2, <2>3 DEF TypeOK
<1>7. ListInv'
  BY <1>2, <1>3, <1>4 DEF DirInv, ListInv, End, TypeOK
<1>8. MeetInv'
  <2>1. \A q \in 1 .. MaxSegs :
          files'[q].base = files[q].base /\ (q # Cur => End(q)' = End(q))
    BY <1>3, <1>4 DEF End
  <2>2. \A q \in 1 .. MaxSegs : q < Cur => q + 1 \in 1 .. MaxSegs /\ q # Cur
    BY <1>3
  <2>3. /\ files'[1].base = 0
        /\ \A q \in 1 .. MaxSegs : q < Cur => End(q)' = files'[q + 1].base
    BY <2>1, <2>2 DEF DirInv, MeetInv
  <2>4. \A p, q \in 1 .. MaxSegs : p < q /\ q <= Cur => End(p)' <= files'[q].base
    BY <1>3, <2>1, <2>2 DEF DirInv, MeetInv
  <2>5. /\ files'[Cur].base <= offset' /\ offset' <= End(Cur)'
        /\ End(Cur)' <= MaxOffset + 1
        /\ err' # "io" => End(Cur)' = offset'
    <3>1. End(Cur)' = offset + extra
      BY <1>3, <1>4, <1>5 DEF End, TypeOK
    <3>2. files[Cur].base <= offset /\ files[Cur].base \in Nat /\ offset \in 0 .. MaxOffset
      BY <1>3 DEF DirInv, MeetInv, TypeOK
    <3>3. QED BY <1>1, <1>2, <1>4, <3>1, <3>2
  <2>6. QED BY <1>3, <2>3, <2>4, <2>5 DEF MeetInv
<1>9. NextInv'
  BY <1>1, <1>2, <1>3, <1>4 DEF DirInv, NextInv, Gone, TypeOK, Exclusive
<1>10. KeptInv'
  BY <1>1, <1>2, <1>3, <1>4, SMTT(30) DEF DirInv, KeptInv, Gone, End, TypeOK
<1>11. QED BY <1>6, <1>7, <1>8, <1>9, <1>10 DEF DirInv
\* Closing the current segment fixes its end at the offset.
LEMMA RollCloseDir ==
  ASSUME TypeOK, DirInv, RollClose
  PROVE  TypeOK' /\ DirInv'
<1> USE SegmentLogAssumption
<1>1. /\ UNCHANGED <<files, offset, closed, signalled, wpc, todo, needed, fpc, off,
                     limit, fseg>>
      /\ cpc = "idle" /\ err = "none" /\ Cur < MaxSegs
      /\ segs' = [segs EXCEPT ![Cur].end = offset] /\ err' = "closed" /\ cpc' = "create"
  BY DEF RollClose, followVars
<1>2. Cur \in 1 .. MaxSegs /\ Cur \in DOMAIN segs
  BY DEF TypeOK, DirInv, ListInv
<1>3. /\ DOMAIN segs' = DOMAIN segs
      /\ \A q \in DOMAIN segs : q # Cur => segs'[q] = segs[q]
      /\ segs'[Cur].base = segs[Cur].base /\ segs'[Cur].end = offset
  BY <1>1, <1>2 DEF TypeOK
<1>4. Cur' = Cur
  BY <1>3 DEF Cur
<1>5. TypeOK'
  <2>1. segs' \in [DOMAIN segs -> [base : 0 .. MaxOffset, end : 0 .. MaxOffset]]
    BY <1>1, <1>2 DEF TypeOK
  <2>2. closed' \in BOOLEAN
    BY <1>1 DEF TypeOK
  <2>3. QED BY <1>1, <1>3, <2>1, <2>2 DEF TypeOK
<1>6. ListInv'
  BY <1>1, <1>2, <1>3, <1>4 DEF DirInv, ListInv, End
<1>7. MeetInv'
  BY <1>1, <1>4 DEF DirInv, MeetInv, End
<1>8. NextInv'
  BY <1>1, <1>3, <1>4 DEF DirInv, NextInv, Gone
<1>9. KeptInv'
  BY <1>1, <1>3, <1>4 DEF DirInv, KeptInv, Gone, End
<1>10. QED BY <1>5, <1>6, <1>7, <1>8, <1>9 DEF DirInv

\* The file after the current one is created and headed, or left as it is.
LEMMA RollFileDir ==
  ASSUME TypeOK, DirInv, RollCreate \/ RollHeaderFails \/ RollCreateFails
  PROVE  TypeOK' /\ DirInv'
<1> USE SegmentLogAssumption
<1>1. /\ UNCHANGED <<segs, offset, err, closed, wpc, todo, needed, fpc, off, limit, fseg>>
      /\ cpc \in {"create", "header"} /\ signalled' \in {signalled, Followers}
      /\ cpc' \in {"idle", "header"}
  BY DEF RollCreate, RollHeaderFails, RollCreateFails, followVars, WakeAll
<1>2. /\ Cur \in 1 .. MaxSegs /\ Cur + 1 \in 1 .. MaxSegs
      /\ err = "closed"
  BY <1>1 DEF TypeOK, DirInv, ListInv, NextInv
<1>3. Cur' = Cur
  BY <1>1 DEF Cur
<1>4. \/ files' = files /\ cpc' = "idle"
      \/ files' = [files EXCEPT ![Cur + 1].st = "ready"] /\ cpc = "header" /\ cpc' = "idle"
      \/ /\ files' = [files EXCEPT ![Cur + 1] =
                        [st |-> "bare", base |-> offset, size |-> 0]]
         /\ cpc' = "header"
  BY DEF RollCreate, RollHeaderFails, RollCreateFails
<1>5. /\ \A q \in 1 .. MaxSegs : q # Cur + 1 => files'[q] = files[q]
      /\ files'[Cur + 1].st \in FileState \ {"gone"}
      /\ files'[Cur + 1].base \in 0 .. MaxOffset /\ files'[Cur + 1].size \in 0 .. MaxOffset + 1
      /\ files'[Cur + 1].st # "none" =>
           files'[Cur + 1].base = offset /\ files'[Cur + 1].size = 0
      /\ cpc' = "header" => files'[Cur + 1].st = "bare"
  <2>1. CASE files' = files /\ cpc' = "idle"
    BY <1>2, <2>1 DEF TypeOK, DirInv, NextInv, Gone
  <2>2. CASE files' = [files EXCEPT ![Cur + 1].st = "ready"] /\ cpc = "header" /\ cpc' = "idle"
    BY <1>2, <2>2, SMTT(30) DEF TypeOK, DirInv, NextInv, Gone, FileState
  <2>3. CASE files' = [files EXCEPT ![Cur + 1] =
                        [st |-> "bare", base |-> offset, size |-> 0]] /\ cpc' = "header"
    BY <1>2, <2>3 DEF TypeOK, DirInv, NextInv, Gone, FileState
  <2>4. QED BY <1>4, <2>1, <2>2, <2>3
<1>6. TypeOK'
  <2>1. files' \in [1 .. MaxSegs -> [st : FileState, base : 0 .. MaxOffset,
                                     size : 0 .. MaxOffset + 1]]
    <3>1. CASE files' = files
      BY <3>1 DEF TypeOK
    <3>2. CASE files' = [files EXCEPT ![Cur + 1].st = "ready"]
      <4>1. "ready" \in FileState
        BY DEF FileState
      <4>2. QED BY <1>2, <3>2, <4>1, MarkFile
    <3>3. CASE files' = [files EXCEPT ![Cur + 1] =
                           [st |-> "bare", base |-> offset, size |-> 0]]
      BY <1>2, <3>3, SMTT(30) DEF TypeOK, FileState
    <3>4. QED BY <1>4, <3>1, <3>2, <3>3
  <2>2. closed' \in BOOLEAN /\ signalled' \subseteq Followers
    BY <1>1 DEF TypeOK
  <2>3. QED BY <1>1, <2>1, <2>2 DEF TypeOK
<1>7. \A q \in 1 .. MaxSegs : q <= Cur => files'[q] = files[q] /\ End(q)' = End(q)
  BY <1>2, <1>5 DEF End
<1>8. ListInv'
  <2>1. \A q \in DOMAIN segs : q \in 1 .. MaxSegs /\ q <= Cur
    BY DEF TypeOK, DirInv, ListInv
  <2>2. QED BY <1>1, <1>3, <1>7, <2>1 DEF DirInv, ListInv
<1>9. MeetInv'
  <2>1. \A q \in 1 .. MaxSegs : q < Cur => q + 1 \in 1 .. MaxSegs /\ q <= Cur /\ q + 1 <= Cur
    BY <1>2
  <2>2. 1 \in 1 .. MaxSegs /\ 1 <= Cur
    BY <1>2
  <2>3. \A p, q \in 1 .. MaxSegs : p < q /\ q <= Cur => p <= Cur
    BY <1>2
  <2>4. files'[Cur] = files[Cur] /\ End(Cur)' = End(Cur)
    BY <1>2, <1>3, <1>7 DEF End
  <2>5. QED BY <1>1, <1>2, <1>3, <1>7, <2>1, <2>2, <2>3, <2>4 DEF DirInv, MeetInv
<1>10. NextInv'
  <2>1. \A q \in 1 .. MaxSegs : q > Cur + 1 => files'[q] = files[q] /\ files[q].st = "none"
    BY <1>2, <1>5 DEF DirInv, NextInv
  <2>2. cpc' # "create" /\ segs'[Cur].end = segs[Cur].end
    BY <1>1
  <2>3. cpc' = "header" => Cur < MaxSegs /\ segs[Cur].end = offset
    BY <1>1 DEF DirInv, NextInv
  <2>4. QED BY <1>1, <1>2, <1>3, <1>5, <2>1, <2>2, <2>3 DEF NextInv, Gone
<1>11. KeptInv'
  <2>1. \A q \in 1 .. Cur : q \in 1 .. MaxSegs /\ q <= Cur
    BY <1>2
  <2>2. \A q \in todo : q \in 1 .. MaxSegs /\ q <= Cur
    BY DEF TypeOK, DirInv, ListInv, KeptInv
  <2>3. QED BY <1>1, <1>2, <1>3, <1>7, <2>1, <2>2 DEF DirInv, KeptInv, Gone
<1>12. QED BY <1>6, <1>8, <1>9, <1>10, <1>11 DEF DirInv
\* A headed file becomes the current segment and begins where the last ended.
LEMMA RollHeaderDir ==
  ASSUME TypeOK, DirInv, RollHeader
  PROVE  TypeOK' /\ DirInv'
<1> USE SegmentLogAssumption
<1>0. PICK new : new = Cur + 1
  OBVIOUS
<1>1. /\ UNCHANGED <<offset, closed, wpc, todo, needed, fpc, off, limit, fseg>>
      /\ signalled' = Followers
      /\ cpc = "header" /\ cpc' = "rolled" /\ err' = "none"
      /\ files' = [files EXCEPT ![new].st = "ready"]
      /\ segs' = [q \in DOMAIN segs \cup {new} |->
                    IF q = new THEN [base |-> offset, end |-> offset] ELSE segs[q]]
  BY <1>0 DEF RollHeader, followVars, WakeAll
<1>2. /\ Cur \in 1 .. MaxSegs /\ Cur \in DOMAIN segs /\ new \in 1 .. MaxSegs
      /\ new = Cur + 1
      /\ segs[Cur].end = offset /\ err = "closed"
      /\ DOMAIN segs \subseteq 1 .. MaxSegs /\ \A q \in DOMAIN segs : q <= Cur
  BY <1>0, <1>1, SMTT(30) DEF TypeOK, DirInv, ListInv, NextInv
<1>3. /\ DOMAIN segs' = DOMAIN segs \cup {new}
      /\ \A q \in DOMAIN segs : q # new /\ segs'[q] = segs[q]
      /\ segs'[new].base = offset /\ segs'[new].end = offset
  BY <1>1, <1>2
<1>4. Cur' = new
  <2>1. DOMAIN segs' \subseteq Nat /\ new \in DOMAIN segs' /\ \A q \in DOMAIN segs' : q <= new
    BY <1>2, <1>3
  <2>2. QED BY <2>1, MaxIs DEF Cur
<1>5. /\ files' \in [1 .. MaxSegs -> [st : FileState, base : 0 .. MaxOffset,
                                      size : 0 .. MaxOffset + 1]]
      /\ \A q \in 1 .. MaxSegs :
           /\ files'[q].base = files[q].base /\ files'[q].size = files[q].size
           /\ files'[q].st = IF q = new THEN "ready" ELSE files[q].st
  <2>1. "ready" \in FileState
    BY DEF FileState
  <2>2. new \in 1 .. MaxSegs /\ files' = [files EXCEPT ![new].st = "ready"]
    BY <1>1, <1>2
  <2>3. QED BY <2>1, <2>2, MarkFile, Zenon
<1>6. \A q \in 1 .. MaxSegs : End(q)' = End(q)
  BY <1>5 DEF End
<1>7. files[new].base = offset /\ files[new].size = 0 /\ files[new].st = "bare"
  BY <1>1, <1>2 DEF DirInv, NextInv
<1>8. End(Cur) = offset /\ End(new) = offset
  BY <1>2, <1>7 DEF DirInv, MeetInv, End, TypeOK
<1>9. TypeOK'
  <2>1. segs' \in [DOMAIN segs' -> [base : 0 .. MaxOffset, end : 0 .. MaxOffset]]
    BY <1>1, <1>3 DEF TypeOK
  <2>2. DOMAIN segs' \subseteq 1 .. MaxSegs /\ DOMAIN segs' # {}
    BY <1>2, <1>3
  <2>3. closed' \in BOOLEAN
    BY <1>1 DEF TypeOK
  <2>4. QED BY <1>1, <1>5, <2>1, <2>2, <2>3 DEF TypeOK
<1>10. ListInv'
  <2>1. \A q \in DOMAIN segs : segs[q].base = files[q].base /\ segs[q].end = End(q)
    BY <1>2, <1>8 DEF DirInv, ListInv
  <2>2. \A q \in DOMAIN segs' :
          q <= new /\ segs'[q].base = files'[q].base /\ (q # new => segs'[q].end = End(q)')
    <3>1. ASSUME NEW q \in DOMAIN segs
          PROVE  q <= new /\ segs'[q].base = files'[q].base /\ segs'[q].end = End(q)'
      <4>1. q \in 1 .. MaxSegs /\ q <= Cur
        BY <1>2, <3>1
      <4>2. q <= new
        BY <1>2, <4>1
      <4>3. QED BY <1>3, <1>5, <1>6, <2>1, <3>1, <4>1, <4>2
    <3>2. new <= new /\ segs'[new].base = files'[new].base
      BY <1>2, <1>3, <1>5, <1>7
    <3>3. QED BY <1>3, <3>1, <3>2
  <2>3. QED BY <1>3, <1>4, <2>2 DEF ListInv
<1>11. MeetInv'
  <2>1. files'[1].base = 0
    BY <1>2, <1>5 DEF DirInv, MeetInv
  <2>2. \A q \in 1 .. MaxSegs : q < new => q + 1 \in 1 .. MaxSegs /\ (q = Cur \/ q < Cur)
    BY <1>2
  <2>3. \A q \in 1 .. MaxSegs : q < new => End(q)' = files'[q + 1].base
    BY <1>2, <1>5, <1>6, <1>7, <1>8, <2>2, ZenonT(30) DEF DirInv, MeetInv
  <2>4. \A p, q \in 1 .. MaxSegs : p < q /\ q <= new => End(p)' <= files'[q].base
    <3> SUFFICES ASSUME NEW p \in 1 .. MaxSegs, NEW q \in 1 .. MaxSegs, p < q, q <= new
                 PROVE  End(p) <= files[q].base
      BY <1>5, <1>6
    <3>1. CASE q <= Cur
      BY <3>1 DEF DirInv, MeetInv
    <3>2. CASE q = new /\ p = Cur
      BY <1>7, <1>8, <3>2 DEF TypeOK
    <3>3. CASE q = new /\ p < Cur
      <4>1. End(p) <= files[Cur].base /\ files[Cur].base <= offset
        BY <1>2, <3>3 DEF DirInv, MeetInv
      <4>2. End(p) \in Nat /\ files[Cur].base \in Nat /\ offset \in Nat
        <5>1. offset \in Nat
          BY DEF TypeOK
        <5>2. QED BY <1>2, <5>1, EndNat
      <4>3. QED BY <1>7, <3>3, <4>1, <4>2
    <3>4. QED BY <1>2, <3>1, <3>2, <3>3
  <2>5. End(new)' = offset
    BY <1>2, <1>6, <1>8
  <2>6. End(Cur)' = offset
    BY <1>2, <1>4, <1>5, <1>7, <2>5 DEF End, TypeOK
  <2>7. /\ files'[new].base = offset
        /\ offset \in 0 .. MaxOffset
    BY <1>2, <1>5, <1>7 DEF TypeOK
  <2>8. QED BY <1>1, <1>4, <2>1, <2>3, <2>4, <2>6, <2>7 DEF MeetInv
<1>12. NextInv'
  <2>1. \A q \in 1 .. MaxSegs : q >= new + 1 => q > Cur + 1 /\ q # new
    BY <1>2
  <2>2. \A q \in 1 .. MaxSegs : q >= new + 1 => files'[q].st = "none"
    BY <1>5, <2>1 DEF DirInv, NextInv
  <2>3. QED BY <1>1, <1>2, <1>4, <2>2 DEF NextInv, Gone
<1>13. KeptInv'
  <2>1. needed <= files'[new].base
    <3>1. needed <= files[Cur].base /\ files[Cur].base <= offset
      BY DEF DirInv, KeptInv, MeetInv
    <3>2. needed \in Nat /\ files[Cur].base \in Nat /\ offset \in Nat
      BY <1>2 DEF TypeOK
    <3>3. QED BY <1>2, <1>5, <1>7, <3>1, <3>2
  <2>2. \A q \in 1 .. new : q \in 1 .. MaxSegs /\ (q = new \/ q \in 1 .. Cur)
    BY <1>2
  <2>3. todo = {}
    BY <1>1 DEF DirInv, KeptInv
  <2>4. ASSUME NEW q \in 1 .. new
        PROVE  /\ files'[q].st \in {"ready", "gone"}
               /\ Gone(q)' => End(q)' <= needed /\ q # new
               /\ ~Gone(q)' => q \in DOMAIN segs'
               /\ q \in DOMAIN segs' => ~Gone(q)'
    <3>1. CASE q = new
      BY <1>2, <1>3, <1>5, <3>1 DEF Gone
    <3>2. CASE q \in 1 .. Cur
      BY <1>1, <1>2, <1>3, <1>5, <1>6, <2>2, <3>2 DEF DirInv, KeptInv, Gone
    <3>3. QED BY <2>2, <3>1, <3>2
  <2>5. QED BY <1>1, <1>4, <2>1, <2>3, <2>4 DEF KeptInv
<1>14. QED BY <1>9, <1>10, <1>11, <1>12, <1>13 DEF DirInv
\* Prune picks listed segments that end below the anchor.
LEMMA PruneBeginDir ==
  ASSUME TypeOK, DirInv, NEW below \in needed .. segs[Cur].base, PruneBegin(below)
  PROVE  TypeOK' /\ DirInv'
<1> USE SegmentLogAssumption
<1>1. /\ UNCHANGED <<files, segs, offset, err, closed, wpc, fpc, off, limit, fseg, signalled>>
      /\ cpc = "rolled" /\ cpc' = "prune" /\ needed' = below
      /\ todo' = {q \in DOMAIN segs \ {Cur} : segs[q].end <= below}
  BY DEF PruneBegin, logVars, followVars
<1>2. /\ Cur \in 1 .. MaxSegs /\ Cur \in DOMAIN segs /\ DOMAIN segs \subseteq 1 .. MaxSegs
      /\ segs[Cur].base = files[Cur].base
      /\ \A q \in DOMAIN segs \ {Cur} : segs[q].end = End(q)
  BY DEF TypeOK, DirInv, ListInv
<1>3. Cur' = Cur
  BY <1>1 DEF Cur
<1>4. below \in Nat /\ needed <= below /\ needed \in Nat /\ below <= files[Cur].base
      /\ below \in 0 .. MaxOffset
  <2>1. files[Cur].base \in 0 .. MaxOffset /\ needed \in 0 .. MaxOffset
    BY <1>2 DEF TypeOK
  <2>2. QED BY <1>2, <2>1
<1>5. TypeOK'
  <2>1. todo' \subseteq 1 .. MaxSegs
    BY <1>1, <1>2
  <2>2. closed' \in BOOLEAN
    BY <1>1 DEF TypeOK
  <2>3. QED BY <1>1, <1>4, <2>1, <2>2 DEF TypeOK
<1>6. ListInv' /\ MeetInv' /\ NextInv'
  BY <1>1, <1>3 DEF DirInv, ListInv, MeetInv, NextInv, End, Gone
<1>7. KeptInv'
  <2>1. \A q \in 1 .. Cur :
          /\ files[q].st \in {"ready", "gone"}
          /\ Gone(q) => End(q) <= needed /\ q # Cur
          /\ ~Gone(q) => q \in DOMAIN segs
    BY DEF DirInv, KeptInv
  <2>2. \A q \in 1 .. Cur : Gone(q) => End(q) <= below
    <3>1. \A q \in 1 .. Cur : End(q) \in Nat
      BY <1>2, EndNat
    <3>2. QED BY <1>4, <2>1, <3>1
  <2>3. \A q : End(q)' = End(q) /\ Gone(q)' = Gone(q)
    BY <1>1, <1>3 DEF End, Gone
  <2>4. todo' \subseteq DOMAIN segs \ {Cur} /\ \A q \in todo' : End(q) <= below
    BY <1>1, <1>2
  <2>5. QED BY <1>1, <1>3, <1>4, <2>1, <2>2, <2>3, <2>4 DEF KeptInv
<1>8. QED BY <1>5, <1>6, <1>7 DEF DirInv

\* What one turn of Prune's loop does to the files.
LEMMA PruneUnlinkMarks ==
  ASSUME TypeOK, DirInv, PruneUnlink
  PROVE  \E s \in todo :
           /\ \A q \in todo : s <= q
           /\ todo' = todo \ {s}
           /\ files' \in [1 .. MaxSegs -> [st : FileState, base : 0 .. MaxOffset,
                                           size : 0 .. MaxOffset + 1]]
           /\ \A q \in 1 .. MaxSegs :
                /\ files'[q].base = files[q].base /\ files'[q].size = files[q].size
                /\ q # s => files'[q].st = files[q].st
                /\ files'[s].st = "gone" \/ (RemoveErrors /\ files' = files)
<1>1. todo \subseteq Nat /\ todo # {} /\ todo \subseteq 1 .. MaxSegs
  BY SegmentLogAssumption DEF TypeOK, PruneUnlink
<1>2. PICK s \in todo : s = Min(todo) /\ \A q \in todo : s <= q
  BY <1>1, MinIs
<1>3. /\ todo' = todo \ {s}
      /\ files' = [files EXCEPT ![s].st = "gone"] \/ (RemoveErrors /\ files' = files)
  BY <1>2 DEF PruneUnlink
<1>4. s \in 1 .. MaxSegs /\ "gone" \in FileState
  BY <1>1 DEF FileState
<1>5. CASE files' = [files EXCEPT ![s].st = "gone"]
  <2>1. /\ files' \in [1 .. MaxSegs -> [st : FileState, base : 0 .. MaxOffset,
                                        size : 0 .. MaxOffset + 1]]
        /\ \A q \in 1 .. MaxSegs :
             /\ files'[q].base = files[q].base /\ files'[q].size = files[q].size
             /\ files'[q].st = IF q = s THEN "gone" ELSE files[q].st
    BY <1>4, <1>5, MarkFile, Zenon
  <2>2. files'[s].st = "gone" /\ \A q \in 1 .. MaxSegs : q # s => files'[q].st = files[q].st
    BY <1>4, <2>1
  <2>3. QED BY <1>2, <1>3, <2>1, <2>2
<1>6. CASE RemoveErrors /\ files' = files
  BY <1>2, <1>3, <1>6 DEF TypeOK
<1>7. QED BY <1>3, <1>5, <1>6

\* Unlinking removes a picked segment from the directory and the list.
LEMMA PruneUnlinkDir ==
  ASSUME TypeOK, DirInv, PruneUnlink
  PROVE  TypeOK' /\ DirInv'
<1> USE SegmentLogAssumption
<1>1. /\ UNCHANGED <<segs, offset, err, closed, wpc, cpc, needed, fpc, off, limit, fseg,
                     signalled>>
      /\ cpc = "prune"
  BY DEF PruneUnlink, followVars
<1>2. PICK s \in todo :
        /\ todo' = todo \ {s}
        /\ files' \in [1 .. MaxSegs -> [st : FileState, base : 0 .. MaxOffset,
                                        size : 0 .. MaxOffset + 1]]
        /\ \A q \in 1 .. MaxSegs :
             /\ files'[q].base = files[q].base /\ files'[q].size = files[q].size
             /\ q # s => files'[q].st = files[q].st
             /\ files'[s].st = "gone" \/ files' = files
  BY PruneUnlinkMarks
<1>3. Cur' = Cur /\ Cur \in 1 .. MaxSegs
  BY <1>1 DEF Cur, TypeOK, DirInv, ListInv
<1>4. s \in 1 .. MaxSegs /\ s < Cur /\ End(s) <= needed
  BY <1>3 DEF TypeOK, DirInv, ListInv, KeptInv
<1>5. \A q \in 1 .. MaxSegs : End(q)' = End(q)
  BY <1>2 DEF End
<1>6. TypeOK'
  <2>1. closed' \in BOOLEAN /\ todo' \subseteq 1 .. MaxSegs
    BY <1>1, <1>2 DEF TypeOK
  <2>2. QED BY <1>1, <1>2, <2>1 DEF TypeOK
<1>7. ListInv'
  <2>1. DOMAIN segs \subseteq 1 .. MaxSegs
    BY DEF TypeOK
  <2>2. QED BY <1>1, <1>2, <1>3, <1>5, <2>1 DEF DirInv, ListInv
<1>8. MeetInv'
  <2>1. \A q \in 1 .. MaxSegs : q < Cur => q + 1 \in 1 .. MaxSegs
    BY <1>3
  <2>2. 1 \in 1 .. MaxSegs
    OBVIOUS
  <2>3. End(Cur)' = End(Cur)
    BY <1>2, <1>3 DEF End
  <2>4. QED BY <1>1, <1>2, <1>3, <1>5, <2>1, <2>2, <2>3 DEF DirInv, MeetInv
<1>9. NextInv'
  <2>1. \A q \in 1 .. MaxSegs : q > Cur => q # s /\ files'[q].st = files[q].st
    BY <1>2, <1>3, <1>4
  <2>2. \A q \in 1 .. MaxSegs : q = Cur + 1 \/ q > Cur + 1 => q > Cur
    BY <1>3
  <2>3. QED BY <1>1, <1>2, <1>3, <2>1, <2>2 DEF DirInv, NextInv, Gone
<1>10. KeptInv'
  <2>1. \A q \in 1 .. Cur : q \in 1 .. MaxSegs
    BY <1>3
  <2>2. ASSUME NEW q \in 1 .. Cur
        PROVE  /\ files'[q].st \in {"ready", "gone"}
               /\ Gone(q)' => End(q)' <= needed /\ q # Cur
               /\ ~Gone(q)' => q \in DOMAIN segs
    <3>1. CASE q = s
      BY <1>2, <1>3, <1>4, <1>5, <2>1, <3>1 DEF DirInv, KeptInv, Gone
    <3>2. CASE q # s
      BY <1>2, <1>5, <2>1, <3>2 DEF DirInv, KeptInv, Gone
    <3>3. QED BY <3>1, <3>2
  <2>3. todo' \subseteq DOMAIN segs \ {Cur} /\ \A q \in todo' : End(q)' <= needed
    BY <1>2, <1>5 DEF DirInv, KeptInv, TypeOK
  <2>4. files'[Cur].base = files[Cur].base
    BY <1>2, <1>3
  <2>5. QED BY <1>1, <1>3, <2>2, <2>3, <2>4 DEF DirInv, KeptInv
<1>11. QED BY <1>6, <1>7, <1>8, <1>9, <1>10 DEF DirInv

\* Prune ends with nothing left to do.
LEMMA PruneEndDir ==
  ASSUME TypeOK, DirInv, PruneEnd
  PROVE  TypeOK' /\ DirInv'
<1> USE SegmentLogAssumption
<1>1. /\ UNCHANGED <<files, offset, err, closed, wpc, todo, needed, fpc, off, limit, fseg,
                     signalled>>
      /\ cpc = "prune" /\ cpc' = "idle" /\ todo = {}
      /\ segs' = [q \in {q \in DOMAIN segs : ~Gone(q)} |-> segs[q]]
  BY DEF PruneEnd, followVars, Restrict, Gone
<1>2. /\ Cur \in 1 .. MaxSegs /\ Cur \in DOMAIN segs /\ DOMAIN segs \subseteq 1 .. MaxSegs
      /\ ~Gone(Cur) /\ \A q \in DOMAIN segs : q <= Cur
  BY DEF TypeOK, DirInv, ListInv, KeptInv
<1>3. /\ DOMAIN segs' = {q \in DOMAIN segs : ~Gone(q)}
      /\ \A q \in DOMAIN segs' : q \in DOMAIN segs /\ ~Gone(q) /\ segs'[q] = segs[q]
      /\ Cur \in DOMAIN segs'
  BY <1>1, <1>2
<1>4. Cur' = Cur
  <2>1. DOMAIN segs' \subseteq Nat /\ \A q \in DOMAIN segs' : q <= Cur
    BY <1>2, <1>3
  <2>2. QED BY <1>3, <2>1, MaxIs DEF Cur
<1>5. TypeOK'
  <2>1. segs' \in [DOMAIN segs' -> [base : 0 .. MaxOffset, end : 0 .. MaxOffset]]
    BY <1>1, <1>3 DEF TypeOK
  <2>2. closed' \in BOOLEAN
    BY <1>1 DEF TypeOK
  <2>3. DOMAIN segs' \subseteq 1 .. MaxSegs /\ DOMAIN segs' # {}
    BY <1>2, <1>3
  <2>4. QED BY <1>1, <2>1, <2>2, <2>3 DEF TypeOK
<1>6. \A q : End(q)' = End(q) /\ Gone(q)' = Gone(q)
  BY <1>1 DEF End, Gone
<1>7. ListInv'
  BY <1>1, <1>3, <1>4, <1>6 DEF DirInv, ListInv
<1>8. MeetInv' /\ NextInv'
  BY <1>1, <1>3, <1>4 DEF DirInv, MeetInv, NextInv, End, Gone
<1>9. KeptInv'
  BY <1>1, <1>3, <1>4, <1>6 DEF DirInv, KeptInv
<1>10. QED BY <1>5, <1>7, <1>8, <1>9 DEF DirInv
-----------------------------------------------------------------------------
(***************************************************************************)
(* Followers.                                                              *)
(***************************************************************************)
\* A follower changes nothing but its own control, position and file.
LEMMA FollowType ==
  ASSUME TypeOK, DirInv, BoundInv, NEW f \in Followers, Follow(f)
  PROVE  /\ UNCHANGED <<files, segs, offset, err, closed, wpc, cpc, todo, needed>>
         /\ TypeOK' /\ BoundInv'
<1> USE SegmentLogAssumption
<1>1. UNCHANGED <<files, segs, offset, err, closed, wpc, cpc, todo, needed>>
  BY DEF Follow, FollowStart, FollowSeek, FollowOpen, FollowLimit, FollowRead,
         FollowClosed, FollowTake, FollowRecheck, FollowWoken, FollowCancelled,
         logVars, compactVars
<1>2. \E l \in {"next", "read", "seek", "open", "closed?", "take", "recheck", "select",
                "behind", "lost", "ended"} : fpc' = [fpc EXCEPT ![f] = l]
  BY DEF Follow, FollowStart, FollowSeek, FollowOpen, FollowLimit, FollowRead,
         FollowClosed, FollowTake, FollowRecheck, FollowWoken, FollowCancelled, Goto
<1>3. /\ off' \in [Followers -> 0 .. MaxOffset]
      /\ \A g \in Followers : off'[g] <= offset /\ (fpc'[g] = "read" => off'[g] < offset)
  <2> USE DEF TypeOK, BoundInv, Goto
  <2>1. CASE FollowStart(f)
    BY <2>1, SMTT(30) DEF FollowStart
  <2>2. CASE FollowRead(f)
    <3>1. off[f] < offset
      BY <2>2 DEF FollowRead
    <3>2. /\ off' = off \/ off' = [off EXCEPT ![f] = off[f] + 1]
          /\ fpc' = [fpc EXCEPT ![f] = "next"] \/ fpc' = [fpc EXCEPT ![f] = "seek"]
      BY <2>2 DEF FollowRead
    <3>3. off[f] + 1 \in 0 .. MaxOffset /\ off[f] + 1 <= offset
      BY <3>1, SMTT(30)
    <3>4. off' \in [Followers -> 0 .. MaxOffset] /\ \A g \in Followers : off'[g] <= offset
      <4>1. CASE off' = off
        BY <4>1
      <4>2. CASE off' = [off EXCEPT ![f] = off[f] + 1]
        BY <3>3, <4>2
      <4>3. QED BY <3>2, <4>1, <4>2
    <3>5. \A g \in Followers : fpc'[g] = "read" => g # f /\ fpc[g] = "read"
      BY <3>2
    <3>6. QED BY <3>2, <3>4, <3>5
  <2>3. CASE FollowLimit(f)
    BY <2>3 DEF FollowLimit
  <2>4. CASE FollowSeek(f) \/ FollowOpen(f) \/ FollowClosed(f) \/ FollowTake(f)
             \/ FollowRecheck(f) \/ FollowWoken(f) \/ FollowCancelled(f)
    <3>1. UNCHANGED off /\ \E l \in {"next", "open", "take", "recheck", "select",
                                     "behind", "lost", "ended"} : fpc' = [fpc EXCEPT ![f] = l]
      BY <2>4 DEF FollowSeek, FollowOpen, FollowClosed, FollowTake, FollowRecheck,
                  FollowWoken, FollowCancelled
    <3>2. QED BY <3>1
  <2>5. QED BY <2>1, <2>2, <2>3, <2>4 DEF Follow
<1>4. limit' \in [Followers -> 0 .. MaxOffset] /\ signalled' \subseteq Followers
  BY ZenonT(30) DEF TypeOK, Follow, FollowStart, FollowSeek, FollowOpen, FollowLimit, FollowRead,
         FollowClosed, FollowTake, FollowRecheck, FollowWoken, FollowCancelled
<1>5. fseg' \in [Followers -> 1 .. MaxSegs]
  <2>1. CASE FollowSeek(f)
    <3> DEFINE H == {q \in DOMAIN segs : q = Cur \/ off[f] < segs[q].end}
    <3>1. H \subseteq Nat /\ H \subseteq 1 .. MaxSegs /\ H # {}
      <4>1. DOMAIN segs \subseteq 1 .. MaxSegs
        BY DEF TypeOK
      <4>2. Cur \in H
        BY DEF DirInv, ListInv
      <4>3. QED BY <4>1, <4>2
    <3>2. Min(H) \in 1 .. MaxSegs
      BY <3>1, MinIs
    <3>3. fseg' = fseg \/ fseg' = [fseg EXCEPT ![f] = Min(H)]
      BY <2>1 DEF FollowSeek
    <3>4. QED BY <3>2, <3>3 DEF TypeOK
  <2>2. CASE ~FollowSeek(f)
    BY <2>2 DEF TypeOK, Follow, FollowStart, FollowOpen, FollowLimit, FollowRead,
         FollowClosed, FollowTake, FollowRecheck, FollowWoken, FollowCancelled
  <2>3. QED BY <2>1, <2>2
<1>6. TypeOK'
  <2>1. closed' \in BOOLEAN
    BY <1>1 DEF TypeOK
  <2>2. QED BY <1>1, <1>2, <1>3, <1>4, <1>5, <2>1 DEF TypeOK
<1>7. QED BY <1>1, <1>3, <1>6 DEF BoundInv

\* Whatever happens to the log, a follower is within its bounds.
LEMMA DirStep ==
  ASSUME TypeOK, DirInv, BoundInv, [Next]_vars
  PROVE  TypeOK' /\ DirInv' /\ BoundInv'
<1> USE SegmentLogAssumption
<1>1. ASSUME NEW f \in Followers, Follow(f) PROVE TypeOK' /\ DirInv' /\ BoundInv'
  BY <1>1, FollowType, DirFrame
<1>2. CASE ~\E f \in Followers : Follow(f)
  <2>1. UNCHANGED <<off, fpc>> /\ offset' >= offset /\ offset' \in Nat
    BY <1>2 DEF TypeOK, Next, AppendStep, LogAppend, LogAppendFails, LogWake, LogClose,
         Roll, RollClose, RollCreate, RollCreateFails, RollHeader, RollHeaderFails,
         RollRefused, Prune, PruneBegin, PruneUnlink, PruneEnd, logVars, followVars, vars
  <2>2. BoundInv'
    BY <2>1 DEF BoundInv, TypeOK
  <2>3. ASSUME NEW w \in Writers, LogAppend(w) \/ LogAppendFails(w) PROVE TypeOK' /\ DirInv'
    BY <2>3, AppendDir
  <2>4. ASSUME (\E w \in Writers : LogWake(w)) \/ LogClose \/ RollRefused
        PROVE TypeOK' /\ DirInv'
    <3>1. /\ UNCHANGED <<files, segs, offset, cpc, todo, needed, fpc, off, limit, fseg>>
          /\ signalled' = Followers
          /\ err' = err \/ (err = "none" /\ err' = "closed" /\ ~Exclusive)
      BY <2>4 DEF LogWake, LogClose, RollRefused, WakeAll, logVars, compactVars, followVars
    <3>2. closed' \in BOOLEAN /\ wpc' \in [Writers -> {"idle", "wake"}]
      BY <2>4 DEF LogWake, LogClose, RollRefused, TypeOK, logVars
    <3>3. TypeOK'
      BY <3>1, <3>2 DEF TypeOK
    <3>4. Cur' = Cur
      BY <3>1 DEF Cur
    <3>5. DirInv'
      BY <3>1, <3>4 DEF DirInv, ListInv, MeetInv, NextInv, KeptInv, End, Gone, Exclusive
    <3>6. QED BY <3>3, <3>5
  <2>5. CASE Roll
    BY <2>2, <2>4, <2>5, RollCloseDir, RollFileDir, RollHeaderDir DEF Roll
  <2>6. CASE Prune
    BY <2>2, <2>6, PruneBeginDir, PruneUnlinkDir, PruneEndDir DEF Prune
  <2>7. CASE UNCHANGED vars
    <3>1. UNCHANGED <<files, segs, offset, err, cpc, todo, needed>>
      BY <2>7 DEF vars
    <3>2. TypeOK'
      BY <2>7 DEF TypeOK, vars
    <3>3. QED BY <2>2, <3>1, <3>2, DirFrame
  <2>8. QED BY <1>2, <2>2, <2>3, <2>4, <2>5, <2>6, <2>7 DEF Next, AppendStep
<1>3. QED BY <1>1, <1>2

\* The variables have their types, and directory, list and offset fit together.
LEMMA DirCorrect == Spec => [](TypeOK /\ DirInv /\ BoundInv)
<1>1. Init => BoundInv
  BY SegmentLogAssumption DEF Init, BoundInv
<1>2. QED BY <1>1, DirInit, DirStep, PTL DEF Spec
-----------------------------------------------------------------------------
(***************************************************************************)
(* Unlinking from the oldest segment on.                                   *)
(***************************************************************************)
\* While Prune runs, whatever lies before a segment still to be unlinked is
\* gone or still to be unlinked too.
LEMMA PrefixStep ==
  ASSUME ~RemoveErrors, TypeOK, DirInv, PrefixInv, [Next]_vars
  PROVE  PrefixInv'
<1> USE SegmentLogAssumption
<1>0. /\ Cur \in 1 .. MaxSegs /\ Cur \in DOMAIN segs /\ DOMAIN segs \subseteq 1 .. MaxSegs
      /\ \A q \in DOMAIN segs : q <= Cur
      /\ \A q \in 1 .. Cur : q \in 1 .. MaxSegs
      /\ \A q \in DOMAIN segs \ {Cur} : segs[q].end = End(q)
  BY DEF TypeOK, DirInv, ListInv
<1>1. ASSUME Cur' = Cur, todo' \subseteq todo, \A q \in 1 .. Cur : Gone(q)' = Gone(q),
             todo' = todo \/ todo = {}
      PROVE  PrefixInv'
  BY <1>1 DEF PrefixInv
<1>2. ASSUME NEW w \in Writers, LogAppend(w) \/ LogAppendFails(w) PROVE PrefixInv'
  <2>1. UNCHANGED <<segs, todo>>
        /\ \E extra \in 0 .. 1 : files' = [files EXCEPT ![Cur].size = @ + extra]
    BY <1>2 DEF LogAppend, LogAppendFails, compactVars
  <2>2. Cur' = Cur
    BY <2>1 DEF Cur
  <2>3. \A q \in 1 .. MaxSegs : files'[q].st = files[q].st
    BY <1>0, <2>1 DEF TypeOK
  <2>4. QED BY <1>0, <1>1, <2>1, <2>2, <2>3 DEF Gone
<1>3. ASSUME UNCHANGED <<files, DOMAIN segs, todo>> PROVE PrefixInv'
  BY <1>3 DEF PrefixInv, Gone, Cur
<1>4. CASE RollClose
  <2>1. DOMAIN segs' = DOMAIN segs /\ UNCHANGED <<files, todo>>
    BY <1>4 DEF RollClose
  <2>2. QED BY <1>3, <2>1
<1>5. CASE RollCreate \/ RollCreateFails \/ RollHeaderFails
  <2>1. UNCHANGED <<segs, todo>>
    BY <1>5 DEF RollCreate, RollCreateFails, RollHeaderFails
  <2>2. Cur' = Cur
    BY <2>1 DEF Cur
  <2>3. \A q \in 1 .. Cur : files'[q] = files[q]
    <3>1. \A q \in 1 .. Cur : q # Cur + 1
      BY <1>0
    <3>2. QED BY <1>0, <1>5, <3>1 DEF RollCreate, RollCreateFails, RollHeaderFails, TypeOK
  <2>4. QED BY <1>1, <2>1, <2>2, <2>3 DEF Gone
<1>6. CASE RollHeader
  <2>0. PICK new : new = Cur + 1
    OBVIOUS
  <2>1. /\ DOMAIN segs' = DOMAIN segs \cup {new} /\ todo' = todo /\ todo = {}
        /\ files' = [files EXCEPT ![new].st = "ready"]
        /\ new \in 1 .. MaxSegs
    BY <1>0, <1>6, <2>0 DEF RollHeader, DirInv, KeptInv, NextInv
  <2>2. Cur' = new
    <3>1. DOMAIN segs' \subseteq Nat /\ new \in DOMAIN segs' /\ \A q \in DOMAIN segs' : q <= new
      BY <1>0, <2>0, <2>1
    <3>2. QED BY <3>1, MaxIs DEF Cur
  <2>3. "ready" \in FileState
    BY DEF FileState
  <2>4. \A q \in 1 .. MaxSegs : files'[q].st = IF q = new THEN "ready" ELSE files[q].st
    BY <2>1, <2>3, MarkFile, Zenon
  <2>5. \A q \in 1 .. new : q \in 1 .. MaxSegs /\ (q = new \/ q \in 1 .. Cur)
    <3>1. new \in 1 .. MaxSegs /\ Cur \in Nat
      BY <1>0, <2>1
    <3>2. QED BY <2>0, <3>1
  <2>6. \A p, q \in 1 .. new : p < q => p # new
    <3>1. new \in Nat
      BY <2>1
    <3>2. QED BY <3>1
  <2>7. \A p, q \in 1 .. new : p < q /\ Gone(q)' => Gone(p)'
    <3> SUFFICES ASSUME NEW p \in 1 .. new, NEW q \in 1 .. new, p < q, Gone(q)'
                 PROVE  Gone(p)'
      OBVIOUS
    <3>1. q # new /\ q \in 1 .. Cur /\ Gone(q)
      BY <2>4, <2>5 DEF Gone
    <3>2. p # new /\ p \in 1 .. Cur
      BY <2>5, <2>6
    <3>3. Gone(p)
      BY <3>1, <3>2 DEF PrefixInv
    <3>4. QED BY <2>4, <2>5, <3>2, <3>3 DEF Gone
  <2>8. QED BY <2>1, <2>2, <2>7 DEF PrefixInv
<1>7. ASSUME NEW below \in needed .. segs[Cur].base, PruneBegin(below) PROVE PrefixInv'
  <2>1. /\ UNCHANGED <<files, segs>> /\ cpc = "rolled"
        /\ todo' = {q \in DOMAIN segs \ {Cur} : segs[q].end <= below}
    BY <1>7 DEF PruneBegin, logVars
  <2>2. Cur' = Cur
    BY <2>1 DEF Cur
  <2>3. ASSUME NEW q \in todo', NEW p \in 1 .. Cur, p < q, ~Gone(p)
        PROVE  p \in todo'
    <3>1. /\ q \in DOMAIN segs \ {Cur} /\ q \in 1 .. MaxSegs /\ q <= Cur
          /\ p \in 1 .. MaxSegs /\ End(q) <= below
      BY <1>0, <2>1, <2>3
    <3>2. p \in DOMAIN segs /\ p # Cur
      BY <1>0, <2>3, <3>1 DEF DirInv, KeptInv
    <3>3. End(p) <= files[q].base
      BY <2>3, <3>1 DEF DirInv, MeetInv
    <3>4. files[q].base <= End(q) /\ files[q].base \in Nat /\ End(q) \in Nat /\ End(p) \in Nat
      <4>1. files[q].size \in Nat
        BY <3>1 DEF TypeOK
      <4>2. QED BY <3>1, <4>1, EndNat DEF End
    <3>5. below \in Int
      BY <1>7
    <3>6. End(p) <= below
      BY <3>1, <3>3, <3>4, <3>5
    <3>7. QED BY <1>0, <2>1, <3>2, <3>6
  <2>4. QED BY <2>1, <2>2, <2>3 DEF PrefixInv, Gone
<1>8. CASE PruneUnlink
  <2>1. PICK s \in todo :
          /\ \A q \in todo : s <= q
          /\ todo' = todo \ {s}
          /\ \A q \in 1 .. MaxSegs :
               /\ q # s => files'[q].st = files[q].st
               /\ files'[s].st = "gone"
    BY <1>8, PruneUnlinkMarks
  <2>2. UNCHANGED segs
    BY <1>8 DEF PruneUnlink
  <2>3. Cur' = Cur
    BY <2>2 DEF Cur
  <2>4. s \in 1 .. MaxSegs
    BY DEF TypeOK
  <2>5. Gone(s)' /\ \A q \in 1 .. MaxSegs : q # s => Gone(q)' = Gone(q)
    BY <2>1, <2>4 DEF Gone
  <2>6. \A p \in 1 .. Cur : p < s => Gone(p)
    <3>1. \A p \in 1 .. Cur : p < s => p \notin todo
      BY <1>0, <2>1, <2>4
    <3>2. QED BY <3>1 DEF PrefixInv
  <2>7. \A p, q \in 1 .. Cur : p < q /\ Gone(q)' => Gone(p)'
    BY <1>0, <2>5, <2>6 DEF PrefixInv
  <2>8. \A q \in todo', p \in 1 .. Cur : p < q => Gone(p)' \/ p \in todo'
    BY <1>0, <2>1, <2>5 DEF PrefixInv
  <2>9. QED BY <2>3, <2>7, <2>8 DEF PrefixInv
<1>9. CASE PruneEnd
  <2>1. UNCHANGED <<files, todo>> /\ Cur' = Cur
    <3>1. UNCHANGED <<files, todo>> /\ DOMAIN segs' = {q \in DOMAIN segs : ~Gone(q)}
      BY <1>9 DEF PruneEnd, Restrict, Gone
    <3>2. ~Gone(Cur)
      BY <1>0 DEF DirInv, KeptInv
    <3>3. DOMAIN segs' \subseteq Nat /\ Cur \in DOMAIN segs' /\ \A q \in DOMAIN segs' : q <= Cur
      BY <1>0, <3>1, <3>2
    <3>4. QED BY <3>1, <3>3, MaxIs DEF Cur
  <2>2. QED BY <1>1, <2>1 DEF Gone
<1>10. CASE (\E w \in Writers : LogWake(w)) \/ LogClose \/ RollRefused
            \/ (\E f \in Followers : Follow(f)) \/ UNCHANGED vars
  <2>1. UNCHANGED <<files, segs, todo>>
    BY <1>10 DEF LogWake, LogClose, RollRefused, Follow, FollowStart, FollowSeek,
       FollowOpen, FollowLimit, FollowRead, FollowClosed, FollowTake, FollowRecheck,
       FollowWoken, FollowCancelled, logVars, compactVars, vars
  <2>2. QED BY <1>3, <2>1
<1>11. QED
  BY <1>2, <1>4, <1>5, <1>6, <1>7, <1>8, <1>9, <1>10 DEF Next, AppendStep, Roll, Prune

\* Unlinking that does not fail removes the oldest segments first.
LEMMA PrefixCorrect == ASSUME ~RemoveErrors PROVE Spec => []PrefixInv
<1>1. Init => PrefixInv
  <2> SUFFICES ASSUME Init PROVE PrefixInv
    OBVIOUS
  <2>1. DOMAIN segs = {1} /\ todo = {}
    BY DEF Init
  <2>2. Cur = 1
    BY <2>1, MaxIs DEF Cur
  <2>3. QED BY <2>1, <2>2 DEF PrefixInv
<1>2. TypeOK /\ DirInv /\ BoundInv /\ PrefixInv /\ [Next]_vars => PrefixInv'
  BY PrefixStep
<1>3. QED BY <1>1, <1>2, DirCorrect, PTL DEF Spec
-----------------------------------------------------------------------------
(***************************************************************************)
(* A follower's file.                                                      *)
(***************************************************************************)
\* A file keeps its beginning, never shrinks, and stays where it is in the
\* stream.
LEMMA FilesGrow ==
  ASSUME TypeOK, DirInv, [Next]_vars
  PROVE  /\ Cur <= Cur'
         /\ \A q \in 1 .. Cur : files'[q].base = files[q].base /\ End(q) <= End(q)'
<1> USE SegmentLogAssumption
<1>0. /\ Cur \in 1 .. MaxSegs /\ Cur \in DOMAIN segs /\ DOMAIN segs \subseteq 1 .. MaxSegs
      /\ \A q \in DOMAIN segs : q <= Cur
      /\ \A q \in 1 .. Cur : q \in 1 .. MaxSegs /\ q # Cur + 1 /\ End(q) \in Nat
      /\ \A q \in 1 .. Cur : files[q].base \in Nat /\ files[q].size \in Nat
  <2>1. /\ Cur \in DOMAIN segs /\ DOMAIN segs \subseteq 1 .. MaxSegs
        /\ \A q \in DOMAIN segs : q <= Cur
        /\ \A q \in 1 .. MaxSegs : files[q].base \in Nat /\ files[q].size \in Nat
    BY DEF TypeOK, DirInv, ListInv
  <2>2. \A q \in 1 .. Cur : q \in 1 .. MaxSegs /\ q # Cur + 1
    BY <2>1
  <2>3. QED BY <2>1, <2>2, EndNat
<1>1. ASSUME UNCHANGED <<files, DOMAIN segs>>
      PROVE  Cur' = Cur /\ \A q \in 1 .. Cur : files'[q].base = files[q].base /\ End(q) <= End(q)'
  BY <1>0, <1>1 DEF Cur, End
<1>2. ASSUME NEW w \in Writers, LogAppend(w) \/ LogAppendFails(w)
      PROVE  Cur' = Cur /\ \A q \in 1 .. Cur : files'[q].base = files[q].base /\ End(q) <= End(q)'
  <2>1. PICK extra \in 0 .. 1 :
          UNCHANGED segs /\ files' = [files EXCEPT ![Cur].size = @ + extra]
    BY <1>2 DEF LogAppend, LogAppendFails
  <2>2. Cur' = Cur
    BY <2>1 DEF Cur
  <2>3. \A q \in 1 .. Cur : /\ files'[q].base = files[q].base
                            /\ files'[q].size = files[q].size \/ files'[q].size = files[q].size + extra
    BY <1>0, <2>1, ZenonT(30) DEF TypeOK
  <2>4. QED BY <1>0, <2>2, <2>3 DEF End
<1>3. CASE RollClose
  <2>1. UNCHANGED <<files, DOMAIN segs>>
    BY <1>3 DEF RollClose
  <2>2. QED BY <1>0, <1>1, <2>1
<1>4. CASE RollCreate \/ RollCreateFails \/ RollHeaderFails
  <2>1. UNCHANGED segs
    BY <1>4 DEF RollCreate, RollCreateFails, RollHeaderFails
  <2>2. \A q \in 1 .. Cur : files'[q] = files[q]
    BY <1>0, <1>4 DEF RollCreate, RollCreateFails, RollHeaderFails, TypeOK
  <2>3. Cur' = Cur
    BY <2>1 DEF Cur
  <2>4. QED BY <1>0, <2>2, <2>3 DEF End
<1>5. CASE RollHeader
  <2>0. PICK new : new = Cur + 1
    OBVIOUS
  <2>1. /\ DOMAIN segs' = DOMAIN segs \cup {new}
        /\ files' = [files EXCEPT ![new].st = "ready"]
    BY <1>5, <2>0 DEF RollHeader
  <2>2. Cur' = new
    <3>1. DOMAIN segs' \subseteq Nat /\ new \in DOMAIN segs' /\ \A q \in DOMAIN segs' : q <= new
      BY <1>0, <2>0, <2>1
    <3>2. QED BY <3>1, MaxIs DEF Cur
  <2>3. \A q \in 1 .. Cur : files'[q] = files[q]
    BY <1>0, <2>0, <2>1 DEF TypeOK
  <2>4. QED BY <1>0, <2>0, <2>2, <2>3 DEF End
<1>6. CASE PruneUnlink
  <2>1. \A q \in 1 .. MaxSegs :
          files'[q].base = files[q].base /\ files'[q].size = files[q].size
    BY <1>6, PruneUnlinkMarks
  <2>2. Cur' = Cur
    BY <1>6 DEF PruneUnlink, Cur
  <2>3. QED BY <1>0, <2>1, <2>2 DEF End
<1>7. CASE PruneEnd
  <2>1. UNCHANGED files /\ DOMAIN segs' = {q \in DOMAIN segs : ~Gone(q)}
    BY <1>7 DEF PruneEnd, Restrict, Gone
  <2>2. ~Gone(Cur)
    BY <1>0 DEF DirInv, KeptInv
  <2>3. DOMAIN segs' \subseteq Nat /\ Cur \in DOMAIN segs' /\ \A q \in DOMAIN segs' : q <= Cur
    BY <1>0, <2>1, <2>2
  <2>4. Cur' = Cur
    BY <2>3, MaxIs DEF Cur
  <2>5. QED BY <1>0, <2>1, <2>4 DEF End
<1>8. CASE (\E w \in Writers : LogWake(w)) \/ LogClose \/ RollRefused
            \/ (\E below \in needed .. segs[Cur].base : PruneBegin(below))
            \/ (\E f \in Followers : Follow(f)) \/ UNCHANGED vars
  <2>1. UNCHANGED <<files, DOMAIN segs>>
    BY <1>8 DEF LogWake, LogClose, RollRefused, PruneBegin, Follow, FollowStart,
       FollowSeek, FollowOpen, FollowLimit, FollowRead, FollowClosed, FollowTake,
       FollowRecheck, FollowWoken, FollowCancelled, logVars, vars
  <2>2. QED BY <1>0, <1>1, <2>1
<1>9. QED
  BY <1>0, <1>2, <1>3, <1>4, <1>5, <1>6, <1>7, <1>8 DEF Next, AppendStep, Roll, Prune

\* seek finds the segment that holds the follower's position: what is listed
\* is consecutive, so the one before the first that ends beyond it ends there.
LEMMA SeekFinds ==
  ASSUME TypeOK, DirInv, BoundInv, PrefixInv, NEW f \in Followers, FollowSeek(f)
  PROVE  \/ fpc' = [fpc EXCEPT ![f] = "behind"] /\ UNCHANGED <<off, fseg>>
         \/ \E q \in 1 .. Cur :
              /\ fpc' = [fpc EXCEPT ![f] = "open"] /\ UNCHANGED off
              /\ fseg' = [fseg EXCEPT ![f] = q]
              /\ files[q].base <= off[f] /\ off[f] <= End(q)
<1> USE SegmentLogAssumption
<1> DEFINE H == {q \in DOMAIN segs : q = Cur \/ off[f] < segs[q].end}
<1>0. /\ Cur \in 1 .. MaxSegs /\ Cur \in DOMAIN segs /\ DOMAIN segs \subseteq 1 .. MaxSegs
      /\ \A q \in DOMAIN segs : q <= Cur /\ segs[q].base = files[q].base
      /\ \A q \in DOMAIN segs : q # Cur => segs[q].end = End(q)
  BY DEF TypeOK, DirInv, ListInv
<1>1. ~Exclusive /\ UNCHANGED off
  BY DEF FollowSeek
<1>2. \A q \in DOMAIN segs : ~Gone(q)
  BY <1>0, <1>1 DEF DirInv, KeptInv, Exclusive
<1>3. Cur \in H /\ H \subseteq Nat /\ H \subseteq DOMAIN segs
  BY <1>0
<1>4. PICK first \in H : first = Min(H) /\ \A q \in H : first <= q
  BY <1>3, MinIs
<1> HIDE DEF H
<1>a. Oldest \in DOMAIN segs /\ \A q \in DOMAIN segs : Oldest <= q
  <2>1. DOMAIN segs \subseteq Nat /\ DOMAIN segs # {}
    BY <1>0
  <2>2. QED BY <2>1, MinIs DEF Oldest
<1>b. off[f] \in Nat /\ off[f] <= offset /\ offset \in Nat /\ segs[Oldest].base \in Nat
  BY <1>a DEF TypeOK, BoundInv
<1>5. CASE off[f] < segs[Oldest].base
  <2>1. ~(off[f] >= segs[Oldest].base)
    BY <1>5, <1>b
  <2>2. fpc' = [fpc EXCEPT ![f] = "behind"] /\ UNCHANGED fseg
    BY <2>1 DEF FollowSeek, Goto
  <2>3. QED BY <1>1, <2>2
<1>6. CASE ~(off[f] < segs[Oldest].base)
  <2>1. fpc' = [fpc EXCEPT ![f] = "open"] /\ fseg' = [fseg EXCEPT ![f] = first]
    BY <1>4, <1>6 DEF FollowSeek, Goto, H
  <2>2. Oldest \in DOMAIN segs /\ \A q \in DOMAIN segs : Oldest <= q
    BY <1>a
  <2>3. first \in 1 .. Cur /\ first \in 1 .. MaxSegs /\ first \in DOMAIN segs
    BY <1>0, <1>3
  <2>4. off[f] \in Nat /\ off[f] <= offset /\ offset \in Nat /\ End(first) \in Nat
        /\ files[first].base \in Nat
    BY <1>b, <2>3, EndNat
  <2>5. off[f] <= End(first)
    <3>1. CASE first = Cur
      <4>1. offset <= End(Cur)
        BY DEF DirInv, MeetInv
      <4>2. QED BY <2>4, <3>1, <4>1
    <3>2. CASE first # Cur
      BY <1>0, <2>3, <2>4, <3>2 DEF H
    <3>3. QED BY <3>1, <3>2
  <2>6. files[first].base <= off[f]
    <3>1. CASE first = Oldest
      <4>1. segs[Oldest].base = files[first].base
        BY <1>0, <2>2, <3>1
      <4>2. QED BY <1>6, <2>4, <4>1
    <3>2. CASE first # Oldest
      <4>1. PICK p \in 1 .. Cur : first = p + 1 /\ Oldest <= p /\ p < Cur
        <5>1. Oldest \in Nat /\ Oldest >= 1 /\ Oldest < first
          BY <1>0, <2>2, <2>3, <3>2
        <5>2. first - 1 \in 1 .. Cur /\ first = (first - 1) + 1 /\ Oldest <= first - 1
              /\ first - 1 < Cur
          BY <1>0, <2>3, <5>1
        <5>3. QED BY <5>2
      <4>2. p \in DOMAIN segs
        <5>1. ~Gone(Oldest) /\ Oldest \in 1 .. Cur
          BY <1>0, <1>2, <2>2
        <5>2. ~Gone(p)
          <6>1. CASE p = Oldest
            BY <5>1, <6>1
          <6>2. CASE p # Oldest
            <7>1. Oldest < p
              BY <1>0, <4>1, <5>1, <6>2
            <7>2. QED BY <5>1, <7>1 DEF PrefixInv
          <6>3. QED BY <6>1, <6>2
        <5>3. QED BY <5>2 DEF DirInv, KeptInv
      <4>3. p \notin H
        BY <1>4, <2>3, <4>1
      <4>4. ~(off[f] < End(p))
        <5>1. p # Cur
          BY <1>0, <4>1
        <5>2. QED BY <1>0, <4>2, <4>3, <5>1 DEF H
      <4>5. p \in 1 .. MaxSegs /\ End(p) = files[first].base
        BY <1>0, <4>1 DEF DirInv, MeetInv
      <4>6. QED BY <2>4, <4>4, <4>5
    <3>3. QED BY <3>1, <3>2
  <2>7. QED BY <1>1, <2>1, <2>3, <2>5, <2>6
<1>7. QED BY <1>5, <1>6
\* No step takes the file a follower was given from under its position.
LEMMA PlaceStep ==
  ASSUME TypeOK, DirInv, BoundInv, PrefixInv, PlaceInv, [Next]_vars
  PROVE  PlaceInv'
<1> USE SegmentLogAssumption
<1> DEFINE Holding == {"open", "next", "read", "closed?", "take", "recheck", "select"}
<1>0. /\ Cur <= Cur' /\ Cur \in Nat /\ Cur' \in Nat
      /\ \A q \in 1 .. Cur : /\ files'[q].base = files[q].base /\ End(q) <= End(q)'
                             /\ End(q) \in Nat /\ End(q)' \in Nat
                             /\ files[q].base \in Nat
  <2>1. TypeOK' /\ DirInv'
    BY DirStep
  <2>2. Cur \in 1 .. MaxSegs /\ Cur' \in 1 .. MaxSegs
    <3>1. Cur \in DOMAIN segs /\ Cur' \in DOMAIN segs'
      BY <2>1 DEF DirInv, ListInv
    <3>2. DOMAIN segs \subseteq 1 .. MaxSegs /\ DOMAIN segs' \subseteq 1 .. MaxSegs
      BY <2>1 DEF TypeOK
    <3>3. QED BY <3>1, <3>2
  <2>3. \A q \in 1 .. Cur : q \in 1 .. MaxSegs
    BY <2>2
  <2>4. \A q \in 1 .. MaxSegs : End(q) \in Nat /\ files[q].base \in Nat
    BY EndNat
  <2>5. \A q \in 1 .. MaxSegs : files'[q].base \in Nat /\ files'[q].size \in Nat
    <3>1. files' \in [1 .. MaxSegs -> [st : FileState, base : 0 .. MaxOffset,
                                       size : 0 .. MaxOffset + 1]]
      BY <2>1 DEF TypeOK
    <3>2. QED BY <3>1
  <2>6. \A q \in 1 .. MaxSegs : End(q)' \in Nat
    BY <2>5 DEF End
  <2>7. QED BY <2>2, <2>3, <2>4, <2>6, FilesGrow
<1>a. \A b, o, e \in Nat : b <= o /\ o < e => b <= o + 1 /\ o + 1 <= e
  OBVIOUS
<1>1. ASSUME NEW g \in Followers, fpc[g] \in Holding, off'[g] = off[g], fseg'[g] = fseg[g]
      PROVE  /\ fseg'[g] <= Cur'
             /\ files'[fseg'[g]].base <= off'[g] /\ off'[g] <= End(fseg[g])'
  <2>0. PICK q : q = fseg[g]
    OBVIOUS
  <2>1. q \in 1 .. Cur /\ files[q].base <= off[g] /\ off[g] <= End(q) /\ off[g] \in Nat
    BY <1>1, <2>0 DEF PlaceInv, TypeOK
  <2>2. q <= Cur' /\ files'[q].base <= off[g] /\ off[g] <= End(q)'
    BY <1>0, <2>1
  <2>3. End(fseg[g])' = End(q)'
    BY <1>1, <2>0 DEF End
  <2>4. QED BY <1>1, <2>0, <2>2, <2>3
<1>2. ASSUME NEW g \in Followers,
             fpc'[g] \in Holding => fpc[g] \in Holding /\ off'[g] = off[g] /\ fseg'[g] = fseg[g]
      PROVE  fpc'[g] \in Holding =>
               /\ fseg'[g] <= Cur'
               /\ files'[fseg'[g]].base <= off'[g] /\ off'[g] <= End(fseg[g])'
  BY <1>1, <1>2
<1>3. ASSUME NEW f \in Followers, Follow(f), NEW g \in Followers
      PROVE  fpc'[g] \in Holding =>
               /\ fseg'[g] <= Cur'
               /\ files'[fseg'[g]].base <= off'[g] /\ off'[g] <= End(fseg[g])'
  <2> USE DEF TypeOK
  <2>1. CASE g # f
    <3>1. fpc'[g] = fpc[g] /\ off'[g] = off[g] /\ fseg'[g] = fseg[g]
      BY <1>3, <2>1 DEF Follow, FollowStart, FollowSeek, FollowOpen, FollowLimit,
         FollowRead, FollowClosed, FollowTake, FollowRecheck, FollowWoken,
         FollowCancelled, Goto
    <3>2. QED BY <1>2, <3>1
  <2>2. CASE g = f /\ FollowSeek(f)
    <3>1. UNCHANGED files
      BY <2>2 DEF FollowSeek, logVars
    <3>2. CASE fpc' = [fpc EXCEPT ![f] = "behind"] /\ UNCHANGED <<off, fseg>>
      BY <2>2, <3>2
    <3>3. ASSUME NEW q \in 1 .. Cur,
                 fpc' = [fpc EXCEPT ![f] = "open"] /\ UNCHANGED off,
                 fseg' = [fseg EXCEPT ![f] = q],
                 files[q].base <= off[f] /\ off[f] <= End(q)
          PROVE  /\ fseg'[g] <= Cur'
                 /\ files'[fseg'[g]].base <= off'[g] /\ off'[g] <= End(fseg[g])'
      <4>1. fseg'[g] = q /\ q <= Cur' /\ off'[g] = off[f]
        BY <1>0, <2>2, <3>3
      <4>2. End(fseg[g])' = End(q)
        BY <3>1, <4>1 DEF End
      <4>3. QED BY <3>1, <3>3, <4>1, <4>2
    <3>4. QED BY <2>2, <3>2, <3>3, SeekFinds
  <2>3. CASE g = f /\ FollowRead(f)
    <3>0. PICK q : q = fseg[f]
      OBVIOUS
    <3>1. /\ UNCHANGED <<files, fseg, segs>>
          /\ \/ off[f] < End(q) /\ off' = [off EXCEPT ![f] = @ + 1]
             \/ fpc' = [fpc EXCEPT ![f] = "seek"]
      BY <2>3, <3>0 DEF FollowRead, logVars, End, Goto
    <3>2. q \in 1 .. Cur /\ files[q].base <= off[f] /\ off[f] \in Nat
      BY <2>3, <3>0 DEF FollowRead, PlaceInv
    <3>3. CASE fpc' = [fpc EXCEPT ![f] = "seek"]
      BY <2>3, <3>3
    <3>4. CASE off[f] < End(q) /\ off' = [off EXCEPT ![f] = @ + 1]
      <4>1. off'[g] = off[f] + 1 /\ fseg'[g] = q
        BY <2>3, <3>0, <3>1, <3>4
      <4>2. End(fseg[g])' = End(q)
        BY <3>1, <4>1 DEF End
      <4>3. q <= Cur' /\ files'[q].base <= off[f] + 1 /\ off[f] + 1 <= End(q)
        <5>1. /\ q \in Nat /\ q <= Cur /\ End(q) \in Nat
              /\ files'[q].base = files[q].base /\ files[q].base \in Nat
          BY <1>0, <3>2
        <5>2. off[f] \in Nat /\ off[f] < End(q) /\ files[q].base <= off[f]
          BY <3>2, <3>4
        <5>3. q <= Cur'
          <6>1. Cur <= Cur' /\ Cur \in Nat /\ Cur' \in Nat
            BY <1>0
          <6>2. QED BY <5>1, <6>1
        <5>4. files'[q].base <= off[f] + 1 /\ off[f] + 1 <= End(q)
          BY <1>a, <5>1, <5>2, Zenon
        <5>5. QED BY <5>3, <5>4
      <4>4. QED BY <4>1, <4>2, <4>3
    <3>5. QED BY <3>1, <3>3, <3>4
  <2>4. CASE g = f /\ ~FollowSeek(f) /\ ~FollowRead(f)
    <3>1. fpc'[f] \in Holding => fpc[f] \in Holding /\ off'[f] = off[f] /\ fseg'[f] = fseg[f]
      BY <1>3, <2>4 DEF Follow, FollowStart, FollowOpen, FollowLimit, FollowClosed,
         FollowTake, FollowRecheck, FollowWoken, FollowCancelled, Goto
    <3>2. QED BY <1>2, <2>4, <3>1
  <2>5. QED BY <2>1, <2>2, <2>3, <2>4
<1>4. CASE ~\E f \in Followers : Follow(f)
  <2>1. UNCHANGED <<fpc, off, fseg>>
    BY <1>4 DEF Next, AppendStep, LogAppend, LogAppendFails, LogWake, LogClose, Roll,
       RollClose, RollCreate, RollCreateFails, RollHeader, RollHeaderFails, RollRefused,
       Prune, PruneBegin, PruneUnlink, PruneEnd, followVars, vars
  <2>2. QED BY <1>2, <2>1 DEF PlaceInv
<1>5. QED BY <1>3, <1>4 DEF PlaceInv

-----------------------------------------------------------------------------
(***************************************************************************)
(* Theorems.                                                               *)
(***************************************************************************)
\* The variables of the segmented log and its followers have their types.
THEOREM TypeCorrect == Spec => []TypeOK
BY DirCorrect, PTL

\* Whatever fails, unlinking included, compaction never deletes a record that
\* the committed snapshot still needs.
THEOREM NeededIsKept == Spec => []NeededKept
<1>1. TypeOK /\ DirInv => NeededKept
  <2> SUFFICES ASSUME TypeOK, DirInv, NEW n \in needed .. offset - 1
               PROVE  \E i \in 1 .. MaxSegs : Headed(i) /\ files[i].base <= n /\ n < End(i)
    BY DEF NeededKept
  <2> USE SegmentLogAssumption
  <2> DEFINE T == {q \in 1 .. Cur : n < End(q)}
  <2>1. /\ Cur \in 1 .. MaxSegs /\ n \in Nat /\ needed \in Nat /\ offset \in Nat
        /\ needed <= n /\ n < offset
    BY DEF TypeOK, DirInv, ListInv
  <2>2. \A q \in 1 .. Cur : q \in 1 .. MaxSegs /\ End(q) \in Nat
    BY <2>1, EndNat
  <2>3. offset <= End(Cur)
    BY DEF DirInv, MeetInv
  <2>4. T \subseteq Nat /\ Cur \in T
    BY <2>1, <2>2, <2>3
  <2>5. PICK i \in T : \A q \in T : i <= q
    BY <2>4, LeastNat
  <2>6. i \in 1 .. Cur /\ i \in 1 .. MaxSegs /\ n < End(i)
    BY <2>2
  <2>7. Headed(i)
    <3>1. files[i].st \in {"ready", "gone"} /\ (files[i].st = "gone" => End(i) <= needed)
      BY <2>6 DEF DirInv, KeptInv, Gone
    <3>2. QED BY <2>1, <2>2, <2>6, <3>1 DEF Headed
  <2>8. files[i].base <= n
    <3>1. CASE i = 1
      BY <2>1, <3>1 DEF DirInv, MeetInv
    <3>2. CASE i # 1
      <4>1. PICK p \in 1 .. Cur : i = p + 1 /\ p < i /\ p < Cur
        <5>1. i - 1 \in 1 .. Cur /\ i = (i - 1) + 1 /\ i - 1 < i /\ i - 1 < Cur
          BY <2>1, <2>6, <3>2
        <5>2. QED BY <5>1
      <4>2. p \notin T
        <5> HIDE DEF T
        <5>1. QED BY <2>5, <2>6, <4>1
      <4>3. End(p) <= n
        BY <2>1, <2>2, <4>2
      <4>4. End(p) = files[i].base
        BY <2>2, <4>1 DEF DirInv, MeetInv
      <4>5. QED BY <4>3, <4>4
    <3>3. QED BY <3>1, <3>2
  <2>9. QED BY <2>6, <2>7, <2>8
<1>2. QED BY <1>1, DirCorrect, PTL

\* As long as unlinking does not fail, recovery would find the segments on disk
\* consecutive after a crash at any moment, and nothing it needs missing.
THEOREM LogStaysIntact == ASSUME ~RemoveErrors PROVE Spec => []LogIntact
<1>1. TypeOK /\ DirInv /\ PrefixInv => ContiguousStream
  <2> SUFFICES ASSUME TypeOK, DirInv, PrefixInv,
                      NEW i \in 1 .. MaxSegs, NEW j \in 1 .. MaxSegs,
                      i < j, Headed(i), Headed(j), \A k \in i + 1 .. j - 1 : ~Headed(k)
               PROVE  End(i) = files[j].base
    BY DEF ContiguousStream
  <2> USE SegmentLogAssumption
  <2>1. Cur \in 1 .. MaxSegs
    BY DEF TypeOK, DirInv, ListInv
  <2>2. j <= Cur + 1
    BY <2>1 DEF DirInv, NextInv, Headed
  <2>3. CASE j <= Cur
    <3>1. j = i + 1
      <4> SUFFICES ASSUME j # i + 1 PROVE FALSE
        OBVIOUS
      <4>1. i + 1 \in i + 1 .. j - 1 /\ i + 1 \in 1 .. Cur /\ i \in 1 .. Cur /\ i < i + 1
        BY <2>1, <2>3
      <4>2. files[i + 1].st \in {"ready", "gone"} /\ ~Headed(i + 1)
        BY <4>1 DEF DirInv, KeptInv
      <4>3. Gone(i + 1)
        BY <4>2 DEF Headed, Gone
      <4>4. Gone(i)
        BY <4>1, <4>3 DEF PrefixInv
      <4>5. QED BY <4>4 DEF Gone, Headed
    <3>2. i < Cur
      BY <2>1, <2>3, <3>1
    <3>3. QED BY <3>1, <3>2 DEF DirInv, MeetInv
  <2>4. CASE j = Cur + 1
    <3>1. files[Cur].st = "ready"
      <4>1. Cur \in 1 .. Cur
        BY <2>1
      <4>2. QED BY <4>1 DEF DirInv, KeptInv, Gone
    <3>2. i = Cur
      <4> SUFFICES ASSUME i # Cur PROVE FALSE
        OBVIOUS
      <4>1. Cur \in i + 1 .. j - 1
        BY <2>1, <2>4
      <4>2. QED BY <3>1, <4>1 DEF Headed
    <3>3. files[j].base = offset /\ err = "closed"
      BY <2>4 DEF DirInv, NextInv, Headed
    <3>4. QED BY <3>2, <3>3 DEF DirInv, MeetInv
  <2>5. QED BY <2>1, <2>2, <2>3, <2>4
<1>2. QED BY <1>1, TypeCorrect, DirCorrect, PrefixCorrect, NeededIsKept, PTL DEF LogIntact

\* Whatever fails, a follower never sleeps through a record: its channel has
\* been closed or somebody is about to close it.
THEOREM SleepersWake == Spec => []SleeperWillWake
<1>1. Init => SleeperWillWake
  BY DEF Init, SleeperWillWake
<1>2. TypeOK /\ SleeperWillWake /\ [Next]_vars => SleeperWillWake'
  <2> SUFFICES ASSUME TypeOK, SleeperWillWake, [Next]_vars, NEW g \in Followers,
                      fpc'[g] = "select", off'[g] < offset', g \notin signalled'
               PROVE  \E w \in Writers : wpc'[w] = "wake"
    BY DEF SleeperWillWake
  <2> USE SegmentLogAssumption DEF TypeOK
  <2>1. ASSUME NEW w \in Writers, LogAppend(w) PROVE \E x \in Writers : wpc'[x] = "wake"
    BY <2>1 DEF LogAppend
  <2>2. ASSUME NEW f \in Followers, Follow(f) PROVE \E x \in Writers : wpc'[x] = "wake"
    <3>1. wpc' = wpc /\ offset' = offset
      BY <2>2 DEF Follow, FollowStart, FollowSeek, FollowOpen, FollowLimit, FollowRead,
         FollowClosed, FollowTake, FollowRecheck, FollowWoken, FollowCancelled, logVars
    <3>2. fpc[g] = "select" /\ off'[g] = off[g] /\ g \notin signalled
      <4>1. CASE g # f
        BY <2>2, <4>1 DEF Follow, FollowStart, FollowSeek, FollowOpen, FollowLimit,
           FollowRead, FollowClosed, FollowTake, FollowRecheck, FollowWoken,
           FollowCancelled, Goto
      <4>2. CASE g = f
        <5>1. FollowRecheck(f)
          BY <2>2, <4>2 DEF Follow, FollowStart, FollowSeek, FollowOpen, FollowLimit,
             FollowRead, FollowClosed, FollowTake, FollowWoken, FollowCancelled, Goto
        <5>2. off[f] >= offset /\ off' = off
          BY <4>2, <5>1 DEF FollowRecheck, Goto
        <5>3. QED BY <3>1, <4>2, <5>2
      <4>3. QED BY <4>1, <4>2
    <3>3. QED BY <3>1, <3>2 DEF SleeperWillWake
  <2>3. CASE (\E w \in Writers : LogWake(w)) \/ LogClose \/ RollCreateFails \/ RollHeader
             \/ RollHeaderFails \/ RollRefused
    <3>1. signalled' = Followers
      BY <2>3 DEF LogWake, LogClose, RollCreateFails, RollHeader, RollHeaderFails,
                  RollRefused, WakeAll
    <3>2. QED BY <3>1
  <2>4. CASE (\E w \in Writers : LogAppendFails(w)) \/ RollClose \/ RollCreate \/ Prune
             \/ UNCHANGED vars
    <3>1. UNCHANGED <<fpc, off, offset, signalled, wpc>>
      BY <2>4 DEF LogAppendFails, RollClose, RollCreate, Prune, PruneBegin, PruneUnlink,
                  PruneEnd, logVars, followVars, vars
    <3>2. QED BY <3>1 DEF SleeperWillWake
  <2>5. QED BY <2>1, <2>2, <2>3, <2>4 DEF Next, AppendStep, Roll
<1>3. QED BY <1>1, <1>2, TypeCorrect, PTL DEF Spec

\* As long as unlinking does not fail, a follower that may read holds a file
\* that covers its position, whatever rolls and prunes have happened since it
\* opened it.
THEOREM FollowersAreSafe == ASSUME ~RemoveErrors PROVE Spec => []FollowerSafe
<1>1. Init => PlaceInv
  BY DEF Init, PlaceInv
<1>2. TypeOK /\ DirInv /\ BoundInv /\ PrefixInv /\ PlaceInv /\ [Next]_vars => PlaceInv'
  BY PlaceStep
<1>3. BoundInv /\ PlaceInv => FollowerPositioned
  BY DEF BoundInv, PlaceInv, FollowerPositioned
<1>4. Spec => []PlaceInv
  BY <1>1, <1>2, DirCorrect, PrefixCorrect, PTL DEF Spec
<1>5. QED BY <1>3, <1>4, DirCorrect, SleepersWake, PTL DEF FollowerSafe
=============================================================================
