-------------------------- MODULE LockOrderProofs --------------------------
(***************************************************************************)
(* A shard's changes reach the log in the order they were made, and nobody *)
(* waits for ever: for any threads, databases and shards, and any scripts  *)
(* that each by itself keep to the discipline that LockOrder states.       *)
(***************************************************************************)
EXTENDS LockOrder, WellFoundedInduction, FiniteSetTheorems, TLAPS

\* Thread t is at step k of script p, one of its workload's.
Place(t, p, k) ==
  /\ p \in workload[t]
  /\ k \in 1 .. Len(p) + 1
  /\ script[t] = SubSeq(p, k, Len(p))

\* What having come that far has left behind: the slice looked up last, the
\* ordering locks taken, and the changes to log.
Traces(t, p, k) ==
  /\ \A d \in Dbs : Sees(p, k, d) => slice[t] = d
  /\ \A d \in Dbs, i \in Idx : Holds(p, k, d, i) => prop[<<d, i>>] = t
  /\ \A s \in Shards : t \in unlogged[s] =>
       \E n \in 1 .. k - 1 :
         /\ p[n].op = "change" /\ Sees(p, n, s[1]) /\ s[2] \in p[n].is
         /\ \A l \in n .. k - 1 : p[l].op # "log"

Between(t) == script[t] = << >> /\ \A s \in Shards : t \notin unlogged[s]

\* Everybody is somewhere in a script of its own.
PlaceInv ==
  /\ workload \in Workloads /\ script \in [Threads -> Seq(LockSteps)]
  /\ \A t \in Threads : script[t] = << >> \/ \E p, k : Place(t, p, k)

TraceInv == \A t \in Threads : Between(t) \/ \E p, k : Place(t, p, k) /\ Traces(t, p, k)

\* The two kinds of workload, and what holds in each.
Never(op) == \A t \in Threads : \A p \in workload[t] : ~Does(p, op)

\* Workloads are made of scripts.
Scripted == \A w \in Workloads : \A t \in Threads : w[t] \subseteq Seq(LockSteps)

\* Databases keep their slices where nobody swaps them.
HomeInv == \A d \in Dbs : shards[d] = d

-----------------------------------------------------------------------------
\* One step further in a script.
LEMMA NextStep ==
  ASSUME NEW p \in Seq(LockSteps), NEW k \in 1 .. Len(p) + 1, SubSeq(p, k, Len(p)) # << >>
  PROVE  /\ k \in 1 .. Len(p)
         /\ Head(SubSeq(p, k, Len(p))) = p[k]
         /\ Tail(SubSeq(p, k, Len(p))) = SubSeq(p, k + 1, Len(p))
<1>1. k \in 1 .. Len(p)
  OBVIOUS
<1>2. QED BY <1>1

\* A script begins at its first step.
LEMMA FirstStep ==
  ASSUME NEW p \in Seq(LockSteps)
  PROVE  SubSeq(p, 1, Len(p)) = p /\ 1 \in 1 .. Len(p) + 1
OBVIOUS

\* What has been looked up after one more step.
LEMMA SeesStep ==
  ASSUME NEW p, NEW k \in Nat \ {0}, NEW d, Sees(p, k + 1, d)
  PROVE  IF p[k].op = "see" THEN p[k].db = d ELSE Sees(p, k, d)
<1>1. PICK m \in 1 .. k : p[m].op = "see" /\ p[m].db = d /\ \A l \in m + 1 .. k : p[l].op # "see"
  BY DEF Sees
<1>2. CASE m = k
  BY <1>1, <1>2
<1>3. CASE m # k
  BY <1>1, <1>3 DEF Sees
<1>4. QED BY <1>2, <1>3

\* A script has looked up one slice last.
LEMMA SeesOne ==
  ASSUME NEW p, NEW k \in Nat, NEW d, NEW e, Sees(p, k, d), Sees(p, k, e)
  PROVE  d = e
<1>1. PICK m \in 1 .. k - 1 : p[m].op = "see" /\ p[m].db = d /\ \A l \in m + 1 .. k - 1 : p[l].op # "see"
  BY DEF Sees
<1>2. PICK n \in 1 .. k - 1 : p[n].op = "see" /\ p[n].db = e /\ \A l \in n + 1 .. k - 1 : p[l].op # "see"
  BY DEF Sees
<1>3. m = n
  BY <1>1, <1>2
<1>4. QED BY <1>1, <1>2, <1>3

\* What is held after one more step.
LEMMA HoldsStep ==
  ASSUME NEW p, NEW k \in Nat \ {0}, NEW d, NEW i, Holds(p, k + 1, d, i)
  PROVE  /\ p[k].op # "unprop"
         /\ Holds(p, k, d, i) \/ (p[k].op = "prop" /\ p[k].i = i /\ Sees(p, k, d))
<1>1. PICK m \in 1 .. k : /\ p[m].op = "prop" /\ p[m].i = i /\ Sees(p, m, d)
                          /\ \A l \in m .. k : p[l].op # "unprop"
  BY DEF Holds
<1>2. CASE m = k
  BY <1>1, <1>2
<1>3. CASE m # k
  BY <1>1, <1>3 DEF Holds
<1>4. QED BY <1>2, <1>3

\* At its first step a script has looked up and taken nothing.
LEMMA AtStart ==
  ASSUME NEW p, NEW d, NEW i
  PROVE  ~Sees(p, 1, d) /\ ~Holds(p, 1, d, i)
BY DEF Sees, Holds

\* The operands of a step.
LEMMA StepShape ==
  ASSUME NEW e \in LockSteps
  PROVE  /\ e.op = "see" => e.db \in Dbs
         /\ e.op \in {"prop", "mu"} => e.i \in Idx
         /\ e.op \in {"rlock", "lock"} => e.lock \in RWLocks
         /\ e.op = "change" => e.is \subseteq Idx
         /\ e.op = "swap" => e.i \in Dbs /\ e.j \in Dbs
BY DEF LockSteps

\* A step done leaves the rest of the script, and everybody else's.
LEMMA DoneIs ==
  ASSUME NEW t \in Threads, script \in [Threads -> Seq(LockSteps)], Busy(t), Done(t)
  PROVE  /\ script' \in [Threads -> Seq(LockSteps)]
         /\ script'[t] = Tail(script[t])
         /\ \A u \in Threads : u # t => script'[u] = script[u]
         /\ workload' = workload
         /\ Step(t) \in LockSteps
<1>1. script[t] \in Seq(LockSteps) /\ script[t] # << >>
  BY DEF Busy
<1>2. Tail(script[t]) \in Seq(LockSteps) /\ Head(script[t]) \in LockSteps
  BY <1>1
<1>3. QED BY <1>2 DEF Done, Step

\* Whatever the step, it is done.
LEMMA RunIsDone ==
  ASSUME NEW t \in Threads, Run(t)
  PROVE  Busy(t) /\ Done(t)
BY DEF Run, SeeSlice, TakeProp, TakeMu, TakeRead, TakeWrite, ReleaseProp, ReleaseMu, ReleaseRW,
       ChangeShards, SwapSlices, AppendEffects, At

\* Everybody stays somewhere in a script of its own.
LEMMA PlaceStep ==
  ASSUME Scripted, PlaceInv, [Next]_vars
  PROVE  PlaceInv'
<1>0. \A t \in Threads : workload[t] \subseteq Seq(LockSteps)
  BY DEF PlaceInv, Scripted
<1>1. CASE UNCHANGED vars
  BY <1>1 DEF PlaceInv, Place, vars
<1>2. ASSUME NEW t \in Threads, Begin(t) PROVE PlaceInv'
  <2>1. PICK p \in workload[t] : script' = [script EXCEPT ![t] = p]
    BY <1>2 DEF Begin
  <2>2. p \in Seq(LockSteps) /\ workload' = workload
    BY <1>0, <1>2 DEF Begin
  <2>3. Place(t, p, 1)'
    BY <2>1, <2>2, FirstStep DEF Place, PlaceInv
  <2>4. ASSUME NEW u \in Threads PROVE script'[u] = << >> \/ \E q, k : Place(u, q, k)'
    BY <2>1, <2>2, <2>3 DEF PlaceInv, Place
  <2>5. QED BY <2>1, <2>2, <2>4 DEF PlaceInv
<1>3. ASSUME NEW t \in Threads, Run(t) PROVE PlaceInv'
  <2>0. Busy(t) /\ Done(t) /\ script \in [Threads -> Seq(LockSteps)]
    BY <1>3, RunIsDone DEF PlaceInv
  <2>1. /\ script' \in [Threads -> Seq(LockSteps)] /\ script'[t] = Tail(script[t])
        /\ \A u \in Threads : u # t => script'[u] = script[u]
        /\ workload' = workload
    BY <2>0, DoneIs
  <2>2. PICK p, k : Place(t, p, k)
    BY <2>0 DEF PlaceInv, Busy
  <2>3. p \in Seq(LockSteps)
    BY <1>0, <2>2 DEF Place
  <2>4. k \in 1 .. Len(p) /\ Tail(script[t]) = SubSeq(p, k + 1, Len(p))
    BY <2>0, <2>2, <2>3, NextStep DEF Place, Busy
  <2>5. Place(t, p, k + 1)'
    BY <2>1, <2>2, <2>3, <2>4 DEF Place
  <2>6. ASSUME NEW u \in Threads PROVE script'[u] = << >> \/ \E q, j : Place(u, q, j)'
    BY <2>1, <2>5 DEF PlaceInv, Place
  <2>7. QED BY <2>1, <2>6 DEF PlaceInv
<1>4. QED BY <1>1, <1>2, <1>3 DEF Next

\* Every step keeps the types.
LEMMA TypeStep ==
  ASSUME PlaceInv, TypeOK, [Next]_vars
  PROVE  TypeOK'
<1> USE DEF TypeOK
<1>1. CASE UNCHANGED vars
  BY <1>1 DEF vars
<1>2. ASSUME NEW t \in Threads, Begin(t) PROVE TypeOK'
  BY <1>2 DEF Begin
<1>3. ASSUME NEW t \in Threads, Run(t) PROVE TypeOK'
  <2>0. /\ DOMAIN script' = Threads /\ workload' = workload /\ Step(t) \in LockSteps
    BY <1>3, RunIsDone, DoneIs DEF PlaceInv
  <2>1. CASE SeeSlice(t)
    <3>1. Step(t).db \in Dbs
      BY <2>0, <2>1, StepShape DEF SeeSlice, At
    <3>2. QED BY <2>0, <2>1, <3>1 DEF SeeSlice
  <2>2. CASE TakeProp(t)
    BY <2>0, <2>2 DEF TakeProp
  <2>3. CASE TakeMu(t)
    BY <2>0, <2>3 DEF TakeMu
  <2>4. CASE TakeRead(t)
    <3>1. readers' \in [RWLocks -> SUBSET Threads]
      BY <2>4, Zenon DEF TakeRead
    <3>2. QED BY <2>0, <2>4, <3>1 DEF TakeRead
  <2>5. CASE TakeWrite(t)
    BY <2>0, <2>5 DEF TakeWrite
  <2>6. CASE ReleaseProp(t)
    BY <2>0, <2>6 DEF ReleaseProp, Freed
  <2>7. CASE ReleaseMu(t)
    BY <2>0, <2>7 DEF ReleaseMu, Freed
  <2>8. CASE ReleaseRW(t)
    BY <2>0, <2>8 DEF ReleaseRW
  <2>9. CASE ChangeShards(t)
    BY <2>0, <2>9 DEF ChangeShards
  <2>10. CASE SwapSlices(t)
    <3>1. Step(t).i \in Dbs /\ Step(t).j \in Dbs
      BY <2>0, <2>10, StepShape DEF SwapSlices, At
    <3>2. QED BY <2>0, <2>10, <3>1 DEF SwapSlices
  <2>11. CASE AppendEffects(t)
    BY <2>0, <2>11 DEF AppendEffects
  <2>12. QED BY <1>3, <2>1, <2>2, <2>3, <2>4, <2>5, <2>6, <2>7, <2>8, <2>9, <2>10, <2>11 DEF Run
<1>4. QED BY <1>1, <1>2, <1>3 DEF Next

\* What a step of thread t does, read off the step.
LEMMA RunEffect ==
  ASSUME NEW t \in Threads, TypeOK, Run(t)
  PROVE  /\ IF Step(t).op = "see" THEN slice' = [slice EXCEPT ![t] = shards[Step(t).db]]
                                  ELSE slice' = slice
         /\ IF Step(t).op = "prop"
              THEN /\ prop[Shard(t)] = Nobody
                   /\ prop' = [prop EXCEPT ![Shard(t)] = t]
              ELSE IF Step(t).op = "unprop" THEN prop' = Freed(prop, t) ELSE prop' = prop
         /\ IF Step(t).op = "change"
              THEN unlogged' = [s \in Shards |->
                                  IF s \in {slice[t]} \X Step(t).is
                                    THEN unlogged[s] \cup {t} ELSE unlogged[s]]
              ELSE IF Step(t).op = "log"
                     THEN unlogged' = [s \in Shards |-> unlogged[s] \ {t}]
                     ELSE unlogged' = unlogged
         /\ Step(t).op # "swap" => shards' = shards
<1>1. CASE SeeSlice(t)
  BY <1>1 DEF SeeSlice, At
<1>2. CASE TakeProp(t)
  BY <1>2 DEF TakeProp, At
<1>3. CASE TakeMu(t)
  BY <1>3 DEF TakeMu, At
<1>4. CASE TakeRead(t)
  BY <1>4 DEF TakeRead, At
<1>5. CASE TakeWrite(t)
  BY <1>5 DEF TakeWrite, At
<1>6. CASE ReleaseProp(t)
  BY <1>6 DEF ReleaseProp, At
<1>7. CASE ReleaseMu(t)
  BY <1>7 DEF ReleaseMu, At
<1>8. CASE ReleaseRW(t)
  BY <1>8 DEF ReleaseRW, At
<1>9. CASE ChangeShards(t)
  BY <1>9 DEF ChangeShards, At
<1>10. CASE SwapSlices(t)
  BY <1>10 DEF SwapSlices, At
<1>11. CASE AppendEffects(t)
  BY <1>11 DEF AppendEffects, At
<1>12. QED
  BY <1>1, <1>2, <1>3, <1>4, <1>5, <1>6, <1>7, <1>8, <1>9, <1>10, <1>11 DEF Run

\* A busy thread's next step is a step of a script of its workload.
LEMMA StepIs ==
  ASSUME Scripted, PlaceInv, NEW t \in Threads, Busy(t)
  PROVE  \E p \in workload[t] : Does(p, Step(t).op)
<1>1. PICK p, k : Place(t, p, k)
  BY DEF PlaceInv, Busy
<1>2. p \in workload[t] /\ p \in Seq(LockSteps)
  BY <1>1 DEF PlaceInv, Scripted, Place
<1>3. k \in 1 .. Len(p) /\ Step(t) = p[k]
  BY <1>1, <1>2, NextStep DEF Place, Busy, Step
<1>4. Does(p, Step(t).op)
  BY <1>2, <1>3 DEF Does
<1>5. QED BY <1>2, <1>4

\* Where nobody swaps, everybody finds the database it asks for.
LEMMA HomeStep ==
  ASSUME Scripted, PlaceInv, TypeOK, Never("swap"), HomeInv, Next
  PROVE  HomeInv'
<1>1. ASSUME NEW t \in Threads, Begin(t) PROVE HomeInv'
  BY <1>1 DEF Begin, HomeInv
<1>2. ASSUME NEW t \in Threads, Run(t) PROVE HomeInv'
  <2>1. Busy(t)
    BY <1>2, RunIsDone
  <2>2. Step(t).op # "swap"
    BY <2>1, StepIs DEF Never
  <2>3. shards' = shards
    BY <1>2, <2>2, RunEffect
  <2>4. QED BY <2>3 DEF HomeInv
<1>3. QED BY <1>1, <1>2 DEF Next

\* Where nobody changes a shard, nothing is left to log.
LEMMA NothingStep ==
  ASSUME Scripted, PlaceInv, TypeOK, Never("change"),
         \A s \in Shards : unlogged[s] = {}, Next
  PROVE  \A s \in Shards : unlogged'[s] = {}
<1>1. ASSUME NEW t \in Threads, Begin(t) PROVE unlogged' = unlogged
  BY <1>1 DEF Begin
<1>2. ASSUME NEW t \in Threads, Run(t) PROVE \A s \in Shards : unlogged'[s] = {}
  <2>1. Busy(t)
    BY <1>2, RunIsDone
  <2>2. Step(t).op # "change"
    BY <2>1, StepIs DEF Never
  <2>3. \/ unlogged' = unlogged
        \/ unlogged' = [s \in Shards |-> unlogged[s] \ {t}]
    BY <1>2, <2>2, RunEffect
  <2>4. QED BY <2>3
<1>3. QED BY <1>1, <1>2 DEF Next

\* The workload does not change.
LEMMA NeverStep ==
  ASSUME Next, NEW op, Never(op)
  PROVE  Never(op)'
<1>1. workload' = workload
  BY RunIsDone DEF Next, Begin, Done
<1>2. QED BY <1>1 DEF Never

-----------------------------------------------------------------------------
\* A thread's own step: its slice follows its script.
LEMMA OwnSlice ==
  ASSUME TypeOK, HomeInv, NEW t \in Threads, Run(t),
         NEW p \in Seq(LockSteps), NEW k \in 1 .. Len(p), Step(t) = p[k],
         \A d \in Dbs : Sees(p, k, d) => slice[t] = d
  PROVE  \A d \in Dbs : Sees(p, k + 1, d) => slice'[t] = d
<1>0. p[k] \in LockSteps /\ k \in Nat \ {0} /\ k + 1 \in Nat
  OBVIOUS
<1>1. ASSUME NEW d \in Dbs, Sees(p, k + 1, d) PROVE slice'[t] = d
  <2>1. CASE p[k].op = "see"
    <3>1. p[k].db = d
      BY <1>0, <1>1, <2>1, SeesStep
    <3>2. slice'[t] = shards[d]
      BY <2>1, <3>1, RunEffect DEF TypeOK
    <3>3. QED BY <3>2 DEF HomeInv
  <2>2. CASE p[k].op # "see"
    <3>1. Sees(p, k, d)
      BY <1>0, <1>1, <2>2, SeesStep
    <3>2. slice' = slice
      BY <2>2, RunEffect
    <3>3. QED BY <3>1, <3>2
  <2>3. QED BY <2>1, <2>2
<1>2. QED BY <1>1

\* A thread's own step: its slice, locks and changes follow its script.
LEMMA OwnStep ==
  ASSUME TypeOK, HomeInv, NEW t \in Threads, Run(t),
         NEW p \in Seq(LockSteps), Ordered(p), NEW k \in 1 .. Len(p), Step(t) = p[k],
         Traces(t, p, k)
  PROVE  Traces(t, p, k + 1)'
<1>0. p[k] \in LockSteps /\ k \in Nat \ {0} /\ k + 1 \in Nat
  OBVIOUS
<1>1. ASSUME NEW d \in Dbs, Sees(p, k + 1, d) PROVE slice'[t] = d
  BY <1>1, OwnSlice DEF Traces
<1>2. ASSUME NEW d \in Dbs, NEW i \in Idx, Holds(p, k + 1, d, i)
      PROVE  prop'[<<d, i>>] = t
  <2>0. <<d, i>> \in Shards
    BY DEF Shards
  <2>1. /\ p[k].op # "unprop"
        /\ Holds(p, k, d, i) \/ (p[k].op = "prop" /\ p[k].i = i /\ Sees(p, k, d))
    BY <1>0, <1>2, HoldsStep
  <2>2. CASE Holds(p, k, d, i)
    <3>1. prop[<<d, i>>] = t /\ t # Nobody
      BY <2>2, LockOrderAssumption DEF Traces
    <3>2. CASE p[k].op = "prop"
      <4>1. prop[Shard(t)] = Nobody /\ prop' = [prop EXCEPT ![Shard(t)] = t]
        BY <3>2, RunEffect
      <4>2. <<d, i>> # Shard(t)
        BY <3>1, <4>1
      <4>3. QED BY <2>0, <3>1, <4>1, <4>2 DEF TypeOK
    <3>3. CASE p[k].op # "prop"
      BY <2>1, <3>1, <3>3, RunEffect
    <3>4. QED BY <3>2, <3>3
  <2>3. CASE p[k].op = "prop" /\ p[k].i = i /\ Sees(p, k, d)
    <3>1. Shard(t) = <<d, i>>
      BY <2>3 DEF Shard, Traces
    <3>2. prop' = [prop EXCEPT ![<<d, i>>] = t]
      BY <2>3, <3>1, RunEffect
    <3>3. QED BY <2>0, <3>2 DEF TypeOK
  <2>4. QED BY <2>1, <2>2, <2>3
<1>3. ASSUME NEW s \in Shards, t \in unlogged'[s]
      PROVE  \E n \in 1 .. k :
               /\ p[n].op = "change" /\ Sees(p, n, s[1]) /\ s[2] \in p[n].is
               /\ \A l \in n .. k : p[l].op # "log"
  <2>1. p[k].op # "log"
    <3> SUFFICES ASSUME p[k].op = "log" PROVE FALSE
      OBVIOUS
    <3>1. unlogged' = [x \in Shards |-> unlogged[x] \ {t}]
      BY RunEffect
    <3>2. QED BY <1>3, <3>1
  <2>2. CASE t \in unlogged[s]
    <3>1. PICK n \in 1 .. k - 1 :
            /\ p[n].op = "change" /\ Sees(p, n, s[1]) /\ s[2] \in p[n].is
            /\ \A l \in n .. k - 1 : p[l].op # "log"
      BY <2>2 DEF Traces
    <3>2. \A l \in n .. k : p[l].op # "log"
      BY <2>1, <3>1
    <3>3. QED BY <3>1, <3>2
  <2>3. CASE t \notin unlogged[s]
    <3>1. p[k].op = "change"
      <4> SUFFICES ASSUME p[k].op # "change" PROVE FALSE
        OBVIOUS
      <4>1. unlogged' = unlogged
        BY <2>1, RunEffect
      <4>2. QED BY <1>3, <2>3, <4>1
    <3>2. s \in {slice[t]} \X p[k].is
      <4>1. unlogged' = [x \in Shards |-> IF x \in {slice[t]} \X p[k].is
                                           THEN unlogged[x] \cup {t} ELSE unlogged[x]]
        BY <3>1, RunEffect
      <4>2. QED BY <1>3, <2>3, <4>1
    <3>3. PICK d \in Dbs : Sees(p, k, d)
      BY <3>1 DEF Ordered
    <3>4. s[1] = d /\ s[2] \in p[k].is
      BY <3>2, <3>3 DEF Traces
    <3>5. \A l \in k .. k : p[l].op # "log"
      BY <2>1
    <3>6. QED BY <3>1, <3>3, <3>4, <3>5
  <2>4. QED BY <2>2, <2>3
<1>4. (k + 1) - 1 = k
  OBVIOUS
<1>5. QED BY <1>1, <1>2, <1>3, <1>4, Zenon DEF Traces

\* A step of another thread: it takes no lock that is held and frees only its
\* own, and changes no list of changes but its own.
LEMMA OtherStep ==
  ASSUME TypeOK, NEW t \in Threads, NEW u \in Threads, u # t, Begin(u) \/ Run(u)
  PROVE  /\ script'[t] = script[t] /\ slice'[t] = slice[t] /\ workload' = workload
         /\ \A s \in Shards : prop[s] = t => prop'[s] = t
         /\ \A s \in Shards : t \in unlogged'[s] <=> t \in unlogged[s]
<1>1. CASE Begin(u)
  BY <1>1 DEF Begin, TypeOK
<1>2. CASE Run(u)
  <2>1. script'[t] = script[t] /\ workload' = workload
    BY <1>2, RunIsDone DEF Done, TypeOK
  <2>2. slice'[t] = slice[t]
    BY <1>2, RunEffect DEF TypeOK
  <2>3. ASSUME NEW s \in Shards, prop[s] = t PROVE prop'[s] = t
    <3>1. CASE Step(u).op = "prop"
      <4>1. prop[Shard(u)] = Nobody /\ prop' = [prop EXCEPT ![Shard(u)] = u]
        BY <1>2, <3>1, RunEffect
      <4>2. s # Shard(u)
        BY <2>3, <4>1, LockOrderAssumption
      <4>3. QED BY <2>3, <4>1, <4>2 DEF TypeOK
    <3>2. CASE Step(u).op = "unprop"
      <4>1. prop' = Freed(prop, u)
        BY <1>2, <3>2, RunEffect
      <4>2. QED BY <2>3, <4>1 DEF Freed
    <3>3. CASE Step(u).op # "prop" /\ Step(u).op # "unprop"
      BY <1>2, <2>3, <3>3, RunEffect
    <3>4. QED BY <3>1, <3>2, <3>3
  <2>4. ASSUME NEW s \in Shards PROVE t \in unlogged'[s] <=> t \in unlogged[s]
    <3>1. CASE Step(u).op = "change"
      <4>1. unlogged' = [x \in Shards |-> IF x \in {slice[u]} \X Step(u).is
                                           THEN unlogged[x] \cup {u} ELSE unlogged[x]]
        BY <1>2, <3>1, RunEffect
      <4>2. QED BY <4>1
    <3>2. CASE Step(u).op = "log"
      <4>1. unlogged' = [x \in Shards |-> unlogged[x] \ {u}]
        BY <1>2, <3>2, RunEffect
      <4>2. QED BY <4>1
    <3>3. CASE Step(u).op # "change" /\ Step(u).op # "log"
      BY <1>2, <3>3, RunEffect
    <3>4. QED BY <3>1, <3>2, <3>3
  <2>5. QED BY <2>1, <2>2, <2>3, <2>4
<1>3. QED BY <1>1, <1>2

\* A thread that another leaves alone stays where it is.
LEMMA TraceStays ==
  ASSUME NEW t \in Threads, Between(t) \/ \E p, k : Place(t, p, k) /\ Traces(t, p, k),
         script'[t] = script[t], slice'[t] = slice[t], workload' = workload,
         \A s \in Shards : prop[s] = t => prop'[s] = t,
         \A s \in Shards : t \in unlogged'[s] <=> t \in unlogged[s]
  PROVE  Between(t)' \/ \E p, k : Place(t, p, k)' /\ Traces(t, p, k)'
<1>1. CASE Between(t)
  BY <1>1 DEF Between
<1>2. ASSUME NEW p, NEW k, Place(t, p, k), Traces(t, p, k)
      PROVE  Place(t, p, k)' /\ Traces(t, p, k)'
  <2>1. Place(t, p, k)'
    BY <1>2 DEF Place
  <2>2. \A d \in Dbs : Sees(p, k, d) => slice'[t] = d
    BY <1>2 DEF Traces
  <2>3. ASSUME NEW d \in Dbs, NEW i \in Idx, Holds(p, k, d, i) PROVE prop'[<<d, i>>] = t
    <3>1. <<d, i>> \in Shards /\ prop[<<d, i>>] = t
      BY <1>2, <2>3 DEF Traces, Shards
    <3>2. QED BY <3>1
  <2>4. ASSUME NEW s \in Shards, t \in unlogged'[s]
        PROVE  \E n \in 1 .. k - 1 :
                 /\ p[n].op = "change" /\ Sees(p, n, s[1]) /\ s[2] \in p[n].is
                 /\ \A l \in n .. k - 1 : p[l].op # "log"
    BY <1>2, <2>4 DEF Traces
  <2>5. QED BY <2>1, <2>2, <2>3, <2>4 DEF Traces
<1>3. QED BY <1>1, <1>2

\* What is still to be logged is under the ordering lock of who is to log it.
LEMMA PendingIsHeld ==
  ASSUME TypeOK, NEW t \in Threads, NEW p \in Seq(LockSteps), Ordered(p), NEW k \in 1 .. Len(p) + 1,
         Traces(t, p, k), NEW s \in Shards, t \in unlogged[s]
  PROVE  k <= Len(p) /\ prop[s] = t
<1>1. PICK n \in 1 .. k - 1 :
        /\ p[n].op = "change" /\ Sees(p, n, s[1]) /\ s[2] \in p[n].is
        /\ \A l \in n .. k - 1 : p[l].op # "log"
  BY DEF Traces
<1>2. n \in DOMAIN p /\ n \in Nat
  OBVIOUS
<1>3. PICK e \in n + 1 .. Len(p) : p[e].op = "log" /\ \A j \in n .. e : p[j].op # "unprop"
  BY <1>1, <1>2 DEF Ordered
<1>4. e >= k
  BY <1>1, <1>3
<1>5. PICK d \in Dbs : Sees(p, n, d) /\ \A i \in p[n].is : Holds(p, n, d, i)
  BY <1>1, <1>2 DEF Ordered
<1>6. s[1] = d
  BY <1>1, <1>2, <1>5, SeesOne
<1>7. PICK m \in 1 .. n - 1 :
        /\ p[m].op = "prop" /\ p[m].i = s[2] /\ Sees(p, m, d)
        /\ \A l \in m .. n - 1 : p[l].op # "unprop"
  BY <1>1, <1>5 DEF Holds
<1>8. m \in 1 .. k - 1 /\ \A l \in m .. k - 1 : p[l].op # "unprop"
  BY <1>3, <1>4, <1>7
<1>9. Holds(p, k, d, s[2])
  BY <1>7, <1>8 DEF Holds
<1>10. s[2] \in Idx /\ s = <<d, s[2]>>
  BY <1>6 DEF Shards
<1>11. prop[<<d, s[2]>>] = t
  BY <1>9, <1>10 DEF Traces
<1>12. QED BY <1>3, <1>4, <1>10, <1>11

\* Every step keeps everybody's traces those of its script.
LEMMA TraceStep ==
  ASSUME \A w \in Workloads : Disciplined(w), PlaceInv, TypeOK, HomeInv, TraceInv, Next
  PROVE  TraceInv'
<1>0. \A t \in Threads : \A p \in workload[t] : p \in Seq(LockSteps) /\ Ordered(p)
  BY DEF PlaceInv, Disciplined
<1>1. ASSUME NEW u \in Threads, Begin(u) \/ Run(u), NEW t \in Threads, u # t
      PROVE  Between(t)' \/ \E p, k : Place(t, p, k)' /\ Traces(t, p, k)'
  <2>1. /\ script'[t] = script[t] /\ slice'[t] = slice[t] /\ workload' = workload
        /\ \A s \in Shards : prop[s] = t => prop'[s] = t
        /\ \A s \in Shards : t \in unlogged'[s] <=> t \in unlogged[s]
    BY <1>1, OtherStep
  <2>2. QED BY <2>1, TraceStays DEF TraceInv
<1>2. ASSUME NEW t \in Threads, Begin(t)
      PROVE  \E p, k : Place(t, p, k)' /\ Traces(t, p, k)'
  <2>1. script[t] = << >>
    BY <1>2 DEF Begin, Busy
  <2>2. \A s \in Shards : t \notin unlogged[s]
    <3>1. CASE Between(t)
      BY <3>1 DEF Between
    <3>2. ASSUME NEW p, NEW k, Place(t, p, k), Traces(t, p, k), NEW s \in Shards, t \in unlogged[s]
          PROVE  FALSE
      <4>1. p \in Seq(LockSteps) /\ Ordered(p) /\ k \in 1 .. Len(p) + 1
        BY <1>0, <3>2 DEF Place
      <4>2. k <= Len(p)
        BY <3>2, <4>1, PendingIsHeld
      <4>3. Len(SubSeq(p, k, Len(p))) = Len(p) - k + 1 /\ Len(<< >>) = 0
        BY <4>1, <4>2
      <4>4. SubSeq(p, k, Len(p)) = << >>
        BY <2>1, <3>2 DEF Place
      <4>5. QED BY <4>1, <4>2, <4>3, <4>4
    <3>3. QED BY <3>1, <3>2 DEF TraceInv
  <2>3. PICK p \in workload[t] : script' = [script EXCEPT ![t] = p]
    BY <1>2 DEF Begin
  <2>4. p \in Seq(LockSteps) /\ workload' = workload /\ unlogged' = unlogged
    BY <1>0, <1>2 DEF Begin
  <2>5. Place(t, p, 1)'
    BY <2>3, <2>4, FirstStep DEF Place, PlaceInv
  <2>6. Traces(t, p, 1)'
    BY <2>2, <2>4, AtStart DEF Traces
  <2>7. QED BY <2>5, <2>6
<1>3. ASSUME NEW t \in Threads, Run(t)
      PROVE  \E p, k : Place(t, p, k)' /\ Traces(t, p, k)'
  <2>0. Busy(t) /\ Done(t)
    BY <1>3, RunIsDone
  <2>1. PICK p, k : Place(t, p, k) /\ Traces(t, p, k)
    BY <2>0 DEF TraceInv, Between, Busy
  <2>2. p \in Seq(LockSteps) /\ Ordered(p)
    BY <1>0, <2>1 DEF Place
  <2>3. /\ k \in 1 .. Len(p) /\ Step(t) = p[k]
        /\ Tail(script[t]) = SubSeq(p, k + 1, Len(p))
    BY <2>0, <2>1, <2>2, NextStep DEF Place, Busy, Step
  <2>4. script'[t] = Tail(script[t]) /\ workload' = workload
    BY <2>0, DoneIs DEF PlaceInv
  <2>5. Place(t, p, k + 1)'
    BY <2>1, <2>2, <2>3, <2>4 DEF Place
  <2>6. Traces(t, p, k + 1)'
    BY <1>3, <2>1, <2>2, <2>3, OwnStep
  <2>7. QED BY <2>5, <2>6
<1>4. QED BY <1>1, <1>2, <1>3 DEF Next, TraceInv

\* At most one thread has a change of a shard to log, being the one that holds
\* its ordering lock.
LEMMA OneAtATime ==
  ASSUME \A w \in Workloads : Disciplined(w), PlaceInv, TypeOK, TraceInv, NEW s \in Shards
  PROVE  Cardinality(unlogged[s]) <= 1
<1>1. ASSUME NEW t \in unlogged[s] PROVE prop[s] = t
  <2>1. t \in Threads
    BY DEF TypeOK
  <2>2. PICK p, k : Place(t, p, k) /\ Traces(t, p, k)
    BY <2>1 DEF TraceInv, Between
  <2>3. p \in Seq(LockSteps) /\ Ordered(p) /\ k \in 1 .. Len(p) + 1
    BY <2>1, <2>2 DEF Place, PlaceInv, Disciplined
  <2>4. QED BY <2>1, <2>2, <2>3, PendingIsHeld
<1>2. unlogged[s] = {} \/ unlogged[s] = {prop[s]}
  BY <1>1
<1>3. Cardinality({}) = 0 /\ Cardinality({prop[s]}) = 1
  BY FS_EmptySet, FS_Singleton
<1>4. QED BY <1>2, <1>3

\* The invariant: where nobody swaps the traces, where nobody changes nothing.
IInv ==
  /\ PlaceInv /\ TypeOK
  /\ \/ Never("swap") /\ HomeInv /\ TraceInv
     \/ Never("change") /\ \A s \in Shards : unlogged[s] = {}

\* The invariant holds initially.
LEMMA Starts ==
  ASSUME \A w \in Workloads : Disciplined(w), Init
  PROVE  IInv
<1>1. TypeOK
  <2>1. 0 \in Dbs
    BY LockOrderAssumption DEF Dbs
  <2>2. QED BY <2>1 DEF Init, TypeOK
<1>2. PlaceInv
  BY DEF Init, PlaceInv
<1>3. HomeInv /\ TraceInv /\ \A s \in Shards : unlogged[s] = {}
  BY DEF Init, HomeInv, TraceInv, Between
<1>4. Never("swap") \/ Never("change")
  BY DEF Init, Disciplined, Never
<1>5. QED BY <1>1, <1>2, <1>3, <1>4 DEF IInv

\* And is preserved.
LEMMA InvStep ==
  ASSUME \A w \in Workloads : Disciplined(w), IInv, [Next]_vars
  PROVE  IInv'
<1>1. CASE UNCHANGED vars
  <2>1. PlaceInv' = PlaceInv
    BY <1>1, Zenon DEF PlaceInv, Place, vars
  <2>2. TypeOK' = TypeOK
    BY <1>1, Zenon DEF TypeOK, vars
  <2>3. HomeInv' = HomeInv
    BY <1>1, Zenon DEF HomeInv, vars
  <2>4. TraceInv => TraceInv'
    <3>1. UNCHANGED <<workload, script, slice, prop, unlogged>>
      BY <1>1 DEF vars
    <3>2. QED BY <3>1, TraceStays DEF TraceInv
  <2>5. Never("swap")' = Never("swap") /\ Never("change")' = Never("change")
    BY <1>1, Zenon DEF Never, vars
  <2>6. unlogged' = unlogged
    BY <1>1 DEF vars
  <2>7. QED BY <2>1, <2>2, <2>3, <2>4, <2>5, <2>6 DEF IInv
<1>2. CASE Next
  <2>0. Scripted
    BY DEF Disciplined, Scripted
  <2>1. PlaceInv' /\ TypeOK'
    BY <2>0, PlaceStep, TypeStep DEF IInv
  <2>2. CASE Never("swap") /\ HomeInv /\ TraceInv
    <3>1. HomeInv' /\ TraceInv' /\ Never("swap")'
      BY <1>2, <2>0, <2>2, HomeStep, TraceStep, NeverStep DEF IInv
    <3>2. QED BY <2>1, <3>1 DEF IInv
  <2>3. CASE Never("change") /\ \A s \in Shards : unlogged[s] = {}
    <3>1. Never("change")' /\ \A s \in Shards : unlogged'[s] = {}
      BY <1>2, <2>0, <2>3, NothingStep, NeverStep DEF IInv
    <3>2. QED BY <2>1, <3>1 DEF IInv
  <2>4. QED BY <2>2, <2>3 DEF IInv
<1>3. QED BY <1>1, <1>2

-----------------------------------------------------------------------------
\* Log order is execution order, shard by shard, whatever commands,
\* transactions, eviction, the expiry cycle and snapshots run beside one
\* another: it is enough that each by itself keeps to the discipline of
\* Execute and runAndPropagate.
THEOREM LogOrderIsExecutionOrder ==
  ASSUME \A w \in Workloads : Disciplined(w)
  PROVE  Spec => []WritesStayOrdered
<1>1. Init => IInv
  BY Starts
<1>2. IInv /\ [Next]_vars => IInv'
  BY InvStep
<1>3. IInv => WritesStayOrdered
  <2>1. ASSUME IInv, NEW s \in Shards PROVE Cardinality(unlogged[s]) <= 1
    <3>1. CASE TraceInv
      BY <2>1, <3>1, OneAtATime DEF IInv
    <3>2. CASE unlogged[s] = {}
      <4>1. Cardinality({}) = 0
        BY FS_EmptySet
      <4>2. QED BY <3>2, <4>1
    <3>3. QED BY <2>1, <3>1, <3>2 DEF IInv
  <2>2. QED BY <2>1 DEF IInv, WritesStayOrdered
<1>4. QED BY <1>1, <1>2, <1>3, PTL DEF Spec

-----------------------------------------------------------------------------
(***************************************************************************)
(* Deadlock.  Where nobody swaps, the locks a thread holds are exactly     *)
(* those its script has taken and not given back.                          *)
(***************************************************************************)
Locks(t, p, k) ==
  /\ \A d \in Dbs : Sees(p, k, d) => slice[t] = d
  /\ \A d \in Dbs, i \in Idx : prop[<<d, i>>] = t <=> Holds(p, k, d, i)
  /\ \A d \in Dbs, i \in Idx : mu[<<d, i>>] = t <=> HoldsMu(p, k, d, i)
  /\ \A l \in RWLocks : t \in readers[l] <=> HoldsRW(p, k, "rlock", l)
  /\ \A l \in RWLocks : writer[l] = t <=> HoldsRW(p, k, "lock", l)

HoldsNothing(t) ==
  /\ \A s \in Shards : prop[s] # t /\ mu[s] # t
  /\ \A l \in RWLocks : t \notin readers[l] /\ writer[l] # t

HeldInv ==
  \A t \in Threads :
    \/ script[t] = << >> /\ HoldsNothing(t)
    \/ \E p, k : Place(t, p, k) /\ Locks(t, p, k)

InOrder == \A w \in Workloads : InLockOrder(w)

\* Thread t is about to do step k of script p, holding what that takes.
Stands(t, p, k) ==
  /\ p \in workload[t] /\ p \in Seq(LockSteps) /\ WaitsInOrder(p)
  /\ k \in DOMAIN p /\ k \in Nat
  /\ Step(t) = p[k] /\ p[k] \in LockSteps /\ Locks(t, p, k)

\* sync.RWMutex keeps readers and writers apart.
RWInv == \A l \in RWLocks : writer[l] # Nobody => readers[l] = {}

\* What is held after one more step, exactly.
LEMMA HoldsNext ==
  ASSUME NEW p, NEW k \in Nat \ {0}, NEW d, NEW i
  PROVE  Holds(p, k + 1, d, i) <=>
           /\ p[k].op # "unprop"
           /\ Holds(p, k, d, i) \/ (p[k].op = "prop" /\ p[k].i = i /\ Sees(p, k, d))
<1>1. ASSUME p[k].op # "unprop", Holds(p, k, d, i) PROVE Holds(p, k + 1, d, i)
  <2>1. PICK m \in 1 .. k - 1 : /\ p[m].op = "prop" /\ p[m].i = i /\ Sees(p, m, d)
                                /\ \A l \in m .. k - 1 : p[l].op # "unprop"
    BY <1>1 DEF Holds
  <2>2. m \in 1 .. (k + 1) - 1 /\ \A l \in m .. (k + 1) - 1 : p[l].op # "unprop"
    BY <1>1, <2>1
  <2>3. QED BY <2>1, <2>2 DEF Holds
<1>2. ASSUME p[k].op = "prop", p[k].i = i, Sees(p, k, d) PROVE Holds(p, k + 1, d, i)
  <2>1. k \in 1 .. (k + 1) - 1 /\ \A l \in k .. (k + 1) - 1 : p[l].op # "unprop"
    BY <1>2
  <2>2. QED BY <1>2, <2>1 DEF Holds
<1>3. QED BY <1>1, <1>2, HoldsStep

\* The same of a data lock.
LEMMA HoldsMuNext ==
  ASSUME NEW p, NEW k \in Nat \ {0}, NEW d, NEW i
  PROVE  HoldsMu(p, k + 1, d, i) <=>
           /\ p[k].op # "unmu"
           /\ HoldsMu(p, k, d, i) \/ (p[k].op = "mu" /\ p[k].i = i /\ Sees(p, k, d))
<1>1. ASSUME p[k].op # "unmu", HoldsMu(p, k, d, i) PROVE HoldsMu(p, k + 1, d, i)
  <2>1. PICK m \in 1 .. k - 1 : /\ p[m].op = "mu" /\ p[m].i = i /\ Sees(p, m, d)
                                /\ \A l \in m .. k - 1 : p[l].op # "unmu"
    BY <1>1 DEF HoldsMu
  <2>2. m \in 1 .. (k + 1) - 1 /\ \A l \in m .. (k + 1) - 1 : p[l].op # "unmu"
    BY <1>1, <2>1
  <2>3. QED BY <2>1, <2>2 DEF HoldsMu
<1>2. ASSUME p[k].op = "mu", p[k].i = i, Sees(p, k, d) PROVE HoldsMu(p, k + 1, d, i)
  <2>1. k \in 1 .. (k + 1) - 1 /\ \A l \in k .. (k + 1) - 1 : p[l].op # "unmu"
    BY <1>2
  <2>2. QED BY <1>2, <2>1 DEF HoldsMu
<1>3. ASSUME HoldsMu(p, k + 1, d, i)
      PROVE  /\ p[k].op # "unmu"
             /\ HoldsMu(p, k, d, i) \/ (p[k].op = "mu" /\ p[k].i = i /\ Sees(p, k, d))
  <2>1. PICK m \in 1 .. k : /\ p[m].op = "mu" /\ p[m].i = i /\ Sees(p, m, d)
                            /\ \A l \in m .. k : p[l].op # "unmu"
    BY <1>3 DEF HoldsMu
  <2>2. CASE m = k
    BY <2>1, <2>2
  <2>3. CASE m # k
    BY <2>1, <2>3 DEF HoldsMu
  <2>4. QED BY <2>2, <2>3
<1>4. QED BY <1>1, <1>2, <1>3

\* And of an RWMutex.
LEMMA HoldsRWNext ==
  ASSUME NEW p, NEW k \in Nat \ {0}, NEW op \in {"rlock", "lock"}, NEW lock
  PROVE  HoldsRW(p, k + 1, op, lock) <=>
           /\ ~(p[k].op = "unlock" /\ p[k].lock = lock)
           /\ HoldsRW(p, k, op, lock) \/ (p[k].op = op /\ p[k].lock = lock)
<1>1. ASSUME ~(p[k].op = "unlock" /\ p[k].lock = lock), HoldsRW(p, k, op, lock)
      PROVE  HoldsRW(p, k + 1, op, lock)
  <2>1. PICK m \in 1 .. k - 1 : /\ p[m].op = op /\ p[m].lock = lock
                                /\ \A l \in m .. k - 1 : ~(p[l].op = "unlock" /\ p[l].lock = lock)
    BY <1>1 DEF HoldsRW
  <2>2. /\ m \in 1 .. (k + 1) - 1
        /\ \A l \in m .. (k + 1) - 1 : ~(p[l].op = "unlock" /\ p[l].lock = lock)
    BY <1>1, <2>1
  <2>3. QED BY <2>1, <2>2 DEF HoldsRW
<1>2. ASSUME p[k].op = op, p[k].lock = lock PROVE HoldsRW(p, k + 1, op, lock)
  <2>1. /\ k \in 1 .. (k + 1) - 1
        /\ \A l \in k .. (k + 1) - 1 : ~(p[l].op = "unlock" /\ p[l].lock = lock)
    BY <1>2
  <2>2. QED BY <1>2, <2>1 DEF HoldsRW
<1>3. ASSUME HoldsRW(p, k + 1, op, lock)
      PROVE  /\ ~(p[k].op = "unlock" /\ p[k].lock = lock)
             /\ HoldsRW(p, k, op, lock) \/ (p[k].op = op /\ p[k].lock = lock)
  <2>1. PICK m \in 1 .. k : /\ p[m].op = op /\ p[m].lock = lock
                            /\ \A l \in m .. k : ~(p[l].op = "unlock" /\ p[l].lock = lock)
    BY <1>3 DEF HoldsRW
  <2>2. CASE m = k
    BY <2>1, <2>2
  <2>3. CASE m # k
    BY <2>1, <2>3 DEF HoldsRW
  <2>4. QED BY <2>2, <2>3
<1>4. QED BY <1>1, <1>2, <1>3

\* What a step does to the other locks.
LEMMA LockEffect ==
  ASSUME NEW t \in Threads, TypeOK, Run(t)
  PROVE  /\ IF Step(t).op = "mu"
              THEN mu[Shard(t)] = Nobody /\ mu' = [mu EXCEPT ![Shard(t)] = t]
              ELSE IF Step(t).op = "unmu" THEN mu' = Freed(mu, t) ELSE mu' = mu
         /\ IF Step(t).op = "rlock"
              THEN /\ writer[Step(t).lock] = Nobody
                   /\ readers' = [readers EXCEPT ![Step(t).lock] = @ \cup {t}]
              ELSE IF Step(t).op = "unlock"
                     THEN readers' = [readers EXCEPT ![Step(t).lock] = @ \ {t}]
                     ELSE readers' = readers
         /\ IF Step(t).op = "lock"
              THEN /\ writer[Step(t).lock] = Nobody /\ readers[Step(t).lock] = {}
                   /\ writer' = [writer EXCEPT ![Step(t).lock] = t]
              ELSE IF Step(t).op = "unlock"
                     THEN writer' = [writer EXCEPT ![Step(t).lock] = IF @ = t THEN Nobody ELSE @]
                     ELSE writer' = writer
<1>1. CASE SeeSlice(t)
  BY <1>1 DEF SeeSlice, At
<1>2. CASE TakeProp(t)
  BY <1>2 DEF TakeProp, At
<1>3. CASE TakeMu(t)
  BY <1>3 DEF TakeMu, At
<1>4. CASE TakeRead(t)
  BY <1>4 DEF TakeRead, At, CanRLock
<1>5. CASE TakeWrite(t)
  BY <1>5 DEF TakeWrite, At, CanLock
<1>6. CASE ReleaseProp(t)
  BY <1>6 DEF ReleaseProp, At
<1>7. CASE ReleaseMu(t)
  BY <1>7 DEF ReleaseMu, At
<1>8. CASE ReleaseRW(t)
  BY <1>8 DEF ReleaseRW, At
<1>9. CASE ChangeShards(t)
  BY <1>9 DEF ChangeShards, At
<1>10. CASE SwapSlices(t)
  BY <1>10 DEF SwapSlices, At
<1>11. CASE AppendEffects(t)
  BY <1>11 DEF AppendEffects, At
<1>12. QED
  BY <1>1, <1>2, <1>3, <1>4, <1>5, <1>6, <1>7, <1>8, <1>9, <1>10, <1>11 DEF Run

\* A thread's own step: its locks follow its script.
LEMMA OwnLocks ==
  ASSUME TypeOK, HomeInv, NEW t \in Threads, Run(t),
         NEW p \in Seq(LockSteps), WaitsInOrder(p), NEW k \in 1 .. Len(p), Step(t) = p[k],
         Locks(t, p, k)
  PROVE  Locks(t, p, k + 1)'
<1>0. p[k] \in LockSteps /\ k \in Nat \ {0} /\ k \in DOMAIN p /\ t # Nobody
  BY LockOrderAssumption
<1>1. \A d \in Dbs : Sees(p, k + 1, d) => slice'[t] = d
  BY OwnSlice DEF Locks
<1>2. ASSUME NEW d \in Dbs, NEW i \in Idx
      PROVE  prop'[<<d, i>>] = t <=> Holds(p, k + 1, d, i)
  <2>0. <<d, i>> \in Shards /\ (prop[<<d, i>>] = t <=> Holds(p, k, d, i))
    BY DEF Shards, Locks
  <2>1. CASE p[k].op = "prop"
    <3>1. PICK e \in Dbs : Sees(p, k, e)
      BY <1>0, <2>1 DEF WaitsInOrder
    <3>2. Shard(t) = <<e, p[k].i>> /\ prop' = [prop EXCEPT ![Shard(t)] = t]
      BY <2>1, <3>1, RunEffect DEF Shard, Locks
    <3>3. Sees(p, k, d) => d = e
      BY <1>0, <3>1, SeesOne
    <3>4. Holds(p, k + 1, d, i) <=> Holds(p, k, d, i) \/ (p[k].i = i /\ Sees(p, k, d))
      BY <1>0, <2>1, HoldsNext
    <3>5. QED BY <2>0, <3>1, <3>2, <3>3, <3>4 DEF TypeOK
  <2>2. CASE p[k].op = "unprop"
    <3>1. prop' = Freed(prop, t)
      BY <2>2, RunEffect
    <3>2. ~Holds(p, k + 1, d, i)
      BY <1>0, <2>2, HoldsNext
    <3>3. QED BY <1>0, <2>0, <3>1, <3>2 DEF Freed
  <2>3. CASE p[k].op # "prop" /\ p[k].op # "unprop"
    <3>1. prop' = prop
      BY <2>3, RunEffect
    <3>2. Holds(p, k + 1, d, i) <=> Holds(p, k, d, i)
      BY <1>0, <2>3, HoldsNext
    <3>3. QED BY <2>0, <3>1, <3>2
  <2>4. QED BY <2>1, <2>2, <2>3
<1>3. ASSUME NEW d \in Dbs, NEW i \in Idx
      PROVE  mu'[<<d, i>>] = t <=> HoldsMu(p, k + 1, d, i)
  <2>0. <<d, i>> \in Shards /\ (mu[<<d, i>>] = t <=> HoldsMu(p, k, d, i))
    BY DEF Shards, Locks
  <2>1. CASE p[k].op = "mu"
    <3>1. PICK e \in Dbs : Sees(p, k, e)
      BY <1>0, <2>1 DEF WaitsInOrder
    <3>2. Shard(t) = <<e, p[k].i>> /\ mu' = [mu EXCEPT ![Shard(t)] = t]
      BY <2>1, <3>1, LockEffect DEF Shard, Locks
    <3>3. Sees(p, k, d) => d = e
      BY <1>0, <3>1, SeesOne
    <3>4. HoldsMu(p, k + 1, d, i) <=> HoldsMu(p, k, d, i) \/ (p[k].i = i /\ Sees(p, k, d))
      BY <1>0, <2>1, HoldsMuNext
    <3>5. QED BY <2>0, <3>1, <3>2, <3>3, <3>4 DEF TypeOK
  <2>2. CASE p[k].op = "unmu"
    <3>1. mu' = Freed(mu, t)
      BY <2>2, LockEffect
    <3>2. ~HoldsMu(p, k + 1, d, i)
      BY <1>0, <2>2, HoldsMuNext
    <3>3. QED BY <1>0, <2>0, <3>1, <3>2 DEF Freed
  <2>3. CASE p[k].op # "mu" /\ p[k].op # "unmu"
    <3>1. mu' = mu
      BY <2>3, LockEffect
    <3>2. HoldsMu(p, k + 1, d, i) <=> HoldsMu(p, k, d, i)
      BY <1>0, <2>3, HoldsMuNext
    <3>3. QED BY <2>0, <3>1, <3>2
  <2>4. QED BY <2>1, <2>2, <2>3
<1>4. ASSUME NEW l \in RWLocks
      PROVE  t \in readers'[l] <=> HoldsRW(p, k + 1, "rlock", l)
  <2>0. t \in readers[l] <=> HoldsRW(p, k, "rlock", l)
    BY DEF Locks
  <2>1. HoldsRW(p, k + 1, "rlock", l) <=>
          /\ ~(p[k].op = "unlock" /\ p[k].lock = l)
          /\ HoldsRW(p, k, "rlock", l) \/ (p[k].op = "rlock" /\ p[k].lock = l)
    BY <1>0, HoldsRWNext
  <2>2. t \in readers'[l] <=>
          /\ ~(p[k].op = "unlock" /\ p[k].lock = l)
          /\ t \in readers[l] \/ (p[k].op = "rlock" /\ p[k].lock = l)
    <3>1. CASE p[k].op = "rlock"
      <4>1. readers' = [readers EXCEPT ![p[k].lock] = @ \cup {t}]
        BY <3>1, LockEffect
      <4>2. QED BY <3>1, <4>1 DEF TypeOK
    <3>2. CASE p[k].op = "unlock"
      <4>1. readers' = [readers EXCEPT ![p[k].lock] = @ \ {t}]
        BY <3>2, LockEffect
      <4>2. QED BY <3>2, <4>1 DEF TypeOK
    <3>3. CASE p[k].op # "rlock" /\ p[k].op # "unlock"
      <4>1. readers' = readers
        BY <3>3, LockEffect
      <4>2. QED BY <3>3, <4>1
    <3>4. QED BY <3>1, <3>2, <3>3
  <2>3. QED BY <2>0, <2>1, <2>2
<1>5. ASSUME NEW l \in RWLocks
      PROVE  writer'[l] = t <=> HoldsRW(p, k + 1, "lock", l)
  <2>0. writer[l] = t <=> HoldsRW(p, k, "lock", l)
    BY DEF Locks
  <2>1. HoldsRW(p, k + 1, "lock", l) <=>
          /\ ~(p[k].op = "unlock" /\ p[k].lock = l)
          /\ HoldsRW(p, k, "lock", l) \/ (p[k].op = "lock" /\ p[k].lock = l)
    BY <1>0, HoldsRWNext
  <2>2. writer'[l] = t <=>
          /\ ~(p[k].op = "unlock" /\ p[k].lock = l)
          /\ writer[l] = t \/ (p[k].op = "lock" /\ p[k].lock = l)
    <3>1. CASE p[k].op = "lock"
      <4>1. writer' = [writer EXCEPT ![p[k].lock] = t]
        BY <3>1, LockEffect
      <4>2. QED BY <3>1, <4>1 DEF TypeOK
    <3>2. CASE p[k].op = "unlock"
      <4>1. writer' = [writer EXCEPT ![p[k].lock] = IF @ = t THEN Nobody ELSE @]
        BY <3>2, LockEffect
      <4>2. QED BY <1>0, <3>2, <4>1 DEF TypeOK
    <3>3. CASE p[k].op # "lock" /\ p[k].op # "unlock"
      <4>1. writer' = writer
        BY <3>3, LockEffect
      <4>2. QED BY <3>3, <4>1
    <3>4. QED BY <3>1, <3>2, <3>3
  <2>3. QED BY <2>0, <2>1, <2>2
<1>6. QED BY <1>1, <1>2, <1>3, <1>4, <1>5 DEF Locks

\* A thread's locks are its own: another's step neither takes nor gives one.
LEMMA OtherLocks ==
  ASSUME TypeOK, NEW t \in Threads, NEW u \in Threads, u # t, Begin(u) \/ Run(u)
  PROVE  /\ \A s \in Shards : prop'[s] = t <=> prop[s] = t
         /\ \A s \in Shards : mu'[s] = t <=> mu[s] = t
         /\ \A l \in RWLocks : t \in readers'[l] <=> t \in readers[l]
         /\ \A l \in RWLocks : writer'[l] = t <=> writer[l] = t
<1>0. t # Nobody
  BY LockOrderAssumption
<1>1. CASE Begin(u)
  BY <1>1 DEF Begin
<1>2. CASE Run(u)
  <2>1. ASSUME NEW s \in Shards PROVE prop'[s] = t <=> prop[s] = t
    <3>1. CASE Step(u).op = "prop"
      <4>1. prop[Shard(u)] = Nobody /\ prop' = [prop EXCEPT ![Shard(u)] = u]
        BY <1>2, <3>1, RunEffect
      <4>2. QED BY <1>0, <4>1 DEF TypeOK
    <3>2. CASE Step(u).op = "unprop"
      <4>1. prop' = Freed(prop, u)
        BY <1>2, <3>2, RunEffect
      <4>2. QED BY <1>0, <4>1 DEF Freed
    <3>3. CASE Step(u).op # "prop" /\ Step(u).op # "unprop"
      BY <1>2, <3>3, RunEffect
    <3>4. QED BY <3>1, <3>2, <3>3
  <2>2. ASSUME NEW s \in Shards PROVE mu'[s] = t <=> mu[s] = t
    <3>1. CASE Step(u).op = "mu"
      <4>1. mu[Shard(u)] = Nobody /\ mu' = [mu EXCEPT ![Shard(u)] = u]
        BY <1>2, <3>1, LockEffect
      <4>2. QED BY <1>0, <4>1 DEF TypeOK
    <3>2. CASE Step(u).op = "unmu"
      <4>1. mu' = Freed(mu, u)
        BY <1>2, <3>2, LockEffect
      <4>2. QED BY <1>0, <4>1 DEF Freed
    <3>3. CASE Step(u).op # "mu" /\ Step(u).op # "unmu"
      BY <1>2, <3>3, LockEffect
    <3>4. QED BY <3>1, <3>2, <3>3
  <2>3. ASSUME NEW l \in RWLocks PROVE t \in readers'[l] <=> t \in readers[l]
    <3>1. CASE Step(u).op = "rlock"
      <4>1. readers' = [readers EXCEPT ![Step(u).lock] = @ \cup {u}]
        BY <1>2, <3>1, LockEffect
      <4>2. QED BY <4>1 DEF TypeOK
    <3>2. CASE Step(u).op = "unlock"
      <4>1. readers' = [readers EXCEPT ![Step(u).lock] = @ \ {u}]
        BY <1>2, <3>2, LockEffect
      <4>2. QED BY <4>1 DEF TypeOK
    <3>3. CASE Step(u).op # "rlock" /\ Step(u).op # "unlock"
      BY <1>2, <3>3, LockEffect
    <3>4. QED BY <3>1, <3>2, <3>3
  <2>4. ASSUME NEW l \in RWLocks PROVE writer'[l] = t <=> writer[l] = t
    <3>1. CASE Step(u).op = "lock"
      <4>1. writer[Step(u).lock] = Nobody /\ writer' = [writer EXCEPT ![Step(u).lock] = u]
        BY <1>2, <3>1, LockEffect
      <4>2. QED BY <1>0, <4>1 DEF TypeOK
    <3>2. CASE Step(u).op = "unlock"
      <4>1. writer' = [writer EXCEPT ![Step(u).lock] = IF @ = u THEN Nobody ELSE @]
        BY <1>2, <3>2, LockEffect
      <4>2. QED BY <1>0, <4>1 DEF TypeOK
    <3>3. CASE Step(u).op # "lock" /\ Step(u).op # "unlock"
      BY <1>2, <3>3, LockEffect
    <3>4. QED BY <3>1, <3>2, <3>3
  <2>5. QED BY <2>1, <2>2, <2>3, <2>4
<1>3. QED BY <1>1, <1>2

\* At the end of its script a thread has given everything back.
LEMMA IdleHoldsNothing ==
  ASSUME InOrder, PlaceInv, HeldInv, NEW t \in Threads, ~Busy(t)
  PROVE  HoldsNothing(t)
<1>1. script[t] = << >>
  BY DEF Busy
<1>2. ASSUME NEW p, NEW k, Place(t, p, k), Locks(t, p, k) PROVE HoldsNothing(t)
  <2>1. p \in Seq(LockSteps) /\ WaitsInOrder(p) /\ k \in 1 .. Len(p) + 1
    BY <1>2 DEF Place, PlaceInv, InOrder, InLockOrder
  <2>2. k = Len(p) + 1
    <3>1. SubSeq(p, k, Len(p)) = << >>
      BY <1>1, <1>2 DEF Place
    <3>2. k <= Len(p) => Len(SubSeq(p, k, Len(p))) = Len(p) - k + 1
      BY <2>1
    <3>3. Len(<< >>) = 0
      OBVIOUS
    <3>4. QED BY <2>1, <3>1, <3>2, <3>3
  <2>3. NoProp(p, k) /\ NoMu(p, k) /\ \A l \in RWLocks : NoRW(p, k, l)
    BY <2>1, <2>2 DEF WaitsInOrder
  <2>4. ASSUME NEW s \in Shards PROVE prop[s] # t /\ mu[s] # t
    <3>1. PICK d \in Dbs, i \in Idx : s = <<d, i>>
      BY DEF Shards
    <3>2. QED BY <1>2, <2>3, <3>1 DEF Locks, NoProp, NoMu
  <2>5. ASSUME NEW l \in RWLocks PROVE t \notin readers[l] /\ writer[l] # t
    BY <1>2, <2>3 DEF Locks, NoRW
  <2>6. QED BY <2>4, <2>5 DEF HoldsNothing
<1>3. QED BY <1>2, <1>1 DEF HeldInv

\* Nothing is held at the start of a script.
LEMMA LocksAtStart ==
  ASSUME NEW t \in Threads, HoldsNothing(t), NEW p
  PROVE  Locks(t, p, 1)
<1>1. \A d, i : ~Sees(p, 1, d) /\ ~Holds(p, 1, d, i) /\ ~HoldsMu(p, 1, d, i)
  BY DEF Sees, Holds, HoldsMu
<1>2. \A op, l : ~HoldsRW(p, 1, op, l)
  BY DEF HoldsRW
<1>3. \A d \in Dbs, i \in Idx : <<d, i>> \in Shards
  BY DEF Shards
<1>4. QED BY <1>1, <1>2, <1>3 DEF Locks, HoldsNothing

\* What a thread holds stays with it while another runs.
LEMMA HeldStays ==
  ASSUME NEW t \in Threads,
         \/ script[t] = << >> /\ HoldsNothing(t)
         \/ \E p, k : Place(t, p, k) /\ Locks(t, p, k),
         script'[t] = script[t], slice'[t] = slice[t], workload' = workload,
         \A s \in Shards : prop'[s] = t <=> prop[s] = t,
         \A s \in Shards : mu'[s] = t <=> mu[s] = t,
         \A l \in RWLocks : t \in readers'[l] <=> t \in readers[l],
         \A l \in RWLocks : writer'[l] = t <=> writer[l] = t
  PROVE  \/ script'[t] = << >> /\ HoldsNothing(t)'
         \/ \E p, k : Place(t, p, k)' /\ Locks(t, p, k)'
<1>1. CASE script[t] = << >> /\ HoldsNothing(t)
  BY <1>1 DEF HoldsNothing
<1>2. ASSUME NEW p, NEW k, Place(t, p, k), Locks(t, p, k)
      PROVE  Place(t, p, k)' /\ Locks(t, p, k)'
  <2>1. Place(t, p, k)'
    BY <1>2 DEF Place
  <2>2. \A d \in Dbs, i \in Idx : <<d, i>> \in Shards
    BY DEF Shards
  <2>3. \A d \in Dbs : Sees(p, k, d) => slice'[t] = d
    BY <1>2 DEF Locks
  <2>4. \A d \in Dbs, i \in Idx : prop'[<<d, i>>] = t <=> Holds(p, k, d, i)
    BY <1>2, <2>2, Zenon DEF Locks
  <2>5. \A d \in Dbs, i \in Idx : mu'[<<d, i>>] = t <=> HoldsMu(p, k, d, i)
    BY <1>2, <2>2, Zenon DEF Locks
  <2>6. \A l \in RWLocks : t \in readers'[l] <=> HoldsRW(p, k, "rlock", l)
    BY <1>2, Zenon DEF Locks
  <2>7. \A l \in RWLocks : writer'[l] = t <=> HoldsRW(p, k, "lock", l)
    BY <1>2, Zenon DEF Locks
  <2>8. QED BY <2>1, <2>3, <2>4, <2>5, <2>6, <2>7 DEF Locks
<1>3. QED BY <1>1, <1>2

\* Every step leaves threads with what their scripts say they hold.
LEMMA HeldStep ==
  ASSUME InOrder, PlaceInv, TypeOK, HomeInv, HeldInv, Next
  PROVE  HeldInv'
<1>0. \A t \in Threads : \A p \in workload[t] : p \in Seq(LockSteps) /\ WaitsInOrder(p)
  BY DEF PlaceInv, InOrder, InLockOrder
<1>1. ASSUME NEW u \in Threads, Begin(u) \/ Run(u), NEW t \in Threads, u # t
      PROVE  \/ script'[t] = << >> /\ HoldsNothing(t)'
             \/ \E p, k : Place(t, p, k)' /\ Locks(t, p, k)'
  <2>1. script'[t] = script[t] /\ slice'[t] = slice[t] /\ workload' = workload
    BY <1>1, OtherStep
  <2>2. /\ \A s \in Shards : prop'[s] = t <=> prop[s] = t
        /\ \A s \in Shards : mu'[s] = t <=> mu[s] = t
        /\ \A l \in RWLocks : t \in readers'[l] <=> t \in readers[l]
        /\ \A l \in RWLocks : writer'[l] = t <=> writer[l] = t
    BY <1>1, OtherLocks
  <2>3. QED BY <2>1, <2>2, HeldStays DEF HeldInv
<1>2. ASSUME NEW t \in Threads, Begin(t)
      PROVE  \E p, k : Place(t, p, k)' /\ Locks(t, p, k)'
  <2>1. HoldsNothing(t)
    BY <1>2, IdleHoldsNothing DEF Begin
  <2>2. PICK p \in workload[t] : script' = [script EXCEPT ![t] = p]
    BY <1>2 DEF Begin
  <2>3. p \in Seq(LockSteps) /\ UNCHANGED <<workload, slice, prop, mu, readers, writer>>
    BY <1>0, <1>2 DEF Begin
  <2>4. Place(t, p, 1)'
    BY <2>2, <2>3, FirstStep DEF Place, PlaceInv
  <2>5. Locks(t, p, 1)
    BY <2>1, LocksAtStart
  <2>6. Locks(t, p, 1)'
    BY <2>3, <2>5, Zenon DEF Locks
  <2>7. QED BY <2>4, <2>6
<1>3. ASSUME NEW t \in Threads, Run(t)
      PROVE  \E p, k : Place(t, p, k)' /\ Locks(t, p, k)'
  <2>0. Busy(t) /\ Done(t)
    BY <1>3, RunIsDone
  <2>1. PICK p, k : Place(t, p, k) /\ Locks(t, p, k)
    BY <2>0 DEF HeldInv, Busy
  <2>2. p \in Seq(LockSteps) /\ WaitsInOrder(p)
    BY <1>0, <2>1 DEF Place
  <2>3. /\ k \in 1 .. Len(p) /\ Step(t) = p[k]
        /\ Tail(script[t]) = SubSeq(p, k + 1, Len(p))
    BY <2>0, <2>1, <2>2, NextStep DEF Place, Busy, Step
  <2>4. script'[t] = Tail(script[t]) /\ workload' = workload
    BY <2>0, DoneIs DEF PlaceInv
  <2>5. Place(t, p, k + 1)'
    BY <2>1, <2>2, <2>3, <2>4 DEF Place
  <2>6. Locks(t, p, k + 1)'
    BY <1>3, <2>1, <2>2, <2>3, OwnLocks
  <2>7. QED BY <2>5, <2>6
<1>4. QED BY <1>1, <1>2, <1>3 DEF Next, HeldInv

\* Readers and writers stay apart.
LEMMA RWStep ==
  ASSUME TypeOK, RWInv, Next
  PROVE  RWInv'
<1>1. ASSUME NEW t \in Threads, Begin(t) PROVE RWInv'
  BY <1>1 DEF Begin, RWInv
<1>2. ASSUME NEW t \in Threads, Run(t), NEW l \in RWLocks, writer'[l] # Nobody PROVE readers'[l] = {}
  <2>1. CASE Step(t).op = "rlock"
    <3>1. /\ writer[Step(t).lock] = Nobody /\ writer' = writer
          /\ readers' = [readers EXCEPT ![Step(t).lock] = @ \cup {t}]
      BY <1>2, <2>1, LockEffect
    <3>2. QED BY <1>2, <3>1 DEF TypeOK, RWInv
  <2>2. CASE Step(t).op = "lock"
    <3>1. /\ readers[Step(t).lock] = {} /\ readers' = readers
          /\ writer' = [writer EXCEPT ![Step(t).lock] = t]
      BY <1>2, <2>2, LockEffect
    <3>2. QED BY <1>2, <3>1 DEF TypeOK, RWInv
  <2>3. CASE Step(t).op = "unlock"
    <3>1. /\ readers' = [readers EXCEPT ![Step(t).lock] = @ \ {t}]
          /\ writer' = [writer EXCEPT ![Step(t).lock] = IF @ = t THEN Nobody ELSE @]
      BY <1>2, <2>3, LockEffect
    <3>2. writer[l] # Nobody
      BY <1>2, <3>1 DEF TypeOK
    <3>3. readers[l] = {}
      BY <3>2 DEF RWInv
    <3>4. QED BY <3>1, <3>3 DEF TypeOK
  <2>4. CASE Step(t).op \notin {"rlock", "lock", "unlock"}
    <3>1. readers' = readers /\ writer' = writer
      BY <1>2, <2>4, LockEffect
    <3>2. QED BY <1>2, <3>1 DEF RWInv
  <2>5. QED BY <2>1, <2>2, <2>3, <2>4
<1>3. QED BY <1>1, <1>2 DEF Next, RWInv

-----------------------------------------------------------------------------
\* Where a busy thread is.
LEMMA BusyIs ==
  ASSUME InOrder, PlaceInv, HeldInv, NEW t \in Threads, Busy(t)
  PROVE  \E p, k : Stands(t, p, k)
<1>1. PICK p, k : Place(t, p, k) /\ Locks(t, p, k)
  BY DEF HeldInv, Busy
<1>2. p \in workload[t] /\ p \in Seq(LockSteps) /\ WaitsInOrder(p)
  BY <1>1 DEF Place, PlaceInv, InOrder, InLockOrder
<1>3. k \in 1 .. Len(p) /\ Step(t) = p[k]
  BY <1>1, <1>2, NextStep DEF Place, Busy, Step
<1>4. k \in DOMAIN p /\ p[k] \in LockSteps /\ k \in Nat
  BY <1>2, <1>3
<1>5. QED BY <1>1, <1>2, <1>3, <1>4 DEF Stands

\* Who holds a lock is busy.
LEMMA HolderBusy ==
  ASSUME InOrder, PlaceInv, HeldInv, NEW t \in Threads,
         \/ \E s \in Shards : prop[s] = t \/ mu[s] = t
         \/ \E l \in RWLocks : t \in readers[l] \/ writer[l] = t
  PROVE  Busy(t)
BY IdleHoldsNothing DEF HoldsNothing

\* Who waits for an ordering lock holds only smaller ones, no data lock, and
\* keeps nobody out of barrier.
LEMMA AtProp ==
  ASSUME InOrder, PlaceInv, TypeOK, HeldInv, NEW t \in Threads, At(t, "prop")
  PROVE  /\ Step(t).i \in Idx
         /\ \A d \in Dbs, i \in Idx : prop[<<d, i>>] = t =>
              d < slice[t] \/ (d = slice[t] /\ i < Step(t).i)
         /\ \A d \in Dbs, i \in Idx : mu[<<d, i>>] # t
         /\ writer["barrier"] # t
<1>1. PICK p, k : Stands(t, p, k)
  BY BusyIs DEF At
<1>2. /\ WaitsInOrder(p) /\ k \in DOMAIN p /\ Step(t) = p[k] /\ p[k] \in LockSteps
      /\ Locks(t, p, k)
  BY <1>1 DEF Stands
<1>3. p[k].op = "prop" /\ p[k].i \in Idx
  BY <1>2, StepShape DEF At
<1>4. PICK e \in Dbs :
        /\ Sees(p, k, e)
        /\ \A d \in Dbs, i \in Idx : Holds(p, k, d, i) => d < e \/ (d = e /\ i < p[k].i)
  BY <1>2, <1>3, Zenon DEF WaitsInOrder
<1>5. slice[t] = e
  BY <1>2, <1>4 DEF Locks
<1>6. NoMu(p, k) /\ ~HoldsRW(p, k, "lock", "barrier")
  BY <1>2, <1>3, Zenon DEF WaitsInOrder
<1>7. \A d \in Dbs, i \in Idx : prop[<<d, i>>] = t => Holds(p, k, d, i)
  BY <1>2, Zenon DEF Locks
<1>8. \A d \in Dbs, i \in Idx : mu[<<d, i>>] # t
  BY <1>2, <1>6, Zenon DEF Locks, NoMu
<1>9. writer["barrier"] # t
  BY <1>2, <1>6 DEF Locks, RWLocks
<1>10. QED BY <1>2, <1>3, <1>4, <1>5, <1>7, <1>8, <1>9

\* Who waits for a data lock holds only smaller ones of that slice, or the
\* first ordering lock.
LEMMA AtMu ==
  ASSUME InOrder, PlaceInv, TypeOK, HeldInv, NEW t \in Threads, At(t, "mu")
  PROVE  /\ Step(t).i \in Idx
         /\ \A d \in Dbs, i \in Idx : mu[<<d, i>>] = t =>
              IF d = slice[t] THEN i < Step(t).i ELSE prop[<<0, 0>>] = t
<1>1. PICK p, k : Stands(t, p, k)
  BY BusyIs DEF At
<1>2. /\ WaitsInOrder(p) /\ k \in DOMAIN p /\ Step(t) = p[k] /\ p[k] \in LockSteps
      /\ Locks(t, p, k)
  BY <1>1 DEF Stands
<1>3. p[k].op = "mu" /\ p[k].i \in Idx
  BY <1>2, StepShape DEF At
<1>4. PICK e \in Dbs :
        /\ Sees(p, k, e)
        /\ \A d \in Dbs, i \in Idx : HoldsMu(p, k, d, i) =>
             IF d = e THEN i < p[k].i ELSE Holds(p, k, 0, 0)
  BY <1>2, <1>3, Zenon DEF WaitsInOrder
<1>5. slice[t] = e
  BY <1>2, <1>4 DEF Locks
<1>6. 0 \in Dbs /\ 0 \in Idx
  BY LockOrderAssumption DEF Dbs, Idx
<1>7. Holds(p, k, 0, 0) => prop[<<0, 0>>] = t
  BY <1>2, <1>6, Zenon DEF Locks
<1>8. \A d \in Dbs, i \in Idx : mu[<<d, i>>] = t => HoldsMu(p, k, d, i)
  BY <1>2, Zenon DEF Locks
<1>9. QED BY <1>2, <1>3, <1>4, <1>5, <1>7, <1>8

\* Who waits for an RWMutex does not have it, and no data lock; for
\* snapshotGuard, no ordering lock and not barrier either.
LEMMA AtRW ==
  ASSUME InOrder, PlaceInv, TypeOK, HeldInv, NEW t \in Threads, At(t, "rlock") \/ At(t, "lock")
  PROVE  /\ Step(t).lock \in RWLocks
         /\ \A d \in Dbs, i \in Idx : mu[<<d, i>>] # t
         /\ t \notin readers[Step(t).lock] /\ writer[Step(t).lock] # t
         /\ Step(t).lock = "snapshotGuard" =>
              /\ \A d \in Dbs, i \in Idx : prop[<<d, i>>] # t
              /\ t \notin readers["barrier"] /\ writer["barrier"] # t
<1>1. PICK p, k : Stands(t, p, k)
  BY BusyIs DEF At
<1>2. /\ WaitsInOrder(p) /\ k \in DOMAIN p /\ Step(t) = p[k] /\ p[k] \in LockSteps
      /\ Locks(t, p, k)
  BY <1>1 DEF Stands
<1>3. p[k].op \in {"rlock", "lock"} /\ p[k].lock \in RWLocks
  BY <1>2, StepShape DEF At
<1>4. /\ NoMu(p, k) /\ NoRW(p, k, p[k].lock)
      /\ p[k].lock = "snapshotGuard" => NoProp(p, k) /\ NoRW(p, k, "barrier")
  BY <1>2, <1>3, Zenon DEF WaitsInOrder
<1>5. \A d \in Dbs, i \in Idx : mu[<<d, i>>] # t
  BY <1>2, <1>4, Zenon DEF Locks, NoMu
<1>6. ASSUME NEW l \in RWLocks, NoRW(p, k, l) PROVE t \notin readers[l] /\ writer[l] # t
  BY <1>2, <1>6, Zenon DEF Locks, NoRW
<1>7. NoProp(p, k) => \A d \in Dbs, i \in Idx : prop[<<d, i>>] # t
  BY <1>2, Zenon DEF Locks, NoProp
<1>8. "barrier" \in RWLocks
  BY DEF RWLocks
<1>9. QED BY <1>2, <1>3, <1>4, <1>5, <1>6, <1>7, <1>8

\* Who waits to shut barrier, and who takes an ordering lock inside it, meet
\* at snapshotGuard.
LEMMA AtBarrier ==
  ASSUME InOrder, PlaceInv, TypeOK, HeldInv, NEW t \in Threads, NEW u \in Threads,
         At(t, "lock"), Step(t).lock = "barrier", At(u, "prop"), u \in readers["barrier"]
  PROVE  t \in readers["snapshotGuard"] /\ writer["snapshotGuard"] = u
<1>0. {"snapshotGuard", "barrier"} = RWLocks
  BY DEF RWLocks
<1>1. PICK p, k : Stands(t, p, k)
  BY BusyIs DEF At
<1>2. /\ WaitsInOrder(p) /\ k \in DOMAIN p /\ Step(t) = p[k] /\ p[k] \in LockSteps
      /\ Locks(t, p, k)
  BY <1>1 DEF Stands
<1>3. PICK q, j : Stands(u, q, j)
  BY BusyIs DEF At
<1>4. j \in DOMAIN q /\ Step(u) = q[j] /\ Locks(u, q, j)
  BY <1>3 DEF Stands
<1>5. p[k].op = "lock" /\ p[k].lock = "barrier" /\ q[j].op = "prop"
  BY <1>2, <1>4 DEF At
<1>6. InLockOrder(workload)
  BY DEF InOrder, PlaceInv
<1>7. BarrierGuarded(p) /\ BarrierGuarded(q)
  BY <1>1, <1>3, <1>5, <1>6, Zenon DEF InLockOrder, Stands
<1>8. HoldsRW(p, k, "rlock", "snapshotGuard")
  BY <1>2, <1>5, <1>7 DEF BarrierGuarded
<1>9. HoldsRW(q, j, "rlock", "barrier")
  BY <1>0, <1>4 DEF Locks
<1>10. HoldsRW(q, j, "lock", "snapshotGuard")
  BY <1>4, <1>5, <1>7, <1>9 DEF BarrierGuarded
<1>11. QED BY <1>0, <1>2, <1>4, <1>8, <1>10 DEF Locks

-----------------------------------------------------------------------------
\* A nonempty set of numbers has a least element.
LEMMA LeastNat ==
  ASSUME NEW T, T \subseteq Nat, T # {}
  PROVE  \E x \in T : \A y \in T : x <= y
<1> DEFINE R == OpToRel(<, Nat)
<1>1. IsWellFoundedOn(R, Nat)
  BY NatLessThanWellFounded
<1>2. R = {ss \in Nat \X Nat : ss[1] < ss[2]}
  BY Zenon DEF OpToRel
<1> HIDE DEF R
<1>3. PICK x \in T : \A y \in T : ~(<<y, x>> \in R)
  BY <1>1, WFMin, Zenon
<1>4. ASSUME NEW y \in T PROVE x <= y
  <2>1. x \in Nat /\ y \in Nat
    OBVIOUS
  <2>2. <<y, x>> \in Nat \X Nat /\ <<y, x>>[1] = y /\ <<y, x>>[2] = x
    BY <2>1
  <2>3. ~(y < x)
    BY <1>2, <1>3, <1>4, <2>2
  <2>4. QED BY <2>1, <2>3
<1>5. QED BY <1>4

\* A bounded set of numbers has a greatest.
LEMMA GreatestNat ==
  ASSUME NEW N \in Nat, NEW T, T \subseteq 0 .. N - 1, T # {}
  PROVE  \E x \in T : \A y \in T : y <= x
<1> DEFINE R == {N - x : x \in T}
<1>1. R \subseteq Nat /\ R # {}
  <2>1. \A x \in T : N - x \in Nat
    OBVIOUS
  <2>2. QED BY <2>1, Zenon
<1>2. PICK m \in R : \A y \in R : m <= y
  BY <1>1, LeastNat
<1>3. PICK x \in T : m = N - x
  OBVIOUS
<1>4. ASSUME NEW y \in T PROVE y <= x
  <2>1. N - x <= N - y
    BY <1>2, <1>3
  <2>2. x \in Int /\ y \in Int
    OBVIOUS
  <2>3. QED BY <2>1, <2>2
<1>5. QED BY <1>4

\* Everybody in the middle of an operation waits.
AllBlocked == \A t \in Threads : Busy(t) => Blocked(t)

\* Then nobody waits for a data lock: within one slice the one that waits for
\* the highest would wait for somebody who waits for a higher.
LEMMA NobodyAtMu ==
  ASSUME InOrder, PlaceInv, TypeOK, HeldInv, AllBlocked, NEW z \in Threads, At(z, "mu")
  PROVE  FALSE
<1> DEFINE InSlice(d) == {t \in Threads : At(t, "mu") /\ slice[t] = d}
<1>1. ASSUME NEW t \in Threads, At(t, "mu")
      PROVE  \E u \in Threads : At(u, "mu") /\ mu[<<slice[t], Step(t).i>>] = u
  <2>1. slice[t] \in Dbs /\ Step(t).i \in Idx
    BY <1>1, AtMu DEF TypeOK
  <2>2. Shard(t) = <<slice[t], Step(t).i>> /\ Shard(t) \in Shards
    BY <2>1 DEF Shard, Shards
  <2>3. mu[Shard(t)] # Nobody
    BY <1>1 DEF AllBlocked, Blocked, At
  <2>4. PICK u \in Threads : mu[Shard(t)] = u
    BY <2>2, <2>3 DEF TypeOK
  <2>5. Blocked(u)
    BY <2>2, <2>4, HolderBusy DEF AllBlocked
  <2>6. ~At(u, "prop") /\ ~At(u, "rlock") /\ ~At(u, "lock")
    BY <2>1, <2>2, <2>4, AtProp, AtRW
  <2>7. QED BY <2>2, <2>4, <2>5, <2>6 DEF Blocked
<1>2. ASSUME NEW d \in Dbs, NEW c \in InSlice(d),
             \A t \in Threads : At(t, "mu") /\ prop[<<0, 0>>] = t => slice[t] = d
      PROVE  FALSE
  <2> DEFINE W == {Step(t).i : t \in InSlice(d)}
  <2>1. W \subseteq 0 .. NShards - 1 /\ W # {}
    BY AtMu DEF Idx
  <2>2. PICK x \in W : \A y \in W : y <= x
    BY <2>1, GreatestNat, LockOrderAssumption
  <2>3. PICK t \in InSlice(d) : x = Step(t).i
    OBVIOUS
  <2>4. PICK u \in Threads : At(u, "mu") /\ mu[<<d, x>>] = u
    BY <1>1, <2>3
  <2>5. x \in Idx /\ Step(u).i \in Idx
    BY <2>1, <2>2, <2>4, AtMu DEF Idx
  <2>6. IF d = slice[u] THEN x < Step(u).i ELSE prop[<<0, 0>>] = u
    BY <2>4, <2>5, AtMu
  <2>7. slice[u] = d
    BY <1>2, <2>4, <2>6
  <2>8. Step(u).i \in W
    BY <2>4, <2>7
  <2>9. Step(u).i <= x /\ x < Step(u).i
    BY <2>2, <2>6, <2>7, <2>8
  <2>10. QED BY <2>5, <2>9 DEF Idx
<1>3. \A t \in Threads : slice[t] \in Dbs
  BY DEF TypeOK
<1>4. CASE \E c \in Threads : At(c, "mu") /\ prop[<<0, 0>>] = c
  <2>1. PICK c \in Threads : At(c, "mu") /\ prop[<<0, 0>>] = c
    BY <1>4
  <2>2. c \in InSlice(slice[c])
    BY <2>1
  <2>3. QED BY <1>2, <1>3, <2>1, <2>2
<1>5. CASE ~\E c \in Threads : At(c, "mu") /\ prop[<<0, 0>>] = c
  <2>1. z \in InSlice(slice[z])
    OBVIOUS
  <2>2. QED BY <1>2, <1>3, <1>5, <2>1
<1>6. QED BY <1>4, <1>5

\* Nor for barrier: who has it shut waits for nothing, and who is inside waits
\* for an ordering lock, with snapshotGuard shut against whoever would shut
\* barrier.
LEMMA NobodyAtBarrier ==
  ASSUME InOrder, PlaceInv, TypeOK, HeldInv, RWInv, AllBlocked,
         NEW z \in Threads, At(z, "rlock") \/ At(z, "lock"), Step(z).lock = "barrier"
  PROVE  FALSE
<1>0. "barrier" \in RWLocks /\ "snapshotGuard" \in RWLocks
  BY DEF RWLocks
<1>1. ASSUME NEW u \in Threads, u \in readers["barrier"] \/ writer["barrier"] = u
      PROVE  At(u, "prop") /\ writer["barrier"] # u
  <2>1. Blocked(u)
    BY <1>0, <1>1, HolderBusy DEF AllBlocked
  <2>2. ~At(u, "mu")
    BY NobodyAtMu
  <2>3. ~At(u, "rlock") /\ ~At(u, "lock")
    BY <1>1, AtRW DEF RWLocks
  <2>4. At(u, "prop")
    BY <2>1, <2>2, <2>3 DEF Blocked
  <2>5. QED BY <2>4, AtProp
<1>2. writer["barrier"] = Nobody
  BY <1>0, <1>1 DEF TypeOK
<1>3. ASSUME NEW t \in Threads, At(t, "lock"), Step(t).lock = "barrier" PROVE FALSE
  <2>1. readers["barrier"] # {}
    BY <1>2, <1>3 DEF AllBlocked, Blocked, At, CanLock
  <2>2. PICK u \in Threads : u \in readers["barrier"]
    BY <1>0, <2>1 DEF TypeOK
  <2>3. At(u, "prop")
    BY <1>1, <2>2
  <2>4. t \in readers["snapshotGuard"] /\ writer["snapshotGuard"] = u
    BY <1>3, <2>2, <2>3, AtBarrier
  <2>5. QED BY <1>0, <2>4, LockOrderAssumption DEF RWInv
<1>4. At(z, "rlock")
  BY <1>3
<1>5. ~Wanted("barrier")
  BY <1>3 DEF Wanted
<1>6. QED BY <1>2, <1>4, <1>5 DEF AllBlocked, Blocked, At, CanRLock

\* Nor for an ordering lock: the highest would be held by somebody who waits
\* for a higher.
LEMMA NobodyAtProp ==
  ASSUME InOrder, PlaceInv, TypeOK, HeldInv, RWInv, AllBlocked, NEW z \in Threads, At(z, "prop")
  PROVE  FALSE
<1>1. ASSUME NEW t \in Threads, At(t, "prop")
      PROVE  \E u \in Threads :
               /\ At(u, "prop")
               /\ slice[t] < slice[u] \/ (slice[t] = slice[u] /\ Step(t).i < Step(u).i)
  <2>1. slice[t] \in Dbs /\ Step(t).i \in Idx
    BY <1>1, AtProp DEF TypeOK
  <2>2. Shard(t) = <<slice[t], Step(t).i>> /\ Shard(t) \in Shards
    BY <2>1 DEF Shard, Shards
  <2>3. prop[Shard(t)] # Nobody
    BY <1>1 DEF AllBlocked, Blocked, At
  <2>4. PICK u \in Threads : prop[Shard(t)] = u
    BY <2>2, <2>3 DEF TypeOK
  <2>5. Blocked(u)
    BY <2>2, <2>4, HolderBusy DEF AllBlocked
  <2>6. ~At(u, "mu")
    BY NobodyAtMu
  <2>7. ASSUME At(u, "rlock") \/ At(u, "lock") PROVE FALSE
    <3>1. Step(u).lock # "barrier"
      BY <2>7, NobodyAtBarrier
    <3>2. Step(u).lock = "snapshotGuard"
      BY <2>7, <3>1, AtRW DEF RWLocks
    <3>3. QED BY <2>1, <2>2, <2>4, <2>7, <3>2, AtRW
  <2>8. At(u, "prop")
    BY <2>5, <2>6, <2>7 DEF Blocked
  <2>9. QED BY <2>1, <2>2, <2>4, <2>8, AtProp
<1> DEFINE D == {slice[t] : t \in {u \in Threads : At(u, "prop")}}
<1>2. D \subseteq 0 .. NDbs - 1 /\ D # {}
  BY DEF TypeOK, Dbs
<1>3. PICK d \in D : \A e \in D : e <= d
  BY <1>2, GreatestNat, LockOrderAssumption
<1> DEFINE I == {Step(t).i : t \in {u \in Threads : At(u, "prop") /\ slice[u] = d}}
<1>4. I \subseteq 0 .. NShards - 1 /\ I # {}
  BY AtProp DEF Idx
<1>5. PICK i \in I : \A j \in I : j <= i
  BY <1>4, GreatestNat, LockOrderAssumption
<1>6. PICK t \in {u \in Threads : At(u, "prop") /\ slice[u] = d} : Step(t).i = i
  BY Zenon
<1>7. PICK u \in Threads : /\ At(u, "prop")
                           /\ d < slice[u] \/ (d = slice[u] /\ i < Step(u).i)
  BY <1>1, <1>6
<1>8. slice[u] \in D /\ d \in Int /\ slice[u] \in Int
  BY <1>2, <1>7
<1>9. slice[u] = d /\ i < Step(u).i
  BY <1>3, <1>7, <1>8
<1>10. Step(u).i \in I /\ i \in Int /\ Step(u).i \in Int
  BY <1>4, <1>7, <1>9
<1>11. QED BY <1>5, <1>9, <1>10

\* So all would wait for snapshotGuard, which nobody has.
LEMMA SomebodyRuns ==
  ASSUME InOrder, PlaceInv, TypeOK, HeldInv, RWInv, AllBlocked, NEW z \in Threads, Busy(z)
  PROVE  FALSE
<1>0. "snapshotGuard" \in RWLocks
  BY DEF RWLocks
<1>1. ASSUME NEW t \in Threads, Busy(t)
      PROVE  (At(t, "rlock") \/ At(t, "lock")) /\ Step(t).lock = "snapshotGuard"
  <2>1. At(t, "rlock") \/ At(t, "lock")
    BY <1>1, NobodyAtMu, NobodyAtProp DEF AllBlocked, Blocked
  <2>2. Step(t).lock # "barrier"
    BY <2>1, NobodyAtBarrier
  <2>3. QED BY <2>1, <2>2, AtRW DEF RWLocks
<1>2. ASSUME NEW t \in Threads PROVE t \notin readers["snapshotGuard"] /\ writer["snapshotGuard"] # t
  <2>1. CASE Busy(t)
    BY <1>1, <2>1, AtRW
  <2>2. CASE ~Busy(t)
    BY <1>0, <2>2, HolderBusy
  <2>3. QED BY <2>1, <2>2
<1>3. writer["snapshotGuard"] = Nobody /\ readers["snapshotGuard"] = {}
  BY <1>0, <1>2 DEF TypeOK
<1>4. ASSUME NEW t \in Threads, At(t, "lock") PROVE FALSE
  BY <1>1, <1>3, <1>4 DEF AllBlocked, Blocked, At, CanLock
<1>5. ~Wanted("snapshotGuard")
  BY <1>4 DEF Wanted
<1>6. At(z, "rlock") /\ Step(z).lock = "snapshotGuard"
  BY <1>1, <1>4
<1>7. QED BY <1>3, <1>5, <1>6 DEF AllBlocked, Blocked, At, CanRLock

-----------------------------------------------------------------------------
LockInv ==
  /\ PlaceInv /\ TypeOK /\ Never("swap") /\ HomeInv
  /\ HeldInv /\ RWInv

\* No deadlock, whatever commands, transactions, eviction, the expiry cycle
\* and snapshots run beside one another, on any number of threads, databases
\* and shards: it is enough that each by itself takes the four layers of locks
\* in the order the engine's comments give, COPY across databases included.
THEOREM LockOrderPreventsDeadlock ==
  ASSUME \A w \in Workloads : InLockOrder(w)
  PROVE  Spec => []NoDeadlock
<1>0. InOrder /\ Scripted
  BY DEF InOrder, Scripted, InLockOrder
<1>1. Init => LockInv
  <2> SUFFICES ASSUME Init PROVE LockInv
    OBVIOUS
  <2>1. 0 \in Dbs
    BY LockOrderAssumption DEF Dbs
  <2>2. TypeOK /\ PlaceInv /\ HomeInv
    BY <2>1 DEF Init, TypeOK, PlaceInv, HomeInv
  <2>3. HeldInv /\ RWInv
    BY LockOrderAssumption DEF Init, HeldInv, HoldsNothing, RWInv
  <2>4. Never("swap")
    BY DEF Init, InLockOrder, Never
  <2>5. QED BY <2>2, <2>3, <2>4 DEF LockInv
<1>2. LockInv /\ [Next]_vars => LockInv'
  <2> SUFFICES ASSUME LockInv, [Next]_vars PROVE LockInv'
    OBVIOUS
  <2> USE DEF LockInv
  <2>1. CASE UNCHANGED vars
    <3>1. PlaceInv' = PlaceInv /\ TypeOK' = TypeOK
      BY <2>1, Zenon DEF PlaceInv, Place, TypeOK, vars
    <3>2. HomeInv' = HomeInv /\ Never("swap")' = Never("swap") /\ RWInv' = RWInv
      BY <2>1, Zenon DEF HomeInv, Never, RWInv, vars
    <3>3. HeldInv'
      <4>1. UNCHANGED <<workload, script, slice, prop, mu, readers, writer>>
        BY <2>1 DEF vars
      <4>2. QED BY <4>1, HeldStays DEF HeldInv
    <3>4. QED BY <3>1, <3>2, <3>3
  <2>2. CASE Next
    <3>1. PlaceInv' /\ TypeOK'
      BY <1>0, PlaceStep, TypeStep
    <3>2. HomeInv' /\ Never("swap")'
      BY <1>0, <2>2, HomeStep, NeverStep
    <3>3. HeldInv' /\ RWInv'
      BY <1>0, <2>2, HeldStep, RWStep
    <3>4. QED BY <3>1, <3>2, <3>3
  <2>3. QED BY <2>1, <2>2
<1>3. LockInv => NoDeadlock
  BY <1>0, SomebodyRuns DEF LockInv, NoDeadlock, AllBlocked
<1>4. QED BY <1>1, <1>2, <1>3, PTL DEF Spec
=============================================================================
