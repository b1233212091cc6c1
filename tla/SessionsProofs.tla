--------------------------- MODULE SessionsProofs ---------------------------
(***************************************************************************)
(* What Sessions promises for any number of clients, names and elements    *)
(* and any set of commands.  LockInv says who holds which ordering locks,  *)
(* WaitInv what a registration of a blocked client is about, OnceInv where *)
(* every element is, and MarkInv that a change of a watched key has left   *)
(* its mark.                                                               *)
(***************************************************************************)
EXTENDS Sessions, WellFoundedInduction, FiniteSetTheorems, TLAPS

\* Where a client's goroutine has a command of its own.
Busy == {"locked", "retry", "asleep", "woken", "timedOut", "release"}

\* A command runs with the locks of its keys, a transaction with all of them.
LockOK(c) ==
  /\ pc[c] \in Busy => cmd[c] \in Cmds
  /\ pc[c] \in {"locked", "retry"} => \A n \in Locks(cmd[c]) : lock[n] = c
  /\ pc[c] = "run" => \A n \in Names : lock[n] = c
LockInv == \A c \in Clients : LockOK(c)

\* A blocked client is registered for its command's keys, everyone else for none.
WaitOK(c) ==
  /\ pc[c] \in {"retry", "asleep", "woken", "timedOut"} =>
       waiters[c] = ToSet(cmd[c].on)
  /\ pc[c] \in {"idle", "locked", "exec", "run", "unwatch", "gone"} => waiters[c] = {}
  /\ pc[c] = "gone" => watching[c] = {}
WaitInv == \A c \in Clients : WaitOK(c)

\* The elements of a family of lists, and that none of them is there twice.
In(L, e) == \E n \in Names : \E i \in 1 .. Len(L[n]) : L[n][i] = e
Distinct(L) ==
  \A n, m \in Names : \A i \in 1 .. Len(L[n]), j \in 1 .. Len(L[m]) :
    L[n][i] = L[m][j] => n = m /\ i = j

\* Every element pushed so far is in one place of one list, or with one client,
\* or nowhere any more.
OnceInv ==
  /\ Distinct(list)
  /\ \A e \in Elems : In(list, e) => e <= pushed /\ \A c \in Clients : e \notin got[c]
  /\ \A c \in Clients : \A e \in got[c] : e <= pushed
  /\ \A c, d \in Clients : \A e \in got[c] \cap got[d] : c = d

\* A change of a key a client watches has broken its watch.
MarkInv == \A c \in Clients : changed[c] # {} => broken[c]

-----------------------------------------------------------------------------
(***************************************************************************)
(* Commands, sequences and small sets.                                     *)
(***************************************************************************)
LEMMA CmdShape ==
  ASSUME NEW k \in Cmds
  PROVE  /\ k.on \in Seq(Names) /\ Len(k.on) >= 1 /\ k.on[1] \in Names
         /\ k.to \subseteq Names /\ k.op \in {"push", "pop", "move"}
         /\ k.op # "move" => k.to = {}
         /\ k.op = "move" => \E m \in Names : k.to = {m}
         /\ \A i \in DOMAIN k.on : k.on[i] \in Names
         /\ ToSet(k.on) \subseteq Names /\ k.on[1] \in ToSet(k.on)
         /\ Locks(k) \subseteq Names /\ k.on[1] \in Locks(k)
<1>1. k \in Commands
  BY SessionsAssumption
<1>2. /\ k.on \in Seq(Names) /\ k.on # << >>
      /\ \/ k.op \in {"push", "pop"} /\ k.to = {}
         \/ k.op = "move" /\ \E m \in Names : k.to = {m}
  BY <1>1 DEF Commands
<1>3. Len(k.on) >= 1 /\ 1 \in DOMAIN k.on /\ \A i \in DOMAIN k.on : k.on[i] \in Names
  BY <1>2
<1>4. ToSet(k.on) \subseteq Names /\ k.on[1] \in ToSet(k.on)
  BY <1>3 DEF ToSet
<1>5. QED BY <1>2, <1>3, <1>4 DEF Locks

\* A nonempty sequence, taken apart.
LEMMA HeadTail ==
  ASSUME NEW S, NEW s \in Seq(S), s # << >>
  PROVE  /\ Len(s) \in Nat /\ Len(s) >= 1
         /\ Head(s) \in S /\ Head(s) = s[1]
         /\ Tail(s) \in Seq(S) /\ Len(Tail(s)) = Len(s) - 1
         /\ \A i \in 1 .. Len(s) - 1 : Tail(s)[i] = s[i + 1]
OBVIOUS

\* A set whose elements are all equal counts for at most one.
LEMMA AtMostOne ==
  ASSUME NEW S, \A x, y \in S : x = y
  PROVE  Cardinality(S) \in {0, 1} /\ (S = {} => Cardinality(S) = 0)
<1>1. CASE S = {}
  BY <1>1, FS_EmptySet
<1>2. CASE S # {}
  <2>1. PICK x : S = {x}
    BY <1>2
  <2>2. Cardinality(S) = 1
    BY <2>1, FS_Singleton
  <2>3. QED BY <1>2, <2>2
<1>3. QED BY <1>1, <1>2

-----------------------------------------------------------------------------
(***************************************************************************)
(* Types.                                                                  *)
(***************************************************************************)
\* The part of the type invariant a change of the keyspace touches, and the rest.
KeyType ==
  /\ list \in [Names -> Seq(Elems)] /\ pushed \in 0 .. MaxElems
  /\ got \in [Clients -> SUBSET Elems] /\ changed \in [Clients -> SUBSET Names]
  /\ broken \in [Clients -> BOOLEAN] /\ ready \in [Clients -> BOOLEAN]
  /\ watching \in [Clients -> SUBSET Names] /\ waiters \in [Clients -> SUBSET Names]

RestType ==
  /\ lock \in [Names -> Clients \cup {Nobody}]
  /\ pc \in [Clients -> {"idle", "locked", "retry", "asleep", "woken", "timedOut",
                         "release", "exec", "run", "unwatch", "gone"}]
  /\ cmd \in [Clients -> Cmds \cup {NoCmd}]
  /\ inMulti \in [Clients -> BOOLEAN] /\ aborted \in [Clients -> BOOLEAN]
  /\ queue \in [Clients -> Seq(Cmds)]
  /\ closed \in [Clients -> BOOLEAN] /\ quit \in BOOLEAN
  /\ asked \in 0 .. MaxAsked

\* The type invariant in two halves: the keys, and the rest.
LEMMA TypeParts == TypeOK <=> KeyType /\ RestType
BY DEF TypeOK, KeyType, RestType

\* The hook changes flags and histories and nothing else.
LEMMA TouchedType ==
  ASSUME KeyType, NEW N \in SUBSET Names, Touched(N)
  PROVE  /\ broken' \in [Clients -> BOOLEAN] /\ ready' \in [Clients -> BOOLEAN]
         /\ changed' \in [Clients -> SUBSET Names]
         /\ UNCHANGED <<watching, waiters>>
         /\ \A c \in Clients : /\ broken'[c] <=> broken[c] \/ watching[c] \cap N # {}
                               /\ ready'[c] <=> ready[c] \/ waiters[c] \cap N # {}
                               /\ changed'[c] = changed[c] \cup (N \cap watching[c])
<1>1. broken' \in [Clients -> BOOLEAN] /\ ready' \in [Clients -> BOOLEAN]
  BY DEF Touched, Break, Wake
<1>2. changed' \in [Clients -> SUBSET Names]
  BY DEF Touched, NoteChange, KeyType
<1>3. UNCHANGED <<watching, waiters>>
  BY DEF Touched
<1>4. \A c \in Clients : /\ broken'[c] <=> broken[c] \/ watching[c] \cap N # {}
                         /\ ready'[c] <=> ready[c] \/ waiters[c] \cap N # {}
                         /\ changed'[c] = changed[c] \cup (N \cap watching[c])
  BY Zenon DEF Touched, Break, Wake, NoteChange
<1>5. QED BY <1>1, <1>2, <1>3, <1>4

\* A push appends one new element to one list.
LEMMA PushType ==
  ASSUME KeyType, NEW n \in Names, Push(n)
  PROVE  /\ KeyType' /\ pushed' = pushed + 1 /\ got' = got
         /\ list' = [list EXCEPT ![n] = Append(list[n], pushed + 1)]
<1> USE SessionsAssumption
<1>1. pushed + 1 \in Elems /\ pushed' \in 0 .. MaxElems
  BY DEF Push, KeyType, Elems
<1>2. list' \in [Names -> Seq(Elems)]
  BY <1>1 DEF Push, KeyType
<1>3. QED BY <1>1, <1>2, TouchedType DEF Push, KeyType

\* A command is served from a list of its own that has an element.
LEMMA ServableIs ==
  ASSUME TypeOK, NEW k \in Cmds, NEW n \in Servable(k)
  PROVE  n \in Names /\ n \in ToSet(k.on) /\ list[n] # << >>
BY CmdShape DEF Servable, ToSet

\* A move leaves each list a sequence of elements, one of them one longer.
LEMMA TakeType ==
  ASSUME KeyType, NEW c \in Clients, NEW k \in Cmds, NEW n \in Names, list[n] # << >>,
         Take(c, k, n)
  PROVE  KeyType' /\ UNCHANGED pushed
<1> USE SessionsAssumption
<1> DEFINE e == Head(list[n])
           popped == [list EXCEPT ![n] = Tail(list[n])]
<1>1. e \in Elems /\ popped \in [Names -> Seq(Elems)]
  <2>1. list[n] \in Seq(Elems)
    BY DEF KeyType
  <2>2. e \in Elems /\ Tail(list[n]) \in Seq(Elems)
    BY <2>1, HeadTail
  <2>3. QED BY <2>2 DEF KeyType
<1>2. /\ \/ list' = popped /\ got' = [got EXCEPT ![c] = @ \cup {e}]
         \/ /\ list' = [m \in Names |-> popped[m] \o (IF m \in k.to THEN <<e>> ELSE << >>)]
            /\ got' = got
      /\ Touched({n} \cup k.to) /\ pushed' = pushed
  BY DEF Take
<1> HIDE DEF e, popped
<1>3. \A m \in Names : popped[m] \o (IF m \in k.to THEN <<e>> ELSE << >>) \in Seq(Elems)
  BY <1>1
<1>4. list' \in [Names -> Seq(Elems)]
  BY <1>1, <1>2, <1>3
<1>5. got' \in [Clients -> SUBSET Elems]
  <2>1. got \in [Clients -> SUBSET Elems] /\ got[c] \cup {e} \in SUBSET Elems
    BY <1>1 DEF KeyType
  <2>2. QED BY <1>2, <2>1
<1>6. {n} \cup k.to \in SUBSET Names
  BY CmdShape
<1>7. QED BY <1>2, <1>4, <1>5, <1>6, TouchedType DEF KeyType

\* A lock that is freed is nobody's.
LEMMA LockType ==
  ASSUME TypeOK, NEW c \in Clients
  PROVE  /\ Free(c) \in [Names -> Clients \cup {Nobody}]
         /\ \A N : [n \in Names |-> IF n \in N THEN c ELSE lock[n]]
                     \in [Names -> Clients \cup {Nobody}]
BY DEF TypeOK, Free

\* A client that does something does one of the commands.
LEMMA CmdIsKnown ==
  ASSUME TypeOK, NEW c \in Clients
  PROVE  /\ ToSet(cmd[c].on) \subseteq Names
         /\ cmd[c].op # "none" => cmd[c] \in Cmds
         /\ Servable(cmd[c]) # {} => cmd[c] \in Cmds
<1>1. CASE cmd[c] \in Cmds
  BY <1>1, CmdShape
<1>2. CASE cmd[c] = NoCmd
  BY <1>2 DEF NoCmd, ToSet, Servable
<1>3. QED BY <1>1, <1>2 DEF TypeOK

\* Every request, and then every step of a goroutine, keeps the types.
LEMMA RequestType ==
  ASSUME TypeOK, NEW c \in Clients, Request(c)
  PROVE  TypeOK'
<1> USE SessionsAssumption
<1> USE DEF keyspace, multi, registry, blocked, server, Ask, Goto
<1>1. CASE StartCommand(c)
  <2>1. lock' \in [Names -> Clients \cup {Nobody}]
    BY <1>1, LockType DEF StartCommand, Acquire
  <2>2. QED BY <1>1, <2>1 DEF StartCommand, TypeOK
<1>2. CASE cmdMulti(c)
  <2>1. inMulti' \in [Clients -> BOOLEAN] /\ aborted' \in [Clients -> BOOLEAN]
    BY <1>2 DEF cmdMulti, TypeOK
  <2>2. QED BY <1>2, <2>1 DEF cmdMulti, TypeOK
<1>3. CASE queueCommand(c)
  BY <1>3 DEF queueCommand, TypeOK
<1>4. CASE queueRefused(c)
  <2>1. aborted' \in [Clients -> BOOLEAN]
    BY <1>4 DEF queueRefused, TypeOK
  <2>2. QED BY <1>4, <2>1 DEF queueRefused, TypeOK
<1>5. CASE Abandon(c)
  <2>1. /\ inMulti' \in [Clients -> BOOLEAN] /\ aborted' \in [Clients -> BOOLEAN]
        /\ broken' \in [Clients -> BOOLEAN]
    BY <1>5 DEF Abandon, EndMulti, Unwatch, TypeOK
  <2>2. QED BY <1>5, <2>1 DEF Abandon, Unwatch, TypeOK
<1>6. CASE ExecBegin(c)
  <2>1. inMulti' \in [Clients -> BOOLEAN] /\ aborted' \in [Clients -> BOOLEAN]
    BY <1>6 DEF ExecBegin, EndMulti, TypeOK
  <2>2. pc' \in [Clients -> {"idle", "locked", "retry", "asleep", "woken", "timedOut",
                             "release", "exec", "run", "unwatch", "gone"}]
    BY <1>6 DEF ExecBegin, TypeOK
  <2>3. asked' \in 0 .. MaxAsked
    BY <1>6 DEF ExecBegin, TypeOK
  <2>4. UNCHANGED <<keyspace, lock, cmd, queue, registry, blocked, server>>
    BY <1>6 DEF ExecBegin
  <2>5. QED BY <2>1, <2>2, <2>3, <2>4 DEF TypeOK
<1>7. CASE cmdUnwatch(c)
  <2>1. broken' \in [Clients -> BOOLEAN]
    BY <1>7 DEF cmdUnwatch, Unwatch, TypeOK
  <2>2. QED BY <1>7, <2>1 DEF cmdUnwatch, Unwatch, TypeOK
<1>8. ASSUME NEW n \in Watched, cmdWatch(c, n) PROVE TypeOK'
  BY <1>8 DEF cmdWatch, TypeOK
<1>9. ASSUME NEW new \in [Names -> Seq(Elems)], Silently(c, new) PROVE TypeOK'
  <2>1. changed' \in [Clients -> SUBSET Names]
    BY <1>9 DEF Silently, NoteChange, TypeOK
  <2>2. QED BY <1>9, <2>1 DEF Silently, TypeOK
<1>10. CASE FlushAll(c)
  <2>1. [n \in Names |-> << >>] \in [Names -> Seq(Elems)]
    OBVIOUS
  <2>2. Silently(c, [n \in Names |-> << >>])
    BY <1>10 DEF FlushAll
  <2>3. QED BY <1>9, <2>1, <2>2
<1>11. ASSUME NEW d \in Dbs, NEW e \in Dbs, SwapDB(c, d, e) PROVE TypeOK'
  <2>1. \A n \in Names : <<e, n[2]>> \in Names /\ <<d, n[2]>> \in Names
    BY <1>11 DEF Names
  <2>2. [n \in Names |-> IF n[1] = d THEN list[<<e, n[2]>>]
                         ELSE IF n[1] = e THEN list[<<d, n[2]>>]
                         ELSE list[n]] \in [Names -> Seq(Elems)]
    BY <2>1 DEF TypeOK
  <2>3. QED BY <1>9, <1>11, <2>2 DEF SwapDB
<1>12. QED
  BY <1>1, <1>2, <1>3, <1>4, <1>5, <1>6, <1>7, <1>8, <1>10, <1>11
  DEF Request, cmdDiscard, ExecAbort

\* A step of a command keeps the types.
LEMMA ProgressType ==
  ASSUME TypeOK, NEW c \in Clients, Progress(c)
  PROVE  TypeOK'
<1> USE SessionsAssumption
<1> USE DEF keyspace, multi, registry, blocked, server, Ask, Goto
<1>1. CASE RunPush(c)
  <2>1. cmd[c].on[1] \in Names
    BY <1>1, CmdIsKnown, CmdShape DEF RunPush
  <2>2. KeyType'
    <3>1. CASE Push(cmd[c].on[1])
      BY <2>1, <3>1, PushType, TypeParts
    <3>2. CASE UNCHANGED <<keyspace, registry, blocked>>
      BY <3>2, TypeParts DEF KeyType
    <3>3. QED BY <1>1, <3>1, <3>2 DEF RunPush
  <2>3. RestType'
    BY <1>1, TypeParts DEF RunPush, RestType
  <2>4. QED BY <2>2, <2>3 DEF TypeOK, KeyType, RestType
<1>2. CASE Attempt(c)
  <2>1. PICK n \in Servable(cmd[c]) : Take(c, cmd[c], n)
    BY <1>2 DEF Attempt
  <2>2. cmd[c] \in Cmds /\ n \in Names /\ list[n] # << >>
    BY <2>1, CmdIsKnown, ServableIs
  <2>3. KeyType'
    BY <2>1, <2>2, TakeType, TypeParts
  <2>4. RestType'
    BY <1>2, TypeParts DEF Attempt, RestType
  <2>5. QED BY <2>3, <2>4 DEF TypeOK, KeyType, RestType
<1>3. ASSUME Register(c), UNCHANGED <<keyspace, cmd, multi, registry, server, asked>>
      PROVE  TypeOK'
  <2>1. ready' \in [Clients -> BOOLEAN]
    BY <1>3 DEF Register, TypeOK
  <2>2. lock' \in [Names -> Clients \cup {Nobody}]
    BY <1>3, LockType DEF Register
  <2>3. waiters' \in [Clients -> SUBSET Names]
    BY <1>3, CmdIsKnown DEF Register, TypeOK
  <2>4. QED BY <1>3, <2>1, <2>2, <2>3 DEF Register, TypeOK
<1>4. CASE FirstWait(c) \/ Again(c)
  BY <1>3, <1>4 DEF FirstWait, Again
<1>5. CASE Yield(c)
  BY <1>5, LockType DEF Yield, TypeOK
<1>6. CASE WokenByKey(c)
  <2>1. ready' \in [Clients -> BOOLEAN]
    BY <1>6 DEF WokenByKey, TypeOK
  <2>2. QED BY <1>6, <2>1 DEF WokenByKey, TypeOK
<1>7. CASE ServerQuits(c)
  BY <1>7 DEF ServerQuits, WaitEnds, TypeOK
<1>8. CASE GiveUp(c)
  <2>1. ready' \in [Clients -> BOOLEAN]
    BY <1>8 DEF GiveUp, Cancel, TypeOK
  <2>2. QED BY <1>8, <2>1 DEF GiveUp, Cancel, TypeOK
<1>9. CASE Release(c)
  <2>1. ready' \in [Clients -> BOOLEAN]
    BY <1>9 DEF Release, Cancel, TypeOK
  <2>2. QED BY <1>9, <2>1, LockType DEF Release, Cancel, TypeOK
<1>10. CASE ExecLocked(c)
  <2>1. lock' \in [Names -> Clients \cup {Nobody}]
    BY <1>10, LockType DEF ExecLocked, Acquire
  <2>2. QED BY <1>10, <2>1 DEF ExecLocked, TypeOK
<1>11. CASE RunQueued(c)
  <2> DEFINE k == Head(queue[c])
  <2>1. k \in Cmds /\ Tail(queue[c]) \in Seq(Cmds)
    <3>1. queue[c] \in Seq(Cmds) /\ queue[c] # << >>
      BY <1>11 DEF RunQueued, TypeOK
    <3>2. QED BY <3>1, HeadTail
  <2>2. \/ Push(k.on[1])
        \/ \E n \in Servable(k) : Take(c, k, n)
        \/ UNCHANGED <<keyspace, registry, blocked>>
    BY <1>11 DEF RunQueued
  <2> HIDE DEF k
  <2>3. KeyType'
    <3>1. CASE Push(k.on[1])
      BY <2>1, <3>1, CmdShape, PushType, TypeParts
    <3>2. CASE \E n \in Servable(k) : Take(c, k, n)
      BY <2>1, <3>2, ServableIs, TakeType, TypeParts
    <3>3. CASE UNCHANGED <<keyspace, registry, blocked>>
      BY <3>3, TypeParts DEF KeyType
    <3>4. QED BY <2>2, <3>1, <3>2, <3>3
  <2>4. RestType'
    BY <1>11, <2>1, TypeParts DEF RunQueued, RestType
  <2>5. QED BY <2>3, <2>4 DEF TypeOK, KeyType, RestType
<1>12. CASE ExecDone(c)
  BY <1>12, LockType DEF ExecDone, TypeOK
<1>13. CASE ExecUnwatch(c)
  <2>1. broken' \in [Clients -> BOOLEAN]
    BY <1>13 DEF ExecUnwatch, Unwatch, TypeOK
  <2>2. QED BY <1>13, <2>1, LockType DEF ExecUnwatch, Unwatch, TypeOK
<1>14. QED
  BY <1>1, <1>2, <1>4, <1>5, <1>6, <1>7, <1>8, <1>9, <1>10, <1>11, <1>12, <1>13
  DEF Progress

\* Every step keeps the types.
LEMMA TypeStep == TypeOK /\ [Next]_vars => TypeOK'
<1> SUFFICES ASSUME TypeOK, [Next]_vars PROVE TypeOK'
  OBVIOUS
<1> USE SessionsAssumption
<1> USE DEF keyspace, multi, registry, blocked, server, Ask, Goto
<1>1. ASSUME NEW c \in Clients, TimeoutExpires(c) PROVE TypeOK'
  BY <1>1 DEF TimeoutExpires, WaitEnds, TypeOK
<1>2. ASSUME NEW c \in Clients, Disconnect(c) PROVE TypeOK'
  <2>1. closed' \in [Clients -> BOOLEAN]
    BY <1>2 DEF Disconnect, TypeOK
  <2>2. QED BY <1>2, <2>1 DEF Disconnect, TypeOK
<1>3. ASSUME NEW c \in Clients, ConnectionEnds(c) PROVE TypeOK'
  <2>1. broken' \in [Clients -> BOOLEAN]
    BY <1>3 DEF ConnectionEnds, Unwatch, TypeOK
  <2>2. QED BY <1>3, <2>1 DEF ConnectionEnds, Unwatch, TypeOK
<1>4. ASSUME NEW n \in Names, Reap(n) PROVE TypeOK'
  <2>1. KeyType'
    <3>1. list' \in [Names -> Seq(Elems)] /\ pushed' = pushed /\ got' = got /\ Touched({n})
      BY <1>4 DEF Reap, TypeOK
    <3>2. QED BY <3>1, TouchedType, TypeParts DEF KeyType
  <2>2. RestType'
    BY <1>4, TypeParts DEF Reap, RestType
  <2>3. QED BY <2>1, <2>2 DEF TypeOK, KeyType, RestType
<1>5. CASE Quit
  BY <1>5 DEF Quit, TypeOK
<1>6. CASE UNCHANGED vars
  BY <1>6 DEF vars, TypeOK
<1>7. QED
  BY <1>1, <1>2, <1>3, <1>4, <1>5, <1>6, RequestType, ProgressType DEF Next

\* Every variable keeps its type, whatever clients send and in any order.
THEOREM TypeCorrect == Spec => []TypeOK
<1>1. Init => TypeOK
  <2> SUFFICES ASSUME Init PROVE TypeOK
    OBVIOUS
  <2>1. /\ inMulti \in [Clients -> BOOLEAN] /\ aborted \in [Clients -> BOOLEAN]
        /\ broken \in [Clients -> BOOLEAN] /\ ready \in [Clients -> BOOLEAN]
        /\ closed \in [Clients -> BOOLEAN] /\ quit \in BOOLEAN
    BY DEF Init
  <2>2. /\ list \in [Names -> Seq(Elems)] /\ pushed \in 0 .. MaxElems
        /\ queue \in [Clients -> Seq(Cmds)] /\ asked \in 0 .. MaxAsked
    BY SessionsAssumption DEF Init
  <2>3. QED BY <2>1, <2>2 DEF Init, TypeOK
<1>2. QED BY <1>1, TypeStep, PTL DEF Spec

-----------------------------------------------------------------------------
(***************************************************************************)
(* Locks and registrations.                                                *)
(***************************************************************************)
LEMMA LocksAreNames ==
  ASSUME TypeOK, NEW c \in Clients
  PROVE  Locks(cmd[c]) \subseteq Names
BY CmdIsKnown DEF Locks

\* A step of somebody else leaves a client's locks and registration alone.
LEMMA Others ==
  ASSUME TypeOK, NEW x \in Clients, LockOK(x), WaitOK(x),
         pc'[x] = pc[x], cmd'[x] = cmd[x], waiters'[x] = waiters[x],
         pc[x] = "gone" => watching'[x] \in {{}, watching[x]},
         \A n \in Names : lock[n] = x => lock'[n] = x
  PROVE  LockOK(x)' /\ WaitOK(x)'
<1>1. Locks(cmd[x]) \subseteq Names
  BY LocksAreNames
<1>2. LockOK(x)'
  BY <1>1 DEF LockOK
<1>3. WaitOK(x)'
  BY DEF WaitOK
<1>4. QED BY <1>2, <1>3

\* What freeing a client's locks, and taking free ones, does to the others.
LEMMA LocksOfOthers ==
  ASSUME TypeOK, NEW c \in Clients, NEW x \in Clients, x # c, NEW N,
         \A n \in N \cap Names : lock[n] \in {Nobody, c}
  PROVE  \A n \in Names : lock[n] = x =>
           /\ Free(c)[n] = x
           /\ [m \in Names |-> IF m \in N THEN c ELSE lock[m]][n] = x
BY SessionsAssumption DEF Free

\* A new request takes no lock and leaves no registration.
LEMMA RequestCtl ==
  ASSUME TypeOK, LockInv, WaitInv, NEW c \in Clients, Request(c)
  PROVE  LockInv' /\ WaitInv'
<1> USE DEF keyspace, multi, registry, blocked, server, Ask, Goto
<1>1. ASSUME UNCHANGED <<lock, pc, cmd, waiters>>,
             \A x \in Clients : pc[x] = "gone" => watching'[x] \in {{}, watching[x]}
      PROVE  LockInv' /\ WaitInv'
  BY <1>1, Others DEF LockInv, WaitInv
<1>2. CASE StartCommand(c)
  <2>1. PICK k \in Cmds : cmd' = [cmd EXCEPT ![c] = k] /\ Acquire(c, Locks(k))
    BY <1>2 DEF StartCommand
  <2>2. ASSUME NEW x \in Clients, x # c PROVE LockOK(x)' /\ WaitOK(x)'
    <3>1. \A n \in Names : lock[n] = x => lock'[n] = x
      BY <2>1, <2>2, LocksOfOthers, CmdShape DEF Acquire
    <3>2. pc'[x] = pc[x] /\ cmd'[x] = cmd[x] /\ waiters' = waiters /\ watching' = watching
      BY <1>2, <2>1, <2>2 DEF StartCommand, TypeOK
    <3>3. QED BY <3>1, <3>2, Others DEF LockInv, WaitInv
  <2>3. pc[c] = "idle" /\ pc'[c] = "locked" /\ cmd'[c] = k /\ waiters' = waiters
    BY <1>2, <2>1 DEF StartCommand, TypeOK
  <2>4. \A n \in Locks(k) : lock'[n] = c
    BY <2>1, CmdShape DEF Acquire
  <2>5. LockOK(c)'
    BY <2>3, <2>4 DEF LockOK, Busy
  <2>6. WaitOK(c)'
    BY <2>3 DEF WaitOK, WaitInv
  <2>7. QED BY <2>2, <2>5, <2>6 DEF LockInv, WaitInv
<1>3. CASE cmdMulti(c) \/ queueCommand(c) \/ queueRefused(c)
  BY <1>1, <1>3 DEF cmdMulti, queueCommand, queueRefused
<1>4. CASE Abandon(c) \/ cmdUnwatch(c)
  <2>1. UNCHANGED <<lock, pc, cmd, waiters>> /\ watching' = [watching EXCEPT ![c] = {}]
    BY <1>4 DEF Abandon, cmdUnwatch, Unwatch
  <2>2. QED BY <1>1, <2>1 DEF TypeOK
<1>5. ASSUME NEW n \in Watched, cmdWatch(c, n) PROVE LockInv' /\ WaitInv'
  <2>1. /\ UNCHANGED <<lock, pc, cmd, waiters>> /\ pc[c] = "idle"
        /\ watching' = [watching EXCEPT ![c] = @ \cup {n}]
    BY <1>5 DEF cmdWatch
  <2>2. QED BY <1>1, <2>1 DEF TypeOK
<1>6. CASE ExecBegin(c)
  <2>1. ASSUME NEW x \in Clients, x # c PROVE LockOK(x)' /\ WaitOK(x)'
    <3>1. /\ pc'[x] = pc[x] /\ cmd' = cmd /\ waiters' = waiters /\ watching' = watching
          /\ lock' = lock
      BY <1>6, <2>1 DEF ExecBegin, TypeOK
    <3>2. QED BY <3>1, Others DEF LockInv, WaitInv
  <2>2. pc[c] = "idle" /\ pc'[c] = "exec" /\ waiters' = waiters
    BY <1>6 DEF ExecBegin, TypeOK
  <2>3. LockOK(c)' /\ WaitOK(c)'
    BY <2>2 DEF LockOK, Busy, WaitOK, WaitInv
  <2>4. QED BY <2>1, <2>3 DEF LockInv, WaitInv
<1>7. ASSUME NEW new, Silently(c, new) PROVE LockInv' /\ WaitInv'
  BY <1>1, <1>7 DEF Silently
<1>8. QED
  BY <1>2, <1>3, <1>4, <1>5, <1>6, <1>7
  DEF Request, cmdDiscard, ExecAbort, FlushAll, SwapDB

\* A step of a command keeps the locks and registrations its place needs.
LEMMA ProgressCtl ==
  ASSUME TypeOK, LockInv, WaitInv, NEW c \in Clients, Progress(c) \/ WaitEnds(c)
  PROVE  LockInv' /\ WaitInv'
<1> USE SessionsAssumption
<1> USE DEF keyspace, multi, registry, blocked, server, Ask, Goto
<1>0. LockOK(c) /\ WaitOK(c) /\ Locks(cmd[c]) \subseteq Names
  BY LocksAreNames DEF LockInv, WaitInv
\* The others, for a step that frees c's locks or takes free ones.
<1>1. ASSUME LockOK(c)', WaitOK(c)',
             \A x \in Clients \ {c} : /\ pc'[x] = pc[x] /\ cmd'[x] = cmd[x]
                                      /\ waiters'[x] = waiters[x]
                                      /\ watching'[x] = watching[x],
             \/ lock' \in {lock, Free(c)}
             \/ \E N : /\ \A n \in N \cap Names : lock[n] \in {Nobody, c}
                       /\ lock' = [n \in Names |-> IF n \in N THEN c ELSE lock[n]]
      PROVE  LockInv' /\ WaitInv'
  <2>1. ASSUME NEW x \in Clients \ {c} PROVE LockOK(x)' /\ WaitOK(x)'
    <3>1. \A n \in Names : lock[n] = x => lock'[n] = x
      <4>1. CASE lock' \in {lock, Free(c)}
        BY <4>1 DEF Free
      <4>2. CASE lock' \notin {lock, Free(c)}
        <5>1. PICK N : /\ \A n \in N \cap Names : lock[n] \in {Nobody, c}
                       /\ lock' = [n \in Names |-> IF n \in N THEN c ELSE lock[n]]
          BY <1>1, <4>2
        <5>2. QED BY <5>1
      <4>3. QED BY <4>1, <4>2
    <3>2. QED BY <1>1, <3>1, Others DEF LockInv, WaitInv
  <2>2. QED BY <1>1, <2>1 DEF LockInv, WaitInv
<1>2. CASE RunPush(c)
  <2>1. watching' = watching /\ waiters' = waiters
    BY <1>2 DEF RunPush, Push, Touched
  <2>2. /\ pc' = [pc EXCEPT ![c] = "release"] /\ cmd' = cmd /\ lock' = lock
        /\ pc[c] = "locked"
    BY <1>2 DEF RunPush
  <2>3. LockOK(c)' /\ WaitOK(c)'
    BY <1>0, <2>1, <2>2 DEF LockOK, WaitOK, Busy, TypeOK
  <2>4. QED BY <1>1, <2>1, <2>2, <2>3 DEF TypeOK
<1>3. CASE Attempt(c)
  <2>1. watching' = watching /\ waiters' = waiters
    BY <1>3 DEF Attempt, Take, Touched
  <2>2. /\ pc' = [pc EXCEPT ![c] = "release"] /\ cmd' = cmd /\ lock' = lock
        /\ pc[c] \in {"locked", "retry"}
    BY <1>3 DEF Attempt
  <2>3. LockOK(c)' /\ WaitOK(c)'
    BY <1>0, <2>1, <2>2 DEF LockOK, WaitOK, Busy, TypeOK
  <2>4. QED BY <1>1, <2>1, <2>2, <2>3 DEF TypeOK
<1>4. CASE FirstWait(c) \/ Again(c)
  <2>1. /\ Register(c) /\ cmd' = cmd /\ watching' = watching
        /\ pc[c] \in {"locked", "woken"}
        /\ \A n \in Locks(cmd[c]) : lock[n] \in {Nobody, c}
    BY <1>0, <1>4 DEF FirstWait, Again, LockOK
  <2>2. /\ pc' = [pc EXCEPT ![c] = "retry"]
        /\ waiters' = [waiters EXCEPT ![c] = ToSet(cmd[c].on)]
        /\ lock' = [n \in Names |-> IF n \in Locks(cmd[c]) THEN c ELSE lock[n]]
    BY <2>1 DEF Register
  <2>3. LockOK(c)'
    BY <1>0, <2>1, <2>2 DEF LockOK, Busy, TypeOK
  <2>4. WaitOK(c)'
    BY <2>1, <2>2 DEF WaitOK, TypeOK
  <2>5. QED BY <1>1, <2>1, <2>2, <2>3, <2>4 DEF TypeOK
<1>5. CASE Yield(c)
  <2>1. /\ pc' = [pc EXCEPT ![c] = "asleep"] /\ pc[c] = "retry" /\ lock' = Free(c)
        /\ cmd' = cmd /\ watching' = watching /\ waiters' = waiters
    BY <1>5 DEF Yield
  <2>2. LockOK(c)' /\ WaitOK(c)'
    BY <1>0, <2>1 DEF LockOK, WaitOK, Busy, TypeOK
  <2>3. QED BY <1>1, <2>1, <2>2 DEF TypeOK
<1>6. CASE WokenByKey(c) \/ WaitEnds(c)
  <2>1. PICK to \in {"woken", "timedOut"} :
          /\ pc' = [pc EXCEPT ![c] = to] /\ pc[c] = "asleep" /\ lock' = lock
          /\ cmd' = cmd /\ watching' = watching /\ waiters' = waiters
    BY <1>6 DEF WokenByKey, WaitEnds
  <2>2. LockOK(c)' /\ WaitOK(c)'
    BY <1>0, <2>1 DEF LockOK, WaitOK, Busy, TypeOK
  <2>3. QED BY <1>1, <2>1, <2>2 DEF TypeOK
<1>7. CASE GiveUp(c) \/ Release(c)
  <2>1. /\ pc' = [pc EXCEPT ![c] = "idle"] /\ lock' \in {lock, Free(c)}
        /\ cmd' = [cmd EXCEPT ![c] = NoCmd] /\ watching' = watching
        /\ waiters' = [waiters EXCEPT ![c] = {}]
    BY <1>7 DEF GiveUp, Release, Cancel
  <2>2. LockOK(c)' /\ WaitOK(c)'
    BY <2>1 DEF LockOK, WaitOK, Busy, TypeOK
  <2>3. QED BY <1>1, <2>1, <2>2 DEF TypeOK
<1>8. CASE ExecLocked(c)
  <2>1. PICK to \in {"unwatch", "run"} :
          /\ pc' = [pc EXCEPT ![c] = to] /\ pc[c] = "exec"
          /\ \A n \in Names : lock[n] = Nobody
          /\ lock' = [n \in Names |-> IF n \in Names THEN c ELSE lock[n]]
          /\ cmd' = cmd /\ watching' = watching /\ waiters' = waiters
    BY <1>8 DEF ExecLocked, Acquire
  <2>2. LockOK(c)' /\ WaitOK(c)'
    BY <1>0, <2>1 DEF LockOK, WaitOK, Busy, TypeOK
  <2>3. \A n \in Names \cap Names : lock[n] \in {Nobody, c}
    BY <2>1
  <2>4. \A x \in Clients \ {c} : pc'[x] = pc[x]
    BY <2>1 DEF TypeOK
  <2>5. QED BY <1>1, <2>1, <2>2, <2>3, <2>4
<1>9. CASE RunQueued(c)
  <2>1. watching' = watching /\ waiters' = waiters
    BY <1>9 DEF RunQueued, Push, Take, Touched
  <2>2. pc' = pc /\ cmd' = cmd /\ lock' = lock
    BY <1>9 DEF RunQueued
  <2>3. LockOK(c)' /\ WaitOK(c)'
    BY <1>0, <2>1, <2>2 DEF LockOK, WaitOK
  <2>4. QED BY <1>1, <2>1, <2>2, <2>3
<1>10. CASE ExecDone(c)
  <2>1. /\ pc' = [pc EXCEPT ![c] = "unwatch"] /\ pc[c] = "run" /\ lock' = Free(c)
        /\ cmd' = cmd /\ watching' = watching /\ waiters' = waiters
    BY <1>10 DEF ExecDone
  <2>2. LockOK(c)' /\ WaitOK(c)'
    BY <1>0, <2>1 DEF LockOK, WaitOK, Busy, TypeOK
  <2>3. QED BY <1>1, <2>1, <2>2 DEF TypeOK
<1>11. CASE ExecUnwatch(c)
  <2>1. /\ pc' = [pc EXCEPT ![c] = "idle"] /\ pc[c] = "unwatch" /\ lock' = Free(c)
        /\ cmd' = cmd /\ watching' = [watching EXCEPT ![c] = {}] /\ waiters' = waiters
    BY <1>11 DEF ExecUnwatch, Unwatch
  <2>2. LockOK(c)' /\ WaitOK(c)'
    BY <1>0, <2>1 DEF LockOK, WaitOK, Busy, TypeOK
  <2>3. QED BY <1>1, <2>1, <2>2 DEF TypeOK
<1>12. QED
  BY <1>2, <1>3, <1>4, <1>5, <1>6, <1>7, <1>8, <1>9, <1>10, <1>11
  DEF Progress, ServerQuits

\* Every step keeps locks and registrations.
LEMMA CtlStep == TypeOK /\ LockInv /\ WaitInv /\ [Next]_vars => LockInv' /\ WaitInv'
<1> SUFFICES ASSUME TypeOK, LockInv, WaitInv, [Next]_vars PROVE LockInv' /\ WaitInv'
  OBVIOUS
<1> USE DEF keyspace, multi, registry, blocked, server, Ask, Goto
<1>1. ASSUME UNCHANGED <<lock, pc, cmd, waiters, watching>> PROVE LockInv' /\ WaitInv'
  BY <1>1, Others DEF LockInv, WaitInv
<1>2. ASSUME NEW c \in Clients, Disconnect(c) PROVE LockInv' /\ WaitInv'
  BY <1>1, <1>2 DEF Disconnect
<1>3. ASSUME NEW c \in Clients, ConnectionEnds(c) PROVE LockInv' /\ WaitInv'
  <2>1. /\ pc' = [pc EXCEPT ![c] = "gone"] /\ pc[c] = "idle" /\ lock' = lock
        /\ cmd' = cmd /\ watching' = [watching EXCEPT ![c] = {}] /\ waiters' = waiters
    BY <1>3 DEF ConnectionEnds, Unwatch
  <2>2. LockOK(c)' /\ WaitOK(c)'
    BY <2>1 DEF LockOK, WaitOK, WaitInv, Busy, TypeOK
  <2>3. ASSUME NEW x \in Clients \ {c} PROVE LockOK(x)' /\ WaitOK(x)'
    BY <2>1, Others DEF LockInv, WaitInv, TypeOK
  <2>4. QED BY <2>2, <2>3 DEF LockInv, WaitInv
<1>4. ASSUME NEW n \in Names, Reap(n) PROVE LockInv' /\ WaitInv'
  BY <1>1, <1>4 DEF Reap, Touched
<1>5. CASE Quit
  BY <1>1, <1>5 DEF Quit
<1>6. CASE UNCHANGED vars
  BY <1>1, <1>6 DEF vars
<1>7. QED
  BY <1>2, <1>3, <1>4, <1>5, <1>6, RequestCtl, ProgressCtl DEF Next, TimeoutExpires

\* So they hold in every reachable state.
LEMMA CtlCorrect == Spec => [](TypeOK /\ LockInv /\ WaitInv)
<1>1. Init => LockInv /\ WaitInv
  BY DEF Init, LockInv, LockOK, WaitInv, WaitOK, Busy
<1>2. QED BY <1>1, TypeCorrect, CtlStep, PTL DEF Spec

\* A registration never outlives the command or the connection that made it:
\* Blocked.Wait's cancel runs on every way out of a blocking command.
THEOREM NoStaleRegistrations == Spec => []NoStaleRegistration
<1>1. WaitInv => NoStaleRegistration
  BY DEF WaitInv, WaitOK, NoStaleRegistration
<1>2. QED BY <1>1, CtlCorrect, PTL

-----------------------------------------------------------------------------
(***************************************************************************)
(* The three kinds of step, as the keyspace sees them: no change, a change *)
(* that is signalled, and FLUSHALL or SWAPDB, which signal nobody.         *)
(***************************************************************************)
Quiet ==
  /\ UNCHANGED <<list, pushed, got>>
  /\ \A x \in Clients :
       /\ changed'[x] = {} \/ (changed'[x] = changed[x] /\ broken'[x] = broken[x])
       /\ pc'[x] = "asleep" =>
            /\ waiters'[x] = waiters[x]
            /\ Yield(x) \/ (pc[x] = "asleep" /\ ready'[x] = ready[x])

Signalled ==
  /\ \A x \in Clients : pc'[x] = "asleep" => pc[x] = "asleep"
  /\ \/ \E n \in Names : Push(n)
     \/ \E c \in Clients, k \in Cmds :
          k.op # "push" /\ \E n \in Servable(k) : Take(c, k, n)
     \/ \E n \in Names : /\ list' = [list EXCEPT ![n] = << >>]
                         /\ Touched({n}) /\ UNCHANGED <<pushed, got>>

Silent(c) == FlushAll(c) \/ \E d, e \in Dbs : SwapDB(c, d, e)

\* A signalled change touches every name whose list it changes.
LEMMA SignalledTouches ==
  ASSUME TypeOK, Signalled
  PROVE  \E N \in SUBSET Names :
           Touched(N) /\ \A n \in Names \ N : list'[n] = list[n]
<1> USE DEF TypeOK
<1>1. ASSUME NEW n \in Names, Push(n)
      PROVE  Touched({n}) /\ \A m \in Names \ {n} : list'[m] = list[m]
  BY <1>1 DEF Push
<1>2. ASSUME NEW c \in Clients, NEW k \in Cmds, NEW n \in Names, Take(c, k, n)
      PROVE  /\ {n} \cup k.to \in SUBSET Names /\ Touched({n} \cup k.to)
             /\ \A m \in Names \ ({n} \cup k.to) : list'[m] = list[m]
  <2>1. {n} \cup k.to \in SUBSET Names
    BY CmdShape
  <2>2. Touched({n} \cup k.to)
    BY <1>2 DEF Take
  <2>3. ASSUME NEW m \in Names, m # n, m \notin k.to PROVE list'[m] = list[m]
    <3>1. list[m] \in Seq(Elems) /\ list[m] \o << >> = list[m]
      OBVIOUS
    <3>2. CASE k.op = "pop"
      BY <1>2, <2>3, <3>2 DEF Take
    <3>3. CASE k.op # "pop"
      <4>1. list'[m] = [list EXCEPT ![n] = Tail(list[n])][m] \o << >>
        BY <1>2, <2>3, <3>3 DEF Take
      <4>2. QED BY <2>3, <3>1, <4>1
    <3>4. QED BY <3>2, <3>3
  <2>4. QED BY <2>1, <2>2, <2>3
<1>3. ASSUME NEW n \in Names, list' = [list EXCEPT ![n] = << >>], Touched({n})
      PROVE  Touched({n}) /\ \A m \in Names \ {n} : list'[m] = list[m]
  BY <1>3
<1>4. QED
  <2>1. ASSUME NEW n \in Names, Push(n)
        PROVE  \E N \in SUBSET Names :
                 Touched(N) /\ \A m \in Names \ N : list'[m] = list[m]
    <3>1. {n} \in SUBSET Names
      OBVIOUS
    <3>2. WITNESS {n} \in SUBSET Names
    <3>3. QED BY <1>1, <2>1, Zenon
  <2>2. ASSUME NEW c \in Clients, NEW k \in Cmds, NEW n \in Servable(k), Take(c, k, n)
        PROVE  \E N \in SUBSET Names :
                 Touched(N) /\ \A m \in Names \ N : list'[m] = list[m]
    <3>1. n \in Names
      BY ServableIs
    <3>2. {n} \cup k.to \in SUBSET Names
      BY <1>2, <2>2, <3>1
    <3>3. WITNESS {n} \cup k.to \in SUBSET Names
    <3>4. QED BY <1>2, <2>2, <3>1, Zenon
  <2>3. ASSUME NEW n \in Names, list' = [list EXCEPT ![n] = << >>], Touched({n})
        PROVE  \E N \in SUBSET Names :
                 Touched(N) /\ \A m \in Names \ N : list'[m] = list[m]
    <3>1. {n} \in SUBSET Names
      OBVIOUS
    <3>2. WITNESS {n} \in SUBSET Names
    <3>3. QED BY <1>3, <2>3, Zenon
  <2>4. QED BY <2>1, <2>2, <2>3 DEF Signalled

\* A step changes no list, or changes lists and calls the hook for each, or is
\* one of the silent writes.
LEMMA KindOfStep ==
  ASSUME TypeOK, LockInv, [Next]_vars
  PROVE  Quiet \/ Signalled \/ \E c \in Clients : Silent(c)
<1> USE DEF keyspace, multi, registry, blocked, server, Ask, Goto
<1>1. ASSUME UNCHANGED <<list, pushed, got, changed, broken, pc, waiters, ready>>
      PROVE  Quiet
  BY <1>1 DEF Quiet
\* Unwatch takes the marks of one client back.
<1>2. ASSUME NEW c \in Clients, Unwatch(c), UNCHANGED <<list, pushed, got, waiters, ready>>,
             pc' = pc \/ \E to \in {"idle", "gone"} : pc' = [pc EXCEPT ![c] = to]
      PROVE  Quiet
  BY <1>2 DEF Unwatch, Quiet, TypeOK
\* A goroutine goes somewhere else than to sleep.
<1>3. ASSUME NEW c \in Clients, UNCHANGED <<keyspace, broken>>,
             NEW to \in {"locked", "exec", "retry", "woken", "timedOut", "idle", "unwatch", "run"},
             pc' = [pc EXCEPT ![c] = to],
             \A x \in Clients \ {c} : waiters'[x] = waiters[x] /\ ready'[x] = ready[x]
      PROVE  Quiet
  BY <1>3 DEF Quiet, TypeOK
<1>4. ASSUME NEW c \in Clients, Request(c) PROVE Quiet \/ Silent(c)
  <2>1. CASE StartCommand(c) \/ ExecBegin(c)
    BY <1>3, <2>1 DEF StartCommand, ExecBegin
  <2>2. CASE cmdMulti(c) \/ queueCommand(c) \/ queueRefused(c)
    BY <1>1, <2>2 DEF cmdMulti, queueCommand, queueRefused
  <2>3. CASE Abandon(c) \/ cmdUnwatch(c)
    BY <1>2, <2>3 DEF Abandon, cmdUnwatch
  <2>4. ASSUME NEW n \in Watched, cmdWatch(c, n) PROVE Quiet
    BY <1>1, <2>4 DEF cmdWatch
  <2>5. QED BY <1>4, <2>1, <2>2, <2>3, <2>4 DEF Request, cmdDiscard, ExecAbort, Silent
<1>5. ASSUME NEW c \in Clients, Progress(c) \/ WaitEnds(c) PROVE Quiet \/ Signalled
  <2>0. LockOK(c)
    BY DEF LockInv
  <2>1. CASE RunPush(c)
    <3>1. pc' = [pc EXCEPT ![c] = "release"]
      BY <2>1 DEF RunPush
    <3>2. cmd[c].on[1] \in Names
      BY <2>1, CmdIsKnown, CmdShape DEF RunPush
    <3>3. CASE Push(cmd[c].on[1])
      BY <3>1, <3>2, <3>3 DEF Signalled, TypeOK
    <3>4. CASE UNCHANGED <<keyspace, registry, blocked>>
      BY <3>1, <3>4 DEF Quiet, TypeOK
    <3>5. QED BY <2>1, <3>3, <3>4 DEF RunPush
  <2>2. CASE Attempt(c)
    <3>1. pc' = [pc EXCEPT ![c] = "release"] /\ cmd[c].op # "push"
      BY <2>2 DEF Attempt
    <3>2. PICK n \in Servable(cmd[c]) : Take(c, cmd[c], n)
      BY <2>2 DEF Attempt
    <3>3. cmd[c] \in Cmds
      BY <3>2, CmdIsKnown
    <3>4. QED BY <3>1, <3>2, <3>3 DEF Signalled, TypeOK
  <2>3. CASE FirstWait(c) \/ Again(c)
    <3>1. Register(c) /\ UNCHANGED <<keyspace, broken>>
      BY <2>3 DEF FirstWait, Again
    <3>2. \A x \in Clients \ {c} : waiters'[x] = waiters[x] /\ ready'[x] = ready[x]
      BY <3>1 DEF Register, TypeOK
    <3>3. QED BY <1>3, <3>1, <3>2 DEF Register
  <2>4. CASE Yield(c)
    <3>1. /\ pc' = [pc EXCEPT ![c] = "asleep"]
          /\ UNCHANGED <<list, pushed, got, changed, broken, waiters, ready>>
      BY <2>4 DEF Yield
    <3>2. ASSUME NEW x \in Clients, pc'[x] = "asleep"
          PROVE  Yield(x) \/ (pc[x] = "asleep" /\ ready'[x] = ready[x])
      BY <2>4, <3>1, <3>2 DEF TypeOK
    <3>3. QED BY <3>1, <3>2 DEF Quiet
  <2>5. CASE WokenByKey(c) \/ WaitEnds(c)
    <3>1. \A x \in Clients \ {c} : waiters'[x] = waiters[x] /\ ready'[x] = ready[x]
      BY <2>5 DEF WokenByKey, WaitEnds, TypeOK
    <3>2. QED BY <1>3, <2>5, <3>1 DEF WokenByKey, WaitEnds
  <2>6. CASE GiveUp(c) \/ Release(c)
    <3>1. \A x \in Clients \ {c} : waiters'[x] = waiters[x] /\ ready'[x] = ready[x]
      BY <2>6 DEF GiveUp, Release, Cancel, TypeOK
    <3>2. QED BY <1>3, <2>6, <3>1 DEF GiveUp, Release
  <2>7. CASE ExecLocked(c)
    <3>1. PICK to \in {"unwatch", "run"} : pc' = [pc EXCEPT ![c] = to]
      BY <2>7 DEF ExecLocked
    <3>2. UNCHANGED <<keyspace, broken, waiters, ready>>
      BY <2>7 DEF ExecLocked
    <3>3. QED BY <1>3, <3>1, <3>2
  <2>8. CASE RunQueued(c)
    <3> DEFINE k == Head(queue[c])
    <3>1. k \in Cmds
      <4>1. queue[c] \in Seq(Cmds) /\ queue[c] # << >>
        BY <2>8 DEF RunQueued, TypeOK
      <4>2. QED BY <4>1, HeadTail
    <3>2. /\ \/ Push(k.on[1])
             \/ k.op # "push" /\ \E n \in Servable(k) : Take(c, k, n)
             \/ UNCHANGED <<keyspace, registry, blocked>>
          /\ pc' = pc
      BY <2>8 DEF RunQueued
    <3> HIDE DEF k
    <3>3. CASE Push(k.on[1])
      BY <3>1, <3>2, <3>3, CmdShape DEF Signalled
    <3>4. CASE k.op # "push" /\ \E n \in Servable(k) : Take(c, k, n)
      BY <3>1, <3>2, <3>4 DEF Signalled
    <3>5. CASE UNCHANGED <<keyspace, registry, blocked>>
      BY <1>1, <3>2, <3>5
    <3>6. QED BY <3>2, <3>3, <3>4, <3>5
  <2>9. CASE ExecDone(c)
    BY <1>3, <2>9 DEF ExecDone
  <2>10. CASE ExecUnwatch(c)
    BY <1>2, <2>10 DEF ExecUnwatch
  <2>11. QED
    BY <1>5, <2>1, <2>2, <2>3, <2>4, <2>5, <2>6, <2>7, <2>8, <2>9, <2>10
    DEF Progress, ServerQuits
<1>6. ASSUME NEW c \in Clients, Disconnect(c) PROVE Quiet
  BY <1>1, <1>6 DEF Disconnect
<1>7. ASSUME NEW c \in Clients, ConnectionEnds(c) PROVE Quiet
  BY <1>2, <1>7 DEF ConnectionEnds
<1>8. ASSUME NEW n \in Names, Reap(n) PROVE Signalled
  BY <1>8 DEF Reap, Signalled
<1>9. CASE Quit
  BY <1>1, <1>9 DEF Quit
<1>10. CASE UNCHANGED vars
  BY <1>1, <1>10 DEF vars
<1>11. QED
  BY <1>4, <1>5, <1>6, <1>7, <1>8, <1>9, <1>10 DEF Next, TimeoutExpires

-----------------------------------------------------------------------------
(***************************************************************************)
(* WATCH and EXEC.                                                         *)
(***************************************************************************)
LEMMA MarkStep ==
  ASSUME ~SilentWrites, TypeOK, LockInv, MarkInv, [Next]_vars
  PROVE  MarkInv'
<1>1. CASE Quiet
  BY <1>1 DEF Quiet, MarkInv
<1>2. CASE Signalled
  <2>1. PICK N \in SUBSET Names : Touched(N)
    BY <1>2, SignalledTouches
  <2>2. KeyType
    BY TypeParts
  <2>3. \A c \in Clients : /\ broken'[c] <=> broken[c] \/ watching[c] \cap N # {}
                           /\ changed'[c] = changed[c] \cup (N \cap watching[c])
    BY <2>1, <2>2, TouchedType
  <2>4. QED BY <2>3, Zenon DEF MarkInv
<1>3. ASSUME NEW c \in Clients, Silent(c) PROVE MarkInv'
  <2>1. \A x \in Clients : watching[x] = {}
    BY <1>3 DEF Silent, FlushAll, SwapDB
  <2>2. PICK N \in SUBSET Names : NoteChange(N) /\ broken' = broken
    <3>1. ASSUME NEW new, Silently(c, new)
          PROVE  \E N \in SUBSET Names : NoteChange(N) /\ broken' = broken
      <4>1. {n \in Names : new[n] # list[n]} \in SUBSET Names
        OBVIOUS
      <4>2. WITNESS {n \in Names : new[n] # list[n]} \in SUBSET Names
      <4>3. QED BY <3>1, Zenon DEF Silently, registry
    <3>2. QED BY <1>3, <3>1, Zenon DEF Silent, FlushAll, SwapDB
  <2>3. \A x \in Clients : changed'[x] = changed[x]
    BY <2>1, <2>2 DEF NoteChange, TypeOK
  <2>4. QED BY <2>2, <2>3 DEF MarkInv
<1>4. QED BY <1>1, <1>2, <1>3, KindOfStep

\* Nothing but the check of the watched keys lets a queue run.
LEMMA OnlyExecRuns ==
  ASSUME TypeOK, Next, NEW c \in Clients, pc[c] # "run", pc'[c] = "run"
  PROVE  ExecLocked(c)
<1> USE DEF Goto
<1>1. ASSUME NEW x \in Clients, NEW to, to # "run", pc' = [pc EXCEPT ![x] = to]
      PROVE  FALSE
  BY <1>1 DEF TypeOK
<1>2. pc' # pc
  OBVIOUS
<1>3. ASSUME NEW x \in Clients, Request(x) PROVE FALSE
  <2>1. CASE StartCommand(x) \/ ExecBegin(x)
    BY <1>1, <2>1 DEF StartCommand, ExecBegin
  <2>2. CASE cmdMulti(x) \/ queueCommand(x) \/ queueRefused(x) \/ Abandon(x) \/ cmdUnwatch(x)
    BY <1>2, <2>2 DEF cmdMulti, queueCommand, queueRefused, Abandon, cmdUnwatch
  <2>3. CASE \E n \in Watched : cmdWatch(x, n)
    BY <1>2, <2>3 DEF cmdWatch
  <2>4. CASE FlushAll(x) \/ \E d, e \in Dbs : SwapDB(x, d, e)
    BY <1>2, <2>4, Zenon DEF FlushAll, SwapDB, Silently
  <2>5. QED BY <1>3, <2>1, <2>2, <2>3, <2>4 DEF Request, cmdDiscard, ExecAbort
<1>4. ASSUME NEW x \in Clients, Progress(x) \/ WaitEnds(x) PROVE ExecLocked(c)
  <2>1. CASE RunPush(x) \/ Attempt(x) \/ FirstWait(x) \/ Yield(x) \/ WokenByKey(x)
    BY <1>1, <2>1 DEF RunPush, Attempt, FirstWait, Register, Yield, WokenByKey
  <2>2. CASE WaitEnds(x) \/ Again(x) \/ GiveUp(x) \/ Release(x)
    BY <1>1, <2>2 DEF WaitEnds, Again, Register, GiveUp, Release
  <2>3. CASE ExecDone(x) \/ ExecUnwatch(x)
    BY <1>1, <2>3 DEF ExecDone, ExecUnwatch
  <2>4. CASE RunQueued(x)
    BY <1>2, <2>4 DEF RunQueued
  <2>5. CASE ExecLocked(x)
    <3>1. x = c
      BY <2>5 DEF ExecLocked, TypeOK
    <3>2. QED BY <2>5, <3>1
  <2>6. QED BY <1>4, <2>1, <2>2, <2>3, <2>4, <2>5 DEF Progress, ServerQuits
<1>5. ASSUME NEW x \in Clients, Disconnect(x) \/ ConnectionEnds(x) PROVE FALSE
  BY <1>1, <1>2, <1>5 DEF Disconnect, ConnectionEnds
<1>6. ASSUME NEW n \in Names, Reap(n) PROVE FALSE
  BY <1>2, <1>6 DEF Reap
<1>7. ~Quit
  BY <1>2 DEF Quit
<1>8. QED BY <1>3, <1>4, <1>5, <1>6, <1>7 DEF Next, TimeoutExpires

\* Compare-and-set: EXEC decides to run the queue only when no key that the
\* client watches has changed since WATCH.  The assumption leaves out FLUSHALL
\* and SWAPDB of watched keys, which signal nobody.
THEOREM WatchIsSound == ASSUME ~SilentWrites PROVE Spec => WatchSound
<1>1. Init => MarkInv
  BY DEF Init, MarkInv
<1>2. TypeOK /\ LockInv /\ MarkInv /\ [Next]_vars => MarkInv'
  BY MarkStep
<1>3. TypeOK /\ MarkInv /\ [Next]_vars =>
        [\A c \in Clients : pc[c] = "exec" /\ pc'[c] = "run" => changed[c] = {}]_vars
  <2> SUFFICES ASSUME TypeOK, MarkInv, Next,
                      NEW c \in Clients, pc[c] = "exec", pc'[c] = "run"
               PROVE  changed[c] = {}
    OBVIOUS
  <2>1. ExecLocked(c)
    BY OnlyExecRuns
  <2>2. ~broken[c]
    BY <2>1 DEF ExecLocked, Goto, TypeOK
  <2>3. QED BY <2>2 DEF MarkInv
<1>4. QED BY <1>1, <1>2, <1>3, CtlCorrect, PTL DEF Spec, WatchSound

\* A name whose list changes is locked by the client that changes it; nobody
\* else can change it while a transaction holds every lock.
LEMMA OnlyQueueWrites ==
  ASSUME TypeOK, TypeOK', LockInv, Next, NEW c \in Clients, pc[c] = "run", list' # list
  PROVE  RunQueued(c)
<1> USE SessionsAssumption
<1> USE DEF keyspace, multi, registry, blocked, server, Goto
<1>1. PICK m \in Names : list'[m] # list[m]
  BY DEF TypeOK
<1>2. \A n \in Names : lock[n] = c /\ lock[n] # Nobody
  BY DEF LockInv, LockOK
<1>3. ASSUME NEW x \in Clients, Request(x) PROVE FALSE
  <2>1. CASE StartCommand(x) \/ ExecBegin(x)
    BY <2>1 DEF StartCommand, ExecBegin
  <2>2. CASE cmdMulti(x) \/ queueCommand(x) \/ queueRefused(x) \/ Abandon(x) \/ cmdUnwatch(x)
    BY <2>2 DEF cmdMulti, queueCommand, queueRefused, Abandon, cmdUnwatch
  <2>3. CASE \E n \in Watched : cmdWatch(x, n)
    BY <2>3 DEF cmdWatch
  <2>4. CASE FlushAll(x) \/ \E d, e \in Dbs : SwapDB(x, d, e)
    BY <1>1, <1>2, <2>4, Zenon DEF FlushAll, SwapDB, Silently
  <2>5. QED BY <1>3, <2>1, <2>2, <2>3, <2>4 DEF Request, cmdDiscard, ExecAbort
<1>4. ASSUME NEW x \in Clients, Progress(x) \/ WaitEnds(x) PROVE RunQueued(c)
  <2>1. CASE RunPush(x)
    <3>1. cmd[x] \in Cmds /\ pc[x] = "locked"
      BY <2>1, CmdIsKnown DEF RunPush
    <3>2. cmd[x].on[1] \in Locks(cmd[x]) /\ cmd[x].on[1] \in Names
      BY <3>1, CmdShape
    <3>3. x = c
      BY <1>2, <3>1, <3>2 DEF LockInv, LockOK
    <3>4. QED BY <3>1, <3>3
  <2>2. CASE Attempt(x)
    <3>1. pc[x] \in {"locked", "retry"} /\ cmd[x] \in Cmds
      BY <2>2 DEF Attempt, LockInv, LockOK, Busy
    <3>2. cmd[x].on[1] \in Locks(cmd[x]) /\ cmd[x].on[1] \in Names
      BY <3>1, CmdShape
    <3>3. x = c
      BY <1>2, <3>1, <3>2 DEF LockInv, LockOK
    <3>4. QED BY <3>1, <3>3
  <2>3. CASE FirstWait(x) \/ Yield(x) \/ WokenByKey(x) \/ WaitEnds(x) \/ Again(x)
    BY <2>3 DEF FirstWait, Yield, WokenByKey, WaitEnds, Again
  <2>4. CASE GiveUp(x) \/ Release(x) \/ ExecLocked(x) \/ ExecDone(x) \/ ExecUnwatch(x)
    BY <2>4 DEF GiveUp, Release, ExecLocked, ExecDone, ExecUnwatch
  <2>5. CASE RunQueued(x)
    <3>1. pc[x] = "run"
      BY <2>5 DEF RunQueued
    <3>2. lock[m] = x
      BY <3>1 DEF LockInv, LockOK
    <3>3. x = c
      BY <1>2, <3>2
    <3>4. QED BY <2>5, <3>3
  <2>6. QED BY <1>4, <2>1, <2>2, <2>3, <2>4, <2>5 DEF Progress, ServerQuits
<1>5. ASSUME NEW x \in Clients, Disconnect(x) \/ ConnectionEnds(x) PROVE FALSE
  BY <1>5 DEF Disconnect, ConnectionEnds
<1>6. ASSUME NEW n \in Names, Reap(n) PROVE FALSE
  BY <1>2, <1>6 DEF Reap
<1>7. ~Quit
  BY DEF Quit
<1>8. QED BY <1>3, <1>4, <1>5, <1>6, <1>7 DEF Next, TimeoutExpires

\* Isolation of EXEC: from its check of the watched keys to its last command the
\* keyspace changes by the commands of its queue alone, in their order, whatever
\* other clients, the expiry cycle, FLUSHALL and SWAPDB try.
THEOREM ExecIsIsolated == Spec => ExecIsolated
<1>1. TypeOK /\ TypeOK' /\ LockInv /\ [Next]_vars =>
        [\A c \in Clients :
           pc[c] = "run" /\ list' # list =>
             queue[c] # << >> /\ queue'[c] = Tail(queue[c])]_vars
  <2> SUFFICES ASSUME TypeOK, TypeOK', LockInv, Next,
                      NEW c \in Clients, pc[c] = "run", list' # list
               PROVE  queue[c] # << >> /\ queue'[c] = Tail(queue[c])
    OBVIOUS
  <2>1. RunQueued(c)
    BY OnlyQueueWrites
  <2>2. QED BY <2>1 DEF RunQueued, TypeOK
<1>2. QED BY <1>1, CtlCorrect, PTL DEF Spec, ExecIsolated

-----------------------------------------------------------------------------
(***************************************************************************)
(* Blocked clients.                                                        *)
(***************************************************************************)
\* A nonempty set of numbers has a least element.
LEMMA LeastNat ==
  ASSUME NEW T, T \subseteq Nat, T # {}
  PROVE  \E x \in T : \A y \in T : x <= y
<1> DEFINE R == OpToRel(<, Nat)
<1>1. IsWellFoundedOn(R, Nat)
  BY NatLessThanWellFounded
<1>2. R = {ss \in Nat \X Nat : ss[1] < ss[2]}
  BY Zenon DEF OpToRel
<1> HIDE DEF R
<1>3. PICK x \in T : \A y \in T : ~(<<y, x>> \in R)
  BY <1>1, WFMin, Zenon
<1>4. ASSUME NEW y \in T PROVE x <= y
  <2>1. x \in Nat /\ y \in Nat
    OBVIOUS
  <2>2. <<y, x>> \in Nat \X Nat /\ <<y, x>>[1] = y /\ <<y, x>>[2] = x
    BY <2>1
  <2>3. ~(y < x)
    BY <1>2, <1>3, <1>4, <2>2
  <2>4. QED BY <2>1, <2>3
<1>5. QED BY <1>4

\* A retry that finds nothing to serve has seen every list of the command empty.
LEMMA NothingToServe ==
  ASSUME TypeOK, NEW k \in Cmds, Servable(k) = {}, NEW n \in ToSet(k.on)
  PROVE  list[n] = << >>
<1> SUFFICES ASSUME list[n] # << >> PROVE FALSE
  OBVIOUS
<1> DEFINE T == {i \in DOMAIN k.on : list[k.on[i]] # << >>}
<1>1. k.on \in Seq(Names) /\ DOMAIN k.on = 1 .. Len(k.on) /\ Len(k.on) \in Nat
  BY CmdShape
<1>2. T \subseteq Nat /\ T # {}
  BY <1>1 DEF ToSet
<1> HIDE DEF T
<1>3. PICK i \in T : \A j \in T : i <= j
  BY <1>2, LeastNat
<1>4. /\ i \in DOMAIN k.on /\ list[k.on[i]] # << >>
      /\ \A j \in 1 .. i - 1 : list[k.on[j]] = << >>
  BY <1>1, <1>3 DEF T
<1>5. k.on[i] \in Servable(k)
  BY <1>4 DEF Servable
<1>6. QED BY <1>5

\* Every step keeps the sleepers on empty lists or signalled.
LEMMA SleepStep ==
  ASSUME ~SilentWrites, TypeOK, LockInv, WaitInv, NoSleepOnElement, [Next]_vars
  PROVE  NoSleepOnElement'
<1> SUFFICES ASSUME NEW c \in Clients, NEW n \in waiters'[c],
                    pc'[c] = "asleep", ~ready'[c]
             PROVE  list'[n] = << >>
  BY DEF NoSleepOnElement
<1>1. CASE Quiet
  <2>1. list' = list /\ n \in waiters[c]
    BY <1>1 DEF Quiet
  <2>2. CASE Yield(c)
    <3>1. Servable(cmd[c]) = {} /\ pc[c] = "retry"
      BY <2>2 DEF Yield, Goto
    <3>2. cmd[c] \in Cmds /\ n \in ToSet(cmd[c].on)
      BY <2>1, <3>1 DEF LockInv, LockOK, Busy, WaitInv, WaitOK
    <3>3. QED BY <2>1, <3>1, <3>2, NothingToServe
  <2>3. CASE pc[c] = "asleep" /\ ready'[c] = ready[c]
    BY <2>1, <2>3 DEF NoSleepOnElement
  <2>4. QED BY <1>1, <2>2, <2>3 DEF Quiet
<1>2. CASE Signalled
  <2>1. PICK N \in SUBSET Names :
          Touched(N) /\ \A m \in Names \ N : list'[m] = list[m]
    BY <1>2, SignalledTouches
  <2>2. waiters' = waiters /\ (ready'[c] <=> ready[c] \/ waiters[c] \cap N # {})
    BY <2>1, TouchedType, TypeParts
  <2>3. n \in waiters[c] /\ ~ready[c] /\ n \notin N
    BY <2>2
  <2>4. pc[c] = "asleep" /\ n \in Names
    BY <1>2, <2>3 DEF Signalled, TypeOK
  <2>5. QED BY <2>1, <2>3, <2>4 DEF NoSleepOnElement
<1>3. ASSUME NEW x \in Clients, Silent(x) PROVE list'[n] = << >>
  <2>1. waiters' = waiters /\ n \in Names
    <3>1. waiters' = waiters
      BY <1>3, Zenon DEF Silent, FlushAll, SwapDB, Silently, blocked
    <3>2. QED BY <3>1 DEF TypeOK
  <2>2. CASE FlushAll(x)
    BY <2>1, <2>2 DEF FlushAll, Silently
  <2>3. ASSUME NEW d \in Dbs, NEW e \in Dbs, SwapDB(x, d, e) PROVE FALSE
    BY <2>1, <2>3 DEF SwapDB
  <2>4. QED BY <1>3, <2>2, <2>3 DEF Silent
<1>4. QED BY <1>1, <1>2, <1>3, KindOfStep

-----------------------------------------------------------------------------
(***************************************************************************)
(* Where the elements are.                                                 *)
(***************************************************************************)
LEMMA DistinctMeans ==
  ASSUME NEW L, Distinct(L), NEW n \in Names, NEW m \in Names,
         NEW i \in 1 .. Len(L[n]), NEW j \in 1 .. Len(L[m]), L[n][i] = L[m][j]
  PROVE  n = m /\ i = j
BY DEF Distinct

\* Lists of which each is the rest of an old one, no two of the same.
Rests(L, M, from, skip) ==
  /\ \A n, m \in Names : from[n] = from[m] => n = m
  /\ \A n \in Names : \A i \in 1 .. Len(M[n]) :
       i + skip[n] \in 1 .. Len(L[from[n]]) /\ M[n][i] = L[from[n]][i + skip[n]]

\* Lists of distinct elements that are cut and exchanged stay so.
LEMMA Shortened ==
  ASSUME NEW L \in [Names -> Seq(Elems)], NEW M \in [Names -> Seq(Elems)], Distinct(L),
         NEW from \in [Names -> Names], NEW skip \in [Names -> Nat],
         Rests(L, M, from, skip)
  PROVE  Distinct(M) /\ \A e : In(M, e) => In(L, e)
<1>1. ASSUME NEW n \in Names, NEW m \in Names, NEW i \in 1 .. Len(M[n]),
             NEW j \in 1 .. Len(M[m]), M[n][i] = M[m][j]
      PROVE  n = m /\ i = j
  <2>1. L[from[n]][i + skip[n]] = L[from[m]][j + skip[m]]
    BY <1>1 DEF Rests
  <2>2. /\ i + skip[n] \in 1 .. Len(L[from[n]]) /\ j + skip[m] \in 1 .. Len(L[from[m]])
        /\ from[n] \in Names /\ from[m] \in Names
    BY <1>1 DEF Rests
  <2>3. from[n] = from[m] /\ i + skip[n] = j + skip[m]
    <3>1. PICK a, b, n1, m1 : /\ a = i + skip[n] /\ b = j + skip[m]
                              /\ n1 = from[n] /\ m1 = from[m]
      OBVIOUS
    <3>2. /\ n1 \in Names /\ m1 \in Names /\ a \in 1 .. Len(L[n1]) /\ b \in 1 .. Len(L[m1])
          /\ L[n1][a] = L[m1][b]
      BY <2>1, <2>2, <3>1
    <3>3. n1 = m1 /\ a = b
      BY <3>2 DEF Distinct
    <3>4. QED BY <3>1, <3>3
  <2>4. n = m
    BY <2>3 DEF Rests
  <2>5. Len(M[n]) \in Nat /\ Len(M[m]) \in Nat /\ skip[n] \in Nat
    OBVIOUS
  <2>6. QED BY <2>3, <2>4, <2>5
<1>2. Distinct(M)
  BY <1>1 DEF Distinct
<1>3. ASSUME NEW e, In(M, e) PROVE In(L, e)
  <2>1. PICK n \in Names : \E i \in 1 .. Len(M[n]) : M[n][i] = e
    BY <1>3 DEF In
  <2>2. PICK i \in 1 .. Len(M[n]) : M[n][i] = e
    BY <2>1
  <2>3. i + skip[n] \in 1 .. Len(L[from[n]]) /\ L[from[n]][i + skip[n]] = e /\ from[n] \in Names
    BY <2>2 DEF Rests
  <2>4. QED BY <2>3 DEF In
<1>4. QED BY <1>2, <1>3

\* One list loses its first element.
LEMMA Popped ==
  ASSUME NEW L \in [Names -> Seq(Elems)], Distinct(L), NEW n \in Names, L[n] # << >>
  PROVE  LET P == [L EXCEPT ![n] = Tail(L[n])]
         IN  /\ P \in [Names -> Seq(Elems)] /\ Distinct(P)
             /\ \A e : In(P, e) => In(L, e)
             /\ In(L, Head(L[n])) /\ ~In(P, Head(L[n]))
<1> DEFINE P == [L EXCEPT ![n] = Tail(L[n])]
           skip == [m \in Names |-> IF m = n THEN 1 ELSE 0]
           from == [m \in Names |-> m]
<1>1. /\ Len(L[n]) \in Nat /\ Len(L[n]) >= 1 /\ Head(L[n]) = L[n][1]
      /\ Tail(L[n]) \in Seq(Elems) /\ Len(Tail(L[n])) = Len(L[n]) - 1
      /\ \A i \in 1 .. Len(L[n]) - 1 : Tail(L[n])[i] = L[n][i + 1]
  BY HeadTail
<1>2. P \in [Names -> Seq(Elems)] /\ P[n] = Tail(L[n]) /\ \A m \in Names \ {n} : P[m] = L[m]
  BY <1>1
<1>3. skip \in [Names -> Nat] /\ from \in [Names -> Names]
  OBVIOUS
<1>4. skip[n] = 1 /\ (\A m \in Names \ {n} : skip[m] = 0) /\ \A m \in Names : from[m] = m
  OBVIOUS
<1> HIDE DEF P, skip, from
<1>5. ASSUME NEW m \in Names, NEW i \in 1 .. Len(P[m])
      PROVE  i + skip[m] \in 1 .. Len(L[from[m]]) /\ P[m][i] = L[from[m]][i + skip[m]]
  <2>1. CASE m = n
    BY <1>1, <1>2, <1>4, <2>1
  <2>2. CASE m # n
    <3>1. Len(L[m]) \in Nat /\ P[m] = L[m] /\ skip[m] = 0 /\ from[m] = m
      BY <1>2, <1>4, <2>2
    <3>2. i \in 1 .. Len(L[m]) /\ i + 0 = i
      BY <3>1
    <3>3. QED BY <3>1, <3>2
  <2>3. QED BY <2>1, <2>2
<1>6. Distinct(P) /\ \A e : In(P, e) => In(L, e)
  <2>1. \A m1, m2 \in Names : from[m1] = from[m2] => m1 = m2
    BY <1>4
  <2>2. Rests(L, P, from, skip)
    BY <1>5, <2>1 DEF Rests
  <2>3. P \in [Names -> Seq(Elems)]
    BY <1>2
  <2>4. QED BY <1>3, <2>2, <2>3, Shortened
<1>7. In(L, Head(L[n]))
  BY <1>1 DEF In
<1>8. ~In(P, Head(L[n]))
  <2> SUFFICES ASSUME In(P, Head(L[n])) PROVE FALSE
    OBVIOUS
  <2>1. PICK m \in Names : \E i \in 1 .. Len(P[m]) : P[m][i] = L[n][1]
    BY <1>1 DEF In
  <2>2. PICK i \in 1 .. Len(P[m]) : P[m][i] = L[n][1]
    BY <2>1
  <2>3. i + skip[m] \in 1 .. Len(L[m]) /\ L[m][i + skip[m]] = L[n][1] /\ 1 \in 1 .. Len(L[n])
    BY <1>1, <1>4, <1>5, <2>2
  <2>4. m = n /\ i + skip[m] = 1
    BY <2>3 DEF Distinct
  <2>5. Len(P[m]) \in Nat /\ i >= 1
    BY <1>2
  <2>6. QED BY <1>4, <2>4, <2>5
<1>9. QED BY <1>2, <1>6, <1>7, <1>8 DEF P

\* One list gains an element that is in none.
LEMMA Appended ==
  ASSUME NEW L \in [Names -> Seq(Elems)], Distinct(L), NEW n \in Names,
         NEW e \in Elems, ~In(L, e)
  PROVE  LET M == [L EXCEPT ![n] = Append(L[n], e)]
         IN  Distinct(M) /\ \A x : In(M, x) => x = e \/ In(L, x)
<1> DEFINE M == [L EXCEPT ![n] = Append(L[n], e)]
<1>1. Len(L[n]) \in Nat /\ M[n] = Append(L[n], e) /\ \A m \in Names \ {n} : M[m] = L[m]
  OBVIOUS
<1>2. /\ Len(M[n]) = Len(L[n]) + 1 /\ M[n][Len(L[n]) + 1] = e
      /\ \A i \in 1 .. Len(L[n]) : M[n][i] = L[n][i]
  BY <1>1
<1> HIDE DEF M
<1>3. ASSUME NEW m \in Names, NEW i \in 1 .. Len(M[m])
      PROVE  \/ m = n /\ i = Len(L[n]) + 1 /\ M[m][i] = e
             \/ i \in 1 .. Len(L[m]) /\ M[m][i] = L[m][i]
  BY <1>1, <1>2
<1>4. \A m \in Names : \A i \in 1 .. Len(L[m]) : L[m][i] # e
  BY DEF In
<1>5. ASSUME NEW m1 \in Names, NEW m2 \in Names, NEW i \in 1 .. Len(M[m1]),
             NEW j \in 1 .. Len(M[m2]), M[m1][i] = M[m2][j]
      PROVE  m1 = m2 /\ i = j
  <2>1. CASE i \in 1 .. Len(L[m1]) /\ M[m1][i] = L[m1][i]
    <3>1. j \in 1 .. Len(L[m2]) /\ M[m2][j] = L[m2][j]
      BY <1>3, <1>4, <1>5, <2>1
    <3>2. L[m1][i] = L[m2][j]
      BY <1>5, <2>1, <3>1
    <3>3. QED BY <2>1, <3>1, <3>2, DistinctMeans
  <2>2. CASE m1 = n /\ i = Len(L[n]) + 1 /\ M[m1][i] = e
    <3>1. m2 = n /\ j = Len(L[n]) + 1
      BY <1>3, <1>4, <1>5, <2>2, SMTT(30)
    <3>2. QED BY <2>2, <3>1
  <2>3. QED BY <1>3, <2>1, <2>2
<1>6. Distinct(M)
  BY <1>5 DEF Distinct
<1>7. \A x : In(M, x) => x = e \/ In(L, x)
  BY <1>3 DEF In
<1>8. QED BY <1>6, <1>7 DEF M

\* A step that only loses elements of lists, or exchanges lists.
LEMMA OnceShorter ==
  ASSUME TypeOK, TypeOK', OnceInv, UNCHANGED <<pushed, got>>,
         Distinct(list)', \A e : In(list, e)' => In(list, e)
  PROVE  OnceInv'
BY DEF OnceInv

\* Every step keeps each element in one place.
LEMMA OnceStep ==
  ASSUME TypeOK, TypeOK', LockInv, OnceInv, [Next]_vars
  PROVE  OnceInv'
<1> USE SessionsAssumption
<1>0. /\ list \in [Names -> Seq(Elems)] /\ list' \in [Names -> Seq(Elems)]
      /\ pushed \in Nat /\ Elems \subseteq Nat
  BY DEF TypeOK, Elems
<1>1. CASE Quiet
  <2>1. UNCHANGED <<list, pushed, got>>
    BY <1>1 DEF Quiet
  <2>2. QED BY <2>1 DEF OnceInv, Distinct, In
<1>2. ASSUME NEW n \in Names, Push(n) PROVE OnceInv'
  <2>1. /\ list' = [list EXCEPT ![n] = Append(list[n], pushed + 1)]
        /\ pushed' = pushed + 1 /\ got' = got
    BY <1>2, PushType, TypeParts
  <2>2. pushed + 1 \in Elems
    BY <1>2 DEF Push, TypeOK, Elems
  <2>3. ~In(list, pushed + 1) /\ \A c \in Clients : pushed + 1 \notin got[c]
    BY <1>0, <2>2 DEF OnceInv
  <2>4. Distinct(list') /\ \A x : In(list', x) => x = pushed + 1 \/ In(list, x)
    BY <1>0, <2>1, <2>2, <2>3, Appended DEF OnceInv
  <2>5. \A e \in Elems : e <= pushed => e <= pushed + 1
    BY <1>0
  <2>6. \A e \in Elems : In(list', e) => e <= pushed' /\ \A c \in Clients : e \notin got'[c]
    <3> SUFFICES ASSUME NEW e \in Elems, In(list', e)
                 PROVE  e <= pushed + 1 /\ \A c \in Clients : e \notin got[c]
      BY <2>1
    <3>1. CASE e = pushed + 1
      BY <1>0, <2>3, <3>1
    <3>2. CASE In(list, e)
      BY <2>5, <3>2 DEF OnceInv
    <3>3. QED BY <2>4, <3>1, <3>2
  <2>7. \A c \in Clients : \A e \in got'[c] : e <= pushed'
    BY <2>1, <2>5 DEF OnceInv, TypeOK
  <2>8. QED BY <2>1, <2>4, <2>6, <2>7 DEF OnceInv, Distinct, In
<1>3. ASSUME NEW c \in Clients, NEW k \in Cmds, k.op # "push",
             NEW n \in Servable(k), Take(c, k, n)
      PROVE  OnceInv'
  <2>1. n \in Names /\ list[n] # << >>
    BY ServableIs
  <2> DEFINE h == Head(list[n])
             P == [list EXCEPT ![n] = Tail(list[n])]
  <2>2. /\ P \in [Names -> Seq(Elems)] /\ Distinct(P) /\ \A e : In(P, e) => In(list, e)
        /\ In(list, h) /\ ~In(P, h)
    BY <1>0, <2>1, Popped DEF OnceInv
  <2>3. h \in Elems
    BY <1>0, <2>1, HeadTail
  <2>4. /\ \/ k.op = "pop" /\ list' = P /\ got' = [got EXCEPT ![c] = @ \cup {h}]
           \/ /\ k.op # "pop" /\ got' = got
              /\ list' = [m \in Names |-> P[m] \o (IF m \in k.to THEN <<h>> ELSE << >>)]
        /\ pushed' = pushed
    BY <1>3 DEF Take
  <2> HIDE DEF h, P
  <2>5. CASE k.op = "pop"
    <3>1. list' = P /\ got' = [got EXCEPT ![c] = @ \cup {h}] /\ pushed' = pushed
      BY <2>4, <2>5
    <3>2. h <= pushed /\ \A x \in Clients : h \notin got[x]
      BY <2>2, <2>3 DEF OnceInv
    <3>3. \A x \in Clients : got'[x] = IF x = c THEN got[c] \cup {h} ELSE got[x]
      BY <3>1 DEF TypeOK
    <3>4. \A e \in Elems : In(P, e) => e <= pushed /\ \A x \in Clients : e \notin got'[x]
      BY <2>2, <3>3 DEF OnceInv
    <3>5. \A x \in Clients : \A e \in got'[x] : e <= pushed
      BY <3>2, <3>3 DEF OnceInv
    <3>6. \A x, y \in Clients : \A e \in got'[x] \cap got'[y] : x = y
      BY <3>2, <3>3 DEF OnceInv
    <3>7. Distinct(list)' /\ \A e \in Elems : In(list, e)' => In(P, e)
      BY <2>2, <3>1 DEF Distinct, In
    <3>8. QED BY <3>1, <3>4, <3>5, <3>6, <3>7 DEF OnceInv
  <2>6. CASE k.op # "pop"
    <3>1. PICK to \in Names : k.to = {to}
      BY <1>3, <2>6, CmdShape
    <3>2. list' = [P EXCEPT ![to] = Append(P[to], h)]
      <4>1. \A m \in Names : P[m] \in Seq(Elems) /\ P[m] \o << >> = P[m]
        BY <2>2
      <4>2. P[to] \o <<h>> = Append(P[to], h)
        BY <2>2, <2>3
      <4>3. list' = [m \in Names |-> P[m] \o (IF m \in {to} THEN <<h>> ELSE << >>)]
        BY <2>4, <2>6, <3>1
      <4>4. QED BY <2>2, <4>1, <4>2, <4>3
    <3>3. Distinct(list') /\ \A x : In(list', x) => x = h \/ In(P, x)
      BY <2>2, <2>3, <3>2, Appended
    <3>4. \A x : In(list', x) => In(list, x)
      BY <2>2, <3>3
    <3>5. Distinct(list)' /\ \A e : In(list, e)' => In(list, e)
      BY <3>3, <3>4 DEF Distinct, In
    <3>6. pushed' = pushed /\ got' = got
      BY <2>4, <2>6
    <3>7. QED BY <3>5, <3>6, OnceShorter
  <2>7. QED BY <2>5, <2>6
\* Reap, FLUSHALL and SWAPDB: every list is an old one, or empty.
<1>4. ASSUME NEW from \in [Names -> Names], UNCHANGED <<pushed, got>>,
             \A m1, m2 \in Names : from[m1] = from[m2] => m1 = m2,
             \A m \in Names : list'[m] \in {<< >>, list[from[m]]}
      PROVE  OnceInv'
  <2> DEFINE skip == [m \in Names |-> 0]
  <2>1. skip \in [Names -> Nat] /\ \A m \in Names : skip[m] = 0
    OBVIOUS
  <2> HIDE DEF skip
  <2>2. ASSUME NEW m \in Names, NEW i \in 1 .. Len(list'[m])
        PROVE  /\ i + skip[m] \in 1 .. Len(list[from[m]])
               /\ list'[m][i] = list[from[m]][i + skip[m]]
    <3>1. list'[m] = list[from[m]]
      <4>1. CASE list'[m] = << >>
        BY <4>1
      <4>2. QED BY <1>4, <4>1
    <3>2. Len(list'[m]) \in Nat /\ i + skip[m] = i
      BY <1>0, <2>1
    <3>3. QED BY <3>1, <3>2
  <2>3. Rests(list, list', from, skip)
    BY <1>4, <2>2 DEF Rests
  <2>4. Distinct(list') /\ \A e : In(list', e) => In(list, e)
    BY <1>0, <2>1, <2>3, Shortened DEF OnceInv
  <2>5. Distinct(list)' /\ \A e : In(list, e)' => In(list, e)
    BY <2>4 DEF Distinct, In
  <2>6. QED BY <1>4, <2>5, OnceShorter
<1>5. ASSUME NEW n \in Names, list' = [list EXCEPT ![n] = << >>], UNCHANGED <<pushed, got>>
      PROVE  OnceInv'
  <2> DEFINE from == [m \in Names |-> m]
  <2>1. from \in [Names -> Names] /\ \A m \in Names : from[m] = m
    OBVIOUS
  <2>2. \A m \in Names : list'[m] \in {<< >>, list[m]}
    BY <1>0, <1>5
  <2> HIDE DEF from
  <2>3. QED BY <1>4, <1>5, <2>1, <2>2
<1>6. ASSUME NEW c \in Clients, FlushAll(c) PROVE OnceInv'
  <2> DEFINE from == [m \in Names |-> m]
  <2>1. from \in [Names -> Names] /\ \A m \in Names : from[m] = m
    OBVIOUS
  <2>2. (\A m \in Names : list'[m] = << >>) /\ UNCHANGED <<pushed, got>>
    BY <1>6 DEF FlushAll, Silently
  <2> HIDE DEF from
  <2>3. QED BY <1>4, <2>1, <2>2
<1>7. ASSUME NEW c \in Clients, NEW d \in Dbs, NEW e \in Dbs, SwapDB(c, d, e)
      PROVE  OnceInv'
  <2> DEFINE from == [n \in Names |-> IF n[1] = d THEN <<e, n[2]>>
                                      ELSE IF n[1] = e THEN <<d, n[2]>> ELSE n]
  <2>1. from \in [Names -> Names]
    BY <1>7 DEF Names
  <2>2. \A m1, m2 \in Names : from[m1] = from[m2] => m1 = m2
    BY <1>7 DEF Names
  <2>3. /\ list' = [n \in Names |-> IF n[1] = d THEN list[<<e, n[2]>>]
                                    ELSE IF n[1] = e THEN list[<<d, n[2]>>]
                                    ELSE list[n]]
        /\ UNCHANGED <<pushed, got>>
    BY <1>7 DEF SwapDB, Silently
  <2>4. \A m \in Names : list'[m] = list[from[m]]
    BY <2>3
  <2> HIDE DEF from
  <2>5. QED BY <1>4, <2>1, <2>2, <2>3, <2>4
<1>8. CASE Signalled
  BY <1>2, <1>3, <1>5, <1>8 DEF Signalled
<1>9. QED BY <1>1, <1>6, <1>7, <1>8, KindOfStep DEF Silent

\* One place each is what the counting says.
LEMMA OnceCounts == TypeOK /\ OnceInv => EachElementOnce
<1> SUFFICES ASSUME TypeOK, OnceInv, NEW e \in Elems
             PROVE  Cardinality({c \in Clients : e \in got[c]})
                      + Cardinality({p \in Names \X Elems :
                                       p[2] <= Len(list[p[1]]) /\ list[p[1]][p[2]] = e}) <= 1
  BY DEF EachElementOnce
<1> DEFINE G == {c \in Clients : e \in got[c]}
           W == {p \in Names \X Elems : p[2] <= Len(list[p[1]]) /\ list[p[1]][p[2]] = e}
<1>1. \A c, d \in G : c = d
  BY DEF OnceInv
<1>2. ASSUME NEW p \in W
      PROVE  /\ p[1] \in Names /\ p[2] \in 1 .. Len(list[p[1]]) /\ list[p[1]][p[2]] = e
             /\ p = <<p[1], p[2]>>
  BY SessionsAssumption DEF Elems, TypeOK
<1>3. \A p, q \in W : p = q
  <2> SUFFICES ASSUME NEW p \in W, NEW q \in W PROVE p = q
    OBVIOUS
  <2>1. Distinct(list)
    BY DEF OnceInv
  <2>2. PICK n, i, m, j : n = p[1] /\ i = p[2] /\ m = q[1] /\ j = q[2]
    OBVIOUS
  <2>3. /\ n \in Names /\ m \in Names /\ i \in 1 .. Len(list[n]) /\ j \in 1 .. Len(list[m])
        /\ list[n][i] = list[m][j] /\ p = <<n, i>> /\ q = <<m, j>>
    BY <1>2, <2>2
  <2> HIDE DEF W
  <2>4. n = m /\ i = j
    BY <2>1, <2>3, DistinctMeans
  <2>5. QED BY <2>3, <2>4
<1>4. G = {} \/ W = {}
  <2> SUFFICES ASSUME NEW c \in G, NEW p \in W PROVE FALSE
    OBVIOUS
  <2>1. In(list, e)
    BY <1>2 DEF In
  <2>2. QED BY <2>1 DEF OnceInv
<1> HIDE DEF G, W
<1>5. Cardinality(G) \in {0, 1} /\ (G = {} => Cardinality(G) = 0)
  BY <1>1, AtMostOne
<1>6. Cardinality(W) \in {0, 1} /\ (W = {} => Cardinality(W) = 0)
  BY <1>3, AtMostOne
<1>7. Cardinality(G) + Cardinality(W) <= 1
  BY <1>4, <1>5, <1>6
<1>8. QED BY <1>7 DEF G, W

\* Whoever wakes, times out, gives up, moves, reaps, flushes or swaps: an
\* element is in one place of one list or was answered to one client, never both.
THEOREM ElementsAreOnce == Spec => []EachElementOnce
<1>1. Init => OnceInv
  BY DEF Init, OnceInv, Distinct, In
<1>2. TypeOK /\ TypeOK' /\ LockInv /\ OnceInv /\ [Next]_vars => OnceInv'
  BY OnceStep
<1>3. QED BY <1>1, <1>2, OnceCounts, CtlCorrect, PTL DEF Spec

\* The blocking commands keep what they promise: types, each element once, no
\* client asleep and unsignalled on a key that has an element, no registration
\* left behind.  The assumption leaves out SWAPDB of a database somebody waits
\* on: it hands a waiter an element without a signal.
THEOREM BlockingIsSafe == ASSUME ~SilentWrites PROVE Spec => []BlockingSafe
<1>1. Init => NoSleepOnElement
  BY DEF Init, NoSleepOnElement
<1>2. TypeOK /\ LockInv /\ WaitInv /\ NoSleepOnElement /\ [Next]_vars => NoSleepOnElement'
  BY SleepStep
<1>3. Spec => []NoSleepOnElement
  BY <1>1, <1>2, CtlCorrect, PTL DEF Spec
<1>4. TypeOK /\ EachElementOnce /\ NoSleepOnElement /\ NoStaleRegistration => BlockingSafe
  BY DEF BlockingSafe
<1>5. QED BY <1>3, <1>4, TypeCorrect, ElementsAreOnce, NoStaleRegistrations, PTL
=============================================================================
