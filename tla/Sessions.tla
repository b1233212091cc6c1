------------------------------ MODULE Sessions ------------------------------
(***************************************************************************)
(* Client sessions over list keys: WATCH, MULTI, EXEC and DISCARD          *)
(* (command/transaction.go), the blocking pops (command/blocking.go,       *)
(* ctx.go) and a connection that goes away (server/conn.go), beside writes *)
(* of other clients, the expiry cycle, FLUSHALL and SWAPDB.                *)
(*                                                                         *)
(* A name is a key of a database and stands for its shard's ordering lock  *)
(* too.  The locks of one command are taken in one step: in which order    *)
(* they are taken is the subject of LockOrder.  The engine calls the hook  *)
(* that signals a change with the data lock held, so nobody sees a change  *)
(* before its signal and the two are one step.                             *)
(***************************************************************************)
EXTENDS Integers, Sequences, FiniteSets, SequencesExt

CONSTANTS
  Clients,
  Nobody,        \* holder of a lock that is free
  Dbs, Keys,
  Cmds,          \* the commands clients send
  Watched,       \* the names they watch
  MaxElems,      \* elements pushed in a run
  MaxAsked,      \* requests, hang-ups and background deletions in a run
  SilentWrites   \* FLUSHALL and SWAPDB happen whoever watches or waits

Names == Dbs \X Keys
Elems == 1 .. MaxElems

\* RPUSH of one element, BLPOP of keys of one database, BLMOVE from one key to
\* the back of another.
Commands ==
  [op : {"push", "pop"}, on : Seq(Names) \ {<< >>}, to : {{}}]
    \cup [op : {"move"}, on : Seq(Names) \ {<< >>}, to : {{n} : n \in Names}]
NoCmd == [op |-> "none", on |-> << >>, to |-> {}]

ASSUME SessionsAssumption ==
  /\ Cmds \subseteq Commands /\ Watched \subseteq Names
  /\ MaxElems \in Nat /\ MaxAsked \in Nat
  /\ SilentWrites \in BOOLEAN
  /\ Nobody \notin Clients

VARIABLES
  list,      \* the elements of each name's list
  pushed,    \* elements pushed so far
  lock,      \* ordering locks
  pc,        \* where each client's goroutine is
  cmd,       \* the command it is running
  inMulti, aborted, queue,    \* Client.inMulti, multiAborted, queue
  watching, broken,           \* Client.watching, watchBroken
  waiters, ready,             \* a blocked client's keys and its channel
  closed,    \* the socket is closed
  quit,      \* the server is stopping
  asked,     \* what was asked so far
  got,       \* history: elements each client popped
  changed    \* history: watched names that changed since WATCH

vars == <<list, pushed, lock, pc, cmd, inMulti, aborted, queue, watching,
          broken, waiters, ready, closed, quit, asked, got, changed>>
keyspace == <<list, pushed, got, changed>>
multi == <<inMulti, aborted, queue>>
registry == <<watching, broken>>
blocked == <<waiters, ready>>
server == <<closed, quit>>

TypeOK ==
  /\ list \in [Names -> Seq(Elems)]
  /\ pushed \in 0 .. MaxElems
  /\ lock \in [Names -> Clients \cup {Nobody}]
  /\ pc \in [Clients -> {"idle", "locked", "retry", "asleep", "woken", "timedOut",
                         "release", "exec", "run", "unwatch", "gone"}]
  /\ cmd \in [Clients -> Cmds \cup {NoCmd}]
  /\ inMulti \in [Clients -> BOOLEAN] /\ aborted \in [Clients -> BOOLEAN]
  /\ queue \in [Clients -> Seq(Cmds)]
  /\ watching \in [Clients -> SUBSET Names] /\ broken \in [Clients -> BOOLEAN]
  /\ waiters \in [Clients -> SUBSET Names] /\ ready \in [Clients -> BOOLEAN]
  /\ closed \in [Clients -> BOOLEAN] /\ quit \in BOOLEAN
  /\ asked \in 0 .. MaxAsked
  /\ got \in [Clients -> SUBSET Elems]
  /\ changed \in [Clients -> SUBSET Names]

Init ==
  /\ list = [n \in Names |-> << >>]
  /\ pushed = 0
  /\ lock = [n \in Names |-> Nobody]
  /\ pc = [c \in Clients |-> "idle"]
  /\ cmd = [c \in Clients |-> NoCmd]
  /\ inMulti = [c \in Clients |-> FALSE]
  /\ aborted = [c \in Clients |-> FALSE]
  /\ queue = [c \in Clients |-> << >>]
  /\ watching = [c \in Clients |-> {}]
  /\ broken = [c \in Clients |-> FALSE]
  /\ waiters = [c \in Clients |-> {}]
  /\ ready = [c \in Clients |-> FALSE]
  /\ closed = [c \in Clients |-> FALSE]
  /\ quit = FALSE
  /\ asked = 0
  /\ got = [c \in Clients |-> {}]
  /\ changed = [c \in Clients |-> {}]

Goto(c, from, to) == pc[c] = from /\ pc' = [pc EXCEPT ![c] = to]
Ask == asked < MaxAsked /\ asked' = asked + 1

\* writeLocks: the keys of the command, or every shard for a cross-shard one.
Locks(k) == IF k.op = "move" THEN Names ELSE ToSet(k.on)

\* OrderWrites, OrderAllWrites and WriteOrder.Done.
Acquire(c, N) ==
  /\ \A n \in N : lock[n] = Nobody
  /\ lock' = [n \in Names |-> IF n \in N THEN c ELSE lock[n]]
Free(c) == [n \in Names |-> IF lock[n] = c THEN Nobody ELSE lock[n]]

-----------------------------------------------------------------------------
(***************************************************************************)
(* What commands do to the keyspace, under their ordering locks.           *)
(***************************************************************************)
\* Watchers.KeyModified: every client that watches one of the keys is marked.
Break(N) == broken' = [c \in Clients |-> broken[c] \/ watching[c] \cap N # {}]

\* Blocked.KeyModified: a send that does not block on a channel of one.
Wake(N) == ready' = [c \in Clients |-> ready[c] \/ waiters[c] \cap N # {}]

\* History: a change of a key is one for whoever watches it.
NoteChange(N) == changed' = [c \in Clients |-> changed[c] \cup (N \cap watching[c])]

\* keyWatchers.KeyModified for the keys of one change.
Touched(N) ==
  /\ Break(N) /\ Wake(N) /\ NoteChange(N)
  /\ UNCHANGED <<watching, waiters>>

\* RPUSH: the list gains an element.
Push(n) ==
  /\ pushed < MaxElems
  /\ list' = [list EXCEPT ![n] = Append(@, pushed + 1)]
  /\ pushed' = pushed + 1
  /\ Touched({n})
  /\ UNCHANGED got

\* A bug: a pop answers with the element and leaves it in the list.
Take_Leaves(c, k, n) ==
  /\ got' = [got EXCEPT ![c] = @ \cup {Head(list[n])}]
  /\ list' = [list EXCEPT ![n] = Tail(@) \o <<Head(@)>>]
  /\ Touched({n})
  /\ UNCHANGED pushed

\* What attempt does with a key that has an element: DB.LPop for the client, or
\* DB.LMove.
Take(c, k, n) ==
  LET e == Head(list[n])
      popped == [list EXCEPT ![n] = Tail(@)]
  IN /\ IF k.op = "pop"
          THEN list' = popped /\ got' = [got EXCEPT ![c] = @ \cup {e}]
          ELSE list' = [m \in Names |-> popped[m] \o (IF m \in k.to THEN <<e>> ELSE << >>)]
               /\ UNCHANGED got
     /\ Touched({n} \cup k.to)
     /\ UNCHANGED pushed

\* The key an attempt serves: the first of the command's keys, in the order
\* given, that has an element.
Servable(k) ==
  {k.on[i] : i \in {i \in DOMAIN k.on :
      /\ list[k.on[i]] # << >>
      /\ \A j \in 1 .. i - 1 : list[k.on[j]] = << >>}}

-----------------------------------------------------------------------------
(***************************************************************************)
(* A command outside a transaction.                                        *)
(***************************************************************************)
\* Execute as far as writeLocks.acquire.
StartCommand(c) ==
  /\ ~inMulti[c] /\ Ask
  /\ \E k \in Cmds :
       /\ cmd' = [cmd EXCEPT ![c] = k]
       /\ Acquire(c, Locks(k))
  /\ Goto(c, "idle", "locked")
  /\ UNCHANGED <<keyspace, multi, registry, blocked, server>>

RunPush(c) ==
  /\ cmd[c].op = "push"
  /\ \/ Push(cmd[c].on[1])
     \/ pushed = MaxElems /\ UNCHANGED <<keyspace, registry, blocked>>
  /\ Goto(c, "locked", "release")
  /\ UNCHANGED <<lock, cmd, multi, server, asked>>

\* attempt: the first, and the one after registering.
Attempt(c) ==
  /\ cmd[c].op # "push"
  /\ pc[c] \in {"locked", "retry"}
  /\ \E n \in Servable(cmd[c]) : Take(c, cmd[c], n)
  /\ pc' = [pc EXCEPT ![c] = "release"]
  /\ UNCHANGED <<lock, cmd, multi, server, asked>>

\* A bug: no retry after registering, so a value that came first is missed.
Register_NoRetry(c) ==
  /\ waiters' = [waiters EXCEPT ![c] = ToSet(cmd[c].on)]
  /\ ready' = [ready EXCEPT ![c] = FALSE]
  /\ lock' = Free(c)
  /\ pc' = [pc EXCEPT ![c] = "asleep"]

\* A bug: the timeout argument is registered as one more key.
Register_TimeoutToo(c) ==
  /\ waiters' = [waiters EXCEPT ![c] = ToSet(cmd[c].on) \cup {<<0, "timeout">>}]
  /\ ready' = [ready EXCEPT ![c] = FALSE]
  /\ lock' = [n \in Names |-> IF n \in Locks(cmd[c]) THEN c ELSE lock[n]]
  /\ pc' = [pc EXCEPT ![c] = "retry"]

\* Blocked.Wait: a registration with an empty channel of its own.
Register(c) ==
  /\ waiters' = [waiters EXCEPT ![c] = ToSet(cmd[c].on)]
  /\ ready' = [ready EXCEPT ![c] = FALSE]
  /\ lock' = [n \in Names |-> IF n \in Locks(cmd[c]) THEN c ELSE lock[n]]
  /\ pc' = [pc EXCEPT ![c] = "retry"]

FirstWait(c) ==
  /\ cmd[c].op # "push" /\ pc[c] = "locked" /\ Servable(cmd[c]) = {}
  /\ Register(c)
  /\ UNCHANGED <<keyspace, cmd, multi, registry, server, asked>>

\* A bug: the locks are kept while the client waits.
Yield_KeepsLocks(c) ==
  /\ Servable(cmd[c]) = {}
  /\ Goto(c, "retry", "asleep")
  /\ UNCHANGED <<keyspace, lock, cmd, multi, registry, blocked, server, asked>>

\* The retry finds nothing: Ctx.Yield gives the locks back and waits.
Yield(c) ==
  /\ Servable(cmd[c]) = {}
  /\ Goto(c, "retry", "asleep")
  /\ lock' = Free(c)
  /\ UNCHANGED <<keyspace, cmd, multi, registry, blocked, server, asked>>

\* The three arms of the select: a key was modified, the deadline passes, the
\* server stops.
WokenByKey(c) ==
  /\ ready[c]
  /\ Goto(c, "asleep", "woken")
  /\ ready' = [ready EXCEPT ![c] = FALSE]
  /\ UNCHANGED <<keyspace, lock, cmd, multi, registry, waiters, server, asked>>

WaitEnds(c) ==
  /\ Goto(c, "asleep", "timedOut")
  /\ UNCHANGED <<keyspace, lock, cmd, multi, registry, blocked, server, asked>>

TimeoutExpires(c) == WaitEnds(c)

ServerQuits(c) == quit /\ WaitEnds(c)

\* Yield takes the locks again; cancel, and another round.
Again(c) ==
  /\ pc[c] = "woken"
  /\ \A n \in Locks(cmd[c]) : lock[n] = Nobody
  /\ Register(c)
  /\ UNCHANGED <<keyspace, cmd, multi, registry, server, asked>>

\* A bug: the registration is left behind on the way out.
Cancel_Forgotten(c) ==
  /\ cmd' = [cmd EXCEPT ![c] = NoCmd]
  /\ ready' = [ready EXCEPT ![c] = FALSE]
  /\ UNCHANGED waiters

\* cancel, and the reply.
Cancel(c) ==
  /\ cmd' = [cmd EXCEPT ![c] = NoCmd]
  /\ ready' = [ready EXCEPT ![c] = FALSE]
  /\ waiters' = [waiters EXCEPT ![c] = {}]

\* The nil reply; the locks are taken and released once more.
GiveUp(c) ==
  /\ Goto(c, "timedOut", "idle")
  /\ \A n \in Locks(cmd[c]) : lock[n] = Nobody
  /\ Cancel(c)
  /\ UNCHANGED <<keyspace, lock, multi, registry, server, asked>>

\* Propagation of the effect, writeLocks.release, the reply.
Release(c) ==
  /\ Goto(c, "release", "idle")
  /\ lock' = Free(c)
  /\ Cancel(c)
  /\ UNCHANGED <<keyspace, multi, registry, server, asked>>

-----------------------------------------------------------------------------
(***************************************************************************)
(* Transactions.                                                           *)
(***************************************************************************)
\* WATCH of one key; several keys are watched one after the other.
cmdWatch(c, n) ==
  /\ pc[c] = "idle" /\ ~inMulti[c] /\ Ask
  /\ n \notin watching[c]
  /\ watching' = [watching EXCEPT ![c] = @ \cup {n}]
  /\ UNCHANGED <<keyspace, lock, pc, cmd, multi, broken, blocked, server>>

\* Watchers.Unwatch.
Unwatch(c) ==
  /\ watching' = [watching EXCEPT ![c] = {}]
  /\ broken' = [broken EXCEPT ![c] = FALSE]
  /\ changed' = [changed EXCEPT ![c] = {}]

\* Client.endMulti.
EndMulti(c) ==
  /\ inMulti' = [inMulti EXCEPT ![c] = FALSE]
  /\ aborted' = [aborted EXCEPT ![c] = FALSE]

\* UNWATCH runs at once even inside MULTI: commands marked NoMulti are not
\* queued.
cmdUnwatch(c) ==
  /\ pc[c] = "idle" /\ watching[c] # {} /\ Ask
  /\ Unwatch(c)
  /\ UNCHANGED <<list, pushed, got, lock, pc, cmd, multi, blocked, server>>

cmdMulti(c) ==
  /\ pc[c] = "idle" /\ ~inMulti[c] /\ Ask
  /\ inMulti' = [inMulti EXCEPT ![c] = TRUE]
  /\ aborted' = [aborted EXCEPT ![c] = FALSE]
  /\ queue' = [queue EXCEPT ![c] = << >>]
  /\ UNCHANGED <<keyspace, lock, pc, cmd, registry, blocked, server>>

queueCommand(c) ==
  /\ pc[c] = "idle" /\ inMulti[c] /\ Ask
  /\ \E k \in Cmds : queue' = [queue EXCEPT ![c] = Append(@, k)]
  /\ UNCHANGED <<keyspace, lock, pc, cmd, inMulti, aborted, registry, blocked, server>>

\* resolve refuses the command: the transaction is poisoned.
queueRefused(c) ==
  /\ pc[c] = "idle" /\ inMulti[c] /\ Ask
  /\ aborted' = [aborted EXCEPT ![c] = TRUE]
  /\ UNCHANGED <<keyspace, lock, pc, cmd, inMulti, queue, registry, blocked, server>>

\* Both ends of a transaction that does not run: DISCARD, and EXEC after a
\* command could not be queued.
Abandon(c) ==
  /\ pc[c] = "idle" /\ inMulti[c] /\ Ask
  /\ EndMulti(c)
  /\ queue' = [queue EXCEPT ![c] = << >>]
  /\ Unwatch(c)
  /\ UNCHANGED <<list, pushed, got, lock, pc, cmd, blocked, server>>

cmdDiscard(c) == Abandon(c)
ExecAbort(c) == aborted[c] /\ Abandon(c)

\* cmdExec as far as takeQueued and endMulti.
ExecBegin(c) ==
  /\ inMulti[c] /\ ~aborted[c] /\ Ask
  /\ Goto(c, "idle", "exec")
  /\ EndMulti(c)
  /\ UNCHANGED <<keyspace, lock, cmd, queue, registry, blocked, server>>

\* A bug: the flag is not looked at.
ExecLocked_Unchecked(c) ==
  /\ Goto(c, "exec", "run")
  /\ Acquire(c, Names)
  /\ UNCHANGED <<keyspace, cmd, multi, registry, blocked, server, asked>>

\* OrderAllWrites, and the check of the watched keys inside it.
ExecLocked(c) ==
  /\ Goto(c, "exec", IF broken[c] THEN "unwatch" ELSE "run")
  /\ Acquire(c, Names)
  /\ queue' = [queue EXCEPT ![c] = IF broken[c] THEN << >> ELSE @]
  /\ UNCHANGED <<keyspace, cmd, inMulti, aborted, registry, blocked, server, asked>>

\* A bug: the queue runs with the locks of the next command only.
RunQueued_OwnLocks(c) ==
  /\ pc[c] = "run" /\ queue[c] # << >>
  /\ \/ Push(Head(queue[c]).on[1])
     \/ UNCHANGED <<keyspace, registry, blocked>>
  /\ queue' = [queue EXCEPT ![c] = Tail(@)]
  /\ lock' = Free(c)
  /\ UNCHANGED <<pc, cmd, inMulti, aborted, server, asked>>

\* runQueued: the command does what it does alone, except that a blocking pop
\* that finds nothing answers nil; resolve may refuse it, too.
RunQueued(c) ==
  /\ pc[c] = "run" /\ queue[c] # << >>
  /\ LET k == Head(queue[c])
     IN \/ k.op = "push" /\ Push(k.on[1])
        \/ k.op # "push" /\ \E n \in Servable(k) : Take(c, k, n)
        \/ UNCHANGED <<keyspace, registry, blocked>>
  /\ queue' = [queue EXCEPT ![c] = Tail(@)]
  /\ UNCHANGED <<lock, pc, cmd, inMulti, aborted, server, asked>>

ExecDone(c) ==
  /\ queue[c] = << >>
  /\ Goto(c, "run", "unwatch")
  /\ lock' = Free(c)
  /\ UNCHANGED <<keyspace, cmd, multi, registry, blocked, server, asked>>

\* The end of cmdExec, after the locks are gone.
ExecUnwatch(c) ==
  /\ Goto(c, "unwatch", "idle")
  /\ lock' = Free(c)
  /\ Unwatch(c)
  /\ UNCHANGED <<list, pushed, got, cmd, multi, blocked, server, asked>>

-----------------------------------------------------------------------------
(***************************************************************************)
(* Everyone else.                                                          *)
(***************************************************************************)
\* A key is reaped by the expiry cycle or evicted, under its ordering lock.
Reap(n) ==
  /\ list[n] # << >> /\ lock[n] = Nobody /\ Ask
  /\ list' = [list EXCEPT ![n] = << >>]
  /\ Touched({n})
  /\ UNCHANGED <<pushed, got, lock, pc, cmd, multi, server>>

\* FLUSHALL and SWAPDB hold every ordering lock from end to end and signal
\* nobody.
Silently(c, new) ==
  /\ pc[c] = "idle" /\ ~inMulti[c] /\ Ask
  /\ \A n \in Names : lock[n] = Nobody
  /\ new # list
  /\ list' = new
  /\ NoteChange({n \in Names : new[n] # list[n]})
  /\ UNCHANGED <<pushed, got, lock, pc, cmd, multi, registry, blocked, server>>

FlushAll(c) ==
  /\ SilentWrites \/ \A x \in Clients : watching[x] = {}
  /\ Silently(c, [n \in Names |-> << >>])

SwapDB(c, d, e) ==
  /\ SilentWrites \/ \A x \in Clients : watching[x] = {} /\ waiters[x] = {}
  /\ Silently(c, [n \in Names |-> IF n[1] = d THEN list[<<e, n[2]>>]
                                  ELSE IF n[1] = e THEN list[<<d, n[2]>>]
                                  ELSE list[n]])

\* The peer hangs up, or Server.Disconnect closes the socket.
Disconnect(c) ==
  /\ ~closed[c] /\ pc[c] # "gone" /\ Ask
  /\ closed' = [closed EXCEPT ![c] = TRUE]
  /\ UNCHANGED <<keyspace, lock, pc, cmd, multi, registry, blocked, quit>>

Quit ==
  /\ ~quit /\ quit' = TRUE
  /\ UNCHANGED <<keyspace, lock, pc, cmd, multi, registry, blocked, closed, asked>>

\* loop returns and serveConn's deferred calls run.
ConnectionEnds(c) ==
  /\ closed[c] \/ quit
  /\ Goto(c, "idle", "gone")
  /\ Unwatch(c)
  /\ UNCHANGED <<list, pushed, got, lock, cmd, multi, blocked, server, asked>>

\* Steps a goroutine takes of its own accord once a command has begun.
Progress(c) ==
  \/ RunPush(c) \/ Attempt(c) \/ FirstWait(c) \/ Yield(c) \/ WokenByKey(c)
  \/ ServerQuits(c) \/ Again(c) \/ GiveUp(c) \/ Release(c)
  \/ ExecLocked(c) \/ RunQueued(c) \/ ExecDone(c) \/ ExecUnwatch(c)

Request(c) ==
  \/ StartCommand(c) \/ cmdMulti(c) \/ queueCommand(c) \/ queueRefused(c)
  \/ cmdDiscard(c) \/ ExecAbort(c) \/ ExecBegin(c) \/ cmdUnwatch(c)
  \/ \E n \in Watched : cmdWatch(c, n)
  \/ FlushAll(c) \/ \E d, e \in Dbs : d < e /\ SwapDB(c, d, e)

Next ==
  \/ \E c \in Clients : Request(c) \/ Progress(c) \/ TimeoutExpires(c)
                        \/ Disconnect(c) \/ ConnectionEnds(c)
  \/ \E n \in Names : Reap(n)
  \/ Quit

Spec == Init /\ [][Next]_vars

\* Goroutines run, and Go's mutexes do not pass a waiter over for ever.
FairSpec == Spec /\ \A c \in Clients : SF_vars(Progress(c))

-----------------------------------------------------------------------------
(***************************************************************************)
(* What makes it correct.                                                  *)
(***************************************************************************)
\* The keys a client watches are unchanged since it watched them when EXEC
\* decides to run the queue: compare-and-set.
WatchSound ==
  [][\A c \in Clients : pc[c] = "exec" /\ pc'[c] = "run" => changed[c] = {}]_vars

\* While EXEC runs its queue the keyspace is changed by the queue alone, and a
\* command of the queue never waits.
ExecIsolated ==
  [][\A c \in Clients :
       pc[c] = "run" /\ list' # list =>
         queue[c] # << >> /\ queue'[c] = Tail(queue[c])]_vars

\* An element is in one list or with one client, whoever wakes, times out,
\* gives up or moves it.
EachElementOnce ==
  \A e \in Elems :
    Cardinality({c \in Clients : e \in got[c]})
      + Cardinality({p \in Names \X Elems : p[2] <= Len(list[p[1]]) /\ list[p[1]][p[2]] = e})
    <= 1

\* No lost wake-up: nobody sleeps, unsignalled, on a key that has an element,
\* although the retry and the wait are not one step and a wake is one for all.
NoSleepOnElement ==
  \A c \in Clients : \A n \in waiters[c] :
    pc[c] = "asleep" /\ ~ready[c] => list[n] = << >>

\* A registration never outlives the command or the connection that made it.
NoStaleRegistration ==
  \A c \in Clients :
    /\ pc[c] \in {"idle", "gone", "exec", "run"} => waiters[c] = {}
    /\ pc[c] = "gone" => watching[c] = {}

\* Liveness: a blocked client stops waiting once one of its keys has an
\* element, unless somebody else empties the list first.
HasElement(c) == \E n \in waiters[c] : list[n] # << >>
BlockedIsServed ==
  \A c \in Clients : pc[c] = "asleep" /\ HasElement(c) ~> pc[c] # "asleep" \/ ~HasElement(c)

\* Liveness: when the server stops, every command in progress ends.
QuitReleasesAll ==
  \A c \in Clients : quit ~> pc[c] \in {"idle", "gone"}

\* What the register of blocked clients, with the hand-off through it, keeps.
BlockingSafe == TypeOK /\ EachElementOnce /\ NoSleepOnElement /\ NoStaleRegistration
=============================================================================
