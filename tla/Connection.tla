----------------------------- MODULE Connection -----------------------------
(***************************************************************************)
(* One connection: its command loop and its delivery goroutine             *)
(* (server/conn.go), the subscriptions and the bounded outbox it is pushed *)
(* from (command/pubsub.go, monitor.go), and the server's shutdown         *)
(* (server/server.go).  Publishers and clients MONITOR watches are the     *)
(* environment.                                                            *)
(*                                                                         *)
(* What is written to the connection's writer is a sequence of replies,    *)
(* confirmations and pushes; where one flush ends is left out.  A write    *)
(* takes any time, and the peer reads on.                                  *)
(***************************************************************************)
EXTENDS Integers, Sequences, FiniteSets, SequencesExt

CONSTANTS
  Channels,       \* what is published to, MONITOR's feed among them
  Names,          \* what is subscribed to: channels, patterns, MONITOR
  Hears,          \* <<name, channel>>: messages a subscription receives
  OutboxDepth,    \* outboxDepth
  MaxPublished,   \* messages in a run
  MaxCommands,    \* commands the client sends in a run
  Timeout,        \* a client timeout is configured at the start
  TimeoutCleared  \* CONFIG SET timeout may go back to 0

ASSUME ConnectionAssumption ==
  /\ Hears \subseteq Names \X Channels
  /\ OutboxDepth \in Nat \ {0} /\ MaxPublished \in Nat /\ MaxCommands \in Nat
  /\ {Timeout, TimeoutCleared} \subseteq BOOLEAN

VARIABLES
  loop,        \* where serveConn's goroutine is
  cmd,         \* the command it runs
  sent,        \* commands the client has sent
  pusher,      \* where the delivery goroutine is, "none" before it starts
  stopped,     \* its stop channel is closed
  hand,        \* the message it has taken
  wmu,         \* holder of connection.wmu
  subs,        \* the client's channels and patterns, as the registry has them
  outbox, overflowed,
  registered,  \* in Server.clients
  sock,        \* the socket is open
  deadline, deadlineSet,    \* the read deadline, connection.deadlineSet
  timeout,     \* the configuration's
  quit, unblocked,          \* Shutdown's channel; unblockClients has run
  out,         \* what the writer was given
  published,   \* messages so far
  accepted     \* history: deliveries the outbox took, in order

goroutines == <<loop, cmd, sent, pusher, stopped, hand, wmu>>
registry == <<subs, outbox, overflowed, registered>>
socket == <<sock, deadline, deadlineSet>>
server == <<timeout, quit, unblocked>>
history == <<out, published, accepted>>
vars == <<goroutines, registry, socket, server, history>>

Commands == [op : {"sub", "unsub"}, name : Names] \cup [op : {"ping", "block", "quit"}, name : {""}]
NoCmd == [op |-> "none", name |-> ""]
Message(n, k) == [kind |-> "msg", name |-> n, id |-> k]
Confirm(c) == [kind |-> c.op, name |-> c.name, id |-> 0]
Nothing == Message("", 0)

TypeOK ==
  /\ loop \in {"top", "arm", "read", "exec", "run", "blocked", "reply", "flush", "check",
               "report", "stop", "remove", "unregister", "gone"}
  /\ cmd \in Commands \cup {NoCmd} /\ sent \in 0 .. MaxCommands
  /\ pusher \in {"none", "wait", "hold", "write", "done"}
  /\ stopped \in BOOLEAN
  /\ wmu \in {"free", "loop", "pusher"}
  /\ subs \subseteq Names /\ Len(outbox) <= OutboxDepth
  /\ {overflowed, registered, sock, deadlineSet, timeout, quit, unblocked} \subseteq BOOLEAN
  /\ deadline \in {"none", "future", "past"}
  /\ published \in 0 .. MaxPublished

Init ==
  /\ loop = "top" /\ cmd = NoCmd /\ sent = 0
  /\ pusher = "none" /\ stopped = FALSE /\ hand = Nothing /\ wmu = "free"
  /\ subs = {} /\ outbox = << >> /\ overflowed = FALSE /\ registered = TRUE
  /\ sock = TRUE /\ deadline = "none" /\ deadlineSet = FALSE
  /\ timeout = Timeout /\ quit = FALSE /\ unblocked = FALSE
  /\ out = << >> /\ published = 0 /\ accepted = << >>

Goto(from, to) == loop = from /\ loop' = to

-----------------------------------------------------------------------------
(***************************************************************************)
(* The command loop.                                                       *)
(***************************************************************************)
LoopTop ==
  /\ Goto("top", IF quit THEN "stop" ELSE "arm")
  /\ UNCHANGED <<cmd, sent, pusher, stopped, hand, wmu, registry, socket, server, history>>

\* SetReadDeadline, only when a timeout is configured or one is in force.
ArmDeadline ==
  /\ Goto("arm", "read")
  /\ deadline' = IF timeout THEN "future" ELSE IF deadlineSet THEN "none" ELSE deadline
  /\ deadlineSet' = timeout
  /\ UNCHANGED <<cmd, sent, pusher, stopped, hand, wmu, registry, sock, server, history>>

ReadCommand ==
  /\ sock /\ sent < MaxCommands
  /\ Goto("read", "exec")
  /\ \E c \in Commands : cmd' = c
  /\ sent' = sent + 1
  /\ UNCHANGED <<pusher, stopped, hand, wmu, registry, socket, server, history>>

\* The peer closed the socket, CLIENT KILL did, or the deadline passed.
ReadFails ==
  /\ ~sock \/ deadline = "past"
  /\ Goto("read", "stop")
  /\ UNCHANGED <<cmd, sent, pusher, stopped, hand, wmu, registry, socket, server, history>>

\* handleReadError of a framing error: the reply is written without wmu.
ProtocolError ==
  /\ sock /\ sent < MaxCommands
  /\ Goto("read", "report")
  /\ sent' = sent + 1
  /\ UNCHANGED <<cmd, pusher, stopped, hand, wmu, registry, socket, server, history>>

ReportError ==
  /\ Goto("report", "stop")
  /\ out' = Append(out, Confirm(NoCmd))
  /\ UNCHANGED <<cmd, sent, pusher, stopped, hand, wmu, registry, socket, server, published, accepted>>

\* A bug: the lock is not taken.
LockWriter_Never == UNCHANGED wmu

\* wmu is taken only while there is a delivery goroutine.
LockWriter ==
  IF pusher = "none" THEN UNCHANGED wmu ELSE wmu = "free" /\ wmu' = "loop"

Unlocked == IF wmu = "loop" THEN "free" ELSE wmu

ExecuteBegins ==
  /\ Goto("exec", "run")
  /\ LockWriter
  /\ UNCHANGED <<cmd, sent, pusher, stopped, hand, registry, socket, server, history>>

\* The handler: PubSub.Subscribe, PSubscribe, their inverses, or Monitors.Add;
\* a blocking command ("block") whose first attempts succeed ends here as well.
RunHandler ==
  /\ Goto("run", "reply")
  /\ subs' = IF cmd.op = "sub" THEN subs \cup {cmd.name}
             ELSE IF cmd.op = "unsub" THEN subs \ {cmd.name} ELSE subs
  /\ UNCHANGED <<cmd, sent, pusher, stopped, hand, wmu, outbox, overflowed, registered, socket, server, history>>

\* blockUntil finds nothing there and waits in its select, which the socket is
\* no part of; a RESP3 subscriber and a MONITOR client may run BLPOP as well,
\* and execute holds wmu all the while.
HandlerBlocks ==
  /\ cmd.op = "block"
  /\ Goto("run", "blocked")
  /\ UNCHANGED <<cmd, sent, pusher, stopped, hand, wmu, registry, socket, server, history>>

\* Another client writes the key, or the command's own timeout passes.  With
\* timeout 0 nothing makes either happen.
HandlerServed ==
  /\ Goto("blocked", "reply")
  /\ UNCHANGED <<cmd, sent, pusher, stopped, hand, wmu, registry, socket, server, history>>

\* The select hears Host.Quit.
HandlerReleased ==
  /\ quit
  /\ Goto("blocked", "reply")
  /\ UNCHANGED <<cmd, sent, pusher, stopped, hand, wmu, registry, socket, server, history>>

\* A bug: a reply is written and the lock kept.
WriteReply_KeepsLock ==
  /\ Goto("reply", "flush")
  /\ out' = Append(out, Confirm(cmd))
  /\ UNCHANGED <<cmd, sent, pusher, stopped, hand, wmu, registry, socket, server, published, accepted>>

\* The confirmation or the reply goes to the writer, and execute unlocks.
WriteReply ==
  /\ Goto("reply", "flush")
  /\ out' = Append(out, Confirm(cmd))
  /\ wmu' = Unlocked
  /\ UNCHANGED <<cmd, sent, pusher, stopped, hand, registry, socket, server, published, accepted>>

\* More commands are buffered and nothing is flushed, or the flush succeeds or
\* fails, under wmu.
Flush ==
  /\ loop = "flush"
  /\ \/ /\ cmd.op # "quit" /\ sock
        /\ loop' = "check"
     \/ /\ pusher = "none" \/ wmu = "free"
        /\ loop' = IF sock THEN "check" ELSE "stop"
  /\ UNCHANGED <<cmd, sent, pusher, stopped, hand, wmu, registry, socket, server, history>>

\* startPusher, then the checks at the end of the loop's body.
CheckClient ==
  /\ loop = "check"
  /\ pusher' = IF pusher = "none" /\ subs # {} THEN "wait" ELSE pusher
  /\ loop' = IF overflowed \/ cmd.op = "quit" THEN "stop" ELSE "top"
  /\ cmd' = NoCmd
  /\ UNCHANGED <<sent, stopped, hand, wmu, registry, socket, server, history>>

\* serveConn's deferred calls: stopPusher, PubSub.Remove and Monitors.Remove,
\* unregisterConn, and last the socket.
StopPusher ==
  /\ Goto("stop", "remove")
  /\ stopped' = (pusher # "none")
  /\ UNCHANGED <<cmd, sent, pusher, hand, wmu, registry, socket, server, history>>

\* A bug: the client's patterns are forgotten by Remove.
RemoveClient_One ==
  /\ Goto("remove", "unregister")
  /\ \E n \in subs \cup {""} : subs' = subs \ {n}
  /\ UNCHANGED <<cmd, sent, pusher, stopped, hand, wmu, outbox, overflowed, registered, socket, server, history>>

RemoveClient ==
  /\ Goto("remove", "unregister")
  /\ subs' = {}
  /\ UNCHANGED <<cmd, sent, pusher, stopped, hand, wmu, outbox, overflowed, registered, socket, server, history>>

Unregister ==
  /\ Goto("unregister", "gone")
  /\ registered' = FALSE /\ sock' = FALSE
  /\ UNCHANGED <<cmd, sent, pusher, stopped, hand, wmu, subs, outbox, overflowed, deadline, deadlineSet, server, history>>

-----------------------------------------------------------------------------
(***************************************************************************)
(* The delivery goroutine.                                                 *)
(***************************************************************************)
\* A bug: the newest message is taken first.
PusherTakes_Newest ==
  /\ pusher = "wait" /\ outbox # << >>
  /\ hand' = outbox[Len(outbox)] /\ outbox' = SubSeq(outbox, 1, Len(outbox) - 1)
  /\ pusher' = "hold"
  /\ UNCHANGED <<loop, cmd, sent, stopped, wmu, subs, overflowed, registered, socket, server, history>>

PusherTakes ==
  /\ pusher = "wait" /\ outbox # << >>
  /\ hand' = Head(outbox) /\ outbox' = Tail(outbox)
  /\ pusher' = "hold"
  /\ UNCHANGED <<loop, cmd, sent, stopped, wmu, subs, overflowed, registered, socket, server, history>>

PusherLocks ==
  /\ pusher = "hold" /\ wmu = "free"
  /\ wmu' = "pusher" /\ pusher' = "write"
  /\ UNCHANGED <<loop, cmd, sent, stopped, hand, registry, socket, server, history>>


\* push: one message, written and flushed; an error ends the goroutine.
PusherWrites ==
  /\ pusher = "write"
  /\ out' = IF sock THEN Append(out, hand) ELSE out
  /\ pusher' = IF sock THEN "wait" ELSE "done"
  /\ wmu' = "free" /\ hand' = Nothing
  /\ UNCHANGED <<loop, cmd, sent, stopped, registry, socket, server, published, accepted>>


PusherStops ==
  /\ pusher = "wait" /\ (stopped \/ quit)
  /\ pusher' = "done"
  /\ UNCHANGED <<loop, cmd, sent, stopped, hand, wmu, registry, socket, server, history>>

-----------------------------------------------------------------------------
(***************************************************************************)
(* The rest of the server.                                                 *)
(***************************************************************************)
\* A bug: a subscriber with a full outbox is left out and not marked.
Deliver_Silently(msgs) ==
  LET n == IF Len(msgs) <= OutboxDepth - Len(outbox) THEN Len(msgs) ELSE OutboxDepth - Len(outbox)
      took == SubSeq(msgs, 1, n)
  IN /\ outbox' = outbox \o took /\ accepted' = accepted \o took
     /\ UNCHANGED overflowed

\* A bug: the outbox has no bound.
Deliver_Unbounded(msgs) ==
  /\ outbox' = outbox \o msgs /\ accepted' = accepted \o msgs
  /\ UNCHANGED overflowed

\* Client.deliver of each copy of a message: a send that does not block.
Deliver(msgs) ==
  LET n == IF Len(msgs) <= OutboxDepth - Len(outbox) THEN Len(msgs) ELSE OutboxDepth - Len(outbox)
      took == SubSeq(msgs, 1, n)
  IN /\ outbox' = outbox \o took /\ accepted' = accepted \o took
     /\ overflowed' = (overflowed \/ n < Len(msgs))

\* Publish, and Feed: one copy for each subscription that hears the channel.
Publish ==
  /\ published < MaxPublished
  /\ published' = published + 1
  /\ \E ch \in Channels :
       \E to \in SetToSeqs({n \in subs : <<n, ch>> \in Hears}) :
         Deliver([i \in DOMAIN to |-> Message(to[i], published + 1)])
  /\ UNCHANGED <<goroutines, subs, registered, socket, server, out>>

\* The peer hangs up or CLIENT KILL closes the socket.
Disconnect ==
  /\ sock /\ sock' = FALSE
  /\ UNCHANGED <<goroutines, registry, deadline, deadlineSet, server, history>>

\* Time passes, or the idle reaper shortens a deadline.
DeadlinePasses ==
  /\ deadline = "future" \/ (timeout /\ registered /\ deadline = "none")
  /\ deadline' = "past"
  /\ UNCHANGED <<goroutines, registry, sock, deadlineSet, server, history>>

\* CONFIG SET timeout.
SetTimeout ==
  /\ TimeoutCleared \/ ~timeout
  /\ timeout' = ~timeout
  /\ UNCHANGED <<goroutines, registry, socket, quit, unblocked, history>>

Shutdown ==
  /\ ~quit /\ quit' = TRUE
  /\ UNCHANGED <<goroutines, registry, socket, timeout, unblocked, history>>

\* A bug: parked connections are not woken.
UnblockClients_Never ==
  /\ quit /\ ~unblocked /\ unblocked' = TRUE
  /\ UNCHANGED <<goroutines, registry, socket, timeout, quit, history>>

\* drain: every registered connection's read deadline is now.
UnblockClients ==
  /\ quit /\ ~unblocked /\ unblocked' = TRUE
  /\ deadline' = IF registered THEN "past" ELSE deadline
  /\ UNCHANGED <<goroutines, registry, sock, deadlineSet, timeout, quit, history>>

LoopStep ==
  \/ LoopTop \/ ArmDeadline \/ ReadFails \/ ReportError \/ ExecuteBegins
  \/ RunHandler \/ HandlerBlocks \/ HandlerReleased \/ WriteReply \/ Flush \/ CheckClient \/ StopPusher \/ RemoveClient \/ Unregister
PusherStep == PusherTakes \/ PusherLocks \/ PusherWrites \/ PusherStops

Next ==
  \/ LoopStep \/ PusherStep
  \/ ReadCommand \/ ProtocolError \/ HandlerServed
  \/ Publish \/ Disconnect \/ DeadlinePasses \/ SetTimeout \/ Shutdown \/ UnblockClients

Spec == Init /\ [][Next]_vars

\* Both goroutines run, Go's mutexes pass nobody over for ever, the drain goes
\* on once it has begun, and time passes.  Nothing makes a client send, and
\* nothing makes another one serve what a blocking command waits for.
FairSpec ==
  /\ Spec
  /\ SF_vars(LoopStep) /\ SF_vars(PusherStep)
  /\ WF_vars(UnblockClients) /\ WF_vars(DeadlinePasses)

-----------------------------------------------------------------------------
(***************************************************************************)
(* What makes it correct.                                                  *)
(***************************************************************************)
\* The delivery goroutine never writes into a reply, although the loop takes
\* the lock only once there is such a goroutine and starts it itself.  (The
\* reply to a framing error, "report", is written without the lock.)
WriterExclusive == pusher = "write" => loop \notin {"run", "blocked", "reply"}

\* A message never overtakes the confirmation of the subscription it is for,
\* although the registry hears of the subscription first.
ConfirmedFirst ==
  \A i \in DOMAIN out : out[i].kind = "msg" =>
    \E j \in 1 .. i - 1 : out[j].kind = "sub" /\ out[j].name = out[i].name

\* The messages among what the writer was given: the n-th is at the position
\* that has n of them up to it.
MessageAt(o) == {i \in DOMAIN o : o[i].kind = "msg"}
Nth(o, n) == {i \in MessageAt(o) : Cardinality(MessageAt(o) \cap (1 .. i)) = n}
Messages(o) ==
  [n \in 1 .. Cardinality(MessageAt(o)) |-> CHOOSE m \in {o[i] : i \in Nth(o, n)} : TRUE]

\* PUBLISH counts honestly: while the connection lives, what the outbox took is
\* on the wire, in the delivery goroutine's hand or still queued, in order.
NothingAcceptedIsLost ==
  sock /\ pusher # "done" =>
    Messages(out)
      \o (IF pusher \in {"hold", "write"} THEN <<hand>> ELSE << >>) \o outbox = accepted

\* A copy that found no room marks the client, for good: a subscriber that has
\* missed a message is never taken for one that has not.
DroppedMarksClient ==
  [][~overflowed' /\ published' # published =>
       \E ch \in Channels :
         Len(accepted') - Len(accepted) = Cardinality({n \in subs : <<n, ch>> \in Hears})]_vars

\* The registries never hold a client whose connection has been forgotten.
NoGhost == ~registered => subs = {}

\* Liveness: what is queued or in the goroutine's hand is written, unless the
\* connection ends, or the client's own blocking command is never served, never
\* times out and holds the writer for ever.  A blocking command that ends, one
\* after another of them, holds nothing up.
EventuallyPushed ==
  [](pusher # "none" /\ (outbox # << >> \/ hand # Nothing)
       => <>((outbox = << >> /\ hand = Nothing) \/ pusher = "done" \/ [](loop = "blocked")))

\* Liveness: when the server stops, both goroutines end.
DrainEnds == quit ~> loop = "gone" /\ pusher \in {"none", "done"}

\* What the peer and the registries see of the two goroutines' hand-over.
DeliverySafe ==
  TypeOK /\ WriterExclusive /\ ConfirmedFirst /\ NothingAcceptedIsLost /\ NoGhost
=============================================================================
