-------------------------- MODULE ConnectionProofs --------------------------
(***************************************************************************)
(* What Connection promises for any channels, names and depth of the       *)
(* outbox.  MutexInv says who writes, ShapeInv what is queued, NameInv     *)
(* that a message is for a subscription confirmed or about to be, EndInv   *)
(* how a connection is forgotten.                                          *)
(***************************************************************************)
EXTENDS Connection, FiniteSetTheorems, TLAPS

\* Replies, confirmations and pushed messages.
Entry == [kind : {"msg", "sub", "unsub", "ping", "block", "quit", "none"},
          name : Names \cup {""}, id : Nat]
Msg == {e \in Entry : e.kind = "msg"}

ShapeInv ==
  /\ out \in Seq(Entry) /\ outbox \in Seq(Msg) /\ accepted \in Seq(Msg)
  /\ hand \in Msg
  /\ IsFiniteSet(subs)

\* The loop runs a command with the lock, or there is nobody to keep out.
MutexInv ==
  /\ pusher = "write" <=> wmu = "pusher"
  /\ wmu = "loop" => loop \in {"run", "blocked", "reply"}
  /\ loop \in {"run", "blocked", "reply"} => pusher = "none" \/ wmu = "loop"

\* A name that is subscribed to, queued for or in the goroutine's hand has its
\* confirmation on the wire, or the loop is about to write it.
Confirmed(n) == \E j \in DOMAIN out : out[j].kind = "sub" /\ out[j].name = n
Coming(n) == loop = "reply" /\ cmd.op = "sub" /\ cmd.name = n
NameInv ==
  /\ \A n \in subs : Confirmed(n) \/ Coming(n)
  /\ \A i \in DOMAIN outbox : Confirmed(outbox[i].name) \/ Coming(outbox[i].name)
  /\ pusher \in {"hold", "write"} => Confirmed(hand.name) \/ Coming(hand.name)

EndInv ==
  /\ loop \in {"unregister", "gone"} => subs = {}
  /\ ~registered => loop = "gone"

-----------------------------------------------------------------------------
(***************************************************************************)
(* What is written and what is delivered.                                  *)
(***************************************************************************)
LEMMA CmdShape ==
  ASSUME TypeOK
  PROVE  /\ cmd.op \in {"sub", "unsub", "ping", "block", "quit", "none"}
         /\ cmd.name \in Names \cup {""}
         /\ cmd.op \in {"sub", "unsub"} => cmd.name \in Names
<1>1. \/ cmd \in [op : {"sub", "unsub"}, name : Names]
      \/ cmd \in [op : {"ping", "block", "quit"}, name : {""}]
      \/ cmd = [op |-> "none", name |-> ""]
  BY DEF TypeOK, Commands, NoCmd
<1>2. CASE cmd \in [op : {"sub", "unsub"}, name : Names]
  BY <1>2
<1>3. CASE cmd \in [op : {"ping", "block", "quit"}, name : {""}]
  BY <1>3
<1>4. CASE cmd = [op |-> "none", name |-> ""]
  BY <1>4
<1>5. QED BY <1>1, <1>2, <1>3, <1>4
\* Sequences over one set, joined.
LEMMA Concat ==
  ASSUME NEW S, NEW s \in Seq(S), NEW t \in Seq(S)
  PROVE  s \o t \in Seq(S) /\ Len(s \o t) = Len(s) + Len(t)
OBVIOUS

\* Joining is associative.
LEMMA Regroup ==
  ASSUME NEW S, NEW m \in Seq(S), NEW b \in Seq(S), NEW t \in Seq(S)
  PROVE  m \o (b \o t) = (m \o b) \o t
OBVIOUS

\* A confirmation is an entry of its command, never a message.
LEMMA ConfirmShape ==
  ASSUME TypeOK
  PROVE  /\ Confirm(cmd) \in Entry /\ Confirm(cmd).kind # "msg"
         /\ Confirm(cmd).kind = cmd.op /\ Confirm(cmd).name = cmd.name
         /\ Confirm(NoCmd) \in Entry /\ Confirm(NoCmd).kind = "none"
BY CmdShape DEF NoCmd, Confirm, Entry

\* A delivery: how many copies there are, and how many the outbox takes.
LEMMA DeliverMeans ==
  ASSUME TypeOK, ShapeInv, NEW msgs \in Seq(Msg), Deliver(msgs)
  PROVE  \E took \in Seq(Msg) :
           /\ outbox' = outbox \o took /\ accepted' = accepted \o took
           /\ outbox' \in Seq(Msg) /\ accepted' \in Seq(Msg) /\ Len(outbox') <= OutboxDepth
           /\ Len(took) <= Len(msgs) /\ \A i \in 1 .. Len(took) : took[i] = msgs[i]
           /\ overflowed' \in BOOLEAN
           /\ ~overflowed' => Len(took) = Len(msgs)
<1> DEFINE n == IF Len(msgs) <= OutboxDepth - Len(outbox) THEN Len(msgs)
                ELSE OutboxDepth - Len(outbox)
           took == SubSeq(msgs, 1, n)
<1>1. /\ Len(msgs) \in Nat /\ Len(outbox) \in Nat /\ OutboxDepth \in Nat
      /\ Len(outbox) <= OutboxDepth
  BY ConnectionAssumption DEF TypeOK, ShapeInv
<1>2. n \in Nat /\ n <= Len(msgs) /\ Len(outbox) + n <= OutboxDepth
  BY <1>1
<1>3. /\ outbox' = outbox \o took /\ accepted' = accepted \o took
      /\ overflowed' = (overflowed \/ n < Len(msgs))
  BY DEF Deliver
<1>4. /\ outbox \in Seq(Msg) /\ accepted \in Seq(Msg)
  BY DEF ShapeInv
<1> HIDE DEF n
<1>5. took \in Seq(Msg) /\ Len(took) = n /\ \A i \in 1 .. n : took[i] = msgs[i]
  BY <1>1, <1>2
<1> HIDE DEF took
<1>6. outbox' \in Seq(Msg) /\ accepted' \in Seq(Msg) /\ Len(outbox') = Len(outbox) + n
  BY <1>3, <1>4, <1>5, Concat
<1>7. overflowed' \in BOOLEAN
  BY <1>3
<1>8. ~overflowed' => n = Len(msgs)
  <2>1. ~overflowed' => ~(n < Len(msgs))
    BY <1>3, Zenon
  <2>2. QED BY <1>1, <1>2, <2>1
<1>9. QED BY <1>1, <1>2, <1>3, <1>5, <1>6, <1>7, <1>8

\* A publication: one copy for each name that hears the channel.
LEMMA PublishMeans ==
  ASSUME TypeOK, ShapeInv, Publish
  PROVE  \E ch \in Channels : \E msgs \in Seq(Msg) :
           /\ Deliver(msgs)
           /\ Len(msgs) = Cardinality({n \in subs : <<n, ch>> \in Hears})
           /\ \A i \in 1 .. Len(msgs) : msgs[i].name \in subs
<1>1. PICK ch \in Channels :
        \E to \in SetToSeqs({n \in subs : <<n, ch>> \in Hears}) :
          Deliver([i \in DOMAIN to |-> Message(to[i], published + 1)])
  BY DEF Publish
<1> DEFINE S == {n \in subs : <<n, ch>> \in Hears}
<1>2. PICK to \in SetToSeqs(S) : Deliver([i \in DOMAIN to |-> Message(to[i], published + 1)])
  BY <1>1
<1> DEFINE msgs == [i \in DOMAIN to |-> Message(to[i], published + 1)]
<1>3. S \subseteq subs /\ IsFiniteSet(S) /\ Cardinality(S) \in Nat
  <2>1. S \subseteq subs /\ IsFiniteSet(subs)
    BY DEF ShapeInv
  <2> HIDE DEF S
  <2>2. QED BY <2>1, FS_Subset, FS_CardinalityType
<1> HIDE DEF S
<1>4. to \in [1 .. Cardinality(S) -> S]
  BY <1>2, Zenon DEF SetToSeqs
<1>5. published + 1 \in Nat /\ subs \subseteq Names
  BY ConnectionAssumption DEF TypeOK
<1>6. ASSUME NEW i \in 1 .. Cardinality(S)
      PROVE  Message(to[i], published + 1) \in Msg /\ to[i] \in subs
             /\ Message(to[i], published + 1).name = to[i]
  BY <1>3, <1>4, <1>5 DEF Message, Msg, Entry
<1>7. DOMAIN msgs = 1 .. Cardinality(S) /\ \A i \in DOMAIN msgs : msgs[i] \in Msg
  BY <1>4, <1>6
<1>8. \A i \in DOMAIN msgs : msgs[i].name \in subs
  BY <1>4, <1>6
<1>9. Deliver(msgs)
  BY <1>2
<1> HIDE DEF msgs
<1>10. msgs \in Seq(Msg) /\ Len(msgs) = Cardinality(S)
  <2>1. msgs = [i \in 1 .. Cardinality(S) |-> msgs[i]]
    BY <1>7 DEF msgs
  <2>2. msgs \in [1 .. Cardinality(S) -> Msg]
    BY <1>7, <2>1
  <2>3. QED BY <1>3, <2>2
<1>11. QED BY <1>8, <1>7, <1>9, <1>10 DEF S

-----------------------------------------------------------------------------
(***************************************************************************)
(* Types and shapes.                                                       *)
(***************************************************************************)
LEMMA TypeStep ==
  ASSUME TypeOK, ShapeInv, [Next]_vars
  PROVE  TypeOK' /\ ShapeInv'
<1> USE ConnectionAssumption
<1> USE DEF goroutines, registry, socket, server, history, Goto
<1>1. CASE LoopTop \/ ArmDeadline \/ ReadFails
  BY <1>1 DEF LoopTop, ArmDeadline, ReadFails, TypeOK, ShapeInv
<1>2. CASE ReadCommand
  BY <1>2 DEF ReadCommand, TypeOK, ShapeInv
<1>3. CASE ProtocolError
  BY <1>3 DEF ProtocolError, TypeOK, ShapeInv
<1>4. CASE ReportError \/ WriteReply
  <2>1. \E e \in Entry : out' = Append(out, e)
    BY <1>4, ConfirmShape DEF ReportError, WriteReply
  <2>2. out' \in Seq(Entry)
    BY <2>1 DEF ShapeInv
  <2>3. ShapeInv'
    BY <1>4, <2>2 DEF ReportError, WriteReply, ShapeInv
  <2>4. QED BY <1>4, <2>3 DEF ReportError, WriteReply, TypeOK, Unlocked
<1>5. CASE ExecuteBegins
  BY <1>5 DEF ExecuteBegins, LockWriter, TypeOK, ShapeInv
<1>6. CASE RunHandler
  <2>1. subs' \in {subs, subs \cup {cmd.name}, subs \ {cmd.name}} /\
        (cmd.op = "sub" \/ subs' \subseteq subs)
    BY <1>6 DEF RunHandler
  <2>2. subs' \subseteq Names
    <3>1. CASE cmd.op = "sub"
      <4>1. cmd.name \in Names
        BY <3>1, CmdShape
      <4>2. QED BY <2>1, <4>1 DEF TypeOK
    <3>2. CASE cmd.op # "sub"
      BY <2>1, <3>2 DEF TypeOK
    <3>3. QED BY <3>1, <3>2
  <2>3. IsFiniteSet(subs')
    <3>1. IsFiniteSet(subs)
      BY DEF ShapeInv
    <3>2. IsFiniteSet(subs \cup {cmd.name})
      BY <3>1, FS_AddElement
    <3>3. IsFiniteSet(subs \ {cmd.name})
      BY <3>1, FS_Subset
    <3>4. QED BY <2>1, <3>1, <3>2, <3>3
  <2>4. QED BY <1>6, <2>2, <2>3 DEF RunHandler, TypeOK, ShapeInv
<1>7. CASE Flush
  BY <1>7 DEF Flush, TypeOK, ShapeInv
<1>8. CASE CheckClient
  BY <1>8 DEF CheckClient, TypeOK, ShapeInv
<1>9. CASE StopPusher
  <2>1. stopped' \in BOOLEAN
    BY <1>9 DEF StopPusher
  <2>2. QED BY <1>9, <2>1 DEF StopPusher, TypeOK, ShapeInv
<1>10. CASE RemoveClient
  BY <1>10, FS_EmptySet DEF RemoveClient, TypeOK, ShapeInv
<1>11. CASE Unregister
  BY <1>11 DEF Unregister, TypeOK, ShapeInv
<1>12. CASE PusherTakes
  <2>1. outbox \in Seq(Msg) /\ outbox # << >> /\ Len(outbox) <= OutboxDepth
    BY <1>12 DEF PusherTakes, ShapeInv, TypeOK
  <2>2. Head(outbox) \in Msg /\ Tail(outbox) \in Seq(Msg) /\ Len(Tail(outbox)) <= OutboxDepth
    BY <2>1
  <2>3. QED BY <1>12, <2>2 DEF PusherTakes, TypeOK, ShapeInv
<1>13. CASE PusherLocks \/ PusherStops
  BY <1>13 DEF PusherLocks, PusherStops, TypeOK, ShapeInv
<1>14. CASE PusherWrites
  <2>1. hand \in Entry /\ out \in Seq(Entry) /\ out' \in {out, Append(out, hand)}
    BY <1>14 DEF PusherWrites, ShapeInv, Msg
  <2>2. out' \in Seq(Entry)
    BY <2>1
  <2>3. Nothing \in Msg
    BY DEF Nothing, Message, Msg, Entry
  <2>4. QED BY <1>14, <2>2, <2>3 DEF PusherWrites, TypeOK, ShapeInv
<1>15. CASE Publish
  <2>1. PICK msgs \in Seq(Msg) : Deliver(msgs)
    BY <1>15, PublishMeans
  <2>2. /\ outbox' \in Seq(Msg) /\ accepted' \in Seq(Msg) /\ Len(outbox') <= OutboxDepth
        /\ overflowed' \in BOOLEAN
    BY <2>1, DeliverMeans
  <2>3. published' \in 0 .. MaxPublished
    BY <1>15 DEF Publish, TypeOK
  <2>4. QED BY <1>15, <2>2, <2>3 DEF Publish, TypeOK, ShapeInv
<1>16. CASE Disconnect \/ DeadlinePasses \/ Shutdown \/ UnblockClients
  <2>1. CASE Disconnect
    BY <2>1, ZenonT(30) DEF Disconnect, TypeOK, ShapeInv
  <2>2. CASE DeadlinePasses
    BY <2>2 DEF DeadlinePasses, TypeOK, ShapeInv
  <2>3. CASE Shutdown
    BY <2>3 DEF Shutdown, TypeOK, ShapeInv
  <2>4. CASE UnblockClients
    BY <2>4 DEF UnblockClients, TypeOK, ShapeInv
  <2>5. QED BY <1>16, <2>1, <2>2, <2>3, <2>4
<1>17. CASE SetTimeout
  BY <1>17 DEF SetTimeout, TypeOK, ShapeInv
<1>18. CASE UNCHANGED vars
  BY <1>18 DEF vars, TypeOK, ShapeInv
<1>19. CASE HandlerBlocks \/ HandlerServed \/ HandlerReleased
  BY <1>19 DEF HandlerBlocks, HandlerServed, HandlerReleased, TypeOK, ShapeInv
<1>20. QED
  BY <1>1, <1>2, <1>3, <1>4, <1>5, <1>6, <1>7, <1>8, <1>9, <1>10, <1>11, <1>12, <1>13,
     <1>14, <1>15, <1>16, <1>17, <1>18, <1>19
  DEF Next, LoopStep, PusherStep

\* The initial state has the types.
LEMMA TypeStart == Init => TypeOK /\ ShapeInv
<1> SUFFICES ASSUME Init PROVE TypeOK /\ ShapeInv
  OBVIOUS
<1>1. Nothing \in Msg
  BY DEF Nothing, Message, Msg, Entry
<1>2. ShapeInv
  BY <1>1, FS_EmptySet DEF Init, ShapeInv
<1>3. TypeOK
  <2>1. /\ {overflowed, registered, sock, deadlineSet, timeout, quit, unblocked} \subseteq BOOLEAN
        /\ stopped \in BOOLEAN
    BY ConnectionAssumption DEF Init
  <2>2. Len(outbox) <= OutboxDepth /\ sent \in 0 .. MaxCommands /\ published \in 0 .. MaxPublished
    BY ConnectionAssumption DEF Init
  <2>3. QED BY <2>1, <2>2 DEF Init, TypeOK
<1>4. QED BY <1>2, <1>3

\* Every variable keeps its type; in particular no client, however slow, makes
\* the server queue more than outboxDepth messages for it.
THEOREM TypeCorrect == Spec => []TypeOK
<1>1. TypeOK /\ ShapeInv /\ [Next]_vars => TypeOK' /\ ShapeInv'
  BY TypeStep
<1>2. QED BY <1>1, TypeStart, PTL DEF Spec

-----------------------------------------------------------------------------
(***************************************************************************)
(* Who writes, and how a connection is forgotten.                          *)
(***************************************************************************)
LEMMA MutexStep ==
  ASSUME TypeOK, MutexInv, [Next]_vars
  PROVE  MutexInv'
<1> USE DEF goroutines, registry, socket, server, history, Goto, MutexInv
<1>1. CASE LoopTop \/ ArmDeadline \/ ReadFails \/ ReadCommand \/ ProtocolError \/ ReportError
  BY <1>1 DEF LoopTop, ArmDeadline, ReadFails, ReadCommand, ProtocolError, ReportError
<1>2. CASE ExecuteBegins \/ RunHandler \/ HandlerBlocks \/ HandlerServed
           \/ HandlerReleased \/ WriteReply
  BY <1>2 DEF ExecuteBegins, LockWriter, RunHandler, HandlerBlocks, HandlerServed,
      HandlerReleased, WriteReply, Unlocked
<1>3. CASE Flush \/ CheckClient \/ StopPusher \/ RemoveClient \/ Unregister
  BY <1>3 DEF Flush, CheckClient, StopPusher, RemoveClient, Unregister
<1>4. CASE PusherTakes \/ PusherLocks \/ PusherWrites \/ PusherStops
  BY <1>4 DEF PusherTakes, PusherLocks, PusherWrites, PusherStops
<1>5. CASE Publish \/ Disconnect \/ DeadlinePasses \/ SetTimeout \/ Shutdown \/ UnblockClients
  BY <1>5 DEF Publish, Disconnect, DeadlinePasses, SetTimeout, Shutdown, UnblockClients
<1>6. CASE UNCHANGED vars
  BY <1>6 DEF vars
<1>7. QED
  BY <1>1, <1>2, <1>3, <1>4, <1>5, <1>6 DEF Next, LoopStep, PusherStep

\* What ends a connection is preserved by every step.
LEMMA EndStep ==
  ASSUME TypeOK, EndInv, [Next]_vars
  PROVE  EndInv'
<1> USE DEF goroutines, registry, socket, server, history, Goto, EndInv
<1>1. CASE LoopTop \/ ArmDeadline \/ ReadFails \/ ReadCommand \/ ProtocolError \/ ReportError
  BY <1>1 DEF LoopTop, ArmDeadline, ReadFails, ReadCommand, ProtocolError, ReportError
<1>2. CASE ExecuteBegins \/ RunHandler \/ HandlerBlocks \/ HandlerServed
           \/ HandlerReleased \/ WriteReply
  BY <1>2 DEF ExecuteBegins, RunHandler, HandlerBlocks, HandlerServed, HandlerReleased, WriteReply
<1>3. CASE Flush \/ CheckClient \/ StopPusher \/ RemoveClient \/ Unregister
  BY <1>3 DEF Flush, CheckClient, StopPusher, RemoveClient, Unregister
<1>4. CASE PusherTakes \/ PusherLocks \/ PusherWrites \/ PusherStops
  BY <1>4 DEF PusherTakes, PusherLocks, PusherWrites, PusherStops
<1>5. CASE Publish \/ Disconnect \/ DeadlinePasses \/ SetTimeout \/ Shutdown \/ UnblockClients
  BY <1>5 DEF Publish, Disconnect, DeadlinePasses, SetTimeout, Shutdown, UnblockClients
<1>6. CASE UNCHANGED vars
  BY <1>6 DEF vars
<1>7. QED
  BY <1>1, <1>2, <1>3, <1>4, <1>5, <1>6 DEF Next, LoopStep, PusherStep

-----------------------------------------------------------------------------
(***************************************************************************)
(* A confirmation comes before the messages of its subscription.           *)
(***************************************************************************)
\* What is on the wire stays there.
LEMMA OutGrows ==
  ASSUME TypeOK, ShapeInv, [Next]_vars
  PROVE  /\ out' = out \/ (ReportError \/ WriteReply \/ PusherWrites)
         /\ Len(out) <= Len(out') /\ \A i \in 1 .. Len(out) : out'[i] = out[i]
<1> USE DEF goroutines, registry, socket, server, history, Goto
<1>1. out' = out \/ (ReportError \/ WriteReply \/ PusherWrites)
  <2>1. CASE LoopTop \/ ArmDeadline \/ ReadFails \/ ReadCommand \/ ProtocolError
    BY <2>1 DEF LoopTop, ArmDeadline, ReadFails, ReadCommand, ProtocolError
  <2>2. CASE ExecuteBegins \/ RunHandler \/ HandlerBlocks \/ HandlerServed \/ HandlerReleased
    BY <2>2 DEF ExecuteBegins, RunHandler, HandlerBlocks, HandlerServed, HandlerReleased
  <2>3. CASE Flush \/ CheckClient \/ StopPusher \/ RemoveClient \/ Unregister
    BY <2>3 DEF Flush, CheckClient, StopPusher, RemoveClient, Unregister
  <2>4. CASE PusherTakes \/ PusherLocks \/ PusherStops
    BY <2>4 DEF PusherTakes, PusherLocks, PusherStops
  <2>5. CASE Publish \/ Disconnect \/ DeadlinePasses \/ SetTimeout \/ Shutdown \/ UnblockClients
    BY <2>5 DEF Publish, Disconnect, DeadlinePasses, SetTimeout, Shutdown, UnblockClients
  <2>6. CASE UNCHANGED vars
    BY <2>6 DEF vars
  <2>7. QED
    BY <2>1, <2>2, <2>3, <2>4, <2>5, <2>6 DEF Next, LoopStep, PusherStep
<1>2. out \in Seq(Entry) /\ hand \in Entry
  BY DEF ShapeInv, Msg
<1>3. out' = out \/ \E e \in Entry : out' = Append(out, e)
  BY <1>1, <1>2, ConfirmShape DEF ReportError, WriteReply, PusherWrites
<1>4. Len(out) <= Len(out') /\ \A i \in 1 .. Len(out) : out'[i] = out[i]
  <2>1. ASSUME NEW e \in Entry, out' = Append(out, e)
        PROVE  Len(out) <= Len(out') /\ \A i \in 1 .. Len(out) : out'[i] = out[i]
    BY <1>2, <2>1
  <2>2. CASE out' = out
    BY <1>2, <2>2
  <2>3. QED BY <1>3, <2>1, <2>2
<1>5. QED BY <1>1, <1>4

\* What is on the wire stays there: a confirmed name stays confirmed.
LEMMA StaysConfirmed ==
  ASSUME TypeOK, ShapeInv, [Next]_vars, NEW n, Confirmed(n)
  PROVE  Confirmed(n)'
<1>1. PICK j \in DOMAIN out : out[j].kind = "sub" /\ out[j].name = n
  BY DEF Confirmed
<1>2. /\ Len(out) \in Nat /\ Len(out') \in Nat
      /\ DOMAIN out = 1 .. Len(out) /\ DOMAIN out' = 1 .. Len(out')
  BY TypeStep DEF ShapeInv
<1>3. j \in DOMAIN out' /\ out'[j] = out[j]
  BY <1>1, <1>2, OutGrows
<1>4. QED BY <1>1, <1>3 DEF Confirmed

\* The confirmation that was coming has come, or is still coming.
LEMMA StaysKnown ==
  ASSUME TypeOK, ShapeInv, [Next]_vars, NEW n, Confirmed(n) \/ Coming(n)
  PROVE  Confirmed(n)' \/ Coming(n)'
<1>1. CASE Confirmed(n)
  BY <1>1, StaysConfirmed
<1>2. CASE Coming(n)
  <2>1. CASE WriteReply
    <3>1. out \in Seq(Entry) /\ Confirm(cmd) \in Entry /\ out' = Append(out, Confirm(cmd))
      BY <2>1, ConfirmShape DEF WriteReply, ShapeInv
    <3>2. /\ Len(out) + 1 \in DOMAIN out' /\ out'[Len(out) + 1] = Confirm(cmd)
      BY <3>1
    <3>3. Confirm(cmd).kind = "sub" /\ Confirm(cmd).name = n
      BY <1>2, ConfirmShape DEF Coming
    <3>4. QED BY <3>2, <3>3 DEF Confirmed
  <2>2. CASE ~WriteReply
    <3>1. loop = "reply"
      BY <1>2 DEF Coming
    <3> USE DEF goroutines, registry, socket, server, history, Goto
    <3>2. loop' = loop /\ cmd' = cmd
      <4>1. ~LoopStep /\ ~ReadCommand /\ ~ProtocolError /\ ~HandlerServed
        BY <2>2, <3>1
        DEF LoopStep, LoopTop, ArmDeadline, ReadFails, ReportError, ExecuteBegins, RunHandler,
            HandlerBlocks, HandlerServed, HandlerReleased, Flush, CheckClient, StopPusher,
                RemoveClient, Unregister, ReadCommand, ProtocolError
      <4>2. CASE PusherStep
        BY <4>2 DEF PusherStep, PusherTakes, PusherLocks, PusherWrites, PusherStops
      <4>3. CASE Publish \/ Disconnect \/ DeadlinePasses \/ SetTimeout \/ Shutdown \/ UnblockClients
        BY <4>3 DEF Publish, Disconnect, DeadlinePasses, SetTimeout, Shutdown, UnblockClients
      <4>4. CASE UNCHANGED vars
        BY <4>4 DEF vars
      <4>5. QED BY <4>1, <4>2, <4>3, <4>4 DEF Next
    <3>3. QED BY <1>2, <3>2 DEF Coming
  <2>3. QED BY <2>1, <2>2
<1>3. QED BY <1>1, <1>2

\* Every step keeps the confirmation of each name ahead of its messages.
LEMMA NameStep ==
  ASSUME TypeOK, ShapeInv, MutexInv, NameInv, [Next]_vars
  PROVE  NameInv'
<1> USE DEF goroutines, registry, socket, server, history, Goto
<1> DEFINE Known(n) == Confirmed(n) \/ Coming(n)
<1>1. \A n : Known(n) => Confirmed(n)' \/ Coming(n)'
  BY StaysKnown
<1>2. /\ \A n \in subs : Known(n)
      /\ \A i \in DOMAIN outbox : Known(outbox[i].name)
      /\ pusher \in {"hold", "write"} => Known(hand.name)
  BY DEF NameInv
<1> HIDE DEF Known
<1>3. ASSUME UNCHANGED outbox, subs' \subseteq subs,
             pusher' \in {"hold", "write"} => pusher \in {"hold", "write"} /\ hand' = hand
      PROVE  NameInv'
  BY <1>1, <1>2, <1>3 DEF NameInv
<1>4. CASE LoopTop \/ ArmDeadline \/ ReadFails \/ ReadCommand \/ ProtocolError
  BY <1>3, <1>4 DEF LoopTop, ArmDeadline, ReadFails, ReadCommand, ProtocolError
<1>5. CASE ReportError \/ ExecuteBegins \/ HandlerBlocks \/ HandlerServed
           \/ HandlerReleased \/ WriteReply
  BY <1>3, <1>5 DEF ReportError, ExecuteBegins, HandlerBlocks, HandlerServed,
      HandlerReleased, WriteReply
<1>6. CASE RunHandler
  <2>1. ASSUME NEW n \in subs' PROVE Confirmed(n)' \/ Coming(n)'
    <3>1. CASE n \in subs
      BY <1>1, <1>2, <3>1
    <3>2. CASE n \notin subs
      <4>1. cmd.op = "sub" /\ n = cmd.name /\ loop' = "reply" /\ cmd' = cmd
        BY <1>6, <2>1, <3>2 DEF RunHandler
      <4>2. QED BY <4>1 DEF Coming
    <3>3. QED BY <3>1, <3>2
  <2>2. UNCHANGED <<outbox, pusher, hand>>
    BY <1>6 DEF RunHandler
  <2>3. QED BY <1>1, <1>2, <2>1, <2>2 DEF NameInv
<1>7. CASE Flush \/ CheckClient \/ StopPusher \/ RemoveClient \/ Unregister
  BY <1>3, <1>7 DEF Flush, CheckClient, StopPusher, RemoveClient, Unregister
<1>8. CASE PusherTakes
  <2>1. /\ outbox \in Seq(Msg) /\ outbox # << >> /\ subs' = subs
        /\ hand' = Head(outbox) /\ outbox' = Tail(outbox)
    BY <1>8 DEF PusherTakes, ShapeInv
  <2>2. /\ 1 \in DOMAIN outbox /\ hand' = outbox[1]
        /\ \A i \in DOMAIN outbox' : i + 1 \in DOMAIN outbox /\ outbox'[i] = outbox[i + 1]
    BY <2>1
  <2>3. QED BY <1>1, <1>2, <2>1, <2>2 DEF NameInv
<1>9. CASE PusherLocks \/ PusherWrites \/ PusherStops
  BY <1>3, <1>9 DEF PusherLocks, PusherWrites, PusherStops
<1>10. CASE Publish
  <2>1. PICK msgs \in Seq(Msg) : Deliver(msgs) /\ \A i \in 1 .. Len(msgs) : msgs[i].name \in subs
    BY <1>10, PublishMeans
  <2>2. PICK took \in Seq(Msg) :
          /\ outbox' = outbox \o took /\ Len(took) <= Len(msgs)
          /\ \A i \in 1 .. Len(took) : took[i] = msgs[i]
    BY <2>1, DeliverMeans
  <2>3. outbox \in Seq(Msg)
    BY DEF ShapeInv
  <2>4. ASSUME NEW i \in DOMAIN outbox' PROVE Known(outbox'[i].name)
    <3>1. CASE i \in DOMAIN outbox
      <4>1. outbox'[i] = outbox[i]
        BY <2>2, <2>3, <3>1
      <4>2. QED BY <1>2, <3>1, <4>1
    <3>2. CASE i \notin DOMAIN outbox
      <4>1. PICK j \in 1 .. Len(took) : outbox'[i] = took[j]
        <5>1. i - Len(outbox) \in 1 .. Len(took) /\ outbox'[i] = took[i - Len(outbox)]
          BY <2>2, <2>3, <2>4, <3>2
        <5>2. QED BY <5>1
      <4>2. j \in 1 .. Len(msgs) /\ outbox'[i] = msgs[j]
        BY <2>1, <2>2, <4>1
      <4>3. outbox'[i].name \in subs
        BY <2>1, <4>2
      <4>4. QED BY <1>2, <4>3
    <3>3. QED BY <3>1, <3>2
  <2>5. UNCHANGED <<subs, pusher, hand>>
    BY <1>10 DEF Publish
  <2>6. QED BY <1>1, <1>2, <2>4, <2>5 DEF NameInv
<1>11. CASE Disconnect \/ DeadlinePasses \/ SetTimeout \/ Shutdown \/ UnblockClients
  BY <1>3, <1>11 DEF Disconnect, DeadlinePasses, SetTimeout, Shutdown, UnblockClients
<1>12. CASE UNCHANGED vars
  BY <1>3, <1>12 DEF vars
<1>13. QED
  BY <1>4, <1>5, <1>6, <1>7, <1>8, <1>9, <1>10, <1>11, <1>12 DEF Next, LoopStep, PusherStep

\* So no step puts a message before its confirmation.
LEMMA ConfirmedFirstStep ==
  ASSUME TypeOK, ShapeInv, MutexInv, NameInv, ConfirmedFirst, [Next]_vars
  PROVE  ConfirmedFirst'
<1>1. /\ Len(out) \in Nat /\ Len(out') \in Nat
      /\ DOMAIN out = 1 .. Len(out) /\ DOMAIN out' = 1 .. Len(out')
  BY TypeStep DEF ShapeInv
<1>2. Len(out) <= Len(out') /\ \A i \in 1 .. Len(out) : out'[i] = out[i]
  BY OutGrows
<1> SUFFICES ASSUME NEW i \in DOMAIN out', out'[i].kind = "msg"
             PROVE  \E j \in 1 .. i - 1 : out'[j].kind = "sub" /\ out'[j].name = out'[i].name
  BY DEF ConfirmedFirst
<1>3. CASE i \in DOMAIN out
  <2>1. PICK j \in 1 .. i - 1 : out[j].kind = "sub" /\ out[j].name = out[i].name
    BY <1>1, <1>2, <1>3 DEF ConfirmedFirst
  <2>2. j \in 1 .. Len(out) /\ i \in 1 .. Len(out)
    BY <1>1, <1>3
  <2>3. out'[j] = out[j] /\ out'[i] = out[i]
    BY <1>2, <2>2
  <2>4. QED BY <2>1, <2>3
<1>4. CASE i \notin DOMAIN out
  <2>1. ReportError \/ WriteReply \/ PusherWrites
    BY <1>4, OutGrows
  <2>2. ASSUME NEW e \in Entry, out' = Append(out, e) PROVE out'[i] = e /\ i = Len(out) + 1
    BY <1>1, <1>4, <2>2 DEF ShapeInv
  <2>3. CASE ReportError \/ WriteReply
    BY <2>2, <2>3, ConfirmShape DEF ReportError, WriteReply
  <2>4. CASE PusherWrites
    <3>1. out' = Append(out, hand) /\ pusher = "write" /\ hand \in Entry
      BY <1>4, <2>4 DEF PusherWrites, ShapeInv, Msg
    <3>2. out'[i] = hand /\ i = Len(out) + 1
      BY <2>2, <3>1
    <3>3. Confirmed(hand.name)
      BY <3>1 DEF NameInv, MutexInv, Coming
    <3>4. PICK j \in DOMAIN out : out[j].kind = "sub" /\ out[j].name = hand.name
      BY <3>3 DEF Confirmed
    <3>5. j \in 1 .. i - 1 /\ out'[j] = out[j]
      BY <1>1, <1>2, <3>2, <3>4
    <3>6. QED BY <3>2, <3>4, <3>5
  <2>5. QED BY <2>1, <2>3, <2>4
<1>5. QED BY <1>3, <1>4

-----------------------------------------------------------------------------
(***************************************************************************)
(* Every message the outbox took is on its way.                            *)
(***************************************************************************)
\* Appending, position by position.
LEMMA AppendIs ==
  ASSUME NEW S, NEW m \in Seq(S), NEW e \in S
  PROVE  Append(m, e) = [n \in 1 .. Len(m) + 1 |-> IF n = Len(m) + 1 THEN e ELSE m[n]]
<1> DEFINE f == [n \in 1 .. Len(m) + 1 |-> IF n = Len(m) + 1 THEN e ELSE m[n]]
<1>1. PICK a \in Seq(S) : a = Append(m, e)
  <2>1. Append(m, e) \in Seq(S)
    OBVIOUS
  <2>2. QED BY <2>1, Zenon
<1>2. Len(m) \in Nat /\ Len(a) = Len(m) + 1 /\ a[Len(m) + 1] = e
  BY <1>1
<1>3. \A n \in 1 .. Len(m) : a[n] = m[n]
  BY <1>1
<1>4. f \in Seq(S) /\ Len(f) = Len(m) + 1
  <2>1. \A n \in 1 .. Len(m) + 1 : (IF n = Len(m) + 1 THEN e ELSE m[n]) \in S
    OBVIOUS
  <2>2. QED BY <1>2, <2>1
<1>5. \A n \in 1 .. Len(m) + 1 : a[n] = f[n]
  BY <1>2, <1>3
<1> HIDE DEF f
<1>6. a = f
  BY <1>2, <1>4, <1>5
<1>7. QED BY <1>1, <1>6 DEF f

\* What is at the positions there were is found as before; of the message after
\* them, all the others come first.
LEMMA MessagesAppend ==
  ASSUME NEW o \in Seq(Entry), NEW e \in Entry, Messages(o) \in Seq(Msg)
  PROVE  /\ e.kind # "msg" => Messages(Append(o, e)) = Messages(o)
         /\ e.kind = "msg" => Messages(Append(o, e)) = Append(Messages(o), e)
<1> DEFINE p == Append(o, e)
           l == Len(o) + 1
           D == MessageAt(o)
           E == MessageAt(p)
           c == Cardinality(D)
<1>1. /\ Len(o) \in Nat /\ p \in Seq(Entry) /\ Len(p) = l /\ p[l] = e
      /\ DOMAIN o = 1 .. Len(o) /\ DOMAIN p = 1 .. l
      /\ \A i \in 1 .. Len(o) : p[i] = o[i]
  OBVIOUS
<1> HIDE DEF p
<1>2. /\ D \subseteq 1 .. Len(o)
      /\ E = IF e.kind = "msg" THEN D \cup {l} ELSE D
  BY <1>1 DEF MessageAt
<1>3. IsFiniteSet(D) /\ c \in Nat
  <2>1. \A k \in Nat : IsFiniteSet(1 .. k)
    BY FS_Interval
  <2>2. IsFiniteSet(1 .. Len(o)) /\ D \in SUBSET (1 .. Len(o))
    BY <1>1, <1>2, <2>1
  <2> HIDE DEF D
  <2>3. IsFiniteSet(D)
    BY <2>2, FS_Subset, Zenon
  <2>4. QED BY <2>3, FS_CardinalityType
<1>4. Cardinality(E) = IF e.kind = "msg" THEN c + 1 ELSE c
  <2>1. l \notin D
    BY <1>1, <1>2
  <2> HIDE DEF D, E, l
  <2>2. Cardinality(D \cup {l}) = c + 1
    BY <1>3, <2>1, FS_AddElement
  <2>3. QED BY <1>2, <2>2
\* Up to a position of o the two have the same.
<1>5. \A i \in 1 .. Len(o) : E \cap (1 .. i) = D \cap (1 .. i)
  BY <1>1, <1>2
<1>6. E \cap (1 .. l) = E
  BY <1>1, <1>2
<1> HIDE DEF D, E
<1>7. ASSUME NEW n \in 1 .. c
      PROVE  {p[i] : i \in Nth(p, n)} = {o[i] : i \in Nth(o, n)}
  <2>1. l \notin Nth(p, n)
    <3>1. l \in E => Cardinality(E) = c + 1
      BY <1>1, <1>2, <1>4
    <3>2. l \in E => Cardinality(E \cap (1 .. l)) # n
      <4>1. c + 1 # n
        BY <1>3
      <4>2. QED BY <1>6, <3>1, <4>1
    <3>3. QED BY <3>2 DEF Nth, E
  <2>2. \A i \in 1 .. Len(o) :
          (i \in E /\ Cardinality(E \cap (1 .. i)) = n)
            <=> (i \in D /\ Cardinality(D \cap (1 .. i)) = n)
    <3> SUFFICES ASSUME NEW i \in 1 .. Len(o)
                 PROVE  (i \in E /\ Cardinality(E \cap (1 .. i)) = n)
                          <=> (i \in D /\ Cardinality(D \cap (1 .. i)) = n)
      OBVIOUS
    <3>1. E \cap (1 .. i) = D \cap (1 .. i)
      BY <1>5
    <3>2. i \in E <=> i \in D
      BY <1>1, <1>2
    <3>3. QED BY <3>1, <3>2
  <2>3. Nth(p, n) \subseteq 1 .. l /\ Nth(o, n) \subseteq 1 .. Len(o)
    BY <1>1, <1>2 DEF Nth, D, E
  <2>4. Nth(p, n) = Nth(o, n)
    <3>1. ASSUME NEW i \in 1 .. Len(o) PROVE i \in Nth(p, n) <=> i \in Nth(o, n)
      BY <2>2 DEF Nth, D, E
    <3>2. \A i \in 1 .. l : i \in 1 .. Len(o) \/ i = l
      BY <1>1
    <3>3. QED BY <1>1, <2>1, <2>3, <3>1, <3>2
  <2>5. QED BY <1>1, <2>3, <2>4
<1>8. /\ Len(Messages(o)) = c /\ Messages(o) \in Seq(Msg)
      /\ \A n \in 1 .. c : Messages(o)[n] = CHOOSE m \in {o[i] : i \in Nth(o, n)} : TRUE
  BY <1>3 DEF Messages, D
<1>9. \A n \in 1 .. c : Messages(o)[n] = CHOOSE m \in {p[i] : i \in Nth(p, n)} : TRUE
  BY <1>7, <1>8
<1>10. Messages(p) = [n \in 1 .. Cardinality(E) |->
                        CHOOSE m \in {p[i] : i \in Nth(p, n)} : TRUE]
  BY DEF Messages, E
<1>11. CASE e.kind # "msg"
  <2>1. Messages(o) = [n \in 1 .. c |-> Messages(o)[n]]
    BY <1>8
  <2>2. Messages(p) = Messages(o)
    BY <1>4, <1>9, <1>10, <1>11, <2>1
  <2>3. QED BY <1>11, <2>2 DEF p
<1>12. CASE e.kind = "msg"
  <2>1. {p[i] : i \in Nth(p, c + 1)} = {e}
    <3>1. l \in E /\ Cardinality(E \cap (1 .. l)) = c + 1
      BY <1>1, <1>2, <1>4, <1>6, <1>12
    <3>2. l \in Nth(p, c + 1)
      BY <3>1 DEF Nth, E
    <3>3. ASSUME NEW i \in Nth(p, c + 1) PROVE i = l
      <4> SUFFICES ASSUME i \in 1 .. Len(o) PROVE FALSE
        BY <1>1, <1>2 DEF Nth, E
      <4>1. Cardinality(D \cap (1 .. i)) = c + 1
        BY <1>5 DEF Nth, E
      <4>2. Cardinality(D \cap (1 .. i)) <= c
        BY <1>3, FS_Subset
      <4>3. QED BY <1>3, <4>1, <4>2
    <3>4. QED BY <1>1, <3>2, <3>3
  <2>2. Messages(p) = [n \in 1 .. c + 1 |->
                         IF n = c + 1 THEN e ELSE Messages(o)[n]]
    <3>1. (CHOOSE m \in {p[i] : i \in Nth(p, c + 1)} : TRUE) = e
      BY <2>1
    <3>2. \A n \in 1 .. c + 1 : n = c + 1 \/ n \in 1 .. c
      BY <1>3
    <3>3. QED BY <1>4, <1>9, <1>10, <1>12, <3>1, <3>2
  <2>3. Append(Messages(o), e) = [n \in 1 .. c + 1 |->
                                    IF n = c + 1 THEN e ELSE Messages(o)[n]]
    <3>1. PICK m \in Seq(Msg) : m = Messages(o) /\ Len(m) = c
      BY <1>8
    <3>2. e \in Msg
      BY <1>12 DEF Msg
    <3>3. Append(m, e) = [n \in 1 .. c + 1 |-> IF n = c + 1 THEN e ELSE m[n]]
      BY <3>1, <3>2, AppendIs
    <3>4. QED BY <3>1, <3>3
  <2>4. QED BY <1>12, <2>2, <2>3 DEF p
<1>13. QED BY <1>11, <1>12

\* There is none on the wire before there is anything.
LEMMA MessagesNone == Messages(<< >>) = << >>
<1>1. MessageAt(<< >>) = {}
  BY DEF MessageAt
<1>2. Cardinality({}) = 0
  BY FS_EmptySet
<1>3. QED BY <1>1, <1>2 DEF Messages

\* What is picked out of the wire are messages.
MessagesType == Messages(out) \in Seq(Msg)

\* What the delivery goroutine holds.
InHand == IF pusher \in {"hold", "write"} THEN <<hand>> ELSE << >>

\* Nor does a step put anything else there.
LEMMA MessagesStep ==
  ASSUME TypeOK, ShapeInv, MessagesType, [Next]_vars
  PROVE  MessagesType'
<1>1. out \in Seq(Entry) /\ hand \in Msg /\ hand \in Entry /\ Messages(out) \in Seq(Msg)
  BY DEF ShapeInv, MessagesType, Msg
<1>2. CASE out' = out
  BY <1>2 DEF MessagesType
<1>3. CASE ReportError \/ WriteReply
  <2>1. PICK e \in Entry : e.kind # "msg" /\ out' = Append(out, e)
    BY <1>3, ConfirmShape DEF ReportError, WriteReply
  <2>2. QED BY <1>1, <2>1, MessagesAppend DEF MessagesType
<1>4. CASE PusherWrites
  <2>1. hand.kind = "msg" /\ (out' = out \/ out' = Append(out, hand))
    BY <1>1, <1>4 DEF PusherWrites, Msg
  <2>2. Append(Messages(out), hand) \in Seq(Msg)
    BY <1>1
  <2>3. QED BY <1>1, <1>2, <2>1, <2>2, MessagesAppend DEF MessagesType
<1>5. out' = out \/ ReportError \/ WriteReply \/ PusherWrites
  BY OutGrows
<1>6. QED BY <1>2, <1>3, <1>4, <1>5

\* A message moves from outbox to hand to wire and is dropped by no step.
LEMMA LostStep ==
  ASSUME TypeOK, ShapeInv, MessagesType, NothingAcceptedIsLost, [Next]_vars
  PROVE  NothingAcceptedIsLost'
<1> SUFFICES ASSUME sock', pusher' # "done"
             PROVE  Messages(out') \o InHand' \o outbox' = accepted'
  BY DEF NothingAcceptedIsLost, InHand
<1> USE DEF goroutines, registry, socket, server, history, Goto
<1>0. /\ out \in Seq(Entry) /\ outbox \in Seq(Msg) /\ hand \in Msg /\ hand \in Entry
      /\ hand.kind = "msg" /\ Messages(out) \in Seq(Msg)
  BY DEF ShapeInv, MessagesType, Msg
\* Neither the socket nor the goroutine comes back.
<1>1. sock /\ pusher # "done"
  <2>1. CASE LoopTop \/ ArmDeadline \/ ReadFails \/ ReadCommand \/ ProtocolError \/ ReportError
    BY <2>1 DEF LoopTop, ArmDeadline, ReadFails, ReadCommand, ProtocolError, ReportError
  <2>2. CASE ExecuteBegins \/ RunHandler \/ HandlerBlocks \/ HandlerServed
             \/ HandlerReleased \/ WriteReply
    BY <2>2 DEF ExecuteBegins, RunHandler, HandlerBlocks, HandlerServed, HandlerReleased, WriteReply
  <2>3. CASE Flush \/ CheckClient \/ StopPusher \/ RemoveClient \/ Unregister
    BY <2>3 DEF Flush, CheckClient, StopPusher, RemoveClient, Unregister
  <2>4. CASE PusherTakes \/ PusherLocks \/ PusherWrites \/ PusherStops
    BY <2>4 DEF PusherTakes, PusherLocks, PusherWrites, PusherStops
  <2>5. CASE Publish \/ Disconnect \/ DeadlinePasses \/ SetTimeout \/ Shutdown \/ UnblockClients
    BY <2>5 DEF Publish, Disconnect, DeadlinePasses, SetTimeout, Shutdown, UnblockClients
  <2>6. CASE UNCHANGED vars
    BY <2>6 DEF vars
  <2>7. QED
    BY <2>1, <2>2, <2>3, <2>4, <2>5, <2>6 DEF Next, LoopStep, PusherStep
<1>2. Messages(out) \o InHand \o outbox = accepted
  BY <1>1 DEF NothingAcceptedIsLost, InHand
<1>3. ASSUME Messages(out') = Messages(out), InHand' = InHand, UNCHANGED <<outbox, accepted>>
      PROVE  Messages(out') \o InHand' \o outbox' = accepted'
  BY <1>2, <1>3
<1>4. ASSUME UNCHANGED <<out, hand, outbox, accepted>>,
             pusher' \in {"hold", "write"} <=> pusher \in {"hold", "write"}
      PROVE  Messages(out') \o InHand' \o outbox' = accepted'
  BY <1>3, <1>4 DEF InHand
<1>5. CASE LoopTop \/ ArmDeadline \/ ReadFails \/ ReadCommand \/ ProtocolError
  BY <1>4, <1>5 DEF LoopTop, ArmDeadline, ReadFails, ReadCommand, ProtocolError
<1>6. CASE ReportError \/ WriteReply
  <2>1. PICK e \in Entry : e.kind # "msg" /\ out' = Append(out, e)
    BY <1>6, ConfirmShape DEF ReportError, WriteReply
  <2>2. Messages(out') = Messages(out)
    BY <1>0, <2>1, MessagesAppend
  <2>3. InHand' = InHand /\ UNCHANGED <<outbox, accepted>>
    BY <1>6 DEF ReportError, WriteReply, InHand
  <2>4. QED BY <1>3, <2>2, <2>3
<1>7. CASE ExecuteBegins \/ RunHandler \/ HandlerBlocks \/ HandlerServed \/ HandlerReleased
  BY <1>4, <1>7 DEF ExecuteBegins, RunHandler, HandlerBlocks, HandlerServed, HandlerReleased
<1>8. CASE Flush \/ CheckClient \/ StopPusher \/ RemoveClient \/ Unregister
  BY <1>4, <1>8 DEF Flush, CheckClient, StopPusher, RemoveClient, Unregister
<1>9. CASE PusherTakes
  <2>1. /\ outbox # << >> /\ accepted' = accepted /\ out' = out
        /\ InHand = << >> /\ InHand' = <<Head(outbox)>> /\ outbox' = Tail(outbox)
    BY <1>9 DEF PusherTakes, InHand
  <2>2. ASSUME NEW m \in Seq(Msg), NEW b \in Seq(Msg), b # << >>
        PROVE  m \o <<Head(b)>> \o Tail(b) = m \o << >> \o b
    <3>1. Head(b) \in Msg /\ Tail(b) \in Seq(Msg) /\ <<Head(b)>> \o Tail(b) = b
      BY <2>2
    <3>2. m \o << >> = m
      OBVIOUS
    <3>3. m \o <<Head(b)>> \o Tail(b) = m \o (<<Head(b)>> \o Tail(b))
      BY <3>1
    <3>4. QED BY <3>1, <3>2, <3>3
  <2>3. QED BY <1>0, <1>2, <2>1, <2>2
<1>10. CASE PusherLocks
  BY <1>4, <1>10 DEF PusherLocks
<1>11. CASE PusherStops
  BY <1>4, <1>11 DEF PusherStops
<1>12. CASE PusherWrites
  <2>1. /\ out' = Append(out, hand) /\ UNCHANGED <<outbox, accepted>>
        /\ InHand = <<hand>> /\ InHand' = << >>
    BY <1>1, <1>12 DEF PusherWrites, InHand
  <2>2. Messages(out') = Append(Messages(out), hand)
    BY <1>0, <2>1, MessagesAppend
  <2>3. Append(Messages(out), hand) \o << >> \o outbox = Messages(out) \o <<hand>> \o outbox
    BY <1>0
  <2>4. QED BY <1>2, <2>1, <2>2, <2>3
<1>13. CASE Publish
  <2>1. PICK msgs \in Seq(Msg) : Deliver(msgs)
    BY <1>13, PublishMeans
  <2>2. PICK took \in Seq(Msg) : outbox' = outbox \o took /\ accepted' = accepted \o took
    BY <2>1, DeliverMeans
  <2>3. out' = out /\ InHand' = InHand /\ InHand \in Seq(Msg)
    BY <1>0, <1>13 DEF Publish, InHand
  <2>4. PICK m \in Seq(Msg), h \in Seq(Msg), b \in Seq(Msg) :
          m = Messages(out) /\ h = InHand /\ b = outbox
    BY <1>0, <2>3
  <2>5. m \o h \o (b \o took) = (m \o h \o b) \o took
    <3>1. m \o h \in Seq(Msg)
      BY Concat
    <3>2. QED BY <3>1, Regroup, SMTT(30)
  <2>6. QED BY <1>2, <2>2, <2>3, <2>4, <2>5
<1>14. CASE Disconnect \/ DeadlinePasses \/ SetTimeout \/ Shutdown \/ UnblockClients
  BY <1>4, <1>14 DEF Disconnect, DeadlinePasses, SetTimeout, Shutdown, UnblockClients
<1>15. CASE UNCHANGED vars
  BY <1>4, <1>15 DEF vars
<1>16. QED
  BY <1>5, <1>6, <1>7, <1>8, <1>9, <1>10, <1>11, <1>12, <1>13, <1>14, <1>15
  DEF Next, LoopStep, PusherStep

-----------------------------------------------------------------------------
\* The hand-over between the command loop and the delivery goroutine is right
\* for any subscriptions and any depth of the outbox: no push lands inside a
\* reply, none overtakes its confirmation, none that PUBLISH counted is lost or
\* reordered while the connection lives, and no registry keeps a client that is
\* gone.
THEOREM DeliveryIsSafe == Spec => []DeliverySafe
<1> DEFINE Inv == /\ TypeOK /\ ShapeInv /\ MutexInv /\ EndInv /\ NameInv
                  /\ ConfirmedFirst /\ MessagesType /\ NothingAcceptedIsLost
<1>1. Init => Inv
  <2> SUFFICES ASSUME Init PROVE Inv
    OBVIOUS
  <2>1. MutexInv /\ EndInv /\ NameInv /\ ConfirmedFirst
    BY DEF Init, MutexInv, EndInv, NameInv, ConfirmedFirst
  <2>2. MessagesType /\ NothingAcceptedIsLost
    <3>1. out = << >> /\ outbox = << >> /\ accepted = << >> /\ pusher = "none"
      BY DEF Init
    <3>2. Messages(out) = << >> /\ << >> \in Seq(Msg) /\ << >> \o << >> \o << >> = << >>
      BY <3>1, MessagesNone
    <3>3. QED BY <3>1, <3>2 DEF MessagesType, NothingAcceptedIsLost
  <2>3. QED BY <2>1, <2>2, TypeStart
<1>2. Inv /\ [Next]_vars => Inv'
  BY TypeStep, MutexStep, EndStep, NameStep, ConfirmedFirstStep, MessagesStep, LostStep
<1>3. Inv => DeliverySafe
  <2> SUFFICES ASSUME Inv PROVE DeliverySafe
    OBVIOUS
  <2>1. WriterExclusive
    BY DEF MutexInv, WriterExclusive
  <2>2. NoGhost
    BY DEF EndInv, NoGhost
  <2>3. QED BY <2>1, <2>2 DEF DeliverySafe
<1> HIDE DEF Inv
<1>4. QED BY <1>1, <1>2, <1>3, PTL DEF Spec

\* A step that publishes and leaves the client unmarked has queued a copy for
\* every subscription that hears the channel: Client.deliver marks the client
\* whenever a copy finds no room, at any depth of the outbox.
THEOREM DroppedMessagesMark == Spec => DroppedMarksClient
<1>1. TypeOK /\ ShapeInv /\ [Next]_vars =>
        [~overflowed' /\ published' # published =>
           \E ch \in Channels :
             Len(accepted') - Len(accepted) = Cardinality({n \in subs : <<n, ch>> \in Hears})]_vars
  <2> SUFFICES ASSUME TypeOK, ShapeInv, Next, ~overflowed', published' # published
               PROVE  \E ch \in Channels :
                        Len(accepted') - Len(accepted)
                          = Cardinality({n \in subs : <<n, ch>> \in Hears})
    OBVIOUS
  <2>1. Publish
    <3> USE DEF goroutines, registry, socket, server, history, Goto
    <3>1. ~LoopStep /\ ~ReadCommand /\ ~ProtocolError /\ ~HandlerServed
      BY DEF LoopStep, LoopTop, ArmDeadline, ReadFails, ReportError, ExecuteBegins, RunHandler,
             HandlerBlocks, HandlerServed, HandlerReleased, WriteReply, Flush, CheckClient,
                 StopPusher, RemoveClient, Unregister, ReadCommand,
             ProtocolError
    <3>2. ~PusherStep
      BY DEF PusherStep, PusherTakes, PusherLocks, PusherWrites, PusherStops
    <3>3. ~(Disconnect \/ DeadlinePasses \/ SetTimeout \/ Shutdown \/ UnblockClients)
      BY DEF Disconnect, DeadlinePasses, SetTimeout, Shutdown, UnblockClients
    <3>4. QED BY <3>1, <3>2, <3>3 DEF Next
  <2>2. PICK ch \in Channels : \E msgs \in Seq(Msg) :
          /\ Deliver(msgs)
          /\ Len(msgs) = Cardinality({n \in subs : <<n, ch>> \in Hears})
    BY <2>1, PublishMeans
  <2>3. PICK msgs \in Seq(Msg) :
          /\ Deliver(msgs)
          /\ Len(msgs) = Cardinality({n \in subs : <<n, ch>> \in Hears})
    BY <2>2
  <2>4. PICK took \in Seq(Msg) : accepted' = accepted \o took /\ Len(took) = Len(msgs)
    BY <2>3, DeliverMeans
  <2>5. Len(accepted) \in Nat /\ Len(took) \in Nat /\ Len(accepted') = Len(accepted) + Len(took)
    <3>1. accepted \in Seq(Msg) /\ took \in Seq(Msg)
      BY <2>4 DEF ShapeInv
    <3>2. Len(accepted) \in Nat /\ Len(took) \in Nat
      BY <3>1
    <3>3. Len(accepted \o took) = Len(accepted) + Len(took)
      BY <3>1, Concat
    <3>4. QED BY <2>4, <3>2, <3>3
  <2>6. Len(accepted') - Len(accepted) = Cardinality({n \in subs : <<n, ch>> \in Hears})
    BY <2>3, <2>4, <2>5
  <2>7. QED BY <2>6
<1>2. TypeOK /\ ShapeInv /\ [Next]_vars => TypeOK' /\ ShapeInv'
  BY TypeStep
<1>3. QED BY <1>1, <1>2, TypeStart, PTL DEF Spec, DroppedMarksClient
=============================================================================
