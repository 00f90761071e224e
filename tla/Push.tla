-------------------------------- MODULE Push --------------------------------
(***************************************************************************)
(* The way down: what logic servers push to clients.  Receive loops of the *)
(* streams (backend/stream.go) and handlers of the gateway's gRPC service  *)
(* (backend/grpc_server.go) hand frames to connections; the coalescer      *)
(* (connection/coalescer.go) collects them per connection and flushes them *)
(* from one goroutine; the event loop of the network library, which runs   *)
(* the queued writes in order, is external.                                *)
(*                                                                         *)
(* A message is <<sender, number>>; a frame is a sequence of messages.     *)
(***************************************************************************)
EXTENDS Integers, Sequences, FiniteSets, SequencesExt, Functions

CONSTANTS Conns,
          Shards,      \* receive loops
          Callers,     \* handlers of the gRPC service
          Buffers,     \* the coalescer's pooled buffers; bounds how many exist
          Scenes,      \* [coalesce, batch, ws, conns, members, senders, msgs, events]: a
                       \* configuration, a client protocol, the connections, those in the
                       \* group, the senders at work, and two bounds: messages sent, and
                       \* closes, kicks, joins, leaves and stops
          FlushSize,   \* batchFlushSize
          Notice,      \* the frame that tells a client it is kicked
          None

VARIABLES scene,
          sock,     \* each socket: "open", "closed" or "kicked"
          alive,    \* the connections in the manager
          members,  \* the connections whose user is in the group
          snd,      \* each sender: position, target, frames to deliver, stream over
          batch,    \* the messages a receive loop holds back in batchPush mode
          count,    \* messages sent so far, by each sender
          events,   \* closes, kicks, joins, leaves and stops so far
          hold,     \* coalescedBufPtr
          mem,      \* what each pooled buffer holds
          free,     \* coalescerBufPool
          dirty,    \* the connections with data to flush
          flush,    \* the flush loop: position, connections to visit, buffer taken
          queue,    \* the writes queued at the event loop
          wire      \* what each client has been sent

vars == <<scene, sock, alive, members, snd, batch, count, events, hold, mem, free,
          dirty, flush, queue, wire>>
connVars == <<sock, alive, members>>
bufVars == <<hold, mem, free, dirty>>

Senders == Shards \cup Callers

Idle == [at |-> "idle", cur |-> None, todo |-> <<>>, ended |-> FALSE]

\* Connections are registered, NewShardedWriteCoalescer has run.
Init ==
  /\ scene \in Scenes
  /\ sock = [c \in Conns |-> "open"] /\ alive = scene.conns /\ members = scene.members
  /\ snd = [s \in Senders |-> Idle]
  /\ batch = [s \in Shards |-> <<>>]
  /\ count = [s \in Senders |-> 0] /\ events = 0
  /\ hold = [c \in Conns |-> None]
  /\ mem = [b \in Buffers |-> <<>>] /\ free = Buffers
  /\ dirty = {}
  /\ flush = [at |-> "rest", todo |-> {}, conn |-> None, buf |-> None, stop |-> FALSE]
  /\ queue = [c \in Conns |-> <<>>]
  /\ wire = [c \in Conns |-> <<>>]

-----------------------------------------------------------------------------
(* receiveMessages.                                                        *)

\* A sender that has frames for the connections in DOMAIN f, or none left.
Sending(f, ended) ==
  [at |-> IF DOMAIN f # {} THEN "send" ELSE IF ended THEN "done" ELSE "idle",
   cur |-> None, todo |-> f, ended |-> ended]

New(s) == <<s, count[s] + 1>>

CanSend(s) ==
  /\ snd[s].at = "idle" /\ s \in scene.senders
  /\ FoldFunction(LAMBDA n, m : n + m, 0, count) < scene.msgs

Event == events < scene.events /\ events' = events + 1

\* flushBatch: one frame per connection that is still there, in the order the
\* messages came.
Frames(items) ==
  [c \in {items[i].to : i \in DOMAIN items} \cap alive |->
     LET mine(m) == m.to = c
         kept == SelectSeq(items, mine)
     IN  [i \in DOMAIN kept |-> kept[i].msg]]

\* processOne, for a session: deliver at once, or add to the batch.
ReceivePush(s, c) ==
  /\ CanSend(s)
  /\ count' = [count EXCEPT ![s] = @ + 1]
  /\ LET more == Append(batch[s], [to |-> c, msg |-> New(s)]) IN
     \/ /\ scene.batch /\ Len(more) < FlushSize
        /\ batch' = [batch EXCEPT ![s] = more]
        /\ UNCHANGED snd
     \/ /\ scene.batch /\ Len(more) >= FlushSize
        /\ batch' = [batch EXCEPT ![s] = <<>>]
        /\ snd' = [snd EXCEPT ![s] = Sending(Frames(more), FALSE)]
     \/ /\ ~scene.batch
        /\ snd' = [snd EXCEPT ![s] =
             Sending([d \in {c} \cap alive |-> <<New(s)>>], FALSE)]
        /\ UNCHANGED batch
  /\ UNCHANGED <<scene, events, connVars, bufVars, flush, queue, wire>>

\* Mutant: a broadcast does not flush the batch before it.
BroadcastUnflushed(s) ==
  /\ CanSend(s)
  /\ count' = [count EXCEPT ![s] = @ + 1]
  /\ snd' = [snd EXCEPT ![s] = Sending([c \in alive |-> <<New(s)>>], FALSE)]
  /\ UNCHANGED <<batch, scene, events, connVars, bufVars, flush, queue, wire>>

\* processOne, for everyone: the batch goes first.
ReceiveBroadcast(s) ==
  /\ CanSend(s)
  /\ count' = [count EXCEPT ![s] = @ + 1]
  /\ LET held == Frames(batch[s]) IN
     snd' = [snd EXCEPT ![s] = Sending(
       [c \in alive |-> (IF c \in DOMAIN held THEN held[c] ELSE <<>>) \o <<New(s)>>], FALSE)]
  /\ batch' = [batch EXCEPT ![s] = <<>>]
  /\ UNCHANGED <<scene, events, connVars, bufVars, flush, queue, wire>>

\* handleRecvErr flushes the batch; a loop that sees stopCh first does not.
EndStream(s) ==
  /\ snd[s].at = "idle"
  /\ \/ /\ snd' = [snd EXCEPT ![s] = Sending(Frames(batch[s]), TRUE)]
        /\ batch' = [batch EXCEPT ![s] = <<>>]
     \/ /\ snd' = [snd EXCEPT ![s] = Sending(<<>>, TRUE)]
        /\ UNCHANGED batch
  /\ Event
  /\ UNCHANGED <<scene, connVars, count, bufVars, flush, queue, wire>>

-----------------------------------------------------------------------------
(* The gateway's gRPC service.                                             *)

Call(s, targets) ==
  /\ CanSend(s)
  /\ count' = [count EXCEPT ![s] = @ + 1]
  /\ snd' = [snd EXCEPT ![s] = Sending([c \in targets |-> <<New(s)>>], FALSE)]
  /\ UNCHANGED <<scene, events, connVars, batch, bufVars, flush, queue, wire>>

\* The lookup every handler starts with.
Connection(c) == c \in alive

SendToClient(s, c) == Connection(c) /\ Call(s, {c})

\* Members resolved to sessions; a member without one is passed over.
GetGroupSessions == members \cap alive

BroadcastGroup(s) == Call(s, GetGroupSessions)

\* BroadcastAll: a snapshot of the manager.
BroadcastAll(s) == Call(s, alive)

\* JoinGroup looks the connection up, then adds its user ...
JoinGroup(s, c) ==
  /\ snd[s].at = "idle" /\ Connection(c) /\ c \notin members
  /\ snd' = [snd EXCEPT ![s] = [Idle EXCEPT !.at = "join", !.cur = c]]
  /\ Event
  /\ UNCHANGED <<scene, connVars, batch, count, bufVars, flush, queue, wire>>

\* ... AddUserToGroup, although the connection may be gone by now.
AddUserToGroup(s) ==
  /\ snd[s].at = "join"
  /\ members' = members \cup {snd[s].cur}
  /\ snd' = [snd EXCEPT ![s] = Idle]
  /\ UNCHANGED <<scene, events, sock, alive, batch, count, bufVars, flush, queue, wire>>

RemoveUserFromGroup(c) == members' = members \ {c}

LeaveGroup(c) ==
  /\ Connection(c) /\ c \in members
  /\ RemoveUserFromGroup(c)
  /\ Event
  /\ UNCHANGED <<scene, sock, alive, snd, batch, count, bufVars, flush, queue, wire>>

\* SendThenClose: the notice, and the close in its callback.
Kick(c) ==
  /\ sock[c] = "open" /\ c \in alive
  /\ queue' = [queue EXCEPT ![c] = Append(@, [data |-> <<Notice>>, buf |-> None, close |-> TRUE])]
  /\ Event
  /\ UNCHANGED <<scene, connVars, snd, batch, count, bufVars, flush, wire>>

-----------------------------------------------------------------------------
(* Handing a frame to a connection.                                        *)

Delivered(s, c) == Sending(Restrict(snd[s].todo, DOMAIN snd[s].todo \ {c}), snd[s].ended)

\* Connection.Send: a write of its own, refused when the socket is closed.
Send(s, c) ==
  /\ snd[s].at = "send" /\ c \in DOMAIN snd[s].todo
  /\ s \in Callers \/ ~scene.coalesce
  /\ queue' = [queue EXCEPT ![c] = IF sock[c] # "open" THEN @
       ELSE Append(@, [data |-> snd[s].todo[c], buf |-> None, close |-> FALSE])]
  /\ snd' = [snd EXCEPT ![s] = Delivered(s, c)]
  /\ UNCHANGED <<scene, events, connVars, batch, count, bufVars, flush, wire>>

\* AppendCoalesced, under the connection's lock.
AppendCoalesced(s, c) ==
  /\ snd[s].at = "send" /\ c \in DOMAIN snd[s].todo
  /\ s \in Shards /\ scene.coalesce
  /\ hold[c] = None => free # {}
  /\ LET b == IF hold[c] = None THEN CHOOSE b \in free : TRUE ELSE hold[c] IN
     /\ hold' = [hold EXCEPT ![c] = b]
     /\ free' = free \ {b}
     /\ mem' = [mem EXCEPT ![b] = (IF hold[c] = None THEN <<>> ELSE @) \o snd[s].todo[c]]
  /\ snd' = [snd EXCEPT ![s].at = "mark", ![s].cur = c]
  /\ UNCHANGED <<scene, events, connVars, batch, count, dirty, flush, queue, wire>>

\* The rest of addMulti, under the coalescer's lock.
MarkDirty(s) ==
  /\ snd[s].at = "mark"
  /\ dirty' = dirty \cup {snd[s].cur}
  /\ snd' = [snd EXCEPT ![s] = Delivered(s, snd[s].cur)]
  /\ UNCHANGED <<scene, events, connVars, batch, count, hold, mem, free, flush, queue, wire>>

-----------------------------------------------------------------------------
(* flushLoop and FlushCoalesced.                                           *)

\* Stop closes stopCh.
Stop ==
  /\ ~flush.stop
  /\ flush' = [flush EXCEPT !.stop = TRUE]
  /\ Event
  /\ UNCHANGED <<scene, connVars, snd, batch, count, bufVars, queue, wire>>

\* Mutant: the loop waits for enough connections, with no time limit.
SwapDirtyWhenMany ==
  /\ flush.at = "rest" /\ Cardinality(dirty) > 1
  /\ flush' = [flush EXCEPT !.at = "visit", !.todo = dirty]
  /\ dirty' = {}
  /\ UNCHANGED <<scene, events, connVars, snd, batch, count, hold, mem, free, queue, wire>>

\* The swap of the dirty set, at a tick or when told to stop.
SwapDirty ==
  /\ flush.at = "rest"
  /\ \/ dirty # {} /\ flush' = [flush EXCEPT !.at = "visit", !.todo = dirty]
     \/ flush.stop /\ flush' = [flush EXCEPT !.at = "last visit", !.todo = dirty]
  /\ dirty' = {}
  /\ UNCHANGED <<scene, events, connVars, snd, batch, count, hold, mem, free, queue, wire>>

\* The visit is over: back to the ticker, or out of the loop.
EndVisit ==
  /\ flush.at \in {"visit", "last visit"} /\ flush.todo = {} /\ flush.conn = None
  /\ flush' = [flush EXCEPT !.at = IF flush.at = "visit" THEN "rest" ELSE "gone"]
  /\ UNCHANGED <<scene, events, connVars, snd, batch, count, bufVars, queue, wire>>

\* FlushCoalesced, under the connection's lock: the buffer changes hands.
TakeBuffer(c) ==
  /\ c \in flush.todo /\ flush.conn = None
  /\ IF c \notin alive \/ hold[c] = None
     THEN flush' = [flush EXCEPT !.todo = @ \ {c}] /\ UNCHANGED hold
     ELSE /\ flush' = [flush EXCEPT !.todo = @ \ {c}, !.conn = c, !.buf = hold[c]]
          /\ hold' = [hold EXCEPT ![c] = None]
  /\ UNCHANGED <<scene, events, connVars, snd, batch, count, mem, free, dirty, queue, wire>>

\* A TCP client is sent the buffer itself, a WebSocket client a copy that
\* reframeCoalescedAsWSFrames makes.
Entry(b) == [data |-> IF scene.ws THEN mem[b] ELSE None, buf |-> b, close |-> FALSE]

\* putBack: an emptied buffer for the pool.
PutBack(b) == free' = free \cup {b} /\ mem' = [mem EXCEPT ![b] = <<>>]

\* Mutant: the buffer goes back to the pool as soon as the write is queued.
WriteOutEarly ==
  /\ flush.conn # None
  /\ queue' = [queue EXCEPT ![flush.conn] = Append(@, Entry(flush.buf))]
  /\ free' = free \cup {flush.buf}
  /\ flush' = [flush EXCEPT !.conn = None, !.buf = None]
  /\ UNCHANGED <<scene, events, connVars, snd, batch, count, hold, mem, dirty, wire>>

\* SendMultiWithCallback; when it fails at once putBack returns the buffer.
WriteOut ==
  /\ flush.conn # None
  /\ \/ /\ queue' = [queue EXCEPT ![flush.conn] = Append(@, Entry(flush.buf))]
        /\ UNCHANGED <<free, mem>>
     \/ /\ sock[flush.conn] # "open"
        /\ PutBack(flush.buf)
        /\ UNCHANGED queue
  /\ flush' = [flush EXCEPT !.conn = None, !.buf = None]
  /\ UNCHANGED <<scene, events, connVars, snd, batch, count, hold, dirty, wire>>

-----------------------------------------------------------------------------
(* The event loop and the clients.                                         *)

\* A queued write: bytes to the client, then the callback.
Write(c) ==
  /\ queue[c] # <<>>
  /\ LET w == Head(queue[c]) IN
     /\ wire' = [wire EXCEPT ![c] = IF sock[c] # "open" THEN @
                   ELSE @ \o (IF w.data = None THEN mem[w.buf] ELSE w.data)]
     /\ IF w.buf = None THEN UNCHANGED <<free, mem>> ELSE PutBack(w.buf)
     /\ sock' = [sock EXCEPT ![c] = IF w.close /\ @ = "open" THEN "kicked" ELSE @]
  /\ queue' = [queue EXCEPT ![c] = Tail(@)]
  /\ UNCHANGED <<scene, events, alive, members, snd, batch, count, hold, dirty, flush>>

\* The client, CloseSession or KickSession closes the socket.
CloseSocket(c) ==
  /\ sock[c] = "open" /\ c \in alive
  /\ sock' = [sock EXCEPT ![c] = "closed"]
  /\ Event
  /\ UNCHANGED <<scene, alive, members, snd, batch, count, bufVars, flush, queue, wire>>

removeMemberFromAllGroups(c) == members' = members \ {c}

\* OnClose: RemoveConnection.
RemoveConnection(c) ==
  /\ sock[c] # "open" /\ c \in alive
  /\ alive' = alive \ {c} /\ removeMemberFromAllGroups(c)
  /\ UNCHANGED <<scene, events, sock, snd, batch, count, bufVars, flush, queue, wire>>

SenderStep(s) == \/ \E c \in Conns : Send(s, c) \/ AppendCoalesced(s, c)
                 \/ MarkDirty(s) \/ AddUserToGroup(s)

FlushStep == SwapDirty \/ EndVisit \/ (\E c \in Conns : TakeBuffer(c)) \/ WriteOut

Environment ==
  \/ \E s \in Shards : \/ \E c \in Conns : ReceivePush(s, c)
                       \/ ReceiveBroadcast(s) \/ EndStream(s)
  \/ \E s \in Callers : \/ \E c \in Conns : SendToClient(s, c) \/ JoinGroup(s, c)
                        \/ BroadcastGroup(s) \/ BroadcastAll(s)
  \/ \E c \in Conns : LeaveGroup(c) \/ Kick(c) \/ CloseSocket(c) \/ RemoveConnection(c)
  \/ Stop

Next == \/ Environment \/ FlushStep
        \/ \E s \in Senders : SenderStep(s)
        \/ \E c \in Conns : Write(c)

\* Goroutines that can run do run, and the flush loop's ticker keeps ticking.
Spec == /\ Init /\ [][Next]_vars
        /\ WF_vars(FlushStep)
        /\ \A s \in Senders : WF_vars(SenderStep(s))
        /\ \A c \in Conns : WF_vars(Write(c))

-----------------------------------------------------------------------------
TypeOK ==
  /\ scene \in Scenes
  /\ sock \in [Conns -> {"open", "closed", "kicked"}]
  /\ alive \subseteq Conns /\ members \subseteq Conns
  /\ hold \in [Conns -> Buffers \cup {None}] /\ free \subseteq Buffers
  /\ dirty \subseteq Conns /\ flush.todo \subseteq Conns
  /\ flush.conn # None <=> flush.buf # None
  /\ \A s \in Shards : Len(batch[s]) < FlushSize

\* A client gets what one sender sends it in the order it was sent, and
\* nothing twice, through batching, coalescing, reused buffers and broadcasts.
PushOrder ==
  \A c \in Conns : \A i, j \in DOMAIN wire[c] :
    i < j /\ wire[c][i] # Notice /\ wire[c][j] # Notice /\ wire[c][i][1] = wire[c][j][1]
      => wire[c][i][2] < wire[c][j][2]

\* Coalesced data are never forgotten: a connection whose buffer is not empty
\* is in the dirty set, about to be visited, or its sender is about to mark it
\* (coalescer.go:50 appends before it marks, outside the coalescer's lock).
BufferedIsMarked ==
  \A c \in alive : hold[c] # None =>
    \/ c \in dirty \cup flush.todo
    \/ \E s \in Shards : snd[s].at = "mark" /\ snd[s].cur = c

\* The buffers that writes in the event loop's queues refer to.
Queued(c) == {queue[c][i].buf : i \in DOMAIN queue[c]} \ {None}

\* A pooled buffer has one owner: the pool, one connection, the flush loop or
\* one queued write.  putBack returns it once, after the write
\* (connection.go:377).
BufferOwned ==
  /\ \A b \in free : /\ \A c \in Conns : hold[c] # b /\ b \notin Queued(c)
                     /\ flush.buf # b
  /\ \A c, d \in Conns : /\ c # d /\ hold[c] # None => hold[c] # hold[d]
                         /\ hold[c] \notin Queued(d)
                         /\ c # d => Queued(c) \cap Queued(d) = {}
  /\ \A c \in Conns : flush.buf # None => flush.buf # hold[c] /\ flush.buf \notin Queued(c)

\* SendThenClose: a client that is kicked has been sent the notice, last.
NoticeBeforeClose ==
  \A c \in Conns : sock[c] = "kicked" => wire[c] # <<>> /\ Last(wire[c]) = Notice

\* Coalesced data reach the event loop: the flush loop takes the buffer, unless
\* the connection goes away or the coalescer is stopped.
BufferFlushed ==
  \A c \in Conns : (hold[c] # None /\ c \in alive)
                     ~> (hold[c] = None \/ c \notin alive \/ flush.at = "gone")
=============================================================================
