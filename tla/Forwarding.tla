------------------------------ MODULE Forwarding ------------------------------
(***************************************************************************)
(* How one client message travels to the logic server: the pipeline calls  *)
(* LogicClient.SendMessage, which pushes the pooled message into the send  *)
(* channel of its session's shard or into the offline queue; the send loop *)
(* of the shard hands batches to the gRPC stream; Flush moves queued       *)
(* messages to the shards; Close stops and drains the shards.  Whoever     *)
(* owns a message last returns it to the pool (PutStreamData).  The link   *)
(* itself is the environment, as LogicLink promises it.  The queue has the *)
(* default policy, drop; StreamMessageQueue models the others.             *)
(***************************************************************************)
EXTENDS LogicLink, Sequences, FiniteSets

CONSTANTS Sessions,     \* client connections, each sending one message at a time
          Home,         \* the shard each session hashes to
          Count,        \* messages a session sends
          ChanCap,      \* sendChannelSize
          QueueMax,     \* StreamMessageQueue.maxSize
          MaxBatch,     \* maxBatchCount
          MaxFailures,  \* maxFailures of Flush
          MaxFlushes,   \* bound on Flush goroutines waiting to run
          Flusher       \* the name of the Flush goroutine that won the CAS

ASSUME ForwardingAssumption ==
  /\ IsFiniteSet(Sessions)
  /\ Home \in [Sessions -> Shards]
  /\ {Count, ChanCap, QueueMax, MaxBatch, MaxFailures, MaxFlushes} \subseteq Nat \ {0}
  /\ Flusher \notin Sessions

VARIABLES queue,      \* StreamMessageQueue.queue
          sendCh,     \* the send channel of every shard
          batch,      \* the batch of every send loop
          loop,       \* where every send loop is
          loopStream, \* the stream a send loop has read
          pc,         \* where every sender is: a session or the Flusher
          hand,       \* the message every sender holds
          sent,       \* messages each session has passed to SendMessage
          failures,   \* consecutive failures of the running Flush
          closePC,    \* progress of Close
          stopped,    \* shards whose stop has closed stopCh
          drained,    \* shards whose stop has returned
          puts,       \* how often each message was returned to the pool
          wire,       \* messages handed to the transport, per shard
          viaQueue    \* messages that were ever queued (history)

own == <<queue, sendCh, batch, loop, loopStream, pc, hand, sent, failures,
         closePC, stopped, drained, puts, wire, viaQueue>>
vars == <<linkVars, own>>

Msgs == Sessions \X (1 .. Count)
NoMsg == <<>>
Senders == Sessions \cup {Flusher}

ForwardingTypeOK ==
  /\ LinkTypeOK
  /\ queue \in Seq(Msgs) /\ Len(queue) <= QueueMax
  /\ sendCh \in [Shards -> Seq(Msgs)]
  /\ \A sh \in Shards : Len(sendCh[sh]) <= ChanCap
  /\ batch \in [Shards -> Seq(Msgs)]
  /\ \A sh \in Shards : Len(batch[sh]) <= MaxBatch
  /\ loop \in [Shards -> {"select", "drain", "read", "send", "exit"}]
  /\ loopStream \in [Shards -> Streams \cup {NoStream}]
  /\ pc \in [Senders -> {"idle", "start", "closing", "enqueue", "closed", "push", "wait", "recheck",
                         "failed", "dequeue", "check", "direct", "return"}]
  /\ hand \in [Senders -> Msgs \cup {NoMsg}]
  /\ sent \in [Sessions -> 0 .. Count]
  /\ failures \in 0 .. MaxFailures
  /\ closePC \in {"open", "locked", "unlocked", "done"}
  /\ drained \subseteq stopped /\ stopped \subseteq Shards
  /\ puts \in [Msgs -> Nat]
  /\ wire \in [Shards -> Seq(Msgs)]
  /\ viaQueue \subseteq Msgs

ForwardingInit ==
  /\ Init
  /\ queue = <<>>
  /\ sendCh = [sh \in Shards |-> <<>>]
  /\ batch = [sh \in Shards |-> <<>>]
  /\ loop = [sh \in Shards |-> "select"]
  /\ loopStream = [sh \in Shards |-> NoStream]
  /\ pc = [p \in Senders |-> "idle"]
  /\ hand = [p \in Senders |-> NoMsg]
  /\ sent = [c \in Sessions |-> 0]
  /\ failures = 0
  /\ closePC = "open"
  /\ stopped = {} /\ drained = {}
  /\ puts = [m \in Msgs |-> 0]
  /\ wire = [sh \in Shards |-> <<>>]
  /\ viaQueue = {}

Go(p, from, to) ==
  /\ pc[p] = from
  /\ pc' = [pc EXCEPT ![p] = to]

\* PutStreamData of each message of a sequence.
Put(ms) == [m \in Msgs |-> puts[m] + Cardinality({i \in 1 .. Len(ms) : ms[i] = m})]

\* Close holds the client's write lock: the readers of closing wait.
Unlocked == closePC # "locked"

\* The shard that GetShard picks for a message.
ShardOf(m) == Home[m[1]]

-----------------------------------------------------------------------------
(* SendMessage, called by the pipeline for session c.                      *)

\* The pipeline takes a pooled message for a connected client only; without
\* one the client's message is dropped before it reaches the pool.
Route(c) ==
  /\ state = "Connected"
  /\ sent[c] < Count
  /\ Go(c, "idle", "start")
  /\ sent' = [sent EXCEPT ![c] = @ + 1]
  /\ hand' = [hand EXCEPT ![c] = <<c, sent[c] + 1>>]
  /\ UNCHANGED <<linkVars, queue, sendCh, batch, loop, loopStream, failures, closePC,
                 stopped, drained, puts, wire, viaQueue>>

CheckState(c) ==
  /\ Go(c, "start", IF state = "Connected" THEN "closed" ELSE "closing")
  /\ UNCHANGED <<linkVars, queue, sendCh, batch, loop, loopStream, hand, sent, failures,
                 closePC, stopped, drained, puts, wire, viaQueue>>

\* ErrConnectionClosing: the pipeline's caller returns the message.
CheckClosing(c) ==
  /\ Unlocked
  /\ IF closing
     THEN /\ Go(c, "closing", "idle")
          /\ puts' = Put(<<hand[c]>>)
          /\ hand' = [hand EXCEPT ![c] = NoMsg]
     ELSE /\ Go(c, "closing", "enqueue")
          /\ UNCHANGED <<puts, hand>>
  /\ UNCHANGED <<linkVars, queue, sendCh, batch, loop, loopStream, sent, failures, closePC,
                 stopped, drained, wire, viaQueue>>

\* Enqueue with the drop policy: a full queue returns its oldest message.
Enqueued(m) ==
  /\ queue' = Append(IF Len(queue) >= QueueMax THEN Tail(queue) ELSE queue, m)
  /\ puts' = IF Len(queue) >= QueueMax THEN Put(<<Head(queue)>>) ELSE puts
  /\ viaQueue' = viaQueue \cup {m}

\* Back from SendMessage with nil: the message is no longer the caller's.
Accepted(c, from) ==
  /\ Go(c, from, "idle")
  /\ hand' = [hand EXCEPT ![c] = NoMsg]

\* Not Connected: queue the message.
EnqueueOffline(c) ==
  /\ Accepted(c, "enqueue")
  /\ Enqueued(hand[c])
  /\ UNCHANGED <<linkVars, sendCh, batch, loop, loopStream, sent, failures, closePC,
                 stopped, drained, wire>>

\* The shard refused the message: queue it and start a Flush.
EnqueueRefused(c) ==
  /\ flushes < MaxFlushes
  /\ Accepted(c, "failed")
  /\ Enqueued(hand[c])
  /\ flushes' = flushes + 1
  /\ UNCHANGED <<stream, state, closing, broken, dialed, sendCh, batch, loop, loopStream,
                 sent, failures, closePC, stopped, drained, wire>>

-----------------------------------------------------------------------------
(* StreamShard.SendMessage, called by a session or by the Flusher.         *)

\* What the caller does with the shard's answer.
ShardOK(p, from) ==
  IF p = Flusher
  THEN /\ Go(p, from, "dequeue")
       /\ hand' = [hand EXCEPT ![p] = NoMsg]
       /\ failures' = 0
  ELSE /\ Accepted(p, from)
       /\ UNCHANGED failures

CheckClosed(p) ==
  /\ Go(p, "closed", IF ShardOf(hand[p]) \in stopped THEN "failed" ELSE "push")
  /\ UNCHANGED <<linkVars, queue, sendCh, batch, loop, loopStream, hand, sent, failures,
                 closePC, stopped, drained, puts, wire, viaQueue>>

\* sendCh <- msg, tried without waiting and then until the timer fires.
PushTo(p, from, sh) ==
  /\ Len(sendCh[sh]) < ChanCap
  /\ Go(p, from, "recheck")
  /\ sendCh' = [sendCh EXCEPT ![sh] = Append(@, hand[p])]

Push(p) ==
  LET sh == ShardOf(hand[p])
  IN  /\ pc[p] = "push"
      /\ \/ PushTo(p, "push", sh)
         \/ /\ Len(sendCh[sh]) >= ChanCap
            /\ Go(p, "push", "wait")
            /\ UNCHANGED sendCh
      /\ UNCHANGED <<linkVars, queue, batch, loop, loopStream, hand, sent, failures, closePC,
                     stopped, drained, puts, wire, viaQueue>>

\* The select takes any ready case; the timer may be ready at any time.
PushWaiting(p) ==
  /\ pc[p] = "wait"
  /\ \/ PushTo(p, "wait", ShardOf(hand[p]))
     \/ Go(p, "wait", "failed") /\ UNCHANGED sendCh
  /\ UNCHANGED <<linkVars, queue, batch, loop, loopStream, hand, sent, failures, closePC,
                 stopped, drained, puts, wire, viaQueue>>

\* The stop of the shard is checked again after the push.
Recheck(p) ==
  /\ pc[p] = "recheck"
  /\ IF ShardOf(hand[p]) \in stopped
     THEN Go(p, "recheck", "failed") /\ UNCHANGED <<hand, failures>>
     ELSE ShardOK(p, "recheck")
  /\ UNCHANGED <<linkVars, queue, sendCh, batch, loop, loopStream, sent, closePC,
                 stopped, drained, puts, wire, viaQueue>>

-----------------------------------------------------------------------------
(* Flush.                                                                  *)

\* A started goroutine runs; it returns at once if another is flushing.
FlushStart ==
  /\ FlushRuns
  /\ IF pc[Flusher] = "idle"
     THEN Go(Flusher, "idle", "dequeue") /\ failures' = 0
     ELSE UNCHANGED <<pc, failures>>
  /\ UNCHANGED <<queue, sendCh, batch, loop, loopStream, hand, sent, closePC, stopped,
                 drained, puts, wire, viaQueue>>

\* Mutant: the message stays in the queue.
FlushPeek ==
  /\ IF queue = <<>>
     THEN Go(Flusher, "dequeue", "return") /\ UNCHANGED hand
     ELSE /\ Go(Flusher, "dequeue", "check")
          /\ hand' = [hand EXCEPT ![Flusher] = Head(queue)]
  /\ UNCHANGED <<linkVars, queue, sendCh, batch, loop, loopStream, sent, failures, closePC,
                 stopped, drained, puts, wire, viaQueue>>

FlushDequeue ==
  /\ IF queue = <<>>
     THEN Go(Flusher, "dequeue", "return") /\ UNCHANGED <<queue, hand>>
     ELSE /\ Go(Flusher, "dequeue", "check")
          /\ hand' = [hand EXCEPT ![Flusher] = Head(queue)]
          /\ queue' = Tail(queue)
  /\ UNCHANGED <<linkVars, sendCh, batch, loop, loopStream, sent, failures, closePC, stopped,
                 drained, puts, wire, viaQueue>>

FlushCheck ==
  /\ Unlocked
  /\ IF closing
     THEN /\ Go(Flusher, "check", "return")
          /\ puts' = Put(<<hand[Flusher]>>)
          /\ hand' = [hand EXCEPT ![Flusher] = NoMsg]
     ELSE /\ Go(Flusher, "check", IF state = "Connected" THEN "direct" ELSE "failed")
          /\ UNCHANGED <<puts, hand>>
  /\ UNCHANGED <<linkVars, queue, sendCh, batch, loop, loopStream, sent, failures, closePC,
                 stopped, drained, wire, viaQueue>>

\* SendMessageDirect looks at the state once more.
FlushDirect ==
  /\ Unlocked
  /\ Go(Flusher, "direct", IF closing \/ state # "Connected" THEN "failed" ELSE "closed")
  /\ UNCHANGED <<linkVars, queue, sendCh, batch, loop, loopStream, hand, sent, failures,
                 closePC, stopped, drained, puts, wire, viaQueue>>

\* Mutant: the message goes to the back of the queue.
FlushRequeueBack ==
  /\ Go(Flusher, "failed", IF failures + 1 < MaxFailures THEN "dequeue" ELSE "return")
  /\ failures' = failures + 1
  /\ Enqueued(hand[Flusher])
  /\ hand' = [hand EXCEPT ![Flusher] = NoMsg]
  /\ UNCHANGED <<linkVars, sendCh, batch, loop, loopStream, sent, closePC, stopped, drained,
                 wire>>

\* RequeueFront: a full queue returns its head to make room.
FlushRequeue ==
  /\ Go(Flusher, "failed", IF failures + 1 < MaxFailures THEN "dequeue" ELSE "return")
  /\ failures' = failures + 1
  /\ queue' = <<hand[Flusher]>> \o (IF Len(queue) >= QueueMax THEN Tail(queue) ELSE queue)
  /\ puts' = IF Len(queue) >= QueueMax THEN Put(<<Head(queue)>>) ELSE puts
  /\ hand' = [hand EXCEPT ![Flusher] = NoMsg]
  /\ UNCHANGED <<linkVars, sendCh, batch, loop, loopStream, sent, closePC, stopped, drained,
                 wire, viaQueue>>

\* The deferred reset of the flushing flag.
FlushReturn ==
  /\ Go(Flusher, "return", "idle")
  /\ failures' = 0
  /\ UNCHANGED <<linkVars, queue, sendCh, batch, loop, loopStream, hand, sent, closePC,
                 stopped, drained, puts, wire, viaQueue>>

-----------------------------------------------------------------------------
(* The send loop of shard sh.                                              *)

LoopGo(sh, from, to) ==
  /\ loop[sh] = from
  /\ loop' = [loop EXCEPT ![sh] = to]

LoopExit(sh) ==
  /\ sh \in stopped
  /\ LoopGo(sh, "select", "exit")
  /\ UNCHANGED <<linkVars, queue, sendCh, batch, loopStream, pc, hand, sent, failures, closePC,
                 stopped, drained, puts, wire, viaQueue>>

\* Mutant: the batch is filled from the back.
LoopTakeReversed(sh) ==
  /\ sendCh[sh] # <<>>
  /\ \/ LoopGo(sh, "select", IF MaxBatch > 1 THEN "drain" ELSE "read")
     \/ LoopGo(sh, "drain", IF Len(batch[sh]) + 1 < MaxBatch THEN "drain" ELSE "read")
  /\ batch' = [batch EXCEPT ![sh] = <<Head(sendCh[sh])>> \o @]
  /\ sendCh' = [sendCh EXCEPT ![sh] = Tail(@)]
  /\ UNCHANGED <<linkVars, queue, loopStream, pc, hand, sent, failures, closePC, stopped,
                 drained, puts, wire, viaQueue>>

\* The first message, or one more of those that are ready.
LoopTake(sh) ==
  /\ sendCh[sh] # <<>>
  /\ \/ LoopGo(sh, "select", IF MaxBatch > 1 THEN "drain" ELSE "read")
     \/ LoopGo(sh, "drain", IF Len(batch[sh]) + 1 < MaxBatch THEN "drain" ELSE "read")
  /\ batch' = [batch EXCEPT ![sh] = Append(@, Head(sendCh[sh]))]
  /\ sendCh' = [sendCh EXCEPT ![sh] = Tail(@)]
  /\ UNCHANGED <<linkVars, queue, loopStream, pc, hand, sent, failures, closePC, stopped,
                 drained, puts, wire, viaQueue>>

LoopDrained(sh) ==
  /\ sendCh[sh] = <<>>
  /\ LoopGo(sh, "drain", "read")
  /\ UNCHANGED <<linkVars, queue, sendCh, batch, loopStream, pc, hand, sent, failures, closePC,
                 stopped, drained, puts, wire, viaQueue>>

\* sendBatchInner: without a stream the batch is dropped and returned.
LoopRead(sh) ==
  /\ IF stream[sh] = NoStream
     THEN /\ LoopGo(sh, "read", "select")
          /\ puts' = Put(batch[sh])
          /\ batch' = [batch EXCEPT ![sh] = <<>>]
          /\ UNCHANGED loopStream
     ELSE /\ LoopGo(sh, "read", "send")
          /\ loopStream' = [loopStream EXCEPT ![sh] = stream[sh]]
          /\ UNCHANGED <<puts, batch>>
  /\ UNCHANGED <<linkVars, queue, sendCh, pc, hand, sent, failures, closePC, stopped, drained,
                 wire, viaQueue>>

\* The batch is returned whether SendMsg took it or not.
LoopReturn(sh) ==
  /\ LoopGo(sh, "send", "select")
  /\ puts' = Put(batch[sh])
  /\ batch' = [batch EXCEPT ![sh] = <<>>]
  /\ loopStream' = [loopStream EXCEPT ![sh] = NoStream]

LoopSendOK(sh) ==
  /\ LoopReturn(sh)
  /\ wire' = [wire EXCEPT ![sh] = @ \o batch[sh]]
  /\ UNCHANGED <<linkVars, queue, sendCh, pc, hand, sent, failures, closePC, stopped,
                 drained, viaQueue>>

\* SendMsg fails on a dead stream, which is then detached.
LoopSendFail(sh) ==
  /\ LoopReturn(sh)
  /\ \/ loopStream[sh] = stream[sh] /\ stream[sh] \in broken /\ Unbind(sh)
     \/ loopStream[sh] # stream[sh] /\ UNCHANGED linkVars
  /\ UNCHANGED <<queue, sendCh, pc, hand, sent, failures, closePC, stopped,
                 drained, wire, viaQueue>>

-----------------------------------------------------------------------------
(* Close.                                                                  *)

CloseLock ==
  /\ BeginClose
  /\ closePC' = "locked"
  /\ UNCHANGED <<queue, sendCh, batch, loop, loopStream, pc, hand, sent, failures, stopped,
                 drained, puts, wire, viaQueue>>

\* One shard is stopped after the other, in any order.
CloseStop(sh) ==
  /\ closePC = "locked"
  /\ stopped = drained
  /\ sh \notin stopped
  /\ stopped' = stopped \cup {sh}
  /\ UNCHANGED <<linkVars, queue, sendCh, batch, loop, loopStream, pc, hand, sent, failures,
                 closePC, drained, puts, wire, viaQueue>>

\* stop drains the channel message by message until it finds it empty.
CloseDrain(sh) ==
  /\ sh \in stopped \ drained
  /\ IF sendCh[sh] = <<>>
     THEN drained' = drained \cup {sh} /\ UNCHANGED <<sendCh, puts>>
     ELSE /\ puts' = Put(<<Head(sendCh[sh])>>)
          /\ sendCh' = [sendCh EXCEPT ![sh] = Tail(@)]
          /\ UNCHANGED drained
  /\ UNCHANGED <<linkVars, queue, batch, loop, loopStream, pc, hand, sent, failures, closePC,
                 stopped, wire, viaQueue>>

CloseUnlock ==
  /\ closePC = "locked"
  /\ drained = Shards
  /\ closePC' = "unlocked"
  /\ UNCHANGED <<linkVars, queue, sendCh, batch, loop, loopStream, pc, hand, sent, failures,
                 stopped, drained, puts, wire, viaQueue>>

CloseDown ==
  /\ closePC = "unlocked"
  /\ closePC' = "done"
  /\ Down
  /\ UNCHANGED <<queue, sendCh, batch, loop, loopStream, pc, hand, sent, failures, stopped,
                 drained, puts, wire, viaQueue>>

-----------------------------------------------------------------------------
\* What the link does of its own accord.
LinkStep ==
  /\ \/ \E sh \in Shards, s \in Streams : Bind(sh, s)
     \/ \E sh \in Shards : stream[sh] # NoStream /\ Unbind(sh)
     \/ \E s \in Streams : s \notin broken /\ Break(s)
     \/ state # "Connected" /\ flushes < MaxFlushes /\ Up
     \/ state = "Connected" /\ Down
  /\ UNCHANGED own

SessionStep(c) ==
  \/ Route(c) \/ CheckState(c) \/ CheckClosing(c)
  \/ EnqueueOffline(c) \/ EnqueueRefused(c)

SenderStep(p) == CheckClosed(p) \/ Push(p) \/ PushWaiting(p) \/ Recheck(p)

FlushStep ==
  FlushStart \/ FlushDequeue \/ FlushCheck \/ FlushDirect \/ FlushRequeue \/ FlushReturn

LoopStep(sh) ==
  \/ LoopExit(sh) \/ LoopTake(sh) \/ LoopDrained(sh) \/ LoopRead(sh)
  \/ LoopSendOK(sh) \/ LoopSendFail(sh)

CloseStep ==
  \/ CloseLock \/ CloseUnlock \/ CloseDown
  \/ \E sh \in Shards : CloseStop(sh) \/ CloseDrain(sh)

ForwardingNext ==
  \/ LinkStep
  \/ \E c \in Sessions : SessionStep(c)
  \/ \E p \in Senders : SenderStep(p)
  \/ FlushStep
  \/ \E sh \in Shards : LoopStep(sh)
  \/ CloseStep

ForwardingSpec == ForwardingInit /\ [][ForwardingNext]_vars

-----------------------------------------------------------------------------
(* Properties.                                                             *)

Occurs(m, s) == Cardinality({i \in 1 .. Len(s) : s[i] = m})

\* In the hand of a sender that has not given it away.
Held(m) == Cardinality({p \in Senders : hand[p] = m /\ pc[p] # "recheck"})

\* The places a message is in.
Places(m) ==
  Held(m) + Occurs(m, queue) + Occurs(m, sendCh[ShardOf(m)]) + Occurs(m, batch[ShardOf(m)])

\* While the client is open every message that SendMessage was given has
\* exactly one owner until it is returned to the pool, exactly once: no
\* message is in two places, none vanishes (PutStreamData, "double Put").
OneOwner ==
  ~closing => \A m \in Msgs : Places(m) + puts[m] = IF m[2] <= sent[m[1]] THEN 1 ELSE 0

\* A message is never returned to the pool twice (client.go: "avoid double
\* Put"; stream.go: "a repeated Put aliases").
PutAtMostOnce == \A m \in Msgs : puts[m] <= 1

\* The messages of one session in a sequence are in the order they were sent.
InOrder(s) ==
  \A i, j \in 1 .. Len(s) : i < j /\ s[i][1] = s[j][1] => s[i][2] < s[j][2]

\* Neither Flush nor RequeueFront reorders the queue of an open client: the
\* message Flush has taken and not given away is still ahead of the rest.
QueueInOrder ==
  ~closing => InOrder(IF hand[Flusher] # NoMsg /\ pc[Flusher] # "recheck"
                      THEN <<hand[Flusher]>> \o queue ELSE queue)

\* Of two messages of a session that never saw the queue, m was sent first.
Ahead(m, n) == m \notin viaQueue /\ n \notin viaQueue /\ m[1] = n[1] => m[2] < n[2]

\* Messages that never saw the queue reach the transport in order.
DirectInOrder ==
  \A sh \in Shards : \A i, j \in 1 .. Len(wire[sh]) : i < j => Ahead(wire[sh][i], wire[sh][j])

\* No message is on the wire twice.
SentOnce ==
  \A sh \in Shards : \A i, j \in 1 .. Len(wire[sh]) : wire[sh][i] = wire[sh][j] => i = j
=============================================================================
