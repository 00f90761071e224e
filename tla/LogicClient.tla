----------------------------- MODULE LogicClient -----------------------------
(***************************************************************************)
(* The gateway's end of the link to one logic server (backend/client.go,   *)
(* stream.go, grpc_server.go).  The logic server dials one gRPC stream per *)
(* shard; every stream is served by an OnData handler goroutine which      *)
(* attaches it, receives from it and detaches it, and every shard has a    *)
(* send loop which detaches the stream it fails to send on.  The client is *)
(* Connected when all the shards are attached.  One action is one atomic   *)
(* operation or one critical section of the code.                          *)
(***************************************************************************)
EXTENDS Integers, FiniteSets

CONSTANTS Shards,    \* the shards of the client: totalShards of them
          Streams,   \* the streams ever dialed (bounds the redials)
          NoStream,  \* nil
          ShardIdx   \* the shard each stream names in its metadata

ASSUME ShardsAssumption ==
  /\ IsFiniteSet(Shards)
  /\ Shards # {}
  /\ IsFiniteSet(Streams)
  /\ Shards \cap Streams = {}
  /\ NoStream \notin Streams \cup Shards
  /\ ShardIdx \in [Streams -> Shards]

VARIABLES stream,    \* StreamShard.stream of every shard
          attached,  \* LogicClient.attached
          state,     \* LogicClient.state
          closing,   \* LogicClient.closing
          flushes,   \* Flush goroutines started and not yet running
          broken,    \* streams the transport has torn down
          pc,        \* where each handler and each send loop is
          hold,      \* the stream each of them has read from its shard
          closer     \* progress of Close

vars == <<stream, attached, state, closing, flushes, broken, pc, hold, closer>>

totalShards == Cardinality(Shards)

\* A handler goroutine is named by its stream, a send loop by its shard.
Procs == Streams \cup Shards

AttachPC == {"dial", "swap", "add", "load", "loadState", "set"}
DetachPC == {"unbind", "checkClosing", "sub", "downCheck", "down"}

TypeOK ==
  /\ stream \in [Shards -> Streams \cup {NoStream}]
  /\ attached \in Int
  /\ state \in {"Disconnected", "Connected"}
  /\ closing \in BOOLEAN
  /\ flushes \in Nat
  /\ broken \subseteq Streams
  /\ pc \in [Procs -> AttachPC \cup DetachPC \cup
                      {"receive", "recv", "done", "rejected", "idle", "send"}]
  /\ hold \in [Procs -> Streams \cup {NoStream}]
  /\ closer \in {"open", "setState", "closed"}

Init ==
  /\ stream = [sh \in Shards |-> NoStream]
  /\ attached = 0
  /\ state = "Disconnected"
  /\ closing = FALSE
  /\ flushes = 0
  /\ broken = {}
  /\ pc = [p \in Procs |-> IF p \in Streams THEN "dial" ELSE "idle"]
  /\ hold = [p \in Procs |-> NoStream]
  /\ closer = "open"

Go(p, from, to) ==
  /\ pc[p] = from
  /\ pc' = [pc EXCEPT ![p] = to]

-----------------------------------------------------------------------------
(* attachShard: the handler of stream s binds it to its shard.             *)

\* A closing client rejects the stream.
AttachCheckClosing(s) ==
  /\ Go(s, "dial", IF closing THEN "rejected" ELSE "swap")
  /\ UNCHANGED <<stream, attached, state, closing, flushes, broken, hold, closer>>

\* Under the shard's mutex; a stream that is still there is replaced.
AttachSwap(s) ==
  /\ Go(s, "swap", IF stream[ShardIdx[s]] = NoStream THEN "add" ELSE "load")
  /\ stream' = [stream EXCEPT ![ShardIdx[s]] = s]
  /\ UNCHANGED <<attached, state, closing, flushes, broken, hold, closer>>

AttachAdd(s) ==
  /\ Go(s, "add", "load")
  /\ attached' = attached + 1
  /\ UNCHANGED <<stream, state, closing, flushes, broken, hold, closer>>

AttachLoad(s) ==
  /\ Go(s, "load", IF attached >= totalShards THEN "loadState" ELSE "receive")
  /\ UNCHANGED <<stream, attached, state, closing, flushes, broken, hold, closer>>

AttachLoadState(s) ==
  /\ Go(s, "loadState", IF state # "Connected" THEN "set" ELSE "receive")
  /\ UNCHANGED <<stream, attached, state, closing, flushes, broken, hold, closer>>

\* Mutant: no Flush is started.
AttachSetNoFlush(s) ==
  /\ Go(s, "set", "receive")
  /\ state' = "Connected"
  /\ UNCHANGED <<stream, attached, closing, flushes, broken, hold, closer>>

\* setState stores only a different value, so it is one write; then go Flush.
AttachSet(s) ==
  /\ Go(s, "set", "receive")
  /\ state' = "Connected"
  /\ flushes' = flushes + 1
  /\ UNCHANGED <<stream, attached, closing, broken, hold, closer>>

-----------------------------------------------------------------------------
(* receiveMessages: the handler receives from the stream it finds in the   *)
(* shard, which need not be its own.                                       *)

ReceiveStart(s) ==
  LET sh == ShardIdx[s]
  IN  /\ Go(s, "receive", IF stream[sh] = NoStream THEN "unbind" ELSE "recv")
      /\ hold' = [hold EXCEPT ![s] = stream[sh]]
      /\ UNCHANGED <<stream, attached, state, closing, flushes, broken, closer>>

\* RecvMsg fails, or the loop finds stopCh closed by Close.
ReceiveEnd(s) ==
  /\ hold[s] \in broken \/ closing
  /\ Go(s, "recv", "unbind")
  /\ UNCHANGED <<stream, attached, state, closing, flushes, broken, hold, closer>>

-----------------------------------------------------------------------------
(* The send loop of shard sh: sendBatchInner.                              *)

SendTake(sh) ==
  /\ stream[sh] # NoStream
  /\ Go(sh, "idle", "send")
  /\ hold' = [hold EXCEPT ![sh] = stream[sh]]
  /\ UNCHANGED <<stream, attached, state, closing, flushes, broken, closer>>

SendOK(sh) ==
  /\ Go(sh, "send", "idle")
  /\ hold' = [hold EXCEPT ![sh] = NoStream]
  /\ UNCHANGED <<stream, attached, state, closing, flushes, broken, closer>>

\* SendMsg fails on a torn down stream or one whose handler has returned.
SendFail(sh) ==
  /\ Go(sh, "send", "unbind")
  /\ hold[sh] \in broken \/ pc[hold[sh]] = "done"
  /\ UNCHANGED <<stream, attached, state, closing, flushes, broken, hold, closer>>

-----------------------------------------------------------------------------
(* detachShard(sh, arg), called by the deferred call of a handler with its *)
(* own stream and by a send loop with the stream it failed on.             *)

ShardOf(p) == IF p \in Streams THEN ShardIdx[p] ELSE p
DetachArg(p) == IF p \in Streams THEN p ELSE hold[p]
Return(p) == IF p \in Streams THEN "done" ELSE "idle"

\* Mutant: whatever stream is bound is detached.
DetachUnbindAny(p) ==
  /\ Go(p, "unbind", "checkClosing")
  /\ stream' = [stream EXCEPT ![ShardOf(p)] = NoStream]
  /\ hold' = [hold EXCEPT ![p] = NoStream]
  /\ UNCHANGED <<attached, state, closing, flushes, broken, closer>>

\* Mutant: the detached stream stays in the shard.
DetachUnbindKeeps(p) ==
  /\ Go(p, "unbind", IF stream[ShardOf(p)] = DetachArg(p) THEN "checkClosing" ELSE Return(p))
  /\ hold' = [hold EXCEPT ![p] = NoStream]
  /\ UNCHANGED <<stream, attached, state, closing, flushes, broken, closer>>

\* Under the shard's mutex: nothing to do for a stream no longer bound.
DetachUnbind(p) ==
  /\ IF stream[ShardOf(p)] = DetachArg(p)
     THEN /\ Go(p, "unbind", "checkClosing")
          /\ stream' = [stream EXCEPT ![ShardOf(p)] = NoStream]
     ELSE /\ Go(p, "unbind", Return(p))
          /\ UNCHANGED stream
  /\ hold' = [hold EXCEPT ![p] = NoStream]
  /\ UNCHANGED <<attached, state, closing, flushes, broken, closer>>

DetachCheckClosing(p) ==
  /\ Go(p, "checkClosing", IF closing THEN Return(p) ELSE "sub")
  /\ UNCHANGED <<stream, attached, state, closing, flushes, broken, hold, closer>>

\* n := attached.Add(-1); a negative n only logs.
DetachSub(p) ==
  /\ Go(p, "sub", IF attached - 1 \in 0 .. totalShards - 1
                  THEN "downCheck" ELSE Return(p))
  /\ attached' = attached - 1
  /\ UNCHANGED <<stream, state, closing, flushes, broken, hold, closer>>

DetachLoadState(p) ==
  /\ Go(p, "downCheck", IF state = "Connected" THEN "down" ELSE Return(p))
  /\ UNCHANGED <<stream, attached, state, closing, flushes, broken, hold, closer>>

DetachSet(p) ==
  /\ Go(p, "down", Return(p))
  /\ state' = "Disconnected"
  /\ UNCHANGED <<stream, attached, closing, flushes, broken, hold, closer>>

-----------------------------------------------------------------------------
(* Close: the flag and the shards' stop under the client's mutex, then the *)
(* state.  A second call finds closing set and returns.                    *)

CloseLocked ==
  /\ ~closing
  /\ closing' = TRUE
  /\ closer' = "setState"
  /\ UNCHANGED <<stream, attached, state, flushes, broken, pc, hold>>

CloseSetState ==
  /\ closer = "setState"
  /\ closer' = "closed"
  /\ state' = "Disconnected"
  /\ UNCHANGED <<stream, attached, closing, flushes, broken, pc, hold>>

-----------------------------------------------------------------------------
(* The environment: the transport and the scheduler.                       *)

Break(s) ==
  /\ s \notin broken
  /\ broken' = broken \cup {s}
  /\ UNCHANGED <<stream, attached, state, closing, flushes, pc, hold, closer>>

FlushRuns ==
  /\ flushes > 0
  /\ flushes' = flushes - 1
  /\ UNCHANGED <<stream, attached, state, closing, broken, pc, hold, closer>>

Detach(p) ==
  \/ DetachUnbind(p)
  \/ DetachCheckClosing(p)
  \/ DetachSub(p)
  \/ DetachLoadState(p)
  \/ DetachSet(p)

Handler(s) ==
  \/ AttachCheckClosing(s)
  \/ AttachSwap(s)
  \/ AttachAdd(s)
  \/ AttachLoad(s)
  \/ AttachLoadState(s)
  \/ AttachSet(s)
  \/ ReceiveStart(s)
  \/ ReceiveEnd(s)
  \/ Detach(s)

SendLoop(sh) ==
  \/ SendTake(sh)
  \/ SendOK(sh)
  \/ SendFail(sh)
  \/ Detach(sh)

Next ==
  \/ \E s \in Streams : Handler(s) \/ Break(s)
  \/ \E sh \in Shards : SendLoop(sh)
  \/ CloseLocked
  \/ CloseSetState
  \/ FlushRuns

Spec == Init /\ [][Next]_vars

-----------------------------------------------------------------------------
(* Properties.                                                             *)

\* Shards that have a stream; handlers that have bound a stream to an empty
\* shard and not counted it yet; callers of detachShard that have unbound a
\* stream and not uncounted it yet.
Bound == {sh \in Shards : stream[sh] # NoStream}
Adding == {s \in Streams : pc[s] = "add"}
Subbing == {p \in Procs : pc[p] \in {"checkClosing", "sub"}}

\* In the middle of attachShard, detachShard or Close.
Mid(p) == pc[p] \in (AttachPC \ {"dial"}) \cup DetachPC
AtRest == closer # "setState" /\ \A p \in Procs : ~Mid(p)

\* LogicClient.attached is the number of bound shards corrected by the
\* operations in flight.  A Close lets detachShard return before it
\* decrements, so from then on the counter may only be too high.
AttachedCounts ==
  /\ attached + Cardinality(Adding) >= Cardinality(Bound) + Cardinality(Subbing)
  /\ ~closing => attached + Cardinality(Adding) = Cardinality(Bound) + Cardinality(Subbing)

\* The count that drives the state is exact whenever no attachShard and no
\* detachShard is in flight (client.go: availability is "driven by the
\* number of attached shards").
AttachedExactAtRest ==
  ~closing /\ AtRest => attached = Cardinality(Bound)

\* detachShard of a replaced or already detached stream never unbinds the
\* stream that took its place: a shard loses a stream only if that very
\* stream is broken or the client is closing.
UnbindsDeadOnly ==
  \A sh \in Shards : stream[sh] # NoStream /\ stream'[sh] = NoStream
                        => stream[sh] \in broken \/ closing
LiveStreamStaysBound == [][UnbindsDeadOnly]_vars

\* The life of a stream, which LiveStreamStaysBound rests on: a stream is
\* bound at its own shard only, never before its handler has swapped it in
\* nor after its handler has detached it; the handler of a bound stream
\* receives from that very stream, and whoever is about to detach a bound
\* stream has seen it fail.
BoundHome == \A sh \in Shards : stream[sh] # NoStream => ShardIdx[stream[sh]] = sh
NotYetBound ==
  \A s \in Streams : pc[s] \in {"dial", "swap", "rejected"} => stream[ShardIdx[s]] # s
GoneForGood ==
  \A s \in Streams :
     pc[s] \in {"checkClosing", "sub", "downCheck", "down", "done"} => stream[ShardIdx[s]] # s
OwnReceiver ==
  \A s \in Streams : pc[s] = "recv" /\ stream[ShardIdx[s]] = s => hold[s] = s
DeadAtUnbind ==
  \A s \in Streams :
     pc[s] = "unbind" /\ stream[ShardIdx[s]] = s => s \in broken \/ closing
SenderHolds == \A sh \in Shards : pc[sh] \in {"send", "unbind"} => hold[sh] \in Streams
SenderSawDead ==
  \A sh \in Shards : pc[sh] = "unbind" => hold[sh] \in broken \/ pc[hold[sh]] = "done"

StreamLifecycle ==
  /\ BoundHome /\ NotYetBound /\ GoneForGood /\ OwnReceiver
  /\ DeadAtUnbind /\ SenderHolds /\ SenderSawDead

\* With all the shards attached and nothing in flight the client is
\* Connected (client.go: "attached == totalShards" is Connected).
ConnectedWhenComplete ==
  ~closing /\ AtRest /\ Bound = Shards => state = "Connected"

\* With a shard missing and nothing in flight the client is Disconnected
\* (client.go, detachShard: fewer attached than the total is a disconnect).
DisconnectedWhenIncomplete ==
  ~closing /\ AtRest /\ Bound # Shards => state = "Disconnected"

\* Once Close has returned and nothing is in flight the client is
\* Disconnected, so that SendMessage reports ErrConnectionClosing.
ClosedIsDisconnected ==
  closer = "closed" /\ AtRest => state = "Disconnected"

\* What the operations do when no two of them overlap.
SerialNext ==
  /\ Next
  /\ \A p, q \in Procs : Mid(p)' /\ Mid(q)' => p = q
  /\ closer' = "setState" => \A p \in Procs : ~Mid(p)'

SerialSpec == Init /\ [][SerialNext]_vars

\* The link the rest of the gateway sees.
Link == INSTANCE LogicLink WITH
          dialed <- {s \in Streams : pc[s] \notin {"dial", "swap", "rejected"}}

\* The client implements the abstract link: a stream is bound once, unbound
\* only when dead or at Close, and every move to Connected starts a Flush.
ImplementsLink == Link!Spec
=============================================================================
