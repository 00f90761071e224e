------------------------------- MODULE Inbound -------------------------------
(***************************************************************************)
(* The way up, from bytes to forwarded messages: the event loop's handlers *)
(* (gateway/handlers.go), the WebSocket protocol (gateway/websocket.go)    *)
(* and the sharded worker pool (gateway/pipeline.go).                      *)
(*                                                                         *)
(* What a client sends is a script, a sequence of frames; its bytes are    *)
(* the numbers 1 .. the sum of their sizes and arrive in chunks.  The      *)
(* receive buffer holds bytes lo+1 .. hi, of which off are consumed, and a *)
(* payload is a sequence of intervals <<first, last>> of bytes.            *)
(* The stages of Process are modelled in Protection, logins in Sessions.   *)
(***************************************************************************)
EXTENDS Integers, Sequences, FiniteSets, SequencesExt, FiniteSetsExt, TLC

CONSTANTS Conns,
          Scenes,        \* [ws, proxy, async, shard, bound, events, script]: transport and
                         \* configuration, whether clients have logged in, which of "close",
                         \* "timeout" and "stop" may happen, and what each client sends
          MaxFrame, MaxFrameBuf, MaxHandshake,
          QueueSize,     \* the tasks one shard's channel holds
          Buffers,       \* inbound buffers; bounds how many exist
          None

VARIABLES scene,
          conn,   \* the state of each connection, on both sides of its event loop
          loop,   \* the connection whose frames the event loop is parsing
          pool    \* the worker pool

vars == <<scene, conn, loop, pool>>

Shards == {scene.shard[c] : c \in Conns}

-----------------------------------------------------------------------------
(* Frames and their bytes.                                                 *)

\* EncodeWSFrame: the length bytes of a header; clients follow the same format.
LengthBytes(n) ==
  IF n < 126 THEN <<n>>
  ELSE IF n <= 65535 THEN <<126, n \div 256, n % 256>>
  ELSE <<127, 0, 0, 0, 0>> \o [i \in 1..4 |-> (n \div 256^(4 - i)) % 256]

\* parseWebSocketFrame: the length those bytes stand for.
ParseLength(b) ==
  CASE b[1] = 126 -> 256 * b[2] + b[3]
    [] b[1] = 127 -> FoldLeft(LAMBDA n, d : 256 * n + d, 0, SubSeq(b, 2, 9))
    [] OTHER -> b[1]

\* Bytes before the payload, and those of them that give the length.
LenHead(f) == IF f.kind = "ws" THEN 1 + Len(LengthBytes(f.len)) ELSE 4
HeadSize(f) == LenHead(f) + (IF f.masked THEN 4 ELSE 0)
Size(f) == f.len + (IF f.kind \in {"tcp", "ws"} THEN HeadSize(f) ELSE 0)

Sum(s) == FoldLeft(LAMBDA n, m : n + m, 0, s)

\* Frames, each with the number of bytes before it.
Script(frames) ==
  [i \in DOMAIN frames |-> frames[i] @@ [at |-> Sum([j \in 1..(i - 1) |-> Size(frames[j])])]]

Start(c, i) == scene.script[c][i].at
End(c, i) == Start(c, i) + Size(scene.script[c][i])

\* What a parser reads at byte p+1: a frame's header, or bytes of something else.
Garbage == [kind |-> "garbage", len |-> 1000000, op |-> "none", fin |-> TRUE, masked |-> TRUE,
            cmd |-> "none"]
HeaderAt(c, p) ==
  LET at == {i \in DOMAIN scene.script[c] : Start(c, i) = p}
  IN  IF at = {} THEN Garbage ELSE
      LET f == scene.script[c][Min(at)]
      IN  IF f.kind = (IF scene.ws THEN "ws" ELSE "tcp") THEN f ELSE Garbage

\* Where chunks may end: next to every border inside and between frames.
Cuts(c) ==
  LET borders == UNION {{Start(c, i), Start(c, i) + 2, End(c, i)} \cup
                        {Start(c, i) + LenHead(scene.script[c][i]),
                         Start(c, i) + HeadSize(scene.script[c][i])} :
                        i \in DOMAIN scene.script[c]}
  IN  {p \in UNION {{b - 1, b, b + 1} : b \in borders} : p <= End(c, Len(scene.script[c]))}

-----------------------------------------------------------------------------
Never == 1000000

NewConn == [sock |-> "new", rx |-> 0, lo |-> 0, hi |-> 0, off |-> 0, frag |-> <<>>,
            fragging |-> FALSE, ws |-> "handshake", proxied |-> FALSE, known |-> FALSE,
            got |-> <<>>, fwd |-> <<>>, why |-> "none", stop |-> Never,
            pending |-> 0, sent |-> FALSE, retried |-> FALSE]

\* NewPipelineWorkerPool: one bounded channel and one worker per shard.
Init ==
  /\ scene \in Scenes
  /\ conn = [c \in Conns |-> NewConn]
  /\ loop = None
  /\ pool = [queue |-> [w \in Shards |-> <<>>], run |-> [w \in Shards |-> None],
             free |-> Buffers, mem |-> [b \in Buffers |-> <<>>], stopped |-> FALSE,
             submitted |-> 0, dropped |-> 0, done |-> 0]

\* OnOpen: the manager may refuse (see Admission); a WebSocket connection is
\* registered before its handshake.
OnOpen(c) ==
  /\ loop = None /\ conn[c].sock = "new" /\ scene.script[c] # <<>>
  /\ \/ conn' = [conn EXCEPT ![c].sock = "closed"]
     \/ conn' = [conn EXCEPT ![c].sock = "open", ![c].known = TRUE]
  /\ UNCHANGED <<scene, loop, pool>>

\* A handler returns gnet.Close: no more traffic, OnClose comes next.
Shut(r, why) == [r EXCEPT !.sock = "shut", !.why = why]

\* notifyLogicOffline: in the background, unless it was already delivered.
NotifyOffline(r) == IF scene.bound /\ r.known /\ ~r.sent THEN [r EXCEPT !.pending = @ + 1] ELSE r

\* The background goroutine: SendMessage succeeds or fails.
OfflineSent(c) ==
  /\ conn[c].pending > 0
  /\ \E ok \in BOOLEAN :
       conn' = [conn EXCEPT ![c].pending = @ - 1, ![c].sent = @ \/ ok]
  /\ UNCHANGED <<scene, loop, pool>>

\* OnClose, when the peer is gone, a handler said so or Close was called.
OnClose(c) ==
  /\ loop = None
  /\ conn[c].sock \in {"closing", "shut"} \/ (conn[c].sock = "open" /\ "close" \in scene.events)
  /\ conn' = [conn EXCEPT ![c] = [NotifyOffline(@) EXCEPT !.sock = "closed", !.ws = "closed",
                                    !.retried = conn[c].known, !.known = FALSE]]
  /\ UNCHANGED <<scene, loop, pool>>

\* checkWebSocketConnections finds the client silent for too long.
HeartbeatTimeout(c) ==
  /\ scene.ws /\ "timeout" \in scene.events
  /\ conn[c].sock \in {"open", "closing", "shut"} /\ conn[c].ws # "closed"
  /\ conn' = [conn EXCEPT ![c] = [NotifyOffline(@) EXCEPT !.known = FALSE,
                 !.stop = IF @ = Never THEN conn[c].rx ELSE @,
                 !.sock = IF @ = "open" THEN "closing" ELSE @]]
  /\ UNCHANGED <<scene, loop, pool>>

-----------------------------------------------------------------------------
(* OnTraffic: a chunk joins the buffer.                                    *)

Pending(r) == r.hi - r.lo - r.off

\* parseProxyProtocolV1, once per connection: the header goes only when the
\* first chunk holds all of it.
StripProxy(c, r, n) ==
  LET first == scene.script[c][1]
      whole == scene.proxy /\ ~r.proxied /\ first.kind = "proxy" /\ r.rx = 0 /\ n >= first.len
  IN  [r EXCEPT !.proxied = scene.proxy,
                !.lo = IF whole THEN first.len ELSE @, !.hi = IF whole THEN first.len ELSE @]

\* The consumed prefix is dropped, the chunk is appended.
AppendChunk(r, n) == [r EXCEPT !.lo = @ + r.off, !.off = 0, !.hi = n, !.rx = n]

\* feedFrames, up to its loop.
ReadTCP(c, n) ==
  /\ ~scene.ws
  /\ LET r == StripProxy(c, conn[c], n) IN
     IF Pending(r) + (n - r.hi) > MaxFrameBuf
     THEN /\ conn' = [conn EXCEPT ![c] = Shut([r EXCEPT !.rx = n], "overflow")]
          /\ loop' = None
     ELSE /\ conn' = [conn EXCEPT ![c] = AppendChunk(r, n)]
          /\ loop' = c

\* handleWebSocketHandshake: refused, or open for frames.
Handshake(r, request) ==
  IF request.cmd # "upgrade" THEN Shut(r, "handshake")
  ELSE [r EXCEPT !.ws = "open", !.lo = request.len]

\* handleWebSocketMessage before the upgrade: wait for the whole request; what
\* follows it is frames.
ReadHandshake(c, n) ==
  /\ scene.ws /\ conn[c].ws = "handshake"
  /\ LET r == AppendChunk(conn[c], n)
         request == scene.script[c][1]
     IN  \/ /\ Pending(r) > MaxHandshake
            /\ conn' = [conn EXCEPT ![c] = Shut([r EXCEPT !.rx = n], "overflow")]
            /\ loop' = None
         \/ /\ Pending(r) <= MaxHandshake /\ n < request.len
            /\ conn' = [conn EXCEPT ![c] = r]
            /\ loop' = None
         \/ /\ Pending(r) <= MaxHandshake /\ n >= request.len
            /\ conn' = [conn EXCEPT ![c] = Handshake(r, request)]
            /\ loop' = IF request.cmd # "upgrade" \/ n = request.len THEN None ELSE c

\* handleWebSocketMessage after it.
ReadWS(c, n) ==
  /\ scene.ws /\ conn[c].ws # "handshake"
  /\ LET r == AppendChunk(conn[c], n) IN
     IF Pending(r) > MaxFrameBuf
     THEN conn' = [conn EXCEPT ![c] = Shut(r, "overflow")] /\ loop' = None
     ELSE conn' = [conn EXCEPT ![c] = r] /\ loop' = c

OnTraffic(c) ==
  /\ loop = None /\ conn[c].sock \in {"open", "closing"}
  /\ \E n \in Cuts(c) : n > conn[c].rx /\ (ReadTCP(c, n) \/ ReadHandshake(c, n) \/ ReadWS(c, n))
  /\ UNCHANGED <<scene, pool>>

-----------------------------------------------------------------------------
(* Messages: decoded, then handled here or given to a worker.              *)

Return(c, r) == /\ conn' = [conn EXCEPT ![c] = r]
                /\ loop' = IF r.sock = "shut" THEN None ELSE c

\* Submit, SubmitWS: a copy in a pooled buffer, dropped when the channel is
\* full; sending on a closed channel panics, which closes the connection.
Submit(c, r, payload) ==
  \/ /\ pool.stopped
     /\ Return(c, Shut(r, "panic"))
     /\ UNCHANGED pool
  \/ /\ ~pool.stopped /\ Len(pool.queue[scene.shard[c]]) >= QueueSize
     /\ Return(c, r)
     /\ pool' = [pool EXCEPT !.submitted = @ + 1, !.dropped = @ + 1]
  \/ /\ ~pool.stopped /\ Len(pool.queue[scene.shard[c]]) < QueueSize /\ pool.free # {}
     /\ Return(c, r)
     /\ LET b == CHOOSE b \in pool.free : TRUE
        IN  pool' = [pool EXCEPT !.submitted = @ + 1, !.free = @ \ {b}, !.mem[b] = payload,
              !.queue[scene.shard[c]] = Append(@, [conn |-> c, buf |-> b])]

\* What Process makes of a message: forwarded when the session is still
\* known, dropped by a stage, or refused with Close.
Outcomes(c, r, payload) ==
  {r, [r EXCEPT !.sock = IF @ = "open" THEN "closing" ELSE @]} \cup
  (IF r.known THEN {[r EXCEPT !.fwd = Append(@, payload)]} ELSE {})

\* A message for a worker, or for Process in the event loop; there only the TCP
\* handler heeds a refusal.
AppMessage(c, r, payload) ==
  \/ scene.async /\ Submit(c, r, payload)
  \/ /\ ~scene.async
     /\ \E o \in Outcomes(c, r, payload) :
          Return(c, IF o.sock = r.sock THEN o ELSE IF scene.ws THEN r ELSE Shut(r, "refused"))
     /\ UNCHANGED pool

\* handleLogoutGate, handleWSLogoutGate: notify, then SendThenClose.
Logout(c, r) ==
  /\ Return(c, [NotifyOffline(r) EXCEPT !.sock = "closing", !.ws = "closing"])
  /\ UNCHANGED pool

\* A payload that does not decode: TCP closes, WebSocket answers an error, which
\* an open connection survives.
Undecodable(c, r) ==
  /\ Return(c, IF scene.ws /\ r.ws = "open" THEN r ELSE Shut(r, "undecodable"))
  /\ UNCHANGED pool

\* handleTCPRequest, handleWebSocketDataFrame; a login goes on in Sessions.
Handle(c, r0, payload, cmd) ==
  LET r == [r0 EXCEPT !.got = Append(@, payload)] IN
  \/ cmd = "app" /\ AppMessage(c, r, payload)
  \/ cmd = "login" /\ Return(c, r) /\ UNCHANGED pool
  \/ cmd = "logout" /\ Logout(c, r)
  \/ cmd = "bad" /\ Undecodable(c, r)

-----------------------------------------------------------------------------
(* The parsing loops, one frame a step.                                    *)

Rest == loop' = None /\ UNCHANGED <<conn, pool>>

\* Mutant: a frame of the longest length is refused.
ParseTCPStrict(c) ==
  LET r == conn[c]
      p == r.lo + r.off
      f == HeaderAt(c, p)
  IN  \/ Pending(r) < 4 /\ Rest
      \/ /\ Pending(r) >= 4 /\ f.len \notin 1..(MaxFrame - 1)
         /\ Return(c, Shut(r, "frame")) /\ UNCHANGED pool
      \/ Pending(r) >= 4 /\ f.len \in 1..(MaxFrame - 1) /\ Pending(r) < 4 + f.len /\ Rest
      \/ /\ Pending(r) >= 4 + f.len /\ f.len \in 1..(MaxFrame - 1)
         /\ Handle(c, [r EXCEPT !.off = @ + 4 + f.len], <<<<p + 5, p + 4 + f.len>>>>, f.cmd)

\* feedFrames, one turn of its loop.
ParseTCP(c) ==
  LET r == conn[c]
      p == r.lo + r.off
      f == HeaderAt(c, p)
  IN  \/ Pending(r) < 4 /\ Rest
      \/ /\ Pending(r) >= 4 /\ f.len \notin 1..MaxFrame
         /\ Return(c, Shut(r, "frame")) /\ UNCHANGED pool
      \/ Pending(r) >= 4 /\ f.len \in 1..MaxFrame /\ Pending(r) < 4 + f.len /\ Rest
      \/ /\ Pending(r) >= 4 + f.len /\ f.len \in 1..MaxFrame
         /\ Handle(c, [r EXCEPT !.off = @ + 4 + f.len], <<<<p + 5, p + 4 + f.len>>>>, f.cmd)

FragLen(frag) == Sum([i \in DOMAIN frag |-> frag[i][2] - frag[i][1] + 1])

\* Mutant: the connection is left for OnClose to remove.
CloseFrameKeeping(r) == [NotifyOffline(r) EXCEPT !.ws = "closed",
                    !.stop = IF @ = Never THEN r.lo + r.off ELSE @,
                    !.sock = IF @ = "open" THEN "closing" ELSE @]

\* handleWebSocketCloseFrame.
CloseFrame(r) == [NotifyOffline(r) EXCEPT !.known = FALSE, !.ws = "closed",
                    !.stop = IF @ = Never THEN r.lo + r.off ELSE @,
                    !.sock = IF @ = "open" THEN "closing" ELSE @]

\* processWebSocketFrame.
ProcessFrame(c, r, op, payload, cmd) ==
  \/ op = "close" /\ Return(c, CloseFrame(r)) /\ UNCHANGED pool
  \/ op \in {"ping", "pong"} /\ Return(c, r) /\ UNCHANGED pool
  \/ op \in {"text", "binary"} /\ Handle(c, r, payload, cmd)

\* Mutant: a fragment overwrites the ones before it.
AssembledReset(r, body) == <<body>>

\* The fragments with one more.
Assembled(r, body) == Append(r.frag, body)

\* Reassembly: fragments are collected, a message in one frame is handled.
Fragment(c, r, f, body) ==
  \/ /\ f.op = "continuation"
     /\ ~r.fragging \/ FragLen(Assembled(r, body)) > MaxFrame
     /\ Return(c, Shut(r, "frame")) /\ UNCHANGED pool
  \/ /\ f.op = "continuation" /\ r.fragging /\ FragLen(Assembled(r, body)) <= MaxFrame
     /\ IF f.fin
        THEN ProcessFrame(c, [r EXCEPT !.frag = <<>>, !.fragging = FALSE], "binary",
                          Assembled(r, body), f.cmd)
        ELSE Return(c, [r EXCEPT !.frag = Assembled(r, body)]) /\ UNCHANGED pool
  \/ /\ f.op # "continuation" /\ ~f.fin
     /\ Return(c, [r EXCEPT !.fragging = TRUE, !.frag = <<body>>]) /\ UNCHANGED pool
  \/ /\ f.op # "continuation" /\ f.fin
     /\ ProcessFrame(c, r, f.op, <<body>>, f.cmd)

\* handleWebSocketMessage, one turn of its loop with parseWebSocketFrame.
ParseWS(c) ==
  LET r == conn[c]
      p == r.lo + r.off
      f == HeaderAt(c, p)
      length == ParseLength(LengthBytes(f.len))
      all == HeadSize(f) + length
  IN  \/ Pending(r) < LenHead(f) /\ Rest
      \/ Pending(r) >= LenHead(f) /\ length <= MaxFrame /\ Pending(r) < all /\ Rest
      \/ /\ Pending(r) >= LenHead(f)
         /\ length > MaxFrame \/ (Pending(r) >= all /\ ~f.masked)
         /\ Return(c, Shut(r, "frame")) /\ UNCHANGED pool
      \/ /\ Pending(r) >= all /\ length <= MaxFrame /\ f.masked
         /\ Fragment(c, [r EXCEPT !.off = @ + all], f, <<p + HeadSize(f) + 1, p + all>>)

Parse(c) == /\ loop = c
            /\ IF scene.ws THEN ParseWS(c) ELSE ParseTCP(c)
            /\ UNCHANGED scene

-----------------------------------------------------------------------------
(* The workers.                                                            *)

\* Mutant: a worker serves its newest task first.
TakeTaskNewest(w) ==
  /\ pool.run[w] = None /\ pool.queue[w] # <<>>
  /\ pool' = [pool EXCEPT !.run[w] = Last(pool.queue[w]), !.queue[w] = Front(@)]
  /\ UNCHANGED <<scene, conn, loop>>

\* runWorker takes the next task of its shard.
TakeTask(w) ==
  /\ pool.run[w] = None /\ pool.queue[w] # <<>>
  /\ pool' = [pool EXCEPT !.run[w] = Head(pool.queue[w]), !.queue[w] = Tail(@)]
  /\ UNCHANGED <<scene, conn, loop>>

\* processTask, processWSTask, with applyAsyncResult and the buffer's return.
ProcessTask(w) ==
  /\ pool.run[w] # None
  /\ LET c == pool.run[w].conn
         b == pool.run[w].buf
     IN  /\ \E o \in Outcomes(c, conn[c], pool.mem[b]) : conn' = [conn EXCEPT ![c] = o]
         /\ pool' = [pool EXCEPT !.run[w] = None, !.free = @ \cup {b}, !.mem[b] = <<>>,
                                 !.done = @ + 1]
  /\ UNCHANGED <<scene, loop>>

\* Stop closes the channels; tasks already in them are still served.
StopPool ==
  /\ scene.async /\ "stop" \in scene.events /\ ~pool.stopped
  /\ pool' = [pool EXCEPT !.stopped = TRUE]
  /\ UNCHANGED <<scene, conn, loop>>

Worker(w) == TakeTask(w) \/ ProcessTask(w)

EventLoop == \E c \in Conns : Parse(c)

Next ==
  \/ \E c \in Conns : \/ OnOpen(c) \/ OnTraffic(c) \/ OnClose(c) \/ HeartbeatTimeout(c)
                      \/ OfflineSent(c)
  \/ EventLoop
  \/ \E w \in Shards : Worker(w)
  \/ StopPool

\* The event loop does not stop within a handler, and workers run.
Spec == /\ Init /\ [][Next]_vars /\ WF_vars(EventLoop)
        /\ WF_vars(\E w \in Shards : Worker(w))

-----------------------------------------------------------------------------
(* What a script says, independently of chunks and buffers.                *)

Body(c, i) == <<Start(c, i) + HeadSize(scene.script[c][i]) + 1, End(c, i)>>

IsData(f) == f.kind = "tcp" \/ f.op \in {"text", "binary", "continuation"}

\* The frames of the message that ends with frame i.
Parts(c, i) ==
  LET s == scene.script[c]
      heads == {j \in 1..(i - 1) : IsData(s[j]) /\ s[j].op # "continuation" /\ ~s[j].fin}
      first == IF s[i].op = "continuation" /\ heads # {} THEN Max(heads) ELSE i
  IN  {j \in first..i : IsData(s[j])}

Message(c, i) ==
  LET parts == SetToSortSeq(Parts(c, i), <) IN [j \in DOMAIN parts |-> Body(c, parts[j])]

\* The messages of the first n bytes.
Expected(c, n) ==
  LET ends == SetToSortSeq({i \in DOMAIN scene.script[c] :
                 IsData(scene.script[c][i]) /\ scene.script[c][i].fin /\ End(c, i) <= n}, <)
  IN  [j \in DOMAIN ends |-> Message(c, ends[j])]

\* Frame i must be refused, and enough of it has arrived to tell.
Illegal(c, i, n) ==
  LET f == scene.script[c][i] IN
  \/ f.kind = "tcp" /\ f.len \notin 1..MaxFrame /\ n >= Start(c, i) + 4
  \/ f.kind = "ws" /\ f.len > MaxFrame /\ n >= Start(c, i) + LenHead(f)
  \/ /\ f.kind = "ws" /\ n >= End(c, i)
     /\ \/ ~f.masked
        \/ f.op = "continuation" /\ Cardinality(Parts(c, i)) = 1
        \/ f.op = "continuation" /\ FragLen(Message(c, i)) > MaxFrame

AtRest(c) == loop # c /\ conn[c].sock \in {"open", "closing"} /\ conn[c].ws # "handshake"

-----------------------------------------------------------------------------
TypeOK ==
  /\ scene \in Scenes /\ loop \in Conns \cup {None}
  /\ \A c \in Conns :
       /\ conn[c].sock \in {"new", "open", "closing", "shut", "closed"}
       /\ conn[c].ws \in {"handshake", "open", "closing", "closed"}
       /\ conn[c].sock # "shut" => Pending(conn[c]) \in 0..Max({MaxFrameBuf, MaxHandshake})
       /\ FragLen(conn[c].frag) <= MaxFrame
  /\ \A w \in Shards : Len(pool.queue[w]) <= QueueSize

\* However the bytes of a connection are cut into chunks, the messages that
\* have been handled are exactly the ones the bytes received so far contain:
\* the reused buffer (handlers.go:250), the reassembly of fragments around
\* control frames and the length formats lose, repeat and misplace nothing.
FramesExact ==
  \A c \in Conns : AtRest(c) => conn[c].got = Expected(c, conn[c].rx)

\* A frame that must be refused closes the connection, as soon as the parser
\* can tell; a connection is closed for its framing only because of one, or of
\* a PROXY header that arrives in pieces.
RefusedExactly ==
  \A c \in Conns :
    /\ AtRest(c) => \A i \in DOMAIN scene.script[c] : ~Illegal(c, i, conn[c].rx)
    /\ conn[c].why = "frame" =>
         \/ \E i \in DOMAIN scene.script[c] : Illegal(c, i, conn[c].rx)
         \/ ~scene.ws /\ scene.script[c][1].kind = "proxy" /\ conn[c].lo = 0

\* The workers forward the messages of a connection intact, in the order they
\* were received and none twice, although buffers are pooled and tasks of
\* several connections share a worker (pipeline.go:457).
ForwardedInOrder ==
  \A c \in Conns :
    LET fwd == conn[c].fwd IN
    /\ \A i \in DOMAIN fwd : \E j \in DOMAIN conn[c].got : conn[c].got[j] = fwd[i]
    /\ \A i \in 1..(Len(fwd) - 1) : fwd[i][1][1] < fwd[i + 1][1][1]

\* Nothing a client sends after its close frame, or after it was given up for
\* silent, is forwarded, although the parsing loop goes on over what follows in
\* the buffer (websocket.go:362) and workers run behind.
NothingAfterClose ==
  \A c \in Conns : \A i \in DOMAIN conn[c].fwd : conn[c].fwd[i][1][1] <= conn[c].stop

\* Every task submitted was dropped, is queued, runs or is done, and owns its
\* buffer alone.
TasksAccounted ==
  LET queued == FoldSet(LAMBDA w, n : n + Len(pool.queue[w]), 0, Shards)
      running == Cardinality({w \in Shards : pool.run[w] # None})
  IN  /\ pool.submitted = pool.dropped + queued + running + pool.done
      /\ Cardinality(pool.free) + queued + running = Cardinality(Buffers)

\* Every accepted task is served, also after Stop.
TasksServed ==
  <>[](\A w \in Shards : pool.queue[w] = <<>> /\ pool.run[w] = None)

\* notifyLogicOffline (login.go:269): a notification that could not be enqueued
\* is left for OnClose to retry.
OfflineRetried ==
  \A c \in Conns : conn[c].sock = "closed" /\ conn[c].pending = 0 /\ scene.bound /\ conn[c].rx > 0
                     => conn[c].sent \/ conn[c].retried
=============================================================================
