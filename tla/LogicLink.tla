------------------------------ MODULE LogicLink ------------------------------
(***************************************************************************)
(* What a LogicClient promises the rest of the gateway about its link to   *)
(* one logic server: which stream every shard is bound to, the connection  *)
(* state readers see, the closing flag and the Flush goroutines started.   *)
(* LogicClient implements it; Forwarding takes it as its environment.      *)
(***************************************************************************)
EXTENDS Naturals

CONSTANTS Shards,    \* the stream shards of the client
          Streams,   \* the streams the logic server ever dials
          NoStream   \* the nil stream

ASSUME LinkAssumption == NoStream \notin Streams

VARIABLES stream,    \* StreamShard.stream of every shard
          state,     \* LogicClient.state
          closing,   \* LogicClient.closing
          flushes,   \* Flush goroutines started and not yet running
          broken,    \* streams the transport has torn down
          dialed     \* streams that have been bound to a shard

linkVars == <<stream, state, closing, flushes, broken, dialed>>

States == {"Disconnected", "Connected"}

LinkTypeOK ==
  /\ stream \in [Shards -> Streams \cup {NoStream}]
  /\ state \in States
  /\ closing \in BOOLEAN
  /\ flushes \in Nat
  /\ broken \subseteq Streams
  /\ dialed \subseteq Streams

Init ==
  /\ stream = [sh \in Shards |-> NoStream]
  /\ state = "Disconnected"
  /\ closing = FALSE
  /\ flushes = 0
  /\ broken = {}
  /\ dialed = {}

\* A stream is bound to a shard at most once, replacing what was there.
Bind(sh, s) ==
  /\ s \notin dialed
  /\ dialed' = dialed \cup {s}
  /\ stream' = [stream EXCEPT ![sh] = s]
  /\ UNCHANGED <<state, closing, flushes, broken>>

\* Only a dead stream is unbound, unless the client is closing.
Unbind(sh) ==
  /\ stream[sh] \in broken \/ closing
  /\ stream' = [stream EXCEPT ![sh] = NoStream]
  /\ UNCHANGED <<state, closing, flushes, broken, dialed>>

\* The link is announced as up by the handler of a stream it has bound;
\* queued messages get a Flush goroutine.
Up ==
  /\ dialed # {}
  /\ state' = "Connected"
  /\ flushes' = flushes + 1
  /\ UNCHANGED <<stream, closing, broken, dialed>>

Down ==
  /\ state' = "Disconnected"
  /\ UNCHANGED <<stream, closing, flushes, broken, dialed>>

\* The transport loses a stream.
Break(s) ==
  /\ broken' = broken \cup {s}
  /\ UNCHANGED <<stream, state, closing, flushes, dialed>>

\* A started Flush goroutine gets to run.
FlushRuns ==
  /\ flushes > 0
  /\ flushes' = flushes - 1
  /\ UNCHANGED <<stream, state, closing, broken, dialed>>

\* The client closes, once and for all.
BeginClose ==
  /\ ~closing
  /\ closing' = TRUE
  /\ UNCHANGED <<stream, state, flushes, broken, dialed>>

Next ==
  \/ \E sh \in Shards, s \in Streams : Bind(sh, s)
  \/ \E sh \in Shards : Unbind(sh)
  \/ \E s \in Streams : Break(s)
  \/ Up \/ Down \/ FlushRuns \/ BeginClose

Spec == Init /\ [][Next]_linkVars
=============================================================================
