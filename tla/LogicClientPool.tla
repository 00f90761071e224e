--------------------------- MODULE LogicClientPool ---------------------------
(***************************************************************************)
(* The table of logic servers (backend/pool.go): the clients that Attach   *)
(* creates, replaces when a server comes back with another number of       *)
(* shards, and Close ends; the handlers of the streams that servers dial;  *)
(* and the client a connection caches for its messages (pipeline.go).      *)
(*                                                                         *)
(* A server dials session after session, one stream per shard, and dials   *)
(* the next when the last has ended (logic/dialer.go).  attachShard after  *)
(* its check of closing, and detachShard, are one step here: LogicClient   *)
(* has them operation by operation.                                        *)
(***************************************************************************)
EXTENDS Integers, Sequences, FiniteSets

CONSTANTS Servers,
          Home,       \* the server of the connection whose messages are forwarded
          Scenes      \* [dials, close, forward]: the shard counts of the sessions each
                      \* server dials, whether the pool is closed and messages forwarded

ASSUME PoolAssumption ==
  /\ IsFiniteSet(Servers) /\ Home \in Servers
  /\ \A s \in Scenes : DOMAIN s.dials = Servers /\ \A v \in Servers : s.dials[v] \in Seq(Nat \ {0})

VARIABLES scene,
          dialed,     \* how many sessions each server has dialed
          broken,     \* the sessions that have ended
          handler,    \* the OnData handler of each stream
          clients,    \* every LogicClient created so far
          table,      \* pool.clients: a server's client by number, 0 for none
          fast,       \* fastClient, 0 for nil
          pool,       \* "open"; "closing" while Close holds the lock; "closed"
          cache,      \* the connection's cached client, 0 for nil
          overtaken   \* history: a stream was attached after one of a later session

vars == <<scene, dialed, broken, handler, clients, table, fast, pool, cache, overtaken>>
linkVars == <<dialed, broken, handler>>
poolVars == <<table, fast, pool>>

\* Sessions are <<server, number>>, streams <<server, number, shard>>.
Sessions == UNION {{<<v, n>> : n \in DOMAIN scene.dials[v]} : v \in Servers}
Streams == UNION {{<<s[1], s[2], k>> : k \in 1..scene.dials[s[1]][s[2]]} : s \in Sessions}
Session(x) == <<x[1], x[2]>>
Count(x) == scene.dials[x[1]][x[2]]

At(at) == [at |-> at, client |-> 0, hold |-> 0]
Done == At("done")

\* NewLogicClientPool; nobody has dialed.
Init ==
  /\ scene \in Scenes
  /\ dialed = [v \in Servers |-> 0] /\ broken = {}
  /\ handler = [x \in Streams |-> At("none")]
  /\ clients = <<>> /\ table = [v \in Servers |-> 0]
  /\ fast = 0 /\ pool = "open" /\ cache = 0
  /\ overtaken = FALSE

Closing(i) == clients[i].close \in {"locked", "done"}

-----------------------------------------------------------------------------
(* The logic servers.                                                      *)

\* runSession: a stream for every shard; OnData starts a handler for each.
Dial(v) ==
  /\ dialed[v] < Len(scene.dials[v])
  /\ dialed[v] > 0 => <<v, dialed[v]>> \in broken
  /\ dialed' = [dialed EXCEPT ![v] = @ + 1]
  /\ handler' = [x \in Streams |-> IF Session(x) = <<v, dialed[v] + 1>>
                                   THEN At("dialed") ELSE handler[x]]
  /\ UNCHANGED <<scene, broken, clients, poolVars, cache, overtaken>>

\* The network, or the server itself, goes down: all streams of a session end.
Break(v) ==
  /\ dialed[v] > 0 /\ <<v, dialed[v]>> \notin broken
  /\ broken' = broken \cup {<<v, dialed[v]>>}
  /\ UNCHANGED <<scene, dialed, handler, clients, poolVars, cache, overtaken>>

\* runSession: when one stream has ended the server ends the session.
SessionEnds(v) ==
  /\ \E x \in Streams : Session(x) = <<v, dialed[v]>> /\ handler[x].at = "done"
  /\ Break(v)

-----------------------------------------------------------------------------
(* Attach.                                                                 *)

\* Streams of later sessions of the same server that got further than x.
Overtakes(x) ==
  \E y \in Streams : y[1] = x[1] /\ y[2] > x[2] /\ handler[y].at \notin {"none", "dialed"}

NewLogicClient(x) ==
  [server |-> x[1], shards |-> Count(x), bound |-> [k \in 1..Count(x) |-> 0], attached |-> 0,
   connected |-> FALSE, close |-> "no", revived |-> FALSE]

\* The only client of the table, if there is just one.
updateFastClient(t, f) ==
  LET used == {v \in Servers : t[v] # 0}
  IN  IF Cardinality(used) = 1 THEN t[CHOOSE v \in used : TRUE] ELSE 0

\* Mutant: the client that is replaced is only forgotten.
RetireForgetting(old) == clients

\* stale: a goroutine will close it.
Retire(old) ==
  IF old = 0 THEN clients ELSE [clients EXCEPT ![old].close = "due"]

Fits(i, x) == i # 0 /\ clients[i].shards = Count(x)

\* Under the lock: the server's client, or a new one in its place.
AttachLocked(x) ==
  LET v == x[1]  old == table[v]  new == Len(clients) + 1
      t == [table EXCEPT ![v] = new]
  IN  /\ handler[x].at = "dialed" /\ pool # "closing"
      /\ overtaken' = (overtaken \/ Overtakes(x))
      /\ IF pool = "closed"
         THEN /\ handler' = [handler EXCEPT ![x] = Done]
              /\ UNCHANGED <<clients, table, fast>>
         ELSE IF Fits(old, x)
         THEN /\ handler' = [handler EXCEPT ![x].at = "check", ![x].client = old]
              /\ UNCHANGED <<clients, table, fast>>
         ELSE /\ handler' = [handler EXCEPT ![x].at = "check", ![x].client = new]
              /\ clients' = Append(Retire(old), NewLogicClient(x))
              /\ table' = t /\ fast' = updateFastClient(t, fast)
      /\ UNCHANGED <<scene, dialed, broken, pool, cache>>

\* attachShard reads closing, and refuses a shard the client does not have.
CheckClosing(x) ==
  LET i == handler[x].client
  IN  /\ handler[x].at = "check"
      /\ handler' = [handler EXCEPT ![x] =
           IF Closing(i) \/ x[3] > clients[i].shards THEN Done ELSE [@ EXCEPT !.at = "bind"]]
      /\ UNCHANGED <<scene, dialed, broken, clients, poolVars, cache, overtaken>>

\* attachShard binds the stream, whatever was bound, and may find all shards there.
Bind(x) ==
  LET i == handler[x].client  c == clients[i]
      n == IF c.bound[x[3]] = 0 THEN c.attached + 1 ELSE c.attached
  IN  /\ handler[x].at = "bind"
      /\ handler' = [handler EXCEPT ![x].at = "receive"]
      /\ clients' = [clients EXCEPT ![i] =
           [c EXCEPT !.bound[x[3]] = x[2], !.attached = n,
                     !.connected = @ \/ n >= c.shards, !.revived = @ \/ Closing(i)]]
      /\ overtaken' = (overtaken \/ Overtakes(x))
      /\ UNCHANGED <<scene, dialed, broken, poolVars, cache>>

-----------------------------------------------------------------------------
(* The handler receives, and detaches its stream at the end.               *)

\* receiveMessages takes the stream it finds in the shard, and returns at once
\* if there is none or the client has been stopped.
ReceiveStart(x) ==
  LET i == handler[x].client  h == clients[i].bound[x[3]]
  IN  /\ handler[x].at = "receive"
      /\ handler' = [handler EXCEPT ![x].at = IF h = 0 \/ Closing(i) THEN "detach" ELSE "recv",
                                     ![x].hold = h]
      /\ UNCHANGED <<scene, dialed, broken, clients, poolVars, cache, overtaken>>

\* RecvMsg fails.
ReceiveFails(x) ==
  /\ handler[x].at = "recv" /\ <<x[1], handler[x].hold>> \in broken
  /\ handler' = [handler EXCEPT ![x].at = "detach"]
  /\ UNCHANGED <<scene, dialed, broken, clients, poolVars, cache, overtaken>>

\* A message arrives on a stopped client and the loop sees stopCh; none need come.
ReceiveStopped(x) ==
  /\ handler[x].at = "recv" /\ Closing(handler[x].client)
  /\ handler' = [handler EXCEPT ![x].at = "detach"]
  /\ UNCHANGED <<scene, dialed, broken, clients, poolVars, cache, overtaken>>

\* Mutant: any stream that is bound is detached.
DetachedAny(i, k, n) ==
  LET c == clients[i]  m == c.attached - 1
  IN  IF c.bound[k] = 0 THEN clients
      ELSE [clients EXCEPT ![i] = [c EXCEPT !.bound[k] = 0, !.attached = m, !.connected = FALSE]]

\* The clients after detachShard(k, n) on client i: only the bound stream counts.
Detached(i, k, n) ==
  LET c == clients[i]  m == c.attached - 1
  IN  IF c.bound[k] # n THEN clients
      ELSE IF Closing(i) THEN [clients EXCEPT ![i].bound[k] = 0]
      ELSE [clients EXCEPT ![i] =
              [c EXCEPT !.bound[k] = 0, !.attached = m,
                        !.connected = @ /\ ~(m \in 0..(c.shards - 1))]]

Detach(x) ==
  /\ handler[x].at = "detach"
  /\ handler' = [handler EXCEPT ![x] = Done]
  /\ clients' = Detached(handler[x].client, x[3], x[2])
  /\ UNCHANGED <<scene, dialed, broken, poolVars, cache, overtaken>>

\* The send loop of a shard fails on the stream and detaches it.
SendFails(i, k) ==
  LET c == clients[i]
  IN  /\ ~Closing(i) /\ c.bound[k] # 0 /\ <<c.server, c.bound[k]>> \in broken
      /\ clients' = Detached(i, k, c.bound[k])
      /\ UNCHANGED <<scene, linkVars, poolVars, cache, overtaken>>

-----------------------------------------------------------------------------
(* Closing clients.                                                        *)

\* LogicClient.Close: closing and the stop of the shards under the client's lock ...
CloseLocked(i) ==
  /\ \/ clients[i].close = "due"
     \/ clients[i].close = "no" /\ pool = "closing" /\ table[clients[i].server] = i
  /\ clients' = [clients EXCEPT ![i].close = "locked"]
  /\ UNCHANGED <<scene, linkVars, poolVars, cache, overtaken>>

\* ... then the state.  The pool's Close deletes the client from the table.
CloseSetState(i) ==
  /\ clients[i].close = "locked"
  /\ clients' = [clients EXCEPT ![i].close = "done", ![i].connected = FALSE]
  /\ table' = [v \in Servers |-> IF table[v] = i THEN 0 ELSE table[v]]
  /\ UNCHANGED <<scene, linkVars, fast, pool, cache, overtaken>>

\* LogicClientPool.Close takes the lock and goes through the table; fastClient stays.
CloseBegin ==
  /\ pool = "open" /\ scene.close
  /\ pool' = "closing"
  /\ UNCHANGED <<scene, linkVars, clients, table, fast, cache, overtaken>>

CloseEnd ==
  /\ pool = "closing" /\ \A v \in Servers : table[v] = 0
  /\ pool' = "closed"
  /\ UNCHANGED <<scene, linkVars, clients, table, fast, cache, overtaken>>

-----------------------------------------------------------------------------
(* Forwarding.                                                             *)

\* GetClient.
GetClient(v) == IF table[v] # 0 /\ clients[table[v]].connected THEN table[v] ELSE 0

\* IsConnected: the fast path, or a walk through the table.
IsConnected ==
  IF fast # 0 THEN clients[fast].connected ELSE \E v \in Servers : GetClient(v) # 0

\* Mutant: the cached client is used without a look at its state.
ChosenStale == IF cache # 0 THEN cache ELSE GetClient(Home)

\* Process: the cached client while it is connected, else the one of the table.
Chosen == IF cache # 0 /\ clients[cache].connected THEN cache ELSE GetClient(Home)

Forward ==
  /\ scene.forward
  /\ pool # "closing" \/ (cache # 0 /\ clients[cache].connected)
  /\ Chosen # 0
  /\ cache' = Chosen
  /\ UNCHANGED <<scene, linkVars, clients, poolVars, overtaken>>

-----------------------------------------------------------------------------
Handler(x) ==
  AttachLocked(x) \/ CheckClosing(x) \/ Bind(x) \/ ReceiveStart(x) \/ ReceiveFails(x) \/ Detach(x)

Closer == CloseEnd \/ \E i \in DOMAIN clients : CloseLocked(i) \/ CloseSetState(i)

Next ==
  \/ \E v \in Servers : Dial(v) \/ Break(v)
  \/ \E x \in Streams : Handler(x) \/ ReceiveStopped(x)
  \/ \E i \in DOMAIN clients : \E k \in 1..clients[i].shards : SendFails(i, k)
  \/ CloseBegin \/ Closer
  \/ Forward

\* Goroutines that can run do, each for a bounded number of steps, and a server
\* notices that a stream has ended.  Nothing is assumed of the network, of
\* messages, of dials or of the pool's Close.
Fairness ==
  /\ WF_vars(\E x \in Streams : Handler(x))
  /\ WF_vars(Closer)
  /\ \A v \in Servers : WF_vars(SessionEnds(v))

Spec == Init /\ [][Next]_vars /\ Fairness

-----------------------------------------------------------------------------
TypeOK ==
  /\ scene \in Scenes /\ broken \subseteq Sessions
  /\ \A x \in Streams : handler[x].client \in 0..Len(clients)
  /\ \A i \in DOMAIN clients :
       /\ clients[i].attached \in Nat
       /\ \A k \in 1..clients[i].shards :
            clients[i].bound[k] # 0 => Count(<<clients[i].server, clients[i].bound[k]>>) = clients[i].shards
  /\ table \in [Servers -> 0..Len(clients)] /\ fast \in 0..Len(clients)

\* A client that is no longer in the table has been closed or is about to be,
\* so no replaced client stays open with the streams of its server
\* (pool.go:84), and none at all once Close has returned.
NoClientLeaks ==
  \A i \in DOMAIN clients : table[clients[i].server] # i => clients[i].close # "no"

\* Closes go to their end: again and again none is due or under way.
ReplacedIsClosed == []<>(\A i \in DOMAIN clients : clients[i].close \in {"no", "done"})

\* The message of a connection is never given to a client whose Close is over,
\* although the connection caches its client (pipeline.go:170), unless a stream
\* was attached to that client between Close and the check of closing.
ForwardsToOpen ==
  Chosen # 0 => clients[Chosen].close # "done" \/ clients[Chosen].revived

\* IsConnected's lock-free answer is the one of the table (pool.go:146), with
\* the same exception.
FastPathAgrees ==
  pool # "closing" =>
    \/ IsConnected <=> \E v \in Servers : GetClient(v) # 0
    \/ fast # 0 /\ clients[fast].revived

\* A server that dials, whatever it and its predecessors dialed before, ends
\* with every stream bound in the client the table has for it (pool.go:84: a
\* restart with another shard count), unless the session breaks, the pool is
\* closed, or the handler of an older session's stream came to Attach late.
Attached(v, n) ==
  /\ table[v] # 0 /\ clients[table[v]].shards = scene.dials[v][n]
  /\ \A k \in 1..scene.dials[v][n] : clients[table[v]].bound[k] = n
RestartAttaches ==
  \A v \in Servers :
    []<>(\/ dialed[v] = 0 \/ <<v, dialed[v]>> \in broken \/ pool # "open" \/ overtaken
         \/ Attached(v, dialed[v]))
=============================================================================
