------------------------ MODULE LogicClientPoolProofs ------------------------
(***************************************************************************)
(* For any servers, dials and shard counts: a client that has left the     *)
(* table is closed or about to be, the lock-free fast path answers as the  *)
(* table does, and no message is given to a client whose Close is over.    *)
(***************************************************************************)
EXTENDS LogicClientPool, FiniteSetTheorems, TLAPS

USE SMTT(30), ZenonT(30)

-----------------------------------------------------------------------------
(* The inductive invariant.                                                *)

Bounds == UNION {[1..n -> Nat] : n \in Nat}

Clients == [server : Servers, shards : Nat, bound : Bounds, attached : Int, connected : BOOLEAN,
            close : {"no", "due", "locked", "done"}, revived : BOOLEAN]

Working == {"check", "bind", "receive", "recv", "detach"}

HandlerType == [at : Working \cup {"none", "dialed", "done"}, client : Nat, hold : Nat]

\* A handler at work has a client, and past the check a shard of it.
Placed(x, h) ==
  /\ h.at \in Working => h.client \in DOMAIN clients
  /\ h.at \in Working \ {"check"} => x[3] \in 1..clients[h.client].shards

Types ==
  /\ scene \in Scenes
  /\ clients \in Seq(Clients)
  /\ \A i \in DOMAIN clients : clients[i].bound \in [1..clients[i].shards -> Nat]
  /\ handler \in [Streams -> HandlerType]
  /\ \A x \in Streams : Placed(x, handler[x])
  /\ table \in [Servers -> Nat]
  /\ \A v \in Servers : table[v] # 0 => table[v] \in DOMAIN clients /\ clients[table[v]].server = v
  /\ fast \in DOMAIN clients \cup {0} /\ cache \in DOMAIN clients \cup {0}
  /\ pool \in {"open", "closing", "closed"}

InTable(i) == table[clients[i].server] = i

\* A client leaves the table before its Close begins, or with its end when
\* the pool is closed; one whose Close is over is up only if revived.
Leaving ==
  /\ \A i \in DOMAIN clients :
       /\ clients[i].close \in {"due", "done"} => ~InTable(i)
       /\ clients[i].close = "locked" /\ InTable(i) => pool = "closing"
       /\ clients[i].close = "done" /\ clients[i].connected => clients[i].revived
  /\ pool = "closed" => \A v \in Servers : table[v] = 0

\* fastClient is the only client of an open pool; after Close, a closed one.
Fast ==
  /\ pool = "open" => fast = updateFastClient(table, fast)
  /\ fast # 0 => InTable(fast) \/ clients[fast].close = "done"

PoolInv == Types /\ NoClientLeaks /\ Leaving /\ Fast

-----------------------------------------------------------------------------
(* Streams and clients.                                                    *)

(* A stream is one of a server's, for a shard by number.                   *)
LEMMA StreamParts ==
  ASSUME scene \in Scenes, NEW x \in Streams
  PROVE  x[1] \in Servers /\ x[2] \in Nat \ {0} /\ x[3] \in Nat \ {0} /\ Count(x) \in Nat
<1>1. PICK s \in Sessions : x \in {<<s[1], s[2], k>> : k \in 1..scene.dials[s[1]][s[2]]}
  BY ZenonT(30) DEF Streams
<1>2. PICK v \in Servers : s \in {<<v, n>> : n \in DOMAIN scene.dials[v]}
  BY ZenonT(30) DEF Sessions
<1>3. PICK n \in DOMAIN scene.dials[v] : s = <<v, n>>
  BY <1>2, ZenonT(30)
<1>4. s[1] = v /\ s[2] = n
  BY <1>3, ZenonT(30)
<1>5. PICK k \in 1..scene.dials[v][n] : x = <<v, n, k>>
  BY <1>1, <1>4, ZenonT(30)
<1>6. x[1] = v /\ x[2] = n /\ x[3] = k
  BY <1>5, ZenonT(30)
<1>7. scene.dials[v] \in Seq(Nat \ {0})
  BY PoolAssumption, ZenonT(30)
<1>8. n \in Nat \ {0} /\ scene.dials[v][n] \in Nat
  BY <1>3, <1>7
<1> QED BY <1>6, <1>8 DEF Count

(* A client that changes in one field that the table does not look at.     *)
LEMMA ClientChanges ==
  ASSUME Types, NEW i \in DOMAIN clients, NEW c \in Clients, c.server = clients[i].server,
         c.shards = clients[i].shards, clients' = [clients EXCEPT ![i] = c]
  PROVE  /\ clients' \in Seq(Clients) /\ DOMAIN clients' = DOMAIN clients
         /\ clients'[i] = c /\ \A j \in DOMAIN clients \ {i} : clients'[j] = clients[j]
         /\ \A j \in DOMAIN clients : clients'[j].server = clients[j].server /\ clients'[j].shards = clients[j].shards
<1>1. clients \in Seq(Clients) /\ DOMAIN clients = 1..Len(clients)
  BY DEF Types
<1> QED BY <1>1

(* So the invariant needs to be looked at for that client only.            *)
LEMMA OneClientChanges ==
  ASSUME PoolInv, NEW i \in DOMAIN clients, NEW c \in Clients, clients' = [clients EXCEPT ![i] = c],
         c.server = clients[i].server, c.shards = clients[i].shards, c.close = clients[i].close,
         c.bound \in [1..c.shards -> Nat],
         c.close = "done" /\ c.connected => c.revived,
         handler' \in [Streams -> HandlerType], \A x \in Streams : Placed(x, handler'[x]),
         UNCHANGED <<scene, table, fast, pool, cache>>
  PROVE  PoolInv'
<1> USE DEF PoolInv
<1>1. /\ clients' \in Seq(Clients) /\ DOMAIN clients' = DOMAIN clients
      /\ clients'[i] = c /\ \A j \in DOMAIN clients \ {i} : clients'[j] = clients[j]
      /\ \A j \in DOMAIN clients : clients'[j].server = clients[j].server /\ clients'[j].shards = clients[j].shards
  BY ClientChanges, ZenonT(30)
<1>2. \A j \in DOMAIN clients : clients'[j].close = clients[j].close /\ (InTable(j)' <=> InTable(j))
  BY <1>1, ZenonT(30) DEF InTable
<1>3. Streams' = Streams
  BY DEF Streams, Sessions
<1>4. Types'
  <2>1. \A x \in Streams : Placed(x, handler[x])'
    BY <1>1, ZenonT(30) DEF Placed
  <2> QED BY <1>1, <1>3, <2>1 DEF Types
<1>5. NoClientLeaks'
  BY <1>1, <1>2 DEF NoClientLeaks, InTable
<1>6. Leaving'
  BY <1>1, <1>2 DEF Leaving
<1>7. Fast'
  BY <1>1, <1>2 DEF Fast, updateFastClient, Types
<1> QED BY <1>4, <1>5, <1>6, <1>7, ZenonT(30)

\* The handler of x becomes h; the others stay.
Handles(x, h) == handler' = [handler EXCEPT ![x] = h]

(* A handler that changes, on a client there is.                           *)
LEMMA HandlerChanges ==
  ASSUME Types, NEW x \in Streams, NEW h \in HandlerType, Placed(x, h), Handles(x, h)
  PROVE  /\ handler' \in [Streams -> HandlerType]
         /\ \A y \in Streams : Placed(y, handler'[y])
BY ZenonT(30) DEF Types, Handles

(* Steps that leave the clients and the table alone.                       *)
LEMMA QuietPool ==
  ASSUME PoolInv, UNCHANGED <<scene, clients, table, fast, pool>>,
         handler' \in [Streams -> HandlerType], \A x \in Streams : Placed(x, handler'[x]),
         cache' \in DOMAIN clients \cup {0}
  PROVE  PoolInv'
<1> USE DEF PoolInv
<1>1. Streams' = Streams
  BY DEF Streams, Sessions
<1>2. Types'
  <2>1. \A x \in Streams : Placed(x, handler[x])'
    BY ZenonT(30) DEF Placed
  <2> QED BY <1>1, <2>1, ZenonT(30) DEF Types
<1>3. NoClientLeaks' /\ Leaving' /\ Fast'
  BY ZenonT(30) DEF NoClientLeaks, Leaving, Fast, InTable, updateFastClient
<1> QED BY <1>2, <1>3, ZenonT(30)

(* Handlers and servers that only move on.                                 *)
LEMMA HandlerStep ==
  ASSUME PoolInv, NEW x \in Streams,
         CheckClosing(x) \/ ReceiveStart(x) \/ ReceiveFails(x) \/ ReceiveStopped(x)
  PROVE  PoolInv'
<1>0. Types /\ handler[x] \in HandlerType /\ x[3] \in Nat /\ clients \in Seq(Clients)
  BY StreamParts, ZenonT(30) DEF PoolInv, Types, HandlerType
<1>1. UNCHANGED <<scene, clients, table, fast, pool, cache>> /\ cache \in DOMAIN clients \cup {0}
  BY <1>0, ZenonT(30) DEF CheckClosing, ReceiveStart, ReceiveFails, ReceiveStopped, poolVars, Types
<1>2. ASSUME NEW h \in HandlerType, Placed(x, h), Handles(x, h)
      PROVE  PoolInv'
  BY <1>0, <1>1, <1>2, HandlerChanges, QuietPool, ZenonT(30)
<1> DEFINE i == handler[x].client
<1>3. /\ handler[x].at \in Working /\ i \in DOMAIN clients /\ clients[i] \in Clients
      /\ handler[x].at # "check" => x[3] \in 1..clients[i].shards /\ clients[i].bound[x[3]] \in Nat
  <2>1. handler[x].at \in Working /\ Placed(x, handler[x])
    BY <1>0, ZenonT(30) DEF CheckClosing, ReceiveStart, ReceiveFails, ReceiveStopped, Working, Types
  <2>2. i \in DOMAIN clients /\ (handler[x].at # "check" => x[3] \in 1..clients[i].shards)
    BY <2>1, ZenonT(30) DEF Placed
  <2>3. clients[i] \in Clients /\ clients[i].bound \in [1..clients[i].shards -> Nat]
    BY <1>0, <2>2 DEF Types
  <2> HIDE DEF i
  <2> QED BY <2>1, <2>2, <2>3, ZenonT(30)
<1>4. CASE CheckClosing(x)
  <2> DEFINE h == [handler[x] EXCEPT !.at = "bind"]
  <2>1. h \in HandlerType /\ h.client = i
    BY <1>0, ZenonT(30) DEF HandlerType, Working
  <2>2. Done \in HandlerType /\ Done.at = "done" /\ Placed(x, Done)
    BY ZenonT(30) DEF HandlerType, Done, At, Placed, Working
  <2>3. Handles(x, Done) \/ (Handles(x, h) /\ ~(x[3] > clients[i].shards))
    BY <1>4, ZenonT(30) DEF CheckClosing, Handles
  <2>4. x[3] \in Nat \ {0} /\ clients[i].shards \in Nat
    BY <1>0, <1>3, StreamParts, ZenonT(30) DEF Clients, Types
  <2>5. ~(x[3] > clients[i].shards) => x[3] \in 1..clients[i].shards
    BY <2>4
  <2> HIDE DEF h, i
  <2> QED BY <1>2, <1>3, <2>1, <2>2, <2>3, <2>5, ZenonT(30) DEF Placed
<1>5. CASE ReceiveStart(x)
  <2> DEFINE b == clients[i].bound[x[3]]
             a == IF b = 0 \/ Closing(i) THEN "detach" ELSE "recv"
             h == [[handler[x] EXCEPT !.at = a] EXCEPT !.hold = b]
  <2>1. handler' = [handler EXCEPT ![x].at = a, ![x].hold = b]
    BY <1>5, ZenonT(30) DEF ReceiveStart
  <2>2. b \in Nat /\ x[3] \in 1..clients[i].shards
    BY <1>3, <1>5, ZenonT(30) DEF ReceiveStart
  <2>3. a \in Working
    BY ZenonT(30) DEF Working
  <2> HIDE DEF a, b
  <2>4. h \in HandlerType /\ h.client = i
    BY <1>0, <2>2, <2>3, ZenonT(30) DEF HandlerType
  <2>5. Handles(x, h)
    BY <1>0, <2>1, ZenonT(30) DEF Handles, Types
  <2> HIDE DEF h, i
  <2> QED BY <1>2, <1>3, <2>2, <2>4, <2>5, ZenonT(30) DEF Placed
<1>6. CASE ReceiveFails(x) \/ ReceiveStopped(x)
  <2> DEFINE h == [handler[x] EXCEPT !.at = "detach"]
  <2>1. h \in HandlerType /\ h.client = i
    BY <1>0, ZenonT(30) DEF HandlerType, Working
  <2>2. Handles(x, h) /\ x[3] \in 1..clients[i].shards
    BY <1>3, <1>6, ZenonT(30) DEF ReceiveFails, ReceiveStopped, Handles
  <2> HIDE DEF h, i
  <2> QED BY <1>2, <1>3, <2>1, <2>2, ZenonT(30) DEF Placed
<1> QED BY <1>4, <1>5, <1>6, ZenonT(30)

(* Dialing, breaking and forwarding touch no client.                       *)
LEMMA OutsideStep ==
  ASSUME PoolInv, Forward \/ \E v \in Servers : Dial(v) \/ Break(v)
  PROVE  PoolInv'
<1>0. Types
  BY ZenonT(30) DEF PoolInv
<1>1. UNCHANGED <<scene, clients, table, fast, pool>>
  BY ZenonT(30) DEF Forward, Dial, Break, poolVars, linkVars
<1>2. cache' \in DOMAIN clients \cup {0}
  BY <1>0, PoolAssumption, ZenonT(30) DEF Forward, Dial, Break, Chosen, GetClient, Types
<1>3. handler' \in [Streams -> HandlerType] /\ \A x \in Streams : Placed(x, handler'[x])
  <2>1. CASE UNCHANGED handler
    BY <1>0, <2>1, ZenonT(30) DEF Types
  <2>2. ASSUME NEW v \in Servers, Dial(v)
        PROVE  handler' \in [Streams -> HandlerType] /\ \A x \in Streams : Placed(x, handler'[x])
    <3> DEFINE h == At("dialed")
    <3>1. h \in HandlerType /\ \A x \in Streams : Placed(x, h)
      BY ZenonT(30) DEF HandlerType, At, Placed, Working
    <3>2. handler' = [x \in Streams |-> IF Session(x) = <<v, dialed[v] + 1>> THEN h ELSE handler[x]]
      BY <2>2, ZenonT(30) DEF Dial
    <3> HIDE DEF h
    <3> QED BY <1>0, <3>1, <3>2, ZenonT(30) DEF Types
  <2> QED BY <2>1, <2>2, ZenonT(30) DEF Forward, Break, linkVars
<1> QED BY <1>1, <1>2, <1>3, QuietPool, ZenonT(30)

(* attachShard: a client whose Close is over is revived by what it binds.  *)
LEMMA BindStep ==
  ASSUME PoolInv, NEW x \in Streams, Bind(x)
  PROVE  PoolInv'
<1>0. Types /\ x[2] \in Nat /\ handler[x] \in HandlerType /\ Placed(x, handler[x]) /\ handler[x].at = "bind"
  BY StreamParts, ZenonT(30) DEF PoolInv, Types, Bind
<1> DEFINE i == handler[x].client
           d == clients[i]
           n == IF d.bound[x[3]] = 0 THEN d.attached + 1 ELSE d.attached
           up == d.connected \/ n >= d.shards
           rev == d.revived \/ Closing(i)
           b == [d.bound EXCEPT ![x[3]] = x[2]]
           c == [[d EXCEPT !.bound = b] EXCEPT !.attached = n]
           e == [[c EXCEPT !.connected = up] EXCEPT !.revived = rev]
           h == [handler[x] EXCEPT !.at = "receive"]
<1>1. i \in DOMAIN clients /\ x[3] \in 1..d.shards
  BY <1>0, ZenonT(30) DEF Placed, Working
<1>2. d \in Clients /\ d.bound \in [1..d.shards -> Nat] /\ clients \in Seq(Clients)
  BY <1>0, <1>1 DEF Types
<1>3. clients' = [clients EXCEPT ![i] = e]
  <2>1. clients' = [clients EXCEPT ![i] =
           [d EXCEPT !.bound[x[3]] = x[2], !.attached = n, !.connected = @ \/ n >= d.shards,
                     !.revived = @ \/ Closing(i)]]
    BY ZenonT(30) DEF Bind
  <2> HIDE DEF n
  <2>2. [d EXCEPT !.bound[x[3]] = x[2], !.attached = n, !.connected = @ \/ n >= d.shards,
                  !.revived = @ \/ Closing(i)] = e
    <3> HIDE DEF i, d
    <3> QED BY <1>2, ZenonT(30) DEF Clients
  <2> QED BY <2>1, <2>2, ZenonT(30)
<1>4. UNCHANGED <<scene, table, fast, pool, cache>> /\ Handles(x, h)
  BY ZenonT(30) DEF Bind, poolVars, Handles
<1>5. n \in Int /\ up \in BOOLEAN /\ rev \in BOOLEAN /\ (d.close = "done" => rev)
  BY <1>2 DEF Clients, Closing
<1>6. b \in [1..d.shards -> Nat]
  BY <1>0, <1>1, <1>2, ZenonT(30)
<1>7. h \in HandlerType /\ h.client = i /\ h.at = "receive"
  BY <1>0, ZenonT(30) DEF HandlerType, Working
<1> HIDE DEF n, up, rev, b, h, i, d
<1>8. b \in Bounds
  BY <1>2, <1>6, ZenonT(30) DEF Bounds, Clients
<1>9. c \in Clients /\ c.server = d.server /\ c.shards = d.shards /\ c.close = d.close /\ c.bound = b
  BY <1>2, <1>5, <1>8, ZenonT(30) DEF Clients
<1> HIDE DEF c
<1>10. /\ e \in Clients /\ e.server = d.server /\ e.shards = d.shards /\ e.close = d.close /\ e.bound = b
       /\ e.revived = rev
  BY <1>5, <1>9, ZenonT(30) DEF Clients
<1> HIDE DEF e
<1>11. Placed(x, h)
  BY <1>1, <1>7, ZenonT(30) DEF Placed, d
<1>12. handler' \in [Streams -> HandlerType] /\ \A y \in Streams : Placed(y, handler'[y])
  BY <1>0, <1>4, <1>7, <1>11, HandlerChanges, ZenonT(30)
<1>13. clients[i] = d
  BY ZenonT(30) DEF d
<1> QED BY <1>1, <1>3, <1>4, <1>5, <1>6, <1>10, <1>12, <1>13, OneClientChanges, ZenonT(30)

(* detachShard leaves a client as it was, or without the stream; it does   *)
(* not set the state of one that closes.                                   *)
LEMMA DetachedIs ==
  ASSUME Types, NEW i \in DOMAIN clients, NEW k \in 1..clients[i].shards, NEW n \in Nat
  PROVE  \E c \in Clients :
           /\ Detached(i, k, n) = [clients EXCEPT ![i] = c]
           /\ c.server = clients[i].server /\ c.shards = clients[i].shards /\ c.close = clients[i].close
           /\ c.bound \in [1..c.shards -> Nat] /\ c.revived = clients[i].revived
           /\ c.connected => clients[i].connected
<1> DEFINE d == clients[i]
           b == [d.bound EXCEPT ![k] = 0]
           m == d.attached - 1
           up == d.connected /\ ~(m \in 0..(d.shards - 1))
           c1 == [d EXCEPT !.bound = b]
           c2 == [[c1 EXCEPT !.attached = m] EXCEPT !.connected = up]
<1>1. d \in Clients /\ d.bound \in [1..d.shards -> Nat] /\ clients \in Seq(Clients) /\ d.shards \in Nat
  <2>1. d \in Clients /\ d.bound \in [1..d.shards -> Nat] /\ clients \in Seq(Clients)
    BY DEF Types
  <2> HIDE DEF d
  <2> QED BY <2>1, ZenonT(30) DEF Clients
<1>2. b \in [1..d.shards -> Nat] /\ b \in Bounds /\ m \in Int /\ up \in BOOLEAN /\ (up => d.connected)
  <2>1. b \in [1..d.shards -> Nat] /\ m \in Int /\ up \in BOOLEAN /\ (up => d.connected)
    BY <1>1 DEF Clients
  <2> QED BY <1>1, <2>1, ZenonT(30) DEF Bounds
<1>3. CASE Detached(i, k, n) = clients
  <2>1. clients = [clients EXCEPT ![i] = d]
    BY <1>1
  <2> HIDE DEF d
  <2>2. clients[i] = d
    BY ZenonT(30) DEF d
  <2> QED BY <1>1, <1>3, <2>1, <2>2, ZenonT(30)
<1>4. CASE Detached(i, k, n) = [clients EXCEPT ![i].bound[k] = 0]
  <2>1. [clients EXCEPT ![i].bound[k] = 0] = [clients EXCEPT ![i] = c1]
    BY <1>1, ZenonT(30)
  <2>2. clients[i] = d
    BY ZenonT(30)
  <2> HIDE DEF b, d
  <2>3. /\ c1 \in Clients /\ c1.server = d.server /\ c1.shards = d.shards /\ c1.close = d.close
        /\ c1.bound = b /\ c1.revived = d.revived /\ c1.connected = d.connected
    BY <1>1, <1>2, ZenonT(30) DEF Clients
  <2> HIDE DEF c1
  <2> QED BY <1>2, <1>4, <2>1, <2>2, <2>3, ZenonT(30)
<1>5. CASE Detached(i, k, n) = [clients EXCEPT ![i] =
              [d EXCEPT !.bound[k] = 0, !.attached = m, !.connected = @ /\ ~(m \in 0..(d.shards - 1))]]
  <2> HIDE DEF m
  <2>1. [d EXCEPT !.bound[k] = 0, !.attached = m, !.connected = @ /\ ~(m \in 0..(d.shards - 1))] = c2
    <3> HIDE DEF d
    <3> QED BY <1>1, ZenonT(30) DEF Clients
  <2>2. clients[i] = d
    BY ZenonT(30)
  <2> HIDE DEF b, d, up
  <2>3. /\ c1 \in Clients /\ c1.server = d.server /\ c1.shards = d.shards /\ c1.close = d.close
        /\ c1.bound = b /\ c1.revived = d.revived
    BY <1>1, <1>2, ZenonT(30) DEF Clients
  <2> HIDE DEF c1
  <2>4. /\ c2 \in Clients /\ c2.server = d.server /\ c2.shards = d.shards /\ c2.close = d.close
        /\ c2.bound = b /\ c2.revived = d.revived /\ c2.connected = up
    BY <1>2, <2>3, ZenonT(30) DEF Clients
  <2> HIDE DEF c2
  <2> QED BY <1>2, <1>5, <2>1, <2>2, <2>4, ZenonT(30)
<1> QED BY <1>3, <1>4, <1>5, ZenonT(30) DEF Detached

(* So neither the end of a handler nor a send loop that fails brings a     *)
(* client up or back.                                                      *)
LEMMA DetachStep ==
  ASSUME PoolInv,
         \/ \E x \in Streams : Detach(x)
         \/ \E i \in DOMAIN clients : \E k \in 1..clients[i].shards : SendFails(i, k)
  PROVE  PoolInv'
<1>0. Types /\ Leaving
  BY ZenonT(30) DEF PoolInv
<1>1. ASSUME NEW i \in DOMAIN clients, NEW k \in 1..clients[i].shards, NEW n \in Nat,
             clients' = Detached(i, k, n), UNCHANGED <<scene, table, fast, pool, cache>>,
             handler' \in [Streams -> HandlerType], \A y \in Streams : Placed(y, handler'[y])
      PROVE  PoolInv'
  <2>1. PICK c \in Clients :
           /\ Detached(i, k, n) = [clients EXCEPT ![i] = c]
           /\ c.server = clients[i].server /\ c.shards = clients[i].shards /\ c.close = clients[i].close
           /\ c.bound \in [1..c.shards -> Nat] /\ c.revived = clients[i].revived
           /\ c.connected => clients[i].connected
    BY <1>0, DetachedIs
  <2>2. c.close = "done" /\ c.connected => c.revived
    BY <1>0, <2>1, ZenonT(30) DEF Leaving
  <2> QED BY <1>1, <2>1, <2>2, OneClientChanges, ZenonT(30)
<1>2. ASSUME NEW x \in Streams, Detach(x) PROVE PoolInv'
  <2>1. /\ handler[x].client \in DOMAIN clients /\ x[3] \in 1..clients[handler[x].client].shards
        /\ x[2] \in Nat
    BY <1>0, <1>2, StreamParts, ZenonT(30) DEF Detach, Types, Placed, Working
  <2>2. Done \in HandlerType /\ Placed(x, Done) /\ Handles(x, Done)
    BY <1>2, ZenonT(30) DEF Detach, HandlerType, Done, At, Placed, Working, Handles
  <2>3. handler' \in [Streams -> HandlerType] /\ \A y \in Streams : Placed(y, handler'[y])
    BY <1>0, <2>2, HandlerChanges, ZenonT(30)
  <2>4. /\ clients' = Detached(handler[x].client, x[3], x[2])
        /\ UNCHANGED <<scene, table, fast, pool, cache>>
    BY <1>2, ZenonT(30) DEF Detach, poolVars
  <2> QED BY <1>1, <2>1, <2>3, <2>4, ZenonT(30)
<1>3. ASSUME NEW i \in DOMAIN clients, NEW k \in 1..clients[i].shards, SendFails(i, k) PROVE PoolInv'
  <2>1. clients[i].bound[k] \in Nat
    BY <1>0, ZenonT(30) DEF Types
  <2>2. handler' \in [Streams -> HandlerType] /\ \A y \in Streams : Placed(y, handler'[y])
    BY <1>0, <1>3, ZenonT(30) DEF SendFails, linkVars, Types
  <2>3. /\ clients' = Detached(i, k, clients[i].bound[k])
        /\ UNCHANGED <<scene, table, fast, pool, cache>>
    BY <1>3, ZenonT(30) DEF SendFails, poolVars
  <2> QED BY <1>1, <2>1, <2>2, <2>3, ZenonT(30)
<1> QED BY <1>2, <1>3, ZenonT(30)

(* The fast client depends on the table only.                              *)
LEMMA FastOfTable ==
  ASSUME NEW t, NEW f, NEW g PROVE updateFastClient(t, f) = updateFastClient(t, g)
BY ZenonT(30) DEF updateFastClient

(* It is a client of the table, and the only one.                          *)
LEMMA FastIsTheOnly ==
  ASSUME NEW t \in [Servers -> Nat], NEW f
  PROVE  updateFastClient(t, f) # 0 =>
           \E v \in Servers : t[v] = updateFastClient(t, f) /\ \A w \in Servers : t[w] # 0 => w = v
<1> DEFINE used == {v \in Servers : t[v] # 0}
<1> SUFFICES ASSUME updateFastClient(t, f) # 0
             PROVE  \E v \in Servers : t[v] = updateFastClient(t, f) /\ \A w \in Servers : t[w] # 0 => w = v
  BY ZenonT(30)
<1>1. Cardinality(used) = 1 /\ updateFastClient(t, f) = t[CHOOSE v \in used : TRUE]
  BY ZenonT(30) DEF updateFastClient
<1>2. IsFiniteSet(used)
  BY PoolAssumption, FS_Subset, ZenonT(30)
<1>3. \E v : used = {v}
  <2> HIDE DEF used
  <2> QED BY <1>1, <1>2, FS_Singleton, ZenonT(30)
<1>4. PICK v : used = {v}
  BY <1>3, ZenonT(30)
<1>5. (CHOOSE w \in used : TRUE) = v
  BY <1>4, ZenonT(30)
<1> QED BY <1>1, <1>4, <1>5, ZenonT(30)

(* Close of a client: one that is due has left the table, the others       *)
(* belong to a pool that is closing.                                       *)
LEMMA CloseStep ==
  ASSUME PoolInv, CloseBegin \/ Closer
  PROVE  PoolInv'
<1> USE DEF PoolInv
<1>0. Streams' = Streams /\ UNCHANGED <<scene, handler, cache, fast>> /\ clients \in Seq(Clients)
  <2>1. UNCHANGED <<scene, handler, cache, fast>>
    BY ZenonT(30) DEF CloseBegin, Closer, CloseEnd, CloseLocked, CloseSetState, linkVars, poolVars
  <2> QED BY <2>1 DEF Streams, Sessions, Types
<1>1. CASE CloseBegin \/ CloseEnd
  <2>1. UNCHANGED <<clients, table>> /\ pool' \in {"closing", "closed"} /\ (pool' = "closing" => pool = "open")
        /\ (pool' = "closed" => \A v \in Servers : table[v] = 0)
    BY <1>1, ZenonT(30) DEF CloseBegin, CloseEnd
  <2>2. Types'
    BY <1>0, <2>1, ZenonT(30) DEF Types, Placed
  <2>3. NoClientLeaks'
    BY <2>1, ZenonT(30) DEF NoClientLeaks
  <2>4. \A i \in DOMAIN clients : clients[i].server \in Servers /\ i # 0
    <3>1. \A i \in DOMAIN clients : clients[i] \in Clients /\ i # 0
      BY <1>0
    <3> QED BY <3>1, ZenonT(30) DEF Clients
  <2>5. Leaving'
    BY <2>1, <2>4, ZenonT(30) DEF Leaving, InTable
  <2>6. Fast'
    BY <1>0, <2>1, ZenonT(30) DEF Fast, InTable
  <2> QED BY <2>2, <2>3, <2>5, <2>6, ZenonT(30)
<1>2. ASSUME NEW i \in DOMAIN clients, CloseLocked(i) PROVE PoolInv'
  <2> DEFINE c == [clients[i] EXCEPT !.close = "locked"]
  <2>1. clients' = [clients EXCEPT ![i] = c] /\ UNCHANGED <<table, pool>>
    BY <1>2, ZenonT(30) DEF CloseLocked, poolVars
  <2>2. /\ c \in Clients /\ c.server = clients[i].server /\ c.shards = clients[i].shards
        /\ c.close = "locked" /\ c.bound = clients[i].bound
    <3>1. clients[i] \in Clients
      BY <1>0
    <3> QED BY <3>1, ZenonT(30) DEF Clients
  <2> HIDE DEF c
  <2>3. /\ clients' \in Seq(Clients) /\ DOMAIN clients' = DOMAIN clients
        /\ clients'[i] = c /\ \A j \in DOMAIN clients \ {i} : clients'[j] = clients[j]
        /\ \A j \in DOMAIN clients : clients'[j].server = clients[j].server /\ clients'[j].shards = clients[j].shards
    BY <2>1, <2>2, ClientChanges, ZenonT(30)
  <2>4. clients[i].close \in {"no", "due"} /\ (InTable(i) => pool = "closing")
    BY <1>2, ZenonT(30) DEF CloseLocked, Leaving, InTable
  <2>5. \A j \in DOMAIN clients : InTable(j)' <=> InTable(j)
    BY <2>1, <2>3, ZenonT(30) DEF InTable
  <2>6. Types'
    <3>1. \A x \in Streams : Placed(x, handler[x])'
      BY <1>0, <2>3, ZenonT(30) DEF Types, Placed
    <3>2. \A j \in DOMAIN clients' : clients'[j].bound \in [1..clients'[j].shards -> Nat]
      BY <2>2, <2>3, ZenonT(30) DEF Types
    <3> QED BY <1>0, <2>1, <2>3, <3>1, <3>2, ZenonT(30) DEF Types
  <2>7. NoClientLeaks'
    BY <2>1, <2>2, <2>3, ZenonT(30) DEF NoClientLeaks
  <2>8. Leaving'
    BY <2>1, <2>2, <2>3, <2>4, <2>5, ZenonT(30) DEF Leaving
  <2>9. Fast'
    <3>1. fast # 0 => fast \in DOMAIN clients /\ (InTable(fast) \/ clients[fast].close = "done")
      BY ZenonT(30) DEF Fast, Types
    <3>2. fast # 0 => InTable(fast)' \/ clients'[fast].close = "done"
      BY <1>0, <2>3, <2>4, <2>5, <3>1, ZenonT(30) DEF InTable
    <3> QED BY <1>0, <2>1, <3>2, ZenonT(30) DEF Fast
  <2> QED BY <2>6, <2>7, <2>8, <2>9, ZenonT(30)
<1>3. ASSUME NEW i \in DOMAIN clients, CloseSetState(i) PROVE PoolInv'
  <2> DEFINE c == [[clients[i] EXCEPT !.close = "done"] EXCEPT !.connected = FALSE]
  <2>1. /\ clients' = [clients EXCEPT ![i].close = "done", ![i].connected = FALSE]
        /\ UNCHANGED pool /\ clients[i].close = "locked"
        /\ table' = [v \in Servers |-> IF table[v] = i THEN 0 ELSE table[v]]
    BY <1>3, ZenonT(30) DEF CloseSetState
  <2>2. clients' = [clients EXCEPT ![i] = c]
    BY <1>0, <2>1, ZenonT(30)
  <2>3. /\ c \in Clients /\ c.server = clients[i].server /\ c.shards = clients[i].shards
        /\ c.close = "done" /\ c.bound = clients[i].bound /\ ~c.connected
    <3>1. clients[i] \in Clients
      BY <1>0
    <3> QED BY <3>1, ZenonT(30) DEF Clients
  <2> HIDE DEF c
  <2>4. /\ clients' \in Seq(Clients) /\ DOMAIN clients' = DOMAIN clients
        /\ clients'[i] = c /\ \A j \in DOMAIN clients \ {i} : clients'[j] = clients[j]
        /\ \A j \in DOMAIN clients : clients'[j].server = clients[j].server /\ clients'[j].shards = clients[j].shards
    BY <2>2, <2>3, ClientChanges, ZenonT(30)
  <2>5. \A j \in DOMAIN clients : j # 0 /\ clients[j].server \in Servers
    <3>1. \A j \in DOMAIN clients : clients[j] \in Clients /\ j # 0
      BY <1>0
    <3> QED BY <3>1, ZenonT(30) DEF Clients
  <2>6. ~InTable(i)' /\ \A j \in DOMAIN clients \ {i} : InTable(j)' <=> InTable(j)
    <3>1. \A v \in Servers : table'[v] = IF table[v] = i THEN 0 ELSE table[v]
      BY <2>1, ZenonT(30)
    <3>2. ~InTable(i)'
      BY <2>4, <2>5, <3>1, ZenonT(30) DEF InTable
    <3>3. ASSUME NEW j \in DOMAIN clients \ {i} PROVE InTable(j)' <=> InTable(j)
      <4>1. clients[j].server \in Servers /\ clients'[j].server = clients[j].server /\ j # 0
        BY <2>4, <2>5, ZenonT(30)
      <4> QED BY <3>1, <4>1, ZenonT(30) DEF InTable
    <3> QED BY <3>2, <3>3, ZenonT(30)
  <2>7. Types'
    <3>1. \A x \in Streams : Placed(x, handler[x])'
      BY <1>0, <2>4, ZenonT(30) DEF Types, Placed
    <3>2. \A j \in DOMAIN clients' : clients'[j].bound \in [1..clients'[j].shards -> Nat]
      BY <2>3, <2>4, ZenonT(30) DEF Types
    <3>3. table' \in [Servers -> Nat] /\ \A v \in Servers : table'[v] # 0 => table'[v] = table[v]
      BY <2>1, ZenonT(30) DEF Types
    <3>4. \A v \in Servers : table'[v] # 0 => table'[v] \in DOMAIN clients' /\ clients'[table'[v]].server = v
      BY <2>4, <3>3 DEF Types
    <3> QED BY <1>0, <2>1, <2>4, <3>1, <3>2, <3>3, <3>4, ZenonT(30) DEF Types
  <2>8. NoClientLeaks'
    BY <2>3, <2>4, <2>6, ZenonT(30) DEF NoClientLeaks, InTable
  <2>9. Leaving'
    <3>1. pool' = "closed" => \A v \in Servers : table'[v] = 0
      BY <2>1, ZenonT(30) DEF Leaving
    <3> QED BY <2>1, <2>3, <2>4, <2>6, <3>1 DEF Leaving
  <2>10. pool = "open" => table' = table
    <3>1. pool = "open" => ~InTable(i)
      BY <2>1, ZenonT(30) DEF Leaving
    <3>2. pool = "open" => \A v \in Servers : table[v] # i
      BY <2>5, <3>1, ZenonT(30) DEF Types, InTable
    <3> QED BY <2>1, <3>2, ZenonT(30) DEF Types
  <2>11. Fast'
    <3>1. fast # 0 => fast \in DOMAIN clients /\ (InTable(fast) \/ clients[fast].close = "done")
      BY ZenonT(30) DEF Fast, Types
    <3>2. fast # 0 => InTable(fast)' \/ clients'[fast].close = "done"
      BY <1>0, <2>3, <2>4, <2>6, <3>1, ZenonT(30) DEF InTable
    <3> QED BY <1>0, <2>1, <2>10, <3>2, ZenonT(30) DEF Fast
  <2> QED BY <2>7, <2>8, <2>9, <2>11, ZenonT(30)
<1> QED BY <1>1, <1>2, <1>3, ZenonT(30) DEF Closer

(* Attach: the client that is replaced leaves the table and is due, and    *)
(* the new one takes its place.                                            *)
LEMMA AttachStep ==
  ASSUME PoolInv, NEW x \in Streams, AttachLocked(x)
  PROVE  PoolInv'
<1> USE DEF PoolInv
<1> DEFINE v == x[1]
           old == table[v]
           new == Len(clients) + 1
           t == [table EXCEPT ![v] = new]
<1>0. /\ Types /\ clients \in Seq(Clients) /\ DOMAIN clients = 1..Len(clients)
      /\ v \in Servers /\ Count(x) \in Nat /\ handler[x] \in HandlerType
      /\ Streams' = Streams /\ UNCHANGED <<scene, pool, cache>>
  <2>1. UNCHANGED <<scene, pool, cache>>
    BY ZenonT(30) DEF AttachLocked
  <2>2. Types /\ scene \in Scenes /\ clients \in Seq(Clients) /\ handler[x] \in HandlerType
    BY ZenonT(30) DEF Types
  <2>3. Streams' = Streams
    BY <2>1 DEF Streams, Sessions
  <2> QED BY <2>1, <2>2, <2>3, StreamParts
<1>1. CASE pool = "closed"
  <2>1. Done \in HandlerType /\ Placed(x, Done) /\ Handles(x, Done)
    BY <1>1, ZenonT(30) DEF AttachLocked, HandlerType, Done, At, Placed, Working, Handles
  <2>2. UNCHANGED <<clients, table, fast>>
    BY <1>1, ZenonT(30) DEF AttachLocked
  <2>3. handler' \in [Streams -> HandlerType] /\ \A y \in Streams : Placed(y, handler'[y])
    BY <1>0, <2>1, HandlerChanges, ZenonT(30)
  <2> QED BY <1>0, <2>2, <2>3, QuietPool, ZenonT(30) DEF Types
<1>2. ASSUME NEW i \in Nat PROVE LET h == [[handler[x] EXCEPT !.at = "check"] EXCEPT !.client = i]
                                 IN  /\ h \in HandlerType /\ h.at = "check" /\ h.client = i
                                     /\ [handler EXCEPT ![x].at = "check", ![x].client = i]
                                          = [handler EXCEPT ![x] = h]
  <2> DEFINE h == [[handler[x] EXCEPT !.at = "check"] EXCEPT !.client = i]
  <2>1. h \in HandlerType /\ h.at = "check" /\ h.client = i
    BY <1>0, ZenonT(30) DEF HandlerType, Working
  <2>2. [handler EXCEPT ![x].at = "check", ![x].client = i] = [handler EXCEPT ![x] = h]
    BY <1>0, ZenonT(30) DEF Types
  <2> QED BY <2>1, <2>2, ZenonT(30)
<1>3. CASE pool = "open" /\ Fits(old, x)
  <2>1. old \in DOMAIN clients /\ old \in Nat
    BY <1>0, <1>3, ZenonT(30) DEF Fits, Types
  <2>2. /\ handler' = [handler EXCEPT ![x].at = "check", ![x].client = old]
        /\ UNCHANGED <<clients, table, fast>>
    BY <1>3, ZenonT(30) DEF AttachLocked
  <2>3. PICK h \in HandlerType : h.at = "check" /\ h.client = old /\ Handles(x, h)
    BY <1>2, <2>1, <2>2, ZenonT(30) DEF Handles
  <2>4. Placed(x, h)
    BY <2>1, <2>3, ZenonT(30) DEF Placed
  <2>5. handler' \in [Streams -> HandlerType] /\ \A y \in Streams : Placed(y, handler'[y])
    BY <1>0, <2>3, <2>4, HandlerChanges, ZenonT(30)
  <2> QED BY <1>0, <2>2, <2>5, QuietPool, ZenonT(30) DEF Types
<1>4. CASE pool = "open" /\ ~Fits(old, x)
  <2> DEFINE c == NewLogicClient(x)
             R == Retire(old)
  <2>1. /\ handler' = [handler EXCEPT ![x].at = "check", ![x].client = new]
        /\ clients' = Append(R, c) /\ table' = t /\ fast' = updateFastClient(t, fast)
    BY <1>4, ZenonT(30) DEF AttachLocked
  <2>2. /\ c \in Clients /\ c.server = v /\ c.bound \in [1..c.shards -> Nat] /\ c.close = "no"
    <3>1. [k \in 1..Count(x) |-> 0] \in [1..Count(x) -> Nat]
      BY ZenonT(30)
    <3>2. [k \in 1..Count(x) |-> 0] \in Bounds
      BY <1>0, <3>1, ZenonT(30) DEF Bounds
    <3> QED BY <1>0, <3>1, <3>2 DEF NewLogicClient, Clients
  <2>3. /\ R \in Seq(Clients) /\ Len(R) = Len(clients)
        /\ \A j \in DOMAIN clients :
             /\ R[j].server = clients[j].server /\ R[j].shards = clients[j].shards
             /\ R[j].bound = clients[j].bound
             /\ R[j].connected = clients[j].connected /\ R[j].revived = clients[j].revived
             /\ R[j].close = IF j = old THEN "due" ELSE clients[j].close
    <3>1. CASE old = 0
      BY <1>0, <3>1 DEF Retire
    <3>2. CASE old # 0
      <4> DEFINE d == [clients[old] EXCEPT !.close = "due"]
      <4>1. old \in DOMAIN clients /\ R = [clients EXCEPT ![old] = d]
        BY <1>0, <3>2, ZenonT(30) DEF Types, Retire
      <4>2. clients[old] \in Clients
        BY <1>0, <4>1
      <4>3. /\ d \in Clients /\ d.server = clients[old].server /\ d.shards = clients[old].shards
            /\ d.bound = clients[old].bound /\ d.connected = clients[old].connected
            /\ d.revived = clients[old].revived /\ d.close = "due"
        BY <4>2, ZenonT(30) DEF Clients
      <4> HIDE DEF d
      <4> QED BY <1>0, <4>1, <4>3
    <3> QED BY <3>1, <3>2, ZenonT(30)
  <2> HIDE DEF R, c
  <2>4. /\ clients' \in Seq(Clients) /\ Len(clients') = new /\ DOMAIN clients' = 1..new
        /\ clients'[new] = c /\ \A j \in DOMAIN clients : j \in DOMAIN clients' /\ j # new /\ clients'[j] = R[j]
        /\ \A j \in DOMAIN clients' : j = new \/ j \in DOMAIN clients
    BY <1>0, <2>1, <2>2, <2>3
  <2>5. new \in Nat \ {0} /\ t \in [Servers -> Nat] /\ t[v] = new /\ \A w \in Servers \ {v} : t[w] = table[w]
    BY <1>0 DEF Types
  <2>6. \A j \in DOMAIN clients : clients[j] \in Clients
    BY <1>0
  <2>7. \A j \in DOMAIN clients : clients[j].server \in Servers /\ clients'[j].server = clients[j].server
    BY <2>3, <2>4, <2>6, ZenonT(30) DEF Clients
  <2> HIDE DEF t, new
  <2>8. \A j \in DOMAIN clients : InTable(j)' <=> InTable(j) /\ j # old
    <3> SUFFICES ASSUME NEW j \in DOMAIN clients PROVE InTable(j)' <=> InTable(j) /\ j # old
      BY ZenonT(30)
    <3>1. clients[j].server \in Servers /\ clients'[j].server = clients[j].server /\ j # new
      BY <2>4, <2>7, ZenonT(30)
    <3>2. CASE clients[j].server = v
      BY <2>1, <2>5, <3>1, <3>2, ZenonT(30) DEF InTable
    <3>3. CASE clients[j].server # v
      <4>1. j # old
        BY <1>0, <3>3 DEF Types
      <4> QED BY <2>1, <2>5, <3>1, <3>3, <4>1, ZenonT(30) DEF InTable
    <3> QED BY <3>2, <3>3, ZenonT(30)
  <2>9. table'[clients'[new].server] = new /\ clients'[new].close = "no"
    BY <2>1, <2>2, <2>4, <2>5, ZenonT(30)
  <2>10. /\ handler' \in [Streams -> HandlerType]
         /\ \A y \in Streams : y # x => handler'[y] = handler[y]
         /\ handler'[x].at = "check" /\ handler'[x].client = new
    <3>1. PICK h \in HandlerType : h.at = "check" /\ h.client = new /\ handler' = [handler EXCEPT ![x] = h]
      <4>1. new \in Nat /\ handler' = [handler EXCEPT ![x].at = "check", ![x].client = new]
        BY <2>1, <2>5, ZenonT(30)
      <4> QED BY <1>2, <4>1, ZenonT(30)
    <3> QED BY <1>0, <3>1, ZenonT(30) DEF Types
  <2>11. \A y \in Streams : Placed(y, handler[y])'
    <3>1. ASSUME NEW y \in Streams, y # x PROVE Placed(y, handler[y])'
      <4>1. handler'[y] = handler[y] /\ Placed(y, handler[y])
        BY <2>10, <3>1, ZenonT(30) DEF Types
      <4>2. \A j \in DOMAIN clients : clients'[j].shards = clients[j].shards
        BY <2>3, <2>4, ZenonT(30)
      <4>3. handler[y].at \in Working \ {"check"} => handler[y].at \in Working
        BY ZenonT(30)
      <4> QED BY <2>4, <4>1, <4>2, <4>3, ZenonT(30) DEF Placed
    <3>2. Placed(x, handler[x])'
      BY <2>4, <2>5, <2>10 DEF Placed
    <3> QED BY <3>1, <3>2, ZenonT(30)
  <2>12. table' \in [Servers -> Nat] /\ \A w \in Servers : table'[w] # 0 => /\ table'[w] \in DOMAIN clients'
                                                                            /\ clients'[table'[w]].server = w
    <3>1. ASSUME NEW w \in Servers, table'[w] # 0
          PROVE  table'[w] \in DOMAIN clients' /\ clients'[table'[w]].server = w
      <4>1. CASE w = v
        BY <2>1, <2>2, <2>4, <2>5, <4>1
      <4>2. CASE w # v
        <5>1. table'[w] = table[w] /\ table[w] \in DOMAIN clients /\ clients[table[w]].server = w
          BY <2>1, <2>5, <3>1, <4>2, ZenonT(30) DEF Types
        <5> QED BY <2>4, <2>7, <5>1, ZenonT(30)
      <4> QED BY <4>1, <4>2, ZenonT(30)
    <3> QED BY <2>1, <2>5, <3>1, ZenonT(30)
  <2>13. fast' \in DOMAIN clients' \cup {0} /\ (fast' # 0 => table'[clients'[fast'].server] = fast')
    <3>1. CASE fast' # 0
      <4>1. PICK w \in Servers : t[w] = fast'
        BY <2>1, <2>5, <3>1, FastIsTheOnly, ZenonT(30)
      <4>2. fast' = table'[w] /\ fast' \in DOMAIN clients' /\ clients'[fast'].server = w
        BY <2>1, <2>12, <3>1, <4>1, ZenonT(30)
      <4> QED BY <4>2, ZenonT(30)
    <3> QED BY <3>1, ZenonT(30)
  <2>14. \A j \in DOMAIN clients' : clients'[j].bound \in [1..clients'[j].shards -> Nat]
    <3>1. ASSUME NEW j \in DOMAIN clients PROVE clients'[j].bound \in [1..clients'[j].shards -> Nat]
      <4>1. clients'[j].bound = clients[j].bound /\ clients'[j].shards = clients[j].shards
        BY <2>3, <2>4, ZenonT(30)
      <4>2. clients[j].bound \in [1..clients[j].shards -> Nat]
        BY <1>0, ZenonT(30) DEF Types
      <4> QED BY <4>1, <4>2, ZenonT(30)
    <3> QED BY <2>2, <2>4, <3>1, ZenonT(30)
  <2>15. Types'
    <3>1. scene' \in Scenes /\ pool' \in {"open", "closing", "closed"} /\ cache' \in DOMAIN clients' \cup {0}
      BY <1>0, <2>4, ZenonT(30) DEF Types
    <3> QED BY <1>0, <2>4, <2>10, <2>11, <2>12, <2>13, <2>14, <3>1, ZenonT(30) DEF Types
  <2>16. ASSUME NEW j \in DOMAIN clients
         PROVE  /\ clients'[j].close = IF j = old THEN "due" ELSE clients[j].close
                /\ clients'[j].connected = clients[j].connected /\ clients'[j].revived = clients[j].revived
    BY <2>3, <2>4
  <2>17. NoClientLeaks'
    <3>1. ASSUME NEW j \in DOMAIN clients PROVE table'[clients'[j].server] # j => clients'[j].close # "no"
      BY <2>8, <2>16, ZenonT(30) DEF NoClientLeaks, InTable
    <3> QED BY <2>4, <2>9, <3>1, ZenonT(30) DEF NoClientLeaks
  <2>18. Leaving'
    <3>1. old # 0 => old \in DOMAIN clients /\ clients[old].close = "no" /\ InTable(old)
      <4> SUFFICES ASSUME old # 0 PROVE old \in DOMAIN clients /\ clients[old].close = "no" /\ InTable(old)
        BY ZenonT(30)
      <4>1. old \in DOMAIN clients /\ InTable(old)
        BY <1>0, ZenonT(30) DEF Types, InTable
      <4>2. clients[old].close \in {"no", "due", "locked", "done"}
        BY <2>6, <4>1, ZenonT(30) DEF Clients
      <4> QED BY <1>4, <4>1, <4>2, ZenonT(30) DEF Leaving
    <3> DEFINE P(j) == /\ clients'[j].close \in {"due", "done"} => ~InTable(j)'
                       /\ clients'[j].close = "locked" /\ InTable(j)' => pool' = "closing"
                       /\ clients'[j].close = "done" /\ clients'[j].connected => clients'[j].revived
    <3>2. ASSUME NEW j \in DOMAIN clients PROVE P(j)
      BY <1>0, <1>4, <2>8, <2>16, <3>1, ZenonT(30) DEF Leaving
    <3>3. clients'[new].close = "no"
      BY <2>9, ZenonT(30)
    <3>4. ASSUME NEW j \in DOMAIN clients' PROVE P(j)
      BY <2>4, <3>2, <3>3, ZenonT(30)
    <3>5. pool' # "closed"
      BY <1>0, <1>4, ZenonT(30)
    <3> QED BY <3>4, <3>5, ZenonT(30) DEF Leaving
  <2>19. Fast'
    BY <1>0, <2>1, <2>13, FastOfTable, ZenonT(30) DEF Fast, InTable
  <2> QED BY <2>15, <2>17, <2>18, <2>19, ZenonT(30)
<1> QED BY <1>1, <1>3, <1>4, ZenonT(30) DEF AttachLocked, Types

-----------------------------------------------------------------------------
(* The theorems.                                                           *)

(* PoolInv is an invariant of the pool, its clients and handlers.          *)
THEOREM PoolInvariance == Spec => []PoolInv
<1>1. Init => PoolInv
  <2> SUFFICES ASSUME Init PROVE PoolInv
    BY ZenonT(30)
  <2>1. At("none") \in HandlerType /\ At("none").at = "none"
    BY ZenonT(30) DEF At, HandlerType
  <2>2. clients \in Seq(Clients) /\ DOMAIN clients = {}
    BY DEF Init
  <2>3. Types
    BY <2>1, <2>2, ZenonT(30) DEF Init, Types, Placed, Working
  <2>4. NoClientLeaks /\ Leaving
    BY <2>2, ZenonT(30) DEF Init, NoClientLeaks, Leaving
  <2>5. updateFastClient(table, fast) = 0
    <3>1. {v \in Servers : table[v] # 0} = {}
      BY ZenonT(30) DEF Init
    <3>2. Cardinality({v \in Servers : table[v] # 0}) = 0
      BY <3>1, FS_EmptySet, ZenonT(30)
    <3> QED BY <3>2 DEF updateFastClient
  <2>6. Fast
    BY <2>5, ZenonT(30) DEF Init, Fast
  <2> QED BY <2>3, <2>4, <2>6, ZenonT(30) DEF PoolInv
<1>2. PoolInv /\ [Next]_vars => PoolInv'
  <2> SUFFICES ASSUME PoolInv, [Next]_vars PROVE PoolInv'
    BY ZenonT(30)
  <2>1. ASSUME NEW x \in Streams, Handler(x) \/ ReceiveStopped(x) PROVE PoolInv'
    BY <2>1, AttachStep, HandlerStep, BindStep, DetachStep, ZenonT(30) DEF Handler
  <2>2. CASE UNCHANGED vars
    BY <2>2, QuietPool, ZenonT(30) DEF vars, PoolInv, Types
  <2> QED BY <2>1, <2>2, OutsideStep, DetachStep, CloseStep, ZenonT(30) DEF Next
<1>3. Init /\ [][Next]_vars => []PoolInv
  BY <1>1, <1>2, PTL
<1> QED BY <1>3, PTL DEF Spec

(* A client that has left the table has been closed or is about to be      *)
(* (Attach's replacement, LogicClientPool.Close), whatever the servers     *)
(* dial.                                                                   *)
THEOREM ClientsDoNotLeak == Spec => []NoClientLeaks
<1>1. PoolInv => NoClientLeaks
  BY ZenonT(30) DEF PoolInv
<1> QED BY <1>1, PoolInvariance, PTL

(* Neither the client a connection has cached nor the one the table gives  *)
(* it is one whose Close is over, unless a stream was attached to it       *)
(* across Close (GetClient, the cached client of Process).                 *)
THEOREM ForwardingFindsOpen == Spec => []ForwardsToOpen
<1>1. PoolInv => ForwardsToOpen
  <2> SUFFICES ASSUME PoolInv, Chosen # 0 PROVE clients[Chosen].close # "done" \/ clients[Chosen].revived
    BY ZenonT(30) DEF ForwardsToOpen
  <2>1. Chosen \in DOMAIN clients /\ clients[Chosen].connected
    BY PoolAssumption, ZenonT(30) DEF PoolInv, Types, Chosen, GetClient
  <2> QED BY <2>1, ZenonT(30) DEF PoolInv, Leaving
<1> QED BY <1>1, PoolInvariance, PTL

(* The lock-free answer of IsConnected is the one the table gives under    *)
(* its lock (updateFastClient), with the same exception.                   *)
THEOREM FastPathIsRight == Spec => []FastPathAgrees
<1>1. PoolInv => FastPathAgrees
  <2> SUFFICES ASSUME PoolInv, pool # "closing"
               PROVE  \/ IsConnected <=> \E v \in Servers : GetClient(v) # 0
                      \/ fast # 0 /\ clients[fast].revived
    BY ZenonT(30) DEF FastPathAgrees
  <2>1. CASE fast = 0
    BY <2>1, ZenonT(30) DEF IsConnected
  <2>2. CASE fast # 0 /\ pool = "open"
    <3>1. fast = updateFastClient(table, fast) /\ table \in [Servers -> Nat]
      BY <2>2, ZenonT(30) DEF PoolInv, Fast, Types
    <3>2. PICK v \in Servers : table[v] = fast /\ \A w \in Servers : table[w] # 0 => w = v
      BY <2>2, <3>1, FastIsTheOnly
    <3> QED BY <2>2, <3>2, ZenonT(30) DEF IsConnected, GetClient
  <2>3. CASE fast # 0 /\ pool = "closed"
    <3>1. \A v \in Servers : table[v] = 0
      BY <2>3, ZenonT(30) DEF PoolInv, Leaving
    <3>2. fast \in DOMAIN clients /\ clients[fast] \in Clients
      BY <2>3 DEF PoolInv, Types
    <3>3. clients[fast].server \in Servers /\ fast # 0
      BY <2>3, <3>2, ZenonT(30) DEF Clients
    <3>4. clients[fast].close = "done"
      BY <2>3, <3>1, <3>3, ZenonT(30) DEF PoolInv, Fast, InTable
    <3> QED BY <2>3, <3>1, <3>2, <3>4, ZenonT(30) DEF PoolInv, Leaving, IsConnected, GetClient
  <2> QED BY <2>1, <2>2, <2>3, ZenonT(30) DEF PoolInv, Types
<1> QED BY <1>1, PoolInvariance, PTL
=============================================================================
