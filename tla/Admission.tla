------------------------------ MODULE Admission ------------------------------
(***************************************************************************)
(* Connection admission (connection/manager.go, gateway/handlers.go): the  *)
(* total and the per-address counters of the ConnectionManager.  An event  *)
(* loop reads the counters in CanAccept and raises them in AddConnection,  *)
(* in steps that other loops see; behind a proxy it later moves the        *)
(* connection to the address of the real client; removal lowers the        *)
(* counters, on the loop or on an idle checker's goroutine.                *)
(***************************************************************************)
EXTENDS Integers, FiniteSets

CONSTANTS Conns,   \* connections that arrive
          Loops,   \* event loops
          IPs,     \* addresses
          MaxConns, MaxPerIP,  \* maxConnections, maxConnectionsPerIP
          None     \* no connection, no address

ASSUME AdmissionAssumption ==
  /\ IsFiniteSet(Conns) /\ IsFiniteSet(Loops) /\ Loops # {}
  /\ MaxConns \in Nat \ {0} /\ MaxPerIP \in Nat \ {0}
  /\ None \notin Conns \cup IPs

VARIABLES lpc,     \* what each event loop is doing
          at,      \* with which connection
          to,      \* moving it to which address
          state,   \* each connection: new, refused, open, deleted, lowered, gone
          ip,      \* its remote address
          count,   \* ConnectionManager.count
          ipConnections,  \* ConnectionManager.ipConnections
          crossed  \* connections removed while a loop was moving them (history)

vars == <<lpc, at, to, state, ip, count, ipConnections, crossed>>

TypeOK ==
  /\ lpc \in [Loops -> {"idle", "perIP", "add", "addIP", "drop", "raise", "set"}]
  /\ at \in [Loops -> Conns \cup {None}]
  /\ to \in [Loops -> IPs \cup {None}]
  /\ state \in [Conns -> {"new", "refused", "open", "deleted", "lowered", "gone"}]
  /\ ip \in [Conns -> IPs]
  /\ count \in Int
  /\ ipConnections \in [IPs -> Nat]
  /\ crossed \subseteq Conns

Init ==
  /\ lpc = [l \in Loops |-> "idle"]
  /\ at = [l \in Loops |-> None]
  /\ to = [l \in Loops |-> None]
  /\ state = [c \in Conns |-> "new"]
  /\ ip \in [Conns -> IPs]
  /\ count = 0
  /\ ipConnections = [i \in IPs |-> 0]
  /\ crossed = {}

Busy(c) == \E l \in Loops : at[l] = c

\* incrementIP and decrementIP; an address at zero leaves the map.
incrementIP(i) == ipConnections' = [ipConnections EXCEPT ![i] = @ + 1]

\* Mutant: an address leaves the map one connection early.
decrementIPEarly(i) ==
  ipConnections' = [ipConnections EXCEPT ![i] = IF @ <= 2 THEN 0 ELSE @ - 1]

decrementIP(i) == ipConnections' = [ipConnections EXCEPT ![i] = IF @ <= 1 THEN 0 ELSE @ - 1]

Step(l, from, next) == lpc[l] = from /\ lpc' = [lpc EXCEPT ![l] = next]

\* The loop is done with its connection.
Done(l, from) ==
  /\ Step(l, from, "idle")
  /\ at' = [at EXCEPT ![l] = None]
  /\ to' = [to EXCEPT ![l] = None]

-----------------------------------------------------------------------------
(* OnOpen: CanAccept, then AddConnection.                                  *)

\* Mutant: one connection too many.
CanAcceptEqual(l, c) ==
  /\ state[c] = "new" /\ ~Busy(c)
  /\ \/ /\ count > MaxConns /\ lpc[l] = "idle"
        /\ state' = [state EXCEPT ![c] = "refused"]
        /\ UNCHANGED <<lpc, at>>
     \/ /\ count <= MaxConns /\ Step(l, "idle", "perIP")
        /\ at' = [at EXCEPT ![l] = c]
        /\ UNCHANGED state
  /\ UNCHANGED <<to, ip, count, ipConnections, crossed>>

CanAccept(l, c) ==
  /\ state[c] = "new" /\ ~Busy(c)
  /\ \/ /\ count >= MaxConns /\ lpc[l] = "idle"
        /\ state' = [state EXCEPT ![c] = "refused"]
        /\ UNCHANGED <<lpc, at>>
     \/ /\ count < MaxConns /\ Step(l, "idle", "perIP")
        /\ at' = [at EXCEPT ![l] = c]
        /\ UNCHANGED state
  /\ UNCHANGED <<to, ip, count, ipConnections, crossed>>

CanAcceptIP(l) ==
  /\ LET c == at[l]
     IN  \/ /\ Done(l, "perIP")
            /\ ipConnections[ip[c]] >= MaxPerIP
            /\ state' = [state EXCEPT ![c] = "refused"]
         \/ /\ Step(l, "perIP", "add")
            /\ ipConnections[ip[c]] < MaxPerIP
            /\ UNCHANGED <<at, to, state>>
  /\ UNCHANGED <<ip, count, ipConnections, crossed>>

AddConnection(l) ==
  /\ Step(l, "add", "addIP")
  /\ state' = [state EXCEPT ![at[l]] = "open"]
  /\ count' = count + 1
  /\ UNCHANGED <<at, to, ip, ipConnections, crossed>>

AddIP(l) ==
  /\ Done(l, "addIP")
  /\ incrementIP(ip[at[l]])
  /\ UNCHANGED <<state, ip, count, crossed>>

-----------------------------------------------------------------------------
(* UpdateConnectionIP, of a WebSocket handshake or a PROXY header.         *)

UpdateConnectionIP(l, c, i) ==
  /\ Step(l, "idle", "drop")
  /\ state[c] = "open" /\ ~Busy(c) /\ ip[c] # i
  /\ at' = [at EXCEPT ![l] = c]
  /\ to' = [to EXCEPT ![l] = i]
  /\ UNCHANGED <<state, ip, count, ipConnections, crossed>>

DropOld(l) ==
  /\ Step(l, "drop", "raise")
  /\ decrementIP(ip[at[l]])
  /\ UNCHANGED <<at, to, state, ip, count, crossed>>

RaiseNew(l) ==
  /\ Step(l, "raise", "set")
  /\ incrementIP(to[l])
  /\ UNCHANGED <<at, to, state, ip, count, crossed>>

SetRemoteHost(l) ==
  /\ Done(l, "set")
  /\ ip' = [ip EXCEPT ![at[l]] = to[l]]
  /\ UNCHANGED <<state, count, ipConnections, crossed>>

-----------------------------------------------------------------------------
(* RemoveConnection.  A checker may remove a connection its loop is moving, *)
(* but not one that is just being opened: it is not idle yet.              *)

Delete(c) ==
  /\ state[c] = "open"
  /\ ~\E l \in Loops : at[l] = c /\ lpc[l] = "addIP"
  /\ state' = [state EXCEPT ![c] = "deleted"]
  /\ crossed' = IF Busy(c) THEN crossed \cup {c} ELSE crossed
  /\ UNCHANGED <<lpc, at, to, ip, count, ipConnections>>

LowerIP(c) ==
  /\ state[c] = "deleted"
  /\ state' = [state EXCEPT ![c] = "lowered"]
  /\ decrementIP(ip[c])
  /\ UNCHANGED <<lpc, at, to, ip, count, crossed>>

\* Mutant: the counter is lowered without the connection being done with.
LowerCountTwice(c) ==
  /\ state[c] \in {"deleted", "lowered"}
  /\ state' = IF state[c] = "lowered" THEN [state EXCEPT ![c] = "gone"] ELSE state
  /\ count' = count - 1
  /\ UNCHANGED <<lpc, at, to, ip, ipConnections, crossed>>

LowerCount(c) ==
  /\ state[c] = "lowered"
  /\ state' = [state EXCEPT ![c] = "gone"]
  /\ count' = count - 1
  /\ UNCHANGED <<lpc, at, to, ip, ipConnections, crossed>>

-----------------------------------------------------------------------------
Next ==
  \/ \E l \in Loops :
       \/ CanAcceptIP(l) \/ AddConnection(l) \/ AddIP(l)
       \/ DropOld(l) \/ RaiseNew(l) \/ SetRemoteHost(l)
       \/ \E c \in Conns : CanAccept(l, c) \/ \E i \in IPs : UpdateConnectionIP(l, c, i)
  \/ \E c \in Conns : Delete(c) \/ LowerIP(c) \/ LowerCount(c)

Spec == Init /\ [][Next]_vars

-----------------------------------------------------------------------------
Live == {c \in Conns : state[c] \in {"open", "deleted", "lowered"}}

(* The counter is the number of connections added whose removal is not     *)
(* complete, whatever loops and checkers do at once.                       *)
CountExact == count = Cardinality(Live)

(* The check and the increment are apart, so the limit can be passed, but  *)
(* by less than the number of event loops.                                 *)
AdmissionBound == count <= MaxConns + Cardinality(Loops) - 1

\* The address that counts a connection at the moment, if one does.
CountedAt(c) ==
  IF \E l \in Loops : at[l] = c /\ lpc[l] \in {"addIP", "raise"} THEN None
  ELSE IF \E l \in Loops : at[l] = c /\ lpc[l] = "set"
       THEN to[CHOOSE l \in Loops : at[l] = c]
       ELSE IF state[c] \in {"open", "deleted"} THEN ip[c] ELSE None

(* As long as no connection is removed while its loop moves it to another  *)
(* address, each address counts exactly its connections.                   *)
IPExact ==
  crossed = {} => \A i \in IPs : ipConnections[i] = Cardinality({c \in Conns : CountedAt(c) = i})
=============================================================================
