---------------------------- MODULE DialerProofs ----------------------------
(***************************************************************************)
(* For any number of streams, sessions, users and registry events: a       *)
(* gateway address has one dial loop, which stays as long as the address   *)
(* is registered; so a shard has one stream at a time, and the end of a    *)
(* stream cleans up after its own sessions and leaves nothing behind.      *)
(***************************************************************************)
EXTENDS Dialer, FiniteSetTheorems, TLAPS

USE SMTT(30), ZenonT(30)

-----------------------------------------------------------------------------
(* The inductive invariant.                                                *)

\* A handler at these points works on a message of a session of its stream.
Processing == {"register", "unmap", "back", "unback", "dispatch", "wait", "unregister", "unpair"}

Kinds == (UNION {s.kinds : s \in Scenes}) \cup {None}

HandlerStates == Processing \cup {"off", "recv", "drop", "forget", "leave"}

Handlers == [at : HandlerStates, kind : Kinds,
             sess : Sessions \cup {None}, user : Users \cup {None},
             old : Sessions \cup Users \cup {None}, n : Nat]

LinkStates == {"none", "top", "check", "start", "dial", "run", "drain", "end", "backoff", "leave", "gone"}

GateLinks == [at : LinkStates, stale : BOOLEAN, cancel : BOOLEAN, cancelled : BOOLEAN,
              overdue : BOOLEAN, streams : SUBSET Streams]

Types ==
  /\ scene \in Scenes
  /\ st \in [Streams -> Handlers]
  /\ bound \in [Streams -> SUBSET Sessions]
  /\ sess \in [Sessions -> Streams \cup {None}]
  /\ us \in [Users -> Sessions \cup {None}] /\ su \in [Sessions -> Users \cup {None}]
  /\ count \in [msgs : Nat, calls : Nat, breaks : Nat]
  /\ link \in [Links -> GateLinks]
  /\ gate \in Links \cup {0}
  /\ event \in [at : {"idle", "mark"}, left : Nat, gate : Links \cup {0}]
  /\ registered \in BOOLEAN /\ missed \in BOOLEAN
  /\ stop \in {"no", "wait", "loops", "done"}

\* gates holds the one link whose loop runs, a link that never ran is not
\* stale, and a link is marked stale only for an address not registered.
OneLink ==
  /\ \A l \in Links : link[l].at \notin {"none", "gone"} <=> gate = l
  /\ \A l \in Links : link[l].at = "none" => ~link[l].stale
  /\ event.at = "mark" => ~registered /\ event.gate \in Links /\ link[event.gate].at # "none"
  /\ stop \in {"loops", "done"} => gate = 0

\* A stream belongs to the session that runs, which has one for a shard.
OneStream ==
  /\ \A t \in Streams : st[t].at # "off" =>
       \E l \in Links : link[l].at \in {"run", "drain"} /\ t \in link[l].streams
  /\ \A t, r \in Streams : st[t].at # "off" /\ st[r].at # "off" /\ Shard[t] = Shard[r] => t = r

\* The maps of sessions agree with the stream that has them.
Bindings ==
  /\ \A t \in Streams : \A x \in bound[t] : Home[x] = Shard[t] /\ st[t].at # "off"
  /\ \A x \in Sessions : sess[x] # None => x \in bound[sess[x]]
  /\ \A t \in Streams : st[t].at \in Processing => st[t].sess \in bound[t]
  /\ \A t \in Streams : st[t].at \in {"register", "unmap", "back"} => st[t].user # None
  /\ \A t \in Streams : st[t].at \in {"forget", "leave"} =>
       st[t].sess \in Sessions \ bound[t] /\ Home[st[t].sess] = Shard[t]
  /\ \A t \in Streams : st[t].at = "leave" => su[st[t].sess] = None

DInv == Types /\ OneLink /\ RegisteredIsDialed /\ OneStream /\ Bindings /\ NothingLeftBehind

-----------------------------------------------------------------------------
(* Types.                                                                  *)

\* The handler of t moves to a, on the session x; the others stay.
Moves(t, a, x) ==
  /\ st' \in [Streams -> Handlers]
  /\ st'[t].at = a /\ st'[t].sess = x
  /\ \A r \in Streams \ {t} : st'[r] = st[r]

\* The record of a stream without a handler, and of one that only receives.
LEMMA HandlerTypes ==
  /\ Off \in Handlers /\ Off.at = "off" /\ Off.sess = None
  /\ LET h == [Off EXCEPT !.at = "recv"] IN h \in Handlers /\ h.at = "recv" /\ h.sess = None
<1>1. None \in Kinds /\ "off" \in HandlerStates /\ "recv" \in HandlerStates
  BY ZenonT(30) DEF Kinds, HandlerStates
<1> QED BY <1>1, ZenonT(30) DEF Off, Handlers

\* A handler that is given a new record is where the record says.
LEMMA HandlerMoves ==
  ASSUME Types, NEW t \in Streams, NEW h \in Handlers, st' = [st EXCEPT ![t] = h]
  PROVE  Moves(t, h.at, h.sess) /\ st'[t].user = h.user
BY ZenonT(30) DEF Types, Moves

\* A handler that has dealt with a message receives the next one.
LEMMA DoneMoves ==
  ASSUME Types, NEW t \in Streams, Done(t)
  PROVE  Moves(t, "recv", None)
<1> DEFINE h == [Off EXCEPT !.at = "recv"]
<1>1. h \in Handlers /\ h.at = "recv" /\ h.sess = None
  BY HandlerTypes, ZenonT(30)
<1>2. st' = [st EXCEPT ![t] = h]
  BY ZenonT(30) DEF Done
<1> HIDE DEF h
<1> QED BY <1>1, <1>2, HandlerMoves, ZenonT(30)

\* A handler that goes on keeps its session and its user.
LEMMA GotoMoves ==
  ASSUME Types, NEW t \in Streams, NEW a \in HandlerStates, Goto(t, a)
  PROVE  Moves(t, a, st[t].sess) /\ st'[t].user = st[t].user
<1> DEFINE h == [st[t] EXCEPT !.at = a]
<1>1. h \in Handlers /\ h.at = a /\ h.sess = st[t].sess /\ h.user = st[t].user
  BY DEF Types, Handlers
<1>2. st' = [st EXCEPT ![t] = h]
  BY ZenonT(30) DEF Goto
<1> HIDE DEF h
<1> QED BY <1>1, <1>2, HandlerMoves, ZenonT(30)

\* A handler that remembers what it displaced keeps its session and its user.
LEMMA OldMoves ==
  ASSUME Types, NEW t \in Streams, NEW a \in HandlerStates, NEW o \in Sessions \cup Users \cup {None},
         st' = [st EXCEPT ![t].at = a, ![t].old = o]
  PROVE  Moves(t, a, st[t].sess) /\ st'[t].user = st[t].user
<1> DEFINE h == [[st[t] EXCEPT !.at = a] EXCEPT !.old = o]
<1>1. h \in Handlers /\ h.at = a /\ h.sess = st[t].sess /\ h.user = st[t].user
  BY ZenonT(30) DEF Types, Handlers
<1>2. st' = [st EXCEPT ![t] = h]
  BY ZenonT(30) DEF Types
<1> HIDE DEF h
<1> QED BY <1>1, <1>2, HandlerMoves, ZenonT(30)

\* The cleanup of a broken stream turns to its next session.
LEMMA DropMoves ==
  ASSUME Types, NEW t \in Streams, NEW x \in Sessions,
         st' = [st EXCEPT ![t].at = "forget", ![t].sess = x]
  PROVE  Moves(t, "forget", x)
<1> DEFINE h == [[st[t] EXCEPT !.at = "forget"] EXCEPT !.sess = x]
<1>1. h \in Handlers /\ h.at = "forget" /\ h.sess = x
  BY ZenonT(30) DEF Types, Handlers, HandlerStates
<1>2. st' = [st EXCEPT ![t] = h]
  BY ZenonT(30) DEF Types
<1> HIDE DEF h
<1> QED BY <1>1, <1>2, HandlerMoves, ZenonT(30)

(* Every step of a handler, by where it goes.                              *)
LEMMA StreamMoves ==
  ASSUME Types, Bindings, NEW t \in Streams
  PROVE  /\ SwapUser(t) => /\ Moves(t, "back", st[t].sess) \/ Moves(t, "unmap", st[t].sess)
                           /\ st'[t].user = st[t].user
         /\ UnmapSession(t) => Moves(t, "back", st[t].sess) /\ st'[t].user = st[t].user
         /\ SwapSession(t) => Moves(t, "dispatch", st[t].sess) \/ Moves(t, "unback", st[t].sess)
         /\ UnmapUser(t) => Moves(t, "dispatch", st[t].sess)
         /\ JoinGroup(t) \/ LeaveGroup(t) \/ WaitForRoom(t) \/ UnpairSession(t) => Moves(t, "recv", None)
         /\ Respond(t) => Moves(t, "recv", None) \/ Moves(t, "wait", st[t].sess)
         /\ Offline(t) => Moves(t, "unregister", st[t].sess)
         /\ UnregisterUser(t) => Moves(t, "recv", None) \/ Moves(t, "unpair", st[t].sess)
         /\ ForgetUser(t) => Moves(t, "leave", st[t].sess)
         /\ LeaveGroups(t) => Moves(t, "drop", st[t].sess)
         /\ EndStream(t) => Moves(t, "off", None)
<1>0. HandlerStates = {"register", "unmap", "back", "unback", "dispatch", "wait", "unregister", "unpair",
                       "off", "recv", "drop", "forget", "leave"}
  BY ZenonT(30) DEF HandlerStates, Processing
<1> USE <1>0
<1>1. ASSUME SwapUser(t)
      PROVE  /\ Moves(t, "back", st[t].sess) \/ Moves(t, "unmap", st[t].sess)
             /\ st'[t].user = st[t].user
  <2>1. us[st[t].user] \in Sessions \cup {None}
    BY <1>1 DEF SwapUser, Types, Handlers, Bindings
  <2> QED BY <1>1, <2>1, OldMoves, ZenonT(30) DEF SwapUser
<1>2. ASSUME SwapSession(t)
      PROVE  Moves(t, "dispatch", st[t].sess) \/ Moves(t, "unback", st[t].sess)
  <2>1. su[st[t].sess] \in Users \cup {None}
    BY <1>2 DEF SwapSession, Types, Bindings, Processing
  <2> QED BY <1>2, <2>1, OldMoves, ZenonT(30) DEF SwapSession
<1>3. /\ UnmapSession(t) => Moves(t, "back", st[t].sess) /\ st'[t].user = st[t].user
      /\ UnmapUser(t) => Moves(t, "dispatch", st[t].sess)
      /\ Offline(t) => Moves(t, "unregister", st[t].sess)
      /\ ForgetUser(t) => Moves(t, "leave", st[t].sess)
      /\ LeaveGroups(t) => Moves(t, "drop", st[t].sess)
  BY GotoMoves, ZenonT(30) DEF UnmapSession, UnmapUser, Offline, ForgetUser, LeaveGroups
<1>4. /\ JoinGroup(t) \/ LeaveGroup(t) \/ WaitForRoom(t) \/ UnpairSession(t) => Moves(t, "recv", None)
      /\ Respond(t) => Moves(t, "recv", None) \/ Moves(t, "wait", st[t].sess)
  BY DoneMoves, GotoMoves, ZenonT(30) DEF JoinGroup, LeaveGroup, WaitForRoom, UnpairSession, Respond
<1>5. ASSUME UnregisterUser(t)
      PROVE  Moves(t, "recv", None) \/ Moves(t, "unpair", st[t].sess)
  <2>1. CASE Done(t)
    BY <2>1, DoneMoves, ZenonT(30)
  <2>2. CASE /\ st[t].user # None
             /\ st' = [st EXCEPT ![t].at = "unpair", ![t].old = us[st[t].user]]
    <3>1. us[st[t].user] \in Sessions \cup {None}
      BY <2>2, ZenonT(30) DEF Types, Handlers
    <3> QED BY <2>2, <3>1, OldMoves, ZenonT(30)
  <2> QED BY <1>5, <2>1, <2>2, ZenonT(30) DEF UnregisterUser
<1>6. ASSUME EndStream(t) PROVE Moves(t, "off", None)
  BY <1>6, HandlerTypes, ZenonT(30) DEF EndStream, Moves, Types
<1> QED BY <1>1, <1>2, <1>3, <1>4, <1>5, <1>6, ZenonT(30)

-----------------------------------------------------------------------------
(* The maps of the server.                                                 *)

MapTypes ==
  /\ bound \in [Streams -> SUBSET Sessions]
  /\ sess \in [Sessions -> Streams \cup {None}]
  /\ us \in [Users -> Sessions \cup {None}] /\ su \in [Sessions -> Users \cup {None}]
  /\ count \in [msgs : Nat, calls : Nat, breaks : Nat]

Maps == MapTypes /\ Bindings /\ NothingLeftBehind

\* What the maps are known to be before a step.
Before == Types /\ OneStream /\ Bindings /\ NothingLeftBehind

(* RegisterUser touches the two maps between users and sessions only, and  *)
(* the session it registers is bound to the stream.                        *)
LEMMA RegisterMaps ==
  ASSUME Before, NEW t \in Streams, SwapUser(t) \/ UnmapSession(t) \/ SwapSession(t) \/ UnmapUser(t)
  PROVE  Maps'
<1> USE ServerAssumption DEF Before, Maps
<1>0. /\ st[t].user \in Users \cup {None} /\ st[t].sess \in bound[t] /\ st[t].sess \in Sessions
      /\ st[t].at \notin {"off", "forget", "leave"}
  BY DEF SwapUser, UnmapSession, SwapSession, UnmapUser, Types, Handlers, Bindings, Processing
<1>1. CASE SwapUser(t)
  <2>1. MapTypes'
    BY <1>0, <1>1, ZenonT(30) DEF SwapUser, Types, MapTypes
  <2>2. /\ Moves(t, "back", st[t].sess) \/ Moves(t, "unmap", st[t].sess)
        /\ st'[t].user = st[t].user /\ st[t].user # None
    BY <1>1, StreamMoves, ZenonT(30) DEF SwapUser, Bindings
  <2>3. UNCHANGED <<bound, sess, su, members, late>>
    BY <1>1, ZenonT(30) DEF SwapUser
  <2>4. Bindings'
    BY <1>0, <2>2, <2>3 DEF Moves, Bindings, Processing
  <2>5. NothingLeftBehind'
    BY <1>0, <2>2, <2>3 DEF Moves, NothingLeftBehind, Cleaning
  <2> QED BY <2>1, <2>4, <2>5, ZenonT(30)
<1>2. CASE UnmapSession(t)
  <2>1. MapTypes'
    BY <1>0, <1>2, ZenonT(30) DEF UnmapSession, Types, MapTypes
  <2>2. Moves(t, "back", st[t].sess) /\ st'[t].user = st[t].user /\ st[t].user # None
    BY <1>2, StreamMoves, ZenonT(30) DEF UnmapSession, Bindings
  <2>3. UNCHANGED <<bound, sess, members, late>> /\ \A x \in Sessions : su[x] = None => su'[x] = None
    BY <1>2, ZenonT(30) DEF UnmapSession, Types
  <2>4. Bindings'
    <3>1. \A r \in Streams : st'[r].at = "leave" => st[r].at = "leave" /\ st'[r].sess = st[r].sess
      BY <2>2, ZenonT(30) DEF Moves
    <3>2. \A r \in Streams : st'[r].at = "leave" => su'[st'[r].sess] = None
      BY <2>3, <3>1, ZenonT(30) DEF Bindings
    <3> QED BY <1>0, <2>2, <2>3, <3>2 DEF Moves, Bindings, Processing
  <2>5. NothingLeftBehind'
    BY <1>0, <2>2, <2>3 DEF Moves, NothingLeftBehind, Cleaning
  <2> QED BY <2>1, <2>4, <2>5, ZenonT(30)
<1>3. CASE SwapSession(t)
  <2>1. MapTypes'
    BY <1>0, <1>3, ZenonT(30) DEF SwapSession, Types, MapTypes
  <2>2. Moves(t, "dispatch", st[t].sess) \/ Moves(t, "unback", st[t].sess)
    BY <1>3, StreamMoves, ZenonT(30)
  <2>3. /\ UNCHANGED <<bound, sess, members, late>>
        /\ \A x \in Sessions \ {st[t].sess} : su'[x] = su[x]
        /\ \A r \in Streams : st[r].at = "leave" => st[r].sess # st[t].sess
    BY <1>0, <1>3 DEF SwapSession, Types, OneStream, Bindings
  <2>4. Bindings'
    <3>1. \A r \in Streams : st'[r].at = "leave" => st[r].at = "leave" /\ st'[r].sess = st[r].sess
      BY <2>2, ZenonT(30) DEF Moves
    <3>2. ASSUME NEW r \in Streams, st'[r].at = "leave" PROVE su'[st'[r].sess] = None
      <4>1. st[r].sess \in Sessions /\ st[r].sess # st[t].sess /\ su[st[r].sess] = None
        BY <2>3, <3>1, <3>2, ZenonT(30) DEF Bindings
      <4> QED BY <2>3, <3>1, <3>2, <4>1, ZenonT(30)
    <3> QED BY <1>0, <2>2, <2>3, <3>2 DEF Moves, Bindings, Processing
  <2>5. NothingLeftBehind'
    BY <1>0, <2>2, <2>3 DEF Moves, NothingLeftBehind, Cleaning
  <2> QED BY <2>1, <2>4, <2>5, ZenonT(30)
<1>4. CASE UnmapUser(t)
  <2>1. MapTypes'
    BY <1>0, <1>4, ZenonT(30) DEF UnmapUser, Types, MapTypes
  <2>2. Moves(t, "dispatch", st[t].sess)
    BY <1>4, StreamMoves, ZenonT(30)
  <2>3. UNCHANGED <<bound, sess, su, members, late>>
    BY <1>4, ZenonT(30) DEF UnmapUser
  <2>4. Bindings'
    BY <1>0, <2>2, <2>3 DEF Moves, Bindings, Processing
  <2>5. NothingLeftBehind'
    BY <1>0, <2>2, <2>3 DEF Moves, NothingLeftBehind, Cleaning
  <2> QED BY <2>1, <2>4, <2>5, ZenonT(30)
<1> QED BY <1>1, <1>2, <1>3, <1>4, ZenonT(30)

(* The handlers of messages leave what a stream is bound to alone.         *)
LEMMA DispatchMaps ==
  ASSUME Before, NEW t \in Streams,
         \/ JoinGroup(t) \/ LeaveGroup(t) \/ Respond(t) \/ WaitForRoom(t)
         \/ Offline(t) \/ UnregisterUser(t) \/ UnpairSession(t)
  PROVE  Maps'
<1> USE ServerAssumption DEF Before, Maps
<1>0. /\ st[t].user \in Users \cup {None} /\ st[t].sess \in bound[t] /\ st[t].sess \in Sessions
      /\ st[t].at \notin {"off", "forget", "leave"}
  BY DEF JoinGroup, LeaveGroup, Respond, WaitForRoom, Offline, UnregisterUser, UnpairSession,
     Types, Handlers, Bindings, Processing
<1>1. CASE JoinGroup(t) \/ LeaveGroup(t) \/ Respond(t) \/ WaitForRoom(t)
  <2>1. UNCHANGED <<bound, sess, us, su, count, late>> /\ members' \subseteq members \cup {st[t].sess}
    BY <1>1, ZenonT(30) DEF JoinGroup, LeaveGroup, Respond, WaitForRoom
  <2>2. Moves(t, "recv", None) \/ Moves(t, "wait", st[t].sess)
    BY <1>1, StreamMoves, ZenonT(30)
  <2>3. MapTypes'
    BY <2>1, ZenonT(30) DEF Types, MapTypes
  <2>4. Bindings'
    BY <1>0, <2>1, <2>2 DEF Moves, Bindings, Processing
  <2>5. NothingLeftBehind'
    BY <1>0, <2>1, <2>2 DEF Moves, NothingLeftBehind, Cleaning
  <2> QED BY <2>3, <2>4, <2>5, ZenonT(30)
<1>2. CASE Offline(t)
  <2>1. MapTypes'
    BY <1>0, <1>2, ZenonT(30) DEF Offline, Types, MapTypes
  <2>2. Moves(t, "unregister", st[t].sess)
    BY <1>2, StreamMoves, ZenonT(30)
  <2>3. /\ UNCHANGED <<bound, su, late>> /\ members' \subseteq members
        /\ \A x \in Sessions : sess'[x] # None => sess'[x] = sess[x]
    BY <1>2, ZenonT(30) DEF Offline, leaveAllGroups, Types
  <2>4. Bindings'
    BY <1>0, <2>2, <2>3 DEF Moves, Bindings, Processing
  <2>5. NothingLeftBehind'
    BY <1>0, <2>2, <2>3 DEF Moves, NothingLeftBehind, Cleaning
  <2> QED BY <2>1, <2>4, <2>5, ZenonT(30)
<1>3. CASE UnregisterUser(t) \/ UnpairSession(t)
  <2>1. MapTypes'
    BY <1>0, <1>3 DEF UnregisterUser, UnpairSession, Types, MapTypes
  <2>2. \A x \in Sessions : su[x] = None => su'[x] = None
    BY <1>3 DEF UnregisterUser, UnpairSession, Types
  <2>3. UNCHANGED <<bound, sess, members, late>>
    BY <1>3, ZenonT(30) DEF UnregisterUser, UnpairSession
  <2>4. Moves(t, "recv", None) \/ Moves(t, "unpair", st[t].sess)
    BY <1>3, StreamMoves, ZenonT(30)
  <2>5. Bindings'
    BY <1>0, <2>2, <2>3, <2>4 DEF Moves, Bindings, Processing
  <2>6. NothingLeftBehind'
    BY <1>0, <2>2, <2>3, <2>4 DEF Moves, NothingLeftBehind, Cleaning
  <2> QED BY <2>1, <2>5, <2>6, ZenonT(30)
<1> QED BY <1>1, <1>2, <1>3, ZenonT(30)

(* The cleanup of a stream takes one session after the other from what the *)
(* stream is bound to, and is done with it when its user and groups are.   *)
LEMMA CleanupMaps ==
  ASSUME Before, NEW t \in Streams, DropSession(t) \/ ForgetUser(t) \/ LeaveGroups(t) \/ EndStream(t)
  PROVE  Maps' /\ st' \in [Streams -> Handlers] /\ \A r \in Streams : st'[r].at # "off" => st[r].at # "off"
<1> USE ServerAssumption DEF Before, Maps
<1>1. CASE DropSession(t)
  <2>1. PICK x \in bound[t] : /\ sess' = [sess EXCEPT ![x] = IF @ = t THEN None ELSE @]
                              /\ bound' = [bound EXCEPT ![t] = @ \ {x}]
                              /\ st' = [st EXCEPT ![t].at = "forget", ![t].sess = x]
    BY <1>1, ZenonT(30) DEF DropSession
  <2>2. x \in Sessions /\ Home[x] = Shard[t]
    BY DEF Types, Bindings
  <2>3. Moves(t, "forget", x) /\ st[t].at = "drop" /\ UNCHANGED <<us, su, members, late, count>>
    BY <1>1, <2>1, <2>2, DropMoves, ZenonT(30) DEF DropSession
  <2>4. /\ bound'[t] = bound[t] \ {x} /\ \A r \in Streams \ {t} : bound'[r] = bound[r]
        /\ \A y \in Sessions : sess'[y] # None => sess'[y] = sess[y] /\ ~(y = x /\ sess[y] = t)
    BY <2>1, <2>2, ZenonT(30) DEF Types
  <2>5. MapTypes'
    BY <2>1, <2>2, <2>3, ZenonT(30) DEF Types, MapTypes
  <2> HIDE <2>1
  <2>6. Bindings'
    <3>1. \A r \in Streams : \A y \in bound'[r] : Home[y] = Shard[r] /\ st'[r].at # "off"
      BY <2>3, <2>4 DEF Moves, Bindings
    <3>2. ASSUME NEW y \in Sessions, sess'[y] # None PROVE y \in bound'[sess'[y]]
      <4>1. sess[y] \in Streams /\ y \in bound[sess[y]] /\ sess'[y] = sess[y] /\ ~(y = x /\ sess[y] = t)
        BY <2>4, <3>2 DEF Types, Bindings
      <4> QED BY <2>4, <4>1, ZenonT(30)
    <3>3. \A r \in Streams \ {t} : st'[r] = st[r] /\ bound'[r] = bound[r]
      BY <2>3, <2>4, ZenonT(30) DEF Moves
    <3>4. st'[t].at = "forget" /\ st'[t].sess = x
      BY <2>3, ZenonT(30) DEF Moves
    <3> QED BY <2>2, <2>3, <2>4, <3>1, <3>2, <3>3, <3>4 DEF Bindings, Processing
  <2>7. NothingLeftBehind'
    BY <2>2, <2>3, <2>4 DEF Moves, NothingLeftBehind, Cleaning
  <2> QED BY <2>3, <2>5, <2>6, <2>7, ZenonT(30) DEF Moves
<1>2. CASE ForgetUser(t)
  <2>1. /\ Moves(t, "leave", st[t].sess) /\ st[t].at = "forget"
        /\ UNCHANGED <<bound, sess, members, late, count>>
    BY <1>2, StreamMoves, ZenonT(30) DEF ForgetUser
  <2>2. MapTypes'
    BY <1>2, ZenonT(30) DEF ForgetUser, Types, MapTypes
  <2>3. st[t].sess \in Sessions /\ \A x \in Sessions : su'[x] = IF x = st[t].sess THEN None ELSE su[x]
    BY <1>2, <2>1 DEF ForgetUser, Types, Bindings
  <2>4. Bindings'
    BY <2>1, <2>3 DEF Moves, Bindings, Processing
  <2>5. NothingLeftBehind'
    BY <2>1, <2>3 DEF Moves, NothingLeftBehind, Cleaning
  <2> QED BY <2>1, <2>2, <2>4, <2>5, ZenonT(30) DEF Moves
<1>3. CASE LeaveGroups(t)
  <2>1. /\ Moves(t, "drop", st[t].sess) /\ st[t].at = "leave" /\ su[st[t].sess] = None
        /\ UNCHANGED <<bound, sess, us, su, late, count>> /\ members' = members \ {st[t].sess}
    BY <1>3, StreamMoves, ZenonT(30) DEF LeaveGroups, leaveAllGroups, Bindings
  <2>2. MapTypes'
    BY <2>1, ZenonT(30) DEF Types, MapTypes
  <2>3. Bindings'
    BY <2>1 DEF Moves, Bindings, Processing
  <2>4. NothingLeftBehind'
    BY <2>1 DEF Moves, NothingLeftBehind, Cleaning
  <2> QED BY <2>1, <2>2, <2>3, <2>4, ZenonT(30) DEF Moves
<1>4. CASE EndStream(t)
  <2>1. /\ Moves(t, "off", None) /\ st[t].at = "drop" /\ bound[t] = {}
        /\ UNCHANGED <<bound, sess, us, su, members, late, count>>
    BY <1>4, StreamMoves, ZenonT(30) DEF EndStream
  <2>2. MapTypes'
    BY <2>1, ZenonT(30) DEF Types, MapTypes
  <2>3. Bindings'
    <3>1. st'[t].at = "off" /\ \A r \in Streams \ {t} : st'[r] = st[r]
      BY <2>1, ZenonT(30) DEF Moves
    <3>2. ASSUME NEW r \in Streams, NEW y \in bound'[r] PROVE Home[y] = Shard[r] /\ st'[r].at # "off"
      <4>1. y \in bound[r] /\ r # t
        BY <2>1, <3>2, ZenonT(30)
      <4> QED BY <3>1, <4>1, ZenonT(30) DEF Bindings
    <3> QED BY <2>1, <3>1, <3>2 DEF Bindings, Processing
  <2>4. NothingLeftBehind'
    BY <2>1 DEF Moves, NothingLeftBehind, Cleaning
  <2> QED BY <2>1, <2>2, <2>3, <2>4, ZenonT(30) DEF Moves
<1> QED BY <1>1, <1>2, <1>3, <1>4, ZenonT(30)

(* A message ties its session to the stream.                               *)
LEMMA ReceiveMaps ==
  ASSUME Before, NEW t \in Streams, NEW x \in Sessions, NEW u \in Users \cup {None}, NEW kind \in scene.kinds,
         Receive(t, x, u, kind)
  PROVE  Maps' /\ st' \in [Streams -> Handlers] /\ \A r \in Streams : st'[r].at # "off" => st[r].at # "off"
<1> USE ServerAssumption DEF Before, Maps
<1> DEFINE a == IF u = None THEN "dispatch" ELSE "register"
           h == [st[t] EXCEPT !.at = a, !.kind = kind, !.sess = x, !.user = u, !.n = count.msgs + 1]
<1>1. kind \in Kinds /\ count.msgs + 1 \in Nat /\ a \in HandlerStates
  BY DEF Types, Kinds, HandlerStates, Processing
<1>2. st' = [st EXCEPT ![t] = h]
  BY ZenonT(30) DEF Receive
<1>3. h \in Handlers /\ h.at = a /\ h.sess = x /\ h.user = u
  <2> HIDE DEF a
  <2>1. st[t] \in Handlers
    BY ZenonT(30) DEF Types
  <2> DEFINE h1 == [st[t] EXCEPT !.at = a, !.kind = kind, !.sess = x]
  <2>2. h1 \in Handlers /\ h1.at = a /\ h1.sess = x
    BY <1>1, <2>1, ZenonT(30) DEF Handlers
  <2>3. h = [h1 EXCEPT !.user = u, !.n = count.msgs + 1]
    BY ZenonT(30)
  <2> HIDE DEF h1, h
  <2> QED BY <1>1, <2>2, <2>3, ZenonT(30) DEF Handlers
<1>4. Moves(t, a, x) /\ st'[t].user = u
  <2> HIDE DEF h, a
  <2> QED BY <1>2, <1>3, HandlerMoves, ZenonT(30)
<1>5. a \in {"dispatch", "register"} /\ (a = "register" => u # None)
  BY ZenonT(30)
<1> HIDE DEF a, h
<1>6. /\ st[t].at = "recv" /\ Home[x] = Shard[t] /\ UNCHANGED <<us, su, members, late>>
      /\ bound'[t] = bound[t] \cup {x} /\ \A r \in Streams \ {t} : bound'[r] = bound[r]
      /\ sess'[x] = t /\ \A y \in Sessions \ {x} : sess'[y] = sess[y]
  BY ZenonT(30) DEF Receive, Types
<1>7. MapTypes'
  BY DEF Receive, Types, MapTypes
<1>8. Bindings'
  <2>1. st'[t].at = a /\ st'[t].sess = x /\ \A r \in Streams \ {t} : st'[r] = st[r]
    BY <1>4, ZenonT(30) DEF Moves
  <2>2. \A r \in Streams : \A y \in bound'[r] : Home[y] = Shard[r] /\ st'[r].at # "off"
    BY <1>5, <1>6, <2>1 DEF Bindings
  <2>3. ASSUME NEW y \in Sessions, sess'[y] # None PROVE y \in bound'[sess'[y]]
    <3>1. CASE y = x
      BY <1>6, <3>1, ZenonT(30)
    <3>2. CASE y # x
      <4>1. sess'[y] = sess[y] /\ sess[y] \in Streams /\ y \in bound[sess[y]]
        BY <1>6, <2>3, <3>2 DEF Types, Bindings
      <4>2. CASE sess[y] = t
        BY <1>6, <4>1, <4>2
      <4>3. CASE sess[y] # t
        BY <1>6, <4>1, <4>3, ZenonT(30)
      <4> QED BY <4>2, <4>3, ZenonT(30)
    <3> QED BY <3>1, <3>2, ZenonT(30)
  <2>4. \A r \in Streams : st'[r].at \in Processing => st'[r].sess \in bound'[r]
    BY <1>6, <2>1 DEF Bindings
  <2>5. \A r \in Streams : st'[r].at \in {"forget", "leave"} => r # t /\ st'[r] = st[r] /\ bound'[r] = bound[r]
    BY <1>5, <1>6, <2>1, ZenonT(30)
  <2>6. \A r \in Streams : st'[r].at \in {"register", "unmap", "back"} => st'[r].user # None
    BY <1>5, <1>4, <2>1 DEF Bindings
  <2> QED BY <1>6, <2>2, <2>3, <2>4, <2>5, <2>6 DEF Bindings
<1>9. NothingLeftBehind'
  BY <1>5, <1>4, <1>6 DEF Moves, NothingLeftBehind, Cleaning
<1> QED BY <1>5, <1>4, <1>6, <1>7, <1>8, <1>9, ZenonT(30) DEF Moves

(* A stream that fails only begins its cleanup.                            *)
LEMMA RecvErrorMaps ==
  ASSUME Before, NEW t \in Streams, RecvError(t) \/ RecvBroken(t)
  PROVE  Maps' /\ st' \in [Streams -> Handlers] /\ \A r \in Streams : st'[r].at # "off" => st[r].at # "off"
<1> USE ServerAssumption DEF Before, Maps
<1>1. Goto(t, "drop") /\ st[t].at = "recv" /\ UNCHANGED <<bound, sess, us, su, members, late>>
  BY ZenonT(30) DEF RecvError, RecvBroken
<1>2. Moves(t, "drop", st[t].sess)
  BY <1>1, GotoMoves, ZenonT(30) DEF HandlerStates
<1>3. MapTypes'
  BY DEF RecvError, RecvBroken, Types, MapTypes
<1>4. Bindings'
  BY <1>1, <1>2 DEF Moves, Bindings, Processing
<1>5. NothingLeftBehind'
  BY <1>1, <1>2 DEF Moves, NothingLeftBehind, Cleaning
<1> QED BY <1>1, <1>2, <1>3, <1>4, <1>5, ZenonT(30) DEF Moves

(* The send loops and the application change no binding; what joins the    *)
(* group for a user that has gone counts as late.                          *)
LEMMA AppMaps ==
  ASSUME Before,
         \/ StartPush \/ RetryPush \/ EndPush \/ JoinGroupForUser
         \/ \E u \in Users : LookUpUser(u)
         \/ \E x \in Sessions : PushToConnection(x)
         \/ \E t \in Streams : SendBatch(t)
  PROVE  Maps' /\ UNCHANGED st
<1> USE ServerAssumption DEF Before, Maps
<1>1. /\ UNCHANGED <<st, bound, sess, us, su>> /\ late \subseteq late'
      /\ \A x \in (members' \ late') \ (members \ late) : \E t \in Streams : x \in bound[t]
  BY ZenonT(30) DEF StartPush, RetryPush, EndPush, JoinGroupForUser, LookUpUser, PushToConnection, SendBatch
<1>2. count' \in [msgs : Nat, calls : Nat, breaks : Nat]
  <2>1. count' \in {count, [count EXCEPT !.calls = @ + 1], [count EXCEPT !.breaks = @ + 1]}
    BY ZenonT(30) DEF StartPush, RetryPush, EndPush, JoinGroupForUser, LookUpUser, PushToConnection, SendBatch
  <2> QED BY <2>1 DEF Types
<1>3. MapTypes'
  BY <1>1, <1>2, ZenonT(30) DEF Types, MapTypes
<1>4. Bindings'
  BY <1>1, ZenonT(30) DEF Bindings
<1>5. NothingLeftBehind'
  BY <1>1, ZenonT(30) DEF NothingLeftBehind, Cleaning
<1> QED BY <1>1, <1>3, <1>4, <1>5, ZenonT(30)

-----------------------------------------------------------------------------
(* The dial loop.                                                          *)

LinkTypes ==
  /\ link \in [Links -> GateLinks]
  /\ gate \in Links \cup {0}
  /\ event \in [at : {"idle", "mark"}, left : Nat, gate : Links \cup {0}]
  /\ registered \in BOOLEAN /\ missed \in BOOLEAN
  /\ stop \in {"no", "wait", "loops", "done"}

LinkInv == LinkTypes /\ OneLink /\ RegisteredIsDialed

\* A gateway link that AddGateway creates has no loop and no streams yet.
LEMMA NewLinkType == NewLink \in GateLinks /\ NewLink.at = "none" /\ ~NewLink.stale /\ NewLink.streams = {}
BY ZenonT(30) DEF NewLink, GateLinks, LinkStates

\* The loop of l moves to a.
Runs(l, a) ==
  /\ link' \in [Links -> GateLinks]
  /\ link'[l].at = a /\ link'[l].stale = link[l].stale
  /\ \A k \in Links \ {l} : link'[k] = link[k]

\* A loop that is given a new record is where the record says.
LEMMA LinkRuns ==
  ASSUME LinkTypes, NEW l \in Links, NEW g \in GateLinks, g.stale = link[l].stale,
         link' = [link EXCEPT ![l] = g]
  PROVE  Runs(l, g.at) /\ link'[l] = g
BY ZenonT(30) DEF LinkTypes, Runs

(* Where a loop goes.                                                      *)
LEMMA LoopRuns ==
  ASSUME LinkTypes, NEW l \in Links
  PROVE  /\ \A a \in LinkStates : At(l, a) => Runs(l, a) /\ link'[l].streams = link[l].streams
         /\ SetCancel(l) => Runs(l, "dial")
         /\ FirstExit(l) => Runs(l, "drain") /\ link'[l].streams = link[l].streams
         /\ EndSession(l) => Runs(l, IF stopped THEN "leave" ELSE "backoff")
<1>0. link[l] \in GateLinks /\ stopped \in BOOLEAN
  BY ZenonT(30) DEF LinkTypes, stopped
<1>1. ASSUME NEW a \in LinkStates, At(l, a) PROVE Runs(l, a) /\ link'[l].streams = link[l].streams
  <2> DEFINE g == [link[l] EXCEPT !.at = a]
  <2>1. g \in GateLinks /\ g.at = a /\ g.stale = link[l].stale /\ g.streams = link[l].streams
    BY <1>0, ZenonT(30) DEF GateLinks
  <2>2. link' = [link EXCEPT ![l] = g]
    BY <1>1, ZenonT(30) DEF At
  <2> HIDE DEF g
  <2> QED BY <2>1, <2>2, LinkRuns, ZenonT(30)
<1>2. ASSUME SetCancel(l) PROVE Runs(l, "dial")
  <2> DEFINE b == stopped
             g == [link[l] EXCEPT !.at = "dial", !.cancel = TRUE, !.cancelled = FALSE, !.overdue = b]
  <2>1. link' = [link EXCEPT ![l] = g]
    BY <1>2, ZenonT(30) DEF SetCancel
  <2> HIDE DEF b
  <2>2. b \in BOOLEAN
    BY <1>0, ZenonT(30) DEF b
  <2>3. g \in GateLinks /\ g.at = "dial" /\ g.stale = link[l].stale
    BY <1>0, <2>2, ZenonT(30) DEF GateLinks, LinkStates
  <2> HIDE DEF g
  <2> QED BY <2>1, <2>3, LinkRuns, ZenonT(30)
<1>3. ASSUME FirstExit(l) PROVE Runs(l, "drain") /\ link'[l].streams = link[l].streams
  <2> DEFINE g == [link[l] EXCEPT !.at = "drain", !.cancelled = TRUE]
  <2>1. g \in GateLinks /\ g.at = "drain" /\ g.stale = link[l].stale /\ g.streams = link[l].streams
    BY <1>0, ZenonT(30) DEF GateLinks, LinkStates
  <2>2. link' = [link EXCEPT ![l] = g]
    BY <1>3, ZenonT(30) DEF FirstExit
  <2> HIDE DEF g
  <2> QED BY <2>1, <2>2, LinkRuns, ZenonT(30)
<1>4. ASSUME EndSession(l) PROVE Runs(l, IF stopped THEN "leave" ELSE "backoff")
  <2> DEFINE a == IF stopped THEN "leave" ELSE "backoff"
             g == [NewLink EXCEPT !.at = a, !.stale = link[l].stale]
  <2>1. link' = [link EXCEPT ![l] = g]
    BY <1>4, ZenonT(30) DEF EndSession
  <2>2. a \in LinkStates
    BY ZenonT(30) DEF LinkStates
  <2>3. g \in GateLinks /\ g.at = a /\ g.stale = link[l].stale
    <3> HIDE DEF a
    <3> QED BY <1>0, <2>2, NewLinkType, ZenonT(30) DEF GateLinks
  <2> HIDE DEF a, g
  <2>4. Runs(l, a)
    BY <2>1, <2>3, LinkRuns, ZenonT(30)
  <2> QED BY <2>4, ZenonT(30) DEF a
<1> QED BY <1>1, <1>2, <1>3, <1>4, ZenonT(30)

(* A loop that runs keeps running, and leaves only when it is stale or     *)
(* the dialer is stopped: the one link stays the one in gates.             *)
LEMMA LoopKeeps ==
  ASSUME LinkInv, NEW l \in Links, NEW a \in LinkStates, Runs(l, a),
         link[l].at \notin {"none", "gone"}, a \notin {"none", "gone"},
         a = "leave" => stopped \/ link[l].stale \/ link[l].at = "leave",
         UNCHANGED <<gate, event, registered, missed, stop>>
  PROVE  LinkInv'
<1> USE DEF LinkInv
<1>1. LinkTypes'
  BY ZenonT(30) DEF Runs, LinkTypes
<1>2. gate = l /\ gate' = l
  BY ZenonT(30) DEF OneLink
<1>3. \A k \in Links : link'[k].at \notin {"none", "gone"} <=> gate = k
  BY <1>2, ZenonT(30) DEF Runs, OneLink
<1>4. \A k \in Links : link'[k].at = "none" => ~link'[k].stale
  BY ZenonT(30) DEF Runs, OneLink
<1>5. \A k \in Links : link[k].at # "none" => link'[k].at # "none"
  BY ZenonT(30) DEF Runs
<1>6. OneLink'
  BY <1>3, <1>4, <1>5, ZenonT(30) DEF OneLink
<1>7. RegisteredIsDialed'
  BY <1>2, ZenonT(30) DEF Runs, RegisteredIsDialed, stopped
<1> QED BY <1>1, <1>6, <1>7, ZenonT(30)

(* The link of an address registered anew is the one in gates.             *)
LEMMA RegisterKeeps ==
  ASSUME LinkInv, Register
  PROVE  LinkInv' /\ \A k \in Links : /\ link'[k].streams = link[k].streams
                                      /\ link[k].at \in {"run", "drain"} => link'[k].at = link[k].at
<1> USE DialerAssumption DEF LinkInv
<1>1. /\ event'.at = "idle" /\ event' \in [at : {"idle", "mark"}, left : Nat, gate : Links \cup {0}]
      /\ registered' = TRUE /\ stop' = stop
  BY DEF Register, LinkTypes
<1>2. CASE stopped
  <2>1. UNCHANGED <<link, gate, missed>>
    BY <1>2, ZenonT(30) DEF Register, ensureGate
  <2> QED BY <1>1, <1>2, <2>1, ZenonT(30) DEF LinkTypes, OneLink, RegisteredIsDialed, stopped
<1>3. CASE ~stopped /\ gate # 0
  <2> DEFINE g == [link[gate] EXCEPT !.stale = FALSE]
  <2>1. gate \in Links /\ gate' = gate /\ missed' = (link[gate].at = "leave") /\ link' = [link EXCEPT ![gate] = g]
    BY <1>3, ZenonT(30) DEF Register, ensureGate, LinkTypes
  <2>2. g \in GateLinks /\ g.at = link[gate].at /\ ~g.stale /\ g.streams = link[gate].streams
    BY <2>1, ZenonT(30) DEF LinkTypes, GateLinks
  <2> HIDE DEF g
  <2>3. /\ link' \in [Links -> GateLinks] /\ ~link'[gate].stale
        /\ \A k \in Links : link'[k].at = link[k].at /\ link'[k].streams = link[k].streams
        /\ \A k \in Links : link'[k].stale => link[k].stale
    BY <2>1, <2>2, ZenonT(30) DEF LinkTypes
  <2>4. LinkTypes'
    BY <1>1, <2>1, <2>3, ZenonT(30) DEF LinkTypes
  <2>5. OneLink'
    BY <1>1, <2>1, <2>3, ZenonT(30) DEF OneLink
  <2>6. RegisteredIsDialed'
    BY <1>1, <1>3, <2>1, <2>3, ZenonT(30) DEF RegisteredIsDialed, stopped
  <2> QED BY <2>3, <2>4, <2>5, <2>6, ZenonT(30)
<1>4. CASE ~stopped /\ gate = 0
  <2>1. PICK l \in Links : /\ link[l].at = "none" /\ gate' = l /\ missed' = FALSE
                           /\ link' = [link EXCEPT ![l].at = "top"]
    BY <1>4, ZenonT(30) DEF Register, ensureGate
  <2>2. Runs(l, "top") /\ link'[l].streams = link[l].streams
    BY <2>1, LoopRuns, ZenonT(30) DEF At, LinkStates
  <2>3. l # 0 /\ stop = "no"
    BY <1>4, ZenonT(30) DEF stopped
  <2>4. LinkTypes'
    BY <1>1, <2>1, <2>2, ZenonT(30) DEF LinkTypes, Runs
  <2>5. OneLink'
    BY <1>1, <1>4, <2>1, <2>2, <2>3, ZenonT(30) DEF OneLink, Runs
  <2>6. RegisteredIsDialed'
    BY <2>1, <2>2, <2>3, ZenonT(30) DEF RegisteredIsDialed, OneLink, Runs
  <2>7. \A k \in Links : /\ link'[k].streams = link[k].streams
                         /\ link[k].at \in {"run", "drain"} => link'[k].at = link[k].at
    BY <2>1, <2>2, ZenonT(30) DEF Runs
  <2> QED BY <2>4, <2>5, <2>6, <2>7, ZenonT(30)
<1> QED BY <1>2, <1>3, <1>4, ZenonT(30)

(* The other registry events, and Stop.                                    *)
LEMMA EventKeeps ==
  ASSUME LinkInv, Deregister \/ MarkStale \/ StopDialer \/ WaitLoops \/ StopServer
  PROVE  LinkInv' /\ \A k \in Links : /\ link'[k].streams = link[k].streams
                                      /\ link[k].at \in {"run", "drain"} => link'[k].at = link[k].at
<1> USE DialerAssumption DEF LinkInv
<1>1. CASE Deregister
  <2>1. /\ UNCHANGED <<link, gate, missed, stop>> /\ registered' = FALSE
        /\ event' \in [at : {"idle", "mark"}, left : Nat, gate : Links \cup {0}]
        /\ event'.gate = gate /\ event'.at = "mark" => gate # 0
    BY <1>1 DEF Deregister, LinkTypes
  <2>2. event'.at = "mark" => event'.gate \in Links /\ link[event'.gate].at # "none"
    <3> SUFFICES ASSUME event'.at = "mark" PROVE event'.gate \in Links /\ link[event'.gate].at # "none"
      BY ZenonT(30)
    <3>1. event'.gate = gate /\ gate # 0
      BY <1>1, ZenonT(30) DEF Deregister, LinkTypes
    <3> QED BY <3>1, ZenonT(30) DEF LinkTypes, OneLink
  <2> QED BY <2>1, <2>2, ZenonT(30) DEF LinkTypes, OneLink, RegisteredIsDialed
<1>2. CASE MarkStale
  <2> DEFINE m == event.gate
             g == [link[m] EXCEPT !.stale = TRUE]
  <2>1. m \in Links /\ link[m].at # "none" /\ ~registered
    BY <1>2, ZenonT(30) DEF MarkStale, OneLink
  <2>2. /\ link' = [link EXCEPT ![m] = g] /\ UNCHANGED <<gate, registered, missed, stop>>
        /\ event' \in [at : {"idle", "mark"}, left : Nat, gate : Links \cup {0}] /\ event'.at = "idle"
    BY <1>2, ZenonT(30) DEF MarkStale, LinkTypes
  <2> HIDE DEF m
  <2>3. g \in GateLinks /\ g.at = link[m].at /\ g.streams = link[m].streams
    <3>1. link[m] \in GateLinks
      BY <2>1, ZenonT(30) DEF LinkTypes
    <3> QED BY <3>1, ZenonT(30) DEF GateLinks
  <2> HIDE DEF g
  <2>4. /\ link' \in [Links -> GateLinks]
        /\ \A k \in Links : link'[k].at = link[k].at /\ link'[k].streams = link[k].streams
        /\ \A k \in Links \ {m} : link'[k].stale = link[k].stale
    BY <2>1, <2>2, <2>3, ZenonT(30) DEF LinkTypes
  <2>5. LinkTypes'
    BY <2>2, <2>4, ZenonT(30) DEF LinkTypes
  <2>6. OneLink'
    BY <2>1, <2>2, <2>4, ZenonT(30) DEF OneLink
  <2>7. RegisteredIsDialed'
    BY <2>1, <2>2, ZenonT(30) DEF RegisteredIsDialed
  <2> QED BY <2>4, <2>5, <2>6, <2>7, ZenonT(30)
<1>3. CASE StopDialer
  <2> DEFINE g == [[link[gate] EXCEPT !.cancelled = TRUE] EXCEPT !.cancel = FALSE]
  <2>1. UNCHANGED <<gate, event, registered, missed>> /\ stop' = "wait"
    BY <1>3, ZenonT(30) DEF StopDialer
  <2>2. link' \in [Links -> GateLinks] /\ \A k \in Links : /\ link'[k].at = link[k].at
                                                           /\ link'[k].streams = link[k].streams
                                                           /\ link'[k].stale = link[k].stale
    <3>1. CASE link' = link
      BY <3>1, ZenonT(30) DEF LinkTypes
    <3>2. CASE gate # 0 /\ link' = [link EXCEPT ![gate].cancelled = TRUE, ![gate].cancel = FALSE]
      <4>1. gate \in Links /\ link' = [link EXCEPT ![gate] = g]
        BY <3>2, ZenonT(30) DEF LinkTypes
      <4>2. g \in GateLinks /\ g.at = link[gate].at /\ g.streams = link[gate].streams /\ g.stale = link[gate].stale
        BY <4>1, ZenonT(30) DEF LinkTypes, GateLinks
      <4> HIDE DEF g
      <4> QED BY <4>1, <4>2, ZenonT(30) DEF LinkTypes
    <3> QED BY <1>3, <3>1, <3>2, ZenonT(30) DEF StopDialer
  <2> QED BY <1>3, <2>1, <2>2 DEF LinkTypes, OneLink, RegisteredIsDialed, StopDialer, stopped
<1>4. CASE WaitLoops
  <2>1. gate = 0
    BY <1>4, ZenonT(30) DEF WaitLoops, LinkTypes, OneLink
  <2> QED BY <1>4, <2>1, ZenonT(30) DEF WaitLoops, LinkTypes, OneLink, RegisteredIsDialed, stopped
<1>5. CASE StopServer
  BY <1>5, ZenonT(30) DEF StopServer, LinkTypes, OneLink, RegisteredIsDialed, stopped
<1> QED BY <1>1, <1>2, <1>3, <1>4, <1>5, ZenonT(30)

(* A step of a loop that opens no stream: it ends no session that still    *)
(* has a stream.                                                           *)
LEMMA LoopStepKeeps ==
  ASSUME LinkInv, OneStream, NEW l \in Links, LoopStep(l), UNCHANGED serverVars
  PROVE  LinkInv' /\ OneStream'
<1>0. LinkTypes /\ link[l] \in GateLinks
  BY ZenonT(30) DEF LinkInv, LinkTypes
<1>1. ASSUME NEW a \in LinkStates, Runs(l, a), link[l].at \notin {"none", "gone"}, a \notin {"none", "gone"},
             a = "leave" => stopped \/ link[l].stale \/ link[l].at = "leave",
             UNCHANGED <<gate, event, registered, missed, stop>>,
             \/ link[l].at \notin {"run", "drain"}
             \/ a = "drain" /\ link'[l].streams = link[l].streams
             \/ \A t \in link[l].streams : st[t].at = "off"
      PROVE  LinkInv' /\ OneStream'
  <2>1. LinkInv'
    BY <1>1, LoopKeeps, ZenonT(30)
  <2>2. UNCHANGED st
    BY ZenonT(30) DEF serverVars
  <2>3. ASSUME NEW t \in Streams, st[t].at # "off"
        PROVE  \E k \in Links : link'[k].at \in {"run", "drain"} /\ t \in link'[k].streams
    <3>1. PICK k \in Links : link[k].at \in {"run", "drain"} /\ t \in link[k].streams
      BY <2>3, ZenonT(30) DEF OneStream
    <3> QED BY <1>1, <2>3, <3>1, ZenonT(30) DEF Runs
  <2> QED BY <2>1, <2>2, <2>3, ZenonT(30) DEF OneStream
<1>2. CASE LoopTop(l)
  <2> DEFINE a == IF stopped THEN "leave" ELSE "check"
  <2>1. a \in LinkStates /\ a \notin {"none", "gone"} /\ (a = "leave" => stopped)
    BY ZenonT(30) DEF LinkStates
  <2>2. At(l, a) /\ link[l].at = "top" /\ UNCHANGED <<gate, event, registered, missed, stop>>
    BY <1>2, ZenonT(30) DEF LoopTop
  <2> HIDE DEF a
  <2> QED BY <1>0, <1>1, <2>1, <2>2, LoopRuns, ZenonT(30)
<1>3. CASE CheckStale(l)
  <2> DEFINE a == IF link[l].stale THEN "leave" ELSE "start"
  <2>1. a \in LinkStates /\ a \notin {"none", "gone"} /\ (a = "leave" => link[l].stale)
    BY <1>0, ZenonT(30) DEF LinkStates, GateLinks
  <2>2. At(l, a) /\ link[l].at = "check" /\ UNCHANGED <<gate, event, registered, missed, stop>>
    BY <1>3, ZenonT(30) DEF CheckStale
  <2> HIDE DEF a
  <2> QED BY <1>0, <1>1, <2>1, <2>2, LoopRuns, ZenonT(30)
<1>4. CASE SetCancel(l)
  <2>1. Runs(l, "dial") /\ link[l].at = "start" /\ UNCHANGED <<gate, event, registered, missed, stop>>
    BY <1>0, <1>4, LoopRuns, ZenonT(30) DEF SetCancel
  <2> QED BY <1>1, <2>1, ZenonT(30) DEF LinkStates
<1>5. CASE Establish(l)
  <2>1. CASE At(l, "end") /\ link[l].at = "dial" /\ UNCHANGED <<gate, event, registered, missed, stop>>
    <3>1. Runs(l, "end")
      BY <1>0, <2>1, LoopRuns, ZenonT(30) DEF LinkStates
    <3> QED BY <1>1, <2>1, <3>1, ZenonT(30) DEF LinkStates
  <2>2. CASE /\ link[l].at = "dial" /\ UNCHANGED <<gate, event, registered, missed, stop>>
             /\ OpenStreams(FreshStreams)
             /\ link' = [link EXCEPT ![l].at = "run", ![l].streams = FreshStreams]
    <3> DEFINE g == [[link[l] EXCEPT !.at = "run"] EXCEPT !.streams = FreshStreams]
    <3>1. g \in GateLinks /\ g.at = "run" /\ g.stale = link[l].stale
      BY <1>0, ZenonT(30) DEF GateLinks, LinkStates, FreshStreams
    <3>2. link' = [link EXCEPT ![l] = g]
      BY <1>0, <2>2, ZenonT(30) DEF LinkTypes
    <3> HIDE DEF g
    <3>3. Runs(l, "run")
      BY <1>0, <3>1, <3>2, LinkRuns, ZenonT(30)
    <3> QED BY <1>1, <2>2, <3>3, ZenonT(30) DEF LinkStates
  <2> QED BY <1>5, <2>1, <2>2, ZenonT(30) DEF Establish
<1>6. CASE FirstExit(l)
  <2>1. /\ Runs(l, "drain") /\ link'[l].streams = link[l].streams
        /\ link[l].at = "run" /\ UNCHANGED <<gate, event, registered, missed, stop>>
    BY <1>0, <1>6, LoopRuns, ZenonT(30) DEF FirstExit
  <2> QED BY <1>1, <2>1, ZenonT(30) DEF LinkStates
<1>7. CASE WaitHandlers(l)
  <2>1. /\ At(l, "end") /\ link[l].at = "drain" /\ \A t \in link[l].streams : st[t].at = "off"
        /\ UNCHANGED <<gate, event, registered, missed, stop>>
    BY <1>7, ZenonT(30) DEF WaitHandlers
  <2>2. Runs(l, "end")
    BY <1>0, <2>1, LoopRuns, ZenonT(30) DEF LinkStates
  <2> QED BY <1>1, <2>1, <2>2, ZenonT(30) DEF LinkStates
<1>8. CASE EndSession(l)
  <2> DEFINE a == IF stopped THEN "leave" ELSE "backoff"
  <2>1. a \in LinkStates /\ a \notin {"none", "gone"} /\ (a = "leave" => stopped)
    BY ZenonT(30) DEF LinkStates
  <2>2. Runs(l, a) /\ link[l].at = "end" /\ UNCHANGED <<gate, event, registered, missed, stop>>
    BY <1>0, <1>8, LoopRuns, ZenonT(30) DEF EndSession
  <2> HIDE DEF a
  <2> QED BY <1>1, <2>1, <2>2, ZenonT(30)
<1>9. CASE Backoff(l)
  <2>1. link[l].at = "backoff" /\ UNCHANGED <<gate, event, registered, missed, stop>>
    BY <1>9, ZenonT(30) DEF Backoff
  <2>2. (stopped /\ Runs(l, "leave")) \/ Runs(l, "top")
    BY <1>0, <1>9, LoopRuns, ZenonT(30) DEF Backoff, LinkStates
  <2> QED BY <1>1, <2>1, <2>2, ZenonT(30) DEF LinkStates
<1>10. CASE removeGate(l)
  <2>1. /\ link[l].at = "leave" /\ At(l, "gone") /\ gate' = (IF gate = l THEN 0 ELSE gate)
        /\ UNCHANGED <<event, registered, missed, stop>>
    BY <1>10, ZenonT(30) DEF removeGate
  <2>2. Runs(l, "gone") /\ gate = l /\ gate' = 0
    BY <1>0, <2>1, LoopRuns, ZenonT(30) DEF LinkStates, LinkInv, OneLink
  <2>3. LinkTypes'
    BY <2>1, <2>2, ZenonT(30) DEF LinkInv, LinkTypes, Runs
  <2>4. OneLink'
    <3>1. \A k \in Links : k # 0 /\ link'[k].at \in {"none", "gone"}
      BY <2>2, DialerAssumption, ZenonT(30) DEF LinkInv, OneLink, Runs
    <3>2. \A k \in Links : link'[k].at = "none" => link[k].at = "none" /\ link'[k].stale = link[k].stale
      BY <2>2, ZenonT(30) DEF Runs
    <3> QED BY <2>1, <2>2, <3>1, <3>2 DEF LinkInv, OneLink
  <2>5. RegisteredIsDialed'
    BY <2>1, <2>2, ZenonT(30) DEF LinkInv, RegisteredIsDialed, stopped
  <2>6. OneStream'
    <3>1. UNCHANGED st
      BY ZenonT(30) DEF serverVars
    <3> QED BY <2>1, <2>2, <3>1, ZenonT(30) DEF OneStream, Runs
  <2> QED BY <2>3, <2>4, <2>5, <2>6, ZenonT(30) DEF LinkInv
<1> QED BY <1>2, <1>3, <1>4, <1>5, <1>6, <1>7, <1>8, <1>9, <1>10, ZenonT(30) DEF LoopStep

(* A session is established when no stream is left of the one before, with *)
(* one stream for a shard.                                                 *)
LEMMA EstablishKeeps ==
  ASSUME DInv, NEW l \in Links, link[l].at = "dial",
         OpenStreams(FreshStreams),
         link' = [link EXCEPT ![l].at = "run", ![l].streams = FreshStreams],
         UNCHANGED <<scene, gate, event, registered, missed, stop>>
  PROVE  DInv'
<1>0. Types /\ OneLink /\ RegisteredIsDialed /\ OneStream /\ Bindings /\ NothingLeftBehind
  BY ZenonT(30) DEF DInv
<1>1. LinkInv /\ LinkTypes /\ link[l] \in GateLinks
  BY <1>0, ZenonT(30) DEF LinkInv, LinkTypes, Types
<1> DEFINE F == FreshStreams
           g == [[link[l] EXCEPT !.at = "run"] EXCEPT !.streams = F]
<1>2. F \subseteq Streams /\ \A t, r \in F : Shard[t] = Shard[r] => t = r
  BY ServerAssumption DEF FreshStreams
<1>3. OpenStreams(F) /\ link' = [link EXCEPT ![l] = g]
  BY <1>1, ZenonT(30) DEF LinkTypes
<1> HIDE DEF F
<1>4. g \in GateLinks /\ g.at = "run" /\ g.stale = link[l].stale /\ g.streams = F
  BY <1>1, <1>2, ZenonT(30) DEF GateLinks, LinkStates
<1> HIDE DEF g
<1>5. Runs(l, "run") /\ link'[l].streams = F
  <2>1. Runs(l, g.at) /\ link'[l] = g
    BY <1>1, <1>3, <1>4, LinkRuns, ZenonT(30)
  <2> QED BY <1>4, <2>1, ZenonT(30)
<1>6. LinkInv'
  BY <1>1, <1>5, LoopKeeps, ZenonT(30) DEF LinkStates
<1>7. \A t \in Streams : st[t].at = "off" /\ bound[t] = {}
  BY <1>0 DEF OneLink, OneStream, Bindings
<1>8. /\ st' \in [Streams -> Handlers] /\ \A t \in F : st'[t].at = "recv"
      /\ \A t \in Streams \ F : st'[t].at = "off"
  <2> DEFINE h == [Off EXCEPT !.at = "recv"]
  <2>1. h \in Handlers /\ h.at = "recv"
    BY HandlerTypes, ZenonT(30)
  <2>2. st' = [t \in Streams |-> IF t \in F THEN h ELSE st[t]]
    BY <1>3, ZenonT(30) DEF OpenStreams
  <2> HIDE DEF h
  <2> QED BY <1>0, <1>2, <1>7, <2>1, <2>2, ZenonT(30) DEF Types
<1>9. UNCHANGED <<bound, sess, us, su, members, late, count>>
  BY <1>3, ZenonT(30) DEF OpenStreams
<1>10. Types'
  BY <1>0, <1>6, <1>8, <1>9, ZenonT(30) DEF Types, LinkInv, LinkTypes
<1>11. OneStream'
  BY <1>2, <1>5, <1>8 DEF OneStream, Runs
<1>12. Bindings'
  <2>1. \A t \in Streams : st'[t].at \in {"off", "recv"}
    BY <1>8, ZenonT(30)
  <2>2. \A x \in Sessions : sess[x] = None
    BY <1>0, <1>7 DEF Types, Bindings
  <2> QED BY <1>7, <1>9, <2>1, <2>2, ZenonT(30) DEF Bindings, Processing
<1>13. NothingLeftBehind'
  <2>1. \A x \in Sessions : ~(x \in members \ late \/ su[x] # None)
    BY <1>0, <1>7, ZenonT(30) DEF NothingLeftBehind, Cleaning
  <2> QED BY <1>9, <2>1, ZenonT(30) DEF NothingLeftBehind
<1> QED BY <1>6, <1>10, <1>11, <1>12, <1>13, ZenonT(30) DEF DInv, LinkInv

-----------------------------------------------------------------------------
(* The invariant.                                                          *)

\* The inductive invariant holds before the dialer is started.
LEMMA InitDInv ==
  Init => DInv
<1> SUFFICES ASSUME Init PROVE DInv
  BY ZenonT(30)
<1> USE ServerAssumption, DialerAssumption
<1>1. /\ scene \in Scenes /\ scene.events \in Nat
      /\ st \in [Streams -> Handlers] /\ \A t \in Streams : st[t].at = "off"
  BY HandlerTypes, ZenonT(30) DEF Init, ServerInit
<1>2. link \in [Links -> GateLinks] /\ \A l \in Links : link[l].at = "none" /\ ~link[l].stale
  BY NewLinkType, ZenonT(30) DEF Init
<1>3. Types
  BY <1>1, <1>2, ZenonT(30) DEF Types, Init, ServerInit
<1>4. OneLink
  BY <1>2, ZenonT(30) DEF OneLink, Init
<1>5. RegisteredIsDialed
  BY ZenonT(30) DEF RegisteredIsDialed, Init
<1>6. OneStream
  BY <1>1, ZenonT(30) DEF OneStream
<1>7. Bindings
  BY <1>1, ZenonT(30) DEF Bindings, Processing, Init, ServerInit
<1>8. NothingLeftBehind
  BY ZenonT(30) DEF NothingLeftBehind, Init, ServerInit
<1> QED BY <1>3, <1>4, <1>5, <1>6, <1>7, <1>8, ZenonT(30) DEF DInv

(* Every step of the server, and of a stream that ends, opens no stream    *)
(* and keeps the maps in agreement.                                        *)
LEMMA ServerMaps ==
  ASSUME Before, ServerNext \/ \E t \in Streams : RecvError(t) \/ RecvBroken(t)
  PROVE  Maps' /\ st' \in [Streams -> Handlers] /\ \A r \in Streams : st'[r].at # "off" => st[r].at # "off"
<1>0. Types /\ Bindings
  BY ZenonT(30) DEF Before
<1>1. ASSUME NEW t \in Streams, SwapUser(t) \/ UnmapSession(t) \/ SwapSession(t) \/ UnmapUser(t)
      PROVE  Maps' /\ st' \in [Streams -> Handlers] /\ \A r \in Streams : st'[r].at # "off" => st[r].at # "off"
  <2>1. Maps'
    BY <1>1, RegisterMaps, ZenonT(30)
  <2>2. st[t].at # "off" /\ \E a, x : Moves(t, a, x)
    BY <1>0, <1>1, StreamMoves, ZenonT(30) DEF SwapUser, UnmapSession, SwapSession, UnmapUser
  <2> QED BY <2>1, <2>2, ZenonT(30) DEF Moves
<1>2. ASSUME NEW t \in Streams,
             \/ JoinGroup(t) \/ LeaveGroup(t) \/ Respond(t) \/ WaitForRoom(t)
             \/ Offline(t) \/ UnregisterUser(t) \/ UnpairSession(t)
      PROVE  Maps' /\ st' \in [Streams -> Handlers] /\ \A r \in Streams : st'[r].at # "off" => st[r].at # "off"
  <2>1. Maps'
    BY <1>2, DispatchMaps, ZenonT(30)
  <2>2. st[t].at # "off"
    BY <1>2, ZenonT(30) DEF JoinGroup, LeaveGroup, Respond, WaitForRoom, Offline, UnregisterUser, UnpairSession
  <2>3. \E a, x : Moves(t, a, x)
    BY <1>0, <1>2, StreamMoves, ZenonT(30)
  <2> QED BY <2>1, <2>2, <2>3, ZenonT(30) DEF Moves
<1>3. ASSUME NEW t \in Streams, StreamStep(t)
      PROVE  Maps' /\ st' \in [Streams -> Handlers] /\ \A r \in Streams : st'[r].at # "off" => st[r].at # "off"
  BY <1>1, <1>2, <1>3, CleanupMaps, ZenonT(30) DEF StreamStep
<1>4. CASE \E t \in Streams : \E x \in Sessions, u \in Users \cup {None}, kind \in scene.kinds : Receive(t, x, u, kind)
  BY <1>4, ReceiveMaps, ZenonT(30)
<1>5. CASE \E t \in Streams : RecvError(t) \/ RecvBroken(t)
  BY <1>5, RecvErrorMaps, ZenonT(30)
<1>6. CASE \/ StartPush \/ RetryPush \/ EndPush \/ JoinGroupForUser
           \/ \E u \in Users : LookUpUser(u)
           \/ \E x \in Sessions : PushToConnection(x)
           \/ \E t \in Streams : SendBatch(t)
  <2>1. Maps' /\ UNCHANGED st
    BY <1>6, AppMaps, ZenonT(30)
  <2> QED BY <1>0, <2>1, ZenonT(30) DEF Types
<1> QED BY <1>3, <1>4, <1>5, <1>6, ZenonT(30) DEF ServerNext

\* Every step of a loop, a handler, the registrar or Stop preserves the inductive invariant.
LEMMA DInvStep ==
  ASSUME DInv, [Next]_vars
  PROVE  DInv'
<1>0. /\ Before /\ LinkInv
      /\ Types /\ OneLink /\ RegisteredIsDialed /\ OneStream /\ Bindings /\ NothingLeftBehind
  BY ZenonT(30) DEF DInv, Before, LinkInv, LinkTypes, Types
<1>1. ASSUME UNCHANGED <<scene, dialerVars>>, ServerNext \/ \E t \in Streams : RecvError(t) \/ RecvBroken(t)
      PROVE  DInv'
  <2>1. Maps' /\ st' \in [Streams -> Handlers] /\ \A r \in Streams : st'[r].at # "off" => st[r].at # "off"
    BY <1>0, <1>1, ServerMaps, ZenonT(30)
  <2>2. UNCHANGED <<scene, link, gate, event, registered, missed, stop>>
    BY <1>1, ZenonT(30) DEF dialerVars
  <2>3. Types'
    BY <1>0, <2>1, <2>2, ZenonT(30) DEF Types, Maps, MapTypes
  <2>4. OneLink' /\ RegisteredIsDialed'
    BY <1>0, <2>2, ZenonT(30) DEF OneLink, RegisteredIsDialed, stopped
  <2>5. OneStream'
    BY <1>0, <2>1, <2>2, ZenonT(30) DEF OneStream
  <2> QED BY <2>1, <2>3, <2>4, <2>5, ZenonT(30) DEF DInv, Maps
<1>2. ASSUME UNCHANGED <<scene, st, bound, sess, us, su, members, late, count>>, LinkInv', OneStream'
      PROVE  DInv'
  <2>1. Types'
    BY <1>0, <1>2, ZenonT(30) DEF Types, LinkInv, LinkTypes
  <2>2. Bindings' /\ NothingLeftBehind'
    BY <1>0, <1>2 DEF Bindings, NothingLeftBehind, Cleaning
  <2> QED BY <1>2, <2>1, <2>2, ZenonT(30) DEF DInv, LinkInv
<1>3. ASSUME Register \/ Deregister \/ MarkStale \/ StopDialer \/ WaitLoops \/ StopServer
      PROVE  DInv'
  <2>1. UNCHANGED <<scene, st, bound, sess, us, su, members, late, count>>
    BY <1>3, ZenonT(30) DEF Register, Deregister, MarkStale, StopDialer, WaitLoops, StopServer, serverVars
  <2>2. LinkInv' /\ \A k \in Links : /\ link'[k].streams = link[k].streams
                                     /\ link[k].at \in {"run", "drain"} => link'[k].at = link[k].at
    BY <1>0, <1>3, RegisterKeeps, EventKeeps, ZenonT(30)
  <2>3. OneStream'
    BY <1>0, <2>1, <2>2, ZenonT(30) DEF OneStream
  <2> QED BY <1>2, <2>1, <2>2, <2>3, ZenonT(30)
<1>4. ASSUME NEW l \in Links, LoopStep(l) PROVE DInv'
  <2>1. CASE UNCHANGED serverVars
    <3>1. LinkInv' /\ OneStream'
      BY <1>0, <1>4, <2>1, LoopStepKeeps, ZenonT(30)
    <3>2. UNCHANGED <<scene, st, bound, sess, us, su, members, late, count>>
      BY <1>4, <2>1, ZenonT(30) DEF LoopStep, LoopTop, CheckStale, SetCancel, Establish, FirstExit, WaitHandlers,
                        EndSession, Backoff, removeGate, serverVars
    <3> QED BY <1>2, <3>1, <3>2, ZenonT(30)
  <2>2. CASE /\ link[l].at = "dial" /\ OpenStreams(FreshStreams)
             /\ link' = [link EXCEPT ![l].at = "run", ![l].streams = FreshStreams]
             /\ UNCHANGED <<scene, gate, event, registered, missed, stop>>
    BY <2>2, EstablishKeeps, ZenonT(30)
  <2> QED BY <1>4, <2>1, <2>2, ZenonT(30) DEF LoopStep, LoopTop, CheckStale, SetCancel, Establish, FirstExit,
             WaitHandlers,
                                  EndSession, Backoff, removeGate
<1>5. ASSUME NEW t \in Streams, StreamEnds(t) PROVE DInv'
  BY <1>1, <1>5, ZenonT(30) DEF StreamEnds
<1>6. CASE UNCHANGED vars
  <2>1. UNCHANGED <<scene, st, bound, sess, us, su, members, late, count, link, gate, event, registered, missed, stop>>
    BY <1>6, ZenonT(30) DEF vars, serverVars, dialerVars
  <2>2. LinkInv' /\ OneStream'
    BY <1>0, <2>1, ZenonT(30) DEF LinkInv, LinkTypes, OneLink, RegisteredIsDialed, stopped, OneStream
  <2> QED BY <1>2, <2>1, <2>2, ZenonT(30)
<1> QED BY <1>1, <1>3, <1>4, <1>5, <1>6, ZenonT(30) DEF Next

(* DInv is an invariant of the dialer and the streams of its sessions.     *)
THEOREM DialerInvariance == Spec => []DInv
<1>1. Init /\ [][Next]_vars => []DInv
  BY InitDInv, DInvStep, PTL
<1> QED BY <1>1, PTL DEF Spec

(* A registered gateway has a loop that will redial, unless the            *)
(* registration found the loop past its stale check and not yet removed    *)
(* (Dialer.ensureGate, runGate, removeGate).                               *)
THEOREM RegisteredGatewayIsDialed == Spec => []RegisteredIsDialed
<1>1. DInv => RegisteredIsDialed
  BY ZenonT(30) DEF DInv
<1> QED BY <1>1, DialerInvariance, PTL

(* A session in the push group, and one with a user, is known to a stream  *)
(* that will clean up after it (the deferred cleanup of the stream         *)
(* handler).                                                               *)
THEOREM NothingStaysBehind == Spec => []NothingLeftBehind
<1>1. DInv => NothingLeftBehind
  BY ZenonT(30) DEF DInv
<1> QED BY <1>1, DialerInvariance, PTL

(* The cleanup of a broken stream never takes the user or the groups of a  *)
(* session a newer stream has taken over: a stream that still has the      *)
(* session serves its shard, and a shard has one stream at a time.         *)
THEOREM CleanupTakesItsOwn == Spec => []CleanupOwnOnly
<1>1. DInv => CleanupOwnOnly
  <2> SUFFICES ASSUME DInv, NEW t \in Streams, NEW x \in Sessions, Cleaning(t, x), sess[x] # None
               PROVE  FALSE
    BY ZenonT(30) DEF CleanupOwnOnly
  <2>1. sess[x] \in Streams /\ x \in bound[sess[x]]
    BY DEF DInv, Types, Bindings
  <2>2. Home[x] = Shard[sess[x]] /\ st[sess[x]].at # "off"
    BY <2>1, ZenonT(30) DEF DInv, Bindings
  <2>3. Home[x] = Shard[t] /\ st[t].at # "off" /\ x \notin bound[t]
    BY ZenonT(30) DEF DInv, Bindings, Cleaning
  <2>4. sess[x] = t
    BY <2>1, <2>2, <2>3, ZenonT(30) DEF DInv, OneStream
  <2> QED BY <2>1, <2>3, <2>4, ZenonT(30)
<1> QED BY <1>1, DialerInvariance, PTL

(* An address never has two dial loops (Dialer.ensureGate starts one only  *)
(* when gates has no entry, and removeGate is a loop's last act).          *)
THEOREM OneLoopAtATime == Spec => []OneLoop
<1>1. DInv => OneLoop
  <2> SUFFICES ASSUME DInv PROVE OneLoop
    BY ZenonT(30)
  <2>1. Live \subseteq {gate}
    BY ZenonT(30) DEF DInv, OneLink, Live
  <2>2. IsFiniteSet({gate}) /\ Cardinality({gate}) = 1
    BY FS_Singleton, ZenonT(30)
  <2>3. Cardinality(Live) <= Cardinality({gate}) /\ IsFiniteSet(Live)
    BY <2>1, <2>2, FS_Subset, ZenonT(30)
  <2>4. Cardinality(Live) \in Nat
    BY <2>3, FS_CardinalityType, ZenonT(30)
  <2> QED BY <2>2, <2>3, <2>4, ZenonT(30) DEF OneLoop
<1> QED BY <1>1, DialerInvariance, PTL

(* Once Stop has returned no stream, session or user is left (Dialer.Stop  *)
(* waits for the loops, and a loop for the handlers of its streams).       *)
THEOREM StopLeavesNothing == Spec => []StoppedIsClean
<1>1. DInv => StoppedIsClean
  <2> SUFFICES ASSUME DInv, stop = "done"
               PROVE  /\ \A t \in Streams : st[t].at = "off"
                      /\ \A x \in Sessions : sess[x] = None /\ su[x] = None /\ x \notin members \ late
    BY ZenonT(30) DEF StoppedIsClean
  <2>1. \A l \in Links : link[l].at \in {"none", "gone"}
    BY DialerAssumption, ZenonT(30) DEF DInv, OneLink
  <2>2. \A t \in Streams : st[t].at = "off"
    BY <2>1, ZenonT(30) DEF DInv, OneStream
  <2>3. \A t \in Streams : bound[t] = {}
    BY <2>2, ZenonT(30) DEF DInv, Bindings
  <2>4. \A x \in Sessions : sess[x] = None
    BY <2>3 DEF DInv, Types, Bindings
  <2>5. \A x \in Sessions : su[x] = None /\ x \notin members \ late
    BY <2>2, <2>3, ZenonT(30) DEF DInv, NothingLeftBehind, Cleaning
  <2> QED BY <2>2, <2>4, <2>5, ZenonT(30)
<1> QED BY <1>1, DialerInvariance, PTL
=============================================================================
