----------------------------- MODULE LogicServer -----------------------------
(***************************************************************************)
(* The logic service's side of the streams (logic/server.go, handler.go):  *)
(* one receive loop and one send loop per stream, the maps from sessions   *)
(* to streams and between users and sessions, push groups and the pushes   *)
(* of the application.  The maps are sync.Maps: every access is a step.    *)
(*                                                                         *)
(* A streamConn is one of the slots Streams while its handler runs, each   *)
(* for one shard of the gateway; the messages of a session all come        *)
(* through the shard it hashes to.                                         *)
(***************************************************************************)
EXTENDS Integers, Sequences, FiniteSets

CONSTANTS Streams, Sessions, Users,
          Shard,      \* the shard of each stream slot
          Home,       \* the shard of each session
          ChanSize,   \* capacity of a stream's sendCh
          MaxRetries, \* of SendToGroupWithRetry
          Scenes,     \* [kinds, sessions, users, serial, msgs, calls, breaks, events, stop]:
                      \* kinds of messages, who sends them, whether they come one at a time,
                      \* bounds on messages, calls of the application, broken streams and
                      \* registry events, and whether the service is stopped
          None

ASSUME ServerAssumption ==
  /\ Streams \subseteq Int
  /\ None \notin Streams \cup Sessions \cup Users

VARIABLES scene,
          st,       \* each stream: where its receive loop is, and on what
          ch,       \* sendCh: the responses and pushes queued
          closed,   \* the stream's done channel is closed
          wire,     \* what the gateway received on the stream
          bound,    \* sessionIDs of the stream
          sess,     \* sessions: session to stream
          us, su,   \* userSessions, sessionUsers
          members,  \* the push group
          app,      \* a call of the application
          late,     \* sessions put into the group by their user after they had gone
          count     \* messages, calls, broken streams so far

serverVars == <<st, ch, closed, wire, bound, sess, us, su, members, app, late, count>>

Off == [at |-> "off", kind |-> None, sess |-> None, user |-> None, old |-> None, n |-> 0]
Idle == [at |-> "idle", todo |-> {}, failed |-> {}, retry |-> 0]

\* NewServer; no stream yet.
ServerInit ==
  /\ scene \in Scenes
  /\ st = [t \in Streams |-> Off]
  /\ ch = [t \in Streams |-> <<>>] /\ wire = [t \in Streams |-> <<>>]
  /\ closed = [t \in Streams |-> FALSE]
  /\ bound = [t \in Streams |-> {}]
  /\ sess = [x \in Sessions |-> None]
  /\ us = [u \in Users |-> None] /\ su = [x \in Sessions |-> None]
  /\ members = {}
  /\ app = Idle /\ late = {}
  /\ count = [msgs |-> 0, calls |-> 0, breaks |-> 0]

Goto(t, at) == st' = [st EXCEPT ![t].at = at]

\* The message is done with: receive the next one.
Done(t) == st' = [st EXCEPT ![t] = [Off EXCEPT !.at = "recv"]]

\* handleStream and newStreamConn, for the streams of a new session.
OpenStreams(ts) ==
  /\ st' = [t \in Streams |-> IF t \in ts THEN [Off EXCEPT !.at = "recv"] ELSE st[t]]
  /\ closed' = [t \in Streams |-> t \notin ts /\ closed[t]]
  /\ UNCHANGED <<ch, wire, bound, sess, us, su, members, app, late, count>>

-----------------------------------------------------------------------------
(* process: bind the session, register the user, dispatch.                 *)

\* A message arrives: the session and the stream are tied together.
Receive(t, x, u, kind) ==
  /\ st[t].at = "recv" /\ Home[x] = Shard[t]
  /\ kind \in scene.kinds /\ x \in scene.sessions /\ u \in scene.users
  /\ scene.serial => \A r \in Streams : st[r].at \in {"off", "recv"}
  /\ count.msgs < scene.msgs /\ count' = [count EXCEPT !.msgs = @ + 1]
  /\ sess' = [sess EXCEPT ![x] = t]
  /\ bound' = [bound EXCEPT ![t] = @ \cup {x}]
  /\ st' = [st EXCEPT ![t] = [@ EXCEPT !.at = IF u = None THEN "dispatch" ELSE "register",
              !.kind = kind, !.sess = x, !.user = u, !.n = count.msgs + 1]]
  /\ UNCHANGED <<ch, closed, wire, us, su, members, app, late>>

\* RegisterUser: the user's entry is swapped ...
SwapUser(t) ==
  /\ st[t].at = "register"
  /\ LET old == us[st[t].user] IN
     st' = [st EXCEPT ![t].at = IF old \in {None, st[t].sess} THEN "back" ELSE "unmap",
                      ![t].old = old]
  /\ us' = [us EXCEPT ![st[t].user] = st[t].sess]
  /\ UNCHANGED <<ch, closed, wire, bound, sess, su, members, app, late, count>>

\* ... the entry of its previous session deleted ...
UnmapSession(t) ==
  /\ st[t].at = "unmap"
  /\ su' = [su EXCEPT ![st[t].old] = None]
  /\ Goto(t, "back")
  /\ UNCHANGED <<ch, closed, wire, bound, sess, us, members, app, late, count>>

\* ... the session's entry swapped ...
SwapSession(t) ==
  /\ st[t].at = "back"
  /\ LET old == su[st[t].sess] IN
     st' = [st EXCEPT ![t].at = IF old \in {None, st[t].user} THEN "dispatch" ELSE "unback",
                      ![t].old = old]
  /\ su' = [su EXCEPT ![st[t].sess] = st[t].user]
  /\ UNCHANGED <<ch, closed, wire, bound, sess, us, members, app, late, count>>

\* ... and the entry of its previous user deleted.
UnmapUser(t) ==
  /\ st[t].at = "unback"
  /\ us' = [us EXCEPT ![st[t].old] = None]
  /\ Goto(t, "dispatch")
  /\ UNCHANGED <<ch, closed, wire, bound, sess, su, members, app, late, count>>

\* JoinGroup, from a handler.
JoinGroup(t) ==
  /\ st[t].at = "dispatch" /\ st[t].kind = "join"
  /\ members' = members \cup {st[t].sess}
  /\ Done(t)
  /\ UNCHANGED <<ch, closed, wire, bound, sess, us, su, app, late, count>>

\* LeaveGroup, from a handler.
LeaveGroup(t) ==
  /\ st[t].at = "dispatch" /\ st[t].kind = "leave"
  /\ members' = members \ {st[t].sess}
  /\ Done(t)
  /\ UNCHANGED <<ch, closed, wire, bound, sess, us, su, app, late, count>>

\* dispatchMessage with a response: Send, which waits when the channel is full.
Respond(t) ==
  /\ st[t].at = "dispatch" /\ st[t].kind = "ask"
  /\ IF closed[t] THEN Done(t) /\ UNCHANGED ch
     ELSE IF Len(ch[t]) < ChanSize
     THEN Done(t) /\ ch' = [ch EXCEPT ![t] = Append(@, <<None, st[t].n>>)]
     ELSE Goto(t, "wait") /\ UNCHANGED ch
  /\ UNCHANGED <<closed, wire, bound, sess, us, su, members, app, late, count>>

\* Room, the end of the stream or the timer.
WaitForRoom(t) ==
  /\ st[t].at = "wait"
  /\ \/ Len(ch[t]) < ChanSize /\ ch' = [ch EXCEPT ![t] = Append(@, <<None, st[t].n>>)]
     \/ UNCHANGED ch
  /\ Done(t)
  /\ UNCHANGED <<closed, wire, bound, sess, us, su, members, app, late, count>>

leaveAllGroups(x) == members' = members \ {x}

\* Offline: the session goes ...
Offline(t) ==
  /\ st[t].at = "dispatch" /\ st[t].kind = "offline"
  /\ sess' = [sess EXCEPT ![st[t].sess] = None]
  /\ leaveAllGroups(st[t].sess)
  /\ Goto(t, "unregister")
  /\ UNCHANGED <<ch, closed, wire, bound, us, su, app, late, count>>

\* ... then the user of the message (UnregisterUser), wherever it is now, or
\* without one the user of the session.
UnregisterUser(t) ==
  /\ st[t].at = "unregister"
  /\ LET x == st[t].sess
         u == st[t].user
         v == su[x]
     IN  IF u # None
         THEN /\ IF us[u] = None THEN Done(t)
                 ELSE st' = [st EXCEPT ![t].at = "unpair", ![t].old = us[u]]
              /\ us' = [us EXCEPT ![u] = None]
              /\ UNCHANGED su
         ELSE /\ Done(t)
              /\ us' = IF v # None /\ us[v] = x THEN [us EXCEPT ![v] = None] ELSE us
              /\ su' = [su EXCEPT ![x] = None]
  /\ UNCHANGED <<ch, closed, wire, bound, sess, members, app, late, count>>

UnpairSession(t) ==
  /\ st[t].at = "unpair"
  /\ su' = [su EXCEPT ![st[t].old] = IF @ = st[t].user THEN None ELSE @]
  /\ Done(t)
  /\ UNCHANGED <<ch, closed, wire, bound, sess, us, members, app, late, count>>

-----------------------------------------------------------------------------
(* The end of a stream.                                                    *)

\* RecvMsg fails: the handler's deferred cleanup starts with Close.
RecvError(t) ==
  /\ st[t].at = "recv"
  /\ closed' = [closed EXCEPT ![t] = TRUE]
  /\ Goto(t, "drop")
  /\ UNCHANGED <<ch, wire, bound, sess, us, su, members, app, late, count>>

\* The same, because the gateway or the network broke the stream.
RecvBroken(t) ==
  /\ st[t].at = "recv"
  /\ closed' = [closed EXCEPT ![t] = TRUE]
  /\ count' = [count EXCEPT !.breaks = @ + 1]
  /\ Goto(t, "drop")
  /\ UNCHANGED <<ch, wire, bound, sess, us, su, members, app, late>>

\* For each session of the stream: its stream entry, if it is still this one ...
DropSession(t) ==
  /\ st[t].at = "drop"
  /\ \E x \in bound[t] :
       /\ sess' = [sess EXCEPT ![x] = IF @ = t THEN None ELSE @]
       /\ bound' = [bound EXCEPT ![t] = @ \ {x}]
       /\ st' = [st EXCEPT ![t].at = "forget", ![t].sess = x]
  /\ UNCHANGED <<ch, closed, wire, us, su, members, app, late, count>>

\* ... its user ...
ForgetUser(t) ==
  /\ st[t].at = "forget"
  /\ LET x == st[t].sess
         u == su[x]
     IN  /\ us' = IF u # None /\ us[u] = x THEN [us EXCEPT ![u] = None] ELSE us
         /\ su' = [su EXCEPT ![x] = None]
  /\ Goto(t, "leave")
  /\ UNCHANGED <<ch, closed, wire, bound, sess, members, app, late, count>>

\* Mutant: the groups are left to Offline.
LeaveGroupsNot(t) ==
  /\ st[t].at = "leave"
  /\ Goto(t, "drop")
  /\ UNCHANGED <<ch, closed, wire, bound, sess, us, su, members, app, late, count>>

\* ... and its groups.
LeaveGroups(t) ==
  /\ st[t].at = "leave"
  /\ leaveAllGroups(st[t].sess)
  /\ Goto(t, "drop")
  /\ UNCHANGED <<ch, closed, wire, bound, sess, us, su, app, late, count>>

\* The handler is over; nothing refers to the streamConn any more.
EndStream(t) ==
  /\ st[t].at = "drop" /\ bound[t] = {}
  /\ st' = [st EXCEPT ![t] = Off]
  /\ ch' = [ch EXCEPT ![t] = <<>>] /\ wire' = [wire EXCEPT ![t] = <<>>]
  /\ UNCHANGED <<closed, bound, sess, us, su, members, app, late, count>>

\* The send loop: everything queued in one frame; an error shuts the stream.
SendBatch(t) ==
  /\ ch[t] # <<>> /\ ~closed[t]
  /\ ch' = [ch EXCEPT ![t] = <<>>]
  /\ \/ wire' = [wire EXCEPT ![t] = @ \o ch[t]] /\ UNCHANGED <<closed, count>>
     \/ /\ count.breaks < scene.breaks /\ count' = [count EXCEPT !.breaks = @ + 1]
        /\ closed' = [closed EXCEPT ![t] = TRUE] /\ UNCHANGED wire
  /\ UNCHANGED <<st, bound, sess, us, su, members, app, late>>

-----------------------------------------------------------------------------
(* Calls of the application, from a goroutine of its own.                  *)

\* SendToGroupWithRetry takes the members there are, Broadcast the sessions,
\* SendToUser and Kick one session.
StartPush ==
  /\ app.at = "idle" /\ count.calls < scene.calls
  /\ count' = [count EXCEPT !.calls = @ + 1]
  /\ \E targets \in {members, {x \in Sessions : sess[x] # None}}
                   \cup {{us[u]} : u \in {v \in Users : us[v] # None}} :
       targets # {} /\ app' = [Idle EXCEPT !.at = "push", !.todo = targets]
  /\ UNCHANGED <<st, ch, closed, wire, bound, sess, us, su, members, late>>

\* PushToConnection: through the stream the session has now; it fails without
\* one, on a closed one and when the channel stays full.
PushToConnection(x) ==
  /\ app.at = "push" /\ x \in app.todo
  /\ LET t == sess[x]
         ok == t # None /\ ~closed[t] /\ Len(ch[t]) < ChanSize
     IN  /\ ch' = IF ok THEN [ch EXCEPT ![t] = Append(@, <<x, count.calls>>)] ELSE ch
         /\ app' = [app EXCEPT !.todo = @ \ {x}, !.failed = IF ok THEN @ ELSE @ \cup {x}]
  /\ UNCHANGED <<st, closed, wire, bound, sess, us, su, members, late, count>>

\* The ones that failed are tried again.
RetryPush ==
  /\ app.at = "push" /\ app.todo = {} /\ app.failed # {} /\ app.retry < MaxRetries
  /\ app' = [app EXCEPT !.todo = app.failed, !.failed = {}, !.retry = @ + 1]
  /\ UNCHANGED <<st, ch, closed, wire, bound, sess, us, su, members, late, count>>

EndPush ==
  /\ app.at = "push" /\ app.todo = {}
  /\ app' = Idle
  /\ UNCHANGED <<st, ch, closed, wire, bound, sess, us, su, members, late, count>>

\* JoinGroupForUser: the session is looked up ...
LookUpUser(u) ==
  /\ app.at = "idle" /\ count.calls < scene.calls /\ us[u] # None
  /\ count' = [count EXCEPT !.calls = @ + 1]
  /\ app' = [Idle EXCEPT !.at = "join", !.todo = {us[u]}]
  /\ UNCHANGED <<st, ch, closed, wire, bound, sess, us, su, members, late>>

\* ... and joins, whether or not it is still there.
JoinGroupForUser ==
  /\ app.at = "join"
  /\ members' = members \cup app.todo
  /\ late' = late \cup {x \in app.todo : \A t \in Streams : x \notin bound[t]}
  /\ app' = Idle
  /\ UNCHANGED <<st, ch, closed, wire, bound, sess, us, su, count>>

\* What a receive loop does with the message or the end it has.
StreamStep(t) ==
  \/ SwapUser(t) \/ UnmapSession(t) \/ SwapSession(t) \/ UnmapUser(t)
  \/ JoinGroup(t) \/ LeaveGroup(t) \/ Respond(t) \/ WaitForRoom(t)
  \/ Offline(t) \/ UnregisterUser(t) \/ UnpairSession(t)
  \/ DropSession(t) \/ ForgetUser(t) \/ LeaveGroups(t) \/ EndStream(t)

ServerNext ==
  \/ \E t \in Streams : \/ \E x \in Sessions, u \in Users \cup {None}, kind \in scene.kinds :
                             Receive(t, x, u, kind)
                        \/ StreamStep(t) \/ SendBatch(t)
  \/ StartPush \/ RetryPush \/ EndPush \/ JoinGroupForUser
  \/ \E u \in Users : LookUpUser(u)
  \/ \E x \in Sessions : PushToConnection(x)

-----------------------------------------------------------------------------
\* No handler is between two accesses to the maps.
Quiet == \A t \in Streams : st[t].at \in {"off", "recv", "wait"}

\* The two maps between users and sessions are inverse to each other whenever
\* no handler is at work, provided messages about users do not overlap; when
\* they do RegisterUser's four accesses interleave (server.go:339).
UsersPaired ==
  scene.serial /\ Quiet =>
    /\ \A u \in Users : us[u] # None => su[us[u]] = u
    /\ \A x \in Sessions : su[x] # None => us[su[x]] = x

\* Mid-cleanup of session x.
Cleaning(t, x) == st[t].at \in {"forget", "leave"} /\ st[t].sess = x

\* A session in the push group, and one with a user, is known to a stream that
\* will clean up after it, so nothing stays behind a broken stream
\* (server.go:275); except a session that JoinGroupForUser adds after it went.
NothingLeftBehind ==
  \A x \in Sessions :
    x \in members \ late \/ su[x] # None =>
      \E t \in Streams : x \in bound[t] \/ Cleaning(t, x)

\* The cleanup of a broken stream never takes the user or the groups of a
\* session that a newer stream has taken over (server.go:270, dialer.go:361).
CleanupOwnOnly ==
  \A t \in Streams, x \in Sessions : Cleaning(t, x) => sess[x] = None

\* The gateway receives responses in the order of the requests, and a push
\* reaches a session once although the ones that failed are retried.
DeliveredInOrder ==
  \A t \in Streams : \A i, j \in DOMAIN wire[t] :
    i < j => /\ wire[t][i] # wire[t][j]
             /\ wire[t][i][1] = None /\ wire[t][j][1] = None => wire[t][i][2] < wire[t][j][2]
=============================================================================
