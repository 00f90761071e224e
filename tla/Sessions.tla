------------------------------- MODULE Sessions -------------------------------
(***************************************************************************)
(* The life of client connections in the gateway (connection/manager.go,   *)
(* gateway/handlers.go, login.go, kick.go, maintenance.go): login by       *)
(* background workers, the indexes of the ConnectionManager, kicks,        *)
(* maintenance, the idle checkers, OnClose and the offline notification of *)
(* the logic server.  Event loops, login workers, checkers and kick tasks  *)
(* run concurrently; one action is one operation on one map or field, or a *)
(* run of them that nothing can observe half done.                         *)
(***************************************************************************)
EXTENDS Integers, FiniteSets

CONSTANTS Conns,     \* connections ever opened
          Workers,   \* login slots: finishLoginGate goroutines at a time
          Servers,   \* logic server ids
          UserIds,   \* the userId of a LoginGate request; None when it is empty
          Outcomes,  \* what becomes of a notification: noclient, failed, sent
          MaxLogins, \* bound: LoginGate requests
          MaxTasks,  \* bound: kick and maintenance requests
          None       \* the empty string, a missing map entry

ASSUME SessionsAssumption ==
  /\ Outcomes \subseteq {"noclient", "failed", "sent"}
  /\ MaxLogins \in Nat \ {0} /\ MaxTasks \in Nat
  /\ None \notin Conns \cup Servers

VARIABLES sock,               \* the socket: new, open, shut (OnClose to come), gone
          connections,        \* ConnectionManager.connections
          userUUID, serverID, accountID,   \* fields of each Connection
          userConnections,    \* uuid -> connection
          serverUserConnections,  \* (server, uuid) -> connection
          accountConnections, \* account -> connections
          removers,           \* who is about to delete which connection
          cleaning,           \* what is left to clean of a deleted connection
          wpc, wreq,          \* login workers: where they are, what they log in
          pending,            \* offline notifications being sent, per connection
          offlineSent,        \* Connection.offlineSent
          maint,              \* maintenance marks
          snapshot,           \* servers marked whose connections are not yet listed
          kickList,           \* connections the kick tasks still have to kick
          hist                \* history, read by the properties only

fields == <<userUUID, serverID, accountID>>
indexes == <<userConnections, serverUserConnections, accountConnections>>
workers == <<wpc, wreq>>
kicks == <<maint, snapshot, kickList>>
removal == <<removers, cleaning>>
vars == <<sock, connections, fields, indexes, removal, workers, pending, offlineSent, kicks, hist>>

Users == UserIds \ {None}

\* A new connection has a temporary uuid of its own, which names no server; a
\* login makes it "server:user" or, without a user, "server:connection".
Temp(c) == <<None, c>>
UUIDs == {Temp(c) : c \in Conns} \cup (Servers \X (Users \cup Conns))
Keys == (Servers \cup {None}) \X UUIDs

\* RemoveConnection runs on the connection's event loop and on a checker.
Removers == {"loop", "checker"}

Requests == [conn : Conns, server : Servers, user : UserIds, old : UUIDs]

ASSUME NoneIsNoRequest == None \notin Requests

Histories ==
  [logins : 0 .. MaxLogins, tasks : 0 .. MaxTasks, last : [UUIDs -> Conns \cup {None}],
   raced : SUBSET Conns, excused : SUBSET Conns, slipped : SUBSET Conns]

TypeOK ==
  /\ sock \in [Conns -> {"new", "open", "shut", "gone"}]
  /\ connections \subseteq Conns
  /\ userUUID \in [Conns -> UUIDs]
  /\ serverID \in [Conns -> Servers \cup {None}]
  /\ accountID \in [Conns -> Users \cup {None}]
  /\ userConnections \in [UUIDs -> Conns \cup {None}]
  /\ serverUserConnections \in [Keys -> Conns \cup {None}]
  /\ accountConnections \in [Users -> SUBSET Conns]
  /\ removers \subseteq Conns \X Removers
  /\ cleaning \in [Conns -> {"none", "user", "rest"}]
  /\ wpc \in [Workers -> {"free", "validate", "bind", "old", "uuid", "storeUser",
                          "storeServer", "account", "index"}]
  /\ wreq \in [Workers -> Requests \cup {None}]
  /\ \A w \in Workers : wpc[w] = "free" <=> wreq[w] = None
  /\ pending \in [Conns -> Nat]
  /\ offlineSent \subseteq Conns
  /\ maint \subseteq Servers /\ snapshot \subseteq Servers
  /\ kickList \subseteq Conns \X {"id", "conn"}
  /\ hist \in Histories

Init ==
  /\ sock = [c \in Conns |-> "new"]
  /\ connections = {}
  /\ userUUID = [c \in Conns |-> Temp(c)]
  /\ serverID = [c \in Conns |-> None]
  /\ accountID = [c \in Conns |-> None]
  /\ userConnections = [u \in UUIDs |-> None]
  /\ serverUserConnections = [k \in Keys |-> None]
  /\ accountConnections = [a \in Users |-> {}]
  /\ removers = {}
  /\ cleaning = [c \in Conns |-> "none"]
  /\ wpc = [w \in Workers |-> "free"]
  /\ wreq = [w \in Workers |-> None]
  /\ pending = [c \in Conns |-> 0]
  /\ offlineSent = {}
  /\ maint = {} /\ snapshot = {} /\ kickList = {}
  /\ hist = [logins |-> 0, tasks |-> 0, last |-> [u \in UUIDs |-> None],
             raced |-> {}, excused |-> {}, slipped |-> {}]

LoggingIn(c) == \E w \in Workers : wreq[w] # None /\ wreq[w].conn = c
Removing(c) == cleaning[c] # "none" \/ \E r \in Removers : <<c, r>> \in removers

-----------------------------------------------------------------------------
(* Opening and closing the socket.                                         *)

\* OnOpen of an accepted connection: AddConnection with a temporary uuid.
OnOpen(c) ==
  /\ sock[c] = "new"
  /\ sock' = [sock EXCEPT ![c] = "open"]
  /\ connections' = connections \cup {c}
  /\ userConnections' = [userConnections EXCEPT ![Temp(c)] = c]
  /\ UNCHANGED <<fields, serverUserConnections, accountConnections, removal, workers, pending,
                 offlineSent, kicks, hist>>

Shut(c) == sock' = IF sock[c] = "open" THEN [sock EXCEPT ![c] = "shut"] ELSE sock

\* The peer hangs up, or CloseSession closes the connection.
Hangup(c) ==
  /\ sock[c] = "open"
  /\ Shut(c)
  /\ UNCHANGED <<connections, fields, indexes, removal, workers, pending, offlineSent, kicks, hist>>

-----------------------------------------------------------------------------
(* notifyLogicOffline: skips a connection already notified or not bound,   *)
(* gives up without a connected client, or sends in the background; only a *)
(* successful send is remembered.                                          *)

Notify(c) ==
  IF c \in offlineSent \/ serverID[c] = None
  THEN UNCHANGED <<pending, hist>>
  ELSE \/ /\ "noclient" \in Outcomes
          /\ hist' = [hist EXCEPT !.excused = @ \cup {c}]
          /\ UNCHANGED pending
       \/ /\ Outcomes # {"noclient"}
          /\ pending' = [pending EXCEPT ![c] = @ + 1]
          /\ UNCHANGED hist

Notified(c) ==
  /\ pending[c] > 0
  /\ pending' = [pending EXCEPT ![c] = @ - 1]
  /\ \/ /\ "sent" \in Outcomes
        /\ offlineSent' = offlineSent \cup {c}
        /\ hist' = [hist EXCEPT !.excused = @ \ {c}]
     \/ /\ "failed" \in Outcomes
        /\ hist' = [hist EXCEPT !.excused = @ \cup {c}]
        /\ UNCHANGED offlineSent
  /\ UNCHANGED <<sock, connections, fields, indexes, removal, workers, kicks>>

\* handleLogoutGate: notification and a close once the ack is written.
Logout(c) ==
  /\ sock[c] = "open"
  /\ IF c \in connections THEN Notify(c) ELSE UNCHANGED <<pending, hist>>
  /\ Shut(c)
  /\ UNCHANGED <<connections, fields, indexes, removal, workers, offlineSent, kicks>>

-----------------------------------------------------------------------------
(* LoginGate: the event loop looks at the maintenance marks and takes a    *)
(* slot; a worker does the rest.                                           *)

Refuse(c, s) ==
  /\ sock[c] = "open"
  /\ s \in maint
  /\ Shut(c)
  /\ UNCHANGED <<connections, fields, indexes, removal, workers, pending, offlineSent, kicks, hist>>

LoginGate(w, c, s, a) ==
  /\ sock[c] = "open"
  /\ s \notin maint
  /\ wpc[w] = "free" /\ hist.logins < MaxLogins
  /\ wpc' = [wpc EXCEPT ![w] = "validate"]
  /\ wreq' = [wreq EXCEPT ![w] = [conn |-> c, server |-> s, user |-> a, old |-> Temp(c)]]
  /\ hist' = [hist EXCEPT !.logins = @ + 1,
                          !.raced = IF LoggingIn(c) THEN @ \cup {c} ELSE @]
  /\ UNCHANGED <<sock, connections, fields, indexes, removal, pending, offlineSent, kicks>>

Go(w, from, to) == wpc[w] = from /\ wpc' = [wpc EXCEPT ![w] = to]

\* A worker that is done gives its slot back.
Return(w, from) == Go(w, from, "free") /\ wreq' = [wreq EXCEPT ![w] = None]

\* validateLoginKey, then the second look at the maintenance marks.
Validate(w) ==
  /\ \/ Return(w, "validate")
     \/ /\ Go(w, "validate", "bind")
        /\ wreq[w].server \notin maint
        /\ UNCHANGED wreq
  /\ UNCHANGED <<sock, connections, fields, indexes, removal, pending, offlineSent, kicks, hist>>

\* SetConnectionServerID.
Bind(w) ==
  /\ Go(w, "bind", "old")
  /\ LET c == wreq[w].conn
         s == wreq[w].server
     IN  IF c \in connections
         THEN /\ serverID' = [serverID EXCEPT ![c] = s]
              /\ hist' = [hist EXCEPT
                   !.excused = IF sock[c] = "gone" \/ Removing(c) THEN @ \cup {c} ELSE @,
                   !.raced = IF serverID[c] \notin {None, s} THEN @ \cup {c} ELSE @,
                   !.slipped = IF s \in maint THEN @ \cup {c} ELSE @]
         ELSE UNCHANGED <<serverID, hist>>
  /\ UNCHANGED <<sock, connections, userUUID, accountID, indexes, removal, wreq, pending, offlineSent, kicks>>

FullUUID(w) == <<wreq[w].server, IF wreq[w].user = None THEN wreq[w].conn ELSE wreq[w].user>>

\* A registered connection that already has this uuid is told offline and closed.
CloseOld(w) ==
  /\ Go(w, "old", "uuid")
  /\ LET old == userConnections[FullUUID(w)]
     IN  IF old \in connections \ {wreq[w].conn}
         THEN Notify(old) /\ Shut(old)
         ELSE UNCHANGED <<pending, hist, sock>>
  /\ UNCHANGED <<connections, fields, indexes, removal, wreq, offlineSent, kicks>>

\* DeleteIf on userConnections.
DeleteUserIf(u, c) ==
  userConnections' =
    IF userConnections[u] = c THEN [userConnections EXCEPT ![u] = None] ELSE userConnections

\* UpdateConnectionUserUUID: the field and the old mapping, the new mapping,
\* the server mapping.
SetUUID(w) ==
  /\ LET c == wreq[w].conn
     IN  \/ /\ Go(w, "uuid", "storeUser")
            /\ c \in connections
            /\ wreq' = [wreq EXCEPT ![w].old = userUUID[c]]
            /\ userUUID' = [userUUID EXCEPT ![c] = FullUUID(w)]
            /\ DeleteUserIf(userUUID[c], c)
         \/ /\ Go(w, "uuid", "account")
            /\ c \notin connections
            /\ UNCHANGED <<wreq, userUUID, userConnections>>
  /\ UNCHANGED <<sock, connections, serverID, accountID, serverUserConnections, accountConnections,
                 removal, pending, offlineSent, kicks, hist>>

StoreUser(w) ==
  /\ Go(w, "storeUser", "storeServer")
  /\ userConnections' = [userConnections EXCEPT ![FullUUID(w)] = wreq[w].conn]
  /\ hist' = [hist EXCEPT !.last[FullUUID(w)] = wreq[w].conn]
  /\ UNCHANGED <<sock, connections, fields, serverUserConnections, accountConnections, removal, wreq,
                 pending, offlineSent, kicks>>

StoreServer(w) ==
  /\ Go(w, "storeServer", "account")
  /\ LET c == wreq[w].conn
         old == <<serverID[c], wreq[w].old>>
         orphan == wreq[w].old # FullUUID(w) /\ serverUserConnections[old] = c
     IN  serverUserConnections' =
           [k \in Keys |-> IF k = <<serverID[c], FullUUID(w)>> THEN c
                           ELSE IF orphan /\ k = old THEN None ELSE serverUserConnections[k]]
  /\ UNCHANGED <<sock, connections, fields, userConnections, accountConnections, removal, wreq, pending,
                 offlineSent, kicks, hist>>

\* SetConnectionAccountID, for a request with a user: the field, then the
\* index; the ack and the login message for the logic server come last.
SetAccount(w) ==
  /\ LET c == wreq[w].conn
         a == wreq[w].user
     IN  \/ /\ Go(w, "account", "index")
            /\ a # None /\ c \in connections
            /\ accountID' = [accountID EXCEPT ![c] = a]
            /\ hist' = [hist EXCEPT !.raced = IF accountID[c] \notin {None, a} THEN @ \cup {c} ELSE @]
            /\ UNCHANGED wreq
         \/ /\ Return(w, "account")
            /\ a = None \/ c \notin connections
            /\ UNCHANGED <<accountID, hist>>
  /\ UNCHANGED <<sock, connections, userUUID, serverID, indexes, removal, pending, offlineSent, kicks>>

IndexAccount(w) ==
  /\ Return(w, "index")
  /\ accountConnections' = [accountConnections EXCEPT ![wreq[w].user] = @ \cup {wreq[w].conn}]
  /\ UNCHANGED <<sock, connections, fields, userConnections, serverUserConnections, removal, pending,
                 offlineSent, kicks, hist>>

-----------------------------------------------------------------------------
(* Removal: the notification, then RemoveConnection.                       *)

Start(c, r) ==
  /\ <<c, r>> \notin removers
  /\ removers' = removers \cup {<<c, r>>}
  /\ UNCHANGED cleaning

\* Mutant: the logic server is told and the connection stays registered.
OnCloseKeeps(c) ==
  /\ sock[c] = "shut" /\ <<c, "loop">> \notin removers
  /\ sock' = [sock EXCEPT ![c] = "gone"]
  /\ IF c \in connections THEN Notify(c) ELSE UNCHANGED <<pending, hist>>
  /\ UNCHANGED <<connections, fields, indexes, removal, workers, offlineSent, kicks>>

\* Once the socket is closed, on the event loop.
OnClose(c) ==
  /\ sock[c] = "shut" /\ <<c, "loop">> \notin removers
  /\ sock' = [sock EXCEPT ![c] = "gone"]
  /\ IF c \in connections
     THEN Notify(c) /\ Start(c, "loop")
     ELSE UNCHANGED <<pending, hist, removal>>
  /\ UNCHANGED <<connections, fields, indexes, workers, offlineSent, kicks>>

\* handleWebSocketCloseFrame, on the event loop too: OnClose comes after it.
CloseFrame(c) ==
  /\ sock[c] = "open" /\ c \in connections
  /\ Notify(c) /\ Start(c, "loop")
  /\ Shut(c)
  /\ UNCHANGED <<connections, fields, indexes, workers, offlineSent, kicks>>

\* Mutant: the idle checker closes and removes without the callback.
IdleTimeoutSilent(c) ==
  /\ c \in connections
  /\ Start(c, "checker")
  /\ Shut(c)
  /\ UNCHANGED <<connections, fields, indexes, workers, pending, offlineSent, kicks, hist>>

\* checkIdleConnections and CloseAllConnections: callback, Close, removal.
IdleTimeout(c) ==
  /\ c \in connections
  /\ Notify(c) /\ Start(c, "checker")
  /\ Shut(c)
  /\ UNCHANGED <<connections, fields, indexes, workers, offlineSent, kicks>>

\* checkWebSocketConnections: the socket is closed after the removal.
HeartbeatTimeout(c) ==
  /\ c \in connections
  /\ Notify(c) /\ Start(c, "checker")
  /\ UNCHANGED <<sock, connections, fields, indexes, workers, offlineSent, kicks>>

\* DeleteIf on connections: one caller goes on to clean up.
Delete(c, r) ==
  /\ <<c, r>> \in removers
  /\ removers' = removers \ {<<c, r>>}
  /\ cleaning' = IF c \in connections THEN [cleaning EXCEPT ![c] = "user"] ELSE cleaning
  /\ connections' = connections \ {c}
  /\ hist' = [hist EXCEPT !.raced = IF c \in connections /\ LoggingIn(c) THEN @ \cup {c} ELSE @]
  /\ UNCHANGED <<sock, fields, indexes, workers, pending, offlineSent, kicks>>

Clean(c, from, to) ==
  /\ cleaning[c] = from
  /\ cleaning' = [cleaning EXCEPT ![c] = to]
  /\ UNCHANGED <<sock, connections, fields, removers, workers, pending, offlineSent, kicks, hist>>

\* Mutant: the mapping of the uuid goes, whichever connection it leads to.
CleanUserAny(c) ==
  /\ Clean(c, "user", "rest")
  /\ userConnections' = [userConnections EXCEPT ![userUUID[c]] = None]
  /\ UNCHANGED <<serverUserConnections, accountConnections>>

CleanUser(c) ==
  /\ Clean(c, "user", "rest")
  /\ DeleteUserIf(userUUID[c], c)
  /\ UNCHANGED <<serverUserConnections, accountConnections>>

\* The key goes from serverUserConnections whichever connection it leads to.
DeleteServerUser(c) ==
  serverUserConnections' = [serverUserConnections EXCEPT ![<<serverID[c], userUUID[c]>>] = None]

\* Mutant: the account loses all its connections.
CleanRestAll(c) ==
  /\ Clean(c, "rest", "none")
  /\ accountConnections' = [a \in Users |-> IF a = accountID[c] THEN {} ELSE accountConnections[a]]
  /\ DeleteServerUser(c)
  /\ UNCHANGED userConnections

\* Mutant: the connection stays in its account's set.
CleanRestNot(c) ==
  /\ Clean(c, "rest", "none")
  /\ DeleteServerUser(c)
  /\ UNCHANGED <<userConnections, accountConnections>>

\* removeAccountConnection and the server mapping: nothing reads both.
CleanRest(c) ==
  /\ Clean(c, "rest", "none")
  /\ accountConnections' =
       [a \in Users |-> accountConnections[a] \ (IF a = accountID[c] THEN {c} ELSE {})]
  /\ DeleteServerUser(c)
  /\ UNCHANGED userConnections

-----------------------------------------------------------------------------
(* Kicks and maintenance.                                                  *)

\* KickByAccounts: the connections of the account are listed, then kicked.
KickByAccounts(a) ==
  /\ hist.tasks < MaxTasks /\ hist' = [hist EXCEPT !.tasks = @ + 1]
  /\ kickList' = kickList \cup (accountConnections[a] \X {"id"})
  /\ UNCHANGED <<sock, connections, fields, indexes, removal, workers, pending, offlineSent, maint, snapshot>>

\* kickConn: notice, notification and close.  An account's connection is
\* looked up again, one listed by maintenance is at hand.
KickConn(c, by) ==
  /\ <<c, by>> \in kickList
  /\ kickList' = kickList \ {<<c, by>>}
  /\ IF by = "conn" \/ c \in connections
     THEN Notify(c) /\ Shut(c)
     ELSE UNCHANGED <<pending, hist, sock>>
  /\ UNCHANGED <<connections, fields, indexes, removal, workers, offlineSent, maint, snapshot>>

Enable(s) ==
  /\ hist.tasks < MaxTasks /\ hist' = [hist EXCEPT !.tasks = @ + 1]
  /\ s \notin snapshot
  /\ maint' = maint \cup {s}
  /\ snapshot' = snapshot \cup {s}
  /\ UNCHANGED <<sock, connections, fields, indexes, removal, workers, pending, offlineSent, kickList>>

\* Mutant: only connections whose login has come as far as the uuid are listed.
SnapshotLoggedIn(s) ==
  /\ s \in snapshot
  /\ snapshot' = snapshot \ {s}
  /\ LET matched == {c \in connections : serverID[c] = s /\ userUUID[c] # Temp(c)}
     IN  /\ kickList' = kickList \cup (matched \X {"conn"})
         /\ hist' = [hist EXCEPT !.slipped = @ \ matched]
  /\ UNCHANGED <<sock, connections, fields, indexes, removal, workers, pending, offlineSent, maint>>

\* snapshotMaintenanceTargets, after the mark.
Snapshot(s) ==
  /\ s \in snapshot
  /\ snapshot' = snapshot \ {s}
  /\ LET matched == {c \in connections : serverID[c] = s}
     IN  /\ kickList' = kickList \cup (matched \X {"conn"})
         /\ hist' = [hist EXCEPT !.slipped = @ \ matched]
  /\ UNCHANGED <<sock, connections, fields, indexes, removal, workers, pending, offlineSent, maint>>

Disable(s) ==
  /\ s \in maint
  /\ maint' = maint \ {s}
  /\ UNCHANGED <<sock, connections, fields, indexes, removal, workers, pending, offlineSent,
                 snapshot, kickList, hist>>

-----------------------------------------------------------------------------
LoginStep(w) ==
  \/ Validate(w) \/ Bind(w) \/ CloseOld(w) \/ SetUUID(w) \/ StoreUser(w)
  \/ StoreServer(w) \/ SetAccount(w) \/ IndexAccount(w)

RemoveConnection(c) ==
  (\E r \in Removers : Delete(c, r)) \/ CleanUser(c) \/ CleanRest(c)

Next ==
  \/ \E c \in Conns :
       \/ OnOpen(c) \/ Hangup(c) \/ Logout(c) \/ Notified(c)
       \/ OnClose(c) \/ CloseFrame(c) \/ IdleTimeout(c) \/ HeartbeatTimeout(c)
       \/ RemoveConnection(c)
       \/ \E s \in Servers : Refuse(c, s)
       \/ \E w \in Workers, s \in Servers, a \in UserIds : LoginGate(w, c, s, a)
       \/ \E by \in {"id", "conn"} : KickConn(c, by)
  \/ \E w \in Workers : LoginStep(w)
  \/ \E a \in Users : KickByAccounts(a)
  \/ \E s \in Servers : Enable(s) \/ Snapshot(s) \/ Disable(s)

\* Event loops, checkers and kick tasks that have begun go on.
Fairness ==
  \A c \in Conns : /\ WF_vars(OnClose(c))
                   /\ WF_vars(RemoveConnection(c))
                   /\ \A by \in {"id", "conn"} : WF_vars(KickConn(c, by))

SafeSpec == Init /\ [][Next]_vars
Spec == SafeSpec /\ Fairness

-----------------------------------------------------------------------------
Steady(c) == c \in connections /\ ~LoggingIn(c) /\ ~Removing(c)
Gone(c) == sock[c] = "gone" /\ c \notin connections /\ ~LoggingIn(c) /\ ~Removing(c)

(* A connection logged in to an account is in the account's set, so that   *)
(* KickAccounts misses none, whatever other connections of the account     *)
(* come and go meanwhile.                                                  *)
AccountIndexed ==
  \A c \in Conns : Steady(c) /\ accountID[c] # None => c \in accountConnections[accountID[c]]

(* The connection that was last to log a uuid in is the one userConnections *)
(* leads to: the removal of an older connection of the same user does not  *)
(* take the mapping away.                                                  *)
UserReachable ==
  \A c \in Conns :
    Steady(c) /\ hist.last[userUUID[c]] = c => userConnections[userUUID[c]] = c

(* The same of serverUserConnections, through which groups reach their     *)
(* members, once no login is under way and if none overlapped a removal.   *)
ServerUserReachable ==
  \A c \in Conns :
    /\ Steady(c) /\ hist.raced = {} /\ hist.last[userUUID[c]] = c
    /\ \A w \in Workers : wpc[w] = "free"
    => serverUserConnections[<<serverID[c], userUUID[c]>>] = c

Referenced(c) ==
  \/ \E u \in UUIDs : userConnections[u] = c
  \/ \E k \in Keys : serverUserConnections[k] = c
  \/ \E a \in Users : c \in accountConnections[a]

(* No index leads to a connection that is gone, provided that its logins   *)
(* overlapped neither each other nor its removal and were all to one       *)
(* server and account.                                                     *)
RemovalCleans == \A c \in Conns : Gone(c) /\ c \notin hist.raced => ~Referenced(c)

(* The logic server hears of every bound connection that went away, unless *)
(* a send failed, no client was connected, or the connection was bound     *)
(* when its removal had begun.                                             *)
OfflineNotLost ==
  \A c \in Conns : Gone(c) /\ serverID[c] # None /\ pending[c] = 0 =>
    c \in offlineSent \cup hist.excused

(* Once maintenance of a server has listed its targets, a connection of    *)
(* the server that is still open is about to be kicked, or belongs to a    *)
(* login that was past its last check when the mark was set.               *)
MaintenanceCovers ==
  \A c \in connections :
    sock[c] = "open" /\ serverID[c] \in maint \ snapshot =>
      <<c, "conn">> \in kickList \/ c \in hist.slipped

(* The same without the exception, of connections whose login is over.    *)
MaintenanceEmpties ==
  \A c \in connections :
    Steady(c) /\ sock[c] = "open" /\ serverID[c] \in maint \ snapshot => <<c, "conn">> \in kickList

(* A connection listed for a kick is removed in the end.                   *)
KickRemoves ==
  \A c \in Conns : (\E by \in {"id", "conn"} : <<c, by>> \in kickList) ~> c \notin connections
=============================================================================
