--------------------------- MODULE SessionsProofs ---------------------------
(***************************************************************************)
(* For any number of connections, login workers, servers and users: the    *)
(* indexes of the ConnectionManager lead where they should, a removal      *)
(* leaves nothing behind, the logic server hears of every connection that  *)
(* goes, and maintenance misses none it should kick.                       *)
(***************************************************************************)
EXTENDS Sessions, TLAPS

USE SMTT(30), ZenonT(30)

-----------------------------------------------------------------------------
(* The inductive invariant.                                                *)

LogsIn(w, c) == wreq[w] # None /\ wreq[w].conn = c

\* A connection is registered when its socket opens, once, and what is not
\* yet open has no trace.
Life ==
  /\ \A c \in connections : sock[c] # "new" /\ cleaning[c] = "none"
  /\ \A c \in Conns : sock[c] = "new" =>
       /\ cleaning[c] = "none" /\ userUUID[c] = Temp(c)
       /\ serverID[c] = None /\ accountID[c] = None
       /\ \A w \in Workers : ~LogsIn(w, c)
  /\ \A w \in Workers : wpc[w] = "index" => wreq[w].user # None
  /\ \A c \in Conns : hist.last[Temp(c)] = None

\* A registered connection is in the set of its account, or the worker that
\* set the account is about to add it.
Indexed ==
  \A c \in connections : accountID[c] # None =>
    \/ c \in accountConnections[accountID[c]]
    \/ \E w \in Workers : wpc[w] = "index" /\ LogsIn(w, c) /\ wreq[w].user = accountID[c]

\* The last connection to store its uuid is the one it leads to, or the
\* worker that set the field is about to store it again.
Reachable ==
  \A c \in connections : hist.last[userUUID[c]] = c =>
    \/ userConnections[userUUID[c]] = c
    \/ \E w \in Workers : wpc[w] = "storeUser" /\ LogsIn(w, c) /\ FullUUID(w) = userUUID[c]

\* One login at a time, of a connection that stays registered while an index
\* is being written, and whose fields are those of the login.
OneLogin(c) ==
  /\ \A w, v \in Workers : LogsIn(w, c) /\ LogsIn(v, c) => w = v
  /\ \A w \in Workers : LogsIn(w, c) =>
       /\ wpc[w] \in {"storeUser", "storeServer", "index"} => c \in connections
       /\ wpc[w] \in {"old", "uuid", "storeUser", "storeServer"} /\ c \in connections
            => serverID[c] = wreq[w].server
       /\ wpc[w] \in {"storeUser", "storeServer"} => userUUID[c] = FullUUID(w)
       /\ wpc[w] = "index" => accountID[c] = wreq[w].user

\* An entry that leads to a connection is the one its fields name, and is
\* there as long as the connection is registered or its clean-up is to come.
UserEntry(c) ==
  \A u \in UUIDs : userConnections[u] = c =>
    u = userUUID[c] /\ (c \in connections \/ cleaning[c] = "user")

ServerEntry(c) ==
  \A s \in Servers \cup {None}, u \in UUIDs : serverUserConnections[<<s, u>>] = c =>
    /\ serverID[c] # None /\ s = serverID[c]
    /\ \/ u = userUUID[c]
       \/ \E w \in Workers : wpc[w] \in {"storeUser", "storeServer"} /\ LogsIn(w, c) /\ wreq[w].old = u
    /\ c \in connections \/ cleaning[c] # "none"

AccountEntry(c) ==
  \A a \in Users : c \in accountConnections[a] =>
    a = accountID[c] /\ (c \in connections \/ cleaning[c] # "none")

Tidy ==
  \A c \in Conns : c \notin hist.raced =>
    OneLogin(c) /\ UserEntry(c) /\ ServerEntry(c) /\ AccountEntry(c)

\* From the moment a removal begins the logic server has been told, is being
\* told, or cannot be.
Told ==
  \A c \in Conns :
    \/ \E r \in Removers : <<c, r>> \in removers
    \/ sock[c] # "new" /\ c \notin connections
    => serverID[c] = None \/ pending[c] > 0 \/ c \in offlineSent \cup hist.excused

SInv == TypeOK /\ Life /\ Indexed /\ Reachable /\ Tidy /\ Told /\ MaintenanceCovers

-----------------------------------------------------------------------------
(* Types.                                                                  *)

(* A worker's uuid is a uuid, a temporary one too, and they differ.        *)
LEMMA UUIDFacts ==
  /\ \A c \in Conns : Temp(c) \in UUIDs
  /\ \A w \in Workers : wreq[w] \in Requests =>
       FullUUID(w) \in UUIDs /\ \A c \in Conns : FullUUID(w) # Temp(c)
<1>1. \A c \in Conns : Temp(c) \in UUIDs
  BY ZenonT(30) DEF UUIDs
<1>2. ASSUME NEW w \in Workers, wreq[w] \in Requests
      PROVE  FullUUID(w) \in UUIDs /\ \A c \in Conns : FullUUID(w) # Temp(c)
  <2>1. wreq[w].server \in Servers /\ wreq[w].conn \in Conns /\ wreq[w].user \in UserIds
    BY <1>2, ZenonT(30) DEF Requests
  <2>2. FullUUID(w) \in Servers \X (Users \cup Conns)
    BY <2>1, ZenonT(30) DEF FullUUID, Users
  <2>3. wreq[w].server # None
    BY <2>1, SessionsAssumption, ZenonT(30)
  <2> QED BY <2>2, <2>3, ZenonT(30) DEF UUIDs, FullUUID, Temp
<1> QED BY <1>1, <1>2, ZenonT(30)

(* What the type of a request gives of one that a worker has.              *)
LEMMA Worker ==
  ASSUME TypeOK, NEW w \in Workers, wpc[w] # "free"
  PROVE  /\ wreq[w] \in Requests /\ wreq[w] # None
         /\ wreq[w].conn \in Conns /\ wreq[w].server \in Servers
         /\ wreq[w].user \in UserIds /\ wreq[w].old \in UUIDs
         /\ FullUUID(w) \in UUIDs /\ \A c \in Conns : FullUUID(w) # Temp(c)
<1>1. wreq[w] \in Requests /\ wreq[w] # None
  BY ZenonT(30) DEF TypeOK
<1> QED BY <1>1, UUIDFacts, ZenonT(30) DEF Requests

(* A notification changes counters of its own and the excuses.             *)
LEMMA NotifyType ==
  ASSUME TypeOK, NEW c \in Conns, Notify(c)
  PROVE  /\ pending' \in [Conns -> Nat]
         /\ hist' \in Histories
         /\ hist'.last = hist.last /\ hist'.raced = hist.raced /\ hist'.slipped = hist.slipped
<1>1. CASE UNCHANGED hist
  BY <1>1 DEF TypeOK, Notify
<1>2. CASE hist' = [hist EXCEPT !.excused = @ \cup {c}] /\ UNCHANGED pending
  BY <1>2, ZenonT(30) DEF TypeOK, Histories
<1> QED BY <1>1, <1>2, ZenonT(30) DEF Notify

\* Every step keeps the types of the connections, the indexes and the workers.
LEMMA TypeStep == TypeOK /\ [Next]_vars => TypeOK'
<1> SUFFICES ASSUME TypeOK, [Next]_vars PROVE TypeOK'
  BY ZenonT(30)
<1>1. ASSUME NEW c \in Conns, OnOpen(c) PROVE TypeOK'
  BY <1>1, UUIDFacts, ZenonT(30) DEF TypeOK, OnOpen, fields, removal, workers, kicks
<1>2. ASSUME NEW c \in Conns, Hangup(c) PROVE TypeOK'
  BY <1>2, ZenonT(30) DEF TypeOK, Hangup, Shut, fields, indexes, removal, workers, kicks
<1>3. ASSUME NEW c \in Conns, Logout(c) PROVE TypeOK'
  BY <1>3, NotifyType, ZenonT(30) DEF TypeOK, Logout, Shut, fields, indexes, removal, workers, kicks
<1>4. ASSUME NEW c \in Conns, Notified(c) PROVE TypeOK'
  BY <1>4 DEF TypeOK, Histories, Notified, fields, indexes, removal, workers, kicks
<1>5. ASSUME NEW c \in Conns, OnClose(c) PROVE TypeOK'
  BY <1>5, NotifyType DEF TypeOK, OnClose, Start, Removers, fields, indexes, removal, workers, kicks
<1>6. ASSUME NEW c \in Conns, CloseFrame(c) \/ IdleTimeout(c) \/ HeartbeatTimeout(c) PROVE TypeOK'
  BY <1>6, NotifyType DEF TypeOK, CloseFrame, IdleTimeout, HeartbeatTimeout, Start, Shut, Removers, fields,
     indexes, removal, workers, kicks
<1>7. ASSUME NEW c \in Conns, NEW r \in Removers, Delete(c, r) PROVE TypeOK'
  BY <1>7, ZenonT(30) DEF TypeOK, Histories, Delete, fields, indexes, workers, kicks
<1>8. ASSUME NEW c \in Conns, CleanUser(c) PROVE TypeOK'
  BY <1>8, ZenonT(30) DEF TypeOK, CleanUser, Clean, DeleteUserIf, fields, workers, kicks
<1>9. ASSUME NEW c \in Conns, CleanRest(c) PROVE TypeOK'
  BY <1>9, ZenonT(30) DEF TypeOK, CleanRest, Clean, DeleteServerUser, Keys, fields, workers, kicks
<1>10. ASSUME NEW c \in Conns, NEW s \in Servers, Refuse(c, s) PROVE TypeOK'
  BY <1>10, ZenonT(30) DEF TypeOK, Refuse, Shut, fields, indexes, removal, workers, kicks
<1>11. ASSUME NEW c \in Conns, NEW w \in Workers, NEW s \in Servers, NEW a \in UserIds,
              LoginGate(w, c, s, a)
       PROVE TypeOK'
  <2> DEFINE req == [conn |-> c, server |-> s, user |-> a, old |-> Temp(c)]
  <2>1. req \in Requests /\ req # None
    BY UUIDFacts, NoneIsNoRequest DEF Requests
  <2>2. hist' \in Histories
    <3> DEFINE raced == IF LoggingIn(c) THEN hist.raced \cup {c} ELSE hist.raced
    <3>1. raced \in SUBSET Conns
      BY ZenonT(30) DEF TypeOK, Histories
    <3>2. hist' = [hist EXCEPT !.logins = @ + 1, !.raced = raced] /\ hist.logins < MaxLogins
      BY <1>11, ZenonT(30) DEF LoginGate
    <3>3. hist.logins + 1 \in 0 .. MaxLogins
      BY SessionsAssumption, <3>2 DEF TypeOK, Histories
    <3> HIDE DEF raced
    <3> QED BY <3>1, <3>2, <3>3, ZenonT(30) DEF TypeOK, Histories
  <2> HIDE DEF req
  <2> QED BY <1>11, <2>1, <2>2, ZenonT(30) DEF TypeOK, LoginGate, req, fields, indexes, removal, kicks
<1>12. ASSUME NEW c \in Conns, NEW by \in {"id", "conn"}, KickConn(c, by) PROVE TypeOK'
  BY <1>12, NotifyType, ZenonT(30) DEF TypeOK, KickConn, Shut, fields, indexes, removal, workers
<1>13. ASSUME NEW w \in Workers, Validate(w) PROVE TypeOK'
  BY <1>13, ZenonT(30) DEF TypeOK, Validate, Return, Go, fields, indexes, removal, kicks
<1>14. ASSUME NEW w \in Workers, Bind(w) PROVE TypeOK'
  <2>1. wreq[w].conn \in Conns /\ wreq[w].server \in Servers
    BY <1>14, Worker, ZenonT(30) DEF Bind, Go
  <2>2. hist' \in Histories
    <3> DEFINE c == wreq[w].conn
               excused == IF sock[c] = "gone" \/ Removing(c) THEN hist.excused \cup {c} ELSE hist.excused
               raced == IF serverID[c] \notin {None, wreq[w].server} THEN hist.raced \cup {c} ELSE hist.raced
               slipped == IF wreq[w].server \in maint THEN hist.slipped \cup {c} ELSE hist.slipped
    <3>1. excused \in SUBSET Conns /\ raced \in SUBSET Conns /\ slipped \in SUBSET Conns
      BY <2>1 DEF TypeOK, Histories
    <3>2. \/ UNCHANGED hist
          \/ hist' = [hist EXCEPT !.excused = excused, !.raced = raced, !.slipped = slipped]
      BY <1>14, ZenonT(30) DEF Bind
    <3> HIDE DEF excused, raced, slipped
    <3> QED BY SessionsAssumption, <3>1, <3>2, ZenonT(30) DEF TypeOK, Histories
  <2> QED BY <1>14, <2>1, <2>2, ZenonT(30) DEF TypeOK, Bind, Go, indexes, removal, kicks
<1>15. ASSUME NEW w \in Workers, CloseOld(w) PROVE TypeOK'
  BY <1>15, Worker, NotifyType DEF TypeOK, CloseOld, Go, Shut, fields, indexes, removal, kicks
<1>16. ASSUME NEW w \in Workers, SetUUID(w) PROVE TypeOK'
  <2>1. wreq[w] \in Requests /\ wreq[w].conn \in Conns /\ FullUUID(w) \in UUIDs
    BY <1>16, Worker, ZenonT(30) DEF SetUUID, Go
  <2>2. userUUID[wreq[w].conn] \in UUIDs
    BY <2>1, ZenonT(30) DEF TypeOK
  <2>3. [wreq[w] EXCEPT !.old = userUUID[wreq[w].conn]] \in Requests
    BY <2>1, <2>2, ZenonT(30) DEF Requests
  <2>4. wreq' \in [Workers -> Requests \cup {None}] /\ \A v \in Workers : wpc'[v] = "free" <=> wreq'[v] = None
    BY <1>16, <2>1, <2>3, NoneIsNoRequest DEF TypeOK, SetUUID, Go
  <2> QED BY <1>16, <2>1, <2>2, <2>4 DEF TypeOK, SetUUID, Go, DeleteUserIf, removal, kicks
<1>17. ASSUME NEW w \in Workers, StoreUser(w) PROVE TypeOK'
  BY <1>17, Worker, ZenonT(30) DEF TypeOK, Histories, StoreUser, Go, fields, removal, kicks
<1>18. ASSUME NEW w \in Workers, StoreServer(w) PROVE TypeOK'
  BY <1>18, Worker, ZenonT(30) DEF TypeOK, StoreServer, Go, fields, removal, kicks
<1>19. ASSUME NEW w \in Workers, SetAccount(w) PROVE TypeOK'
  <2>1. wreq[w].conn \in Conns /\ wreq[w].user \in UserIds /\ wreq[w] # None
    BY <1>19, Worker, ZenonT(30) DEF SetAccount, Return, Go
  <2>2. hist' \in Histories
    BY <1>19, <2>1 DEF TypeOK, Histories, SetAccount
  <2>3. accountID' \in [Conns -> Users \cup {None}]
    BY <1>19, <2>1 DEF TypeOK, SetAccount, Users
  <2> QED BY <1>19, <2>1, <2>2, <2>3 DEF TypeOK, SetAccount, Return, Go, indexes, removal, kicks
<1>20. ASSUME NEW w \in Workers, IndexAccount(w) PROVE TypeOK'
  <2>1. wreq[w].conn \in Conns /\ wreq[w] # None
    BY <1>20, Worker, ZenonT(30) DEF IndexAccount, Return, Go
  <2>2. accountConnections' \in [Users -> SUBSET Conns]
    BY <1>20, <2>1, ZenonT(30) DEF TypeOK, IndexAccount
  <2> QED BY <1>20, <2>1, <2>2, ZenonT(30) DEF TypeOK, IndexAccount, Return, Go, fields, removal, kicks
<1>21. ASSUME NEW a \in Users, KickByAccounts(a) PROVE TypeOK'
  BY SessionsAssumption, <1>21 DEF TypeOK, Histories, KickByAccounts, fields, indexes, removal, workers
<1>22. ASSUME NEW s \in Servers, Enable(s) \/ Snapshot(s) \/ Disable(s) PROVE TypeOK'
  BY SessionsAssumption, <1>22 DEF TypeOK, Histories, Enable, Snapshot, Disable, fields, indexes, removal,
     workers
<1>23. CASE UNCHANGED vars
  BY <1>23, ZenonT(30) DEF TypeOK, vars, fields, indexes, removal, workers, kicks
<1> QED
  BY <1>1, <1>2, <1>3, <1>4, <1>5, <1>6, <1>7, <1>8, <1>9, <1>10, <1>11, <1>12, <1>13, <1>14, <1>15, <1>16,
     <1>17, <1>18, <1>19, <1>20, <1>21, <1>22, <1>23, ZenonT(30) DEF Next, LoginStep, RemoveConnection

-----------------------------------------------------------------------------
(* Indexes.                                                                *)

Core == Life /\ Indexed /\ Reachable /\ Tidy

\* What closing, notifying and kicking leave alone.
Aside ==
  /\ UNCHANGED <<connections, fields, indexes, cleaning, workers>>
  /\ hist'.last = hist.last /\ hist'.raced = hist.raced
  /\ \A c \in Conns : sock'[c] = "new" <=> sock[c] = "new"

\* Closing, notifying and kicking leave the indexes as they are.
LEMMA AsideCore == TypeOK /\ Core /\ Aside => Core'
<1> SUFFICES ASSUME TypeOK, Core, Aside PROVE Core'
  BY ZenonT(30)
<1>1. /\ \A w \in Workers, c \in Conns : LogsIn(w, c)' <=> LogsIn(w, c)
      /\ \A w \in Workers : FullUUID(w)' = FullUUID(w)
  BY ZenonT(30) DEF Aside, fields, indexes, workers, LogsIn, FullUUID
<1>2. Life'
  BY <1>1, ZenonT(30) DEF Aside, fields, indexes, workers, Core, Life, TypeOK
<1>3. Indexed'
  BY <1>1 DEF Aside, fields, indexes, workers, Core, Indexed, TypeOK
<1>4. Reachable'
  BY <1>1 DEF Aside, fields, indexes, workers, Core, Reachable, TypeOK
<1>5. Tidy'
  <2> SUFFICES ASSUME NEW c \in Conns, c \notin hist'.raced
               PROVE  OneLogin(c)' /\ UserEntry(c)' /\ ServerEntry(c)' /\ AccountEntry(c)'
    BY ZenonT(30) DEF fields, indexes, workers, Tidy
  <2>1. OneLogin(c) /\ UserEntry(c) /\ ServerEntry(c) /\ AccountEntry(c)
    BY ZenonT(30) DEF Aside, fields, indexes, workers, Core, Tidy
  <2>2. OneLogin(c)'
    BY <1>1, <2>1, ZenonT(30) DEF Aside, fields, indexes, workers, OneLogin
  <2>3. UserEntry(c)'
    BY <2>1, ZenonT(30) DEF Aside, fields, indexes, workers, UserEntry
  <2>4. ServerEntry(c)'
    BY <1>1, <2>1, ZenonT(30) DEF Aside, fields, indexes, workers, ServerEntry
  <2>5. AccountEntry(c)'
    BY <2>1, ZenonT(30) DEF Aside, fields, indexes, workers, AccountEntry
  <2> QED BY <2>2, <2>3, <2>4, <2>5, ZenonT(30) DEF fields, indexes, workers
<1> QED BY <1>2, <1>3, <1>4, <1>5, ZenonT(30) DEF fields, indexes, workers, Core

(* Closing, notification, kicks and maintenance touch no index.            *)
LEMMA AsideSteps ==
  ASSUME TypeOK,
         \/ \E c \in Conns : \/ Hangup(c) \/ Logout(c) \/ Notified(c) \/ OnClose(c) \/ CloseFrame(c)
                             \/ IdleTimeout(c) \/ HeartbeatTimeout(c)
                             \/ \E s \in Servers : Refuse(c, s)
                             \/ \E by \in {"id", "conn"} : KickConn(c, by)
         \/ \E a \in Users : KickByAccounts(a)
         \/ \E s \in Servers : Enable(s) \/ Snapshot(s) \/ Disable(s)
         \/ UNCHANGED vars
  PROVE  Aside
<1>1. ASSUME NEW c \in Conns, Hangup(c) \/ \E s \in Servers : Refuse(c, s) PROVE Aside
  BY <1>1, ZenonT(30) DEF Aside, TypeOK, Hangup, Refuse, Shut, removal
<1>2. ASSUME NEW c \in Conns, Logout(c) PROVE Aside
  BY <1>2, NotifyType, ZenonT(30) DEF Aside, TypeOK, Logout, Shut, removal
<1>3. ASSUME NEW c \in Conns, Notified(c) PROVE Aside
  BY <1>3, ZenonT(30) DEF Aside, TypeOK, Histories, Notified, removal
<1>4. ASSUME NEW c \in Conns, OnClose(c) PROVE Aside
  BY <1>4, NotifyType, ZenonT(30) DEF Aside, TypeOK, OnClose, Start, removal
<1>5. ASSUME NEW c \in Conns, CloseFrame(c) \/ IdleTimeout(c) \/ HeartbeatTimeout(c) PROVE Aside
  BY <1>5, NotifyType, ZenonT(30) DEF Aside, TypeOK, CloseFrame, IdleTimeout, HeartbeatTimeout, Start, Shut,
     removal
<1>6. ASSUME NEW c \in Conns, NEW by \in {"id", "conn"}, KickConn(c, by) PROVE Aside
  BY <1>6, NotifyType, ZenonT(30) DEF Aside, TypeOK, KickConn, Shut, removal
<1>7. ASSUME NEW a \in Users, KickByAccounts(a) PROVE Aside
  BY <1>7, ZenonT(30) DEF Aside, TypeOK, Histories, KickByAccounts, removal
<1>8. ASSUME NEW s \in Servers, Enable(s) \/ Snapshot(s) \/ Disable(s) PROVE Aside
  BY <1>8, ZenonT(30) DEF Aside, TypeOK, Histories, Enable, Snapshot, Disable, removal
<1>9. CASE UNCHANGED vars
  BY <1>9, ZenonT(30) DEF Aside, vars, removal
<1> HIDE DEF Aside
<1> QED BY <1>1, <1>2, <1>3, <1>4, <1>5, <1>6, <1>7, <1>8, <1>9, ZenonT(30)

(* A new connection has no trace but its temporary uuid.                   *)
LEMMA OnOpenCore ==
  ASSUME TypeOK, Core, NEW c \in Conns, OnOpen(c)
  PROVE  Core'
<1>1. /\ \A w \in Workers, d \in Conns : LogsIn(w, d)' <=> LogsIn(w, d)
      /\ \A w \in Workers : FullUUID(w)' = FullUUID(w)
  BY ZenonT(30) DEF OnOpen, fields, removal, workers, LogsIn, FullUUID
<1>2. /\ cleaning[c] = "none" /\ userUUID[c] = Temp(c) /\ accountID[c] = None /\ serverID[c] = None
      /\ \A w \in Workers : ~LogsIn(w, c)
      /\ c \notin connections /\ Temp(c) \in UUIDs /\ hist.last[Temp(c)] = None
  BY UUIDFacts, ZenonT(30) DEF OnOpen, fields, removal, workers, Core, Life
<1>3. Life'
  BY <1>1, <1>2 DEF OnOpen, fields, removal, workers, Core, Life, TypeOK
<1>4. Indexed'
  BY <1>1, <1>2 DEF OnOpen, fields, removal, workers, Core, Indexed, TypeOK
<1>5. Reachable'
  BY SessionsAssumption, <1>1, <1>2 DEF OnOpen, fields, removal, workers, Core, Reachable, TypeOK
<1>6. ASSUME NEW d \in Conns, d \notin hist'.raced
      PROVE  OneLogin(d)' /\ UserEntry(d)' /\ ServerEntry(d)' /\ AccountEntry(d)'
  <2>1. OneLogin(d) /\ UserEntry(d) /\ ServerEntry(d) /\ AccountEntry(d)
    BY <1>6, ZenonT(30) DEF OnOpen, fields, removal, workers, Core, Tidy
  <2>2. OneLogin(d)'
    BY <1>1, <1>2, <2>1 DEF OnOpen, fields, removal, workers, OneLogin
  <2>3. UserEntry(d)'
    BY <1>2, <2>1, ZenonT(30) DEF OnOpen, fields, removal, workers, UserEntry, TypeOK
  <2>4. ServerEntry(d)'
    BY <1>1, <1>2, <2>1 DEF OnOpen, fields, removal, workers, ServerEntry
  <2>5. AccountEntry(d)'
    BY <1>2, <2>1, ZenonT(30) DEF OnOpen, fields, removal, workers, AccountEntry
  <2> QED BY <2>2, <2>3, <2>4, <2>5, ZenonT(30) DEF OnOpen, fields, removal, workers
<1> QED BY <1>3, <1>4, <1>5, <1>6, ZenonT(30) DEF OnOpen, fields, removal, workers, Core, Tidy

(* A second login of a connection that is logging in counts as a race.     *)
LEMMA LoginGateCore ==
  ASSUME TypeOK, TypeOK', Core, NEW w \in Workers, NEW c \in Conns, NEW s \in Servers, NEW a \in UserIds,
         LoginGate(w, c, s, a)
  PROVE  Core'
<1>1. /\ \A v \in Workers \ {w} : wpc'[v] = wpc[v] /\ wreq'[v] = wreq[v] /\ FullUUID(v)' = FullUUID(v)
      /\ \A v \in Workers \ {w}, d \in Conns : LogsIn(v, d)' <=> LogsIn(v, d)
      /\ wpc[w] = "free" /\ wpc'[w] = "validate" /\ wreq[w] = None
      /\ \A d \in Conns : ~LogsIn(w, d) /\ (LogsIn(w, d)' => d = c)
  BY DEF LoginGate, fields, indexes, removal, LogsIn, FullUUID, TypeOK
<1>2. hist'.raced = (IF LoggingIn(c) THEN hist.raced \cup {c} ELSE hist.raced) /\ hist'.last = hist.last
  BY ZenonT(30) DEF LoginGate, fields, indexes, removal, TypeOK, Histories
<1>3. Life'
  BY <1>1, <1>2 DEF LoginGate, fields, indexes, removal, Core, Life, TypeOK
<1>4. Indexed'
  BY <1>1, ZenonT(30) DEF LoginGate, fields, indexes, removal, Core, Indexed, TypeOK
<1>5. Reachable'
  BY <1>1, <1>2 DEF LoginGate, fields, indexes, removal, Core, Reachable, TypeOK
<1>6. ASSUME NEW d \in Conns, d \notin hist'.raced
      PROVE  OneLogin(d)' /\ UserEntry(d)' /\ ServerEntry(d)' /\ AccountEntry(d)'
  <2>1. OneLogin(d) /\ UserEntry(d) /\ ServerEntry(d) /\ AccountEntry(d)
    BY <1>2, <1>6 DEF LoginGate, fields, indexes, removal, Core, Tidy
  <2>2. OneLogin(d)'
    <3>1. d = c => \A v \in Workers : ~LogsIn(v, d)
      BY <1>2, <1>6 DEF LoginGate, fields, indexes, removal, LoggingIn, LogsIn
    <3> QED BY <1>1, <2>1, <3>1 DEF LoginGate, fields, indexes, removal, OneLogin
  <2>3. UserEntry(d)'
    BY <2>1, ZenonT(30) DEF LoginGate, fields, indexes, removal, UserEntry
  <2>4. ServerEntry(d)'
    BY <1>1, <2>1 DEF LoginGate, fields, indexes, removal, ServerEntry
  <2>5. AccountEntry(d)'
    BY <2>1, ZenonT(30) DEF LoginGate, fields, indexes, removal, AccountEntry
  <2> QED BY <2>2, <2>3, <2>4, <2>5, ZenonT(30) DEF LoginGate, fields, indexes, removal
<1> QED BY <1>3, <1>4, <1>5, <1>6, ZenonT(30) DEF LoginGate, fields, indexes, removal, Core, Tidy

(* A login that fails its check frees its worker.                          *)
LEMMA ValidateCore ==
  ASSUME TypeOK, TypeOK', Core, NEW w \in Workers, Validate(w)
  PROVE  Core'
<1>1. /\ \A v \in Workers \ {w} : wpc'[v] = wpc[v] /\ wreq'[v] = wreq[v] /\ FullUUID(v)' = FullUUID(v)
      /\ \A v \in Workers \ {w}, d \in Conns : LogsIn(v, d)' <=> LogsIn(v, d)
      /\ wpc[w] = "validate" /\ wpc'[w] \in {"free", "bind"}
      /\ \A d \in Conns : LogsIn(w, d)' => LogsIn(w, d)
  BY Worker DEF Validate, Return, Go, fields, indexes, removal, LogsIn, FullUUID, TypeOK
<1>2. UNCHANGED hist
  BY ZenonT(30) DEF Validate, Return, Go, fields, indexes, removal
<1>3. Life'
  BY <1>1, <1>2 DEF Validate, Return, Go, fields, indexes, removal, Core, Life, TypeOK
<1>4. Indexed'
  BY <1>1, <1>2 DEF Validate, Return, Go, fields, indexes, removal, Core, Indexed, TypeOK
<1>5. Reachable'
  BY <1>1, <1>2 DEF Validate, Return, Go, fields, indexes, removal, Core, Reachable, TypeOK
<1>6. ASSUME NEW d \in Conns, d \notin hist'.raced
      PROVE  OneLogin(d)' /\ UserEntry(d)' /\ ServerEntry(d)' /\ AccountEntry(d)'
  <2>1. d \notin hist.raced /\ OneLogin(d) /\ UserEntry(d) /\ ServerEntry(d) /\ AccountEntry(d)
    BY <1>2, <1>6, ZenonT(30) DEF Core, Tidy
  <2>2. OneLogin(d)'
    BY <1>1, <1>2, <1>6, <2>1 DEF Validate, Return, Go, fields, indexes, removal, OneLogin, TypeOK
  <2>3. UserEntry(d)'
    BY <1>1, <1>2, <2>1, ZenonT(30) DEF Validate, Return, Go, fields, indexes, removal, UserEntry, OneLogin,
       TypeOK
  <2>4. ServerEntry(d)'
    BY SessionsAssumption, <1>1, <1>2, <1>6, <2>1 DEF Validate, Return, Go, fields, indexes, removal,
       ServerEntry, OneLogin, TypeOK
  <2>5. AccountEntry(d)'
    BY <1>1, <1>2, <1>6, <2>1, ZenonT(30) DEF Validate, Return, Go, fields, indexes, removal, AccountEntry,
       OneLogin, TypeOK
  <2> QED BY <2>2, <2>3, <2>4, <2>5, ZenonT(30)
<1> QED BY <1>3, <1>4, <1>5, <1>6, ZenonT(30) DEF Core, Tidy

(* What SetConnectionServerID records of the connection.                   *)
LEMMA BindHistory ==
  ASSUME TypeOK, NEW w \in Workers, Bind(w), wreq[w].conn \in connections
  PROVE  LET c == wreq[w].conn
             s == wreq[w].server
         IN  /\ hist'.last = hist.last
             /\ hist'.excused = IF sock[c] = "gone" \/ Removing(c) THEN hist.excused \cup {c} ELSE hist.excused
             /\ hist'.raced = IF serverID[c] \notin {None, s} THEN hist.raced \cup {c} ELSE hist.raced
             /\ hist'.slipped = IF s \in maint THEN hist.slipped \cup {c} ELSE hist.slipped
<1> DEFINE c == wreq[w].conn
           s == wreq[w].server
           excused == IF sock[c] = "gone" \/ Removing(c) THEN hist.excused \cup {c} ELSE hist.excused
           raced == IF serverID[c] \notin {None, s} THEN hist.raced \cup {c} ELSE hist.raced
           slipped == IF s \in maint THEN hist.slipped \cup {c} ELSE hist.slipped
<1>1. hist' = [hist EXCEPT !.excused = excused, !.raced = raced, !.slipped = slipped]
  BY ZenonT(30) DEF Bind
<1>2. hist'.last = hist.last /\ hist'.excused = excused /\ hist'.raced = raced /\ hist'.slipped = slipped
  <2> HIDE DEF excused, raced, slipped
  <2> QED BY <1>1, ZenonT(30) DEF TypeOK, Histories
<1> QED BY <1>2, ZenonT(30)

(* A connection bound to a second server counts as raced.                  *)
LEMMA BindCore ==
  ASSUME TypeOK, TypeOK', Core, NEW w \in Workers, Bind(w)
  PROVE  Core'
<1>1. /\ \A v \in Workers \ {w} : wpc'[v] = wpc[v] /\ wreq'[v] = wreq[v] /\ FullUUID(v)' = FullUUID(v)
      /\ \A v \in Workers \ {w}, d \in Conns : LogsIn(v, d)' <=> LogsIn(v, d)
      /\ wpc[w] = "bind" /\ wpc'[w] = "old" /\ wreq' = wreq
      /\ wreq[w].conn \in Conns /\ wreq[w].server \in Servers
      /\ \A d \in Conns : (LogsIn(w, d)' <=> LogsIn(w, d)) /\ (LogsIn(w, d) <=> d = wreq[w].conn)
  BY Worker, ZenonT(30) DEF Bind, Go, indexes, removal, LogsIn, FullUUID, TypeOK
<1>2. /\ hist'.last = hist.last /\ hist.raced \subseteq hist'.raced
      /\ wreq[w].conn \notin connections => serverID' = serverID
      /\ wreq[w].conn \in connections =>
           /\ serverID' = [serverID EXCEPT ![wreq[w].conn] = wreq[w].server]
           /\ wreq[w].conn \in hist'.raced \/ serverID[wreq[w].conn] \in {None, wreq[w].server}
  BY <1>1, BindHistory, ZenonT(30) DEF Bind, Go, indexes, removal
<1>3. Life'
  BY <1>1, <1>2 DEF Bind, Go, indexes, removal, Core, Life, TypeOK
<1>4. Indexed'
  BY <1>1, <1>2 DEF Bind, Go, indexes, removal, Core, Indexed, TypeOK
<1>5. Reachable'
  BY <1>1, <1>2 DEF Bind, Go, indexes, removal, Core, Reachable, TypeOK
<1>6. ASSUME NEW d \in Conns, d \notin hist'.raced
      PROVE  OneLogin(d)' /\ UserEntry(d)' /\ ServerEntry(d)' /\ AccountEntry(d)'
  <2>1. d \notin hist.raced /\ OneLogin(d) /\ UserEntry(d) /\ ServerEntry(d) /\ AccountEntry(d)
    BY <1>2, <1>6, ZenonT(30) DEF Core, Tidy
  <2>2. OneLogin(d)'
    BY <1>1, <1>2, <1>6, <2>1 DEF Bind, Go, indexes, removal, OneLogin, TypeOK
  <2>3. UserEntry(d)'
    BY <1>1, <1>2, <2>1, ZenonT(30) DEF Bind, Go, indexes, removal, UserEntry, OneLogin, TypeOK
  <2>4. ServerEntry(d)'
    BY SessionsAssumption, <1>1, <1>2, <1>6, <2>1 DEF Bind, Go, indexes, removal, ServerEntry, OneLogin, TypeOK
  <2>5. AccountEntry(d)'
    BY <1>1, <1>2, <1>6, <2>1, ZenonT(30) DEF Bind, Go, indexes, removal, AccountEntry, OneLogin, TypeOK
  <2> QED BY <2>2, <2>3, <2>4, <2>5, ZenonT(30) DEF Bind, Go, indexes, removal
<1> QED BY <1>3, <1>4, <1>5, <1>6, ZenonT(30) DEF Bind, Go, indexes, removal, Core, Tidy

(* Closing the older connection of a user touches no index.                *)
LEMMA CloseOldCore ==
  ASSUME TypeOK, TypeOK', Core, NEW w \in Workers, CloseOld(w)
  PROVE  Core'
<1>1. /\ \A v \in Workers \ {w} : wpc'[v] = wpc[v] /\ wreq'[v] = wreq[v] /\ FullUUID(v)' = FullUUID(v)
      /\ \A v \in Workers \ {w}, d \in Conns : LogsIn(v, d)' <=> LogsIn(v, d)
      /\ wpc[w] = "old" /\ wpc'[w] = "uuid" /\ wreq' = wreq
      /\ \A d \in Conns : LogsIn(w, d)' <=> LogsIn(w, d)
  BY Worker DEF CloseOld, Go, fields, indexes, removal, LogsIn, FullUUID, TypeOK
<1>2. /\ hist'.last = hist.last /\ hist'.raced = hist.raced
      /\ \A d \in Conns : sock'[d] = "new" <=> sock[d] = "new"
  BY NotifyType DEF CloseOld, Go, fields, indexes, removal, TypeOK, Shut
<1>3. Life'
  BY <1>1, <1>2 DEF CloseOld, Go, fields, indexes, removal, Core, Life, TypeOK
<1>4. Indexed'
  BY <1>1, <1>2 DEF CloseOld, Go, fields, indexes, removal, Core, Indexed, TypeOK
<1>5. Reachable'
  BY <1>1, <1>2 DEF CloseOld, Go, fields, indexes, removal, Core, Reachable, TypeOK
<1>6. ASSUME NEW d \in Conns, d \notin hist'.raced
      PROVE  OneLogin(d)' /\ UserEntry(d)' /\ ServerEntry(d)' /\ AccountEntry(d)'
  <2>1. d \notin hist.raced /\ OneLogin(d) /\ UserEntry(d) /\ ServerEntry(d) /\ AccountEntry(d)
    BY <1>2, <1>6, ZenonT(30) DEF CloseOld, Go, fields, indexes, removal, Core, Tidy
  <2>2. OneLogin(d)'
    BY <1>1, <1>2, <1>6, <2>1 DEF CloseOld, Go, fields, indexes, removal, OneLogin, TypeOK
  <2>3. UserEntry(d)'
    BY <1>1, <1>2, <2>1, ZenonT(30) DEF CloseOld, Go, fields, indexes, removal, UserEntry, OneLogin, TypeOK
  <2>4. ServerEntry(d)'
    BY SessionsAssumption, <1>1, <1>2, <1>6, <2>1 DEF CloseOld, Go, fields, indexes, removal, ServerEntry,
       OneLogin, TypeOK
  <2>5. AccountEntry(d)'
    BY <1>1, <1>2, <1>6, <2>1, ZenonT(30) DEF CloseOld, Go, fields, indexes, removal, AccountEntry, OneLogin,
       TypeOK
  <2> QED BY <2>2, <2>3, <2>4, <2>5, ZenonT(30) DEF CloseOld, Go, fields, indexes, removal
<1> QED BY <1>3, <1>4, <1>5, <1>6, ZenonT(30) DEF Core, Tidy

(* The field and the old entry of userConnections change together.         *)
LEMMA SetUUIDCore ==
  ASSUME TypeOK, TypeOK', Core, NEW w \in Workers, SetUUID(w)
  PROVE  Core'
<1>1. /\ \A v \in Workers \ {w} : wpc'[v] = wpc[v] /\ wreq'[v] = wreq[v] /\ FullUUID(v)' = FullUUID(v)
      /\ \A v \in Workers \ {w}, d \in Conns : LogsIn(v, d)' <=> LogsIn(v, d)
      /\ wpc[w] = "uuid" /\ wpc'[w] \in {"storeUser", "account"}
      /\ wreq[w].conn \in Conns /\ FullUUID(w) \in UUIDs /\ FullUUID(w)' = FullUUID(w)
      /\ wreq'[w].conn = wreq[w].conn /\ wreq'[w].server = wreq[w].server
      /\ \A d \in Conns : (LogsIn(w, d)' <=> LogsIn(w, d)) /\ (LogsIn(w, d) <=> d = wreq[w].conn)
  <2>1. wpc[w] = "uuid" /\ wreq[w] \in Requests /\ wreq[w] # None
    BY Worker, ZenonT(30) DEF SetUUID, Go, removal
  <2>2. wreq'[w] = wreq[w] \/ wreq'[w] = [wreq[w] EXCEPT !.old = userUUID[wreq[w].conn]]
    BY DEF SetUUID, Go, removal, TypeOK
  <2>3. /\ wreq'[w].conn = wreq[w].conn /\ wreq'[w].server = wreq[w].server
        /\ wreq'[w].user = wreq[w].user /\ wreq'[w] # None
    BY <2>1, <2>2 DEF SetUUID, Go, removal, Requests, TypeOK
  <2>4. FullUUID(w)' = FullUUID(w) /\ \A d \in Conns : LogsIn(w, d)' <=> LogsIn(w, d)
    BY <2>1, <2>3, ZenonT(30) DEF SetUUID, Go, removal, LogsIn, FullUUID
  <2>5. \A v \in Workers \ {w} : wpc'[v] = wpc[v] /\ wreq'[v] = wreq[v]
    BY DEF SetUUID, Go, removal, TypeOK
  <2>6. /\ \A v \in Workers \ {w} : FullUUID(v)' = FullUUID(v)
        /\ \A v \in Workers \ {w}, d \in Conns : LogsIn(v, d)' <=> LogsIn(v, d)
    BY <2>5, ZenonT(30) DEF LogsIn, FullUUID
  <2>7. wpc'[w] \in {"storeUser", "account"}
    BY DEF SetUUID, Go, removal, TypeOK
  <2> QED BY <2>1, <2>3, <2>4, <2>5, <2>6, <2>7, Worker, ZenonT(30) DEF LogsIn
<1>2. /\ hist' = hist
      /\ \/ /\ wpc'[w] = "storeUser" /\ wreq[w].conn \in connections
            /\ wreq'[w].old = userUUID[wreq[w].conn]
            /\ userUUID' = [userUUID EXCEPT ![wreq[w].conn] = FullUUID(w)]
            /\ \A u \in UUIDs :
                 userConnections'[u] = IF u = userUUID[wreq[w].conn] /\ userConnections[u] = wreq[w].conn
                                       THEN None ELSE userConnections[u]
         \/ wpc'[w] = "account" /\ wreq[w].conn \notin connections /\ UNCHANGED <<userUUID, userConnections>>
  BY <1>1 DEF SetUUID, Go, removal, TypeOK, DeleteUserIf, Requests
<1>3. Life'
  BY <1>1, <1>2 DEF SetUUID, Go, removal, Core, Life, TypeOK
<1>4. Indexed'
  BY <1>1, <1>2 DEF SetUUID, Go, removal, Core, Indexed, TypeOK
<1>5. Reachable'
  BY <1>1, <1>2 DEF SetUUID, Go, removal, Core, Reachable, TypeOK
<1>6. ASSUME NEW d \in Conns, d \notin hist'.raced
      PROVE  OneLogin(d)' /\ UserEntry(d)' /\ ServerEntry(d)' /\ AccountEntry(d)'
  <2>1. d \notin hist.raced /\ OneLogin(d) /\ UserEntry(d) /\ ServerEntry(d) /\ AccountEntry(d)
    BY <1>2, <1>6, ZenonT(30) DEF SetUUID, Go, removal, Core, Tidy
  <2>2. OneLogin(d)'
    BY <1>1, <1>2, <1>6, <2>1 DEF SetUUID, Go, removal, OneLogin, TypeOK
  <2>3. UserEntry(d)'
    BY SessionsAssumption, <1>1, <1>2, <2>1 DEF SetUUID, Go, removal, UserEntry, OneLogin, TypeOK
  <2>4. ServerEntry(d)'
    BY SessionsAssumption, <1>1, <1>2, <1>6, <2>1 DEF SetUUID, Go, removal, ServerEntry, OneLogin, TypeOK
  <2>5. AccountEntry(d)'
    BY <1>1, <1>2, <1>6, <2>1, ZenonT(30) DEF SetUUID, Go, removal, AccountEntry, OneLogin, TypeOK
  <2> QED BY <2>2, <2>3, <2>4, <2>5, ZenonT(30) DEF SetUUID, Go, removal
<1> QED BY <1>3, <1>4, <1>5, <1>6, ZenonT(30) DEF Core, Tidy

(* The new entry of userConnections.                                       *)
LEMMA StoreUserCore ==
  ASSUME TypeOK, TypeOK', Core, NEW w \in Workers, StoreUser(w)
  PROVE  Core'
<1>1. /\ \A v \in Workers \ {w} : wpc'[v] = wpc[v] /\ wreq'[v] = wreq[v] /\ FullUUID(v)' = FullUUID(v)
      /\ \A v \in Workers \ {w}, d \in Conns : LogsIn(v, d)' <=> LogsIn(v, d)
      /\ wpc[w] = "storeUser" /\ wpc'[w] = "storeServer" /\ wreq' = wreq
      /\ wreq[w].conn \in Conns /\ FullUUID(w) \in UUIDs /\ FullUUID(w)' = FullUUID(w)
      /\ \A d \in Conns : FullUUID(w) # Temp(d)
      /\ \A d \in Conns : (LogsIn(w, d)' <=> LogsIn(w, d)) /\ (LogsIn(w, d) <=> d = wreq[w].conn)
  BY Worker DEF StoreUser, Go, fields, removal, LogsIn, FullUUID, TypeOK
<1>2. hist'.raced = hist.raced /\ hist'.last = [hist.last EXCEPT ![FullUUID(w)] = wreq[w].conn]
      /\ hist.last \in [UUIDs -> Conns \cup {None}]
  BY ZenonT(30) DEF StoreUser, Go, fields, removal, TypeOK, Histories
<1>3. Life'
  BY <1>1, <1>2 DEF StoreUser, Go, fields, removal, Core, Life, TypeOK
<1>4. Indexed'
  BY <1>1, <1>2 DEF StoreUser, Go, fields, removal, Core, Indexed, TypeOK
<1>5. Reachable'
  BY <1>1, <1>2 DEF StoreUser, Go, fields, removal, Core, Reachable, TypeOK
<1>6. ASSUME NEW d \in Conns, d \notin hist'.raced
      PROVE  OneLogin(d)' /\ UserEntry(d)' /\ ServerEntry(d)' /\ AccountEntry(d)'
  <2>1. d \notin hist.raced /\ OneLogin(d) /\ UserEntry(d) /\ ServerEntry(d) /\ AccountEntry(d)
    BY <1>2, <1>6, ZenonT(30) DEF StoreUser, Go, fields, removal, Core, Tidy
  <2>2. OneLogin(d)'
    BY <1>1, <1>2, <1>6, <2>1 DEF StoreUser, Go, fields, removal, OneLogin, TypeOK
  <2>3. UserEntry(d)'
    BY <1>1, <1>2, <2>1 DEF StoreUser, Go, fields, removal, UserEntry, OneLogin, TypeOK
  <2>4. ServerEntry(d)'
    BY SessionsAssumption, <1>1, <1>2, <1>6, <2>1 DEF StoreUser, Go, fields, removal, ServerEntry, OneLogin,
       TypeOK
  <2>5. AccountEntry(d)'
    BY <1>1, <1>2, <1>6, <2>1, ZenonT(30) DEF StoreUser, Go, fields, removal, AccountEntry, OneLogin, TypeOK
  <2> QED BY <2>2, <2>3, <2>4, <2>5, ZenonT(30) DEF StoreUser, Go, fields, removal
<1> QED BY <1>3, <1>4, <1>5, <1>6, ZenonT(30) DEF Core, Tidy

(* The new entry of serverUserConnections, and the old one goes.           *)
LEMMA StoreServerCore ==
  ASSUME TypeOK, TypeOK', Core, NEW w \in Workers, StoreServer(w)
  PROVE  Core'
<1>1. /\ \A v \in Workers \ {w} : wpc'[v] = wpc[v] /\ wreq'[v] = wreq[v] /\ FullUUID(v)' = FullUUID(v)
      /\ \A v \in Workers \ {w}, d \in Conns : LogsIn(v, d)' <=> LogsIn(v, d)
      /\ wpc[w] = "storeServer" /\ wpc'[w] = "account" /\ wreq' = wreq
      /\ wreq[w].conn \in Conns /\ wreq[w].server \in Servers /\ FullUUID(w) \in UUIDs
      /\ \A d \in Conns : (LogsIn(w, d)' <=> LogsIn(w, d)) /\ (LogsIn(w, d) <=> d = wreq[w].conn)
  BY Worker DEF StoreServer, Go, fields, removal, LogsIn, FullUUID, TypeOK
<1>2. /\ hist' = hist
      /\ \A s \in Servers \cup {None}, u \in UUIDs :
           serverUserConnections'[<<s, u>>] =
             IF s = serverID[wreq[w].conn] /\ u = FullUUID(w) THEN wreq[w].conn
             ELSE IF /\ wreq[w].old # FullUUID(w) /\ s = serverID[wreq[w].conn] /\ u = wreq[w].old
                     /\ serverUserConnections[<<s, u>>] = wreq[w].conn
                  THEN None ELSE serverUserConnections[<<s, u>>]
  <2>1. \A s \in Servers \cup {None}, u \in UUIDs : <<s, u>> \in Keys
    BY ZenonT(30) DEF Keys
  <2> QED BY <1>1, <2>1, ZenonT(30) DEF StoreServer, Go, fields, removal
<1>3. Life'
  BY <1>1, <1>2 DEF StoreServer, Go, fields, removal, Core, Life, TypeOK
<1>4. Indexed'
  BY <1>1, <1>2 DEF StoreServer, Go, fields, removal, Core, Indexed, TypeOK
<1>5. Reachable'
  BY <1>1, <1>2 DEF StoreServer, Go, fields, removal, Core, Reachable, TypeOK
<1>6. ASSUME NEW d \in Conns, d \notin hist'.raced
      PROVE  OneLogin(d)' /\ UserEntry(d)' /\ ServerEntry(d)' /\ AccountEntry(d)'
  <2>1. d \notin hist.raced /\ OneLogin(d) /\ UserEntry(d) /\ ServerEntry(d) /\ AccountEntry(d)
    BY <1>2, <1>6, ZenonT(30) DEF StoreServer, Go, fields, removal, Core, Tidy
  <2>2. OneLogin(d)'
    BY <1>1, <1>2, <1>6, <2>1 DEF StoreServer, Go, fields, removal, OneLogin, TypeOK
  <2>3. UserEntry(d)'
    BY <1>1, <1>2, <2>1, ZenonT(30) DEF StoreServer, Go, fields, removal, UserEntry, OneLogin, TypeOK
  <2>4. ServerEntry(d)'
    <3>1. CASE d = wreq[w].conn
      <4>1. /\ d \in connections /\ serverID[d] = wreq[w].server /\ userUUID[d] = FullUUID(w)
            /\ \A v \in Workers : LogsIn(v, d) => v = w
        BY <1>1, <2>1, <3>1, ZenonT(30) DEF OneLogin
      <4> QED BY SessionsAssumption, <1>1, <1>2, <2>1, <3>1, <4>1 DEF StoreServer, Go, fields, removal,
                 ServerEntry
    <3>2. CASE d # wreq[w].conn
      BY SessionsAssumption, <1>1, <1>2, <2>1, <3>2 DEF StoreServer, Go, fields, removal, ServerEntry
    <3> QED BY <3>1, <3>2, ZenonT(30)
  <2>5. AccountEntry(d)'
    BY <1>1, <1>2, <1>6, <2>1, ZenonT(30) DEF StoreServer, Go, fields, removal, AccountEntry, OneLogin, TypeOK
  <2> QED BY <2>2, <2>3, <2>4, <2>5, ZenonT(30) DEF StoreServer, Go, fields, removal
<1> QED BY <1>3, <1>4, <1>5, <1>6, ZenonT(30) DEF Core, Tidy

(* A connection given a second account counts as raced.                    *)
LEMMA SetAccountCore ==
  ASSUME TypeOK, TypeOK', Core, NEW w \in Workers, SetAccount(w)
  PROVE  Core'
<1>1. /\ \A v \in Workers \ {w} : wpc'[v] = wpc[v] /\ wreq'[v] = wreq[v] /\ FullUUID(v)' = FullUUID(v)
      /\ \A v \in Workers \ {w}, d \in Conns : LogsIn(v, d)' <=> LogsIn(v, d)
      /\ wpc[w] = "account" /\ wpc'[w] \in {"index", "free"}
      /\ wreq[w].conn \in Conns
      /\ \A d \in Conns : (LogsIn(w, d)' => LogsIn(w, d)) /\ (LogsIn(w, d) <=> d = wreq[w].conn)
  <2>1. wpc[w] = "account" /\ wreq[w].conn \in Conns /\ wreq[w] # None
    BY Worker, ZenonT(30) DEF SetAccount, Return, Go, indexes, removal
  <2>2. wreq'[w] \in {wreq[w], None} /\ wpc'[w] \in {"index", "free"}
    BY DEF SetAccount, Return, Go, indexes, removal, TypeOK
  <2>3. \A v \in Workers \ {w} : wpc'[v] = wpc[v] /\ wreq'[v] = wreq[v]
    BY DEF SetAccount, Return, Go, indexes, removal, TypeOK
  <2> QED BY <2>1, <2>2, <2>3, ZenonT(30) DEF SetAccount, Return, Go, indexes, removal, LogsIn, FullUUID
<1>2. /\ hist'.last = hist.last /\ hist.raced \subseteq hist'.raced
      /\ \/ /\ wpc'[w] = "index" /\ wreq' = wreq /\ wreq[w].user # None /\ wreq[w].conn \in connections
            /\ accountID' = [accountID EXCEPT ![wreq[w].conn] = wreq[w].user]
            /\ wreq[w].conn \in hist'.raced \/ accountID[wreq[w].conn] \in {None, wreq[w].user}
            /\ \A d \in Conns : LogsIn(w, d)' <=> LogsIn(w, d)
         \/ wpc'[w] = "free" /\ UNCHANGED accountID
  BY <1>1 DEF SetAccount, Return, Go, indexes, removal, TypeOK, Histories, LogsIn
<1>3. Life'
  BY <1>1, <1>2 DEF SetAccount, Return, Go, indexes, removal, Core, Life, TypeOK
<1>4. Indexed'
  BY <1>1, <1>2 DEF SetAccount, Return, Go, indexes, removal, Core, Indexed, TypeOK
<1>5. Reachable'
  BY <1>1, <1>2 DEF SetAccount, Return, Go, indexes, removal, Core, Reachable, TypeOK
<1>6. ASSUME NEW d \in Conns, d \notin hist'.raced
      PROVE  OneLogin(d)' /\ UserEntry(d)' /\ ServerEntry(d)' /\ AccountEntry(d)'
  <2>1. d \notin hist.raced /\ OneLogin(d) /\ UserEntry(d) /\ ServerEntry(d) /\ AccountEntry(d)
    BY <1>2, <1>6, ZenonT(30) DEF Core, Tidy
  <2>2. OneLogin(d)'
    BY <1>1, <1>2, <1>6, <2>1 DEF SetAccount, Return, Go, indexes, removal, OneLogin, TypeOK
  <2>3. UserEntry(d)'
    BY <1>1, <1>2, <2>1, ZenonT(30) DEF SetAccount, Return, Go, indexes, removal, UserEntry, OneLogin, TypeOK
  <2>4. ServerEntry(d)'
    BY <1>1, <1>2, <1>6, <2>1 DEF SetAccount, Return, Go, indexes, removal, ServerEntry, OneLogin, TypeOK
  <2>5. AccountEntry(d)'
    BY <1>1, <1>2, <1>6, <2>1 DEF SetAccount, Return, Go, indexes, removal, AccountEntry, Users, TypeOK
  <2> QED BY <2>2, <2>3, <2>4, <2>5, ZenonT(30)
<1> QED BY <1>3, <1>4, <1>5, <1>6, ZenonT(30) DEF Core, Tidy

(* The new entry of accountConnections.                                    *)
LEMMA IndexAccountCore ==
  ASSUME TypeOK, TypeOK', Core, NEW w \in Workers, IndexAccount(w)
  PROVE  Core'
<1>1. /\ \A v \in Workers \ {w} : wpc'[v] = wpc[v] /\ wreq'[v] = wreq[v] /\ FullUUID(v)' = FullUUID(v)
      /\ \A v \in Workers \ {w}, d \in Conns : LogsIn(v, d)' <=> LogsIn(v, d)
      /\ wpc[w] = "index" /\ wpc'[w] = "free" /\ wreq'[w] = None
      /\ wreq[w].conn \in Conns
      /\ \A d \in Conns : ~LogsIn(w, d)' /\ (LogsIn(w, d) <=> d = wreq[w].conn)
  BY Worker DEF IndexAccount, Return, Go, fields, removal, LogsIn, FullUUID, TypeOK
<1>2. /\ hist' = hist
      /\ wreq[w].user \in Users
      /\ \A a \in Users : accountConnections'[a] =
           IF a = wreq[w].user THEN accountConnections[a] \cup {wreq[w].conn} ELSE accountConnections[a]
  BY <1>1, Worker, ZenonT(30) DEF IndexAccount, Return, Go, fields, removal, TypeOK, Users, Core, Life
<1>3. Life'
  BY <1>1, <1>2 DEF IndexAccount, Return, Go, fields, removal, Core, Life, TypeOK
<1>4. Indexed'
  BY <1>1, <1>2 DEF IndexAccount, Return, Go, fields, removal, Core, Indexed, TypeOK
<1>5. Reachable'
  BY <1>1, <1>2 DEF IndexAccount, Return, Go, fields, removal, Core, Reachable, TypeOK
<1>6. ASSUME NEW d \in Conns, d \notin hist'.raced
      PROVE  OneLogin(d)' /\ UserEntry(d)' /\ ServerEntry(d)' /\ AccountEntry(d)'
  <2>1. d \notin hist.raced /\ OneLogin(d) /\ UserEntry(d) /\ ServerEntry(d) /\ AccountEntry(d)
    BY <1>2, <1>6, ZenonT(30) DEF Core, Tidy
  <2>2. OneLogin(d)'
    BY <1>1, <1>2, <1>6, <2>1 DEF IndexAccount, Return, Go, fields, removal, OneLogin, TypeOK
  <2>3. UserEntry(d)'
    BY <1>1, <1>2, <2>1, ZenonT(30) DEF IndexAccount, Return, Go, fields, removal, UserEntry, OneLogin, TypeOK
  <2>4. ServerEntry(d)'
    BY SessionsAssumption, <1>1, <1>2, <1>6, <2>1 DEF IndexAccount, Return, Go, fields, removal, ServerEntry,
       OneLogin, TypeOK
  <2>5. AccountEntry(d)'
    BY <1>1, <1>2, <1>6, <2>1 DEF IndexAccount, Return, Go, fields, removal, AccountEntry, OneLogin, TypeOK
  <2> QED BY <2>2, <2>3, <2>4, <2>5, ZenonT(30) DEF IndexAccount, Return, Go, fields, removal
<1> QED BY <1>3, <1>4, <1>5, <1>6, ZenonT(30) DEF Core, Tidy

(* A login that overlaps the removal counts as raced.                      *)
LEMMA DeleteCore ==
  ASSUME TypeOK, TypeOK', Core, NEW c \in Conns, NEW r \in Removers, Delete(c, r)
  PROVE  Core'
<1>1. /\ \A w \in Workers : FullUUID(w)' = FullUUID(w)
      /\ \A w \in Workers, d \in Conns : LogsIn(w, d)' <=> LogsIn(w, d)
  BY ZenonT(30) DEF Delete, fields, indexes, workers, LogsIn, FullUUID
<1>2. /\ hist'.last = hist.last /\ hist.raced \subseteq hist'.raced
      /\ c \in connections => c \in hist'.raced \/ \A w \in Workers : ~LogsIn(w, c)
      /\ c \in connections => cleaning' = [cleaning EXCEPT ![c] = "user"]
      /\ c \notin connections => cleaning' = cleaning
  BY ZenonT(30) DEF Delete, fields, indexes, workers, TypeOK, Histories, LoggingIn, LogsIn
<1>3. Life'
  BY <1>1, <1>2 DEF Delete, fields, indexes, workers, Core, Life, TypeOK
<1>4. Indexed'
  BY <1>1, <1>2 DEF Delete, fields, indexes, workers, Core, Indexed, TypeOK
<1>5. Reachable'
  BY <1>1, <1>2 DEF Delete, fields, indexes, workers, Core, Reachable, TypeOK
<1>6. ASSUME NEW d \in Conns, d \notin hist'.raced
      PROVE  OneLogin(d)' /\ UserEntry(d)' /\ ServerEntry(d)' /\ AccountEntry(d)'
  <2>1. d \notin hist.raced /\ OneLogin(d) /\ UserEntry(d) /\ ServerEntry(d) /\ AccountEntry(d)
    BY <1>2, <1>6, ZenonT(30) DEF Core, Tidy
  <2>2. OneLogin(d)'
    BY <1>1, <1>2, <1>6, <2>1 DEF Delete, fields, indexes, workers, OneLogin, TypeOK
  <2>3. UserEntry(d)'
    BY <1>1, <1>2, <2>1 DEF Delete, fields, indexes, workers, UserEntry, OneLogin, TypeOK
  <2>4. ServerEntry(d)'
    BY <1>1, <1>2, <1>6, <2>1 DEF Delete, fields, indexes, workers, ServerEntry, OneLogin, TypeOK
  <2>5. AccountEntry(d)'
    BY <1>1, <1>2, <1>6, <2>1 DEF Delete, fields, indexes, workers, AccountEntry, OneLogin, TypeOK
  <2> QED BY <2>2, <2>3, <2>4, <2>5, ZenonT(30) DEF Delete, fields, indexes, workers
<1> QED BY <1>3, <1>4, <1>5, <1>6, ZenonT(30) DEF Delete, fields, indexes, workers, Core, Tidy

(* The entry of userConnections goes if it is the connection's.            *)
LEMMA CleanUserCore ==
  ASSUME TypeOK, TypeOK', Core, NEW c \in Conns, CleanUser(c)
  PROVE  Core'
<1>1. /\ \A w \in Workers : FullUUID(w)' = FullUUID(w)
      /\ \A w \in Workers, d \in Conns : LogsIn(w, d)' <=> LogsIn(w, d)
  BY ZenonT(30) DEF CleanUser, Clean, fields, workers, LogsIn, FullUUID
<1>2. /\ hist' = hist /\ c \notin connections
      /\ \A u \in UUIDs : userConnections'[u] =
           IF u = userUUID[c] /\ userConnections[u] = c THEN None ELSE userConnections[u]
  BY DEF CleanUser, Clean, fields, workers, TypeOK, DeleteUserIf, Core, Life
<1>3. Life'
  BY <1>1, <1>2 DEF CleanUser, Clean, fields, workers, Core, Life, TypeOK
<1>4. Indexed'
  BY <1>1, <1>2, ZenonT(30) DEF CleanUser, Clean, fields, workers, Core, Indexed, TypeOK
<1>5. Reachable'
  BY <1>1, <1>2 DEF CleanUser, Clean, fields, workers, Core, Reachable, TypeOK
<1>6. ASSUME NEW d \in Conns, d \notin hist'.raced
      PROVE  OneLogin(d)' /\ UserEntry(d)' /\ ServerEntry(d)' /\ AccountEntry(d)'
  <2>1. d \notin hist.raced /\ OneLogin(d) /\ UserEntry(d) /\ ServerEntry(d) /\ AccountEntry(d)
    BY <1>2, <1>6, ZenonT(30) DEF Core, Tidy
  <2>2. OneLogin(d)'
    BY <1>1, <1>2, <1>6, <2>1 DEF CleanUser, Clean, fields, workers, OneLogin, TypeOK
  <2>3. UserEntry(d)'
    BY SessionsAssumption, <1>1, <1>2, <2>1 DEF CleanUser, Clean, fields, workers, UserEntry, OneLogin, TypeOK
  <2>4. ServerEntry(d)'
    BY SessionsAssumption, <1>1, <1>2, <1>6, <2>1 DEF CleanUser, Clean, fields, workers, ServerEntry, OneLogin,
       TypeOK
  <2>5. AccountEntry(d)'
    BY <1>1, <1>2, <1>6, <2>1 DEF CleanUser, Clean, fields, workers, AccountEntry, OneLogin, TypeOK
  <2> QED BY <2>2, <2>3, <2>4, <2>5, ZenonT(30) DEF CleanUser, Clean, fields, workers
<1> QED BY <1>3, <1>4, <1>5, <1>6, ZenonT(30) DEF Core, Tidy

(* The entries of the account and of the server go.                        *)
LEMMA CleanRestCore ==
  ASSUME TypeOK, TypeOK', Core, NEW c \in Conns, CleanRest(c)
  PROVE  Core'
<1>1. /\ \A w \in Workers : FullUUID(w)' = FullUUID(w)
      /\ \A w \in Workers, d \in Conns : LogsIn(w, d)' <=> LogsIn(w, d)
  BY ZenonT(30) DEF CleanRest, Clean, fields, workers, LogsIn, FullUUID
<1>2. /\ hist' = hist /\ c \notin connections
      /\ \A s \in Servers \cup {None}, u \in UUIDs : serverUserConnections'[<<s, u>>] =
           IF s = serverID[c] /\ u = userUUID[c] THEN None ELSE serverUserConnections[<<s, u>>]
  BY DEF CleanRest, Clean, fields, workers, TypeOK, DeleteServerUser, Keys, Core, Life
<1>3. Life'
  BY <1>1, <1>2 DEF CleanRest, Clean, fields, workers, Core, Life, TypeOK
<1>4. Indexed'
  BY <1>1, <1>2 DEF CleanRest, Clean, fields, workers, Core, Indexed, TypeOK
<1>5. Reachable'
  BY <1>1, <1>2 DEF CleanRest, Clean, fields, workers, Core, Reachable, TypeOK
<1>6. ASSUME NEW d \in Conns, d \notin hist'.raced
      PROVE  OneLogin(d)' /\ UserEntry(d)' /\ ServerEntry(d)' /\ AccountEntry(d)'
  <2>1. d \notin hist.raced /\ OneLogin(d) /\ UserEntry(d) /\ ServerEntry(d) /\ AccountEntry(d)
    BY <1>2, <1>6, ZenonT(30) DEF Core, Tidy
  <2>2. OneLogin(d)'
    BY <1>1, <1>2, <1>6, <2>1 DEF CleanRest, Clean, fields, workers, OneLogin, TypeOK
  <2>3. UserEntry(d)'
    BY <1>1, <1>2, <2>1 DEF CleanRest, Clean, fields, workers, UserEntry, OneLogin, TypeOK
  <2>4. ServerEntry(d)'
    BY SessionsAssumption, <1>1, <1>2, <1>6, <2>1 DEF CleanRest, Clean, fields, workers, ServerEntry, OneLogin,
       TypeOK
  <2>5. AccountEntry(d)'
    BY <1>1, <1>2, <1>6, <2>1 DEF CleanRest, Clean, fields, workers, AccountEntry, OneLogin, TypeOK
  <2> QED BY <2>2, <2>3, <2>4, <2>5, ZenonT(30) DEF CleanRest, Clean, fields, workers
<1> QED BY <1>3, <1>4, <1>5, <1>6, ZenonT(30) DEF Core, Tidy

(* Every step keeps the indexes in order.                                  *)
LEMMA CoreStep == TypeOK /\ TypeOK' /\ Core /\ [Next]_vars => Core'
<1> SUFFICES ASSUME TypeOK, TypeOK', Core, [Next]_vars PROVE Core'
  BY ZenonT(30)
<1>1. CASE Aside
  BY <1>1, AsideCore, ZenonT(30)
<1>2. ASSUME NEW c \in Conns,
             OnOpen(c) \/ RemoveConnection(c)
             \/ \E w \in Workers, s \in Servers, a \in UserIds : LoginGate(w, c, s, a)
      PROVE Core'
  BY <1>2, OnOpenCore, LoginGateCore, DeleteCore, CleanUserCore, CleanRestCore, ZenonT(30) DEF RemoveConnection
<1>3. ASSUME NEW w \in Workers, LoginStep(w) PROVE Core'
  BY <1>3, ValidateCore, BindCore, CloseOldCore, SetUUIDCore, StoreUserCore, StoreServerCore, SetAccountCore,
     IndexAccountCore, ZenonT(30) DEF LoginStep
<1> QED BY <1>1, <1>2, <1>3, AsideSteps, ZenonT(30) DEF Next

-----------------------------------------------------------------------------
(* Notifications and maintenance.                                          *)

(* notifyLogicOffline leaves the connection told, being told or excused,   *)
(* and takes nothing back of the others.                                   *)
LEMMA NotifyTells ==
  ASSUME TypeOK, NEW c \in Conns, Notify(c)
  PROVE  /\ serverID[c] = None \/ pending'[c] > 0 \/ c \in offlineSent \cup hist'.excused
         /\ \A d \in Conns : pending[d] > 0 => pending'[d] > 0
         /\ hist.excused \subseteq hist'.excused
<1>1. CASE UNCHANGED <<pending, hist>> /\ (c \in offlineSent \/ serverID[c] = None)
  BY <1>1, ZenonT(30)
<1>2. CASE hist' = [hist EXCEPT !.excused = @ \cup {c}] /\ UNCHANGED pending
  BY <1>2
<1>3. CASE pending' = [pending EXCEPT ![c] = @ + 1] /\ UNCHANGED hist
  BY <1>3 DEF TypeOK
<1> QED BY <1>1, <1>2, <1>3, ZenonT(30) DEF Notify

\* Every step keeps what is known of the offline notices.
LEMMA ToldStep == TypeOK /\ Life /\ Told /\ [Next]_vars => Told'
<1> SUFFICES ASSUME TypeOK, Life, Told, [Next]_vars PROVE Told'
  BY ZenonT(30)
<1>1. ASSUME NEW c \in Conns, OnOpen(c) PROVE Told'
  BY <1>1, ZenonT(30) DEF Told, TypeOK, Life, OnOpen, fields, removal
<1>2. ASSUME NEW c \in Conns, Hangup(c) \/ \E s \in Servers : Refuse(c, s) PROVE Told'
  BY <1>2, ZenonT(30) DEF Told, TypeOK, Hangup, Refuse, Shut, fields, removal
<1>3. ASSUME NEW c \in Conns, Logout(c) PROVE Told'
  BY <1>3, NotifyTells, ZenonT(30) DEF Told, TypeOK, Logout, Shut, fields, removal
<1>4. ASSUME NEW c \in Conns, Notified(c) PROVE Told'
  <2>1. /\ hist.excused \subseteq hist'.excused \cup {c} /\ offlineSent \subseteq offlineSent'
        /\ c \in offlineSent' \cup hist'.excused
    BY <1>4 DEF TypeOK, Histories, Notified
  <2>2. \A d \in Conns \ {c} : pending'[d] = pending[d]
    BY <1>4, ZenonT(30) DEF TypeOK, Notified
  <2> QED BY <1>4, <2>1, <2>2, ZenonT(30) DEF Told, Notified, fields, removal
<1>5. ASSUME NEW c \in Conns, OnClose(c) PROVE Told'
  <2>1. CASE c \in connections
    <3>1. Notify(c) /\ removers' = removers \cup {<<c, "loop">>}
      BY <1>5, <2>1, ZenonT(30) DEF OnClose, Start
    <3>2. \A d \in Conns \ {c} : sock'[d] = sock[d]
      BY <1>5, ZenonT(30) DEF OnClose, TypeOK
    <3> QED BY <1>5, <3>1, <3>2, NotifyTells, ZenonT(30) DEF Told, OnClose, fields
  <2>2. CASE c \notin connections
    BY <1>5, <2>2, ZenonT(30) DEF Told, TypeOK, OnClose, fields, removal
  <2> QED BY <2>1, <2>2, ZenonT(30)
<1>6. ASSUME NEW c \in Conns, CloseFrame(c) \/ IdleTimeout(c) \/ HeartbeatTimeout(c) PROVE Told'
  BY <1>6, NotifyTells DEF Told, TypeOK, CloseFrame, IdleTimeout, HeartbeatTimeout, Start, Shut, fields
<1>7. ASSUME NEW c \in Conns, NEW r \in Removers, Delete(c, r) PROVE Told'
  BY <1>7, ZenonT(30) DEF Told, TypeOK, Histories, Delete, fields
<1>8. ASSUME NEW c \in Conns, CleanUser(c) \/ CleanRest(c) PROVE Told'
  BY <1>8, ZenonT(30) DEF Told, CleanUser, CleanRest, Clean, fields
<1>9. ASSUME NEW c \in Conns, NEW w \in Workers, NEW s \in Servers, NEW a \in UserIds,
             LoginGate(w, c, s, a)
      PROVE Told'
  BY <1>9, ZenonT(30) DEF Told, TypeOK, Histories, LoginGate, fields, removal
<1>10. ASSUME NEW c \in Conns, NEW by \in {"id", "conn"}, KickConn(c, by) PROVE Told'
  BY <1>10, NotifyTells, ZenonT(30) DEF Told, TypeOK, KickConn, Shut, fields, removal
<1>11. ASSUME NEW w \in Workers, Bind(w) PROVE Told'
  <2>1. CASE wreq[w].conn \in connections
    <3>1. wreq[w].conn \in Conns /\ \A d \in Conns \ {wreq[w].conn} : serverID'[d] = serverID[d]
      BY <1>11, <2>1, Worker, ZenonT(30) DEF TypeOK, Bind, Go
    <3>2. /\ hist.excused \subseteq hist'.excused
          /\ Removing(wreq[w].conn) => wreq[w].conn \in hist'.excused
      BY <1>11, <2>1, BindHistory, ZenonT(30)
    <3> QED BY <1>11, <2>1, <3>1, <3>2, ZenonT(30) DEF Told, Bind, Removing, removal
  <2>2. CASE wreq[w].conn \notin connections
    BY <1>11, <2>2, ZenonT(30) DEF Told, Bind, removal
  <2> QED BY <2>1, <2>2, ZenonT(30)
<1>12. ASSUME NEW w \in Workers, CloseOld(w) PROVE Told'
  <2> DEFINE old == userConnections[FullUUID(w)]
  <2>1. CASE old \in connections \ {wreq[w].conn}
    <3>1. old \in Conns /\ Notify(old) /\ Shut(old)
      BY <1>12, <2>1, ZenonT(30) DEF CloseOld, TypeOK
    <3> HIDE DEF old
    <3> QED BY <1>12, <3>1, NotifyTells, ZenonT(30) DEF Told, TypeOK, CloseOld, Shut, fields, removal
  <2>2. CASE old \notin connections \ {wreq[w].conn}
    BY <1>12, <2>2, ZenonT(30) DEF Told, CloseOld, fields, removal
  <2> QED BY <2>1, <2>2, ZenonT(30)
<1>13. ASSUME NEW w \in Workers,
              Validate(w) \/ SetUUID(w) \/ StoreUser(w) \/ StoreServer(w) \/ SetAccount(w) \/ IndexAccount(w)
       PROVE Told'
  BY <1>13, ZenonT(30) DEF Told, TypeOK, Histories, Validate, SetUUID, StoreUser, StoreServer, SetAccount,
     IndexAccount, fields, removal
<1>14. ASSUME NEW a \in Users, KickByAccounts(a) PROVE Told'
  BY <1>14, ZenonT(30) DEF Told, TypeOK, Histories, KickByAccounts, fields, removal
<1>15. ASSUME NEW s \in Servers, Enable(s) \/ Snapshot(s) \/ Disable(s) PROVE Told'
  BY <1>15, ZenonT(30) DEF Told, TypeOK, Histories, Enable, Snapshot, Disable, fields, removal
<1>16. CASE UNCHANGED vars
  BY <1>16, ZenonT(30) DEF Told, vars, fields, removal
<1> HIDE DEF Told
<1> QED BY <1>1, <1>2, <1>3, <1>4, <1>5, <1>6, <1>7, <1>8, <1>9, <1>10, <1>11, <1>12, <1>13, <1>14, <1>15,
           <1>16, ZenonT(30) DEF Next, LoginStep, RemoveConnection

\* Every step keeps what the maintenance kick has covered.
LEMMA MaintenanceStep == TypeOK /\ Life /\ MaintenanceCovers /\ [Next]_vars => MaintenanceCovers'
<1> SUFFICES ASSUME TypeOK, Life, MaintenanceCovers, [Next]_vars PROVE MaintenanceCovers'
  BY ZenonT(30)
<1>1. ASSUME NEW c \in Conns, OnOpen(c) PROVE MaintenanceCovers'
  BY <1>1, SessionsAssumption DEF MaintenanceCovers, TypeOK, Life, OnOpen, fields, kicks
<1>2. ASSUME NEW c \in Conns, Hangup(c) \/ \E s \in Servers : Refuse(c, s) PROVE MaintenanceCovers'
  BY <1>2, ZenonT(30) DEF MaintenanceCovers, TypeOK, Hangup, Refuse, Shut, fields, kicks
<1>3. ASSUME NEW c \in Conns, Logout(c) PROVE MaintenanceCovers'
  BY <1>3, NotifyType, ZenonT(30) DEF MaintenanceCovers, TypeOK, Logout, Shut, fields, kicks
<1>4. ASSUME NEW c \in Conns, Notified(c) PROVE MaintenanceCovers'
  BY <1>4, ZenonT(30) DEF MaintenanceCovers, TypeOK, Histories, Notified, fields, kicks
<1>5. ASSUME NEW c \in Conns, OnClose(c) \/ CloseFrame(c) \/ IdleTimeout(c) \/ HeartbeatTimeout(c)
      PROVE MaintenanceCovers'
  BY <1>5, NotifyType, ZenonT(30) DEF MaintenanceCovers, TypeOK, OnClose, CloseFrame, IdleTimeout,
     HeartbeatTimeout, Shut, fields, kicks
<1>6. ASSUME NEW c \in Conns, NEW r \in Removers, Delete(c, r) PROVE MaintenanceCovers'
  BY <1>6, ZenonT(30) DEF MaintenanceCovers, TypeOK, Histories, Delete, fields, kicks
<1>7. ASSUME NEW c \in Conns, CleanUser(c) \/ CleanRest(c) PROVE MaintenanceCovers'
  BY <1>7, ZenonT(30) DEF MaintenanceCovers, CleanUser, CleanRest, Clean, fields, kicks
<1>8. ASSUME NEW c \in Conns, NEW w \in Workers, NEW s \in Servers, NEW a \in UserIds,
             LoginGate(w, c, s, a)
      PROVE MaintenanceCovers'
  BY <1>8, ZenonT(30) DEF MaintenanceCovers, TypeOK, Histories, LoginGate, fields, kicks
<1>9. ASSUME NEW c \in Conns, NEW by \in {"id", "conn"}, KickConn(c, by) PROVE MaintenanceCovers'
  BY <1>9, NotifyType DEF MaintenanceCovers, TypeOK, KickConn, Shut, fields
<1>10. ASSUME NEW w \in Workers, Bind(w) PROVE MaintenanceCovers'
  <2>1. CASE wreq[w].conn \in connections
    <3>1. /\ wreq[w].conn \in Conns /\ serverID'[wreq[w].conn] = wreq[w].server
          /\ \A d \in Conns \ {wreq[w].conn} : serverID'[d] = serverID[d]
      BY <1>10, <2>1, Worker, ZenonT(30) DEF TypeOK, Bind, Go
    <3>2. /\ hist.slipped \subseteq hist'.slipped
          /\ wreq[w].server \in maint => wreq[w].conn \in hist'.slipped
      BY <1>10, <2>1, BindHistory, ZenonT(30)
    <3> QED BY <1>10, <3>1, <3>2, ZenonT(30) DEF MaintenanceCovers, Bind, TypeOK, kicks
  <2>2. CASE wreq[w].conn \notin connections
    BY <1>10, <2>2, ZenonT(30) DEF MaintenanceCovers, Bind, kicks
  <2> QED BY <2>1, <2>2, ZenonT(30)
<1>11. ASSUME NEW w \in Workers, CloseOld(w) PROVE MaintenanceCovers'
  BY <1>11, NotifyType DEF MaintenanceCovers, TypeOK, CloseOld, Shut, fields, kicks
<1>12. ASSUME NEW w \in Workers,
              Validate(w) \/ SetUUID(w) \/ StoreUser(w) \/ StoreServer(w) \/ SetAccount(w) \/ IndexAccount(w)
       PROVE MaintenanceCovers'
  BY <1>12 DEF MaintenanceCovers, TypeOK, Histories, Validate, SetUUID, StoreUser, StoreServer, SetAccount,
     IndexAccount, fields, kicks
<1>13. ASSUME NEW a \in Users, KickByAccounts(a) PROVE MaintenanceCovers'
  BY <1>13, ZenonT(30) DEF MaintenanceCovers, TypeOK, Histories, KickByAccounts, fields
<1>14. ASSUME NEW s \in Servers, Enable(s) \/ Disable(s) PROVE MaintenanceCovers'
  BY <1>14, ZenonT(30) DEF MaintenanceCovers, TypeOK, Histories, Enable, Disable, fields
<1>15. ASSUME NEW s \in Servers, Snapshot(s) PROVE MaintenanceCovers'
  BY <1>15, ZenonT(30) DEF MaintenanceCovers, TypeOK, Histories, Snapshot, fields
<1>16. CASE UNCHANGED vars
  BY <1>16, ZenonT(30) DEF MaintenanceCovers, vars, fields, kicks
<1> HIDE DEF MaintenanceCovers
<1> QED BY <1>1, <1>2, <1>3, <1>4, <1>5, <1>6, <1>7, <1>8, <1>9, <1>10, <1>11, <1>12, <1>13, <1>14, <1>15,
           <1>16, ZenonT(30) DEF Next, LoginStep, RemoveConnection

-----------------------------------------------------------------------------
(* The theorems.                                                           *)

\* The inductive invariant holds before the first connection.
LEMMA InitSInv == Init => SInv
<1> SUFFICES ASSUME Init PROVE SInv
  BY ZenonT(30)
<1>1. TypeOK
  BY SessionsAssumption, UUIDFacts DEF Init, TypeOK, Histories
<1>2. Life /\ Indexed /\ Reachable /\ Told /\ MaintenanceCovers
  BY UUIDFacts, ZenonT(30) DEF Init, Life, Indexed, Reachable, Told, MaintenanceCovers, LogsIn
<1>3. Tidy
  <2>1. \A s \in Servers \cup {None}, u \in UUIDs : <<s, u>> \in Keys
    BY UUIDFacts, ZenonT(30) DEF Init, Keys
  <2> QED BY SessionsAssumption, UUIDFacts, <2>1, ZenonT(30) DEF Init, Tidy, OneLogin, UserEntry, ServerEntry,
             AccountEntry, LogsIn
<1> QED BY UUIDFacts, <1>1, <1>2, <1>3, ZenonT(30) DEF Init, SInv

(* The invariant holds in every reachable state, whatever event loops,     *)
(* login workers, checkers and kick tasks do at once.                      *)
THEOREM SessionsInvariance == SafeSpec => []SInv
<1>1. SInv /\ [Next]_vars => SInv'
  BY TypeStep, CoreStep, ToldStep, MaintenanceStep, ZenonT(30) DEF SInv, Core
<1> QED BY InitSInv, <1>1, PTL DEF SafeSpec

(* SetConnectionAccountID and RemoveConnection keep accountConnections     *)
(* complete: KickAccounts finds every connection logged in to the account. *)
THEOREM AccountsAreIndexed == SafeSpec => []AccountIndexed
<1>1. SInv => AccountIndexed
  <2> SUFFICES ASSUME SInv, NEW c \in Conns, Steady(c), accountID[c] # None
               PROVE  c \in accountConnections[accountID[c]]
    BY ZenonT(30) DEF AccountIndexed
  <2>1. \A w \in Workers : ~LogsIn(w, c)
    BY ZenonT(30) DEF Steady, LoggingIn, LogsIn
  <2> QED BY <2>1, ZenonT(30) DEF SInv, Indexed, Steady
<1> QED BY SessionsInvariance, <1>1, PTL

(* UpdateConnectionUserUUID and the DeleteIf of RemoveConnection: the      *)
(* connection that logged a uuid in last is the one the uuid leads to.     *)
THEOREM UsersAreReachable == SafeSpec => []UserReachable
<1>1. SInv => UserReachable
  <2> SUFFICES ASSUME SInv, NEW c \in Conns, Steady(c), hist.last[userUUID[c]] = c
               PROVE  userConnections[userUUID[c]] = c
    BY ZenonT(30) DEF UserReachable
  <2>1. \A w \in Workers : ~LogsIn(w, c)
    BY ZenonT(30) DEF Steady, LoggingIn, LogsIn
  <2> QED BY <2>1, ZenonT(30) DEF SInv, Reachable, Steady
<1> QED BY SessionsInvariance, <1>1, PTL

(* RemoveConnection leaves no entry of the three indexes behind, for a     *)
(* connection whose logins did not race.                                   *)
THEOREM RemovalLeavesNothing == SafeSpec => []RemovalCleans
<1>1. SInv => RemovalCleans
  <2> SUFFICES ASSUME SInv, NEW c \in Conns, Gone(c), c \notin hist.raced
               PROVE  ~Referenced(c)
    BY ZenonT(30) DEF RemovalCleans
  <2>1. UserEntry(c) /\ ServerEntry(c) /\ AccountEntry(c)
    BY ZenonT(30) DEF SInv, Tidy
  <2>2. c \notin connections /\ cleaning[c] = "none"
    BY ZenonT(30) DEF Gone, Removing
  <2>3. \A k \in Keys : serverUserConnections[k] # c
    BY <2>1, <2>2 DEF ServerEntry, Keys
  <2>4. \A u \in UUIDs : userConnections[u] # c
    BY <2>1, <2>2, ZenonT(30) DEF UserEntry
  <2>5. \A a \in Users : c \notin accountConnections[a]
    BY <2>1, <2>2, ZenonT(30) DEF AccountEntry
  <2> QED BY <2>3, <2>4, <2>5, ZenonT(30) DEF Referenced
<1> QED BY SessionsInvariance, <1>1, PTL

(* notifyLogicOffline runs before every RemoveConnection: the logic server *)
(* is told of every bound connection that goes, or the reason is known.    *)
THEOREM OfflineIsNotLost == SafeSpec => []OfflineNotLost
<1>1. SInv => OfflineNotLost
  BY DEF SInv, Told, OfflineNotLost, Gone, TypeOK
<1> QED BY SessionsInvariance, <1>1, PTL

(* Mark first, list second: once snapshotMaintenanceTargets has run, only  *)
(* a login past its last look at the marks escapes the kick.               *)
THEOREM MaintenanceIsCovered == SafeSpec => []MaintenanceCovers
<1>1. SInv => MaintenanceCovers
  BY ZenonT(30) DEF SInv
<1> QED BY SessionsInvariance, <1>1, PTL
=============================================================================
