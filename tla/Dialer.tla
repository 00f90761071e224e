------------------------------- MODULE Dialer -------------------------------
(***************************************************************************)
(* The logic service dials a gateway (logic/dialer.go, service.go): one    *)
(* loop per registered address that runs a session of streams, waits and   *)
(* redials; registry events that create the loop and mark it stale; Stop.  *)
(* The streams of a session are those of LogicServer.                      *)
(***************************************************************************)
EXTENDS LogicServer

CONSTANTS Links      \* gateLink objects, 1..n: how often the loop can be started anew

ASSUME DialerAssumption ==
  /\ Links \subseteq Nat \ {0}
  /\ \A s \in Scenes : s.events \in Nat

VARIABLES link,      \* each gateLink and where its loop is
          gate,      \* gates[addr]: the current gateLink, 0 for none
          event,     \* the registry event being handled
          registered,\* the last event was a registration
          missed,    \* a registration found a loop that was already leaving
          stop       \* where Service.Stop is

dialerVars == <<link, gate, event, registered, missed, stop>>
vars == <<scene, serverVars, dialerVars>>

NewLink == [at |-> "none", stale |-> FALSE, cancel |-> FALSE, cancelled |-> FALSE,
            overdue |-> FALSE, streams |-> {}]

Init ==
  /\ ServerInit
  /\ link = [l \in Links |-> NewLink]
  /\ gate = 0
  /\ event = [at |-> "idle", left |-> scene.events, gate |-> 0]
  /\ registered = FALSE /\ missed = FALSE
  /\ stop = "no"

stopped == stop # "no"

At(l, at) == link' = [link EXCEPT ![l].at = at]

-----------------------------------------------------------------------------
(* Registry events, one after the other.                                   *)

\* Mutant: the stale mark of a known address stays.
ensureGateKeepingStale ==
  IF stopped THEN UNCHANGED <<link, gate, missed>>
  ELSE IF gate # 0 THEN UNCHANGED <<link, gate>> /\ missed' = (link[gate].at = "leave")
  ELSE \E l \in {k \in Links : link[k].at = "none"} :
         /\ \A k \in Links : k < l => link[k].at # "none"
         /\ gate' = l /\ link' = [link EXCEPT ![l].at = "top"] /\ missed' = FALSE

\* A known address loses its stale mark, a new one gets a loop; nothing after Stop.
ensureGate ==
  IF stopped THEN UNCHANGED <<link, gate, missed>>
  ELSE IF gate # 0
  THEN /\ link' = [link EXCEPT ![gate].stale = FALSE]
       /\ missed' = (link[gate].at = "leave")
       /\ UNCHANGED gate
  ELSE \E l \in {k \in Links : link[k].at = "none"} :
         /\ \A k \in Links : k < l => link[k].at # "none"
         /\ gate' = l /\ link' = [link EXCEPT ![l].at = "top"] /\ missed' = FALSE

Register ==
  /\ event.at = "idle" /\ event.left > 0 /\ stop # "done"
  /\ ensureGate
  /\ event' = [event EXCEPT !.left = @ - 1]
  /\ registered' = TRUE
  /\ UNCHANGED <<scene, serverVars, stop>>

\* markGateStale looks the link up under the lock ...
Deregister ==
  /\ event.at = "idle" /\ event.left > 0 /\ registered /\ stop # "done"
  /\ event' = [at |-> IF gate = 0 THEN "idle" ELSE "mark", left |-> event.left - 1, gate |-> gate]
  /\ registered' = FALSE
  /\ UNCHANGED <<scene, serverVars, link, gate, missed, stop>>

\* ... and marks it without the lock.
MarkStale ==
  /\ event.at = "mark"
  /\ link' = [link EXCEPT ![event.gate].stale = TRUE]
  /\ event' = [event EXCEPT !.at = "idle", !.gate = 0]
  /\ UNCHANGED <<scene, serverVars, gate, registered, missed, stop>>

-----------------------------------------------------------------------------
(* runGate and runSession.                                                 *)

LoopTop(l) ==
  /\ link[l].at = "top"
  /\ At(l, IF stopped THEN "leave" ELSE "check")
  /\ UNCHANGED <<scene, serverVars, gate, event, registered, missed, stop>>

CheckStale(l) ==
  /\ link[l].at = "check"
  /\ At(l, IF link[l].stale THEN "leave" ELSE "start")
  /\ UNCHANGED <<scene, serverVars, gate, event, registered, missed, stop>>

\* runSession gives the link its cancel function; the loop does not look at
\* stopCh again until the session is over.
SetCancel(l) ==
  /\ link[l].at = "start"
  /\ link' = [link EXCEPT ![l].at = "dial", ![l].cancel = TRUE, ![l].cancelled = FALSE,
                          ![l].overdue = stopped]
  /\ UNCHANGED <<scene, serverVars, gate, event, registered, missed, stop>>

\* One free slot for each shard.
FreshStreams ==
  {t \in Streams : /\ st[t].at = "off"
                   /\ \A r \in Streams : Shard[r] = Shard[t] /\ st[r].at = "off" => t <= r}

\* All streams stand, or the session fails.
Establish(l) ==
  /\ link[l].at = "dial"
  /\ \/ /\ ~link[l].cancelled
        /\ {Shard[t] : t \in FreshStreams} = {Shard[t] : t \in Streams}
        /\ OpenStreams(FreshStreams)
        /\ link' = [link EXCEPT ![l].at = "run", ![l].streams = FreshStreams]
     \/ At(l, "end") /\ UNCHANGED serverVars
  /\ UNCHANGED <<scene, gate, event, registered, missed, stop>>

\* A stream whose context is cancelled, or that the gateway or the network
\* breaks: RecvMsg returns an error.
StreamEnds(t) ==
  /\ \/ /\ \E l \in Links : t \in link[l].streams /\ link[l].cancelled
        /\ RecvError(t)
     \/ /\ closed[t] /\ RecvError(t)
     \/ /\ count.breaks < scene.breaks
        /\ RecvBroken(t)
  /\ UNCHANGED <<scene, dialerVars>>

\* Mutant: the session is dialed anew beside the streams it still has.
FirstExitRedials(l) ==
  /\ link[l].at = "run" /\ \E t \in link[l].streams : st[t].at = "off"
  /\ link' = [link EXCEPT ![l].at = "dial"]
  /\ UNCHANGED <<scene, serverVars, gate, event, registered, missed, stop>>

\* The first handler that exits ends the session for all.
FirstExit(l) ==
  /\ link[l].at = "run" /\ \E t \in link[l].streams : st[t].at = "off"
  /\ link' = [link EXCEPT ![l].at = "drain", ![l].cancelled = TRUE]
  /\ UNCHANGED <<scene, serverVars, gate, event, registered, missed, stop>>

\* handlers.Wait.
WaitHandlers(l) ==
  /\ link[l].at = "drain" /\ \A t \in link[l].streams : st[t].at = "off"
  /\ At(l, "end")
  /\ UNCHANGED <<scene, serverVars, gate, event, registered, missed, stop>>

\* The deferred calls of runSession; then back off, unless stopped.
EndSession(l) ==
  /\ link[l].at = "end"
  /\ link' = [link EXCEPT ![l] = [NewLink EXCEPT !.at = IF stopped THEN "leave" ELSE "backoff",
                                                 !.stale = link[l].stale]]
  /\ UNCHANGED <<scene, serverVars, gate, event, registered, missed, stop>>

Backoff(l) ==
  /\ link[l].at = "backoff"
  /\ \/ stopped /\ At(l, "leave")
     \/ At(l, "top")
  /\ UNCHANGED <<scene, serverVars, gate, event, registered, missed, stop>>

removeGate(l) ==
  /\ link[l].at = "leave"
  /\ gate' = IF gate = l THEN 0 ELSE gate
  /\ At(l, "gone")
  /\ UNCHANGED <<scene, serverVars, event, registered, missed, stop>>

-----------------------------------------------------------------------------
(* Service.Stop.                                                           *)

\* Mutant: only the channel is closed.
StopDialerOnlySignal ==
  /\ stop = "no" /\ scene.stop
  /\ stop' = "wait"
  /\ UNCHANGED <<scene, serverVars, link, gate, event, registered, missed>>

\* Dialer.Stop: close the channel and cancel the session there is ...
StopDialer ==
  /\ stop = "no" /\ scene.stop
  /\ stop' = "wait"
  /\ link' = IF gate # 0 /\ link[gate].cancel
             THEN [link EXCEPT ![gate].cancelled = TRUE, ![gate].cancel = FALSE] ELSE link
  /\ UNCHANGED <<scene, serverVars, gate, event, registered, missed>>

\* ... and wait for the loops.
WaitLoops ==
  /\ stop = "wait" /\ \A l \in Links : link[l].at \in {"none", "gone"}
  /\ stop' = "loops"
  /\ UNCHANGED <<scene, serverVars, link, gate, event, registered, missed>>

\* Server.Stop closes the streams there are; the gRPC server, which has a time
\* limit, and the listener follow.
StopServer ==
  /\ stop = "loops"
  /\ closed' = [t \in Streams |-> TRUE]
  /\ stop' = "done"
  /\ UNCHANGED <<scene, st, ch, wire, bound, sess, us, su, members, app, late, count>>
  /\ UNCHANGED <<link, gate, event, registered, missed>>

LoopStep(l) ==
  \/ LoopTop(l) \/ CheckStale(l) \/ SetCancel(l) \/ Establish(l) \/ FirstExit(l)
  \/ WaitHandlers(l) \/ EndSession(l) \/ Backoff(l) \/ removeGate(l)

Next ==
  \/ ServerNext /\ UNCHANGED <<scene, dialerVars>>
  \/ Register \/ Deregister \/ MarkStale
  \/ StopDialer \/ WaitLoops \/ StopServer
  \/ \E l \in Links : LoopStep(l)
  \/ \E t \in Streams : StreamEnds(t)

\* Goroutines keep running, timers fire and a cancelled stream fails; the
\* network and the peer are under no obligation.
Spec ==
  /\ Init /\ [][Next]_vars
  /\ \A l \in Links : WF_vars(LoopStep(l))
  /\ \A t \in Streams : WF_vars(StreamStep(t) /\ UNCHANGED <<scene, dialerVars>>)
  /\ \A t \in Streams : WF_vars(StreamEnds(t))
  /\ WF_vars(WaitLoops \/ StopServer)

-----------------------------------------------------------------------------
Live == {l \in Links : link[l].at \notin {"none", "gone"}}

TypeOK ==
  /\ gate \in Links \cup {0}
  /\ \A l \in Links : link[l].streams \subseteq Streams
  /\ \A t \in Streams : /\ Len(ch[t]) <= ChanSize
                        /\ bound[t] \subseteq {x \in Sessions : Home[x] = Shard[t]}
  /\ sess \in [Sessions -> Streams \cup {None}]
  /\ us \in [Users -> Sessions \cup {None}] /\ su \in [Sessions -> Users \cup {None}]
  /\ members \subseteq Sessions
  /\ stop \in {"no", "wait", "loops", "done"}

\* A gateway address has at most one dial loop, however its registrations come
\* and go, so never two sessions with streams for one shard (dialer.go:181).
OneLoop == Cardinality(Live) <= 1

\* A registered gateway has a loop that will redial (dialer.go:181), unless the
\* registration found the loop past its stale check and not yet removed.
RegisteredIsDialed ==
  registered /\ event.at = "idle" /\ ~stopped /\ ~missed =>
    gate # 0 /\ ~link[gate].stale /\ link[gate].at # "leave"

\* Once Stop has returned no stream, session or user is left on the service.
StoppedIsClean ==
  stop = "done" => /\ \A t \in Streams : st[t].at = "off"
                   /\ \A x \in Sessions : sess[x] = None /\ su[x] = None /\ x \notin members \ late

\* Stop returns (dialer.go:380), unless a session got its cancel function after
\* Stop had collected them.
StopEnds == stop = "wait" ~> (stop = "done" \/ \E l \in Links : link[l].overdue)

\* Stop closes every session and waits for the loops to exit (dialer.go:380).
StopReturns == stop = "wait" ~> stop = "done"

\* A response never blocks a receive loop for good, although the gateway may
\* take nothing any more (server.go:110).
ReceiveLoopGoesOn == \A t \in Streams : st[t].at = "wait" ~> st[t].at # "wait"
=============================================================================
