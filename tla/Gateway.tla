------------------------------ MODULE Gateway ------------------------------
(***************************************************************************)
(* The life of a gateway process (cmd/gateway/main.go, component/*.go,     *)
(* gateway/gateway.go, connection/manager.go): the components are          *)
(* initialised and started in their order, the gateway checks what they    *)
(* have wired, boots its transport engines, admits connections (Admission) *)
(* and reloads (ConfigReload) until it is closed, by the container or      *)
(* because an engine shuts down by itself.                                 *)
(*                                                                         *)
(* gnet and the container are external: an engine that stops first closes  *)
(* its connections, then calls OnShutdown, and only then counts as down;   *)
(* Engine.Stop returns when it is down.  Connections come through engine 1.*)
(***************************************************************************)
EXTENDS Admission, ConfigReload

CONSTANTS Engines,  \* transports, 1..n
          Scenes    \* deployments [serving, added, filters, reload, engines, conns,
                    \*              sweepers, signal, selfstop]

ASSUME GatewayAssumption ==
  /\ 1 \in Engines /\ 0 \notin Engines
  /\ \A s \in Scenes : s.engines \subseteq Engines

\* The components in their order.
Components == <<"security", "observability", "traffic", "cluster", "gateway">>

\* Who removes connections beside the event loops: the idle checker, the
\* WebSocket heartbeat checker, and CloseAllConnections.
Sweepers == {"idle", "heartbeat", "closer"}

VARIABLES scene,
          main,       \* the container: [at, n], with the component it is at
          wired,      \* security resources that were published
          chain,      \* filters in the filter chain
          closing, closeDone,
          closer,     \* closeBody: its step in CloseOrder, the engines it has still to stop
                      \* and the one whose end it waits for
          timedOut,   \* the drain gave up (history)
          engine,     \* each engine: off, boot, up, stopping, down
          engines,    \* g.engines
          late,       \* an engine or the gRPC server was up when closeBody had passed it (history)
          grpc,       \* the gRPC server: off, boot, up, down
          pool,       \* the pool of logic clients is open
          sweeper,    \* each sweeper and the connection it removes
          heard       \* connections whose offline notice began with an open pool (history)

mainVars == <<main, wired, chain>>
closeVars == <<closing, closeDone, closer, timedOut>>
engineVars == <<engine, engines, late>>
linkVars == <<grpc, pool>>
sweepVars == <<sweeper, heard>>
reloadVars == <<stopChan, configVars>>
gatewayVars == <<vars, reloadVars, scene, mainVars, closeVars, engineVars, linkVars, sweepVars>>

\* Mutant: the pool is closed while the engines run.
CloseOrderPoolFirst == <<"stop", "copy", "pool", "engines", "drain", "grpc", "checker", "rest">>

\* The steps of closeBody.
CloseOrder == <<"stop", "copy", "engines", "drain", "pool", "grpc", "checker", "rest">>

ClosingAt(step) == closer.n \in DOMAIN CloseOrder /\ CloseOrder[closer.n] = step

\* closeBody has got beyond a step.
Past(step) == \E n \in DOMAIN CloseOrder : CloseOrder[n] = step /\ closer.n > n

At(where) == [at |-> where, conn |-> None]

\* A deployment starts with its container, or in the middle of its service.
GatewayInit ==
  /\ scene \in Scenes
  /\ Init /\ \A c \in Conns \ scene.conns : ip[c] = CHOOSE i \in IPs : TRUE
  /\ ConfigInit /\ reload = scene.reload /\ stopChan = FALSE
  /\ main = IF scene.serving THEN [at |-> "serve", n |-> 0] ELSE [at |-> "load", n |-> 0]
  /\ wired = IF scene.serving THEN cfg.on ELSE {}
  /\ chain = 0
  /\ closing = FALSE /\ closeDone = FALSE /\ timedOut = FALSE
  /\ closer = [n |-> 0, todo |-> {}, waits |-> 0]
  /\ engine = [e \in Engines |-> IF scene.serving /\ e \in scene.engines THEN "up" ELSE "off"]
  /\ engines = IF scene.serving THEN scene.engines ELSE {}
  /\ late = FALSE
  /\ grpc = IF scene.serving THEN "up" ELSE "off"
  /\ pool = scene.serving
  /\ sweeper = [s \in Sweepers |-> IF s = "closer" \/ (scene.serving /\ s \in scene.sweepers)
                                   THEN At("idle") ELSE At("off")]
  /\ heard = {}

-----------------------------------------------------------------------------
(* main and the container.                                                 *)

Fail == main' = [at |-> "failed", n |-> 0]

\* config.Load, or its error; then the filters of the configuration, of which
\* one that cannot be loaded is only warned about.
LoadAll ==
  /\ main.at = "load"
  /\ \/ main' = [at |-> "init", n |-> 1] /\ chain' \in 0..scene.filters
     \/ Fail /\ UNCHANGED chain
  /\ UNCHANGED <<vars, reloadVars, scene, wired, closeVars, engineVars, linkVars, sweepVars>>

InitDone == main' = [main EXCEPT !.n = @ + 1]

Initialising(c) ==
  /\ main.at = "init" /\ Components[main.n] = c /\ c \in scene.added
  /\ UNCHANGED <<vars, reloadVars, scene, closeVars, engineVars, linkVars, sweepVars>>

\* A component that was not added is not there.
NotAdded ==
  /\ main.at = "init" /\ Components[main.n] \notin scene.added
  /\ InitDone
  /\ UNCHANGED <<vars, reloadVars, scene, wired, chain, closeVars, engineVars, linkVars, sweepVars>>

\* A resource for each feature that is on; JWT without a secret is an error,
\* with one it is a filter too.
InitSecurity ==
  /\ Initialising("security")
  /\ \/ /\ InitDone /\ wired' = cfg.on
        /\ chain' = chain + (IF "jwt" \in cfg.on THEN 1 ELSE 0)
     \/ "jwt" \in cfg.on /\ Fail /\ UNCHANGED <<wired, chain>>

\* A filter if tracing is on.
InitObservability ==
  /\ Initialising("observability")
  /\ InitDone /\ chain' \in {chain, chain + 1} /\ UNCHANGED wired

\* Filters for canary, mirror and degradation; a WASM module that does not load is an error.
InitTraffic ==
  /\ Initialising("traffic")
  /\ \/ InitDone /\ chain' \in chain..(chain + 3)
     \/ Fail /\ UNCHANGED chain
  /\ UNCHANGED wired

InitCluster == Initialising("cluster") /\ InitDone /\ UNCHANGED <<wired, chain>>

\* What is on has its resource, and configured filters left a chain.
validateSecurityWiring == cfg.on \subseteq wired /\ (scene.filters > 0 => chain > 0)

InitGateway ==
  /\ Initialising("gateway")
  /\ IF validateSecurityWiring THEN main' = [at |-> "start", n |-> 0] ELSE Fail
  /\ UNCHANGED <<wired, chain>>

\* The gateway registers itself before it serves, or fails to.
StartCluster ==
  /\ main.at = "start"
  /\ main' = [at |-> "services", n |-> 0] \/ ("cluster" \in scene.added /\ Fail)
  /\ UNCHANGED <<vars, reloadVars, scene, wired, chain, closeVars, engineVars, linkVars, sweepVars>>

\* The engines boot on goroutines of their own ...
startTransports == [e \in Engines |-> IF e \in scene.engines THEN "boot" ELSE "off"]

\* ... and so does the gRPC server; an error of the login service ends the start.
StartServices ==
  /\ main.at = "services"
  /\ \/ Fail /\ UNCHANGED <<engine, linkVars, sweeper>>
     \/ /\ main' = [at |-> "serve", n |-> 0]
        /\ engine' = startTransports
        /\ grpc' = "boot" /\ pool' = TRUE
        /\ sweeper' = [s \in Sweepers |-> IF s \in scene.sweepers THEN At("idle") ELSE sweeper[s]]
  /\ UNCHANGED <<vars, reloadVars, scene, wired, chain, closeVars, engines, late, heard>>

\* A signal: the container destroys the gateway first.
Signal ==
  /\ main.at = "serve" /\ scene.signal
  /\ main' = [at |-> "close", n |-> 0]
  /\ UNCHANGED <<vars, reloadVars, scene, wired, chain, closeVars, engineVars, linkVars, sweepVars>>

\* Close: the first to close runs closeBody, others wait for its end.
Close ==
  /\ main.at = "close"
  /\ main' = [at |-> "wait", n |-> 0]
  /\ closing' = TRUE
  /\ closer' = IF closing THEN closer ELSE [closer EXCEPT !.n = 1]
  /\ UNCHANGED <<vars, reloadVars, scene, wired, chain, closeDone, timedOut, engineVars, linkVars,
                 sweepVars>>

Exit ==
  /\ main.at = "wait" /\ closeDone
  /\ main' = [at |-> "exit", n |-> 0]
  /\ UNCHANGED <<vars, reloadVars, scene, wired, chain, closeVars, engineVars, linkVars, sweepVars>>

-----------------------------------------------------------------------------
(* Connections: what Admission says, on an engine that runs.               *)

Running == engine[1] \in {"up", "stopping"}

\* The offline notice of a connection that is about to be removed.
Notify(c) == heard' = IF pool THEN heard \cup {c} ELSE heard

Accept(l, c) == Running /\ c \in scene.conns /\ CanAccept(l, c)
Move(l, c, i) == engine[1] = "up" /\ UpdateConnectionIP(l, c, i)

LoopStep(l) ==
  \/ CanAcceptIP(l) \/ AddConnection(l) \/ AddIP(l) \/ DropOld(l) \/ RaiseNew(l) \/ SetRemoteHost(l)

\* OnClose on the connection's event loop: the notice, then RemoveConnection.
OnClose(c) ==
  /\ Running /\ ~Busy(c) /\ Delete(c)
  /\ Notify(c)
  /\ UNCHANGED <<reloadVars, scene, mainVars, closeVars, engineVars, linkVars, sweeper>>

\* A connection a sweeper has found: the notice ...
Pick(s, c) ==
  /\ sweeper[s].at = "idle" /\ state[c] = "open"
  /\ s = "closer" => ClosingAt("rest")
  /\ sweeper' = [sweeper EXCEPT ![s] = [at |-> "picked", conn |-> c]]
  /\ Notify(c)
  /\ UNCHANGED <<vars, reloadVars, scene, mainVars, closeVars, engineVars, linkVars>>

\* ... then RemoveConnection, which does nothing if the connection has gone.
Sweep(s) ==
  /\ sweeper[s].at = "picked"
  /\ \/ Delete(sweeper[s].conn) /\ sweeper' = [sweeper EXCEPT ![s].at = "removing"]
     \/ /\ state[sweeper[s].conn] # "open" /\ sweeper' = [sweeper EXCEPT ![s] = At("idle")]
        /\ UNCHANGED vars
  /\ UNCHANGED <<reloadVars, scene, mainVars, closeVars, engineVars, linkVars, heard>>

\* The end of a removal; the sweeper that made it goes on.
Removed(c) ==
  /\ LowerCount(c)
  /\ sweeper' = [s \in Sweepers |-> IF sweeper[s] = [at |-> "removing", conn |-> c] THEN At("idle")
                                    ELSE sweeper[s]]
  /\ UNCHANGED <<reloadVars, scene, mainVars, closeVars, engineVars, linkVars, heard>>

Unswept == UNCHANGED <<reloadVars, scene, mainVars, closeVars, engineVars, linkVars, sweepVars>>

-----------------------------------------------------------------------------
(* Engines, and the gRPC server.                                           *)

\* gnet.Run: OnBoot adds the engine to the list, or the port is taken.
OnBoot(e) ==
  /\ engine[e] = "boot"
  /\ \/ /\ engine' = [engine EXCEPT ![e] = "up"]
        /\ engines' = engines \cup {e}
        /\ late' = (late \/ Past("copy"))
     \/ engine' = [engine EXCEPT ![e] = "off"] /\ UNCHANGED <<engines, late>>
  /\ UNCHANGED <<vars, reloadVars, scene, mainVars, closeVars, linkVars, sweepVars>>

StopsItself(e) ==
  /\ engine[e] = "up" /\ scene.selfstop
  /\ engine' = [engine EXCEPT ![e] = "stopping"]
  /\ UNCHANGED <<vars, reloadVars, scene, mainVars, closeVars, engines, late, linkVars, sweepVars>>

\* The loops of an engine have closed their connections.
Drained(e) ==
  e = 1 => /\ \A l \in Loops : lpc[l] = "idle"
           /\ \A c \in Conns : \/ state[c] \in {"new", "refused", "gone"}
                               \/ \E s \in Sweepers : sweeper[s] = [at |-> "removing", conn |-> c]

\* Mutant: OnShutdown calls Close, which waits for closeBody if another runs it.
OnShutdownWaiting(e) ==
  /\ engine[e] = "stopping" /\ Drained(e) /\ (closing => closeDone)
  /\ engine' = [engine EXCEPT ![e] = "down"]
  /\ engines' = engines \ {e}
  /\ closing' = TRUE
  /\ closer' = IF closing THEN closer ELSE [closer EXCEPT !.n = 1]
  /\ UNCHANGED <<vars, reloadVars, scene, mainVars, closeDone, timedOut, late, linkVars, sweepVars>>

\* OnShutdown takes the engine out of the list; the first to close starts
\* closeBody on a goroutine of its own, and the callback returns.
OnShutdown(e) ==
  /\ engine[e] = "stopping" /\ Drained(e)
  /\ engine' = [engine EXCEPT ![e] = "down"]
  /\ engines' = engines \ {e}
  /\ closing' = TRUE
  /\ closer' = IF closing THEN closer ELSE [closer EXCEPT !.n = 1]
  /\ UNCHANGED <<vars, reloadVars, scene, mainVars, closeDone, timedOut, late, linkVars, sweepVars>>

GrpcBootstrap ==
  /\ grpc = "boot" /\ grpc' \in {"up", "off"}
  /\ late' = (late \/ (grpc' = "up" /\ Past("grpc")))
  /\ UNCHANGED <<vars, reloadVars, scene, mainVars, closeVars, engine, engines, pool, sweepVars>>

-----------------------------------------------------------------------------
(* closeBody.                                                              *)

Closing(step) ==
  /\ ClosingAt(step)
  /\ UNCHANGED <<vars, configVars, scene, mainVars, closing, engines, late, heard>>

Onwards == closer' = [closer EXCEPT !.n = @ + 1]

\* stopChan ends the watchers.
CloseStopChan ==
  /\ Closing("stop") /\ Onwards
  /\ stopChan' = TRUE
  /\ UNCHANGED <<closeDone, timedOut, engine, linkVars, sweeper>>

CopyEngines ==
  /\ Closing("copy")
  /\ closer' = [n |-> closer.n + 1, todo |-> engines, waits |-> 0]
  /\ UNCHANGED <<stopChan, closeDone, timedOut, engine, linkVars, sweeper>>

\* One engine after the other: Stop ...
StopEngine(e) ==
  /\ Closing("engines") /\ closer.waits = 0 /\ e \in closer.todo
  /\ engine' = [engine EXCEPT ![e] = IF @ = "up" THEN "stopping" ELSE @]
  /\ closer' = [n |-> closer.n, todo |-> closer.todo \ {e}, waits |-> e]
  /\ UNCHANGED <<stopChan, closeDone, timedOut, linkVars, sweeper>>

\* ... returns when the engine is down.
EngineStopped ==
  /\ Closing("engines") /\ closer.waits # 0 /\ engine[closer.waits] = "down"
  /\ closer' = [closer EXCEPT !.waits = 0]
  /\ UNCHANGED <<stopChan, closeDone, timedOut, engine, linkVars, sweeper>>

EnginesStopped ==
  /\ Closing("engines") /\ closer.todo = {} /\ closer.waits = 0 /\ Onwards
  /\ UNCHANGED <<stopChan, closeDone, timedOut, engine, linkVars, sweeper>>

\* Nothing is counted any more, or two minutes are over.
Drain ==
  /\ Closing("drain") /\ Onwards
  /\ timedOut' = (count # 0)
  /\ UNCHANGED <<stopChan, closeDone, engine, linkVars, sweeper>>

ClosePool ==
  /\ Closing("pool") /\ Onwards
  /\ pool' = FALSE
  /\ UNCHANGED <<stopChan, closeDone, timedOut, engine, grpc, sweeper>>

\* The server that has been set by now is stopped.
StopGrpc ==
  /\ Closing("grpc") /\ Onwards
  /\ grpc' = IF grpc = "up" THEN "down" ELSE grpc
  /\ UNCHANGED <<stopChan, closeDone, timedOut, engine, pool, sweeper>>

\* A checker that was started is waited for.
StopConnectionChecker ==
  /\ Closing("checker") /\ Onwards
  /\ sweeper["idle"].at \in {"off", "idle"}
  /\ sweeper' = [sweeper EXCEPT !["idle"].at = IF @ = "idle" THEN "done" ELSE @]
  /\ UNCHANGED <<stopChan, closeDone, timedOut, engine, linkVars>>

\* CloseAllConnections removes what it finds; a connection that an engine
\* booted late adds behind the iteration is not found.
CloseEnd ==
  /\ Closing("rest") /\ Onwards
  /\ sweeper["closer"].at = "idle"
  /\ late \/ \A c \in Conns : state[c] # "open"
  /\ closeDone' = TRUE
  /\ sweeper' = [sweeper EXCEPT !["closer"] = At("done")]
  /\ UNCHANGED <<stopChan, timedOut, engine, linkVars>>

\* The heartbeat checker sees stopChan between two rounds; nobody waits for it.
HeartbeatEnds ==
  /\ stopChan /\ sweeper["heartbeat"].at = "idle"
  /\ sweeper' = [sweeper EXCEPT !["heartbeat"] = At("done")]
  /\ UNCHANGED <<vars, reloadVars, scene, mainVars, closeVars, engineVars, linkVars, heard>>

-----------------------------------------------------------------------------
MainStep ==
  \/ LoadAll \/ NotAdded \/ InitSecurity \/ InitObservability \/ InitTraffic \/ InitCluster
  \/ InitGateway \/ StartCluster \/ StartServices \/ Close \/ Exit

CloserStep ==
  \/ CloseStopChan \/ CopyEngines \/ (\E e \in Engines : StopEngine(e)) \/ EngineStopped
  \/ EnginesStopped \/ Drain \/ ClosePool \/ StopGrpc
  \/ StopConnectionChecker \/ CloseEnd

LoopGoesOn == \E l \in Loops : LoopStep(l) /\ Unswept
RemovalGoesOn == \E c \in Conns : (LowerIP(c) /\ Unswept) \/ Removed(c)
EngineShutsDown == \E e \in Engines : OnShutdown(e)
ConnectionIsClosed == engine[1] = "stopping" /\ \E c \in Conns : OnClose(c)
SweeperGoesOn(s) == Sweep(s) \/ (s = "closer" /\ \E c \in Conns : Pick(s, c))

\* The configuration is read, watched and replaced as long as the gateway serves.
Reloading(A) ==
  main.at \in {"serve", "close", "wait"} /\ A
  /\ UNCHANGED <<vars, scene, mainVars, closeVars, engineVars, linkVars, sweepVars>>

GatewayNext ==
  \/ MainStep \/ Signal \/ CloserStep \/ HeartbeatEnds \/ GrpcBootstrap
  \/ \E e \in Engines : OnBoot(e) \/ StopsItself(e) \/ OnShutdown(e)
  \/ \E l \in Loops, c \in Conns :
       (Accept(l, c) \/ \E i \in IPs : Move(l, c, i)) /\ Unswept
  \/ LoopGoesOn \/ RemovalGoesOn
  \/ \E c \in Conns : OnClose(c) \/ \E s \in Sweepers : Pick(s, c)
  \/ \E s \in Sweepers : Sweep(s)
  \/ Reloading(ConfigNext)

\* Goroutines are scheduled, and an engine that stops ends its loops.
GatewayFairness ==
  /\ WF_gatewayVars(MainStep) /\ WF_gatewayVars(CloserStep)
  /\ WF_gatewayVars(LoopGoesOn) /\ WF_gatewayVars(RemovalGoesOn)
  /\ WF_gatewayVars(EngineShutsDown) /\ WF_gatewayVars(ConnectionIsClosed)
  /\ \A s \in Sweepers : WF_gatewayVars(SweeperGoesOn(s))
  /\ WF_gatewayVars(Reloading(WatcherStep)) /\ WF_gatewayVars(Reloading(BridgeStep))
  /\ WF_gatewayVars(Reloading(UpdaterStep))

GatewaySpec == GatewayInit /\ [][GatewayNext]_gatewayVars /\ GatewayFairness

-----------------------------------------------------------------------------
GatewayTypeOK ==
  /\ TypeOK
  /\ main.at \in {"load", "init", "start", "services", "serve", "close", "wait", "exit", "failed"}
  /\ closer.n \in 0..(Len(CloseOrder) + 1)
  /\ engine \in [Engines -> {"off", "boot", "up", "stopping", "down"}]
  /\ engines = {e \in Engines : engine[e] \in {"up", "stopping"}}
  /\ closer.todo \subseteq Engines /\ closer.waits \in Engines \cup {0}
  /\ grpc \in {"off", "boot", "up", "down"}
  /\ sweeper \in [Sweepers -> [at : {"off", "idle", "picked", "removing", "done"}, conn : Conns \cup {None}]]
  /\ heard \subseteq Conns

\* A gateway that serves has the resource of every security feature of the
\* configuration in force, through start-up and any sequence of reloads
\* (gateway.go:278, gateway.go:589): no stage is skipped because it is missing.
FailClosed == main.at \in {"serve", "close", "wait"} => cfg.on \subseteq wired

\* A connection removed while the gateway closes has its offline notice begun
\* before the pool of logic clients is closed, unless an engine booted too
\* late to be stopped (gateway.go:791, login.go:250).
CloseNotifies ==
  ~late => \A c \in Conns : state[c] \in {"deleted", "lowered", "gone"} => c \in heard

\* When closeBody is over nothing is counted, unless the drain gave up or an
\* engine booted too late (gateway.go:880).
EmptyAfterClose == closeDone /\ ~late /\ ~timedOut => count = 0

\* When closeBody is over the idle checker has ended and no engine or gRPC
\* server runs, unless one came up after closeBody had passed it
\* (gateway.go:811, manager.go:537).
CloseStopsAll ==
  closeDone => /\ sweeper["idle"].at \in {"off", "done"}
               /\ ~late => /\ \A e \in Engines : engine[e] \notin {"up", "stopping"}
                           /\ grpc # "up"

\* Whoever sets it off, closing ends: closeBody waits for the engines, the
\* engines for their callbacks, and no callback for closeBody (gateway.go:758).
CloseCompletes == closing ~> closeDone
=============================================================================
