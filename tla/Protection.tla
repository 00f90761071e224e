---------------------------- MODULE Protection ----------------------------
(***************************************************************************)
(* MessagePipeline.Process (gateway/pipeline.go): the checks a client      *)
(* message passes before it is forwarded, with every component they use.   *)
(* One worker runs Process for the messages of one connection, in order;   *)
(* workers share the limiter, the breakers, the lists and the degradation  *)
(* rules, which the configuration goroutine rewrites meanwhile             *)
(* (Gateway.handleConfigUpdate).                                           *)
(*                                                                         *)
(* Which components exist is fixed at start-up (component.Init), so it is  *)
(* chosen in Init: every element of Scenes is one deployment.              *)
(***************************************************************************)
EXTENDS RateLimiter, CircuitBreaker, Degradation

CONSTANTS Scenes,       \* deployments: components, traffic, what else happens
          Ip,           \* the address of each worker's connection
          Addresses,    \* the addresses that lists name
          PreAuth,      \* the commands allowed before login
          Seqs,         \* the sequence numbers clients use; 0 is "none"
          JwtSkip,      \* jwtAuth.skipRoutes
          Target,       \* canary.targetRoute
          Grace,        \* loginBindGrace
          MaxPerConn,   \* protection.maxMessagesPerConn
          RateWindow,   \* the second CheckAndIncrementMsgRate counts in
          TimeWindow,   \* the window of MessageIntegrity
          MirrorQueue   \* the capacity of the mirror's queue

ASSUME ProtectionAssumption ==
  /\ IsFiniteSet(Workers)
  /\ BucketIds # {}
  /\ Ip \in [Workers -> Keys]
  /\ \A s \in Scenes : /\ s.msgs \in Nat /\ s.cmds \subseteq Routes
                       /\ "limit" \in s.on => s.cmds \subseteq Keys

VARIABLES scene,     \* the deployment
          stage,     \* how far each worker is in Process
          msg,       \* its message: command, sequence number, WAF verdict, client, route
          left,      \* messages still to come
          sess,      \* the connection: "none", "bound", "authed" or "gone"
          logic,     \* the logic client of its server: "absent", "down" or "up"
          overload,  \* overloadFlag
          white, black, reload,       \* the lists; handleConfigUpdate's position
          window,    \* msgWindowStart and msgCount of each connection
          seen,      \* MessageIntegrity's caches: key -> time
          canary,    \* the connections that CanaryFilter redirects
          mirrored,  \* the length of the mirror's queue
          counter,   \* the outcome counters
          passed,    \* history: the checks the current message has passed
          times,     \* history: when each connection passed its rate check
          replays    \* history: when each key last passed the replay check

gateVars == <<scene, stage, msg, left, sess, logic, overload, white, black, reload,
              window, seen, canary, mirrored, counter, passed, times, replays>>
vars == <<now, limiterVars, breakerVars, degradationVars, gateVars>>

On(c) == c \in scene.on

Filters == {"jwt", "canary", "wasm", "mirror", "degradation"}

\* SecurityComponent.Init and TrafficComponent.Init create what is enabled.
Init ==
  /\ scene \in Scenes
  /\ now = 0 /\ LimiterInit /\ BreakerInit /\ DegradationInit
  /\ On("limit") \/ setting = CHOOSE s \in Settings : TRUE
  /\ stage = [w \in Workers |-> "idle"]
  /\ msg = [w \in Workers |-> [cmd |-> None, seq |-> 0, bad |-> FALSE,
                               client |-> FALSE, route |-> None]]
  /\ left = scene.msgs
  /\ sess = [w \in Workers |-> scene.sess]
  /\ logic = "up" /\ overload = FALSE
  /\ white = {} /\ black = {} /\ reload = "rest"
  /\ window = [w \in Workers |-> [start |-> 0, count |-> 0]]
  /\ seen = <<>> /\ replays = <<>>
  /\ canary \in IF On("canary") THEN SUBSET Workers ELSE {{}}
  /\ mirrored = 0
  /\ counter = [o \in {"overload", "auth", "rateLimit", "noLogic", "blacklist", "waf",
                       "circuit", "integrity", "filter", "failed", "forwarded"} |-> 0]
  /\ passed = [w \in Workers |-> {}]
  /\ times = [w \in Workers |-> <<>>]

-----------------------------------------------------------------------------
(* Moving through Process.                                                 *)

\* What Process leaves alone in a stage that touches no component.
Still == UNCHANGED <<now, limiterVars, breakerVars, degradationVars>>
Env == UNCHANGED <<scene, left, sess, logic, overload, white, black, reload, canary, replays,
                   seen, mirrored, window, times>>

Goto(w, s) == stage' = [stage EXCEPT ![w] = s] /\ UNCHANGED counter

\* One outcome is counted, and Process returns.
Drop(w, o) ==
  /\ stage' = [stage EXCEPT ![w] = "idle"]
  /\ counter' = [counter EXCEPT ![o] = @ + 1]

\* The first stage from s on whose component the deployment has.
Chain == <<"overload", "session", "client", "black", "global", "waf", "breaker",
           "integrity", "filters", "degrade", "send">>

Present(s) ==
  CASE s = "black"   -> On("lists")
    [] s = "global"  -> On("limit")
    [] s = "filters" -> scene.on \cap {"jwt", "canary", "wasm", "mirror"} # {}
    [] s = "degrade" -> On("degradation")
    [] s \in {"overload", "waf", "breaker", "integrity"} -> On(s)
    [] OTHER -> TRUE

From(s) ==
  LET start == CHOOSE i \in DOMAIN Chain : Chain[i] = s
      ahead == {i \in DOMAIN Chain : i >= start /\ Present(Chain[i])}
  IN  Chain[CHOOSE i \in ahead : \A j \in ahead : i <= j]

Pass(w, c, s) == Goto(w, s) /\ passed' = [passed EXCEPT ![w] = @ \cup {c}]

Refuse(w, o) == Drop(w, o) /\ UNCHANGED passed

\* A message arrives on the connection.
Receive(w) ==
  /\ stage[w] = "idle" /\ left > 0
  /\ \E c \in scene.cmds, q \in IF On("integrity") THEN Seqs ELSE {0},
        b \in IF On("waf") THEN BOOLEAN ELSE {FALSE} :
       msg' = [msg EXCEPT ![w] = [cmd |-> c, seq |-> q, bad |-> b, client |-> FALSE, route |-> c]]
  /\ left' = left - 1
  /\ passed' = [passed EXCEPT ![w] = {}]
  /\ Goto(w, From("overload"))
  /\ Still
  /\ UNCHANGED <<scene, sess, logic, overload, white, black, reload, canary, replays,
                 seen, mirrored, window, times>>

\* Stage 1: an overloaded gateway drops silently.
CheckOverload(w) ==
  /\ stage[w] = "overload"
  /\ IF overload THEN Refuse(w, "overload") ELSE Pass(w, "overload", "session")
  /\ Still /\ Env /\ UNCHANGED msg

\* CheckAndIncrementMsgRate.
RateAllows(w) == \/ now - window[w].start >= RateWindow
                 \/ window[w].count < MaxPerConn

CountMessage(w) ==
  /\ window' = [window EXCEPT ![w] =
       IF now - @.start >= RateWindow THEN [start |-> now, count |-> 1]
       ELSE [@ EXCEPT !.count = @ + 1]]
  /\ times' = [times EXCEPT ![w] = Append(@, now)]

\* Stages 2 and 2.5: the session must exist and be logged in, unless the
\* command is allowed before; then the connection's own rate is checked.
CheckSession(w) ==
  /\ stage[w] = "session"
  /\ IF sess[w] = "gone" \/ (sess[w] # "authed" /\ msg[w].cmd \notin PreAuth)
     THEN /\ Refuse(w, "auth")
          /\ sess' = [sess EXCEPT ![w] = IF now < Grace THEN @ ELSE "gone"]
          /\ UNCHANGED <<window, times>>
     ELSE /\ UNCHANGED sess
          /\ IF ~On("connRate") THEN Pass(w, "session", "client") /\ UNCHANGED <<window, times>>
             ELSE IF RateAllows(w) THEN Pass(w, "session", "client") /\ CountMessage(w)
             ELSE Refuse(w, "rateLimit") /\ UNCHANGED <<window, times>>
  /\ Still
  /\ UNCHANGED <<scene, msg, left, logic, overload, white, black, reload, canary, replays,
                 seen, mirrored>>

\* Mutant: the fast path looks at the security components only, as it did
\* when a deployment with nothing but JWT skipped the whole chain.
FastPathIgnoringFilters ==
  scene.on \cap {"lists", "limit", "waf", "breaker", "integrity", "tracer", "degradation"} = {}

\* securityDisabled, no tracer and no degradation manager.
FastPath ==
  scene.on \cap ({"lists", "limit", "waf", "breaker", "integrity", "tracer"} \cup Filters) = {}

\* The cached or pooled logic client; a session without server has none.  A
\* connection that is gone by now was logged in when its session was checked.
FindClient(w) ==
  LET bound == sess[w] # "none" IN
  /\ stage[w] = "client"
  /\ IF bound /\ logic = "absent" THEN Drop(w, "noLogic")
     ELSE Goto(w, IF FastPath THEN "send" ELSE From("black"))
  /\ msg' = [msg EXCEPT ![w].client = bound]
  /\ Still /\ Env /\ UNCHANGED passed

-----------------------------------------------------------------------------
(* Stage 3, the security chain: lists, limiter, WAF, breaker.              *)

\* IsInBlacklist, WhitelistEmpty and IsInWhitelist each take the lock anew.
CheckBlacklist(w) ==
  /\ stage[w] = "black"
  /\ IF Ip[w] \in black THEN Drop(w, "blacklist") ELSE Goto(w, "white")
  /\ Still /\ Env /\ UNCHANGED <<msg, passed>>

CheckWhitelistEmpty(w) ==
  /\ stage[w] = "white"
  /\ IF white = {} THEN Pass(w, "lists", From("global"))
     ELSE Goto(w, "listed") /\ UNCHANGED passed
  /\ Still /\ Env /\ UNCHANGED msg

CheckWhitelisted(w) ==
  /\ stage[w] = "listed"
  /\ IF Ip[w] \in white THEN Pass(w, "lists", From("global")) ELSE Refuse(w, "blacklist")
  /\ Still /\ Env /\ UNCHANGED msg

\* The bucket a stage charges, and the stage after it.
StartLimit(w) ==
  /\ lim[w].at = "rest"
  /\ \/ stage[w] = "global" /\ AllowGlobal(w) /\ Goto(w, "global bucket")
     \/ stage[w] = "ip" /\ Allow(w, Ip[w]) /\ Goto(w, "ip bucket")
     \/ stage[w] = "route" /\ Allow(w, msg[w].cmd) /\ Goto(w, "route bucket")
  /\ UNCHANGED <<now, breakerVars, degradationVars>>
  /\ Env /\ UNCHANGED <<msg, passed>>

LimitStep(w) ==
  /\ stage[w] \in {"global bucket", "ip bucket", "route bucket"}
  /\ \/ CreateBucket(w) \/ ReadClock(w) \/ ReadLast(w) \/ SwapLast(w)
     \/ ReadBurst(w) \/ AddRefill(w) \/ TakeToken(w)
  /\ IF lim'[w].at # "rest" THEN Goto(w, stage[w]) /\ UNCHANGED passed
     ELSE IF ~lim'[w].ok THEN Refuse(w, "rateLimit")
     ELSE CASE stage[w] = "global bucket" -> Goto(w, "ip") /\ UNCHANGED passed
            [] stage[w] = "ip bucket" -> Goto(w, "route") /\ UNCHANGED passed
            [] stage[w] = "route bucket" -> Pass(w, "limit", From("waf"))
  /\ Env /\ UNCHANGED <<now, breakerVars, degradationVars, msg>>

WafUnchanged == UNCHANGED <<scene, msg, left, logic, overload, white, black, reload, canary,
                            replays, seen, mirrored, window, times>>

\* Mutant: a blocked message is dropped without being counted.
CheckWafUncounted(w) ==
  /\ stage[w] = "waf"
  /\ IF msg[w].bad THEN Goto(w, "idle") /\ UNCHANGED passed
     ELSE Pass(w, "waf", From("breaker"))
  /\ UNCHANGED sess
  /\ Still /\ WafUnchanged

\* Inspect: a payload that matches is dropped, in log mode too; in drop mode
\* the connection is closed as well.
CheckWaf(w) ==
  /\ stage[w] = "waf"
  /\ IF msg[w].bad
     THEN /\ Refuse(w, "waf")
          /\ sess' = [sess EXCEPT ![w] = IF On("drop mode") THEN "gone" ELSE @]
     ELSE Pass(w, "waf", From("breaker")) /\ UNCHANGED sess
  /\ Still /\ WafUnchanged

StartBreaker(w) ==
  /\ stage[w] = "breaker"
  /\ Enter(w, msg[w].cmd, "allow") /\ Goto(w, "admission")
  /\ UNCHANGED <<now, limiterVars, degradationVars>>
  /\ Env /\ UNCHANGED <<msg, passed>>

BreakerAdmission(w) ==
  /\ stage[w] = "admission"
  /\ AllowStep(w)
  /\ IF brk'[w].at # "rest" THEN Goto(w, "admission") /\ UNCHANGED passed
     ELSE IF brk'[w].ok THEN Pass(w, "breaker", From("integrity")) ELSE Refuse(w, "circuit")
  /\ UNCHANGED <<now, limiterVars, degradationVars>>
  /\ Env /\ UNCHANGED msg

-----------------------------------------------------------------------------
(* Stage 4: MessageIntegrity.ProcessMessage, under its shard's lock.       *)

SeqKey(w) == <<w, msg[w].cmd, msg[w].seq>>

CheckIntegrity(w) ==
  /\ stage[w] = "integrity"
  /\ \/ /\ msg[w].seq = 0 \/ SeqKey(w) \in DOMAIN seen
        /\ Refuse(w, "integrity") /\ UNCHANGED <<seen, replays>>
     \/ /\ msg[w].seq # 0 /\ SeqKey(w) \notin DOMAIN seen
        /\ Pass(w, "integrity", From("filters"))
        /\ seen' = [k \in DOMAIN seen \cup {SeqKey(w)} |-> IF k = SeqKey(w) THEN now ELSE seen[k]]
        /\ replays' = [k \in DOMAIN replays \cup {SeqKey(w)} |->
                         IF k = SeqKey(w) THEN now ELSE replays[k]]
  /\ Still
  /\ UNCHANGED <<scene, msg, left, sess, logic, overload, white, black, reload, canary,
                 mirrored, window, times>>

\* cleanupCache.
CleanupCache ==
  LET old == {k \in DOMAIN seen : now - seen[k] > TimeWindow} IN
  /\ old # {}
  /\ seen' = [i \in DOMAIN seen \ old |-> seen[i]]

-----------------------------------------------------------------------------
(* Stage 5: the filter chain, in order of phase and priority.              *)

\* JWTAuthFilter reads the token from the metadata, which are empty.
JwtRefuses(w) == On("jwt") /\ sess[w] = "authed" /\ msg[w].cmd \notin JwtSkip

\* CanaryFilter sends the connections it picks to the target route.
Redirected(w) == IF w \in canary THEN Target ELSE msg[w].cmd

\* MirrorFilter queues a copy, or drops it when the queue is full.
Copied == IF On("mirror") /\ mirrored < MirrorQueue THEN {mirrored, mirrored + 1}
          ELSE {mirrored}

RunFilters(w) ==
  /\ stage[w] = "filters"
  /\ \/ /\ JwtRefuses(w)
        /\ Refuse(w, "filter") /\ UNCHANGED <<msg, mirrored>>
     \/ /\ ~JwtRefuses(w) /\ On("wasm")
        /\ Refuse(w, "filter") /\ UNCHANGED <<msg, mirrored>>
     \/ /\ ~JwtRefuses(w)
        /\ passed' = [passed EXCEPT ![w] = @ \cup ({"jwt", "canary", "wasm", "mirror"} \cap scene.on)]
        /\ Goto(w, From("degrade"))
        /\ \E r \in {Redirected(w)} \cup IF On("wasm") THEN Routes ELSE {} :
             msg' = [msg EXCEPT ![w].route = r]
        /\ mirrored' \in Copied
  /\ Still
  /\ UNCHANGED <<scene, left, sess, logic, overload, white, black, reload, canary, replays,
                 seen, window, times>>

StartDegrade(w) ==
  /\ stage[w] = "degrade"
  /\ deg[w].at = "rest"
  /\ DegradeLoad(w, msg[w].route)
  /\ IF deg'[w].at = "rest" THEN Pass(w, "degradation", "send")
     ELSE Goto(w, "cool") /\ UNCHANGED passed
  /\ UNCHANGED <<now, limiterVars, breakerVars>>
  /\ Env /\ UNCHANGED msg

FinishDegrade(w) ==
  /\ stage[w] = "cool"
  /\ DegradeCool(w) \/ DegradeRecover(w)
  /\ IF deg'[w].at = "rest" THEN Pass(w, "degradation", "send")
     ELSE Goto(w, "cool") /\ UNCHANGED passed
  /\ UNCHANGED <<now, limiterVars, breakerVars>>
  /\ Env /\ UNCHANGED msg

-----------------------------------------------------------------------------
(* Stages 6 and 7: SendMessage, the counters, the breaker, the degradation. *)

\* Without client, or with one that has no stream, the send fails; a client
\* with streams may still refuse, its queue being full or closed.
SendOutcomes(w) ==
  IF msg[w].client /\ logic = "up" THEN {"forwarded", "failed"} ELSE {"failed"}

\* Where the result is recorded: breaker, degradation rule, or nowhere.
Recording(failed, afterBreaker) ==
  IF On("breaker") /\ ~afterBreaker
  THEN IF failed THEN "failed breaker" ELSE "forwarded breaker"
  ELSE IF On("degradation") THEN IF failed THEN "failed rule" ELSE "forwarded rule"
  ELSE "idle"

Send(w) ==
  /\ stage[w] = "send"
  /\ \E o \in SendOutcomes(w) :
       /\ counter' = [counter EXCEPT ![o] = @ + 1]
       /\ stage' = [stage EXCEPT ![w] = Recording(o = "failed", FALSE)]
       /\ IF On("breaker")
          THEN Enter(w, msg[w].cmd, IF o = "failed" THEN "failure" ELSE "success")
          ELSE UNCHANGED breakerVars
  /\ UNCHANGED <<now, limiterVars, degradationVars>>
  /\ Env /\ UNCHANGED <<msg, passed>>

\* The result goes to the breaker of the route the client asked for ...
RecordBreaker(w) ==
  /\ \/ stage[w] = "failed breaker" /\ FailureStep(w)
     \/ stage[w] = "forwarded breaker" /\ SuccessStep(w)
  /\ Goto(w, IF brk'[w].at # "rest" THEN stage[w]
             ELSE Recording(stage[w] = "failed breaker", TRUE))
  /\ UNCHANGED <<now, limiterVars, degradationVars>>
  /\ Env /\ UNCHANGED <<msg, passed>>

\* ... and to its degradation rule; then Process returns.
RecordDegradation(w) ==
  /\ stage[w] \in {"failed rule", "forwarded rule"}
  /\ RecordResult(w, msg[w].cmd, stage[w] = "failed rule")
  /\ Goto(w, IF deg'[w].at = "rest" THEN "idle" ELSE "degrading")
  /\ UNCHANGED <<now, limiterVars, breakerVars>>
  /\ Env /\ UNCHANGED <<msg, passed>>

FinishRecord(w) ==
  /\ stage[w] = "degrading"
  /\ StampDegrade(w) /\ Goto(w, "idle")
  /\ UNCHANGED <<now, limiterVars, breakerVars>>
  /\ Env /\ UNCHANGED <<msg, passed>>

-----------------------------------------------------------------------------
(* handleConfigUpdate, in the order it applies a new configuration.        *)

Reloading(from, to) == reload = from /\ reload' = to

ReloadUnchanged == UNCHANGED <<scene, stage, msg, left, sess, logic, overload, window, seen,
                               mirrored, counter, passed, times, replays>>

ReloadLimiter(s) ==
  /\ scene.reload
  /\ IF On("limit") THEN UpdateRate(s) /\ Reloading("rest", "tuning")
     ELSE Reloading("rest", "white") /\ UNCHANGED limiterVars
  /\ UNCHANGED <<now, breakerVars, degradationVars, white, black, canary>> /\ ReloadUnchanged

Retune ==
  /\ reload = "tuning"
  /\ TuneStep
  /\ reload' = IF tune'.call = "rest" THEN "white" ELSE "tuning"
  /\ UNCHANGED <<now, breakerVars, degradationVars, white, black, canary>> /\ ReloadUnchanged

\* ReplaceWhitelist, then ReplaceBlacklist.
ReloadWhite(l) ==
  /\ Reloading("white", "black") /\ white' = IF On("lists") THEN l ELSE white
  /\ Still /\ UNCHANGED <<black, canary>> /\ ReloadUnchanged

ReloadBlack(l) ==
  /\ Reloading("black", "traffic") /\ black' = IF On("lists") THEN l ELSE black
  /\ Still /\ UNCHANGED <<white, canary>> /\ ReloadUnchanged

\* CanaryFilter.UpdateConfig: other connections are picked from now on.
UpdateConfig == canary' \in IF On("canary") THEN SUBSET Workers ELSE {canary}

\* The canary's settings and the degradation rules.
ReloadTraffic ==
  /\ Reloading("traffic", "done")
  /\ UpdateConfig
  /\ IF On("degradation") THEN \E r \in RuleRoutes : AddRule(r)
     ELSE UNCHANGED degradationVars
  /\ UNCHANGED <<now, limiterVars, breakerVars, white, black>> /\ ReloadUnchanged

-----------------------------------------------------------------------------
(* The rest of the gateway.                                                *)

\* OverloadProtector.check, with dropOnOverload and not in bench mode.
CheckLoad ==
  /\ On("overload") /\ overload' = ~overload
  /\ Still
  /\ UNCHANGED <<scene, stage, msg, left, sess, logic, white, black, reload, canary, window,
                 seen, mirrored, counter, passed, times, replays>>

\* Logins bind the server, then the user; connections close; the logic
\* server's streams come and go.
Drift ==
  /\ scene.drift
  /\ \/ \E w \in Workers : \E s \in {"bound", "authed", "gone"} :
          /\ <<sess[w], s>> \in {<<"none", "bound">>, <<"bound", "authed">>, <<"authed", "gone">>}
          /\ sess' = [sess EXCEPT ![w] = s] /\ UNCHANGED logic
     \/ logic' \in {"absent", "down", "up"} \ {logic} /\ UNCHANGED sess
  /\ Still
  /\ UNCHANGED <<scene, stage, msg, left, overload, white, black, reload, canary, window,
                 seen, mirrored, counter, passed, times, replays>>

\* TrafficMirror.worker takes a copy from the queue.
MirrorWorker == mirrored > 0 /\ mirrored' = mirrored - 1

\* The mirror's worker, the replay cache's cleaner, the limiter's cleaner.
Background ==
  \/ /\ MirrorWorker
     /\ Still /\ UNCHANGED seen
  \/ /\ CleanupCache
     /\ Still /\ UNCHANGED mirrored
  \/ /\ \E k \in Keys : Cleanup(k)
     /\ UNCHANGED <<now, breakerVars, degradationVars, seen, mirrored>>

Maintain == Background /\ UNCHANGED <<scene, stage, msg, left, sess, logic, overload, white, black,
                              reload, canary, window, counter, passed, times, replays>>

Time == /\ now < scene.time /\ Tick
        /\ UNCHANGED <<limiterVars, breakerVars, degradationVars, gateVars>>

ProcessStep(w) ==
  \/ Receive(w) \/ CheckOverload(w) \/ CheckSession(w) \/ FindClient(w)
  \/ CheckBlacklist(w) \/ CheckWhitelistEmpty(w) \/ CheckWhitelisted(w)
  \/ StartLimit(w) \/ LimitStep(w) \/ CheckWaf(w)
  \/ StartBreaker(w) \/ BreakerAdmission(w) \/ CheckIntegrity(w)
  \/ RunFilters(w) \/ StartDegrade(w) \/ FinishDegrade(w)
  \/ Send(w) \/ RecordBreaker(w)
  \/ RecordDegradation(w) \/ FinishRecord(w)

Reload == \/ \E s \in Settings : ReloadLimiter(s)
          \/ Retune
          \/ \E l \in SUBSET Addresses : ReloadWhite(l) \/ ReloadBlack(l)
          \/ ReloadTraffic

Next == \/ \E w \in Workers : ProcessStep(w)
        \/ Reload \/ CheckLoad \/ Drift \/ Maintain \/ Time

Spec == Init /\ [][Next]_vars

-----------------------------------------------------------------------------
TypeOK ==
  /\ LimiterTypeOK /\ BreakerTypeOK /\ DegradationTypeOK
  /\ scene \in Scenes
  /\ left \in 0..scene.msgs
  /\ sess \in [Workers -> {"none", "bound", "authed", "gone"}]
  /\ mirrored \in 0..MirrorQueue
  /\ DOMAIN seen \subseteq DOMAIN replays

\* A message that reaches SendMessage has passed every check its deployment
\* has: the fast path never skips a configured component or filter, and no
\* race in a check lets a message through unchecked (pipeline.go:183).
NoStageSkipped ==
  \A w \in Workers : stage[w] = "send" =>
    scene.on \cap ({"lists", "limit", "waf", "breaker", "integrity"} \cup Filters)
      \subseteq passed[w]

\* Every message received ends in exactly one of the outcome counters that
\* the statistics report, once Process has decided about it.
AccountingExact ==
  LET decided   == {"idle", "failed breaker", "forwarded breaker", "failed rule",
                    "forwarded rule", "degrading"}
      undecided == {w \in Workers : stage[w] \notin decided}
      dropped   == counter.overload + counter.auth + counter.rateLimit + counter.noLogic
                   + counter.blacklist + counter.waf + counter.circuit + counter.integrity
                   + counter.filter
  IN  dropped + counter.failed + counter.forwarded + Cardinality(undecided) = scene.msgs - left

\* The replay check lets a (connection, command, sequence number) through at
\* most once per time window, although its cache is cleaned meanwhile.
ReplayOnce ==
  [][\A k \in DOMAIN replays :
       replays'[k] # replays[k] => now - replays[k] > TimeWindow]_vars

\* The connection's rate check admits at most twice its limit in any stretch
\* of one window's length: the fixed window may be straddled, never more.
MsgRateBound ==
  \A w \in Workers : \A t \in 0..now :
    Cardinality({i \in DOMAIN times[w] : times[w][i] \in t..(t + RateWindow - 1)})
      <= 2 * MaxPerConn
=============================================================================
