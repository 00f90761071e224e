---------------------------- MODULE ConfigReload ----------------------------
(***************************************************************************)
(* Hot reload (gateway/gateway.go, gateway/monitor.go, cluster/config.go): *)
(* a watcher that polls the file's modification time, a watcher of the     *)
(* configuration centre that patches the configuration in force, the       *)
(* one-place channel both feed, and the goroutine that validates a         *)
(* configuration and stores it part by part.                               *)
(*                                                                         *)
(* A configuration is which version of the file it came from, which patch  *)
(* of the centre it carries, the set of its security features that are on, *)
(* the limits and the timeout that defaults and checks are about (maximal  *)
(* frame, frame buffer, heartbeat timeout; 0 if not set) and whether the   *)
(* rest of it is acceptable.                                               *)
(***************************************************************************)
EXTENDS Integers, Sequences

CONSTANTS Reloads,   \* deployments [files, patches]: the versions of the file and the
                     \* patches of the centre (the fields they set), as they are written
          DefaultFrame, DefaultTimeout,  \* DefaultMaxFrameSize, DefaultWSHeartbeatTimeoutSec
          Prefix,    \* length of a frame's prefix
          WatchCap,  \* capacity of the centre's watch channel
          Nothing    \* no configuration

VARIABLES reload,    \* the deployment
          stopChan,  \* closed
          file,      \* version of the file on disk
          seen,      \* the watcher's lastModTime
          conf,      \* config.Get()
          watcher,   \* the file watcher and the configuration it hands over
          centre,    \* patches written to the centre
          watchCh,   \* the centre's watch channel
          bridge,    \* the centre's watcher and the configuration it hands over
          updates,   \* configUpdateChan
          updater,   \* handleConfigUpdate and its configuration
          cfg,       \* g.cfg
          parts,     \* what the other holders of settings have
          applied,   \* file versions that have been in force (history)
          squeezed   \* the watcher found the channel full after it had made room (history)

configVars == <<reload, file, seen, conf, watcher, centre, watchCh, bridge, updates, updater,
                cfg, parts, applied, squeezed>>

Free == [at |-> "idle", cfg |-> Nothing]

\* uconfig.Load of version n of the file.
Parsed(n) ==
  LET f == reload.files[n]
  IN  [file |-> n, patch |-> 0, on |-> f.on, ok |-> f.ok, frame |-> f.frame, buf |-> f.buf,
       timeout |-> f.timeout]

\* yaml.Unmarshal of patch n over a copy of configuration c.
Patched(c, n) ==
  LET p == reload.patches[n]
      Field(f) == IF f \in DOMAIN p THEN p[f] ELSE c[f]
  IN  [file |-> c.file, patch |-> n, on |-> Field("on"), ok |-> Field("ok"),
       frame |-> Field("frame"), buf |-> Field("buf"), timeout |-> Field("timeout")]

\* Defaults for what is not set.
ApplyRuntimeDefaults(c) ==
  [c EXCEPT !.frame = IF @ = 0 THEN DefaultFrame ELSE @,
            !.buf = IF @ = 0 THEN DefaultFrame + Prefix ELSE @,
            !.timeout = IF @ = 0 THEN DefaultTimeout ELSE @]

\* What is required is there, and the buffer holds the largest frame.
Validate(c) == c.ok /\ c.buf >= c.frame + Prefix

\* The process only starts with a file that Load accepts.
ASSUME ReloadAssumption ==
  /\ DefaultFrame \in Nat \ {0} /\ DefaultTimeout \in Nat \ {0} /\ Prefix \in Nat
  /\ \A r \in Reloads :
       /\ r.files \in Seq([on: SUBSET STRING, ok: BOOLEAN, frame: Nat, buf: Nat, timeout: Nat])
       /\ r.files # <<>> /\ Validate(ApplyRuntimeDefaults(r.files[1]))
       /\ Len(r.patches) \in Nat /\ DOMAIN r.patches = 1..Len(r.patches)
       /\ \A n \in DOMAIN r.patches : \A f \in DOMAIN r.patches[n] :
            \/ f = "on" /\ r.patches[n][f] \in SUBSET STRING
            \/ f = "ok" /\ r.patches[n][f] \in BOOLEAN
            \/ f \in {"frame", "buf", "timeout"} /\ r.patches[n][f] \in Nat

\* The holders of settings in the order handleConfigUpdate stores them.
Parts == <<"breaker", "rateLimiter", "lists", "protection", "limits", "traffic">>

ConfigInit ==
  /\ reload \in Reloads
  /\ file = 1 /\ seen = 1 /\ conf = ApplyRuntimeDefaults(Parsed(1))
  /\ watcher = Free /\ bridge = Free /\ updater = Free
  /\ centre = 0 /\ watchCh = <<>> /\ updates = <<>>
  /\ cfg = conf /\ parts = [i \in DOMAIN Parts |-> conf]
  /\ applied = {1} /\ squeezed = FALSE

-----------------------------------------------------------------------------
(* The file.                                                               *)

WriteFile ==
  /\ file < Len(reload.files)
  /\ file' = file + 1
  /\ UNCHANGED <<reload, stopChan, seen, conf, watcher, centre, watchCh, bridge, updates, updater,
                 cfg, parts, applied, squeezed>>

\* A tick: Stat, and a new modification time is remembered before the file is read.
Stat ==
  /\ watcher.at = "idle" /\ ~stopChan /\ seen # file
  /\ seen' = file
  /\ watcher' = [watcher EXCEPT !.at = "load"]
  /\ UNCHANGED <<reload, stopChan, file, conf, centre, watchCh, bridge, updates, updater, cfg, parts,
                 applied, squeezed>>

\* config.Load: what is on disk now; a valid one becomes the global configuration.
Load ==
  /\ watcher.at = "load"
  /\ LET c == ApplyRuntimeDefaults(Parsed(file)) IN
     IF Validate(c) THEN conf' = c /\ watcher' = [at |-> "offer", cfg |-> c]
             ELSE watcher' = Free /\ UNCHANGED conf
  /\ UNCHANGED <<reload, stopChan, file, seen, centre, watchCh, bridge, updates, updater, cfg, parts,
                 applied, squeezed>>

\* Mutant: a full channel keeps what it has.
OfferKeeping ==
  /\ watcher.at = "offer"
  /\ updates' = IF updates = <<>> THEN <<watcher.cfg>> ELSE updates
  /\ watcher' = Free
  /\ UNCHANGED <<reload, stopChan, file, seen, conf, centre, watchCh, bridge, updater, cfg, parts,
                 applied, squeezed>>

\* tryEnqueueConfig: offer it, ...
Offer ==
  /\ watcher.at = "offer"
  /\ IF updates = <<>> THEN updates' = <<watcher.cfg>> /\ watcher' = Free
     ELSE watcher' = [watcher EXCEPT !.at = "drop"] /\ UNCHANGED updates
  /\ UNCHANGED <<reload, stopChan, file, seen, conf, centre, watchCh, bridge, updater, cfg, parts,
                 applied, squeezed>>

\* ... drop the one that waits, ...
DropOldest ==
  /\ watcher.at = "drop"
  /\ updates' = <<>>
  /\ watcher' = [watcher EXCEPT !.at = "again"]
  /\ UNCHANGED <<reload, stopChan, file, seen, conf, centre, watchCh, bridge, updater, cfg, parts,
                 applied, squeezed>>

\* ... and offer it again, once.
OfferAgain ==
  /\ watcher.at = "again"
  /\ updates' = IF updates = <<>> THEN <<watcher.cfg>> ELSE updates
  /\ squeezed' = (squeezed \/ updates # <<>>)
  /\ watcher' = Free
  /\ UNCHANGED <<reload, stopChan, file, seen, conf, centre, watchCh, bridge, updater, cfg, parts,
                 applied>>

-----------------------------------------------------------------------------
(* The configuration centre.                                               *)

\* OnConfigChange: a full watch channel drops the change.
WritePatch ==
  /\ centre < Len(reload.patches)
  /\ centre' = centre + 1
  /\ watchCh' = IF stopChan \/ Len(watchCh) = WatchCap THEN watchCh ELSE Append(watchCh, centre + 1)
  /\ UNCHANGED <<reload, stopChan, file, seen, conf, watcher, bridge, updates, updater, cfg, parts,
                 applied, squeezed>>

\* The patch is laid over the configuration in force at this moment.
TakePatch ==
  /\ bridge.at = "idle" /\ watchCh # <<>>
  /\ bridge' = [at |-> "send", cfg |-> Patched(cfg, Head(watchCh))]
  /\ watchCh' = Tail(watchCh)
  /\ UNCHANGED <<reload, stopChan, file, seen, conf, watcher, centre, updates, updater, cfg, parts,
                 applied, squeezed>>

\* A blocking send, or the end.
SendPatch ==
  /\ bridge.at = "send"
  /\ \/ updates = <<>> /\ updates' = <<bridge.cfg>>
     \/ stopChan /\ UNCHANGED updates
  /\ bridge' = Free
  /\ UNCHANGED <<reload, stopChan, file, seen, conf, watcher, centre, watchCh, updater, cfg, parts,
                 applied, squeezed>>

-----------------------------------------------------------------------------
(* handleConfigUpdate.                                                     *)

TakeUpdate ==
  /\ updater.at = "idle" /\ updates # <<>>
  /\ updater' = [at |-> "check", cfg |-> Head(updates)]
  /\ updates' = <<>>
  /\ UNCHANGED <<reload, stopChan, file, seen, conf, watcher, centre, watchCh, bridge, cfg, parts,
                 applied, squeezed>>

\* Mutant: the switches are compared with the global configuration.
AcceptableGlobally(c) == Validate(c) /\ c.on = conf.on

\* Validate, and the security switches are those in force.
Acceptable(c) == Validate(c) /\ c.on = cfg.on

\* With its defaults and if it is acceptable it first replaces g.cfg ...
StoreConfig ==
  /\ updater.at = "check"
  /\ LET c == ApplyRuntimeDefaults(updater.cfg) IN
     IF Acceptable(c)
     THEN cfg' = c /\ applied' = applied \cup {c.file} /\ updater' = [updater EXCEPT !.at = "parts"]
     ELSE updater' = Free /\ UNCHANGED <<cfg, applied>>
  /\ UNCHANGED <<reload, stopChan, file, seen, conf, watcher, centre, watchCh, bridge, updates, parts,
                 squeezed>>

\* ... then the holders of its parts, one after the other.
StorePart(i) ==
  /\ updater.at = "parts" /\ parts[i] # cfg /\ \A j \in 1..(i - 1) : parts[j] = cfg
  /\ parts' = [parts EXCEPT ![i] = cfg]
  /\ UNCHANGED <<reload, stopChan, file, seen, conf, watcher, centre, watchCh, bridge, updates, updater,
                 cfg, applied, squeezed>>

UpdateDone ==
  /\ updater.at = "parts" /\ \A i \in DOMAIN Parts : parts[i] = cfg
  /\ updater' = Free
  /\ UNCHANGED <<reload, stopChan, file, seen, conf, watcher, centre, watchCh, bridge, updates, cfg,
                 parts, applied, squeezed>>

WatcherStep == Stat \/ Load \/ Offer \/ DropOldest \/ OfferAgain
BridgeStep == TakePatch \/ SendPatch
UpdaterStep == TakeUpdate \/ StoreConfig \/ (\E i \in DOMAIN Parts : StorePart(i)) \/ UpdateDone

ConfigNext == WriteFile \/ WritePatch \/ WatcherStep \/ BridgeStep \/ UpdaterStep

-----------------------------------------------------------------------------
\* Whatever is written to the file and to the centre, each frame that is
\* allowed fits the buffer and no timeout is zero, which would drop every
\* connection (gateway.go:582, config.go:390).
ValidInForce ==
  /\ cfg.ok /\ cfg.frame > 0 /\ cfg.buf >= cfg.frame + Prefix
  /\ cfg.timeout > 0

\* When no update is under way every part comes from the configuration in
\* force, also if updates followed on each other.
AppliedWhole == updater.at # "parts" => \A i \in DOMAIN Parts : parts[i] = cfg

\* The last version of the file comes into force if it is acceptable
\* (gateway.go:481: "the newest is always kept"), unless the centre's watcher
\* took the place the file's had just freed, or the gateway stops.
FileComesIntoForce ==
  LET last == Len(reload.files)
  IN  (file = last /\ Acceptable(ApplyRuntimeDefaults(Parsed(last)))) ~> (last \in applied \/ squeezed \/ stopChan)
=============================================================================
