---------------------------- MODULE MCProtection ----------------------------
(***************************************************************************)
(* Two connections behind one address, and the deployments whose           *)
(* components can interfere.  The clock runs only where one reads it.      *)
(***************************************************************************)
EXTENDS Protection, TLC

CONSTANTS w1, w2, ip, other, play, login

MCWorkers == {w1, w2}
MCIp == [w \in MCWorkers |-> ip]
MCSettings == {[rate |-> 1, refresh |-> 2, route |-> 0, global |-> 0],
               [rate |-> 2, refresh |-> 2, route |-> 1, global |-> 3]}
MCSymmetry == Permutations(MCWorkers)

Deploy(on, msgs, time) ==
  [on |-> on, msgs |-> msgs, time |-> time, cmds |-> {play}, sess |-> "authed",
   drift |-> FALSE, reload |-> FALSE]

Reloaded(d) == [d EXCEPT !.reload = TRUE]
TwoCommands(d) == [d EXCEPT !.cmds = {play, login}]

MCScenes ==
  {Deploy({"limit"}, 3, 3),
   Reloaded(Deploy({"limit"}, 2, 0)),
   Deploy({"breaker"}, 5, 2),
   Reloaded(Deploy({"degradation", "canary"}, 4, 2)),
   Reloaded(Deploy({"lists", "waf", "drop mode"}, 3, 0)),
   Deploy({"integrity"}, 4, 3),
   TwoCommands(Deploy({"jwt", "canary", "wasm", "mirror"}, 3, 0)),
   [TwoCommands(Deploy({"overload"}, 2, 1)) EXCEPT !.sess = "none", !.drift = TRUE],
   Deploy({"connRate"}, 4, 3),
   Deploy({"tracer"}, 1, 0),
   Deploy({"lists", "limit", "waf", "breaker", "integrity", "canary", "degradation"}, 2, 0)}
=============================================================================
