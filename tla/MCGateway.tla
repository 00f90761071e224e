----------------------------- MODULE MCGateway -----------------------------
(* Instances of Gateway for TLC: start-up, admission, closing and reloads. *)
EXTENDS Gateway

CONSTANTS c1, c2, c3, c4

File(on, ok, frame, buf, timeout) ==
  [on |-> on, ok |-> ok, frame |-> frame, buf |-> buf, timeout |-> timeout]
Good(on) == File(on, TRUE, 0, 0, 0)
Fixed(on) == [files |-> <<Good(on)>>, patches |-> <<>>]

Whole == {"security", "observability", "traffic", "cluster", "gateway"}

\* A deployment that starts: with these components, features and filters.
Starts(added, on, filters, engs) ==
  [serving |-> FALSE, added |-> added, filters |-> filters, reload |-> Fixed(on), engines |-> engs,
   conns |-> {}, sweepers |-> {"idle"}, signal |-> TRUE, selfstop |-> FALSE]

\* A deployment that serves.
Serves(conns, engs, sweepers, signal, selfstop) ==
  [serving |-> TRUE, added |-> Whole, filters |-> 0, reload |-> Fixed({"waf"}), engines |-> engs,
   conns |-> conns, sweepers |-> sweepers, signal |-> signal, selfstop |-> selfstop]

\* A deployment that reloads.
Reloader(files, patches, signal) ==
  [Serves({}, 1..1, {}, signal, FALSE) EXCEPT !.reload = [files |-> files, patches |-> patches]]

A == {"waf"}
B == {"waf", "rate"}

MCScenes ==
  {Starts(Whole, {"waf", "jwt"}, 1, 1..2),
   Starts(Whole \ {"security"}, {"waf"}, 0, 1..1),
   Starts(Whole \ {"security"}, {}, 2, 1..1),
   Serves({c1, c2, c3, c4}, 1..1, {}, FALSE, FALSE),
   Serves({c1, c2, c3}, 1..1, {"idle"}, FALSE, FALSE),
   Serves({c1}, 1..2, {"idle", "heartbeat"}, TRUE, FALSE),
   Serves({c1}, 1..2, {"heartbeat"}, TRUE, TRUE),
   Serves({c1, c2}, 1..1, {"idle"}, TRUE, FALSE),
   Reloader(<<Good(A), File(A, TRUE, 0, 2, 5), Good(A)>>, <<[frame |-> 3], [timeout |-> 0, ok |-> FALSE]>>, FALSE),
   Reloader(<<Good(A), File(A, TRUE, 3, 4, 5), File(A, TRUE, 1, 2, 0)>>, <<[timeout |-> 0], [frame |-> 2]>>, FALSE),
   Reloader(<<Good(A), Good(B), Good(A)>>, <<[on |-> B]>>, FALSE),
   Reloader(<<Good(A), Good(A), Good(A)>>, <<[buf |-> 4]>>, TRUE)}

MCReloads == {s.reload : s \in MCScenes}
=============================================================================
