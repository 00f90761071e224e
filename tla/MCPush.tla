------------------------------- MODULE MCPush -------------------------------
EXTENDS Push

CONSTANTS c1, c2, s1, s2, g1

Scene(coalesce, batched, ws, conns, group, senders, msgs, evs) ==
  [coalesce |-> coalesce, batch |-> batched, ws |-> ws, conns |-> conns, members |-> group,
   senders |-> senders, msgs |-> msgs, events |-> evs]

MCScenes ==
  {Scene(TRUE, FALSE, FALSE, {c1}, {}, {s1, s2}, 3, 1),
   Scene(TRUE, FALSE, FALSE, {c1}, {}, {s1}, 3, 1),
   Scene(TRUE, FALSE, FALSE, {c1, c2}, {}, {s1}, 2, 1),
   Scene(TRUE, TRUE, TRUE, {c1}, {}, {s1}, 4, 0),
   Scene(TRUE, TRUE, TRUE, {c1, c2}, {}, {s1}, 3, 0),
   Scene(TRUE, TRUE, FALSE, {c1}, {}, {s1}, 3, 2),
   Scene(TRUE, FALSE, FALSE, {c1}, {}, {s1, g1}, 2, 1),
   Scene(FALSE, TRUE, FALSE, {c1, c2}, {}, {s1}, 3, 1),
   Scene(FALSE, FALSE, FALSE, {c1, c2}, {c1}, {g1}, 2, 2)}
=============================================================================
