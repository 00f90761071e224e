------------------------------ MODULE MCDialer ------------------------------
(* Two shards with two stream slots each, a session on each shard.         *)
EXTENDS Dialer, TLC

CONSTANTS x1, x2, u1, u2

Scene(kinds, sessions, users, serial, msgs, calls, breaks, events, end) ==
  [kinds |-> kinds, sessions |-> sessions, users |-> users, serial |-> serial, msgs |-> msgs,
   calls |-> calls, breaks |-> breaks, events |-> events, stop |-> end]

MCStreams == 1..4
MCShard == [t \in MCStreams |-> (t + 1) \div 2]
MCSessions == {x1, x2}
MCHome == (x1 :> 1) @@ (x2 :> 2)
MCLinks == 1..3

MCScenes ==
  {Scene({"ask"}, {x1}, {u1}, FALSE, 0, 0, 2, 5, TRUE),
   Scene({"ask", "join", "offline"}, {x1, x2}, {u1}, TRUE, 3, 0, 1, 1, TRUE),
   Scene({"ask", "offline"}, {x1, x2}, {u1, u2, None}, TRUE, 4, 0, 0, 1, FALSE),
   Scene({"join", "leave", "offline"}, {x1}, {u1, None}, FALSE, 3, 1, 1, 1, FALSE),
   Scene({"join"}, {x1, x2}, {None}, FALSE, 2, 1, 2, 1, FALSE),
   Scene({"ask", "offline"}, {x1, x2}, {u1}, FALSE, 3, 0, 0, 1, FALSE),
   Scene({"ask"}, {x1}, {None}, FALSE, 4, 0, 1, 1, TRUE)}
=============================================================================
