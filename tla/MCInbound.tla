----------------------------- MODULE MCInbound -----------------------------
EXTENDS Inbound

CONSTANTS c1, c2

TCP(n, cmd) ==
  [kind |-> "tcp", len |-> n, op |-> "none", fin |-> TRUE, masked |-> FALSE, cmd |-> cmd]
WS(op, fin, n, cmd) ==
  [kind |-> "ws", len |-> n, op |-> op, fin |-> fin, masked |-> TRUE, cmd |-> cmd]
Text(n) == WS("text", TRUE, n, "app")
Bare(f) == [f EXCEPT !.masked = FALSE]
Opening(kind, n, cmd) ==
  [kind |-> kind, len |-> n, op |-> "none", fin |-> TRUE, masked |-> FALSE, cmd |-> cmd]
Upgrade == Opening("request", 3, "upgrade")

Both(s, t) == [c \in Conns |-> Script(IF c = c1 THEN s ELSE t)]
One(s) == Both(s, <<>>)
Deploy(ws, proxy, async, evs, script) ==
  [ws |-> ws, proxy |-> proxy, async |-> async, bound |-> "close" \in evs,
   shard |-> [c \in Conns |-> 1], events |-> evs, script |-> script]

MCScenes ==
  {Deploy(FALSE, FALSE, TRUE, {}, One(<<TCP(1, "app"), TCP(2, "app"), TCP(1, "app")>>)),
   Deploy(FALSE, FALSE, TRUE, {"stop"}, Both(<<TCP(1, "app"), TCP(2, "app")>>, <<TCP(1, "app"), TCP(1, "app")>>)),
   Deploy(FALSE, FALSE, FALSE, {}, One(<<TCP(1, "login"), TCP(2, "app"), TCP(0, "app")>>)),
   Deploy(FALSE, FALSE, FALSE, {}, One(<<TCP(70000, "app"), TCP(70000, "app"), TCP(70001, "app")>>)),
   Deploy(FALSE, TRUE, TRUE, {}, One(<<Opening("proxy", 6, "none"), TCP(2, "app"), TCP(1, "logout")>>)),
   Deploy(FALSE, FALSE, TRUE, {}, One(<<TCP(2, "app"), TCP(1, "bad"), TCP(1, "app")>>)),
   Deploy(TRUE, FALSE, TRUE, {}, One(<<Upgrade, Text(125), Text(126), Text(65535), Text(65536)>>)),
   Deploy(TRUE, FALSE, TRUE, {}, One(<<Upgrade, WS("text", FALSE, 1, "app"), WS("ping", TRUE, 0, "none"),
      WS("continuation", FALSE, 2, "app"), WS("continuation", TRUE, 1, "app"), Text(1)>>)),
   Deploy(TRUE, FALSE, TRUE, {"close", "timeout"}, One(<<Upgrade, Text(1), WS("close", TRUE, 0, "none"), Text(2)>>)),
   Deploy(TRUE, FALSE, FALSE, {}, One(<<Upgrade, WS("text", TRUE, 1, "bad"), WS("pong", TRUE, 0, "none"),
      Text(1), WS("text", TRUE, 1, "logout"), WS("text", TRUE, 1, "bad")>>)),
   Deploy(TRUE, FALSE, TRUE, {}, One(<<Upgrade, WS("text", FALSE, 40000, "app"),
      WS("continuation", TRUE, 40000, "app")>>)),
   Deploy(TRUE, FALSE, TRUE, {}, One(<<Upgrade, WS("continuation", TRUE, 1, "app")>>)),
   Deploy(TRUE, FALSE, TRUE, {}, One(<<Upgrade, Bare(Text(1))>>)),
   Deploy(TRUE, FALSE, TRUE, {}, One(<<Upgrade, Text(70001)>>)),
   Deploy(TRUE, FALSE, TRUE, {}, One(<<Opening("request", 3, "other")>>))}
=============================================================================
