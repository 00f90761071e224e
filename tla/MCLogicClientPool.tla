--------------------------- MODULE MCLogicClientPool ---------------------------
EXTENDS LogicClientPool

CONSTANTS a, b

Scene(x, y, close, forward) ==
  [dials |-> [v \in {a, b} |-> IF v = a THEN x ELSE y], close |-> close, forward |-> forward]

MCScenes ==
  {Scene(<<1, 2>>, <<>>, FALSE, FALSE),
   Scene(<<2, 1>>, <<>>, FALSE, FALSE),
   Scene(<<2, 2>>, <<>>, FALSE, FALSE),
   Scene(<<1, 2>>, <<>>, FALSE, TRUE),
   Scene(<<1, 1>>, <<>>, TRUE, TRUE),
   Scene(<<1>>, <<1>>, TRUE, FALSE)}
=============================================================================
