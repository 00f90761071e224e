------------------------ MODULE MCStreamMessageQueue ------------------------
(* Instances of StreamMessageQueue: three producers on a queue of two, and  *)
(* the default backpressure threshold on a queue of five.                  *)
EXTENDS StreamMessageQueue

CONSTANTS p1, p2, p3

TwoProducers == {p1, p2}
ThreeProducers == {p1, p2, p3}
=============================================================================
