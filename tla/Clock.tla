------------------------------- MODULE Clock -------------------------------
(***************************************************************************)
(* What the traffic-protection components share: the goroutines that call  *)
(* them and the time they all read.                                        *)
(***************************************************************************)
EXTENDS Integers

CONSTANTS Workers,   \* the goroutines that run MessagePipeline.Process
          MaxTime    \* bounds the clock

VARIABLE now         \* the clock

\* time.Now, as the components read it.
Tick == now < MaxTime /\ now' = now + 1
=============================================================================
