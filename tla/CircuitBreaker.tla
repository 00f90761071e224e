--------------------------- MODULE CircuitBreaker ---------------------------
(***************************************************************************)
(* security/circuit.go: one breaker per route, used by every worker with   *)
(* no lock.  Each step is one atomic operation on the breaker, so calls of *)
(* Allow, RecordSuccess and RecordFailure interleave as in the code.       *)
(***************************************************************************)
EXTENDS Clock

CONSTANTS Routes, FailureThreshold, SuccessThreshold, OpenTimeout

ASSUME BreakerAssumption ==
  /\ FailureThreshold \in Nat \ {0} /\ SuccessThreshold \in Nat \ {0}
  /\ OpenTimeout \in Nat

VARIABLES breaker,  \* route -> state, failureCount, successCount, lastFailureTime
          brk       \* where each worker is inside a call, and on which route

breakerVars == <<breaker, brk>>

\* NewCircuitBreaker, and an idle worker.
BreakerInit ==
  /\ breaker = [r \in Routes |->
       [state |-> "Closed", failures |-> 0, successes |-> 0, last |-> now]]
  /\ brk = [w \in Workers |-> [at |-> "rest", route |-> CHOOSE r \in Routes : TRUE,
                               ok |-> TRUE]]

Cb(w) == breaker[brk[w].route]

Enter(w, r, label) ==
  /\ brk[w].at = "rest"
  /\ brk' = [brk EXCEPT ![w] = [at |-> label, route |-> r, ok |-> TRUE]]
  /\ UNCHANGED breaker

\* One atomic step of a call: the breaker becomes `to`, the worker goes on at `label`.
Atomic(w, from, to, label) ==
  /\ brk[w].at = from
  /\ breaker' = [breaker EXCEPT ![brk[w].route] = to]
  /\ brk' = [brk EXCEPT ![w].at = label]

-----------------------------------------------------------------------------
(* Allow.                                                                  *)

AllowLoad(w) ==
  Atomic(w, "allow", Cb(w), IF Cb(w).state = "Open" THEN "expiry" ELSE "rest")

\* An open breaker refuses until its timeout has passed.
AllowExpiry(w) ==
  /\ brk[w].at = "expiry"
  /\ brk' = [brk EXCEPT ![w] =
       IF now - Cb(w).last > OpenTimeout THEN [@ EXCEPT !.at = "probe"]
       ELSE [@ EXCEPT !.at = "rest", !.ok = FALSE]]
  /\ UNCHANGED breaker

\* The swap to half-open; a worker that loses it calls Allow again.
AllowProbe(w) ==
  IF Cb(w).state = "Open"
  THEN Atomic(w, "probe", [Cb(w) EXCEPT !.state = "HalfOpen"], "forget")
  ELSE Atomic(w, "probe", Cb(w), "allow")

AllowForget(w) == Atomic(w, "forget", [Cb(w) EXCEPT !.successes = 0], "rest")

AllowStep(w) == AllowLoad(w) \/ AllowExpiry(w) \/ AllowProbe(w) \/ AllowForget(w)

-----------------------------------------------------------------------------
(* RecordSuccess.                                                          *)

SuccessLoad(w) ==
  Atomic(w, "success", Cb(w), CASE Cb(w).state = "Closed" -> "clear"
                                [] Cb(w).state = "HalfOpen" -> "count"
                                [] OTHER -> "rest")

SuccessClear(w) == Atomic(w, "clear", [Cb(w) EXCEPT !.failures = 0], "rest")

SuccessCount(w) ==
  Atomic(w, "count", [Cb(w) EXCEPT !.successes = @ + 1],
         IF Cb(w).successes + 1 >= SuccessThreshold THEN "close" ELSE "rest")

\* Mutant: closing forgets to clear the failures that opened the breaker.
SuccessCloseOnly(w) ==
  Atomic(w, "close", [Cb(w) EXCEPT !.state = "Closed", !.successes = 0], "rest")

\* The state is stored first, whatever it has become, then the counters.
SuccessClose(w) ==
  \/ Atomic(w, "close", [Cb(w) EXCEPT !.state = "Closed"], "zero failures")
  \/ Atomic(w, "zero failures", [Cb(w) EXCEPT !.failures = 0], "zero successes")
  \/ Atomic(w, "zero successes", [Cb(w) EXCEPT !.successes = 0], "rest")

SuccessStep(w) == \/ SuccessLoad(w) \/ SuccessClear(w)
                  \/ SuccessCount(w) \/ SuccessClose(w)

-----------------------------------------------------------------------------
(* RecordFailure.                                                          *)

FailureLoad(w) ==
  Atomic(w, "failure", Cb(w), CASE Cb(w).state = "Closed" -> "add"
                                [] Cb(w).state = "HalfOpen" -> "reopen"
                                [] OTHER -> "stamp")

FailureCount(w) ==
  \/ Atomic(w, "add", [Cb(w) EXCEPT !.failures = @ + 1], "stamp first")
  \/ Atomic(w, "stamp first", [Cb(w) EXCEPT !.last = now], "check")
  \/ Atomic(w, "check", Cb(w), IF Cb(w).failures >= FailureThreshold
                               THEN "trip" ELSE "rest")

FailureTrip(w) ==
  Atomic(w, "trip", [Cb(w) EXCEPT !.state = IF @ = "Closed" THEN "Open" ELSE @], "rest")

\* In half-open one failure reopens; the time is stored after the swap.
FailureReopen(w) ==
  \/ Atomic(w, "reopen", [Cb(w) EXCEPT !.state = IF @ = "HalfOpen" THEN "Open" ELSE @],
            IF Cb(w).state = "HalfOpen" THEN "stamp" ELSE "rest")
  \/ Atomic(w, "stamp", [Cb(w) EXCEPT !.last = now], "rest")

FailureStep(w) == \/ FailureLoad(w) \/ FailureCount(w)
                  \/ FailureTrip(w) \/ FailureReopen(w)

BreakerStep(w) == AllowStep(w) \/ SuccessStep(w) \/ FailureStep(w)

-----------------------------------------------------------------------------
BreakerTypeOK ==
  /\ breaker \in [Routes -> [state: {"Closed", "Open", "HalfOpen"}, failures: Nat,
                             successes: Nat, last: Nat]]
  /\ brk \in [Workers -> [at: STRING, route: Routes, ok: BOOLEAN]]

\* No decision of the breaker is lost to a race: once the calls in progress
\* have returned, a closed breaker is below its failure threshold and a
\* half-open one below its success threshold.  Otherwise RecordFailure's
\* swap, or RecordSuccess's store, was undone by a stale one (circuit.go:90).
BreakerDecides ==
  \A r \in Routes :
    (\A w \in Workers : brk[w].route = r => brk[w].at = "rest") =>
      /\ breaker[r].state = "Closed" => breaker[r].failures < FailureThreshold
      /\ breaker[r].state = "HalfOpen" => breaker[r].successes < SuccessThreshold
=============================================================================
