-------------------------- MODULE StreamMessageQueue --------------------------
(***************************************************************************)
(* The offline queue of a LogicClient (backend/client.go): Enqueue under   *)
(* each policy, Dequeue and RequeueFront as Flush calls them, and Close.   *)
(* Critical sections of the mutex are single steps, except that a blocked  *)
(* Enqueue arms its timer and registers with the condition variable while  *)
(* it holds the mutex, and the timer's Broadcast needs no mutex.  Only the *)
(* number of queued messages matters here; Forwarding follows the messages *)
(* themselves.                                                             *)
(***************************************************************************)
EXTENDS Naturals, Sequences, FiniteSets

CONSTANTS Producers,   \* goroutines that call Enqueue
          Policies,    \* "block" (also timeout), "backpressure", "drop"
          maxSize,     \* capacity
          threshold,   \* backpressureThreshold in percent
          NoOne        \* nobody holds the mutex

ASSUME QueueAssumption ==
  /\ IsFiniteSet(Producers)
  /\ Policies \subseteq {"block", "backpressure", "drop"}
  /\ maxSize \in Nat \ {0}
  /\ threshold \in 1 .. 100
  /\ NoOne \notin Producers

VARIABLES policy,    \* the configured policy, never changed
          len,       \* len(mq.queue)
          lock,      \* the Enqueue that holds mq.mu across steps
          waiters,   \* goroutines in cond.Wait, in the order they arrived
          at,        \* where each producer is
          expired,   \* producers whose deadline has passed
          armed,     \* producers whose timer is set
          hand,      \* whether Flush holds a dequeued message
          closeAt,   \* progress of Close: it unlocks before it broadcasts
          lost       \* whether a message was dropped to make room

queueVars == <<policy, len, lock, waiters, at, expired, armed, hand, closeAt, lost>>

closed == closeAt # "open"

QueueTypeOK ==
  /\ policy \in Policies
  /\ len \in 0 .. maxSize
  /\ lock \in Producers \cup {NoOne}
  /\ waiters \in Seq(Producers)
  /\ at \in [Producers -> {"idle", "arm", "waiting", "woken"}]
  /\ expired \subseteq Producers
  /\ armed \subseteq Producers
  /\ hand \in BOOLEAN
  /\ closeAt \in {"open", "broadcast", "closed"}
  /\ lost \in BOOLEAN

QueueInit ==
  /\ policy \in Policies
  /\ len = 0
  /\ lock = NoOne
  /\ waiters = <<>>
  /\ at = [p \in Producers |-> "idle"]
  /\ expired = {} /\ armed = {}
  /\ hand = FALSE
  /\ closeAt = "open"
  /\ lost = FALSE

Full == len >= maxSize

\* cond.Signal wakes the goroutine that has waited longest, Broadcast all.
Signal ==
  IF waiters = <<>> THEN UNCHANGED <<waiters, at>>
  ELSE /\ waiters' = Tail(waiters)
       /\ at' = [at EXCEPT ![Head(waiters)] = "woken"]

Broadcast ==
  /\ waiters' = <<>>
  /\ at' = [p \in Producers |-> IF at[p] = "waiting" THEN "woken" ELSE at[p]]

-----------------------------------------------------------------------------
(* Enqueue with the block or timeout policy.                               *)

\* The loop's body up to cond.Wait: the timer is armed under the mutex.
Arm(p) ==
  /\ lock' = p
  /\ armed' = armed \cup {p}
  /\ at' = [at EXCEPT ![p] = "arm"]
  /\ UNCHANGED len

EnqueueBlock(p) ==
  /\ policy = "block"
  /\ lock = NoOne
  /\ at[p] = "idle"
  /\ expired' = expired \ {p}
  /\ \/ ~Full /\ len' = len + 1 /\ UNCHANGED <<lock, armed, at>>
     \/ Full /\ ~closed /\ Arm(p)
  /\ UNCHANGED <<policy, waiters, hand, closeAt, lost>>

\* cond.Wait registers the goroutine and releases the mutex.
Wait(p) ==
  /\ at[p] = "arm"
  /\ at' = [at EXCEPT ![p] = "waiting"]
  /\ waiters' = Append(waiters, p)
  /\ lock' = NoOne
  /\ UNCHANGED <<policy, len, expired, armed, hand, closeAt, lost>>

Deadline(p) ==
  /\ at[p] # "idle"
  /\ p \notin expired
  /\ expired' = expired \cup {p}
  /\ UNCHANGED <<policy, len, lock, waiters, at, armed, hand, closeAt, lost>>

\* Mutant: the timer wakes one waiter, who need not be the one it is for.
TimerSignal(p) ==
  /\ p \in armed \cap expired
  /\ armed' = armed \ {p}
  /\ Signal
  /\ UNCHANGED <<policy, len, lock, expired, hand, closeAt, lost>>

\* The timer's callback.
Timer(p) ==
  /\ p \in armed \cap expired
  /\ armed' = armed \ {p}
  /\ Broadcast
  /\ UNCHANGED <<policy, len, lock, expired, hand, closeAt, lost>>

\* Back from cond.Wait with the mutex: take the room there is, fail with
\* ErrConnectionClosing or ErrQueueFull, or wait again.
Wake(p) ==
  /\ at[p] = "woken"
  /\ lock = NoOne
  /\ \/ /\ ~Full \/ closed \/ p \in expired
        /\ len' = IF Full THEN len ELSE len + 1
        /\ at' = [at EXCEPT ![p] = "idle"]
        /\ armed' = armed \ {p}
        /\ UNCHANGED lock
     \/ Full /\ ~closed /\ p \notin expired /\ Arm(p)
  /\ UNCHANGED <<policy, waiters, expired, hand, closeAt, lost>>

-----------------------------------------------------------------------------
(* Enqueue with the other policies.                                        *)

\* ErrBackpressure from the threshold on; then as with the drop policy.
EnqueueBackpressure(p) ==
  /\ policy = "backpressure"
  /\ lock = NoOne
  /\ at[p] = "idle"
  /\ len * 100 < threshold * maxSize
  /\ len' = IF Full THEN len ELSE len + 1
  /\ lost' = (lost \/ Full)
  /\ Signal
  /\ UNCHANGED <<policy, lock, expired, armed, hand, closeAt>>

\* A full queue loses its oldest message.
EnqueueDrop(p) ==
  /\ policy = "drop"
  /\ lock = NoOne
  /\ at[p] = "idle"
  /\ len' = IF Full THEN len ELSE len + 1
  /\ lost' = (lost \/ Full)
  /\ Signal
  /\ UNCHANGED <<policy, lock, expired, armed, hand, closeAt>>

-----------------------------------------------------------------------------
(* Flush and Close.                                                        *)

\* Mutant: the goroutines waiting for room are not told.
DequeueSilent ==
  /\ lock = NoOne
  /\ ~hand /\ len > 0
  /\ len' = len - 1
  /\ hand' = TRUE
  /\ UNCHANGED <<policy, lock, waiters, at, expired, armed, closeAt, lost>>

Dequeue ==
  /\ lock = NoOne
  /\ ~hand /\ len > 0
  /\ len' = len - 1
  /\ hand' = TRUE
  /\ Signal
  /\ UNCHANGED <<policy, lock, expired, armed, closeAt, lost>>

\* Flush got rid of the message: sent, or returned to the pool at Close.
Consume ==
  /\ hand
  /\ hand' = FALSE
  /\ UNCHANGED <<policy, len, lock, waiters, at, expired, armed, closeAt, lost>>

\* Flush failed to send it: never waits for room.
RequeueFront ==
  /\ lock = NoOne
  /\ hand
  /\ hand' = FALSE
  /\ len' = IF Full THEN len ELSE len + 1
  /\ lost' = (lost \/ Full)
  /\ Signal
  /\ UNCHANGED <<policy, lock, expired, armed, closeAt>>

CloseQueue ==
  /\ lock = NoOne
  /\ closeAt = "open"
  /\ closeAt' = "broadcast"
  /\ UNCHANGED <<policy, len, lock, waiters, at, expired, armed, hand, lost>>

CloseBroadcast ==
  /\ closeAt = "broadcast"
  /\ closeAt' = "closed"
  /\ Broadcast
  /\ UNCHANGED <<policy, len, lock, expired, armed, hand, lost>>

-----------------------------------------------------------------------------
Enqueue(p) ==
  \/ EnqueueBlock(p) \/ Wait(p) \/ Wake(p)
  \/ EnqueueBackpressure(p) \/ EnqueueDrop(p)

QueueNext ==
  \/ \E p \in Producers : Enqueue(p) \/ Deadline(p) \/ Timer(p)
  \/ Dequeue \/ Consume \/ RequeueFront
  \/ CloseQueue \/ CloseBroadcast

\* The scheduler runs every goroutine that can run (a mutex that keeps
\* changing hands is granted in the end), timers fire, and a Close that
\* has begun goes on.  Nothing forces Flush to come by.
Fairness ==
  /\ \A p \in Producers :
        /\ WF_queueVars(Wait(p)) /\ SF_queueVars(Wake(p))
        /\ WF_queueVars(Deadline(p)) /\ WF_queueVars(Timer(p))
  /\ WF_queueVars(CloseBroadcast)

QueueSpec == QueueInit /\ [][QueueNext]_queueVars
FairSpec == QueueSpec /\ Fairness

-----------------------------------------------------------------------------
(* Properties.                                                             *)

Woken == {p \in Producers : at[p] = "woken"}

\* Room in the queue never goes unnoticed: while goroutines wait, at least
\* as many others as there is room for have been woken and will take it
\* (one Signal per Dequeue is enough).
RoomHasTaker ==
  waiters # <<>> => maxSize - len <= Cardinality(Woken)

\* Below the default threshold nothing accepted is ever lost: neither
\* Enqueue nor RequeueFront finds the queue full.
BackpressureKeeps == policy = "backpressure" => ~lost

\* Close lets every blocked Enqueue return, whatever the timers do.
CloseUnblocks ==
  \A p \in Producers : (closed /\ at[p] = "waiting") ~> at[p] = "idle"

\* A blocked Enqueue whose timer is still armed is woken: the broadcast of
\* the timer reaches a goroutine that was registered when it fired.
TimedWaitEnds ==
  \A p \in Producers : (at[p] = "waiting" /\ p \in armed) ~> at[p] # "waiting"

\* A blocked Enqueue returns (client.go: "waits at most blockTimeout").
EnqueueReturns ==
  \A p \in Producers : (at[p] = "waiting") ~> at[p] # "waiting"
=============================================================================
