---------------------------- MODULE Degradation ----------------------------
(***************************************************************************)
(* traffic/degradation.go: per route, a ring of the last results; when the *)
(* error rate of a full ring reaches the threshold the route is degraded   *)
(* for a cool-down.  recordResult holds the rule's lock, the filter's      *)
(* Process does not.  A reload replaces the rule of a route, while workers *)
(* keep the rule they looked up.                                           *)
(***************************************************************************)
EXTENDS Clock, FiniteSets, Sequences

CONSTANTS RuleRoutes,     \* the routes that have a rule
          WindowSize,
          ErrorLimit,     \* the least number of errors in a full ring that degrades
          CoolDown,
          MaxReloads,     \* bounds AddRule
          NoWorker

ASSUME DegradationAssumption ==
  /\ WindowSize \in Nat \ {0} /\ ErrorLimit \in 1..WindowSize
  /\ CoolDown \in Nat /\ MaxReloads \in Nat /\ NoWorker \notin Workers

VARIABLES rule,      \* <<route, generation>> -> degradeRule
          current,   \* route -> generation in the rules map
          deg        \* where each worker is inside a call, and on which rule

degradationVars == <<rule, current, deg>>

Ids == RuleRoutes \X (0..MaxReloads)

\* newDegradationRule.  `log` is history: every result recorded.
NewRule == [ring |-> [i \in 0..(WindowSize - 1) |-> FALSE], pos |-> 0, count |-> 0,
            errors |-> 0, degraded |-> FALSE, since |-> 0, lock |-> NoWorker,
            log |-> <<>>]

\* NewDegradationManager.
DegradationInit ==
  /\ rule = [id \in Ids |-> NewRule]
  /\ current = [r \in RuleRoutes |-> 0]
  /\ deg = [w \in Workers |-> [at |-> "rest", id |-> CHOOSE id \in Ids : TRUE,
                               fallback |-> FALSE]]

Rule(w) == rule[deg[w].id]

\* Process: look the rule up and load its flag.
DegradeLoad(w, r) ==
  /\ deg[w].at = "rest"
  /\ deg' = [deg EXCEPT ![w] =
       IF r \notin RuleRoutes THEN [@ EXCEPT !.fallback = FALSE]
       ELSE [at |-> IF rule[<<r, current[r]>>].degraded THEN "cool" ELSE "rest",
             id |-> <<r, current[r]>>, fallback |-> FALSE]]
  /\ UNCHANGED <<rule, current>>

\* Within the cool-down the data become the fallback; after it the flag goes.
DegradeCool(w) ==
  /\ deg[w].at = "cool"
  /\ deg' = [deg EXCEPT ![w].at = IF now - Rule(w).since < CoolDown THEN "rest"
                                  ELSE "recover",
                        ![w].fallback = now - Rule(w).since < CoolDown]
  /\ UNCHANGED <<rule, current>>

DegradeRecover(w) ==
  /\ deg[w].at = "recover"
  /\ rule' = [rule EXCEPT ![deg[w].id].degraded = FALSE]
  /\ deg' = [deg EXCEPT ![w].at = "rest"]
  /\ UNCHANGED current

\* Mutant: the result leaving the ring is not uncounted once the ring is full.
SlideKeepingOld(r, isError) ==
  LET p == r.pos % WindowSize IN
  [r EXCEPT !.ring[p] = isError, !.pos = @ + 1, !.count = @ + 1,
            !.errors = @ + (IF isError THEN 1 ELSE 0),
            !.log = Append(@, isError)]

\* recordResult: the new result replaces the oldest one.
Slide(r, isError) ==
  LET p    == r.pos % WindowSize
      left == IF r.count >= WindowSize /\ r.ring[p] THEN 1 ELSE 0
  IN  [r EXCEPT !.ring[p] = isError, !.pos = @ + 1, !.count = @ + 1,
                !.errors = @ - left + (IF isError THEN 1 ELSE 0),
                !.log = Append(@, isError)]

Tripping(r) == r.count >= WindowSize /\ r.errors >= ErrorLimit /\ ~r.degraded

\* RecordResult up to the swap of the flag.
RecordResult(w, r, isError) ==
  /\ deg[w].at = "rest"
  /\ \/ /\ r \notin RuleRoutes
        /\ UNCHANGED <<rule, deg>>
     \/ /\ r \in RuleRoutes
        /\ LET id   == <<r, current[r]>>
               next == Slide(rule[id], isError)
           IN  /\ rule[id].lock = NoWorker
               /\ IF Tripping(next)
                  THEN /\ rule' = [rule EXCEPT ![id] =
                            [next EXCEPT !.degraded = TRUE, !.lock = w]]
                       /\ deg' = [deg EXCEPT ![w].at = "since", ![w].id = id]
                  ELSE /\ rule' = [rule EXCEPT ![id] = next]
                       /\ UNCHANGED deg
  /\ UNCHANGED current

\* The time is stored after the flag, still under the lock.
StampDegrade(w) ==
  /\ deg[w].at = "since"
  /\ rule' = [rule EXCEPT ![deg[w].id].since = now, ![deg[w].id].lock = NoWorker]
  /\ deg' = [deg EXCEPT ![w].at = "rest"]
  /\ UNCHANGED current

\* AddRule: a reload installs a fresh rule for the route.
AddRule(r) ==
  /\ current[r] < MaxReloads
  /\ current' = [current EXCEPT ![r] = @ + 1]
  /\ UNCHANGED <<rule, deg>>

-----------------------------------------------------------------------------
DegradationTypeOK ==
  /\ rule \in [Ids -> [ring: [0..(WindowSize - 1) -> BOOLEAN], pos: Nat, count: Nat,
                       errors: Int, degraded: BOOLEAN, since: Nat,
                       lock: Workers \cup {NoWorker}, log: Seq(BOOLEAN)]]
  /\ current \in [RuleRoutes -> 0..MaxReloads]
  /\ deg \in [Workers -> [at: {"rest", "cool", "recover", "since"}, id: Ids,
                          fallback: BOOLEAN]]

\* errorCount is exactly the number of errors among the last WindowSize
\* results of the route, before and after the ring wraps: the error rate
\* that recordResult compares with the threshold is the true one.
ErrorWindowExact ==
  \A id \in Ids :
    LET log == rule[id].log IN
    rule[id].errors =
      Cardinality({n \in 1..Len(log) : n > Len(log) - WindowSize /\ log[n]})
=============================================================================
